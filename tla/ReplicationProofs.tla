--------------------------- MODULE ReplicationProofs ---------------------------
(***************************************************************************)
(* SyncInv and the refinement of Delivery, for any number of instances and *)
(* entries.  What makes SyncInv inductive: the two sessions never work on  *)
(* one log (OwnLog); a running session is between two instances (Working); *)
(* logs name instances that were registered, and are no younger than the   *)
(* process (Known); nothing holds or sends an item that does not exist yet *)
(* (Unborn); and an item whose table the session has dealt with is at the  *)
(* target, or still to be sent, or noted as missed (Handled).              *)
(***************************************************************************)
EXTENDS Replication, SequenceTheorems, TLAPS

Kinds == {None, "full", "incremental", "weights"}
Log == [status : {"in_progress", "failed", "completed"}, kind : Kinds,
        src : Instances, tgt : Instances, era : Nat]
Conflict == [log : Nat, entry : Entries, tgt : Instances,
             resolution : {"pending", "keep_source", "keep_target", "keep_both"}]
Bounds == [reg : SUBSET Instances, items : SUBSET Items, logs : Nat, registry : Nat,
           restarts : Nat]

Recorded == left \in Bounds /\ logs \in Seq(Log) /\ conflicts \subseteq Conflict

Runs(s) == sess[s].pc # "idle"

OwnLog == \A s, r \in Sessions : Runs(s) /\ Runs(r) /\ sess[s].log = sess[r].log => s = r

Working ==
  \A s \in Sessions : Runs(s) =>
    /\ sess[s].src \in Instances /\ sess[s].tgt \in Instances
    /\ sess[s].pc \in {"list", "entry"} => sess[s].todo \subseteq Entries

Known ==
  \A n \in DOMAIN logs :
    /\ row[logs[n].src].reg # "new" /\ row[logs[n].tgt].reg # "new"
    /\ logs[n].era >= left.restarts

\* Nothing holds, sends or disputes an item that was not created, and a row whose
\* transaction is under way was not created before.
Unborn ==
  /\ \A i \in Instances, x \in Items : born[x] = 0 => store[i][x] = "none"
  /\ \A s \in Sessions : sess[s].pc \in {"list", "entry"} => \A e \in sess[s].todo : born[e] # 0
  /\ \A c \in conflicts : born[c.entry] # 0
  /\ \A x \in Items : flushed[x] # 0 => born[x] = 0

\* A session at work on its items, as a record, over what is held and what exists.
Covers(w, held, made) ==
  /\ \A x \in Items : w.pc \in After(x) /\ made[x] # 0 =>
       \/ held[w.tgt][x] # "none" \/ x \in w.missed
       \/ w.pc \in {"list", "entry"} /\ x \in w.todo
  /\ w.pc = "entry" => \A e \in w.ids : held[w.tgt][e] # "none"

Handled == \A s \in Sessions : Covers(sess[s], store, born)

LogsInv == OnLog /\ OwnLog /\ Known /\ AbandonedLogs
TypeInv == Typed /\ Recorded /\ Working /\ OnePrimary
ReplicationInv == TypeInv /\ LogsInv /\ Unborn /\ Handled /\ GapsExplained

-----------------------------------------------------------------------------
Rows == [reg : {"new", "in", "gone"}, status : {"active", "offline"},
         beat : Nat, primary : BOOLEAN, mark : Nat]

LEMMA FreshTyped ==
  ASSUME NEW reg \in {"new", "in", "gone"}, NEW beat \in Nat, NEW primary \in BOOLEAN
  PROVE  /\ Fresh(reg, beat, primary) \in Rows
         /\ Fresh(reg, beat, primary).reg = reg /\ Fresh(reg, beat, primary).beat = beat
         /\ Fresh(reg, beat, primary).primary = primary /\ Fresh(reg, beat, primary).mark = 0
BY DEF Fresh, Rows

LEMMA BetweenTyped ==
  ASSUME NEW src \in Instances \cup {None}, NEW queue \in SUBSET (Instances \X Int)
  PROVE  Between(src, queue) \in Session /\ Between(src, queue).pc = "idle"
BY DEF Between, Session

LEMMA IdleTyped == Idle \in Session /\ Idle.pc = "idle"
BY DEF Idle, Between, Session

LEMMA AfterIs ==
  /\ \A x \in Entries : After(x) = {"list", "entry", "threads", "rules", "finish"}
  /\ After(Thread) = {"rules", "finish"} /\ After(Rule) = {"finish"}
  /\ \A x \in Items : "idle" \notin After(x) /\ "finish" \in After(x)
BY ReplicationAssumption DEF After, Items

LEMMA LogsAre ==
  Recorded => DOMAIN logs = 1..Len(logs) /\ Len(logs) \in Nat /\ \A n \in DOMAIN logs : logs[n] \in Log
BY ElementOfSeq, LenProperties DEF Recorded

LEMMA ClosedLog ==
  ASSUME NEW l \in Log, NEW status \in {"failed", "completed"}
  PROVE  LET m == [l EXCEPT !.status = status]
         IN /\ m \in Log /\ m.status = status
            /\ m.src = l.src /\ m.tgt = l.tgt /\ m.era = l.era
BY DEF Log

LEMMA ReplicationInitial == Init => ReplicationInv
<1> SUFFICES ASSUME Init PROVE ReplicationInv
  OBVIOUS
<1> USE ReplicationAssumption
<1>0. /\ clock = 1 /\ born = [x \in Items |-> 0] /\ flushed = [x \in Items |-> 0]
      /\ left \in Starts
      /\ store = [i \in Instances |-> [x \in Items |-> "none"]]
      /\ weights = [i \in Instances |-> [m \in Models |-> IF i = Home THEN "good" ELSE "none"]]
      /\ sess = [s \in Sessions |-> Idle] /\ logs = <<>> /\ conflicts = {} /\ excused = {}
      /\ stale = [check |-> {}, probe |-> {}]
  BY Zenon DEF Init
<1>1. left \in Bounds /\ left.reg \subseteq Instances
  BY <1>0 DEF Bounds, Items
<1>2. row \in [Instances -> [reg : {"new", "in", "gone"}, status : {"active", "offline"},
                            beat : 0..clock, primary : BOOLEAN, mark : 0..clock]]
      /\ \A i \in Instances : row[i].primary => i = Home
  <2>1. row = [i \in Instances |-> IF i \notin left.reg THEN Blank ELSE Fresh("in", 1, i = Home)]
    BY Zenon DEF Init
  <2>2. ASSUME NEW i \in Instances
        PROVE  /\ row[i] \in [reg : {"new", "in", "gone"}, status : {"active", "offline"},
                              beat : 0..1, primary : BOOLEAN, mark : 0..1]
               /\ row[i].primary => i = Home
    <3>1. CASE i \notin left.reg
      BY <2>1, <3>1 DEF Blank, Fresh
    <3>2. CASE i \in left.reg
      <4>1. row[i] = Fresh("in", 1, i = Home) /\ (i = Home) \in BOOLEAN
        BY <2>1, <3>2, Zenon
      <4>2. row[i] \in Rows /\ row[i].beat = 1 /\ row[i].mark = 0 /\ row[i].primary = (i = Home)
        <5> DEFINE home == i = Home
        <5>1. home \in BOOLEAN /\ 1 \in Nat
          BY <4>1
        <5>2. row[i] = Fresh("in", 1, home)
          BY <4>1
        <5> HIDE DEF home
        <5>3. row[i] \in Rows /\ row[i].beat = 1 /\ row[i].mark = 0 /\ row[i].primary = home
          BY <5>1, <5>2, FreshTyped
        <5> QED
          BY <5>3 DEF home
      <4>3. row[i].primary => i = Home
        BY <4>2, Zenon
      <4> QED
        BY <4>2, <4>3 DEF Rows
    <3> QED
      BY <3>1, <3>2
  <2> QED
    BY <1>0, <2>1, <2>2
<1>3. \A s \in Sessions : sess[s].pc = "idle"
  BY <1>0, IdleTyped
<1>4. Typed
  <2>1. clock \in 1..MaxClock /\ born \in [Items -> 0..clock] /\ flushed \in [Items -> 0..clock]
    BY <1>0
  <2>2. store \in [Instances -> [Items -> {"none", "same", "own"}]]
        /\ weights \in [Instances -> [Models -> {"none", "good", "bad"}]]
    BY <1>0
  <2>3. sess \in [Sessions -> Session]
    BY <1>0, IdleTyped
  <2> QED
    BY <1>0, <1>2, <2>1, <2>2, <2>3 DEF Typed
<1>4a. TypeInv
  <2>1. Recorded
    BY <1>0, <1>1 DEF Recorded
  <2>2. Working /\ OnePrimary
    BY <1>2, <1>3 DEF Working, Runs, OnePrimary
  <2> QED
    BY <1>4, <2>1, <2>2 DEF TypeInv
<1>5. LogsInv
  BY <1>0, <1>3 DEF LogsInv, OnLog, OwnLog, Known, AbandonedLogs, Runs
<1>6. Unborn /\ Handled /\ GapsExplained
  BY <1>0, <1>3, AfterIs DEF Unborn, Handled, Covers, GapsExplained
<1> QED
  BY <1>4a, <1>5, <1>6 DEF ReplicationInv

-----------------------------------------------------------------------------
\* The logs, for the three kinds of steps that sessions make: none, one that goes on,
\* and one that ends with its log closed.
LEMMA LogsStay ==
  ASSUME LogsInv, UNCHANGED <<sess, logs>>, left'.restarts = left.restarts,
         \A i \in Instances : row[i].reg # "new" => row'[i].reg # "new" /\ (row'[i].reg = "in" => row[i].reg = "in"),
         Recorded
  PROVE  LogsInv'
<1>1. OnLog' /\ OwnLog'
  BY DEF LogsInv, OnLog, OwnLog, Runs
<1>2. \A n \in DOMAIN logs : logs[n].src \in Instances /\ logs[n].tgt \in Instances
  BY LogsAre DEF Log
<1>3. Known'
  BY <1>2 DEF LogsInv, Known
<1>4. AbandonedLogs'
  BY <1>2 DEF LogsInv, AbandonedLogs, Known, Registered
<1> QED
  BY <1>1, <1>3, <1>4 DEF LogsInv

LEMMA LogsGoOn ==
  ASSUME LogsInv, TypeInv, NEW s \in Sessions, NEW X \in Session, sess' = [sess EXCEPT ![s] = X],
         Runs(s), X.pc # "idle",
         X.log = sess[s].log, X.kind = sess[s].kind, X.src = sess[s].src, X.tgt = sess[s].tgt,
         UNCHANGED <<logs, row, left>>
  PROVE  LogsInv'
<1>1. sess' \in [Sessions -> Session] /\ sess'[s] = X /\ \A r \in Sessions \ {s} : sess'[r] = sess[r]
  BY DEF TypeInv, Typed
<1>2. \A r \in Sessions : /\ (sess'[r].pc # "idle" <=> sess[r].pc # "idle") /\ sess'[r].log = sess[r].log
                          /\ sess'[r].kind = sess[r].kind
                          /\ sess'[r].src = sess[r].src /\ sess'[r].tgt = sess[r].tgt
  BY <1>1 DEF Runs
<1>3. OnLog' /\ OwnLog'
  BY <1>2 DEF LogsInv, OnLog, OwnLog, Runs
<1>4. Known' /\ AbandonedLogs'
  BY <1>2 DEF LogsInv, Known, AbandonedLogs, Registered
<1> QED
  BY <1>3, <1>4 DEF LogsInv

LEMMA LogsClose ==
  ASSUME LogsInv, TypeInv, NEW s \in Sessions, NEW X \in Session, sess' = [sess EXCEPT ![s] = X],
         Runs(s), X.pc = "idle", NEW status \in {"failed", "completed"}, SetLog(s, status),
         UNCHANGED left,
         \A i \in Instances : row'[i].reg = row[i].reg
  PROVE  LogsInv' /\ logs' \in Seq(Log)
<1> DEFINE n == sess[s].log
<1>1. /\ sess'[s] = X /\ \A r \in Sessions \ {s} : sess'[r] = sess[r]
      /\ n \in DOMAIN logs /\ \A r \in Sessions \ {s} : Runs(r) => sess[r].log # n
  BY DEF TypeInv, Typed, LogsInv, OnLog, OwnLog, Runs
<1>2. /\ logs \in Seq(Log) /\ logs[n] \in Log
      /\ \A k \in DOMAIN logs : logs[k] \in Log
  BY <1>1, LogsAre DEF TypeInv, Recorded
<1> DEFINE L == [logs[n] EXCEPT !.status = status]
<1>3a. /\ L \in Log /\ L.status = status
       /\ L.src = logs[n].src /\ L.tgt = logs[n].tgt /\ L.era = logs[n].era
  BY <1>2, ClosedLog
<1>3b. logs' = [logs EXCEPT ![n] = L]
  BY Zenon DEF SetLog
<1> HIDE DEF L
<1>3. /\ logs' \in Seq(Log) /\ DOMAIN logs' = DOMAIN logs
      /\ logs'[n].status = status
      /\ \A k \in DOMAIN logs : /\ k # n => logs'[k] = logs[k]
                                /\ logs'[k].src = logs[k].src /\ logs'[k].tgt = logs[k].tgt
                                /\ logs'[k].era = logs[k].era
  BY <1>1, <1>2, <1>3a, <1>3b, ExceptSeq
<1>4. OnLog' /\ OwnLog'
  BY <1>1, <1>3 DEF LogsInv, OnLog, OwnLog, Runs
<1>5. \A k \in DOMAIN logs : logs[k].src \in Instances /\ logs[k].tgt \in Instances
  BY <1>2 DEF Log
<1>6. Known'
  BY <1>3, <1>5 DEF LogsInv, Known
<1>7. AbandonedLogs'
  BY <1>1, <1>3, <1>5 DEF LogsInv, AbandonedLogs, Registered, Runs
<1> QED
  BY <1>3, <1>4, <1>6, <1>7 DEF LogsInv

-----------------------------------------------------------------------------
\* The other parts of the invariant, when an action leaves alone what they speak of.
Grows == \A i \in Instances, x \in Items : store[i][x] # "none" => store'[i][x] # "none"

LEMMA GapsStay ==
  ASSUME GapsExplained, Grows, UNCHANGED born, excused \subseteq excused', TypeInv,
         \A i \in Instances : row'[i].mark \in Int /\ row'[i].mark <= row[i].mark
  PROVE  GapsExplained'
<1>1. \A i \in Instances, x \in Items : born[x] \in Int /\ row[i].mark \in Int
  BY DEF TypeInv, Typed
<1> QED
  BY <1>1 DEF GapsExplained, Grows

LEMMA TypeOn ==
  ASSUME TypeInv, NEW s \in Sessions, NEW X \in Session, sess' = [sess EXCEPT ![s] = X],
         X.pc # "idle" => /\ X.src \in Instances /\ X.tgt \in Instances
                          /\ X.pc \in {"list", "entry"} => X.todo \subseteq Entries,
         UNCHANGED <<clock, born, flushed, row, stale>>, Recorded',
         store' \in [Instances -> [Items -> {"none", "same", "own"}]],
         weights' \in [Instances -> [Models -> {"none", "good", "bad"}]],
         excused' \subseteq Instances \X Items
  PROVE  TypeInv'
<1>1. /\ sess' \in [Sessions -> Session]
      /\ sess'[s] = X /\ \A r \in Sessions \ {s} : sess'[r] = sess[r]
  BY DEF TypeInv, Typed
<1>2. Typed'
  BY <1>1 DEF TypeInv, Typed
<1>3. Working'
  BY <1>1 DEF TypeInv, Working, Runs
<1> QED
  BY <1>2, <1>3 DEF TypeInv, OnePrimary

LEMMA CoversStay ==
  ASSUME TypeInv, Handled, NEW r \in Sessions, Grows
  PROVE  Covers(sess[r], store', born)
<1>1. /\ sess[r].pc # "idle" => sess[r].tgt \in Instances
      /\ sess[r].ids \subseteq Items
  BY DEF TypeInv, Working, Runs, Typed, Session, Items
<1>2. Covers(sess[r], store, born)
  BY DEF Handled
<1>3. sess[r].pc = "entry" => \A e \in sess[r].ids : store'[sess[r].tgt][e] # "none"
  BY <1>1, <1>2 DEF Covers, Grows
<1>4. \A x \in Items : sess[r].pc \in After(x) /\ store[sess[r].tgt][x] # "none"
        => store'[sess[r].tgt][x] # "none"
  BY <1>1, AfterIs DEF Grows
<1> QED
  BY <1>2, <1>3, <1>4 DEF Covers

LEMMA HandledOn ==
  ASSUME TypeInv, Handled, NEW s \in Sessions, NEW X \in Session, sess' = [sess EXCEPT ![s] = X],
         UNCHANGED born, Grows,
         X.pc # "idle" => Covers(X, store', born)
  PROVE  Handled'
<1>1. sess'[s] = X /\ \A r \in Sessions \ {s} : sess'[r] = sess[r]
  BY DEF TypeInv, Typed
<1>2. Covers(X, store', born)
  BY AfterIs DEF Covers
<1>3. \A r \in Sessions : Covers(sess'[r], store', born')
  BY <1>1, <1>2, CoversStay
<1> QED
  BY <1>3 DEF Handled

LEMMA UnbornOn ==
  ASSUME TypeInv, Unborn, NEW s \in Sessions, NEW X \in Session, sess' = [sess EXCEPT ![s] = X],
         UNCHANGED <<born, flushed>>,
         X.pc \in {"list", "entry"} => \A e \in X.todo : born[e] # 0,
         \A i \in Instances, x \in Items : store'[i][x] # "none" => store[i][x] # "none" \/ born[x] # 0,
         \A c \in conflicts' \ conflicts : born[c.entry] # 0
  PROVE  Unborn'
<1>1. sess'[s] = X /\ \A r \in Sessions \ {s} : sess'[r] = sess[r]
  BY DEF TypeInv, Typed
<1> QED
  BY <1>1 DEF Unborn

LEMMA RegistryKeeps ==
  ASSUME ReplicationInv, RegistryOnly, left' \in Bounds, left'.restarts = left.restarts,
         stale' \in [check : SUBSET Instances, probe : SUBSET Instances],
         row' \in [Instances -> [reg : {"new", "in", "gone"}, status : {"active", "offline"},
                            beat : 0..clock, primary : BOOLEAN, mark : 0..clock]],
         \A i, j \in Instances : row'[i].primary /\ row'[j].primary => i = j,
         \A i \in Instances :
           /\ row[i].reg # "new" => row'[i].reg # "new" /\ (row'[i].reg = "in" => row[i].reg = "in")
           /\ row'[i].mark <= row[i].mark
  PROVE  ReplicationInv'
<1> USE DEF ReplicationInv
<1>1. TypeInv'
  BY DEF TypeInv, Typed, Recorded, Working, Runs, OnePrimary, RegistryOnly, syncVars
<1>2. LogsInv'
  BY LogsStay DEF TypeInv, RegistryOnly, syncVars
<1>3. Unborn' /\ Handled'
  BY DEF Unborn, Handled, Covers, RegistryOnly, syncVars
<1>4. GapsExplained'
  BY GapsStay DEF TypeInv, Typed, RegistryOnly, Grows
<1> QED
  BY <1>1, <1>2, <1>3, <1>4

-----------------------------------------------------------------------------
\* Steps of a session that goes on, and of one that ends with its log closed.
LEMMA StepGoesOn ==
  ASSUME ReplicationInv, NEW s \in Sessions, NEW X \in Session, sess' = [sess EXCEPT ![s] = X],
         Runs(s), X.pc # "idle",
         X.log = sess[s].log, X.kind = sess[s].kind, X.src = sess[s].src, X.tgt = sess[s].tgt,
         X.pc \in {"list", "entry"} => X.todo \subseteq Entries /\ \A e \in X.todo : born[e] # 0,
         Covers(X, store', born), Grows,
         store' \in [Instances -> [Items -> {"none", "same", "own"}]],
         \A i \in Instances, x \in Items : store'[i][x] # "none" => store[i][x] # "none" \/ born[x] # 0,
         weights' \in [Instances -> [Models -> {"none", "good", "bad"}]],
         conflicts' \subseteq Conflict, \A c \in conflicts' \ conflicts : born[c.entry] # 0,
         UNCHANGED <<clock, born, flushed, row, logs, stale, excused, left>>
  PROVE  ReplicationInv'
<1> USE DEF ReplicationInv
<1>1. X.src \in Instances /\ X.tgt \in Instances
  BY DEF TypeInv, Working, Runs
<1>2. Recorded'
  BY DEF TypeInv, Recorded
<1>3. excused' \subseteq Instances \X Items
  BY DEF TypeInv, Typed
<1>4. TypeInv'
  BY <1>1, <1>2, <1>3, TypeOn
<1>5. LogsInv'
  BY LogsGoOn
<1>6. Unborn'
  BY UnbornOn
<1>7. Handled'
  BY HandledOn
<1>8. GapsExplained'
  BY GapsStay DEF TypeInv, Typed
<1> QED
  BY <1>4, <1>5, <1>6, <1>7, <1>8

LEMMA CloseTyped ==
  ASSUME TypeInv, NEW s \in Sessions
  PROVE  Close(s) \in Session /\ Close(s).pc = "idle"
<1>1. sess[s].src \in Instances \cup {None} /\ sess[s].queue \in SUBSET (Instances \X Int)
  BY DEF TypeInv, Typed, Session
<1> QED
  BY <1>1, BetweenTyped DEF Close

LEMMA StepCloses ==
  ASSUME ReplicationInv, NEW s \in Sessions, sess' = [sess EXCEPT ![s] = Close(s)], Runs(s),
         NEW status \in {"failed", "completed"}, SetLog(s, status),
         weights' \in [Instances -> [Models -> {"none", "good", "bad"}]],
         UNCHANGED <<clock, born, flushed, row, store, conflicts, stale, excused, left>>
  PROVE  ReplicationInv'
<1> USE DEF ReplicationInv
<1>0. TypeInv /\ LogsInv
  OBVIOUS
<1>1. Close(s) \in Session /\ Close(s).pc = "idle"
  BY <1>0, CloseTyped
<1>2. LogsInv' /\ logs' \in Seq(Log)
  <2>1. \A i \in Instances : row'[i].reg = row[i].reg
    OBVIOUS
  <2> QED
    BY <1>0, <1>1, <2>1, LogsClose
<1>3. Recorded'
  BY <1>0, <1>2 DEF TypeInv, Recorded
<1>4. TypeInv'
  <2>1. store' \in [Instances -> [Items -> {"none", "same", "own"}]] /\ excused' \subseteq Instances \X Items
    BY DEF TypeInv, Typed
  <2> QED
    BY <1>0, <1>1, <1>3, <2>1, TypeOn
<1>5. Unborn' /\ Handled'
  <2>1. Grows
    BY DEF Grows
  <2>2. Handled'
    BY <1>0, <1>1, <2>1, HandledOn
  <2>3. Unborn'
    BY <1>0, <1>1, UnbornOn
  <2> QED
    BY <2>2, <2>3
<1>6. GapsExplained'
  BY <1>0, GapsStay DEF TypeInv, Typed, Grows
<1> QED
  BY <1>2, <1>4, <1>5, <1>6

LEMMA FailKeeps ==
  ASSUME ReplicationInv, NEW s \in Sessions, Runs(s), Fail(s), SyncOnly
  PROVE  ReplicationInv'
<1>1. weights' \in [Instances -> [Models -> {"none", "good", "bad"}]]
  BY DEF ReplicationInv, TypeInv, Typed, Fail
<1>2. sess' = [sess EXCEPT ![s] = Close(s)] /\ SetLog(s, "failed")
  BY DEF Fail
<1> QED
  BY <1>1, <1>2, StepCloses DEF Fail, SyncOnly

LEMMA StoreWith ==
  ASSUME TypeInv, NEW i \in Instances, NEW x \in Items, NEW sent \in BOOLEAN,
         store' = IF sent THEN [store EXCEPT ![i][x] = "same"] ELSE store
  PROVE  /\ store' \in [Instances -> [Items -> {"none", "same", "own"}]] /\ Grows
         /\ sent => store'[i][x] = "same"
         /\ \A j \in Instances, y \in Items : <<j, y>> # <<i, x>> => store'[j][y] = store[j][y]
         /\ ~sent => store' = store
<1>1. store \in [Instances -> [Items -> {"none", "same", "own"}]]
  BY DEF TypeInv, Typed
<1>2. CASE sent
  BY <1>1, <1>2 DEF Grows
<1>3. CASE ~sent
  BY <1>1, <1>3 DEF Grows
<1> QED
  BY <1>2, <1>3

LEMMA SelectEntriesKeeps ==
  ASSUME ReplicationInv, NEW s \in Sessions, SelectEntries(s)
  PROVE  ReplicationInv'
<1> DEFINE found  == {e \in Entries : Selected(s, e)}
           done   == found = {} \/ sess[s].tgt \notin Api
           todo   == IF done THEN {} ELSE found
           pc     == IF done THEN "threads" ELSE "list"
           missed == sess[s].missed \cup PassedOver(s, Entries)
           X      == [sess[s] EXCEPT !.todo = todo, !.pc = pc, !.missed = missed]
<1>0. TypeInv /\ sess[s] \in Session
  BY DEF ReplicationInv, TypeInv, Typed
<1>1. sess' = [sess EXCEPT ![s] = X]
  BY <1>0, Zenon DEF SelectEntries, TypeInv, Typed
<1>2. missed \in SUBSET Items /\ todo \in SUBSET Entries
  BY <1>0 DEF Session, PassedOver, Existing
<1>3. pc \in {"list", "threads"} /\ pc # "idle" /\ pc # "entry"
  OBVIOUS
<1>4. \A x \in Entries : born[x] # 0 => x \in missed \/ (pc = "list" /\ x \in todo)
  <2>1. \A x \in Entries : born[x] \in Int /\ sess[s].since \in Int
    BY <1>0 DEF TypeInv, Typed, Session, Items
  <2> QED
    BY <2>1 DEF Selected, PassedOver, Existing, Items
<1>5. \A e \in todo : born[e] # 0
  BY DEF Selected
<1> HIDE DEF missed, todo, pc
<1>6. X = [sess[s] EXCEPT !.todo = todo, !.pc = pc, !.missed = missed]
  BY Zenon
<1> HIDE DEF X
<1>7. /\ X \in Session /\ X.pc = pc /\ X.todo = todo /\ X.missed = missed
      /\ X.log = sess[s].log /\ X.kind = sess[s].kind /\ X.src = sess[s].src /\ X.tgt = sess[s].tgt
  BY <1>0, <1>2, <1>3, <1>6, Zenon DEF Session
<1>8. Runs(s) /\ UNCHANGED <<clock, born, flushed, row, store, weights, logs, conflicts, stale, excused, left>>
  BY DEF SelectEntries, At, Runs, SyncOnly
<1>9. Covers(X, store', born)
  BY <1>3, <1>4, <1>7, AfterIs DEF Covers, Items
<1>10. Grows /\ conflicts' \subseteq Conflict /\ store' \in [Instances -> [Items -> {"none", "same", "own"}]]
       /\ weights' \in [Instances -> [Models -> {"none", "good", "bad"}]]
  BY <1>0, <1>8 DEF Grows, TypeInv, Typed, Recorded
<1> QED
  BY <1>1, <1>2, <1>3, <1>5, <1>7, <1>8, <1>9, <1>10, StepGoesOn

LEMMA GetRemoteEntryIdsKeeps ==
  ASSUME ReplicationInv, NEW s \in Sessions, NEW answer \in Answers, GetRemoteEntryIds(s, answer)
  PROVE  ReplicationInv'
<1> DEFINE ids == IF answer = "ok" THEN {e \in Entries : store[sess[s].tgt][e] # "none"} ELSE {}
           X   == [sess[s] EXCEPT !.pc = "entry", !.ids = ids]
<1>0. /\ TypeInv /\ sess[s] \in Session /\ Runs(s) /\ sess[s].pc = "list"
      /\ Covers(sess[s], store, born) /\ sess[s].todo \subseteq Entries
      /\ \A e \in sess[s].todo : born[e] # 0
  BY DEF ReplicationInv, TypeInv, Typed, GetRemoteEntryIds, At, Runs, Handled, Working, Unborn
<1>1. CASE answer = "garbage"
  BY <1>0, <1>1, FailKeeps DEF GetRemoteEntryIds
<1>2. CASE answer # "garbage"
  <2>1. sess' = [sess EXCEPT ![s] = X]
    BY <1>0, <1>2, Zenon DEF GetRemoteEntryIds, TypeInv, Typed
  <2>2. ids \in SUBSET Entries /\ \A e \in ids : store[sess[s].tgt][e] # "none"
    OBVIOUS
  <2> HIDE DEF ids
  <2>3. X = [sess[s] EXCEPT !.pc = "entry", !.ids = ids]
    BY Zenon
  <2> HIDE DEF X
  <2>4. /\ X \in Session /\ X.pc = "entry" /\ X.todo = sess[s].todo /\ X.ids = ids
        /\ X.missed = sess[s].missed
        /\ X.log = sess[s].log /\ X.kind = sess[s].kind /\ X.src = sess[s].src /\ X.tgt = sess[s].tgt
    BY <1>0, <2>2, <2>3, Zenon DEF Session
  <2>5. UNCHANGED <<clock, born, flushed, row, store, weights, logs, conflicts, stale, excused, left>>
    BY <1>2 DEF GetRemoteEntryIds, SyncOnly
  <2>6. Covers(X, store', born)
    BY <1>0, <2>2, <2>4, <2>5, AfterIs DEF Covers, Items
  <2>7. Grows /\ conflicts' \subseteq Conflict /\ store' \in [Instances -> [Items -> {"none", "same", "own"}]]
        /\ weights' \in [Instances -> [Models -> {"none", "good", "bad"}]]
    BY <1>0, <2>5 DEF Grows, TypeInv, Typed, Recorded
  <2> QED
    BY <1>0, <2>1, <2>4, <2>5, <2>6, <2>7, StepGoesOn
<1> QED
  BY <1>1, <1>2

\* What a session at an entry of its list knows.
LEMMA AtEntry ==
  ASSUME ReplicationInv, NEW s \in Sessions, At(s, "entry")
  PROVE  /\ TypeInv /\ sess[s] \in Session /\ Runs(s) /\ sess[s].tgt \in Instances
         /\ Covers(sess[s], store, born) /\ sess[s].todo \subseteq Entries
         /\ \A e \in sess[s].todo : born[e] # 0
BY DEF ReplicationInv, TypeInv, Typed, At, Runs, Handled, Working, Unborn

LEMMA CheckEntryConflictKeeps ==
  ASSUME ReplicationInv, NEW s \in Sessions, NEW e \in Entries, NEW answer \in Answers,
         CheckEntryConflict(s, e, answer)
  PROVE  ReplicationInv'
<1> DEFINE X == Rest(s, e)
           pc == IF sess[s].todo = {e} THEN "threads" ELSE "entry"
           todo == sess[s].todo \ {e}
           new == [log |-> sess[s].log, entry |-> e, tgt |-> sess[s].tgt, resolution |-> "pending"]
<1>0. At(s, "entry") /\ e \in sess[s].todo /\ e \in sess[s].ids
  BY DEF CheckEntryConflict
<1>1. /\ TypeInv /\ sess[s] \in Session /\ Runs(s) /\ sess[s].tgt \in Instances
      /\ Covers(sess[s], store, born) /\ sess[s].todo \subseteq Entries
      /\ \A f \in sess[s].todo : born[f] # 0
  BY <1>0, AtEntry
<1>2. CASE answer = "garbage"
  BY <1>1, <1>2, FailKeeps DEF CheckEntryConflict
<1>3. CASE answer # "garbage"
  <2>1. sess' = [sess EXCEPT ![s] = X]
    BY <1>3 DEF CheckEntryConflict
  <2>2. todo \in SUBSET Entries /\ pc \in {"threads", "entry"}
        /\ (pc = "threads" => sess[s].todo = {e}) /\ sess[s].pc = "entry"
    BY <1>0, <1>1 DEF At
  <2> HIDE DEF pc
  <2>3. X = [sess[s] EXCEPT !.todo = todo, !.pc = pc]
    BY Zenon DEF Rest, pc
  <2> HIDE DEF X, todo
  <2>4. /\ X \in Session /\ X.pc = pc /\ X.todo = todo /\ X.ids = sess[s].ids
        /\ X.missed = sess[s].missed
        /\ X.log = sess[s].log /\ X.kind = sess[s].kind /\ X.src = sess[s].src /\ X.tgt = sess[s].tgt
    BY <1>1, <2>2, <2>3, Zenon DEF Session
  <2>5. UNCHANGED <<clock, born, flushed, row, store, weights, logs, stale, excused, left>>
    BY <1>3 DEF CheckEntryConflict, SyncOnly
  <2>6. conflicts' \subseteq conflicts \cup {new}
    BY <1>3 DEF CheckEntryConflict
  <2>7. new \in Conflict /\ born[new.entry] # 0
    BY <1>0, <1>1 DEF Conflict, Session
  <2> HIDE DEF new
  <2>8. conflicts' \subseteq Conflict /\ \A c \in conflicts' \ conflicts : born[c.entry] # 0
    BY <1>1, <2>6, <2>7 DEF TypeInv, Recorded
  <2>9. Covers(X, store', born)
    <3>1. ASSUME NEW x \in Items, X.pc \in After(x), born[x] # 0
          PROVE  store[X.tgt][x] # "none" \/ x \in X.missed \/ (X.pc = "entry" /\ x \in X.todo)
      <4>1. x \in Entries /\ sess[s].pc \in After(x)
        BY <2>2, <2>4, <3>1, AfterIs DEF Items
      <4>2. store[X.tgt][x] # "none" \/ x \in X.missed \/ x \in sess[s].todo
        BY <1>1, <2>2, <2>4, <3>1, <4>1 DEF Covers
      <4>3. store[X.tgt][e] # "none"
        BY <1>0, <1>1, <2>2, <2>4 DEF Covers
      <4> QED
        BY <2>2, <2>4, <4>2, <4>3 DEF todo
    <3>2. X.pc = "entry" => \A f \in X.ids : store[X.tgt][f] # "none"
      BY <1>1, <2>2, <2>4 DEF Covers
    <3> QED
      BY <2>4, <2>2, <2>5, <3>1, <3>2 DEF Covers
  <2>10. Grows /\ store' \in [Instances -> [Items -> {"none", "same", "own"}]]
        /\ weights' \in [Instances -> [Models -> {"none", "good", "bad"}]]
    BY <1>1, <2>5 DEF Grows, TypeInv, Typed
  <2>11. todo \subseteq sess[s].todo /\ X.pc # "idle"
    BY <2>2, <2>4 DEF todo
  <2> QED
    BY <1>1, <2>1, <2>4, <2>5, <2>8, <2>9, <2>10, <2>11, StepGoesOn
<1> QED
  BY <1>2, <1>3

LEMMA TransferEntryKeeps ==
  ASSUME ReplicationInv, NEW s \in Sessions, NEW e \in Entries, NEW answer \in {"ok", "refused"},
         TransferEntry(s, e, answer)
  PROVE  ReplicationInv'
<1> DEFINE pc == IF sess[s].todo = {e} THEN "threads" ELSE "entry"
           todo == sess[s].todo \ {e}
           missed == IF answer = "ok" THEN sess[s].missed ELSE sess[s].missed \cup {e}
           sent == answer = "ok"
           X == [sess[s] EXCEPT !.todo = todo, !.pc = pc, !.missed = missed]
<1>0. At(s, "entry") /\ e \in sess[s].todo
  BY DEF TransferEntry
<1>1. /\ TypeInv /\ sess[s] \in Session /\ Runs(s) /\ sess[s].tgt \in Instances
      /\ Covers(sess[s], store, born) /\ sess[s].todo \subseteq Entries
      /\ \A f \in sess[s].todo : born[f] # 0
  BY <1>0, AtEntry
<1>2. sess' = [sess EXCEPT ![s] = [Rest(s, e) EXCEPT !.missed = IF answer = "ok" THEN @ ELSE @ \cup {e}]]
  BY DEF TransferEntry
<1>3. sess' = [sess EXCEPT ![s] = X]
  BY <1>1, <1>2, Zenon DEF Rest, Session
<1>4. todo \in SUBSET Entries /\ pc \in {"threads", "entry"} /\ missed \in SUBSET Items
      /\ (pc = "threads" => sess[s].todo = {e}) /\ sess[s].pc = "entry" /\ todo \subseteq sess[s].todo
  BY <1>0, <1>1 DEF At, Session, Items
<1>5. e \in missed \/ sent
  OBVIOUS
<1>6. sess[s].missed \subseteq missed /\ \A x \in sess[s].todo : x \in todo \/ x = e
  OBVIOUS
<1>7. store' = IF sent THEN [store EXCEPT ![sess[s].tgt][e] = "same"] ELSE store
  BY DEF TransferEntry
<1>8. sent \in BOOLEAN /\ e \in Items
  BY DEF Items
<1>9. UNCHANGED <<clock, born, flushed, row, weights, logs, conflicts, stale, excused, left>>
  BY DEF TransferEntry, SyncOnly
<1> HIDE DEF pc, todo, missed, sent
<1>10. X = [sess[s] EXCEPT !.todo = todo, !.pc = pc, !.missed = missed]
  BY Zenon
<1> HIDE DEF X
<1>11. /\ X \in Session /\ X.pc = pc /\ X.todo = todo /\ X.ids = sess[s].ids /\ X.missed = missed
       /\ X.log = sess[s].log /\ X.kind = sess[s].kind /\ X.src = sess[s].src /\ X.tgt = sess[s].tgt
  BY <1>1, <1>4, <1>10, Zenon DEF Session
<1>12. /\ store' \in [Instances -> [Items -> {"none", "same", "own"}]] /\ Grows
       /\ sent => store'[sess[s].tgt][e] = "same"
       /\ \A j \in Instances, y \in Items : <<j, y>> # <<sess[s].tgt, e>> => store'[j][y] = store[j][y]
       /\ ~sent => store' = store
  BY <1>1, <1>7, <1>8, StoreWith
<1>13. \A i \in Instances, x \in Items : store'[i][x] # "none" => store[i][x] # "none" \/ born[x] # 0
  BY <1>0, <1>1, <1>12
<1>14. Covers(X, store', born)
  <2>1. ASSUME NEW x \in Items, X.pc \in After(x), born[x] # 0
        PROVE  store'[X.tgt][x] # "none" \/ x \in X.missed \/ (X.pc = "entry" /\ x \in X.todo)
    <3>1. x \in Entries /\ sess[s].pc \in After(x)
      BY <1>4, <1>11, <2>1, AfterIs DEF Items
    <3>2. store[X.tgt][x] # "none" \/ x \in sess[s].missed \/ x \in sess[s].todo
      BY <1>1, <1>4, <1>11, <2>1, <3>1 DEF Covers
    <3>3. store[X.tgt][x] # "none" => store'[X.tgt][x] # "none"
      BY <1>1, <1>11, <1>12 DEF Grows
    <3>4. store'[X.tgt][e] # "none" \/ e \in X.missed
      BY <1>5, <1>11, <1>12
    <3> QED
      BY <1>4, <1>6, <1>11, <3>2, <3>3, <3>4
  <2>2. X.pc = "entry" => \A f \in X.ids : store'[X.tgt][f] # "none"
    <3>1. \A f \in sess[s].ids : f \in Items /\ store[X.tgt][f] # "none"
      BY <1>1, <1>4, <1>11 DEF Covers, Session, Items
    <3> QED
      BY <1>1, <1>11, <1>12, <3>1 DEF Grows
  <2> QED
    BY <1>4, <1>11, <2>1, <2>2 DEF Covers
<1>15. conflicts' \subseteq Conflict /\ weights' \in [Instances -> [Models -> {"none", "good", "bad"}]]
       /\ X.pc # "idle"
  BY <1>1, <1>4, <1>9, <1>11 DEF TypeInv, Typed, Recorded
<1> QED
  BY <1>1, <1>3, <1>4, <1>9, <1>11, <1>12, <1>13, <1>14, <1>15, StepGoesOn

LEMMA PushKeeps ==
  ASSUME ReplicationInv, NEW s \in Sessions, NEW x \in {Thread, Rule}, NEW answer \in {"ok", "refused"},
         NEW next \in {"rules", "finish"}, Push(s, x, answer, next),
         sess[s].pc \in {"threads", "rules"},
         \A y \in Items \ {x} : next \in After(y) => sess[s].pc \in After(y)
  PROVE  ReplicationInv'
<1> DEFINE sent == Selected(s, x) /\ sess[s].tgt \in Api /\ answer = "ok"
           missed == sess[s].missed \cup PassedOver(s, {x}) \cup (IF answer = "ok" THEN {} ELSE Existing \cap {x})
           X == [sess[s] EXCEPT !.pc = next, !.missed = missed]
<1>1. /\ TypeInv /\ sess[s] \in Session /\ Runs(s) /\ sess[s].tgt \in Instances
      /\ Covers(sess[s], store, born)
  BY DEF ReplicationInv, TypeInv, Typed, Runs, Handled, Working
<1>2. sess' = [sess EXCEPT ![s] = X]
  BY <1>1, Zenon DEF Push, TypeInv, Typed
<1>3. x \in Items /\ sess[s].missed \subseteq missed /\ missed \in SUBSET Items /\ sent \in BOOLEAN
  BY <1>1 DEF Items, Session, PassedOver, Existing
<1>4. born[x] # 0 => sent \/ x \in missed
  <2>1. born[x] \in Int /\ sess[s].since \in Int
    BY <1>1, <1>3 DEF TypeInv, Typed, Session
  <2> QED
    BY <1>3, <2>1 DEF Selected, PassedOver, Existing
<1>5. sent => born[x] # 0
  BY DEF Selected
<1>6. store' = IF sent THEN [store EXCEPT ![sess[s].tgt][x] = "same"] ELSE store
  BY DEF Push
<1>7. UNCHANGED <<clock, born, flushed, row, weights, logs, conflicts, stale, excused, left>>
  BY DEF Push, SyncOnly
<1> HIDE DEF sent, missed
<1>8. X = [sess[s] EXCEPT !.pc = next, !.missed = missed]
  BY Zenon
<1> HIDE DEF X
<1>9. /\ X \in Session /\ X.pc = next /\ X.missed = missed
      /\ X.log = sess[s].log /\ X.kind = sess[s].kind /\ X.src = sess[s].src /\ X.tgt = sess[s].tgt
  BY <1>1, <1>3, <1>8, Zenon DEF Session
<1>10. /\ store' \in [Instances -> [Items -> {"none", "same", "own"}]] /\ Grows
       /\ sent => store'[sess[s].tgt][x] = "same"
       /\ \A j \in Instances, y \in Items : <<j, y>> # <<sess[s].tgt, x>> => store'[j][y] = store[j][y]
       /\ ~sent => store' = store
  BY <1>1, <1>3, <1>6, StoreWith
<1>11. \A i \in Instances, y \in Items : store'[i][y] # "none" => store[i][y] # "none" \/ born[y] # 0
  BY <1>1, <1>5, <1>10
<1>12. Covers(X, store', born)
  <2>1. ASSUME NEW y \in Items, X.pc \in After(y), born[y] # 0
        PROVE  store'[X.tgt][y] # "none" \/ y \in X.missed
    <3>1. CASE y = x
      BY <1>4, <1>9, <1>10, <2>1, <3>1
    <3>2. CASE y # x
      BY <1>1, <1>3, <1>9, <1>10, <2>1, <3>2 DEF Covers, Grows
    <3> QED
      BY <3>1, <3>2
  <2> QED
    BY <1>9, <2>1 DEF Covers
<1>13. conflicts' \subseteq Conflict /\ weights' \in [Instances -> [Models -> {"none", "good", "bad"}]]
       /\ X.pc # "idle" /\ X.pc \notin {"list", "entry"}
  BY <1>1, <1>7, <1>9 DEF TypeInv, Typed, Recorded
<1> QED
  BY <1>1, <1>2, <1>7, <1>9, <1>10, <1>11, <1>12, <1>13, StepGoesOn

LEMMA PushesKeep ==
  ASSUME ReplicationInv, NEW s \in Sessions, NEW answer \in {"ok", "refused"},
         SyncConversations(s, answer) \/ SyncAccessRules(s, answer)
  PROVE  ReplicationInv'
<1>1. CASE SyncConversations(s, answer)
  BY <1>1, AfterIs, PushKeeps DEF SyncConversations, At, Items
<1>2. CASE SyncAccessRules(s, answer)
  BY <1>2, AfterIs, PushKeeps DEF SyncAccessRules, At, Items
<1> QED
  BY <1>1, <1>2

\* Model weights.
LEMMA ListModelsKeeps ==
  ASSUME ReplicationInv, NEW s \in Sessions, NEW answer \in Answers, ListModels(s, answer)
  PROVE  ReplicationInv'
<1> DEFINE found == {m \in Models : weights[sess[s].src][m] # "none"}
           X == [sess[s] EXCEPT !.todo = found, !.pc = "model"]
<1>1. TypeInv /\ sess[s] \in Session /\ Runs(s)
  BY DEF ReplicationInv, TypeInv, Typed, Runs, ListModels, At
<1>2. CASE answer # "ok"
  BY <1>1, <1>2, FailKeeps DEF ListModels
<1>3. CASE answer = "ok" /\ found = {}
  <2>1. SetLog(s, "completed") /\ sess' = [sess EXCEPT ![s] = Close(s)]
        /\ UNCHANGED <<clock, born, flushed, row, store, weights, conflicts, stale, excused, left>>
    BY <1>3 DEF ListModels, SyncOnly
  <2>2. weights' \in [Instances -> [Models -> {"none", "good", "bad"}]]
    BY <1>1, <2>1 DEF TypeInv, Typed
  <2> QED
    BY <1>1, <2>1, <2>2, StepCloses
<1>4. CASE answer = "ok" /\ found # {}
  <2>1. sess' = [sess EXCEPT ![s] = X]
        /\ UNCHANGED <<clock, born, flushed, row, store, weights, logs, conflicts, stale, excused, left>>
    BY <1>4 DEF ListModels, SyncOnly
  <2>2. found \in SUBSET (Entries \cup Models)
    OBVIOUS
  <2> HIDE DEF found
  <2>3. X = [sess[s] EXCEPT !.todo = found, !.pc = "model"]
    BY Zenon
  <2> HIDE DEF X
  <2>4. /\ X \in Session /\ X.pc = "model" /\ X.pc # "idle" /\ X.pc \notin {"list", "entry"}
        /\ X.log = sess[s].log /\ X.kind = sess[s].kind /\ X.src = sess[s].src /\ X.tgt = sess[s].tgt
    BY <1>1, <2>2, <2>3, Zenon DEF Session
  <2>5. Covers(X, store', born)
    BY <2>4, AfterIs DEF Covers, Items
  <2>6. Grows /\ conflicts' \subseteq Conflict /\ store' \in [Instances -> [Items -> {"none", "same", "own"}]]
        /\ weights' \in [Instances -> [Models -> {"none", "good", "bad"}]]
    BY <1>1, <2>1 DEF Grows, TypeInv, Typed, Recorded
  <2> QED
    BY <1>1, <2>1, <2>4, <2>5, <2>6, StepGoesOn
<1> QED
  BY <1>2, <1>3, <1>4

Outcomes == {"ok", "skipped", "unverified", "corrupt", "refused"}

LEMMA CopyModelKeeps ==
  ASSUME ReplicationInv, NEW s \in Sessions, NEW m \in Models, NEW outcome \in Outcomes,
         CopyModel(s, m, outcome)
  PROVE  ReplicationInv'
<1> DEFINE last == sess[s].todo = {m}
           good == outcome \in {"ok", "skipped", "unverified"}
           todo == sess[s].todo \ {m}
           X == [sess[s] EXCEPT !.todo = todo]
<1>1. /\ TypeInv /\ sess[s] \in Session /\ Runs(s) /\ sess[s].pc = "model"
      /\ sess[s].src \in Instances /\ sess[s].tgt \in Instances
  BY DEF ReplicationInv, TypeInv, Typed, Working, Runs, CopyModel, At
<1>2. weights' \in [Instances -> [Models -> {"none", "good", "bad"}]]
  <2> DEFINE tgt == sess[s].tgt
  <2>1. weights \in [Instances -> [Models -> {"none", "good", "bad"}]]
    BY <1>1 DEF TypeInv, Typed
  <2>2. \/ weights' = [weights EXCEPT ![tgt][m] = weights[sess[s].src][m]]
        \/ weights' = [weights EXCEPT ![tgt][m] = "bad"]
        \/ weights' = weights
    BY DEF CopyModel, Outcomes
  <2>3. weights[sess[s].src][m] \in {"none", "good", "bad"}
    BY <1>1, <2>1
  <2> QED
    BY <1>1, <2>1, <2>2, <2>3
<1>3. UNCHANGED <<clock, born, flushed, row, store, conflicts, stale, excused, left>>
  BY DEF CopyModel, SyncOnly
<1>4. CASE ~good
  <2>1. SetLog(s, "failed") /\ sess' = [sess EXCEPT ![s] = Close(s)]
    BY <1>4 DEF CopyModel
  <2> QED
    BY <1>1, <1>2, <1>3, <2>1, StepCloses
<1>5. CASE good /\ last
  <2>1. SetLog(s, "completed") /\ sess' = [sess EXCEPT ![s] = Close(s)]
    BY <1>5 DEF CopyModel
  <2> QED
    BY <1>1, <1>2, <1>3, <2>1, StepCloses
<1>6. CASE good /\ ~last
  <2>1. sess' = [sess EXCEPT ![s] = X] /\ logs' = logs
    <3>1. IF last THEN SetLog(s, "completed") ELSE UNCHANGED logs
      BY <1>6 DEF CopyModel
    <3>2. sess' = [sess EXCEPT ![s] = IF last THEN Close(s) ELSE [sess[s] EXCEPT !.todo = @ \ {m}]]
      BY <1>6, Zenon DEF CopyModel
    <3>3. ~last
      BY <1>6
    <3> HIDE DEF last
    <3>4. logs' = logs
      BY <3>1, <3>3
    <3> DEFINE Y == IF last THEN Close(s) ELSE X
    <3>5. sess' = [sess EXCEPT ![s] = Y]
      BY <3>2, Zenon
    <3>6. Y = X
      BY <3>3, Zenon
    <3> HIDE DEF X, Y
    <3>7. sess' = [sess EXCEPT ![s] = X]
      BY <3>5, <3>6
    <3> QED
      BY <3>4, <3>7
  <2>2. todo \in SUBSET (Entries \cup Models)
    BY <1>1 DEF Session
  <2> HIDE DEF todo
  <2>3. X = [sess[s] EXCEPT !.todo = todo]
    BY Zenon
  <2> HIDE DEF X
  <2>4. /\ X \in Session /\ X.pc = "model" /\ X.pc # "idle" /\ X.pc \notin {"list", "entry"}
        /\ X.log = sess[s].log /\ X.kind = sess[s].kind /\ X.src = sess[s].src /\ X.tgt = sess[s].tgt
    BY <1>1, <2>2, <2>3, Zenon DEF Session
  <2>5. Covers(X, store', born)
    BY <2>4, AfterIs DEF Covers, Items
  <2>6. Grows /\ conflicts' \subseteq Conflict /\ store' \in [Instances -> [Items -> {"none", "same", "own"}]]
        /\ \A i \in Instances, x \in Items : store'[i][x] # "none" => (store[i][x] # "none" \/ born[x] # 0)
        /\ \A c \in conflicts' \ conflicts : born[c.entry] # 0
    BY <1>1, <1>3 DEF Grows, TypeInv, Typed, Recorded
  <2> QED
    BY <1>1, <1>2, <1>3, <2>1, <2>4, <2>5, <2>6, StepGoesOn
<1> QED
  BY <1>4, <1>5, <1>6

\* The commit that completes a sync, or fails.
LEMMA MarkedRow ==
  ASSUME TypeInv, NEW i \in Instances, NEW j \in Instances,
         row' = [row EXCEPT ![i].mark = clock, ![j].mark = clock]
  PROVE  /\ row' \in [Instances -> [reg : {"new", "in", "gone"}, status : {"active", "offline"},
                            beat : 0..clock, primary : BOOLEAN, mark : 0..clock]]
         /\ \A k \in Instances : row'[k].reg = row[k].reg /\ row'[k].primary = row[k].primary
         /\ \A k \in Instances \ {i, j} : row'[k].mark = row[k].mark
         /\ row'[i].mark = clock /\ row'[j].mark = clock
<1> DEFINE R == [reg : {"new", "in", "gone"}, status : {"active", "offline"},
                 beat : 0..clock, primary : BOOLEAN, mark : 0..clock]
           mid == [row EXCEPT ![i] = [row[i] EXCEPT !.mark = clock]]
<1>1. row \in [Instances -> R] /\ clock \in 0..clock
  BY DEF TypeInv, Typed
<1>2. ASSUME NEW r \in R
      PROVE  LET m == [r EXCEPT !.mark = clock]
             IN m \in R /\ m.reg = r.reg /\ m.primary = r.primary /\ m.mark = clock
  BY <1>1
<1>3. row' = [mid EXCEPT ![j] = [mid[j] EXCEPT !.mark = clock]]
  BY Zenon
<1>4. /\ mid \in [Instances -> R] /\ mid[i].mark = clock
      /\ \A k \in Instances : mid[k].reg = row[k].reg /\ mid[k].primary = row[k].primary
      /\ \A k \in Instances \ {i} : mid[k].mark = row[k].mark
  BY <1>1, <1>2
<1> QED
  BY <1>2, <1>3, <1>4

LEMMA FinishSyncKeeps ==
  ASSUME ReplicationInv, NEW s \in Sessions, FinishSync(s)
  PROVE  ReplicationInv'
<1> DEFINE src == sess[s].src
           tgt == sess[s].tgt
<1>1. /\ TypeInv /\ LogsInv /\ sess[s] \in Session /\ Runs(s) /\ sess[s].pc = "finish"
      /\ src \in Instances /\ tgt \in Instances
      /\ Covers(sess[s], store, born)
  BY DEF ReplicationInv, TypeInv, Typed, Working, Runs, FinishSync, At, Handled
<1>2. UNCHANGED <<clock, born, flushed, stale, left, store, weights, conflicts>>
  BY DEF FinishSync, SyncOnly
<1>3. Grows /\ store' \in [Instances -> [Items -> {"none", "same", "own"}]]
      /\ weights' \in [Instances -> [Models -> {"none", "good", "bad"}]]
  BY <1>1, <1>2 DEF Grows, TypeInv, Typed
<1>4. CASE ~(Registered(src) /\ Registered(tgt))
  <2>1. sess' = [sess EXCEPT ![s] = Idle] /\ UNCHANGED <<row, logs, excused>>
    BY <1>4 DEF FinishSync
  <2>2. Idle \in Session /\ Idle.pc = "idle"
    BY IdleTyped
  <2> HIDE DEF src, tgt
  <2>3. TypeInv'
    BY <1>1, <1>2, <1>3, <2>1, <2>2, TypeOn DEF TypeInv, Typed, Recorded
  <2>4. Unborn'
    BY <1>1, <1>2, <2>1, <2>2, UnbornOn DEF ReplicationInv
  <2>5. Handled'
    BY <1>1, <1>2, <1>3, <2>1, <2>2, HandledOn DEF ReplicationInv
  <2>6. GapsExplained'
    BY <1>1, <1>2, <1>3, <2>1, GapsStay DEF ReplicationInv, TypeInv, Typed
  <2>7. /\ sess'[s].pc = "idle" /\ \A r \in Sessions \ {s} : sess'[r] = sess[r]
    BY <1>1, <2>1, <2>2 DEF TypeInv, Typed
  <2>8. /\ sess[s].log \in DOMAIN logs
        /\ logs[sess[s].log].src = src /\ logs[sess[s].log].tgt = tgt
    <3>1. /\ sess[s].log \in DOMAIN logs
          /\ logs[sess[s].log] = [status |-> "in_progress", kind |-> sess[s].kind,
               src |-> sess[s].src, tgt |-> sess[s].tgt, era |-> left.restarts]
      BY <1>1, Zenon DEF LogsInv, OnLog, Runs
    <3> QED
      BY <3>1 DEF src, tgt
  <2>9. OnLog' /\ OwnLog' /\ Known'
    BY <1>1, <1>2, <2>1, <2>7 DEF LogsInv, OnLog, OwnLog, Known, Runs
  <2>10. AbandonedLogs'
    BY <1>1, <1>2, <1>4, <2>1, <2>7, <2>8 DEF LogsInv, AbandonedLogs, Registered
  <2> QED
    BY <2>3, <2>4, <2>5, <2>6, <2>9, <2>10 DEF ReplicationInv, LogsInv
<1>5. CASE Registered(src) /\ Registered(tgt)
  <2>1. /\ SetLog(s, "completed") /\ sess' = [sess EXCEPT ![s] = Close(s)]
        /\ row' = [row EXCEPT ![src].mark = clock, ![tgt].mark = clock]
        /\ excused' = excused \cup ({tgt} \X sess[s].missed) \cup ({src} \X Existing)
    BY <1>5 DEF FinishSync
  <2>2. Close(s) \in Session /\ Close(s).pc = "idle"
    BY <1>1, CloseTyped
  <2>3. /\ row' \in [Instances -> [reg : {"new", "in", "gone"}, status : {"active", "offline"},
                            beat : 0..clock, primary : BOOLEAN, mark : 0..clock]]
        /\ \A i \in Instances : row'[i].reg = row[i].reg /\ row'[i].primary = row[i].primary
        /\ \A i \in Instances \ {src, tgt} : row'[i].mark = row[i].mark
        /\ row'[src].mark = clock /\ row'[tgt].mark = clock
    BY <1>1, <2>1, MarkedRow
  <2>4. excused' \subseteq Instances \X Items /\ excused \subseteq excused'
    BY <1>1, <2>1 DEF TypeInv, Typed, Session, Existing
  <2>5. LogsInv' /\ logs' \in Seq(Log)
    BY <1>1, <1>2, <2>1, <2>2, <2>3, LogsClose
  <2>6. Recorded'
    BY <1>1, <1>2, <2>5 DEF TypeInv, Recorded
  <2> HIDE DEF src, tgt
  <2>7. /\ sess' \in [Sessions -> Session]
        /\ sess'[s] = Close(s) /\ \A r \in Sessions \ {s} : sess'[r] = sess[r]
    BY <1>1, <2>1, <2>2 DEF TypeInv, Typed
  <2>8. TypeInv'
    <3>1. Typed'
      BY <1>1, <1>2, <1>3, <2>3, <2>4, <2>7 DEF TypeInv, Typed
    <3>2. Working' /\ OnePrimary'
      BY <1>1, <2>2, <2>3, <2>7 DEF TypeInv, Working, OnePrimary, Runs
    <3> QED
      BY <2>6, <3>1, <3>2 DEF TypeInv
  <2>9. Unborn'
    BY <1>1, <1>2, <2>1, <2>2, UnbornOn DEF ReplicationInv
  <2>10. Handled'
    BY <1>1, <1>2, <1>3, <2>1, <2>2, HandledOn DEF ReplicationInv
  <2>11. GapsExplained'
    <3> SUFFICES ASSUME NEW i \in Instances, NEW x \in Items, born[x] # 0, born[x] < row'[i].mark,
                        store[i][x] = "none"
                 PROVE  <<i, x>> \in excused'
      BY <1>2 DEF GapsExplained
    <3>1. CASE i \notin {src, tgt}
      BY <2>3, <2>4, <3>1 DEF ReplicationInv, GapsExplained
    <3>2. CASE i = src
      BY <2>1, <3>2 DEF Existing, src
    <3>3. CASE i = tgt
      <4>1. x \in sess[s].missed
        BY <1>1, <3>3, AfterIs DEF Covers, tgt
      <4> QED
        BY <2>1, <3>3, <4>1 DEF tgt
    <3> QED
      BY <3>1, <3>2, <3>3
  <2> QED
    BY <2>5, <2>8, <2>9, <2>10, <2>11 DEF ReplicationInv
<1> QED
  BY <1>4, <1>5

-----------------------------------------------------------------------------
\* The bounds, as they are spent.
LEMMA Spent ==
  ASSUME TypeInv, Spend
  PROVE  left' \in Bounds /\ left'.restarts = left.restarts
<1>1. left \in Bounds
  BY DEF TypeInv, Recorded
<1>2. ASSUME NEW l \in Bounds, l.registry > 0
      PROVE  LET m == [l EXCEPT !.registry = l.registry - 1]
             IN m \in Bounds /\ m.restarts = l.restarts
  BY <1>2 DEF Bounds
<1> QED
  BY <1>1, <1>2 DEF Spend

LEMMA SpentLog ==
  ASSUME NEW l \in Bounds, l.logs > 0
  PROVE  LET m == [l EXCEPT !.logs = l.logs - 1]
         IN m \in Bounds /\ m.restarts = l.restarts
BY DEF Bounds

LEMMA SpentRestart ==
  ASSUME NEW l \in Bounds, l.restarts > 0
  PROVE  LET m == [l EXCEPT !.restarts = l.restarts - 1]
         IN m \in Bounds /\ m.restarts < l.restarts
BY DEF Bounds

\* The registry.
RowType == [reg : {"new", "in", "gone"}, status : {"active", "offline"},
            beat : 0..clock, primary : BOOLEAN, mark : 0..clock]

\* A row replaced by a fresh one: registered, or gone.
LEMMA RowReplaced ==
  ASSUME ReplicationInv, NEW i \in Instances, NEW R \in RowType, R.primary = FALSE, R.mark = 0,
         R.reg = "gone" \/ (R.reg = "in" /\ row[i].reg = "new"),
         row' = [row EXCEPT ![i] = R], stale' = stale, RegistryOnly, Spend
  PROVE  ReplicationInv'
<1>1. TypeInv /\ row \in [Instances -> RowType]
      /\ \A j, k \in Instances : row[j].primary /\ row[k].primary => j = k
  BY DEF ReplicationInv, TypeInv, Typed, RowType, OnePrimary
<1>2. row' \in [Instances -> RowType] /\ row'[i] = R /\ \A j \in Instances \ {i} : row'[j] = row[j]
  BY <1>1
<1>3. stale' \in [check : SUBSET Instances, probe : SUBSET Instances]
  BY <1>1 DEF TypeInv, Typed
<1>4. \A j \in Instances : row[j].mark \in Nat
  BY <1>1 DEF RowType
<1>5. \A j, k \in Instances : row'[j].primary /\ row'[k].primary => j = k
  BY <1>1, <1>2
<1>6. \A j \in Instances :
        /\ row[j].reg # "new" => row'[j].reg # "new" /\ (row'[j].reg = "in" => row[j].reg = "in")
        /\ row'[j].mark <= row[j].mark
  BY <1>2, <1>4
<1> QED
  BY <1>1, <1>2, <1>3, <1>5, <1>6, Spent, RegistryKeeps DEF RowType

LEMMA FreshRow ==
  ASSUME TypeInv, NEW reg \in {"in", "gone"}, NEW beat \in {0, clock}
  PROVE  /\ Fresh(reg, beat, FALSE) \in RowType /\ Fresh(reg, beat, FALSE).reg = reg
         /\ Fresh(reg, beat, FALSE).primary = FALSE /\ Fresh(reg, beat, FALSE).mark = 0
BY DEF TypeInv, Typed, Fresh, RowType

LEMMA RegisterKeeps ==
  ASSUME ReplicationInv, NEW i \in Instances, Register(i)
  PROVE  ReplicationInv'
<1> DEFINE R == Fresh("in", clock, FALSE)
<1>1. R \in RowType /\ R.reg = "in" /\ R.primary = FALSE /\ R.mark = 0
  BY FreshRow DEF ReplicationInv
<1>2. row[i].reg = "new" /\ row' = [row EXCEPT ![i] = R] /\ stale' = stale /\ RegistryOnly /\ Spend
  BY DEF Register
<1> HIDE DEF R
<1> QED
  BY <1>1, <1>2, RowReplaced

LEMMA DeregisterKeeps ==
  ASSUME ReplicationInv, NEW i \in Instances, Deregister(i)
  PROVE  ReplicationInv'
<1> DEFINE R == Fresh("gone", 0, FALSE)
<1>1. R \in RowType /\ R.reg = "gone" /\ R.primary = FALSE /\ R.mark = 0
  BY FreshRow DEF ReplicationInv
<1>2. row' = [row EXCEPT ![i] = R] /\ stale' = stale /\ RegistryOnly /\ Spend
  BY DEF Deregister
<1> HIDE DEF R
<1> QED
  BY <1>1, <1>2, RowReplaced

\* A step of the registry that leaves who is in it, and every mark, as they are.
LEMMA RowsKeep ==
  ASSUME ReplicationInv, RegistryOnly, left' \in Bounds, left'.restarts = left.restarts,
         stale' \in [check : SUBSET Instances, probe : SUBSET Instances],
         row' \in [Instances -> RowType],
         \A i, j \in Instances : row'[i].primary /\ row'[j].primary => i = j,
         \A i \in Instances : row'[i].reg = row[i].reg /\ row'[i].mark = row[i].mark
  PROVE  ReplicationInv'
<1>1. \A i \in Instances : row[i].mark \in Nat
  BY DEF ReplicationInv, TypeInv, Typed
<1>2. \A i \in Instances :
        /\ row[i].reg # "new" => row'[i].reg # "new" /\ (row'[i].reg = "in" => row[i].reg = "in")
        /\ row'[i].mark <= row[i].mark
  BY <1>1
<1> QED
  BY <1>2, RegistryKeeps DEF RowType

LEMMA PromoteKeeps ==
  ASSUME ReplicationInv, NEW i \in Instances, Promote(i)
  PROVE  ReplicationInv'
<1>1. TypeInv /\ row \in [Instances -> RowType]
  BY DEF ReplicationInv, TypeInv, Typed, RowType
<1>2. ASSUME NEW r \in RowType, NEW b \in BOOLEAN
      PROVE  LET m == [r EXCEPT !.primary = b]
             IN m \in RowType /\ m.primary = b /\ m.reg = r.reg /\ m.mark = r.mark
  BY Zenon DEF RowType
<1>3. row' = [j \in Instances |-> [row[j] EXCEPT !.primary = (j = i)]] /\ stale' = stale
      /\ RegistryOnly /\ Spend
  BY Zenon DEF Promote
<1>4. ASSUME NEW j \in Instances
      PROVE  row'[j] \in RowType /\ (row'[j].primary => j = i)
             /\ row'[j].reg = row[j].reg /\ row'[j].mark = row[j].mark
  <2> DEFINE b == j = i
  <2>1. b \in BOOLEAN /\ row[j] \in RowType /\ (b => j = i)
    BY <1>1
  <2>2. row'[j] = [row[j] EXCEPT !.primary = b]
    BY <1>3, Zenon
  <2> HIDE DEF b
  <2> QED
    BY <1>2, <2>1, <2>2
<1>5. row' \in [Instances -> RowType]
  BY <1>3, <1>4
<1>6. stale' \in [check : SUBSET Instances, probe : SUBSET Instances]
  BY <1>1, <1>3 DEF TypeInv, Typed
<1> QED
  BY <1>1, <1>3, <1>4, <1>5, <1>6, Spent, RowsKeep

\* A row whose status and heartbeat change.
LEMMA RowWith ==
  ASSUME TypeInv, NEW r \in RowType
  PROVE  /\ LET m == [r EXCEPT !.status = "offline"]
            IN m \in RowType /\ m.primary = r.primary /\ m.reg = r.reg /\ m.mark = r.mark
         /\ LET m == [[r EXCEPT !.beat = clock] EXCEPT !.status = "active"]
            IN m \in RowType /\ m.primary = r.primary /\ m.reg = r.reg /\ m.mark = r.mark
<1>1. clock \in 0..clock
  BY DEF TypeInv, Typed
<1> QED
  BY <1>1, Zenon DEF RowType

LEMMA RecordHeartbeatKeeps ==
  ASSUME ReplicationInv, NEW i \in Instances, RecordHeartbeat(i)
  PROVE  ReplicationInv'
<1>1. TypeInv /\ row \in [Instances -> RowType]
      /\ \A j, k \in Instances : row[j].primary /\ row[k].primary => j = k
  BY DEF ReplicationInv, TypeInv, Typed, RowType, OnePrimary
<1> DEFINE R == [[row[i] EXCEPT !.beat = clock] EXCEPT !.status = "active"]
<1>2. row' = [row EXCEPT ![i] = R] /\ stale' = stale /\ left' = left /\ RegistryOnly
  BY <1>1, Zenon DEF RecordHeartbeat
<1>3. R \in RowType /\ R.primary = row[i].primary /\ R.reg = row[i].reg /\ R.mark = row[i].mark
  BY <1>1, RowWith, Zenon
<1> HIDE DEF R
<1>4. /\ row' \in [Instances -> RowType]
      /\ \A j \in Instances : row'[j].primary = row[j].primary /\ row'[j].reg = row[j].reg
                              /\ row'[j].mark = row[j].mark
  BY <1>1, <1>2, <1>3
<1>5. stale' \in [check : SUBSET Instances, probe : SUBSET Instances] /\ left' \in Bounds
      /\ left'.restarts = left.restarts
  BY <1>1, <1>2 DEF TypeInv, Typed, Recorded
<1> QED
  BY <1>1, <1>2, <1>4, <1>5, RowsKeep

LEMMA StaleWith ==
  ASSUME NEW q \in [check : SUBSET Instances, probe : SUBSET Instances], NEW S \in SUBSET Instances
  PROVE  /\ [q EXCEPT !.check = S] \in [check : SUBSET Instances, probe : SUBSET Instances]
         /\ [q EXCEPT !.probe = S] \in [check : SUBSET Instances, probe : SUBSET Instances]
OBVIOUS

LEMMA SelectionsKeep ==
  ASSUME ReplicationInv, SelectStale \/ BeginDiscover
  PROVE  ReplicationInv'
<1>1. TypeInv /\ row \in [Instances -> RowType]
      /\ \A j, k \in Instances : row[j].primary /\ row[k].primary => j = k
  BY DEF ReplicationInv, TypeInv, Typed, RowType, OnePrimary
<1>2. stale \in [check : SUBSET Instances, probe : SUBSET Instances]
  BY <1>1 DEF TypeInv, Typed
<1> DEFINE S == {i \in Instances : Online(i) /\ row[i].beat < clock - Timeout}
           P == {i \in Api : Online(i)}
<1>3. S \in SUBSET Instances /\ P \in SUBSET Instances
  BY ReplicationAssumption
<1>4. /\ stale' = [stale EXCEPT !.check = S] \/ stale' = [stale EXCEPT !.probe = P]
      /\ row' = row /\ RegistryOnly /\ Spend
  BY Zenon DEF SelectStale, BeginDiscover
<1> HIDE DEF S, P
<1>5. stale' \in [check : SUBSET Instances, probe : SUBSET Instances]
  BY <1>2, <1>3, <1>4, StaleWith
<1> QED
  BY <1>1, <1>4, <1>5, Spent, RowsKeep

\* Rows that are marked offline.
LEMMA MarksKeep ==
  ASSUME ReplicationInv, NEW S \in SUBSET Instances, RegistryOnly, left' = left,
         row' = [i \in Instances |-> IF i \in S THEN [row[i] EXCEPT !.status = "offline"] ELSE row[i]],
         stale' \in [check : SUBSET Instances, probe : SUBSET Instances]
  PROVE  ReplicationInv'
<1>1. TypeInv /\ row \in [Instances -> RowType] /\ left \in Bounds
      /\ \A j, k \in Instances : row[j].primary /\ row[k].primary => j = k
  BY DEF ReplicationInv, TypeInv, Typed, RowType, OnePrimary, Recorded
<1>2. ASSUME NEW i \in Instances
      PROVE  /\ row'[i] \in RowType /\ row'[i].primary = row[i].primary
             /\ row'[i].reg = row[i].reg /\ row'[i].mark = row[i].mark
  <2>1. CASE i \in S
    <3>1. row'[i] = [row[i] EXCEPT !.status = "offline"] /\ row[i] \in RowType
      BY <1>1, <2>1
    <3> QED
      BY <1>1, <3>1, RowWith, Zenon
  <2>2. CASE i \notin S
    BY <1>1, <2>2
  <2> QED
    BY <2>1, <2>2
<1>3. row' \in [Instances -> RowType]
  BY <1>2
<1> QED
  BY <1>1, <1>2, <1>3, RowsKeep

LEMMA MarkStaleKeeps ==
  ASSUME ReplicationInv, MarkStale
  PROVE  ReplicationInv'
<1>1. stale \in [check : SUBSET Instances, probe : SUBSET Instances]
      /\ row \in [Instances -> RowType]
  BY DEF ReplicationInv, TypeInv, Typed, RowType
<1>2. stale' \in [check : SUBSET Instances, probe : SUBSET Instances]
  BY <1>1, StaleWith DEF MarkStale
<1> DEFINE S == IF \A i \in stale.check : Registered(i) THEN stale.check ELSE {}
<1>3. S \in SUBSET Instances
  BY <1>1
<1>4. row' = [i \in Instances |-> IF i \in S THEN [row[i] EXCEPT !.status = "offline"] ELSE row[i]]
  <2>1. CASE \A i \in stale.check : Registered(i)
    BY <2>1, Zenon DEF MarkStale
  <2>2. CASE ~\A i \in stale.check : Registered(i)
    <3>1. row' = row /\ S = {}
      BY <2>2, Zenon DEF MarkStale
    <3> QED
      BY <1>1, <3>1
  <2> QED
    BY <2>1, <2>2
<1> HIDE DEF S
<1> QED
  BY <1>2, <1>3, <1>4, MarksKeep DEF MarkStale

LEMMA ProbeInstanceKeeps ==
  ASSUME ReplicationInv, NEW i \in Instances, NEW up \in BOOLEAN, ProbeInstance(i, up)
  PROVE  ReplicationInv'
<1>1. stale \in [check : SUBSET Instances, probe : SUBSET Instances]
      /\ row \in [Instances -> RowType]
  BY DEF ReplicationInv, TypeInv, Typed, RowType
<1>2. stale.probe \ {i} \in SUBSET Instances
  BY <1>1
<1>3. stale' \in [check : SUBSET Instances, probe : SUBSET Instances]
  BY <1>1, <1>2, StaleWith DEF ProbeInstance
<1> DEFINE S == IF row' = row THEN {} ELSE {i}
<1>4. S \in SUBSET Instances
  OBVIOUS
<1>5. row' = row \/ row' = [row EXCEPT ![i] = [row[i] EXCEPT !.status = "offline"]]
  BY Zenon DEF ProbeInstance
<1>6. row' = [j \in Instances |-> IF j \in S THEN [row[j] EXCEPT !.status = "offline"] ELSE row[j]]
  BY <1>1, <1>5
<1> HIDE DEF S
<1> QED
  BY <1>3, <1>4, <1>6, MarksKeep DEF ProbeInstance

-----------------------------------------------------------------------------
\* The database and the instances.
LEMMA TickKeeps ==
  ASSUME ReplicationInv, Tick
  PROVE  ReplicationInv'
<1> USE DEF ReplicationInv
<1>1. /\ clock' = clock + 1 /\ clock < MaxClock /\ clock \in Nat /\ MaxClock \in Nat
      /\ UNCHANGED <<born, flushed, row, store, weights, sess, logs, conflicts, stale, excused, left>>
  BY ReplicationAssumption DEF Tick, syncVars, TypeInv, Typed
<1>2. 0..clock \subseteq 0..clock' /\ clock' \in 1..MaxClock
  BY <1>1 DEF TypeInv, Typed
<1>3. born' \in [Items -> 0..clock'] /\ flushed' \in [Items -> 0..clock']
  BY <1>1, <1>2 DEF TypeInv, Typed
<1>4. row' \in [Instances -> RowType']
  BY <1>1, <1>2 DEF TypeInv, Typed, RowType
<1>5. Typed'
  BY <1>1, <1>2, <1>3, <1>4 DEF TypeInv, Typed, RowType
<1>6. TypeInv'
  BY <1>1, <1>5 DEF TypeInv, Recorded, Working, OnePrimary, Runs
<1>7. LogsInv'
  BY <1>1 DEF LogsInv, OnLog, OwnLog, Known, AbandonedLogs, Runs, Registered
<1>8. Unborn' /\ Handled' /\ GapsExplained'
  BY <1>1 DEF Unborn, Handled, GapsExplained
<1> QED
  BY <1>6, <1>7, <1>8

LEMMA WithMissed ==
  ASSUME NEW w \in Session, NEW x \in Items
  PROVE  LET X == [w EXCEPT !.missed = w.missed \cup {x}]
         IN /\ X \in Session /\ X.missed = w.missed \cup {x} /\ X.pc = w.pc /\ X.todo = w.todo
            /\ X.ids = w.ids /\ X.log = w.log /\ X.kind = w.kind /\ X.src = w.src /\ X.tgt = w.tgt
BY DEF Session

LEMMA CreateKeeps ==
  ASSUME ReplicationInv, NEW x \in Items, Create(x)
  PROVE  ReplicationInv'
<1>1. /\ flushed[x] # 0 /\ flushed' = [flushed EXCEPT ![x] = 0]
      /\ born' = [born EXCEPT ![x] = flushed[x]]
      /\ sess' = [s \in Sessions |-> IF sess[s].pc \in After(x)
                                     THEN [sess[s] EXCEPT !.missed = sess[s].missed \cup {x}] ELSE sess[s]]
      /\ excused' = excused \cup ({i \in Instances : flushed[x] < row[i].mark} \X {x})
      /\ UNCHANGED <<clock, row, weights, logs, conflicts, stale, left>>
  BY Zenon DEF Create
<1>2. /\ TypeInv /\ LogsInv /\ Unborn /\ Handled /\ GapsExplained
      /\ clock \in Nat \ {0} /\ clock \in 0..clock /\ born \in [Items -> 0..clock]
      /\ flushed \in [Items -> 0..clock] /\ flushed[x] \in 0..clock
      /\ sess \in [Sessions -> Session]
  BY DEF ReplicationInv, TypeInv, Typed
<1>3. /\ store' \in [Instances -> [Items -> {"none", "same", "own"}]] /\ Grows
      /\ \A i \in Instances, y \in Items : y # x => store'[i][y] = store[i][y]
  <2> DEFINE sent == x \in Entries
  <2>1. sent \in BOOLEAN /\ Home \in Instances
    BY ReplicationAssumption
  <2>2. store' = IF sent THEN [store EXCEPT ![Home][x] = "same"] ELSE store
    BY DEF Create
  <2> HIDE DEF sent
  <2>3. TypeInv
    BY <1>2
  <2>4. /\ store' \in [Instances -> [Items -> {"none", "same", "own"}]] /\ Grows
        /\ \A j \in Instances, y \in Items : <<j, y>> # <<Home, x>> => store'[j][y] = store[j][y]
    BY <2>1, <2>2, <2>3, StoreWith
  <2> QED
    BY <2>4
<1>4. /\ born'[x] = flushed[x] /\ born'[x] # 0 /\ flushed'[x] = 0
      /\ \A y \in Items \ {x} : born'[y] = born[y] /\ flushed'[y] = flushed[y]
  BY <1>1, <1>2
<1>5. ASSUME NEW s \in Sessions
      PROVE  /\ sess'[s] \in Session /\ sess'[s].pc = sess[s].pc /\ sess'[s].todo = sess[s].todo
             /\ sess'[s].ids = sess[s].ids /\ sess'[s].log = sess[s].log /\ sess'[s].kind = sess[s].kind
             /\ sess'[s].src = sess[s].src /\ sess'[s].tgt = sess[s].tgt
             /\ sess[s].missed \subseteq sess'[s].missed
             /\ sess[s].pc \in After(x) => x \in sess'[s].missed
  <2>1. CASE sess[s].pc \in After(x)
    <3>1. sess'[s] = [sess[s] EXCEPT !.missed = sess[s].missed \cup {x}] /\ sess[s] \in Session
      BY <1>1, <1>2, <2>1
    <3> QED
      BY <3>1, WithMissed
  <2>2. CASE sess[s].pc \notin After(x)
    BY <1>1, <1>2, <2>2
  <2> QED
    BY <2>1, <2>2
<1>6. TypeInv'
  <2>1. /\ born' \in [Items -> 0..clock] /\ flushed' \in [Items -> 0..clock]
        /\ sess' \in [Sessions -> Session]
    BY <1>1, <1>2, <1>5
  <2>2. excused' \subseteq Instances \X Items
    BY <1>1, <1>2 DEF TypeInv, Typed
  <2>3. Typed'
    BY <1>1, <1>2, <1>3, <2>1, <2>2 DEF TypeInv, Typed
  <2>4. Recorded' /\ Working' /\ OnePrimary'
    BY <1>1, <1>2, <1>5 DEF TypeInv, Recorded, Working, OnePrimary, Runs
  <2> QED
    BY <2>3, <2>4 DEF TypeInv
<1>7. LogsInv'
  BY <1>1, <1>2, <1>5 DEF LogsInv, OnLog, OwnLog, Known, AbandonedLogs, Runs, Registered
<1>8. Unborn'
  <2>1. \A i \in Instances, y \in Items : born'[y] = 0 => store'[i][y] = "none"
    BY <1>2, <1>3, <1>4 DEF Unborn
  <2>2. ASSUME NEW s \in Sessions, sess[s].pc \in {"list", "entry"}, NEW e \in sess[s].todo
        PROVE  born'[e] # 0
    <3>1. born[e] # 0 /\ e \in Items
      BY <1>2, <2>2 DEF Unborn, TypeInv, Working, Runs, Items
    <3> QED
      BY <1>1, <1>4, <3>1
  <2>3. \A c \in conflicts : c.entry \in Items /\ born[c.entry] # 0
    BY <1>2 DEF Unborn, TypeInv, Recorded, Conflict, Items
  <2>4. \A c \in conflicts : born'[c.entry] # 0
    BY <1>1, <1>4, <2>3
  <2>5. \A y \in Items : flushed'[y] # 0 => born'[y] = 0
    BY <1>2, <1>4 DEF Unborn
  <2> QED
    BY <1>1, <1>5, <2>1, <2>2, <2>4, <2>5 DEF Unborn
<1>9. Handled'
  <2> SUFFICES ASSUME NEW s \in Sessions PROVE Covers(sess'[s], store', born')
    BY DEF Handled
  <2>1. Covers(sess[s], store, born)
    BY <1>2 DEF Handled
  <2>2. /\ sess[s].pc # "idle" => sess[s].tgt \in Instances
        /\ sess[s].ids \subseteq Items
    BY <1>2 DEF TypeInv, Working, Runs, Session, Items
  <2>3. ASSUME NEW y \in Items, sess'[s].pc \in After(y), born'[y] # 0
        PROVE  store'[sess'[s].tgt][y] # "none" \/ y \in sess'[s].missed
               \/ (sess'[s].pc \in {"list", "entry"} /\ y \in sess'[s].todo)
    <3>1. CASE y = x
      BY <1>5, <2>3, <3>1
    <3>2. CASE y # x
      <4>1. sess[s].pc \in After(y) /\ born[y] # 0 /\ sess[s].tgt \in Instances
        BY <1>4, <1>5, <2>2, <2>3, <3>2, AfterIs
      <4>2. store[sess[s].tgt][y] # "none" \/ y \in sess[s].missed
            \/ (sess[s].pc \in {"list", "entry"} /\ y \in sess[s].todo)
        BY <2>1, <4>1 DEF Covers
      <4>3. store[sess[s].tgt][y] # "none" => store'[sess[s].tgt][y] # "none"
        BY <1>3, <4>1 DEF Grows
      <4> QED
        BY <1>5, <4>2, <4>3
    <3> QED
      BY <3>1, <3>2
  <2>4. ASSUME sess'[s].pc = "entry", NEW e \in sess'[s].ids
        PROVE  store'[sess'[s].tgt][e] # "none"
    <3>1. sess[s].tgt \in Instances /\ e \in Items /\ store[sess[s].tgt][e] # "none"
      BY <1>5, <2>1, <2>2, <2>4 DEF Covers
    <3> QED
      BY <1>3, <1>5, <3>1 DEF Grows
  <2> QED
    BY <2>3, <2>4 DEF Covers
<1>10. GapsExplained'
  <2> SUFFICES ASSUME NEW i \in Instances, NEW y \in Items, born'[y] # 0, born'[y] < row[i].mark,
                      store'[i][y] = "none"
               PROVE  <<i, y>> \in excused'
    BY <1>1 DEF GapsExplained
  <2>1. CASE y = x
    BY <1>1, <1>4, <2>1
  <2>2. CASE y # x
    BY <1>1, <1>2, <1>3, <1>4, <2>2 DEF GapsExplained
  <2> QED
    BY <2>1, <2>2
<1> QED
  BY <1>6, <1>7, <1>8, <1>9, <1>10 DEF ReplicationInv

\* A flush or a rollback is seen by nobody else.
LEMMA FlushesKeep ==
  ASSUME ReplicationInv, NEW x \in Items, Flush(x) \/ Rollback(x)
  PROVE  ReplicationInv'
<1> USE DEF ReplicationInv
<1>1. /\ flushed' \in [Items -> 0..clock] /\ \A y \in Items : flushed'[y] # 0 => born[y] = 0
      /\ UNCHANGED <<clock, born, row, store, weights, sess, logs, conflicts, stale, excused, left>>
  BY DEF Flush, Rollback, syncVars, TypeInv, Typed, Unborn
<1>2. TypeInv'
  BY <1>1 DEF TypeInv, Typed, Recorded, Working, OnePrimary, Runs
<1>3. LogsInv'
  BY <1>1 DEF LogsInv, OnLog, OwnLog, Known, AbandonedLogs, Runs, Registered
<1>4. Unborn' /\ Handled' /\ GapsExplained'
  BY <1>1 DEF Unborn, Handled, GapsExplained
<1> QED
  BY <1>2, <1>3, <1>4

\* A step that changes copies, and conflicts, but no session.
LEMMA CopiesKeep ==
  ASSUME ReplicationInv, Grows, store' \in [Instances -> [Items -> {"none", "same", "own"}]],
         \A i \in Instances, x \in Items : store'[i][x] # "none" => store[i][x] # "none" \/ born[x] # 0,
         conflicts' \subseteq Conflict, \A c \in conflicts' : born[c.entry] # 0,
         UNCHANGED <<clock, born, flushed, row, weights, sess, logs, stale, excused, left>>
  PROVE  ReplicationInv'
<1> USE DEF ReplicationInv
<1>1. TypeInv'
  BY DEF TypeInv, Typed, Recorded, Working, OnePrimary, Runs
<1>2. LogsInv'
  BY DEF LogsInv, OnLog, OwnLog, Known, AbandonedLogs, Runs, Registered
<1>3. Unborn'
  BY DEF Unborn
<1>4. Handled'
  <2>1. \A r \in Sessions : Covers(sess[r], store', born)
    BY CoversStay
  <2> QED
    BY <2>1 DEF Handled
<1>5. GapsExplained'
  BY GapsStay DEF TypeInv, Typed
<1> QED
  BY <1>1, <1>2, <1>3, <1>4, <1>5

LEMMA DivergeKeeps ==
  ASSUME ReplicationInv, NEW i \in Instances, NEW e \in Entries, Diverge(i, e)
  PROVE  ReplicationInv'
<1>1. /\ store[i][e] = "same" /\ store' = [store EXCEPT ![i][e] = "own"] /\ e \in Items
      /\ UNCHANGED <<clock, born, flushed, row, weights, sess, logs, conflicts, stale, excused, left>>
  BY DEF Diverge, syncVars, Items
<1>2. store \in [Instances -> [Items -> {"none", "same", "own"}]] /\ conflicts \subseteq Conflict
  BY DEF ReplicationInv, TypeInv, Typed, Recorded
<1>3. Grows /\ store' \in [Instances -> [Items -> {"none", "same", "own"}]]
      /\ \A j \in Instances, x \in Items : store'[j][x] # "none" => store[j][x] # "none"
  BY <1>1, <1>2 DEF Grows
<1>4. \A c \in conflicts' : born[c.entry] # 0
  BY <1>1 DEF ReplicationInv, Unborn
<1> QED
  BY <1>1, <1>2, <1>3, <1>4, CopiesKeep

LEMMA ResolveConflictKeeps ==
  ASSUME ReplicationInv, NEW c \in conflicts,
         NEW resolution \in {"keep_source", "keep_target", "keep_both"}, NEW answer \in {"ok", "refused"},
         ResolveConflict(c, resolution, answer)
  PROVE  ReplicationInv'
<1> DEFINE sent == resolution = "keep_source" /\ answer = "ok" /\ Registered(c.tgt) /\ c.tgt \in Api
           d == [c EXCEPT !.resolution = resolution]
<1>1. /\ TypeInv /\ c \in Conflict /\ c.tgt \in Instances /\ c.entry \in Items /\ sent \in BOOLEAN
      /\ born[c.entry] # 0
  BY DEF ReplicationInv, TypeInv, Recorded, Unborn, Conflict, Items
<1>2. /\ store' = IF sent THEN [store EXCEPT ![c.tgt][c.entry] = "same"] ELSE store
      /\ conflicts' = (conflicts \ {c}) \cup {d}
      /\ UNCHANGED <<clock, born, flushed, row, weights, sess, logs, stale, excused, left>>
  BY DEF ResolveConflict, ApplyResolution
<1>3. d \in Conflict /\ d.entry = c.entry
  BY <1>1 DEF Conflict
<1> HIDE DEF sent, d
<1>4. /\ store' \in [Instances -> [Items -> {"none", "same", "own"}]] /\ Grows
      /\ \A j \in Instances, y \in Items : <<j, y>> # <<c.tgt, c.entry>> => store'[j][y] = store[j][y]
  BY <1>1, <1>2, StoreWith
<1>5. \A j \in Instances, y \in Items : store'[j][y] # "none" => store[j][y] # "none" \/ born[y] # 0
  BY <1>1, <1>4
<1>6. conflicts' \subseteq Conflict /\ \A k \in conflicts' : born[k.entry] # 0
  BY <1>1, <1>2, <1>3 DEF ReplicationInv, TypeInv, Recorded, Unborn
<1> QED
  BY <1>2, <1>4, <1>5, <1>6, CopiesKeep

LEMMA RestartKeeps ==
  ASSUME ReplicationInv, Restart
  PROVE  ReplicationInv'
<1> USE DEF ReplicationInv
<1>1. /\ sess' = [s \in Sessions |-> Idle] /\ stale' = [check |-> {}, probe |-> {}]
      /\ left.restarts > 0 /\ left' = [left EXCEPT !.restarts = left.restarts - 1]
      /\ flushed' = [x \in Items |-> 0]
      /\ UNCHANGED <<clock, born, row, store, weights, logs, conflicts, excused>>
  BY DEF Restart
<1>2. left' \in Bounds /\ left'.restarts < left.restarts /\ left'.restarts \in Nat /\ left.restarts \in Nat
  <2>1. left \in Bounds
    BY DEF TypeInv, Recorded
  <2>2. left' \in Bounds /\ left'.restarts < left.restarts
    BY <1>1, <2>1, SpentRestart
  <2> QED
    BY <2>1, <2>2 DEF Bounds
<1>3. \A s \in Sessions : sess'[s] \in Session /\ sess'[s].pc = "idle"
  BY <1>1, IdleTyped
<1>4. sess' \in [Sessions -> Session]
  BY <1>1, <1>3
<1>5. TypeInv'
  <2>1. Typed'
    <3>1. flushed' \in [Items -> 0..clock]
      BY <1>1 DEF TypeInv, Typed
    <3> QED
      BY <1>1, <1>4, <3>1 DEF TypeInv, Typed
  <2>2. Recorded'
    BY <1>1, <1>2 DEF TypeInv, Recorded
  <2>3. Working' /\ OnePrimary'
    BY <1>1, <1>3 DEF TypeInv, Working, OnePrimary, Runs
  <2> QED
    BY <2>1, <2>2, <2>3 DEF TypeInv
<1>6. LogsInv'
  <2>1. OnLog' /\ OwnLog'
    BY <1>3 DEF OnLog, OwnLog, Runs
  <2>2. \A n \in DOMAIN logs : logs[n].era \in Nat /\ logs[n].era >= left.restarts
    BY LogsAre DEF TypeInv, LogsInv, Known, Log
  <2>3. \A n \in DOMAIN logs : logs[n].era > left'.restarts
    BY <1>2, <2>2
  <2>4. Known' /\ AbandonedLogs'
    BY <1>1, <1>2, <2>2, <2>3 DEF LogsInv, Known, AbandonedLogs
  <2> QED
    BY <2>1, <2>4 DEF LogsInv
<1>7. Unborn' /\ Handled' /\ GapsExplained'
  BY <1>1, <1>3, AfterIs DEF Unborn, Handled, Covers, GapsExplained
<1> QED
  BY <1>5, <1>6, <1>7

-----------------------------------------------------------------------------
\* Opening a sync: the new log is the last one, and the session's own.
NewLog(kind, src, tgt) ==
  [status |-> "in_progress", kind |-> kind, src |-> src, tgt |-> tgt, era |-> left.restarts]

LEMMA LogsOpen ==
  ASSUME LogsInv, TypeInv, NEW s \in Sessions, NEW X \in Session, ~Runs(s), X.pc # "idle",
         sess' = [sess EXCEPT ![s] = X], X.log = Len(logs) + 1,
         Registered(X.src), Registered(X.tgt),
         logs' = Append(logs, NewLog(X.kind, X.src, X.tgt)),
         left'.restarts = left.restarts, row' = row
  PROVE  LogsInv' /\ logs' \in Seq(Log)
<1> DEFINE n == Len(logs) + 1
           l == NewLog(X.kind, X.src, X.tgt)
<1>1. /\ logs \in Seq(Log) /\ DOMAIN logs = 1..Len(logs) /\ Len(logs) \in Nat
      /\ \A k \in DOMAIN logs : logs[k] \in Log
  BY LogsAre DEF TypeInv, Recorded
<1>2. l \in Log
  <2>1. left.restarts \in Nat /\ X.kind \in Kinds /\ X.src \in Instances /\ X.tgt \in Instances
    BY DEF TypeInv, Recorded, Bounds, Session, Kinds, Registered
  <2> QED
    BY <2>1 DEF NewLog, Log
<1>3. l.status = "in_progress" /\ l.src = X.src /\ l.tgt = X.tgt /\ l.era = left.restarts
  BY DEF NewLog
<1> HIDE DEF l
<1>4. /\ logs' \in Seq(Log) /\ DOMAIN logs' = 1..n /\ logs'[n] = l
      /\ \A k \in DOMAIN logs : logs'[k] = logs[k]
  BY <1>1, <1>2 DEF l
<1>5. /\ sess'[s] = X /\ \A r \in Sessions \ {s} : sess'[r] = sess[r]
  BY DEF TypeInv, Typed
<1>6. \A r \in Sessions : Runs(r) => sess[r].log \in 1..Len(logs)
  BY <1>1 DEF LogsInv, OnLog, Runs
<1>7. OnLog'
  <2> SUFFICES ASSUME NEW r \in Sessions, sess'[r].pc # "idle"
               PROVE  /\ sess'[r].log \in DOMAIN logs'
                      /\ logs'[sess'[r].log] = [status |-> "in_progress", kind |-> sess'[r].kind,
                           src |-> sess'[r].src, tgt |-> sess'[r].tgt, era |-> left.restarts]
    BY DEF OnLog
  <2>1. CASE r = s
    BY <1>1, <1>4, <1>5, <2>1 DEF l, NewLog
  <2>2. CASE r # s
    <3>1. Runs(r) /\ sess'[r] = sess[r]
      BY <1>5, <2>2 DEF Runs
    <3>2. /\ sess[r].log \in DOMAIN logs
          /\ logs[sess[r].log] = [status |-> "in_progress", kind |-> sess[r].kind,
               src |-> sess[r].src, tgt |-> sess[r].tgt, era |-> left.restarts]
      BY <3>1, Zenon DEF LogsInv, OnLog, Runs
    <3> QED
      BY <1>1, <1>4, <3>1, <3>2
  <2> QED
    BY <2>1, <2>2
<1>8. OwnLog'
  <2>1. ASSUME NEW r \in Sessions, NEW q \in Sessions, sess'[r].pc # "idle", sess'[q].pc # "idle",
               sess'[r].log = sess'[q].log
        PROVE  r = q
    <3>1. CASE r = s /\ q # s
      BY <1>1, <1>5, <1>6, <2>1, <3>1 DEF Runs
    <3>2. CASE r # s /\ q = s
      BY <1>1, <1>5, <1>6, <2>1, <3>2 DEF Runs
    <3>3. CASE r # s /\ q # s
      BY <1>5, <2>1, <3>3 DEF LogsInv, OwnLog, Runs
    <3> QED
      BY <3>1, <3>2, <3>3
  <2> QED
    BY <2>1 DEF OwnLog, Runs
<1>9. \A k \in DOMAIN logs' : k = n \/ k \in DOMAIN logs
  BY <1>1, <1>4
<1>10. Known'
  <2>1. \A k \in DOMAIN logs : row[logs[k].src].reg # "new" /\ row[logs[k].tgt].reg # "new"
                               /\ logs[k].era >= left.restarts
    BY DEF LogsInv, Known
  <2>2. row[l.src].reg # "new" /\ row[l.tgt].reg # "new" /\ l.era >= left.restarts
    <3>1. left.restarts \in Nat
      BY DEF TypeInv, Recorded, Bounds
    <3> QED
      BY <1>3, <3>1 DEF Registered
  <2> QED
    BY <1>4, <1>9, <2>1, <2>2 DEF Known
<1>11. AbandonedLogs'
  <2>1. \A k \in DOMAIN logs : logs[k].status = "in_progress" =>
          \/ \E r \in Sessions : sess'[r].pc # "idle" /\ sess'[r].log = k
          \/ logs[k].era > left'.restarts
          \/ ~Registered(logs[k].src) \/ ~Registered(logs[k].tgt)
    <3> SUFFICES ASSUME NEW k \in DOMAIN logs, logs[k].status = "in_progress",
                        NEW r \in Sessions, sess[r].pc # "idle", sess[r].log = k
                 PROVE  sess'[r].pc # "idle" /\ sess'[r].log = k
      BY DEF LogsInv, AbandonedLogs
    <3> QED
      BY <1>5 DEF Runs
  <2>2. \E r \in Sessions : sess'[r].pc # "idle" /\ sess'[r].log = n
    BY <1>5
  <2> QED
    BY <1>4, <1>9, <2>1, <2>2 DEF AbandonedLogs, Registered
<1> QED
  BY <1>4, <1>7, <1>8, <1>10, <1>11 DEF LogsInv

LEMMA OpenedKeeps ==
  ASSUME ReplicationInv, NEW s \in Sessions, ~Runs(s), NEW kind \in {"full", "incremental", "weights"},
         NEW src, NEW tgt, Registered(src), Registered(tgt), NEW since \in Int,
         Opened(s, kind, src, tgt, since), Opening,
         UNCHANGED <<row, store, weights, conflicts, excused>>
  PROVE  ReplicationInv'
<1> DEFINE pc == IF kind = "weights" THEN "models" ELSE "select"
           queue == {q \in sess[s].queue : q[1] # tgt}
           X == [pc |-> pc, kind |-> kind, src |-> src, tgt |-> tgt, since |-> since, todo |-> {},
                 ids |-> {}, log |-> Len(logs) + 1, queue |-> queue, missed |-> {}]
<1>1. /\ TypeInv /\ LogsInv /\ sess[s] \in Session /\ src \in Instances /\ tgt \in Instances
      /\ Len(logs) \in Nat /\ left \in Bounds
  BY LogsAre DEF ReplicationInv, TypeInv, Typed, Registered, Recorded
<1>2. /\ sess' = [sess EXCEPT ![s] = X] /\ logs' = Append(logs, NewLog(kind, src, tgt))
      /\ left.logs > 0 /\ left' = [left EXCEPT !.logs = left.logs - 1]
  BY Zenon DEF Opened, NewLog
<1>3. UNCHANGED <<clock, born, flushed, row, store, weights, conflicts, stale, excused>>
  BY DEF Opening
<1>4. pc \in {"select", "models"} /\ queue \in SUBSET (Instances \X Int)
  BY <1>1 DEF Session
<1> HIDE DEF pc, queue
<1>5. /\ X \in Session /\ X.pc # "idle" /\ X.pc \notin {"list", "entry"} /\ X.log = Len(logs) + 1
      /\ X.kind = kind /\ X.src = src /\ X.tgt = tgt /\ X.pc = pc
  BY <1>1, <1>4 DEF Session
<1> HIDE DEF X
<1>6. left' \in Bounds /\ left'.restarts = left.restarts
  BY <1>1, <1>2, SpentLog
<1>7. LogsInv' /\ logs' \in Seq(Log)
  BY <1>1, <1>2, <1>3, <1>5, <1>6, LogsOpen
<1>8. Recorded'
  BY <1>1, <1>3, <1>6, <1>7 DEF TypeInv, Recorded
<1>9. TypeInv'
  <2>1. /\ store' \in [Instances -> [Items -> {"none", "same", "own"}]]
        /\ weights' \in [Instances -> [Models -> {"none", "good", "bad"}]]
        /\ excused' \subseteq Instances \X Items
    BY <1>1, <1>3 DEF TypeInv, Typed
  <2> QED
    BY <1>1, <1>2, <1>3, <1>5, <1>8, <2>1, TypeOn
<1>10. Grows
  BY <1>3 DEF Grows
<1>11. Covers(X, store', born)
  BY <1>4, <1>5, AfterIs DEF Covers, Items
<1>12. Unborn' /\ Handled'
  BY <1>1, <1>2, <1>3, <1>5, <1>10, <1>11, UnbornOn, HandledOn DEF ReplicationInv
<1>13. GapsExplained'
  BY <1>1, <1>3, <1>10, GapsStay DEF ReplicationInv, TypeInv, Typed
<1> QED
  BY <1>7, <1>9, <1>12, <1>13 DEF ReplicationInv

LEMMA StartSyncKeeps ==
  ASSUME ReplicationInv, NEW r \in Requests, StartSync(r[1], r[2], r[3], r[4])
  PROVE  ReplicationInv'
<1>1. r[1] \in {"full", "incremental", "weights"} /\ r[4] \in Int
  BY ReplicationAssumption
<1>2. "manual" \in Sessions /\ ~Runs("manual")
  BY DEF StartSync, Runs, Sessions
<1> QED
  BY <1>1, <1>2, OpenedKeeps DEF StartSync

\* A session that stays idle.
LEMMA IdleKeeps ==
  ASSUME ReplicationInv, NEW s \in Sessions, ~Runs(s), NEW X \in Session, X.pc = "idle",
         sess' = [sess EXCEPT ![s] = X],
         UNCHANGED <<clock, born, flushed, row, store, weights, logs, conflicts, stale, excused, left>>
  PROVE  ReplicationInv'
<1> USE DEF ReplicationInv
<1>1. Recorded' /\ Grows
  BY DEF TypeInv, Recorded, Grows
<1>2. TypeInv'
  <2>1. /\ store' \in [Instances -> [Items -> {"none", "same", "own"}]]
        /\ weights' \in [Instances -> [Models -> {"none", "good", "bad"}]]
        /\ excused' \subseteq Instances \X Items
    BY DEF TypeInv, Typed
  <2> QED
    BY <1>1, <2>1, TypeOn
<1>3. /\ sess'[s] = X /\ \A r \in Sessions \ {s} : sess'[r] = sess[r]
  BY DEF TypeInv, Typed
<1>4. LogsInv'
  BY <1>3 DEF LogsInv, OnLog, OwnLog, Known, AbandonedLogs, Runs, Registered
<1>5. Unborn' /\ Handled'
  BY <1>1, UnbornOn, HandledOn
<1>6. GapsExplained'
  BY <1>1, GapsStay DEF TypeInv, Typed
<1> QED
  BY <1>2, <1>4, <1>5, <1>6

LEMMA AutoSyncCheckKeeps ==
  ASSUME ReplicationInv, AutoSyncCheck
  PROVE  ReplicationInv'
<1>1. PICK p \in Instances : sess' = [sess EXCEPT !["auto"] = Between(p,
            {<<t, IF row[t].mark # 0 THEN row[t].mark ELSE clock - Window>> :
               t \in {j \in Instances \ {p} : Online(j)}})]
  BY DEF AutoSyncCheck
<1> DEFINE mark(t) == IF row[t].mark # 0 THEN row[t].mark ELSE clock - Window
           queue == {<<t, mark(t)>> : t \in {j \in Instances \ {p} : Online(j)}}
           X == Between(p, queue)
<1>2. \A t \in Instances : mark(t) \in Int
  BY ReplicationAssumption DEF ReplicationInv, TypeInv, Typed
<1>3. queue \in SUBSET (Instances \X Int)
  BY <1>2
<1>4. X \in Session /\ X.pc = "idle"
  BY <1>3, BetweenTyped
<1>5. sess' = [sess EXCEPT !["auto"] = X]
  BY <1>1
<1>6. "auto" \in Sessions /\ ~Runs("auto")
      /\ UNCHANGED <<clock, born, flushed, row, store, weights, logs, conflicts, stale, excused, left>>
  BY DEF AutoSyncCheck, Sessions, Runs, Opening
<1> HIDE DEF X
<1> QED
  BY <1>4, <1>5, <1>6, IdleKeeps

LEMMA AutoNextKeeps ==
  ASSUME ReplicationInv, AutoNext
  PROVE  ReplicationInv'
<1> DEFINE s == "auto"
<1>1. s \in Sessions /\ ~Runs(s) /\ sess[s] \in Session /\ sess[s].pc = "idle"
  BY DEF AutoNext, Sessions, Runs, ReplicationInv, TypeInv, Typed
<1>2. PICK q \in sess[s].queue :
        IF Registered(sess[s].src) /\ Registered(q[1])
        THEN Opened(s, "incremental", sess[s].src, q[1], q[2])
        ELSE /\ sess' = [sess EXCEPT ![s].queue = sess[s].queue \ {q}]
             /\ UNCHANGED <<logs, left>>
  BY Zenon DEF AutoNext
<1>3. Opening /\ UNCHANGED <<row, store, weights, conflicts, excused>>
  BY DEF AutoNext
<1>4. q \in Instances \X Int
  BY <1>1 DEF Session
<1>5. CASE Registered(sess[s].src) /\ Registered(q[1])
  <2>1. Opened(s, "incremental", sess[s].src, q[1], q[2])
    BY <1>2, <1>5
  <2>2. q[2] \in Int
    BY <1>4
  <2> HIDE DEF s
  <2> QED
    BY <1>1, <1>3, <1>5, <2>1, <2>2, OpenedKeeps
<1>6. CASE ~(Registered(sess[s].src) /\ Registered(q[1]))
  <2> DEFINE queue == sess[s].queue \ {q}
             X == [sess[s] EXCEPT !.queue = queue]
  <2>1. sess' = [sess EXCEPT ![s] = X] /\ UNCHANGED <<logs, left>>
    BY <1>1, <1>2, <1>6, Zenon
  <2>2. queue \in SUBSET (Instances \X Int)
    BY <1>1 DEF Session
  <2> HIDE DEF queue
  <2>3. X \in Session /\ X.pc = "idle"
    BY <1>1, <2>2, Zenon DEF Session
  <2> HIDE DEF X, s
  <2> QED
    BY <1>1, <1>3, <2>1, <2>3, IdleKeeps DEF Opening
<1> QED
  BY <1>5, <1>6

-----------------------------------------------------------------------------
LEMMA RegistryNextKeeps == ReplicationInv /\ RegistryNext => ReplicationInv'
<1> SUFFICES ASSUME ReplicationInv, RegistryNext PROVE ReplicationInv'
  OBVIOUS
<1>1. CASE SelectStale \/ BeginDiscover
  BY <1>1, SelectionsKeep
<1>2. CASE MarkStale
  BY <1>2, MarkStaleKeeps
<1>3. CASE \E i \in Instances : \/ Register(i) \/ Promote(i) \/ RecordHeartbeat(i) \/ Deregister(i)
                                \/ \E up \in BOOLEAN : ProbeInstance(i, up)
  BY <1>3, RegisterKeeps, PromoteKeeps, RecordHeartbeatKeeps, DeregisterKeeps, ProbeInstanceKeeps
<1> QED
  BY <1>1, <1>2, <1>3 DEF RegistryNext

LEMMA SyncNextKeeps == ReplicationInv /\ SyncNext => ReplicationInv'
<1> SUFFICES ASSUME ReplicationInv, SyncNext PROVE ReplicationInv'
  OBVIOUS
<1>1. CASE \E r \in Requests : StartSync(r[1], r[2], r[3], r[4])
  BY <1>1, StartSyncKeeps
<1>2. CASE AutoSyncCheck \/ AutoNext
  BY <1>2, AutoSyncCheckKeeps, AutoNextKeeps
<1>3. ASSUME NEW s \in Sessions, SelectEntries(s) \/ FinishSync(s) PROVE ReplicationInv'
  BY <1>3, SelectEntriesKeeps, FinishSyncKeeps
<1>4. ASSUME NEW s \in Sessions, NEW a \in Answers,
             \/ GetRemoteEntryIds(s, a) \/ ListModels(s, a)
             \/ \E e \in Entries : CheckEntryConflict(s, e, a)
      PROVE  ReplicationInv'
  BY <1>4, GetRemoteEntryIdsKeeps, ListModelsKeeps, CheckEntryConflictKeeps
<1>5. ASSUME NEW s \in Sessions, NEW a \in {"ok", "refused"},
             \/ SyncConversations(s, a) \/ SyncAccessRules(s, a)
             \/ \E e \in Entries : TransferEntry(s, e, a)
      PROVE  ReplicationInv'
  BY <1>5, PushesKeep, TransferEntryKeeps
<1>6. ASSUME NEW s \in Sessions, NEW m \in Models, NEW o \in Outcomes, CopyModel(s, m, o)
      PROVE  ReplicationInv'
  BY <1>6, CopyModelKeeps
<1>7. ASSUME NEW c \in conflicts, NEW r \in {"keep_source", "keep_target", "keep_both"},
             NEW a \in {"ok", "refused"}, ResolveConflict(c, r, a)
      PROVE  ReplicationInv'
  BY <1>7, ResolveConflictKeeps
<1> QED
  BY <1>1, <1>2, <1>3, <1>4, <1>5, <1>6, <1>7, Zenon DEF SyncNext, Outcomes

LEMMA StutterKeeps == ReplicationInv /\ UNCHANGED vars => ReplicationInv'
<1> SUFFICES ASSUME ReplicationInv, UNCHANGED vars PROVE ReplicationInv'
  OBVIOUS
<1>1. Grows
  BY DEF vars, syncVars, Grows
<1>2. /\ store' \in [Instances -> [Items -> {"none", "same", "own"}]]
      /\ \A i \in Instances, x \in Items : store'[i][x] # "none" => store[i][x] # "none" \/ born[x] # 0
      /\ conflicts' \subseteq Conflict /\ \A c \in conflicts' : born[c.entry] # 0
  BY DEF vars, syncVars, ReplicationInv, TypeInv, Typed, Recorded, Unborn
<1> QED
  BY <1>1, <1>2, CopiesKeep DEF vars, syncVars

LEMMA ReplicationStep == ReplicationInv /\ [Next]_vars => ReplicationInv'
<1> SUFFICES ASSUME ReplicationInv, [Next]_vars PROVE ReplicationInv'
  OBVIOUS
<1>1. CASE Tick \/ Restart
  BY <1>1, TickKeeps, RestartKeeps
<1>2. CASE RegistryNext \/ SyncNext
  BY <1>2, RegistryNextKeeps, SyncNextKeeps
<1>3. CASE \E x \in Items : Flush(x) \/ Create(x) \/ Rollback(x)
  BY <1>3, CreateKeeps, FlushesKeep
<1>4. CASE \E i \in Instances, e \in Entries : Diverge(i, e)
  BY <1>4, DivergeKeeps
<1>5. CASE UNCHANGED vars
  BY <1>5, StutterKeeps
<1> QED
  BY <1>1, <1>2, <1>3, <1>4, <1>5 DEF Next

\* Whatever the requests, passes, failures and restarts: each running session has an open
\* log of its own, no log stays open unless its process or an instance is gone, one
\* instance at most is primary, and what an instance lacks from before its last_sync_at is
\* accounted for (full_sync, incremental_sync, auto_sync_check and the registry).
THEOREM SyncIsExplained == Spec => []SyncInv
<1>1. ReplicationInv => SyncInv
  BY DEF ReplicationInv, TypeInv, LogsInv, SyncInv, TypeOK
<1> QED
  BY <1>1, ReplicationInitial, ReplicationStep, PTL DEF Spec

-----------------------------------------------------------------------------
\* The steps of Delivery that the steps of Replication take.
LEMMA BlindIs ==
  ASSUME ReplicationInv'
  PROVE  Blind' \in SUBSET (Instances \X Entries)
<1>1. \A s \in Sessions : At(s, "entry")' => sess'[s].tgt \in Instances /\ sess'[s].todo \subseteq Entries
  BY DEF ReplicationInv, TypeInv, Working, Runs, At
<1> QED
  BY <1>1 DEF Blind

LEMMA EntriesPut ==
  ASSUME ReplicationInv, NEW i \in Instances, NEW x \in Items, NEW version,
         store' = [store EXCEPT ![i][x] = version]
  PROVE  /\ x \in Entries => EntryStore' = [EntryStore EXCEPT ![i][x] = version]
         /\ x \notin Entries => EntryStore' = EntryStore
<1>1. store \in [Instances -> [Items -> {"none", "same", "own"}]] /\ Entries \subseteq Items
  BY DEF ReplicationInv, TypeInv, Typed, Items
<1>2. CASE x \in Entries
  BY <1>1, <1>2 DEF EntryStore
<1>3. CASE x \notin Entries
  BY <1>1, <1>3 DEF EntryStore
<1> QED
  BY <1>2, <1>3

LEMMA LookStep ==
  ASSUME ReplicationInv', EntryStore' = EntryStore, Disputed' = Disputed
  PROVE  D!Next
BY BlindIs DEF D!Next, D!Look

LEMMA DeliverStep ==
  ASSUME ReplicationInv', NEW i \in Instances, NEW e \in Entries,
         EntryStore' = [EntryStore EXCEPT ![i][e] = "same"], Disputed' = Disputed,
         store[i][e] = "own" => <<i, e>> \in Disputed \/ <<i, e>> \in Blind
  PROVE  D!Next
<1>1. Blind' \in SUBSET (Instances \X Entries)
  BY BlindIs
<1>2. EntryStore[i][e] = store[i][e]
  BY DEF EntryStore
<1>3. D!Deliver(i, e) \/ D!Replace(i, e)
  BY <1>2 DEF D!Deliver, D!Replace, D!Put
<1> QED
  BY <1>1, <1>3 DEF D!Next

LEMMA PutDelivers ==
  ASSUME ReplicationInv, ReplicationInv', NEW i \in Instances, NEW e \in Entries,
         store' = [store EXCEPT ![i][e] = "same"], Disputed' = Disputed,
         store[i][e] = "own" => <<i, e>> \in Disputed \/ <<i, e>> \in Blind
  PROVE  D!Next
<1>1. e \in Items
  BY DEF Items
<1>2. EntryStore' = [EntryStore EXCEPT ![i][e] = "same"]
  BY <1>1, EntriesPut
<1> QED
  BY <1>2, DeliverStep

LEMMA CreateDelivers ==
  ASSUME ReplicationInv, ReplicationInv', NEW x \in Items, Create(x)
  PROVE  D!Next
<1>1. Disputed' = Disputed /\ Home \in Instances
  BY ReplicationAssumption DEF Create, Disputed
<1>2. CASE x \in Entries
  <2>1. store' = [store EXCEPT ![Home][x] = "same"] /\ store[Home][x] = "none"
    BY <1>1, <1>2 DEF Create, ReplicationInv, Unborn
  <2> QED
    BY <1>1, <1>2, <2>1, PutDelivers
<1>3. CASE x \notin Entries
  BY <1>1, <1>3, LookStep DEF Create, EntryStore
<1> QED
  BY <1>2, <1>3

LEMMA DivergeDelivers ==
  ASSUME ReplicationInv, ReplicationInv', NEW i \in Instances, NEW e \in Entries, Diverge(i, e)
  PROVE  D!Next
<1>1. store' = [store EXCEPT ![i][e] = "own"] /\ store[i][e] = "same" /\ e \in Items
      /\ Disputed' = Disputed
  BY DEF Diverge, Disputed, syncVars, Items
<1>2. EntryStore' = [EntryStore EXCEPT ![i][e] = "own"] /\ EntryStore[i][e] = "same"
  <2>1. EntryStore' = [EntryStore EXCEPT ![i][e] = "own"]
    BY <1>1, EntriesPut
  <2> QED
    BY <1>1, <2>1 DEF EntryStore
<1>3. D!Diverge(i, e)
  BY <1>1, <1>2 DEF D!Diverge, D!Put
<1> QED
  BY <1>3, BlindIs DEF D!Next

LEMMA TransferDelivers ==
  ASSUME ReplicationInv, ReplicationInv', NEW s \in Sessions, NEW e \in Entries,
         NEW answer \in {"ok", "refused"}, TransferEntry(s, e, answer)
  PROVE  D!Next
<1> DEFINE tgt == sess[s].tgt
<1>1. tgt \in Instances /\ e \in Items /\ <<tgt, e>> \in Blind /\ Disputed' = Disputed
  <2>1. tgt \in Instances /\ e \in sess[s].todo \ sess[s].ids /\ At(s, "entry")
    BY DEF TransferEntry, ReplicationInv, TypeInv, Working, Runs, At
  <2> QED
    BY <2>1 DEF Blind, Disputed, TransferEntry, Items
<1>2. CASE answer = "ok"
  <2>1. store' = [store EXCEPT ![tgt][e] = "same"]
    BY <1>2 DEF TransferEntry
  <2> QED
    BY <1>1, <2>1, PutDelivers
<1>3. CASE answer # "ok"
  BY <1>1, <1>3, LookStep DEF TransferEntry, EntryStore
<1> QED
  BY <1>2, <1>3

LEMMA PushDelivers ==
  ASSUME ReplicationInv, ReplicationInv', NEW s \in Sessions, NEW answer \in {"ok", "refused"},
         SyncConversations(s, answer) \/ SyncAccessRules(s, answer)
  PROVE  D!Next
<1>1. PICK x \in {Thread, Rule}, next \in {"rules", "finish"} :
        Push(s, x, answer, next) /\ Runs(s)
  BY DEF SyncConversations, SyncAccessRules, At, Runs
<1>2. x \in Items /\ x \notin Entries /\ sess[s].tgt \in Instances
  BY <1>1, ReplicationAssumption DEF Items, ReplicationInv, TypeInv, Working
<1>3. store' = store \/ store' = [store EXCEPT ![sess[s].tgt][x] = "same"]
  BY <1>1 DEF Push
<1>4. EntryStore' = EntryStore
  <2>1. CASE store' = store
    BY <2>1 DEF EntryStore
  <2>2. CASE store' = [store EXCEPT ![sess[s].tgt][x] = "same"]
    BY <1>2, <2>2, EntriesPut
  <2> QED
    BY <1>3, <2>1, <2>2
<1>5. Disputed' = Disputed
  BY <1>1 DEF Push, Disputed
<1> QED
  BY <1>4, <1>5, LookStep

LEMMA DisputeDelivers ==
  ASSUME ReplicationInv, ReplicationInv', NEW s \in Sessions, NEW e \in Entries,
         NEW answer \in Answers, CheckEntryConflict(s, e, answer)
  PROVE  D!Next
<1> DEFINE src == sess[s].src
           tgt == sess[s].tgt
           new == [log |-> sess[s].log, entry |-> e, tgt |-> tgt, resolution |-> "pending"]
<1>1. src \in Instances /\ tgt \in Instances /\ EntryStore' = EntryStore
  BY DEF CheckEntryConflict, Fail, ReplicationInv, TypeInv, Working, Runs, At, EntryStore
<1>2. conflicts' = conflicts \/ (conflicts' = conflicts \cup {new} /\ Differ(src, tgt, e))
  BY DEF CheckEntryConflict, Fail
<1>3. CASE conflicts' = conflicts
  BY <1>1, <1>3, LookStep DEF Disputed
<1>4. CASE conflicts' = conflicts \cup {new} /\ Differ(src, tgt, e)
  <2>1. Disputed' = Disputed \cup {<<tgt, e>>}
    <3>1. new.tgt = tgt /\ new.entry = e
      OBVIOUS
    <3> HIDE DEF new
    <3> QED
      BY <1>4, <3>1 DEF Disputed
  <2>2. EntryStore[tgt][e] # "none" /\ \E j \in Instances : EntryStore[j][e] = "own"
    <3>1. store[tgt][e] # "none" /\ (store[src][e] = "own" \/ store[tgt][e] = "own")
      BY <1>4 DEF Differ
    <3>2. EntryStore[tgt][e] = store[tgt][e] /\ EntryStore[src][e] = store[src][e]
      BY <1>1 DEF EntryStore
    <3> QED
      BY <1>1, <3>1, <3>2
  <2>3. D!Dispute(tgt, e)
    BY <1>1, <2>1, <2>2 DEF D!Dispute
  <2> HIDE DEF tgt
  <2> QED
    BY <1>1, <2>3, BlindIs DEF D!Next
<1> QED
  BY <1>2, <1>3, <1>4

LEMMA ResolveDelivers ==
  ASSUME ReplicationInv, ReplicationInv', NEW c \in conflicts,
         NEW resolution \in {"keep_source", "keep_target", "keep_both"}, NEW answer \in {"ok", "refused"},
         ResolveConflict(c, resolution, answer)
  PROVE  D!Next
<1> DEFINE tgt == c.tgt
           entry == c.entry
           d == [c EXCEPT !.resolution = resolution]
<1>1. c \in Conflict /\ tgt \in Instances /\ entry \in Entries /\ entry \in Items
  BY DEF ReplicationInv, TypeInv, Recorded, Conflict, Items
<1>2. d.tgt = tgt /\ d.entry = entry
  BY <1>1 DEF Conflict
<1>3. conflicts' = (conflicts \ {c}) \cup {d}
  BY DEF ResolveConflict
<1> HIDE DEF d
<1>4. Disputed' = Disputed /\ <<tgt, entry>> \in Disputed
  BY <1>2, <1>3 DEF Disputed
<1>5. store' = store \/ store' = [store EXCEPT ![tgt][entry] = "same"]
  BY DEF ResolveConflict, ApplyResolution
<1> HIDE DEF tgt, entry
<1>6. CASE store' = store
  BY <1>4, <1>6, LookStep DEF EntryStore
<1>7. CASE store' = [store EXCEPT ![tgt][entry] = "same"]
  BY <1>1, <1>4, <1>7, PutDelivers
<1> QED
  BY <1>5, <1>6, <1>7

\* Every other step leaves the copies and the conflicts as they are.
LEMMA OthersLook ==
  ASSUME ReplicationInv', store' = store, conflicts' = conflicts
  PROVE  D!Next
BY LookStep DEF EntryStore, Disputed

LEMMA DeliveryInitial == Init => D!Init
<1> SUFFICES ASSUME Init PROVE D!Init
  OBVIOUS
<1>1. /\ store = [i \in Instances |-> [x \in Items |-> "none"]]
      /\ sess = [s \in Sessions |-> Idle] /\ conflicts = {}
  BY Zenon DEF Init
<1>2. \A s \in Sessions : ~At(s, "entry")
  BY <1>1, IdleTyped DEF At
<1>3. EntryStore = [i \in Instances |-> [e \in Entries |-> "none"]]
  BY <1>1 DEF EntryStore, Items
<1>4. Disputed = {} /\ Blind = {}
  BY <1>1, <1>2 DEF Disputed, Blind
<1> QED
  BY <1>3, <1>4 DEF D!Init

LEMMA SyncDelivers ==
  ASSUME ReplicationInv, ReplicationInv', SyncNext
  PROVE  D!Next
<1>1. CASE \E r \in Requests : StartSync(r[1], r[2], r[3], r[4])
  BY <1>1, OthersLook DEF StartSync
<1>2. CASE AutoSyncCheck \/ AutoNext
  BY <1>2, OthersLook DEF AutoSyncCheck, AutoNext
<1>3. ASSUME NEW s \in Sessions, SelectEntries(s) \/ FinishSync(s) PROVE D!Next
  BY <1>3, OthersLook DEF SelectEntries, FinishSync
<1>4. ASSUME NEW s \in Sessions, NEW a \in Answers,
             \/ GetRemoteEntryIds(s, a) \/ ListModels(s, a)
             \/ \E e \in Entries : CheckEntryConflict(s, e, a)
      PROVE  D!Next
  BY <1>4, OthersLook, DisputeDelivers DEF GetRemoteEntryIds, ListModels, Fail
<1>5. ASSUME NEW s \in Sessions, NEW a \in {"ok", "refused"},
             \/ SyncConversations(s, a) \/ SyncAccessRules(s, a)
             \/ \E e \in Entries : TransferEntry(s, e, a)
      PROVE  D!Next
  BY <1>5, PushDelivers, TransferDelivers
<1>6. ASSUME NEW s \in Sessions, NEW m \in Models, NEW o \in Outcomes, CopyModel(s, m, o)
      PROVE  D!Next
  BY <1>6, OthersLook DEF CopyModel
<1>7. ASSUME NEW c \in conflicts, NEW r \in {"keep_source", "keep_target", "keep_both"},
             NEW a \in {"ok", "refused"}, ResolveConflict(c, r, a)
      PROVE  D!Next
  BY <1>7, ResolveDelivers
<1> QED
  BY <1>1, <1>2, <1>3, <1>4, <1>5, <1>6, <1>7, Zenon DEF SyncNext, Outcomes

LEMMA DeliveryStep == ReplicationInv /\ ReplicationInv' /\ [Next]_vars => [D!Next]_(D!vars)
<1> SUFFICES ASSUME ReplicationInv, ReplicationInv', [Next]_vars PROVE D!Next
  OBVIOUS
<1>1. CASE Tick \/ Restart \/ UNCHANGED vars
  BY <1>1, OthersLook DEF Tick, Restart, vars, syncVars
<1>2. CASE RegistryNext
  <2>1. RegistryOnly
    BY <1>2 DEF RegistryNext, SelectStale, MarkStale, BeginDiscover, Register, Promote,
                RecordHeartbeat, Deregister, ProbeInstance
  <2> QED
    BY <2>1, OthersLook DEF RegistryOnly, syncVars
<1>3. CASE SyncNext
  BY <1>3, SyncDelivers
<1>4. CASE \E x \in Items : Flush(x) \/ Create(x) \/ Rollback(x)
  BY <1>4, CreateDelivers, OthersLook DEF Flush, Rollback, syncVars
<1>5. CASE \E i \in Instances, e \in Entries : Diverge(i, e)
  BY <1>5, DivergeDelivers
<1> QED
  BY <1>1, <1>2, <1>3, <1>4, <1>5 DEF Next

\* Replication implements Delivery: a copy that is there stays, and what an instance made
\* of its own is replaced only after a conflict was recorded for it, or by a sync that
\* believes the instance has no copy (_sync_knowledge_entries, resolve_conflict).
THEOREM ReplicationDelivers == Spec => DeliverySpec
<1>1. Spec => []ReplicationInv
  BY ReplicationInitial, ReplicationStep, PTL DEF Spec
<1> QED
  BY <1>1, DeliveryInitial, DeliveryStep, PTL DEF Spec, DeliverySpec, D!Spec
=============================================================================
