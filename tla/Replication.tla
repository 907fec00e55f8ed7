----------------------------- MODULE Replication -----------------------------
(***************************************************************************)
(* One owner's instances and what is copied to them: the registry with its *)
(* heartbeats, probes and stale check (services/instance_manager.py), and  *)
(* the synchronisation engine with the automatic pass, conflicts and model *)
(* weights (services/sync_engine.py).  The registry, logs and conflicts    *)
(* are database rows; what the instances hold and how they answer is       *)
(* external.  A session is one request's, or the automatic pass's, and its *)
(* steps are what happens between two awaits that other actors can see.    *)
(***************************************************************************)
EXTENDS Integers, Sequences, FiniteSets

CONSTANTS
  Instances, Entries,
  Thread, Rule,       \* a conversation and an access rule, pushed as a whole
  Models,             \* the names a peer's /models answers
  Home,               \* the instance the API itself ingests entries into
  Requests,           \* what the owner may ask for: <<kind, source, target, since>>
  Starts,             \* initial registries, with the bounds that go with each
  Api,                \* the instances registered with an api_url
  Window,             \* thirty days: how far back a first automatic sync goes
  Timeout,            \* instance_heartbeat_timeout_seconds
  MaxClock,           \* bound on time
  None

ASSUME ReplicationAssumption ==
  /\ IsFiniteSet(Instances) /\ Api \subseteq Instances
  /\ Home \in Instances
  /\ Requests \subseteq {"full", "incremental", "weights"} \X Instances \X Instances \X Nat
  /\ Starts \subseteq [reg : SUBSET Instances, items : SUBSET (Entries \cup {Thread, Rule}),
                       logs : Nat, registry : Nat, restarts : Nat]
  /\ Entries # {} /\ Thread \notin Entries /\ Rule \notin Entries /\ Thread # Rule
  /\ None \notin Instances
  /\ {Window, Timeout} \subseteq Nat /\ MaxClock \in Nat \ {0}

VARIABLES
  clock,
  born,       \* created_at of a row the others see, 0 before
  flushed,    \* created_at of a row whose transaction is under way, or 0
  row,        \* the registry rows
  store,      \* what an instance holds of an item
  weights,    \* the models an instance holds: "none", "good" or "bad"
  sess,       \* the manual request and the automatic pass
  logs,       \* sync_logs
  conflicts,  \* sync_conflicts
  stale,      \* what the stale check selected, and discover is still probing
  excused,    \* the items a completed sync passed over, with the instance
  left        \* the bounds: the items, and the logs, registry operations and restarts left

syncVars == <<sess, logs, conflicts>>
vars == <<clock, born, flushed, row, store, weights, sess, logs, conflicts, stale, excused, left>>

Items == Entries \cup {Thread, Rule}
Sessions == {"manual", "auto"}
Existing == {x \in Items : born[x] # 0}
Registered(i) == i \in Instances /\ row[i].reg = "in"
Online(i) == Registered(i) /\ row[i].status # "offline"

\* A row as it is inserted, and one that is not there.
Fresh(reg, beat, primary) ==
  [reg |-> reg, status |-> "active", beat |-> beat, primary |-> primary, mark |-> 0]
Blank == Fresh("new", 0, FALSE)

\* The automatic pass between two of its targets, and a session that is over.
Between(src, queue) ==
  [pc |-> "idle", kind |-> None, src |-> src, tgt |-> None, since |-> 0, todo |-> {},
   ids |-> {}, log |-> 0, queue |-> queue, missed |-> {}]
Idle == Between(None, {})

Init ==
  /\ clock = 1
  /\ born = [x \in Items |-> 0] /\ flushed = [x \in Items |-> 0]
  /\ left \in Starts
  /\ row = [i \in Instances |-> IF i \notin left.reg THEN Blank ELSE
              Fresh("in", 1, i = Home)]
  /\ store = [i \in Instances |-> [x \in Items |-> "none"]]
  /\ weights = [i \in Instances |-> [m \in Models |-> IF i = Home THEN "good" ELSE "none"]]
  /\ sess = [s \in Sessions |-> Idle]
  /\ logs = <<>>
  /\ conflicts = {}
  /\ stale = [check |-> {}, probe |-> {}]
  /\ excused = {}

-----------------------------------------------------------------------------
\* The database and the instances, outside the two services.

Tick ==
  /\ clock < MaxClock
  /\ clock' = clock + 1
  /\ UNCHANGED <<born, flushed, row, store, weights, syncVars, stale, excused, left>>

\* The steps of a sync after it has selected the items of x's table.
After(x) == CASE x \in Entries -> {"list", "entry", "threads", "rules", "finish"}
              [] x = Thread    -> {"rules", "finish"}
              [] x = Rule      -> {"finish"}

\* The row is flushed, with the created_at of that moment, and the transaction goes
\* on: a conversation's waits for the whole answer.
Flush(x) ==
  /\ born[x] = 0 /\ flushed[x] = 0 /\ x \in left.items
  /\ flushed' = [flushed EXCEPT ![x] = clock]
  /\ UNCHANGED <<clock, born, row, store, weights, syncVars, stale, excused, left>>

\* Its commit shows the row to the others.  The copy of an entry is at Home by then,
\* where nobody asks for it any sooner.
Create(x) ==
  /\ flushed[x] # 0
  /\ flushed' = [flushed EXCEPT ![x] = 0]
  /\ born' = [born EXCEPT ![x] = flushed[x]]
  /\ sess' = [s \in Sessions |-> IF sess[s].pc \in After(x)
                                 THEN [sess[s] EXCEPT !.missed = @ \cup {x}] ELSE sess[s]]
  /\ excused' = excused \cup ({i \in Instances : flushed[x] < row[i].mark} \X {x})
  /\ store' = IF x \in Entries THEN [store EXCEPT ![Home][x] = "same"] ELSE store
  /\ UNCHANGED <<clock, row, weights, logs, conflicts, stale, left>>

\* The request fails and its session closes without a commit.
Rollback(x) ==
  /\ flushed[x] # 0
  /\ flushed' = [flushed EXCEPT ![x] = 0]
  /\ UNCHANGED <<clock, born, row, store, weights, syncVars, stale, excused, left>>

\* An instance changes the copy of an entry it holds.
Diverge(i, e) ==
  /\ store[i][e] = "same"
  /\ store' = [store EXCEPT ![i][e] = "own"]
  /\ UNCHANGED <<clock, born, flushed, row, weights, syncVars, stale, excused, left>>

-----------------------------------------------------------------------------
\* The registry.

Spend == left.registry > 0 /\ left' = [left EXCEPT !.registry = @ - 1]
RegistryOnly == UNCHANGED <<clock, born, flushed, store, weights, syncVars, excused>>

Register(i) ==
  /\ row[i].reg = "new"
  /\ row' = [row EXCEPT ![i] = Fresh("in", clock, FALSE)]
  /\ UNCHANGED stale /\ Spend /\ RegistryOnly

Promote(i) ==
  /\ Registered(i)
  /\ row' = [j \in Instances |-> [row[j] EXCEPT !.primary = (j = i)]]
  /\ UNCHANGED stale /\ Spend /\ RegistryOnly

\* Mutant: a heartbeat that leaves the status alone.
BadRecordHeartbeat(i) ==
  /\ Registered(i)
  /\ row' = [row EXCEPT ![i].beat = clock]
  /\ UNCHANGED stale /\ UNCHANGED left /\ RegistryOnly

RecordHeartbeat(i) ==
  /\ Registered(i)
  /\ row' = [row EXCEPT ![i].beat = clock, ![i].status = "active"]
  /\ UNCHANGED stale /\ UNCHANGED left /\ RegistryOnly

Deregister(i) ==
  /\ Registered(i)
  /\ row' = [row EXCEPT ![i] = Fresh("gone", 0, FALSE)]
  /\ UNCHANGED stale /\ Spend /\ RegistryOnly

SelectStale ==
  /\ stale.check = {}
  /\ stale' = [stale EXCEPT !.check =
       {i \in Instances : Online(i) /\ row[i].beat < clock - Timeout}]
  /\ UNCHANGED row /\ Spend /\ RegistryOnly

\* One UPDATE per selected row and one commit: a row deleted in between fails
\* the commit, and the loop logs it.
MarkStale ==
  /\ stale.check # {}
  /\ stale' = [stale EXCEPT !.check = {}]
  /\ row' = IF \A i \in stale.check : Registered(i)
            THEN [i \in Instances |-> IF i \in stale.check
                    THEN [row[i] EXCEPT !.status = "offline"] ELSE row[i]]
            ELSE row
  /\ UNCHANGED left /\ RegistryOnly

BeginDiscover ==
  /\ stale.probe = {}
  /\ stale' = [stale EXCEPT !.probe = {i \in Api : Online(i)}]
  /\ UNCHANGED row /\ Spend /\ RegistryOnly

\* An instance that does not answer its /health is committed as offline; when
\* its row is gone the commit fails and the request with it.
ProbeInstance(i, up) ==
  /\ i \in stale.probe
  /\ \/ /\ up
        /\ stale' = [stale EXCEPT !.probe = @ \ {i}]
        /\ UNCHANGED row
     \/ /\ ~up /\ Registered(i)
        /\ stale' = [stale EXCEPT !.probe = @ \ {i}]
        /\ row' = [row EXCEPT ![i].status = "offline"]
     \/ /\ ~up /\ ~Registered(i)
        /\ stale' = [stale EXCEPT !.probe = {}]
        /\ UNCHANGED row
  /\ UNCHANGED left /\ RegistryOnly

-----------------------------------------------------------------------------
\* Starting a sync.

Opening == UNCHANGED <<clock, born, flushed, stale>>

\* Both instances are loaded and the log row is committed.
Opened(s, kind, src, tgt, since) ==
  /\ logs' = Append(logs, [status |-> "in_progress", kind |-> kind,
                           src |-> src, tgt |-> tgt, era |-> left.restarts])
  /\ left.logs > 0 /\ left' = [left EXCEPT !.logs = @ - 1]
  /\ sess' = [sess EXCEPT ![s] =
       [pc |-> IF kind = "weights" THEN "models" ELSE "select", kind |-> kind, src |-> src,
        tgt |-> tgt, since |-> since, todo |-> {}, ids |-> {}, log |-> Len(logs) + 1,
        queue |-> {q \in sess[s].queue : q[1] # tgt}, missed |-> {}]]

StartSync(kind, src, tgt, since) ==
  /\ sess["manual"].pc = "idle"
  /\ src # tgt /\ Registered(src) /\ Registered(tgt)
  /\ kind = "weights" => {src, tgt} \subseteq Api
  /\ Opened("manual", kind, src, tgt, since)
  /\ Opening /\ UNCHANGED <<row, store, weights, conflicts, excused>>

\* The pass reads the primary and its online targets once, their marks too.
AutoSyncCheck ==
  /\ sess["auto"].pc = "idle" /\ sess["auto"].queue = {}
  /\ \E p \in Instances :
       /\ Online(p) /\ row[p].primary
       /\ sess' = [sess EXCEPT !["auto"] = Between(p,
            {<<t, IF row[t].mark # 0 THEN row[t].mark ELSE clock - Window>> :
               t \in {j \in Instances \ {p} : Online(j)}})]
  /\ Opening /\ UNCHANGED <<row, store, weights, logs, conflicts, excused, left>>

AutoNext ==
  /\ sess["auto"].pc = "idle"
  /\ \E q \in sess["auto"].queue :
       IF Registered(sess["auto"].src) /\ Registered(q[1])
       THEN
            /\ Opened("auto", "incremental", sess["auto"].src, q[1], q[2])
       ELSE /\ sess' = [sess EXCEPT !["auto"].queue = @ \ {q}]
            /\ UNCHANGED <<logs, left>>
  /\ Opening /\ UNCHANGED <<row, store, weights, conflicts, excused>>

-----------------------------------------------------------------------------
\* The steps of a sync.

SyncOnly == UNCHANGED <<clock, born, flushed, stale, left>>

Answers == {"ok", "refused", "garbage"}   \* refused: 404, an error or no answer

At(s, pc) == sess[s].pc = pc
Goto(s, pc) == sess' = [sess EXCEPT ![s].pc = pc]
Close(s) == Between(sess[s].src, sess[s].queue)
SetLog(s, status) == logs' = [logs EXCEPT ![sess[s].log].status = status]

\* Mutant: the log is not closed.
BadFail(s) ==
  /\ sess' = [sess EXCEPT ![s] = Close(s)]
  /\ UNCHANGED <<row, logs, store, weights, conflicts, excused>>

\* An exception the engine catches: the log is committed as failed.
Fail(s) ==
  /\ SetLog(s, "failed")
  /\ sess' = [sess EXCEPT ![s] = Close(s)]
  /\ UNCHANGED <<row, store, weights, conflicts, excused>>

\* Mutant: created_at > since.
BadSelected(s, x) == born[x] # 0 /\ born[x] > sess[s].since
Selected(s, x) == born[x] # 0 /\ born[x] >= sess[s].since
PassedOver(s, S) == {x \in S \cap Existing : born[x] < sess[s].since \/ sess[s].tgt \notin Api}

SelectEntries(s) ==
  /\ At(s, "select")
  /\ LET found == {e \in Entries : Selected(s, e)}
         done  == found = {} \/ sess[s].tgt \notin Api
     IN sess' = [sess EXCEPT ![s].todo = IF done THEN {} ELSE found,
                             ![s].pc = IF done THEN "threads" ELSE "list",
                             ![s].missed = @ \cup PassedOver(s, Entries)]
  /\ SyncOnly /\ UNCHANGED <<row, store, weights, logs, conflicts, excused>>

GetRemoteEntryIds(s, answer) ==
  /\ At(s, "list")
  /\ IF answer = "garbage" THEN Fail(s)
     ELSE /\ sess' = [sess EXCEPT ![s].pc = "entry", ![s].ids =
               IF answer = "ok" THEN {e \in Entries : store[sess[s].tgt][e] # "none"} ELSE {}]
          /\ UNCHANGED <<row, store, weights, logs, conflicts, excused>>
  /\ SyncOnly

Rest(s, e) == [sess[s] EXCEPT !.todo = @ \ {e},
                              !.pc = IF sess[s].todo = {e} THEN "threads" ELSE "entry"]

Differ(i, j, e) ==
  /\ "none" \notin {store[i][e], store[j][e]}
  /\ "own" \in {store[i][e], store[j][e]}

\* Both hashes are asked for; a difference is recorded, never settled here.
CheckEntryConflict(s, e, answer) ==
  /\ At(s, "entry") /\ e \in sess[s].todo /\ e \in sess[s].ids
  /\ sess[s].src \notin Api => answer = "refused"
  /\ IF answer = "garbage" THEN Fail(s)
     ELSE /\ conflicts' = conflicts \cup
               (IF answer = "ok" /\ Differ(sess[s].src, sess[s].tgt, e)
                THEN {[log |-> sess[s].log, entry |-> e, tgt |-> sess[s].tgt,
                       resolution |-> "pending"]} ELSE {})
          /\ sess' = [sess EXCEPT ![s] = Rest(s, e)]
          /\ UNCHANGED <<row, store, weights, logs, excused>>
  /\ SyncOnly

\* Mutant: an entry the target holds is sent all the same.
BadTransferEntry(s, e, answer) ==
  /\ At(s, "entry") /\ e \in sess[s].todo
  /\ store' = IF answer = "ok" THEN [store EXCEPT ![sess[s].tgt][e] = "same"] ELSE store
  /\ sess' = [sess EXCEPT ![s] = [Rest(s, e) EXCEPT
                !.missed = IF answer = "ok" THEN @ ELSE @ \cup {e}]]
  /\ SyncOnly /\ UNCHANGED <<row, weights, logs, conflicts, excused>>

\* An entry the list did not name is sent; a refusal is logged and forgotten.
TransferEntry(s, e, answer) ==
  /\ At(s, "entry") /\ e \in sess[s].todo \ sess[s].ids
  /\ store' = IF answer = "ok" THEN [store EXCEPT ![sess[s].tgt][e] = "same"] ELSE store
  /\ sess' = [sess EXCEPT ![s] = [Rest(s, e) EXCEPT
                !.missed = IF answer = "ok" THEN @ ELSE @ \cup {e}]]
  /\ SyncOnly /\ UNCHANGED <<row, weights, logs, conflicts, excused>>

\* The rows of a table are read and posted as one snapshot.
Push(s, x, answer, next) ==
  /\ LET sent == Selected(s, x) /\ sess[s].tgt \in Api /\ answer = "ok"
     IN /\ store' = IF sent THEN [store EXCEPT ![sess[s].tgt][x] = "same"] ELSE store
        /\ sess' = [sess EXCEPT ![s].pc = next,
                                ![s].missed = @ \cup PassedOver(s, {x}) \cup
                                  (IF answer = "ok" THEN {} ELSE Existing \cap {x})]
  /\ SyncOnly /\ UNCHANGED <<row, weights, logs, conflicts, excused>>

SyncConversations(s, answer) == At(s, "threads") /\ Push(s, Thread, answer, "rules")
SyncAccessRules(s, answer) == At(s, "rules") /\ Push(s, Rule, answer, "finish")

\* The commit that completes a sync updates the log and both rows.  With a row
\* deleted it fails, the handler's commit fails too, the log stays as it is and
\* the whole automatic pass ends.
FinishSync(s) ==
  /\ At(s, "finish")
  /\ LET src == sess[s].src
         tgt == sess[s].tgt
     IN IF Registered(src) /\ Registered(tgt)
        THEN /\ SetLog(s, "completed")
             /\ row' = [row EXCEPT ![src].mark = clock, ![tgt].mark = clock]
             /\ excused' = excused \cup ({tgt} \X sess[s].missed) \cup ({src} \X Existing)
             /\ sess' = [sess EXCEPT ![s] = Close(s)]
        ELSE /\ sess' = [sess EXCEPT ![s] = Idle]
             /\ UNCHANGED <<row, logs, excused>>
  /\ SyncOnly /\ UNCHANGED <<store, weights, conflicts>>

-----------------------------------------------------------------------------
\* Model weights.

ListModels(s, answer) ==
  /\ At(s, "models")
  /\ LET found == {m \in Models : weights[sess[s].src][m] # "none"}
     IN IF answer # "ok" THEN Fail(s)
        ELSE /\ IF found = {} THEN SetLog(s, "completed") ELSE UNCHANGED logs
             /\ sess' = [sess EXCEPT ![s] = IF found = {} THEN Close(s) ELSE
                          [sess[s] EXCEPT !.todo = found, !.pc = "model"]]
             /\ UNCHANGED <<row, store, weights, conflicts, excused>>
  /\ SyncOnly

\* A model is exported, imported and its hash compared when the target names
\* one; the first that fails fails the sync, what arrived before it stays.
CopyModel(s, m, outcome) ==
  /\ At(s, "model") /\ m \in sess[s].todo
  /\ LET tgt   == sess[s].tgt
         arrived == CASE outcome = "ok"      -> [weights EXCEPT ![tgt][m] = weights[sess[s].src][m]]
                      [] outcome \in {"corrupt", "unverified"} -> [weights EXCEPT ![tgt][m] = "bad"]
                      [] OTHER               -> weights
         last  == sess[s].todo = {m}
     IN IF outcome \in {"ok", "skipped", "unverified"}
        THEN /\ weights' = arrived
             /\ sess' = [sess EXCEPT ![s] = IF last THEN Close(s) ELSE
                          [sess[s] EXCEPT !.todo = @ \ {m}]]
             /\ IF last THEN SetLog(s, "completed") ELSE UNCHANGED logs
        ELSE /\ weights' = arrived
             /\ SetLog(s, "failed")
             /\ sess' = [sess EXCEPT ![s] = Close(s)]
  /\ SyncOnly /\ UNCHANGED <<row, store, conflicts, excused>>

-----------------------------------------------------------------------------
\* Conflicts and restarts.

\* keep_source sends the entry again, and a refusal is ignored.
ApplyResolution(c, resolution, answer) ==
  store' = IF resolution = "keep_source" /\ answer = "ok" /\ Registered(c.tgt) /\ c.tgt \in Api
           THEN [store EXCEPT ![c.tgt][c.entry] = "same"] ELSE store

\* A conflict may be resolved again, and differently.
ResolveConflict(c, resolution, answer) ==
  /\ c \in conflicts /\ Registered(logs[c.log].src)
  /\ conflicts' = (conflicts \ {c}) \cup {[c EXCEPT !.resolution = resolution]}
  /\ ApplyResolution(c, resolution, answer)
  /\ UNCHANGED <<clock, born, flushed, row, weights, sess, logs, stale, excused, left>>

\* The API process dies or is stopped: its sessions are lost, the rows are not.
Restart ==
  /\ left.restarts > 0
  /\ left' = [left EXCEPT !.restarts = @ - 1]
  /\ sess' = [s \in Sessions |-> Idle]
  /\ stale' = [check |-> {}, probe |-> {}]
  /\ flushed' = [x \in Items |-> 0]
  /\ UNCHANGED <<clock, born, row, store, weights, logs, conflicts, excused>>

RegistryNext ==
  \/ SelectStale \/ MarkStale \/ BeginDiscover
  \/ \E i \in Instances :
       \/ Register(i) \/ Promote(i) \/ RecordHeartbeat(i) \/ Deregister(i)
       \/ \E up \in BOOLEAN : ProbeInstance(i, up)

SyncNext ==
  \/ \E r \in Requests : StartSync(r[1], r[2], r[3], r[4])
  \/ AutoSyncCheck \/ AutoNext
  \/ \E s \in Sessions :
       \/ SelectEntries(s) \/ FinishSync(s)
       \/ \E a \in Answers :
            \/ GetRemoteEntryIds(s, a) \/ ListModels(s, a)
            \/ \E e \in Entries : CheckEntryConflict(s, e, a)
       \/ \E a \in {"ok", "refused"} :
            \/ SyncConversations(s, a) \/ SyncAccessRules(s, a)
            \/ \E e \in Entries : TransferEntry(s, e, a)
       \/ \E m \in Models, o \in {"ok", "skipped", "unverified", "corrupt", "refused"} : CopyModel(s, m, o)
  \/ \E c \in conflicts, r \in {"keep_source", "keep_target", "keep_both"}, a \in {"ok", "refused"} :
       ResolveConflict(c, r, a)

Next ==
  \/ Tick \/ Restart \/ RegistryNext \/ SyncNext
  \/ \E x \in Items : Flush(x) \/ Create(x) \/ Rollback(x)
  \/ \E i \in Instances, e \in Entries : Diverge(i, e)

\* A live instance keeps sending heartbeats; nothing else is owed a turn.
Spec == Init /\ [][Next]_vars
Fairness == \A i \in Instances : WF_vars(RecordHeartbeat(i))
FairSpec == Spec /\ Fairness

-----------------------------------------------------------------------------
\* What a session holds, for the type invariant.
Session == [pc : {"idle", "select", "list", "entry", "threads", "rules", "finish", "models", "model"},
            kind : {None, "full", "incremental", "weights"},
            src : Instances \cup {None}, tgt : Instances \cup {None}, since : Int,
            todo : SUBSET (Entries \cup Models), ids : SUBSET Entries, log : Nat,
            queue : SUBSET (Instances \X Int), missed : SUBSET Items]

\* What the variables hold.
Typed ==
  /\ clock \in 1..MaxClock
  /\ born \in [Items -> 0..clock] /\ flushed \in [Items -> 0..clock]
  /\ row \in [Instances -> [reg : {"new", "in", "gone"}, status : {"active", "offline"},
                            beat : 0..clock, primary : BOOLEAN, mark : 0..clock]]
  /\ store \in [Instances -> [Items -> {"none", "same", "own"}]]
  /\ weights \in [Instances -> [Models -> {"none", "good", "bad"}]]
  /\ sess \in [Sessions -> Session]
  /\ stale \in [check : SUBSET Instances, probe : SUBSET Instances]
  /\ excused \subseteq Instances \X Items

\* A running session has the open log of its own pair of instances.
OnLog ==
  \A s \in Sessions : sess[s].pc # "idle" =>
    /\ sess[s].log \in DOMAIN logs
    /\ logs[sess[s].log] = [status |-> "in_progress", kind |-> sess[s].kind,
         src |-> sess[s].src, tgt |-> sess[s].tgt, era |-> left.restarts]

OnePrimary == \A i, j \in Instances : row[i].primary /\ row[j].primary => i = j

\* Every row, session and log has its shape, a running session has a log of its own,
\* and at most one instance is primary.
TypeOK == Typed /\ OnLog /\ OnePrimary

\* An item older than the mark of an instance that does not hold it was passed
\* over by a completed sync for one of six reasons: it was older than the sync's
\* own `since`, its transfer was refused, it was committed after the sync had
\* read its table, or after the sync had ended with an older created_at, the
\* instance has no api_url, or the instance was only the source (last_sync_at,
\* set for both when a sync ends).
GapsExplained ==
  \A i \in Instances, x \in Items :
    born[x] # 0 /\ born[x] < row[i].mark /\ store[i][x] = "none" => <<i, x>> \in excused

\* A log stays in progress with nobody working on it only when the process that
\* opened it is gone, or one of its instances was deregistered (the handler of
\* full_sync and incremental_sync commits failed in every other case).
AbandonedLogs ==
  \A n \in DOMAIN logs :
    logs[n].status = "in_progress" =>
      \/ \E s \in Sessions : sess[s].pc # "idle" /\ sess[s].log = n
      \/ logs[n].era > left.restarts
      \/ ~Registered(logs[n].src) \/ ~Registered(logs[n].tgt)

\* The whole account of the registry, its logs and its marks: each running session works
\* on an open log of its own, one instance at most is primary, no log is left open, and
\* nothing is passed over unexplained.
SyncInv == TypeOK /\ AbandonedLogs /\ GapsExplained

\* An instance that is alive and was marked offline, by a scan that raced its
\* heartbeat or by a probe it missed, is active again or deregistered later.
OfflineComesBack ==
  \A i \in Instances :
    Registered(i) /\ row[i].status = "offline" ~> row[i].status = "active"

\* What a running sync believes an instance lacks: the answer it works from is
\* the one it got when it listed the instance.
Blind == UNION {{sess[s].tgt} \X (sess[s].todo \ sess[s].ids) : s \in {r \in Sessions : At(r, "entry")}}
Disputed == {<<c.tgt, c.entry>> : c \in conflicts}
EntryStore == [i \in Instances |-> [e \in Entries |-> store[i][e]]]

\* Replication keeps the promise of module Delivery.
D == INSTANCE Delivery WITH store <- EntryStore, disputed <- Disputed, blind <- Blind
DeliverySpec == D!Spec
=============================================================================
