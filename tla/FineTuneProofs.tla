---------------------------- MODULE FineTuneProofs ----------------------------
(***************************************************************************)
(* What holds of the versions of an owner, for any number of tasks,        *)
(* requests and rows, however they overlap and die.  BaseInv: a running    *)
(* row has its task, and no prune selected it.  NumberInv: what a prune    *)
(* selected has Keep rows above it that were completed then (Backed), and  *)
(* a number that was computed is above all rows, but for ties (Fresh);     *)
(* each needs the other.  FlagInv: who sets a flag has seen the row        *)
(* completed.  OrderInv: what a job without company has read is still so   *)
(* when it writes, so it leaves the versions settled.                      *)
(***************************************************************************)
EXTENDS FineTune, FiniteSetTheorems, WellFoundedInduction, TLAPS

Open(j) == job[j] # None
Early == {"pulling", "queued", "numbered"}
Unplaced == {j \in Job : Open(j) /\ job[j].id = 0}

RoomLeft == created + Cardinality(Unplaced) <= MaxRows

\* A task and its row.
Placed(j) ==
  /\ job[j].pc \in Early <=> job[j].id = 0
  /\ job[j].id <= created /\ job[j].set \subseteq 1..created
  /\ job[j].pc = "numbered" => job[j].num # 0
  /\ job[j].pc \in {"training", "created"} =>
       rows[job[j].id] # None /\ rows[job[j].id].status = "running"
  /\ job[j].pc = "pruning" => \A i \in job[j].set : rows[i] # None => rows[i].status # "running"

JobsPlaced == \A j \in Job : Open(j) => Placed(j)
OwnRow == \A j, k \in Job : Open(j) /\ Open(k) /\ job[j].id = job[k].id /\ job[j].id # 0 => j = k
Totals == \A h \in Handler : handler[h] # None /\ handler[h].op = "trigger" => handler[h].total <= messages

\* TypeOK but for the ghosts.
CoreType ==
  /\ rows \in [Id -> Row \cup {None}]
  /\ created \in 0..MaxRows
  /\ job \in [Job -> JobState \cup {None}]
  /\ handler \in [Handler -> HandlerState \cup {None}]
  /\ messages \in Nat /\ last \in 0..messages
  /\ crashes \in Nat
  /\ \A i \in Present : i <= created

BaseInv == CoreType /\ RoomLeft /\ JobsPlaced /\ OwnRow /\ Totals

\* Some row has the highest number.
Top == Present # {} => \E m \in Present : \A i \in Present : rows[i].num <= rows[m].num

-----------------------------------------------------------------------------
LEMMA UnplacedFinite == IsFiniteSet(Unplaced) /\ Cardinality(Unplaced) \in Nat
BY FineTuneAssumption, FS_Subset, FS_CardinalityType DEF Unplaced

LEMMA NewJobTyped ==
  ASSUME NEW pc \in {"pulling", "queued"}, NEW retrain \in BOOLEAN
  PROVE  LET n == NewJob(pc, retrain)
         IN n \in JobState /\ n # None /\ n.pc = pc /\ n.id = 0 /\ n.set = {} /\ n.num = 0
BY NoneAssumption DEF NewJob, JobState, JobPc

LEMMA MaxNumberIs ==
  ASSUME CoreType, Top
  PROVE  MaxNumber \in Nat /\ \A i \in Present : rows[i].num <= MaxNumber
<1>1. \A i \in Present : rows[i].num \in Nat
  BY DEF CoreType, Present, Row
<1>2. CASE Present = {}
  BY <1>2 DEF MaxNumber
<1>3. CASE Present # {}
  <2> DEFINE P(n) == \A i \in Present : rows[i].num <= n
             S == {rows[i].num : i \in Present}
  <2>1. \E n \in S : P(n)
    BY <1>3 DEF Top
  <2>2. MaxNumber = CHOOSE n \in S : P(n)
    BY <1>3 DEF MaxNumber
  <2>3. MaxNumber \in S /\ P(MaxNumber)
    <3> HIDE DEF P, S
    <3> QED
      BY <2>1, <2>2, Zenon
  <2> QED
    BY <1>1, <2>3
<1> QED
  BY <1>2, <1>3

\* A step of one task that keeps its row's number, or of none, and one that starts a task.
LEMMA RoomStays ==
  ASSUME RoomLeft, CoreType, Unplaced' \subseteq Unplaced, created' = created
  PROVE  RoomLeft'
<1>1. Cardinality(Unplaced') <= Cardinality(Unplaced) /\ Cardinality(Unplaced') \in Nat
  BY UnplacedFinite, FS_Subset, FS_CardinalityType
<1> QED
  BY <1>1, UnplacedFinite, FineTuneAssumption DEF RoomLeft, CoreType

LEMMA RoomTaken ==
  ASSUME RowsLeft, CoreType, NEW j \in Job, Unplaced' \subseteq Unplaced \cup {j}, created' = created
  PROVE  RoomLeft'
<1>0. IsFiniteSet(Unplaced \cup {j})
      /\ Cardinality(Unplaced \cup {j}) = IF j \in Unplaced THEN Cardinality(Unplaced) ELSE Cardinality(Unplaced) + 1
  BY UnplacedFinite, FS_AddElement, Zenon
<1>1. IsFiniteSet(Unplaced \cup {j}) /\ Cardinality(Unplaced \cup {j}) <= Cardinality(Unplaced) + 1
  BY <1>0, UnplacedFinite
<1>2. Cardinality(Unplaced') <= Cardinality(Unplaced \cup {j}) /\ Cardinality(Unplaced') \in Nat
      /\ Cardinality(Unplaced \cup {j}) \in Nat
  BY <1>1, FS_Subset, FS_CardinalityType
<1>3. created + Cardinality(Unplaced) < MaxRows
  BY DEF RowsLeft, Unplaced, Open
<1> QED
  BY <1>1, <1>2, <1>3, UnplacedFinite, FineTuneAssumption DEF RoomLeft, CoreType

LEMMA RoomSpent ==
  ASSUME RoomLeft, CoreType, NEW j \in Unplaced, Unplaced' \subseteq Unplaced \ {j}, created' = created + 1
  PROVE  RoomLeft' /\ created' \in 1..MaxRows
<1>1. IsFiniteSet(Unplaced \ {j}) /\ Cardinality(Unplaced \ {j}) = Cardinality(Unplaced) - 1
  BY UnplacedFinite, FS_RemoveElement
<1>2. Cardinality(Unplaced') <= Cardinality(Unplaced \ {j}) /\ Cardinality(Unplaced') \in Nat
      /\ Cardinality(Unplaced \ {j}) \in Nat
  BY <1>1, FS_Subset, FS_CardinalityType
<1> QED
  BY <1>1, <1>2, UnplacedFinite, FineTuneAssumption DEF RoomLeft, CoreType

-----------------------------------------------------------------------------
\* The rows that exist go on as they are but for their flags, except that row x may end.
RowsGoOn(x) ==
  \A i \in 1..created :
    /\ rows[i] # None /\ rows[i].status = "running" /\ i # x =>
         rows'[i] # None /\ rows'[i].status = "running"
    /\ rows[i] = None => rows'[i] = None
    /\ rows'[i] # None /\ rows[i].status # "running" => rows'[i].status # "running"

RowsTyped == rows' \in [Id -> Row \cup {None}] /\ \A i \in Id : rows'[i] # None => i <= created'

OthersUnchanged == UNCHANGED <<created, handler, messages, last, crashes>>

LEMMA OpenTyped ==
  ASSUME BaseInv, NEW j \in Job, Open(j)
  PROVE  /\ job[j] \in JobState /\ Placed(j)
         /\ job[j].id \in 0..created /\ (job[j].id # 0 => job[j].id \in Id)
         /\ created \in 0..MaxRows
BY FineTuneAssumption DEF BaseInv, CoreType, Open, JobsPlaced, Placed, JobState, Id

LEMMA OthersPlaced ==
  ASSUME BaseInv, NEW j \in Job, \A k \in Job \ {j} : job'[k] = job[k],
         created' \in Nat, created' >= created,
         NEW x \in Nat, Open(j) => x = job[j].id, ~Open(j) => x = 0, RowsGoOn(x)
  PROVE  \A k \in Job \ {j} : Open(k)' => Placed(k)'
<1> SUFFICES ASSUME NEW k \in Job \ {j}, Open(k) PROVE Placed(k)'
  BY DEF Open
<1>1. Placed(k) /\ job[k] \in JobState /\ job[k].id \in 0..created /\ created \in Nat
  BY OpenTyped
<1>2. job[k].id # 0 => job[k].id # x
  BY DEF BaseInv, OwnRow
<1>3. job'[k] = job[k]
  OBVIOUS
<1>4. job[k].pc \in {"training", "created"} => job[k].id \in 1..created /\ job[k].id # x
  BY <1>1, <1>2 DEF Placed, Early
<1>5. job[k].pc \in {"training", "created"} =>
        rows'[job[k].id] # None /\ rows'[job[k].id].status = "running"
  BY <1>1, <1>4 DEF Placed, RowsGoOn
<1>6. job[k].pc = "pruning" => \A i \in job[k].set : rows'[i] # None => rows'[i].status # "running"
  BY <1>1 DEF Placed, RowsGoOn
<1>7. job[k].id <= created' /\ job[k].set \subseteq 1..created'
  BY <1>1 DEF Placed
<1> QED
  BY <1>1, <1>3, <1>5, <1>6, <1>7 DEF Placed

LEMMA JobGoesOn ==
  ASSUME BaseInv, NEW j \in Job, Open(j), NEW X \in JobState, job' = [job EXCEPT ![j] = X],
         X.id = job[j].id, X.pc \in Early <=> job[j].pc \in Early,
         X.set \subseteq 1..created, X.pc = "numbered" => X.num # 0,
         X.pc \in {"training", "created"} => rows'[X.id] # None /\ rows'[X.id].status = "running",
         X.pc = "pruning" => \A i \in X.set : rows'[i] # None => rows'[i].status # "running",
         RowsGoOn(job[j].id), RowsTyped, OthersUnchanged
  PROVE  BaseInv'
<1>1. /\ job' \in [Job -> JobState \cup {None}]
      /\ job'[j] = X /\ \A k \in Job \ {j} : job'[k] = job[k]
      /\ X # None
  BY NoneAssumption DEF BaseInv, CoreType
<1>2. Placed(j) /\ job[j].id \in Nat /\ created \in Nat
  BY OpenTyped
<1>3. CoreType'
  BY <1>1 DEF BaseInv, CoreType, RowsTyped, OthersUnchanged, Present
<1>4. RoomLeft'
  <2>1. Unplaced' \subseteq Unplaced
    BY <1>1 DEF Unplaced, Open
  <2> QED
    BY <2>1, RoomStays DEF BaseInv, OthersUnchanged
<1>5. JobsPlaced'
  <2>1. \A k \in Job \ {j} : Open(k)' => Placed(k)'
    <3>1. created' \in Nat /\ created' >= created
      BY <1>2 DEF OthersUnchanged
    <3> QED
      BY <1>1, <1>2, <3>1, OthersPlaced
  <2>2. Placed(j)'
    BY <1>1, <1>2 DEF Placed, OthersUnchanged
  <2> QED
    BY <2>1, <2>2 DEF JobsPlaced
<1>6. OwnRow'
  <2>1. \A k \in Job : (job'[k] # None <=> job[k] # None) /\ (job[k] # None => job'[k].id = job[k].id)
    BY <1>1 DEF Open
  <2> QED
    BY <2>1 DEF BaseInv, OwnRow, Open
<1>7. Totals'
  BY DEF BaseInv, Totals, OthersUnchanged
<1> QED
  BY <1>3, <1>4, <1>5, <1>6, <1>7 DEF BaseInv

LEMMA JobEnds ==
  ASSUME BaseInv, NEW j \in Job, Open(j), job' = [job EXCEPT ![j] = None],
         RowsGoOn(job[j].id), RowsTyped, UNCHANGED <<created, handler, messages, last>>, crashes' \in Nat
  PROVE  BaseInv'
<1>1. /\ job' \in [Job -> JobState \cup {None}]
      /\ job'[j] = None /\ \A k \in Job \ {j} : job'[k] = job[k]
  BY DEF BaseInv, CoreType
<1>2. job[j].id \in Nat /\ created \in Nat
  BY OpenTyped
<1>3. CoreType'
  BY <1>1 DEF BaseInv, CoreType, RowsTyped, Present
<1>4. RoomLeft'
  <2>1. Unplaced' \subseteq Unplaced
    BY <1>1 DEF Unplaced, Open
  <2> QED
    BY <2>1, RoomStays DEF BaseInv
<1>5. JobsPlaced'
  <2>1. created' \in Nat /\ created' >= created
    BY <1>2
  <2>2. \A k \in Job \ {j} : Open(k)' => Placed(k)'
    BY <1>1, <1>2, <2>1, OthersPlaced
  <2> QED
    BY <1>1, <2>2 DEF JobsPlaced, Open
<1>6. OwnRow' /\ Totals'
  BY <1>1 DEF BaseInv, OwnRow, Open, Totals
<1> QED
  BY <1>3, <1>4, <1>5, <1>6 DEF BaseInv

\* A request's step, and the task it may start.
LEMMA HandlerSteps ==
  ASSUME BaseInv, UNCHANGED <<created, job>>, RowsGoOn(0), RowsTyped,
         handler' \in [Handler -> HandlerState \cup {None}], Totals',
         messages' \in Nat, last' \in 0..messages', crashes' \in Nat
  PROVE  BaseInv'
<1>1. CoreType'
  BY DEF BaseInv, CoreType, RowsTyped, Present
<1>2. RoomLeft' /\ OwnRow'
  BY DEF BaseInv, RoomLeft, Unplaced, Open, OwnRow
<1>3. JobsPlaced'
  <2> SUFFICES ASSUME NEW k \in Job, Open(k) PROVE Placed(k)'
    BY DEF JobsPlaced, Open
  <2>1. Placed(k) /\ job[k].id \in 0..created /\ created \in Nat
    BY OpenTyped
  <2>2. job[k].pc \in {"training", "created"} => job[k].id \in 1..created
    BY <2>1 DEF Placed, Early
  <2> QED
    BY <2>1, <2>2 DEF Placed, RowsGoOn
<1> QED
  BY <1>1, <1>2, <1>3 DEF BaseInv

LEMMA JobStarts ==
  ASSUME BaseInv, NEW j \in Job, ~Open(j), RowsLeft,
         NEW pc \in {"pulling", "queued"}, NEW retrain \in BOOLEAN,
         job' = [job EXCEPT ![j] = NewJob(pc, retrain)],
         created' = created, RowsGoOn(0), RowsTyped,
         handler' \in [Handler -> HandlerState \cup {None}], Totals',
         messages' \in Nat, last' \in 0..messages', crashes' \in Nat
  PROVE  BaseInv'
<1> DEFINE X == NewJob(pc, retrain)
<1>0. X \in JobState /\ X # None /\ X.pc = pc /\ X.id = 0 /\ X.set = {} /\ X.num = 0
  BY NewJobTyped
<1> HIDE DEF X
<1>1. /\ job' \in [Job -> JobState \cup {None}]
      /\ job'[j] = X /\ \A k \in Job \ {j} : job'[k] = job[k]
  BY <1>0 DEF BaseInv, CoreType, X
<1>2. created \in Nat
  BY DEF BaseInv, CoreType
<1>3. CoreType'
  BY <1>1 DEF BaseInv, CoreType, RowsTyped, Present
<1>4. RoomLeft'
  <2>1. Unplaced' \subseteq Unplaced \cup {j}
    BY <1>1 DEF Unplaced, Open
  <2> QED
    BY <2>1, RoomTaken DEF BaseInv
<1>5. JobsPlaced'
  <2>1. \A k \in Job \ {j} : Open(k)' => Placed(k)'
    <3>1. created' \in Nat /\ created' >= created
      BY <1>2
    <3> QED
      BY <1>1, <3>1, OthersPlaced
  <2>2. Placed(j)'
    BY <1>0, <1>1, <1>2 DEF Placed, Early
  <2> QED
    BY <2>1, <2>2 DEF JobsPlaced
<1>6. OwnRow'
  BY <1>0, <1>1 DEF BaseInv, OwnRow, Open
<1> QED
  BY <1>3, <1>4, <1>5, <1>6 DEF BaseInv

-----------------------------------------------------------------------------
\* What the writes do to the rows.
LEMMA Activated ==
  ASSUME CoreType, created' = created, NEW ids, NEW on, \A i \in Id : on[i] \in BOOLEAN, Activate(ids, on)
  PROVE  /\ RowsTyped /\ RowsGoOn(0)
         /\ \A i \in Id : /\ rows'[i] = None <=> rows[i] = None
                          /\ rows[i] # None => /\ rows'[i].num = rows[i].num
                                               /\ rows'[i].status = rows[i].status
                                               /\ rows'[i].active = IF i \in ids THEN on[i] ELSE rows[i].active
<1>1. /\ rows \in [Id -> Row \cup {None}] /\ created \in 0..MaxRows
      /\ \A i \in Id : rows[i] # None => i <= created
  BY DEF CoreType, Present
<1>2. rows' = [i \in Id |-> IF i \in ids /\ rows[i] # None
                            THEN [rows[i] EXCEPT !.active = on[i]] ELSE rows[i]]
  BY DEF Activate
<1>3. ASSUME NEW i \in Id
      PROVE  /\ rows'[i] \in Row \cup {None}
             /\ rows'[i] = None <=> rows[i] = None
             /\ rows[i] # None => /\ rows'[i].num = rows[i].num
                                  /\ rows'[i].status = rows[i].status
                                  /\ rows'[i].active = IF i \in ids THEN on[i] ELSE rows[i].active
  <2>1. CASE i \in ids /\ rows[i] # None
    <3>1. rows'[i] = [rows[i] EXCEPT !.active = on[i]] /\ rows[i] \in Row /\ on[i] \in BOOLEAN
      BY <1>1, <1>2, <2>1
    <3>2. rows'[i] \in Row /\ rows'[i] # None /\ rows'[i].num = rows[i].num
          /\ rows'[i].status = rows[i].status /\ rows'[i].active = on[i]
      <4> DEFINE r == rows[i]
                 b == on[i]
      <4>1. r \in Row /\ b \in BOOLEAN /\ rows'[i] = [r EXCEPT !.active = b] /\ "failed" \in Status
        BY <3>1 DEF Status
      <4> HIDE DEF r, b
      <4>2. rows'[i] \in Row /\ rows'[i] # None /\ rows'[i].num = r.num
            /\ rows'[i].status = r.status /\ rows'[i].active = b
        <5>1. rows'[i] \in Row /\ rows'[i].num = r.num
              /\ rows'[i].status = r.status /\ rows'[i].active = b
          BY <4>1, Zenon DEF Row
        <5> QED
          BY <5>1, NoneAssumption
      <4> QED
        BY <4>2 DEF r, b
    <3> QED
      BY <2>1, <3>2
  <2>2. CASE ~(i \in ids /\ rows[i] # None)
    BY <1>1, <1>2, <2>2
  <2> QED
    BY <2>1, <2>2
<1>4. RowsTyped
  BY <1>1, <1>2, <1>3 DEF RowsTyped
<1>5. RowsGoOn(0)
  BY <1>1, <1>3, FineTuneAssumption DEF RowsGoOn, Id
<1> QED
  BY <1>3, <1>4, <1>5

LEMMA StatusSet ==
  ASSUME CoreType, created' = created, NEW x \in Id, rows[x] # None, NEW R \in Row,
         R.num = rows[x].num, rows' = [rows EXCEPT ![x] = R],
         R.status # "running"
  PROVE  /\ RowsTyped /\ RowsGoOn(x) /\ rows'[x] = R /\ R # None
         /\ \A i \in Id \ {x} : rows'[i] = rows[i]
<1>1. /\ rows \in [Id -> Row \cup {None}] /\ created \in 0..MaxRows
      /\ \A i \in Id : rows[i] # None => i <= created
      /\ R # None
  BY NoneAssumption DEF CoreType, Present
<1>2. rows' \in [Id -> Row \cup {None}] /\ rows'[x] = R /\ \A i \in Id \ {x} : rows'[i] = rows[i]
  BY <1>1
<1>3. RowsTyped
  BY <1>1, <1>2 DEF RowsTyped
<1>4. RowsGoOn(x)
  BY <1>1, <1>2 DEF RowsGoOn, Id
<1> QED
  BY <1>1, <1>2, <1>3, <1>4

LEMMA RowsStay ==
  ASSUME CoreType, rows' = rows, created' = created, NEW x
  PROVE  RowsTyped /\ RowsGoOn(x)
BY DEF CoreType, RowsTyped, RowsGoOn, Present

\* The steps of a task.
LEMMA AllocateNumberBase ==
  ASSUME BaseInv, Top, NEW j \in Job, AllocateNumber(j)
  PROVE  /\ BaseInv' /\ Open(j) /\ job[j].pc = "queued" /\ rows' = rows /\ created' = created
         /\ job'[j] # None /\ job'[j].pc = "numbered" /\ job'[j].num = MaxNumber + 1 /\ job'[j].seen = created
         /\ \A k \in Job \ {j} : job'[k] = job[k]
<1> DEFINE n == MaxNumber + 1
           pc == "numbered"
           w == job[j]
           s == created
           X == [[[w EXCEPT !.pc = pc] EXCEPT !.num = n] EXCEPT !.seen = s]
<1>1. Open(j) /\ w.pc = "queued" /\ job' = [job EXCEPT ![j] = X] /\ rows' = rows /\ OthersUnchanged
  BY Zenon DEF AllocateNumber, At, Open, OthersUnchanged
<1>2. w \in JobState /\ Placed(j) /\ CoreType
  BY <1>1, OpenTyped DEF BaseInv
<1>3. MaxNumber \in Nat /\ n \in Nat /\ n # 0 /\ pc \in JobPc /\ s \in Nat
  BY <1>2, MaxNumberIs DEF JobPc, CoreType
<1> HIDE DEF n, w, s
<1>4. X \in JobState /\ X.pc = pc /\ X.set = w.set /\ X.id = w.id /\ X.num = n /\ X.seen = s
  BY <1>2, <1>3, Zenon DEF JobState
<1> HIDE DEF X
<1>5. RowsTyped /\ RowsGoOn(job[j].id)
  BY <1>1, <1>2, RowsStay DEF OthersUnchanged
<1>6. w.set \subseteq 1..created
  BY <1>2 DEF Placed, w
<1>7. BaseInv'
  BY <1>1, <1>3, <1>4, <1>5, <1>6, JobGoesOn DEF Early, w
<1>8. job'[j] = X /\ X # None /\ \A k \in Job \ {j} : job'[k] = job[k]
  BY <1>1, <1>4, NoneAssumption DEF BaseInv, CoreType
<1> QED
  BY <1>1, <1>4, <1>7, <1>8 DEF n, w, s, OthersUnchanged

\* The row that is inserted, of its task's number, and the last one.
LEMMA InsertedRow ==
  ASSUME BaseInv, NEW j \in Job, InsertRow(j)
  PROVE  /\ BaseInv' /\ created' = created + 1 /\ created' \in Id
         /\ rows'[created'] # None /\ rows'[created'].num = job[j].num
         /\ rows'[created'].status = "running" /\ rows'[created'].active = FALSE
         /\ \A i \in Id \ {created'} : rows'[i] = rows[i]
         /\ rows[created'] = None
         /\ job'[j] # None /\ job'[j].pc = "training" /\ job'[j].id = created'
         /\ \A k \in Job \ {j} : job'[k] = job[k]
<1> DEFINE R == [num |-> job[j].num, status |-> "running", active |-> FALSE]
           w == job[j]
           id == created + 1
           pc == "training"
           X == [[w EXCEPT !.pc = pc] EXCEPT !.id = id]
<1>1. Open(j) /\ w.pc = "numbered" /\ job' = [job EXCEPT ![j] = X] /\ created' = created + 1
      /\ rows' = [rows EXCEPT ![created + 1] = R] /\ UNCHANGED <<handler, messages, last, crashes>>
  BY Zenon DEF InsertRow, At, Open
<1>2. w \in JobState /\ Placed(j) /\ CoreType /\ created \in Nat /\ RoomLeft
  BY <1>1, OpenTyped DEF BaseInv
<1>3. j \in Unplaced
  BY <1>1, <1>2 DEF Placed, Early, Unplaced
<1>4. /\ job' \in [Job -> {X} \cup JobState \cup {None}]
      /\ job'[j] = X /\ \A k \in Job \ {j} : job'[k] = job[k]
  BY <1>1, <1>2 DEF CoreType
<1>5. id \in Id
  <2>1. created < MaxRows
    <3>1. Cardinality(Unplaced) # 0
      BY <1>3, UnplacedFinite, FS_EmptySet
    <3> QED
      BY <1>2, <3>1, UnplacedFinite, FineTuneAssumption DEF RoomLeft
  <2> QED
    BY <1>2, <2>1, FineTuneAssumption DEF Id
<1>6. R \in Row /\ R.num = job[j].num /\ R.status = "running" /\ R.active = FALSE /\ R # None
  <2>1. R \in Row
    BY <1>1, <1>2 DEF Row, Status, Placed, JobState
  <2> QED
    BY <2>1, NoneAssumption
<1>7. pc \in JobPc /\ pc \notin Early
  BY DEF JobPc, Early
<1> HIDE DEF R, w, id, pc
<1>8. X \in JobState /\ X.pc = pc /\ X.set = w.set /\ X.id = id /\ X.num = w.num
  BY <1>2, <1>5, <1>7, Zenon DEF JobState
<1> HIDE DEF X
<1>9. X # None /\ id = created + 1 /\ pc = "training" /\ id # 0
  BY <1>2, <1>8, NoneAssumption DEF id, pc
<1>10. /\ rows' \in [Id -> Row \cup {None}] /\ rows'[id] = R
       /\ \A i \in Id \ {id} : rows'[i] = rows[i]
       /\ rows[id] = None
       /\ \A i \in Id : rows[i] # None => i <= created
  BY <1>1, <1>2, <1>5, <1>6, <1>9 DEF CoreType, Present
<1>11. RoomLeft' /\ created' \in 1..MaxRows
  <2>1. Unplaced' \subseteq Unplaced \ {j}
    BY <1>4, <1>8, <1>9 DEF Unplaced, Open
  <2> QED
    BY <1>1, <1>2, <1>3, <2>1, RoomSpent
<1>12. CoreType'
  <2>1. job' \in [Job -> JobState \cup {None}]
    BY <1>4, <1>8
  <2>2. \A i \in Id : rows'[i] # None => i <= created'
    BY <1>1, <1>2, <1>9, <1>10 DEF Id
  <2> QED
    BY <1>1, <1>2, <1>10, <1>11, <2>1, <2>2 DEF CoreType, Present
<1>13. JobsPlaced'
  <2>1. w.id = 0 /\ RowsGoOn(0)
    BY <1>1, <1>2, <1>9, <1>10, FineTuneAssumption DEF Placed, Early, RowsGoOn, Id, w, CoreType
  <2>2. created' \in Nat /\ created' >= created
    BY <1>1, <1>2
  <2>3. \A k \in Job \ {j} : Open(k)' => Placed(k)'
    BY <1>1, <1>4, <2>1, <2>2, OthersPlaced DEF w
  <2>4. w.set \subseteq 1..created
    BY <1>2 DEF Placed, w
  <2>5. Placed(j)'
    BY <1>1, <1>2, <1>4, <1>6, <1>7, <1>8, <1>9, <1>10, <2>4 DEF Placed
  <2> QED
    BY <2>3, <2>5 DEF JobsPlaced
<1>14. OwnRow'
  <2>1. \A k \in Job \ {j} : Open(k) => job[k].id # id
    <3>1. \A k \in Job : Open(k) => job[k].id \in 0..created
      BY OpenTyped
    <3> QED
      BY <1>2, <1>9, <3>1
  <2> QED
    BY <1>4, <1>8, <2>1 DEF BaseInv, OwnRow, Open
<1>15. Totals'
  BY <1>1 DEF BaseInv, Totals
<1> QED
  BY <1>1, <1>4, <1>5, <1>6, <1>8, <1>9, <1>10, <1>11, <1>12, <1>13, <1>14, <1>15 DEF BaseInv

LEMMA CreateModelBase ==
  ASSUME BaseInv, NEW j \in Job, CreateModel(j)
  PROVE  /\ BaseInv' /\ Open(j) /\ job[j].pc = "training" /\ rows' = rows /\ created' = created
         /\ job'[j] # None /\ job'[j].pc = "created" /\ job'[j].id = job[j].id
         /\ \A k \in Job \ {j} : job'[k] = job[k]
<1> DEFINE w == job[j]
           pc == "created"
           X == [w EXCEPT !.pc = pc]
<1>1. Open(j) /\ w.pc = "training" /\ job' = [job EXCEPT ![j] = X] /\ rows' = rows /\ OthersUnchanged
  BY Zenon DEF CreateModel, At, Open, OthersUnchanged, Goto
<1>2. w \in JobState /\ Placed(j) /\ CoreType
  BY <1>1, OpenTyped DEF BaseInv
<1>3. pc \in JobPc
  BY DEF JobPc
<1> HIDE DEF w
<1>4. X \in JobState /\ X.pc = pc /\ X.set = w.set /\ X.id = w.id /\ X.num = w.num
  BY <1>2, <1>3, Zenon DEF JobState
<1> HIDE DEF X
<1>5. RowsTyped /\ RowsGoOn(job[j].id)
  BY <1>1, <1>2, RowsStay DEF OthersUnchanged
<1>6. w.set \subseteq 1..created /\ rows[w.id] # None /\ rows[w.id].status = "running"
  BY <1>1, <1>2 DEF Placed, w
<1>7. BaseInv'
  BY <1>1, <1>3, <1>4, <1>5, <1>6, JobGoesOn DEF Early, w
<1>8. job'[j] = X /\ X # None /\ \A k \in Job \ {j} : job'[k] = job[k]
  BY <1>1, <1>4, NoneAssumption DEF BaseInv, CoreType
<1> QED
  BY <1>1, <1>4, <1>7, <1>8 DEF w, OthersUnchanged

LEMMA Ended ==
  ASSUME BaseInv, NEW j \in Job, Open(j), job' = [job EXCEPT ![j] = None],
         rows' = rows, UNCHANGED <<created, handler, messages, last>>, crashes' \in Nat
  PROVE  BaseInv'
<1>1. RowsTyped /\ RowsGoOn(job[j].id)
  BY RowsStay DEF BaseInv
<1> QED
  BY <1>1, JobEnds

LEMMA FailedRow ==
  ASSUME NEW r \in Row
  PROVE  LET m == [r EXCEPT !.status = "failed"]
         IN m \in Row /\ m.num = r.num /\ m.status = "failed" /\ m.active = r.active
BY DEF Row, Status

LEMMA CreateModelFailsBase ==
  ASSUME BaseInv, NEW j \in Job, CreateModelFails(j)
  PROVE  /\ BaseInv' /\ job' = [job EXCEPT ![j] = None] /\ Open(j) /\ job[j].pc = "training"
         /\ created' = created /\ job[j].id \in Id /\ rows[job[j].id] # None
         /\ rows[job[j].id].status = "running" /\ rows'[job[j].id] # None
         /\ rows'[job[j].id].num = rows[job[j].id].num
         /\ rows'[job[j].id].active = rows[job[j].id].active
         /\ rows'[job[j].id].status = "failed" /\ \A i \in Id \ {job[j].id} : rows'[i] = rows[i]
<1> DEFINE x == job[j].id
           R == [rows[x] EXCEPT !.status = "failed"]
<1>1. Open(j) /\ job[j].pc = "training" /\ job' = [job EXCEPT ![j] = None]
      /\ rows' = [rows EXCEPT ![x] = R]
      /\ UNCHANGED <<created, handler, messages, last, crashes>>
  BY Zenon DEF CreateModelFails, At, Open, SetStatus
<1>2. CoreType /\ x \in Id /\ rows[x] # None /\ rows[x].status = "running" /\ crashes \in Nat
  BY <1>1, OpenTyped DEF Placed, Early, BaseInv, CoreType
<1>3. rows[x] \in Row
  BY <1>2 DEF CoreType
<1>4. R \in Row /\ R.num = rows[x].num /\ R.status = "failed" /\ R.active = rows[x].active
  BY <1>3, FailedRow
<1> HIDE DEF R
<1>5. RowsTyped /\ RowsGoOn(x) /\ rows'[x] = R /\ R # None /\ \A i \in Id \ {x} : rows'[i] = rows[i]
  BY <1>1, <1>2, <1>4, StatusSet
<1>6. BaseInv'
  BY <1>1, <1>2, <1>5, JobEnds
<1> QED
  BY <1>1, <1>2, <1>4, <1>5, <1>6

LEMMA CompletedRow ==
  ASSUME NEW r \in Row
  PROVE  LET m == [[r EXCEPT !.status = "completed"] EXCEPT !.active = TRUE]
         IN m \in Row /\ m.num = r.num /\ m.status = "completed" /\ m.active = TRUE
<1> DEFINE q == [r EXCEPT !.status = "completed"]
<1>1. q \in Row /\ q.num = r.num /\ q.status = "completed"
  BY DEF Row, Status
<1> HIDE DEF q
<1>2. LET m == [q EXCEPT !.active = TRUE]
      IN m \in Row /\ m.num = q.num /\ m.status = q.status /\ m.active = TRUE
  BY <1>1 DEF Row
<1> QED
  BY <1>1, <1>2, Zenon DEF q

LEMMA CompleteRowBase ==
  ASSUME BaseInv, NEW j \in Job, CompleteRow(j)
  PROVE  /\ BaseInv' /\ Open(j) /\ job[j].pc = "created" /\ created' = created
         /\ job'[j] # None /\ job'[j].pc = "completed" /\ job'[j].id = job[j].id
         /\ \A k \in Job \ {j} : job'[k] = job[k]
         /\ job[j].id \in Id /\ rows[job[j].id] # None /\ rows[job[j].id].status = "running"
         /\ rows'[job[j].id] # None /\ rows'[job[j].id].status = "completed"
         /\ rows'[job[j].id].num = rows[job[j].id].num /\ \A i \in Id \ {job[j].id} : rows'[i] = rows[i]
<1> DEFINE x == job[j].id
           w == job[j]
           pc == "completed"
           X == [w EXCEPT !.pc = pc]
           R == [[rows[x] EXCEPT !.status = "completed"] EXCEPT !.active = TRUE]
<1>1. Open(j) /\ w.pc = "created" /\ job' = [job EXCEPT ![j] = X]
      /\ rows' = [rows EXCEPT ![x] = R] /\ OthersUnchanged
  BY Zenon DEF CompleteRow, At, Open, Goto, OthersUnchanged
<1>2. CoreType /\ x \in Id /\ rows[x] # None /\ rows[x].status = "running" /\ w \in JobState /\ Placed(j)
  BY <1>1, OpenTyped DEF Placed, Early, BaseInv
<1>3. rows[x] \in Row /\ pc \in JobPc
  BY <1>2 DEF CoreType, JobPc
<1>4. R \in Row /\ R.num = rows[x].num /\ R.status = "completed"
  BY <1>3, CompletedRow
<1> HIDE DEF R
<1>5. RowsTyped /\ RowsGoOn(x) /\ rows'[x] = R /\ R # None /\ \A i \in Id \ {x} : rows'[i] = rows[i]
  BY <1>1, <1>2, <1>4, StatusSet DEF OthersUnchanged
<1> HIDE DEF w
<1>6. X \in JobState /\ X.pc = pc /\ X.set = w.set /\ X.id = w.id
  BY <1>2, <1>3, Zenon DEF JobState
<1> HIDE DEF X
<1>7. w.set \subseteq 1..created
  BY <1>2 DEF Placed, w
<1>8. BaseInv'
  BY <1>1, <1>5, <1>6, <1>7, JobGoesOn DEF Early, w
<1>9. job'[j] = X /\ X # None /\ \A k \in Job \ {j} : job'[k] = job[k]
  BY <1>1, <1>6, NoneAssumption DEF BaseInv, CoreType
<1> QED
  BY <1>1, <1>2, <1>4, <1>5, <1>6, <1>8, <1>9 DEF OthersUnchanged, w

LEMMA SelectBase ==
  ASSUME BaseInv, NEW j \in Job, Open(j), job[j].pc \in {"completed", "deactivated"},
         NEW pc \in {"selected", "pruning"}, NEW S \in SUBSET Present,
         pc = "pruning" => S \subseteq Completed,
         job' = [job EXCEPT ![j] = [[job[j] EXCEPT !.pc = pc] EXCEPT !.set = S]],
         rows' = rows, OthersUnchanged
  PROVE  /\ BaseInv' /\ job'[j] # None /\ job'[j].pc = pc /\ job'[j].set = S /\ job'[j].id = job[j].id
         /\ \A k \in Job \ {j} : job'[k] = job[k]
<1> DEFINE w == job[j]
           X == [[w EXCEPT !.pc = pc] EXCEPT !.set = S]
<1>1. job' = [job EXCEPT ![j] = X]
  BY Zenon
<1>2. CoreType /\ w \in JobState /\ Placed(j)
  BY OpenTyped DEF BaseInv
<1>3. pc \in JobPc /\ S \in SUBSET Id /\ S \subseteq 1..created
  BY <1>2, FineTuneAssumption DEF JobPc, CoreType, Present, Id
<1> HIDE DEF w
<1>4. X \in JobState /\ X.pc = pc /\ X.set = S /\ X.id = w.id
  BY <1>2, <1>3, Zenon DEF JobState
<1> HIDE DEF X
<1>5. RowsTyped /\ RowsGoOn(job[j].id)
  BY <1>2, RowsStay DEF OthersUnchanged
<1>6. pc = "pruning" => \A i \in S : rows'[i].status # "running"
  BY DEF Completed
<1>7. BaseInv'
  BY <1>1, <1>3, <1>4, <1>5, <1>6, JobGoesOn DEF Early, w
<1>8. job'[j] = X /\ X # None /\ \A k \in Job \ {j} : job'[k] = job[k]
  BY <1>1, <1>4, NoneAssumption DEF BaseInv, CoreType
<1> QED
  BY <1>4, <1>7, <1>8 DEF w

LEMMA DeactivatePriorsBase ==
  ASSUME BaseInv, NEW j \in Job, DeactivatePriors(j)
  PROVE  /\ BaseInv' /\ Open(j) /\ job[j].pc = "selected" /\ created' = created
         /\ job'[j] # None /\ job'[j].pc = "deactivated" /\ job'[j].id = job[j].id
         /\ \A k \in Job \ {j} : job'[k] = job[k]
         /\ \A i \in Id : /\ rows'[i] = None <=> rows[i] = None
                          /\ rows[i] # None => /\ rows'[i].num = rows[i].num
                                               /\ rows'[i].status = rows[i].status
                                               /\ rows'[i].active = IF i \in job[j].set THEN FALSE ELSE rows[i].active
<1> DEFINE w == job[j]
           pc == "deactivated"
           X == [w EXCEPT !.pc = pc]
           on == [i \in Id |-> FALSE]
<1>1. Open(j) /\ w.pc = "selected" /\ job' = [job EXCEPT ![j] = X] /\ Activate(w.set, on) /\ OthersUnchanged
  BY Zenon DEF DeactivatePriors, At, Open, Goto, OthersUnchanged
<1>2. CoreType /\ w \in JobState /\ Placed(j) /\ created' = created
  BY <1>1, OpenTyped DEF BaseInv, OthersUnchanged
<1>3. \A i \in Id : on[i] \in BOOLEAN /\ on[i] = FALSE
  OBVIOUS
<1>4. pc \in JobPc
  BY DEF JobPc
<1> HIDE DEF on, w
<1>5. /\ RowsTyped /\ RowsGoOn(0)
      /\ \A i \in Id : /\ rows'[i] = None <=> rows[i] = None
                       /\ rows[i] # None => /\ rows'[i].num = rows[i].num
                                            /\ rows'[i].status = rows[i].status
                                            /\ rows'[i].active = IF i \in w.set THEN on[i] ELSE rows[i].active
  BY <1>1, <1>2, <1>3, Activated
<1>6. X \in JobState /\ X.pc = pc /\ X.set = w.set /\ X.id = w.id
  BY <1>2, <1>4, Zenon DEF JobState
<1> HIDE DEF X
<1>7. w.set \subseteq 1..created /\ RowsGoOn(job[j].id)
  BY <1>2, <1>5 DEF Placed, w, RowsGoOn
<1>8. BaseInv'
  BY <1>1, <1>5, <1>6, <1>7, JobGoesOn DEF Early, w
<1>9. job'[j] = X /\ X # None /\ \A k \in Job \ {j} : job'[k] = job[k]
  BY <1>1, <1>6, NoneAssumption DEF BaseInv, CoreType
<1> QED
  BY <1>1, <1>2, <1>3, <1>5, <1>6, <1>8, <1>9 DEF w

LEMMA DeactivateFailsBase ==
  ASSUME BaseInv, NEW j \in Job, DeactivateFails(j)
  PROVE  /\ BaseInv' /\ Open(j) /\ job[j].pc = "selected" /\ Gone(job[j].set)
         /\ rows' = rows /\ created' = created
         /\ job'[j] = None /\ \A k \in Job \ {j} : job'[k] = job[k]
<1>1. Open(j) /\ job[j].pc = "selected" /\ job' = [job EXCEPT ![j] = None] /\ Gone(job[j].set)
      /\ UNCHANGED <<rows, created, handler, messages, last, crashes>>
  BY DEF DeactivateFails, At, Open
<1>2. crashes' \in Nat /\ job \in [Job -> JobState \cup {None}]
  BY <1>1 DEF BaseInv, CoreType
<1>3. BaseInv'
  BY <1>1, <1>2, Ended
<1> QED
  BY <1>1, <1>2, <1>3

LEMMA PruneBase ==
  ASSUME BaseInv, NEW j \in Job, Prune(j)
  PROVE  /\ BaseInv' /\ Open(j) /\ job[j].pc = "pruning" /\ created' = created
         /\ job' = [job EXCEPT ![j] = None]
         /\ \A i \in Id : rows'[i] = IF i \in job[j].set THEN None ELSE rows[i]
<1>1. Open(j) /\ job[j].pc = "pruning" /\ job' = [job EXCEPT ![j] = None]
      /\ rows' = [i \in Id |-> IF i \in job[j].set THEN None ELSE rows[i]]
      /\ UNCHANGED <<created, handler, messages, last, crashes>>
  BY DEF Prune, At, Open
<1>2. CoreType /\ Placed(j) /\ crashes \in Nat
  BY <1>1, OpenTyped DEF BaseInv, CoreType
<1>3. RowsTyped
  BY <1>1, <1>2 DEF RowsTyped, CoreType, Present
<1>4. RowsGoOn(job[j].id)
  BY <1>1, <1>2, FineTuneAssumption DEF RowsGoOn, Placed, CoreType, Id
<1>5. BaseInv'
  BY <1>1, <1>2, <1>3, <1>4, JobEnds
<1> QED
  BY <1>1, <1>5

LEMMA CreateBaseModelBase ==
  ASSUME BaseInv, NEW j \in Job, CreateBaseModel(j)
  PROVE  /\ BaseInv' /\ Open(j) /\ job[j].pc = "pulling" /\ rows' = rows /\ created' = created
         /\ job'[j] = None \/ job'[j].pc = "queued"
         /\ \A k \in Job \ {j} : job'[k] = job[k]
<1>1. Open(j) /\ job[j].pc = "pulling" /\ rows' = rows /\ OthersUnchanged
  BY DEF CreateBaseModel, At, Open, OthersUnchanged
<1>2. CoreType /\ Placed(j) /\ crashes \in Nat
  BY <1>1, OpenTyped DEF BaseInv, CoreType
<1>3. CASE ~job[j].retrain
  <2>1. job' = [job EXCEPT ![j] = None]
    BY <1>3 DEF CreateBaseModel
  <2>2. BaseInv'
    BY <1>1, <1>2, <2>1, Ended DEF OthersUnchanged
  <2> QED
    BY <1>1, <1>2, <2>1, <2>2 DEF OthersUnchanged, CoreType
<1>4. CASE job[j].retrain
  <2> DEFINE X == NewJob("queued", TRUE)
  <2>1. X \in JobState /\ X.pc = "queued" /\ X.id = 0 /\ X.set = {}
    BY NewJobTyped
  <2>2. job' = [job EXCEPT ![j] = X]
    BY <1>4 DEF CreateBaseModel
  <2> HIDE DEF X
  <2>3. job[j].id = 0
    BY <1>1, <1>2 DEF Placed, Early
  <2>4. RowsTyped /\ RowsGoOn(job[j].id)
    BY <1>1, <1>2, RowsStay DEF OthersUnchanged
  <2>5. BaseInv'
    BY <1>1, <2>1, <2>2, <2>3, <2>4, JobGoesOn DEF Early
  <2> QED
    BY <1>1, <1>2, <2>1, <2>2, <2>5 DEF OthersUnchanged, CoreType
<1> QED
  BY <1>3, <1>4

LEMMA SelectPriorsBase ==
  ASSUME BaseInv, NEW j \in Job, SelectPriors(j)
  PROVE  /\ BaseInv' /\ Open(j) /\ job[j].pc = "completed" /\ rows' = rows /\ created' = created
         /\ job'[j] # None /\ job'[j].pc = "selected" /\ job'[j].id = job[j].id
         /\ job'[j].set = Active \ {job[j].id}
         /\ \A k \in Job \ {j} : job'[k] = job[k]
<1> DEFINE pc == "selected"
           S == Active \ {job[j].id}
<1>1. Open(j) /\ job[j].pc = "completed" /\ rows' = rows /\ OthersUnchanged
      /\ job' = [job EXCEPT ![j] = [[job[j] EXCEPT !.pc = pc] EXCEPT !.set = S]]
  BY Zenon DEF SelectPriors, At, Open, OthersUnchanged, Others
<1>2. S \in SUBSET Present
  BY DEF Active
<1> HIDE DEF S
<1>3. job[j].pc \in {"completed", "deactivated"} /\ pc \in {"selected", "pruning"} /\ pc # "pruning"
  BY <1>1
<1>4. /\ BaseInv' /\ job'[j] # None /\ job'[j].pc = pc /\ job'[j].set = S /\ job'[j].id = job[j].id
      /\ \A k \in Job \ {j} : job'[k] = job[k]
  <2> HIDE DEF pc
  <2> QED
    BY <1>1, <1>2, <1>3, SelectBase
<1> QED
  BY <1>1, <1>4 DEF OthersUnchanged, S

LEMMA SelectStaleBase ==
  ASSUME BaseInv, NEW j \in Job, SelectStale(j)
  PROVE  /\ BaseInv' /\ Open(j) /\ job[j].pc = "deactivated" /\ rows' = rows /\ created' = created
         /\ \A k \in Job \ {j} : job'[k] = job[k]
         /\ \/ job'[j] = None /\ Cardinality(Completed) <= Keep
            \/ \E kept \in SUBSET Completed :
                 /\ Newest(kept) /\ job'[j] # None /\ job'[j].pc = "pruning"
                 /\ job'[j].set = Completed \ kept /\ job'[j].id = job[j].id
                 /\ Cardinality(Completed) > Keep
<1>1. Open(j) /\ job[j].pc = "deactivated" /\ rows' = rows /\ OthersUnchanged
  BY DEF SelectStale, At, Open, OthersUnchanged
<1>2. CoreType /\ crashes \in Nat
  BY DEF BaseInv, CoreType
<1>3. CASE Cardinality(Completed) <= Keep
  <2>1. job' = [job EXCEPT ![j] = None]
    BY <1>3 DEF SelectStale
  <2>2. BaseInv'
    BY <1>1, <1>2, <2>1, Ended DEF OthersUnchanged
  <2> QED
    BY <1>1, <1>2, <1>3, <2>1, <2>2 DEF OthersUnchanged, CoreType
<1>4. CASE ~(Cardinality(Completed) <= Keep)
  <2> DEFINE pc == "pruning"
  <2>1. PICK kept \in SUBSET Completed : Newest(kept)
          /\ job' = [job EXCEPT ![j] = [[job[j] EXCEPT !.pc = pc] EXCEPT !.set = Completed \ kept]]
    BY <1>4, Zenon DEF SelectStale
  <2> DEFINE S == Completed \ kept
  <2>2. S \in SUBSET Present /\ S \subseteq Completed
    BY DEF Completed
  <2>3. job[j].pc \in {"completed", "deactivated"} /\ pc \in {"selected", "pruning"}
        /\ job' = [job EXCEPT ![j] = [[job[j] EXCEPT !.pc = pc] EXCEPT !.set = S]]
    BY <1>1, <2>1
  <2>4. Cardinality(Completed) > Keep
    <3>1. Completed \subseteq 1..MaxRows /\ IsFiniteSet(1..MaxRows)
      BY FineTuneAssumption, FS_Interval DEF Completed, Present, Id
    <3>2. Cardinality(Completed) \in Nat
      BY <3>1, FS_Subset, FS_CardinalityType
    <3> QED
      BY <1>4, <3>2, FineTuneAssumption
  <2>5. /\ BaseInv' /\ job'[j] # None /\ job'[j].pc = pc /\ job'[j].set = S /\ job'[j].id = job[j].id
        /\ \A k \in Job \ {j} : job'[k] = job[k]
    <3> HIDE DEF pc, S
    <3> QED
      BY <1>1, <2>2, <2>3, SelectBase
  <2> QED
    BY <1>1, <2>1, <2>4, <2>5 DEF OthersUnchanged
<1> QED
  BY <1>3, <1>4

LEMMA TaskLost ==
  ASSUME BaseInv, NEW j \in Job, CrashJob(j) \/ PullFails(j)
  PROVE  /\ BaseInv' /\ Open(j) /\ rows' = rows /\ created' = created
         /\ job'[j] = None /\ \A k \in Job \ {j} : job'[k] = job[k]
<1>1. Open(j) /\ rows' = rows /\ job' = [job EXCEPT ![j] = None]
      /\ UNCHANGED <<created, handler, messages, last>> /\ (crashes' = crashes \/ crashes' = crashes + 1)
  BY DEF CrashJob, PullFails, At, Open
<1>2. crashes' \in Nat /\ job \in [Job -> JobState \cup {None}]
  BY <1>1 DEF BaseInv, CoreType
<1>3. BaseInv'
  BY <1>1, <1>2, Ended
<1> QED
  BY <1>1, <1>2, <1>3

-----------------------------------------------------------------------------
\* The steps of a request.
LEMMA RequestOpens ==
  ASSUME BaseInv, NEW h \in Handler, NEW v \in HandlerState,
         v.op = "trigger" => v.total <= messages,
         handler' = [handler EXCEPT ![h] = v],
         UNCHANGED <<rows, created, job, messages, last, crashes>>
  PROVE  /\ BaseInv' /\ handler'[h] = v /\ v # None
         /\ \A g \in Handler \ {h} : handler'[g] = handler[g]
<1>1. CoreType /\ v # None /\ messages \in Nat /\ last \in 0..messages /\ crashes \in Nat
  BY NoneAssumption DEF BaseInv, CoreType
<1>2. /\ handler' \in [Handler -> HandlerState \cup {None}]
      /\ handler'[h] = v /\ \A g \in Handler \ {h} : handler'[g] = handler[g]
  BY <1>1 DEF CoreType
<1>3. Totals'
  BY <1>2 DEF BaseInv, Totals
<1>4. RowsTyped /\ RowsGoOn(0)
  BY <1>1, RowsStay
<1>5. BaseInv'
  BY <1>1, <1>2, <1>3, <1>4, HandlerSteps
<1> QED
  BY <1>1, <1>2, <1>5

LEMMA RequestCloses ==
  ASSUME BaseInv, NEW h \in Handler, handler' = [handler EXCEPT ![h] = None]
  PROVE  /\ handler' \in [Handler -> HandlerState \cup {None}] /\ handler'[h] = None
         /\ \A g \in Handler \ {h} : handler'[g] = handler[g]
         /\ messages' = messages => Totals'
<1>1. /\ handler' \in [Handler -> HandlerState \cup {None}]
      /\ handler'[h] = None /\ \A g \in Handler \ {h} : handler'[g] = handler[g]
  BY DEF BaseInv, CoreType
<1>2. messages' = messages => Totals'
  BY <1>1 DEF BaseInv, Totals
<1> QED
  BY <1>1, <1>2

LEMMA BeginRollbackBase ==
  ASSUME BaseInv, NEW h \in Handler, NEW target \in Id, BeginRollback(h, target)
  PROVE  /\ BaseInv' /\ target \in Completed
         /\ handler'[h] = [op |-> "rollback", target |-> target,
                           want |-> (Active \cup {target}) \ (Active \cap {target})]
         /\ \A g \in Handler \ {h} : handler'[g] = handler[g]
<1> DEFINE v == [op |-> "rollback", target |-> target,
                 want |-> (Active \cup {target}) \ (Active \cap {target})]
<1>1. target \in Completed /\ handler' = [handler EXCEPT ![h] = v]
      /\ UNCHANGED <<rows, created, job, messages, last, crashes>>
  BY DEF BeginRollback
<1>2. (Active \cup {target}) \ (Active \cap {target}) \in SUBSET Id
  BY DEF Active, Present
<1>3. v \in HandlerState /\ v.op # "trigger"
  BY <1>2 DEF HandlerState
<1> HIDE DEF v
<1>4. BaseInv' /\ handler'[h] = v /\ \A g \in Handler \ {h} : handler'[g] = handler[g]
  BY <1>1, <1>3, RequestOpens
<1> QED
  BY <1>1, <1>4 DEF v

LEMMA BeginSwitchBase ==
  ASSUME BaseInv, NEW h \in Handler, BeginSwitch(h)
  PROVE  /\ BaseInv'
         /\ handler'[h] = [op |-> "switch", set |-> Active]
         /\ \A g \in Handler \ {h} : handler'[g] = handler[g]
<1> DEFINE v == [op |-> "switch", set |-> Active]
<1>1. handler' = [handler EXCEPT ![h] = v]
      /\ UNCHANGED <<rows, created, job, messages, last, crashes>>
  BY DEF BeginSwitch
<1>2. v \in HandlerState /\ v.op # "trigger"
  BY DEF HandlerState, Active, Present
<1> HIDE DEF v
<1>3. BaseInv' /\ handler'[h] = v /\ \A g \in Handler \ {h} : handler'[g] = handler[g]
  BY <1>1, <1>2, RequestOpens
<1> QED
  BY <1>1, <1>3 DEF v

LEMMA CheckTriggerBase ==
  ASSUME BaseInv, NEW h \in Handler, CheckTrigger(h)
  PROVE  /\ BaseInv'
         /\ handler'[h] = [op |-> "trigger", total |-> messages]
         /\ \A g \in Handler \ {h} : handler'[g] = handler[g]
<1> DEFINE v == [op |-> "trigger", total |-> messages]
<1>1. handler' = [handler EXCEPT ![h] = v]
      /\ UNCHANGED <<rows, created, job, messages, last, crashes>>
  BY DEF CheckTrigger
<1>2. messages \in Nat
  BY DEF BaseInv, CoreType
<1>3. v \in HandlerState /\ v.total <= messages
  BY <1>2 DEF HandlerState
<1> HIDE DEF v
<1>4. BaseInv' /\ handler'[h] = v /\ \A g \in Handler \ {h} : handler'[g] = handler[g]
  BY <1>1, <1>3, RequestOpens
<1> QED
  BY <1>1, <1>4 DEF v

LEMMA FinishRollbackBase ==
  ASSUME BaseInv, NEW h \in Handler, FinishRollback(h)
  PROVE  /\ BaseInv' /\ handler[h] # None /\ handler[h].op = "rollback"
         /\ created' = created /\ job' = job
         /\ handler'[h] = None /\ \A g \in Handler \ {h} : handler'[g] = handler[g]
         /\ \A i \in Id : /\ rows'[i] = None <=> rows[i] = None
                          /\ rows[i] # None => /\ rows'[i].num = rows[i].num
                                               /\ rows'[i].status = rows[i].status
         /\ ~Gone(handler[h].want) =>
              \A i \in Id : rows[i] # None =>
                rows'[i].active = IF i \in handler[h].want THEN i = handler[h].target ELSE rows[i].active
<1> DEFINE r == handler[h]
           on == [i \in Id |-> i = r.target]
<1>1. r # None /\ r.op = "rollback" /\ (Activate(r.want, on) \/ (Gone(r.want) /\ UNCHANGED rows))
      /\ handler' = [handler EXCEPT ![h] = None]
      /\ UNCHANGED <<created, job, messages, last, crashes>>
  BY DEF FinishRollback
<1>2. /\ handler' \in [Handler -> HandlerState \cup {None}] /\ handler'[h] = None
      /\ \A g \in Handler \ {h} : handler'[g] = handler[g]
      /\ Totals'
  BY <1>1, RequestCloses
<1>3. CoreType /\ created' = created /\ messages' \in Nat /\ last' \in 0..messages' /\ crashes' \in Nat
  BY <1>1 DEF BaseInv, CoreType
<1>4. \A i \in Id : on[i] \in BOOLEAN /\ on[i] = (i = r.target)
  OBVIOUS
<1> HIDE DEF on, r
<1>5. CASE Activate(r.want, on)
  <2>1. /\ RowsTyped /\ RowsGoOn(0)
        /\ \A i \in Id : /\ rows'[i] = None <=> rows[i] = None
                         /\ rows[i] # None => /\ rows'[i].num = rows[i].num
                                              /\ rows'[i].status = rows[i].status
                                              /\ rows'[i].active = IF i \in r.want THEN on[i] ELSE rows[i].active
    BY <1>3, <1>4, <1>5, Activated
  <2>2. BaseInv'
    <3>1. UNCHANGED <<created, job>>
      BY <1>1
    <3> QED
      BY <1>2, <1>3, <2>1, <3>1, HandlerSteps
  <2>3. \A i \in Id : rows[i] # None =>
          rows'[i].active = IF i \in r.want THEN i = r.target ELSE rows[i].active
    BY <1>4, <2>1
  <2> QED
    BY <1>1, <1>2, <2>1, <2>2, <2>3 DEF r
<1>6. CASE Gone(r.want) /\ UNCHANGED rows
  <2>1. RowsTyped /\ RowsGoOn(0)
    BY <1>3, <1>6, RowsStay
  <2>2. BaseInv'
    <3>1. UNCHANGED <<created, job>>
      BY <1>1
    <3> QED
      BY <1>2, <1>3, <2>1, <3>1, HandlerSteps
  <2> QED
    BY <1>1, <1>2, <1>6, <2>2 DEF r
<1> QED
  BY <1>1, <1>5, <1>6

LEMMA FinishSwitchBase ==
  ASSUME BaseInv, NEW h \in Handler, NEW j \in Job, FinishSwitch(h, j)
  PROVE  /\ BaseInv' /\ handler[h] # None /\ handler[h].op = "switch"
         /\ created' = created /\ ~Open(j) /\ job'[j].pc = "pulling"
         /\ \A k \in Job \ {j} : job'[k] = job[k]
         /\ handler'[h] = None /\ \A g \in Handler \ {h} : handler'[g] = handler[g]
         /\ \A i \in Id : /\ rows'[i] = None <=> rows[i] = None
                          /\ rows[i] # None => /\ rows'[i].num = rows[i].num
                                               /\ rows'[i].status = rows[i].status
                                               /\ rows'[i].active = IF i \in handler[h].set THEN FALSE ELSE rows[i].active
<1> DEFINE r == handler[h]
           on == [i \in Id |-> FALSE]
           pc == "pulling"
           again == (Completed # {})
           X == NewJob(pc, again)
<1>1. r # None /\ r.op = "switch" /\ ~Open(j) /\ RowsLeft /\ Activate(r.set, on)
      /\ job' = [job EXCEPT ![j] = X]
      /\ handler' = [handler EXCEPT ![h] = None]
      /\ UNCHANGED <<created, messages, last, crashes>>
  BY DEF FinishSwitch, Open
<1>2. /\ handler' \in [Handler -> HandlerState \cup {None}] /\ handler'[h] = None
      /\ \A g \in Handler \ {h} : handler'[g] = handler[g]
      /\ Totals'
  BY <1>1, RequestCloses
<1>3. CoreType /\ created' = created /\ messages' \in Nat /\ last' \in 0..messages' /\ crashes' \in Nat
  BY <1>1 DEF BaseInv, CoreType
<1>4. \A i \in Id : on[i] \in BOOLEAN /\ on[i] = FALSE
  OBVIOUS
<1>5. pc \in {"pulling", "queued"} /\ again \in BOOLEAN
  OBVIOUS
<1> HIDE DEF on, r, again
<1>6. /\ RowsTyped /\ RowsGoOn(0)
      /\ \A i \in Id : /\ rows'[i] = None <=> rows[i] = None
                       /\ rows[i] # None => /\ rows'[i].num = rows[i].num
                                            /\ rows'[i].status = rows[i].status
                                            /\ rows'[i].active = IF i \in r.set THEN on[i] ELSE rows[i].active
  BY <1>1, <1>3, <1>4, Activated
<1>7. BaseInv'
  BY <1>1, <1>2, <1>3, <1>5, <1>6, JobStarts
<1>8. X.pc = pc
  BY DEF NewJob
<1> HIDE DEF X
<1>9. job'[j] = X /\ \A k \in Job \ {j} : job'[k] = job[k]
  BY <1>1, <1>3 DEF CoreType
<1> QED
  BY <1>1, <1>2, <1>4, <1>6, <1>7, <1>8, <1>9 DEF r

LEMMA SwitchFailsBase ==
  ASSUME BaseInv, NEW h \in Handler, SwitchFails(h)
  PROVE  BaseInv' /\ handler'[h] = None /\ \A g \in Handler \ {h} : handler'[g] = handler[g]
<1>1. handler' = [handler EXCEPT ![h] = None] /\ UNCHANGED <<rows, created, job, messages, last, crashes>>
  BY DEF SwitchFails
<1>2. CoreType /\ messages \in Nat /\ last \in 0..messages /\ crashes \in Nat
  BY DEF BaseInv, CoreType
<1> QED
  BY <1>1, <1>2, RequestCloses, RowsStay, HandlerSteps

LEMMA FinishTriggerBase ==
  ASSUME BaseInv, NEW h \in Handler, FinishTrigger(h)
  PROVE  /\ handler' \in [Handler -> HandlerState \cup {None}] /\ Totals' /\ handler[h] # None
         /\ handler'[h] = None /\ \A g \in Handler \ {h} : handler'[g] = handler[g]
         /\ messages' \in Nat /\ last' \in 0..messages' /\ crashes' \in Nat
         /\ RowsTyped /\ RowsGoOn(0)
<1> DEFINE r == handler[h]
<1>1. handler' = [handler EXCEPT ![h] = None] /\ UNCHANGED <<rows, created, messages, crashes>>
      /\ r # None /\ r.op = "trigger" /\ last' = r.total
  BY DEF FinishTrigger
<1>2. CoreType /\ messages \in Nat /\ crashes \in Nat /\ r \in HandlerState
  BY <1>1 DEF BaseInv, CoreType
<1>3. r.total <= messages
  BY <1>1 DEF BaseInv, Totals
<1>4. r.total \in Nat
  <2> HIDE DEF r
  <2> QED
    BY <1>1, <1>2 DEF HandlerState
<1>5. /\ handler' \in [Handler -> HandlerState \cup {None}] /\ handler'[h] = None
      /\ \A g \in Handler \ {h} : handler'[g] = handler[g]
      /\ Totals'
  BY <1>1, RequestCloses
<1>6. created' = created /\ rows' = rows /\ handler[h] # None
  BY <1>1
<1>7. RowsTyped /\ RowsGoOn(0)
  BY <1>2, <1>6, RowsStay
<1>8. messages' \in Nat /\ last' \in 0..messages' /\ crashes' \in Nat
  BY <1>1, <1>2, <1>3, <1>4
<1> QED
  BY <1>5, <1>6, <1>7, <1>8

LEMMA NoteTriggerBase ==
  ASSUME BaseInv, NEW h \in Handler, NoteTrigger(h)
  PROVE  /\ BaseInv' /\ handler[h] # None /\ handler'[h] = None
         /\ \A g \in Handler \ {h} : handler'[g] = handler[g]
<1>1. FinishTrigger(h) /\ job' = job /\ created' = created
  BY DEF NoteTrigger, FinishTrigger
<1> QED
  BY <1>1, FinishTriggerBase, HandlerSteps

LEMMA FireTriggerBase ==
  ASSUME BaseInv, NEW h \in Handler, NEW j \in Job, FireTrigger(h, j)
  PROVE  /\ BaseInv' /\ ~Open(j) /\ job'[j].pc = "queued" /\ rows' = rows /\ created' = created
         /\ \A k \in Job \ {j} : job'[k] = job[k]
         /\ handler[h] # None /\ handler'[h] = None
         /\ \A g \in Handler \ {h} : handler'[g] = handler[g]
<1> DEFINE pc == "queued"
           X == NewJob(pc, TRUE)
<1>1. FinishTrigger(h) /\ ~Open(j) /\ RowsLeft /\ job' = [job EXCEPT ![j] = X] /\ created' = created /\ rows' = rows
  BY DEF FireTrigger, FinishTrigger, Open
<1>2. pc \in {"pulling", "queued"} /\ TRUE \in BOOLEAN
  OBVIOUS
<1>3. BaseInv'
  BY <1>1, <1>2, FinishTriggerBase, JobStarts
<1>4. X.pc = pc
  BY DEF NewJob
<1> HIDE DEF X
<1>5. job'[j] = X /\ \A k \in Job \ {j} : job'[k] = job[k]
  BY <1>1 DEF BaseInv, CoreType
<1> QED
  BY <1>1, <1>3, <1>4, <1>5, FinishTriggerBase

LEMMA StartFineTuneBase ==
  ASSUME BaseInv, NEW j \in Job, StartFineTune(j)
  PROVE  /\ BaseInv' /\ ~Open(j) /\ job'[j].pc = "queued"
         /\ \A k \in Job \ {j} : job'[k] = job[k]
<1> DEFINE pc == "queued"
           X == NewJob(pc, TRUE)
<1>1. ~Open(j) /\ RowsLeft /\ job' = [job EXCEPT ![j] = X]
      /\ UNCHANGED <<rows, created, handler, messages, last, crashes>>
  BY DEF StartFineTune, Open
<1>2. pc \in {"pulling", "queued"} /\ TRUE \in BOOLEAN
  OBVIOUS
<1>3. CoreType /\ handler' \in [Handler -> HandlerState \cup {None}] /\ Totals'
      /\ messages' \in Nat /\ last' \in 0..messages' /\ crashes' \in Nat
  BY <1>1 DEF BaseInv, CoreType, Totals
<1>4. RowsTyped /\ RowsGoOn(0)
  BY <1>1, <1>3, RowsStay
<1>5. BaseInv'
  BY <1>1, <1>2, <1>3, <1>4, JobStarts
<1>6. X.pc = pc
  BY DEF NewJob
<1> HIDE DEF X
<1>7. job'[j] = X /\ \A k \in Job \ {j} : job'[k] = job[k]
  BY <1>1, <1>3 DEF CoreType
<1> QED
  BY <1>1, <1>5, <1>6, <1>7

LEMMA OwnerMessageBase ==
  ASSUME BaseInv, OwnerMessage
  PROVE  BaseInv'
<1>1. messages' = messages + 1 /\ UNCHANGED <<rows, created, job, handler, last, crashes>>
  BY DEF OwnerMessage
<1>2. CoreType /\ messages \in Nat /\ last \in 0..messages /\ crashes \in Nat
      /\ handler \in [Handler -> HandlerState \cup {None}]
  BY DEF BaseInv, CoreType
<1>3. RowsTyped /\ RowsGoOn(0)
  BY <1>1, <1>2, RowsStay
<1>4. Totals'
  <2> SUFFICES ASSUME NEW h \in Handler, handler[h] # None, handler[h].op = "trigger"
               PROVE  handler[h].total <= messages + 1
    BY <1>1 DEF Totals
  <2> DEFINE r == handler[h]
  <2>1. r \in HandlerState /\ r.op = "trigger" /\ r.total <= messages
    BY <1>2 DEF BaseInv, Totals
  <2> HIDE DEF r
  <2>2. r.total \in Nat
    BY <2>1 DEF HandlerState
  <2> QED
    BY <1>2, <2>1, <2>2 DEF r
<1> QED
  BY <1>1, <1>2, <1>3, <1>4, HandlerSteps

-----------------------------------------------------------------------------
(***************************************************************************)
(* The numbers, and what the prunes delete.  A row that a prune selected   *)
(* has Keep others above it which were completed then (Backed); they may   *)
(* have been deleted since, by a prune that broke a tie differently.       *)
(***************************************************************************)
Doomed == {i \in Id : \E j \in Job : Open(j) /\ job[j].pc = "pruning" /\ i \in job[j].set}

\* Completed, or once completed.
Past == Completed \cup Deleted

BackedBy(i, W) ==
  /\ W \in SUBSET (Past \ {i}) /\ Cardinality(W) = Keep
  /\ \A k \in W : born[k].num >= born[i].num
Backed(i) == \E W : BackedBy(i, W)

BornTyped ==
  /\ born \in [Id -> [num : Nat, seen : Nat]]
  /\ \A i \in Inserted : born[i].seen <= created
BornRows  == \A i \in Present : rows[i].num = born[i].num
Bounded   == \E b \in Nat : \A i \in Inserted : born[i].num <= b

\* What VersionsAscend says of row i and a number n computed when it was there.
Above(i, n) == n > born[i].num \/ \E l \in Deleted : Twin(l) /\ born[l].num >= born[i].num
Fresh(n, s) == n \in Nat /\ s \in 0..created /\ \A i \in Inserted : i <= s => Above(i, n)

NumbersFresh == \A j \in Job : Open(j) /\ job[j].pc = "numbered" => Fresh(job[j].num, job[j].seen)

NumberInv ==
  /\ BaseInv /\ BornTyped /\ BornRows /\ Bounded
  /\ \A i \in Deleted \cup Doomed : Backed(i)
  /\ NumbersFresh /\ VersionsAscend

-----------------------------------------------------------------------------
LEMMA FirstOfAll ==
  ASSUME NEW T, T \subseteq Nat, T # {}
  PROVE  \E x \in T : \A y \in T : x <= y
<1>1. PICK x \in T : \A y \in T : <<y, x>> \notin OpToRel(<, Nat)
  BY NatLessThanWellFounded, WFMin
<1>2. \A y \in T : ~(y < x)
  BY <1>1 DEF OpToRel
<1> QED
  BY <1>2

\* Any rows have one of the highest number.
LEMMA HighestIs ==
  ASSUME BornTyped, Bounded, NEW S \in SUBSET Inserted, S # {}
  PROVE  \E m \in S : \A i \in S : born[i].num <= born[m].num
<1>1. PICK b \in Nat : \A i \in Inserted : born[i].num <= b
  BY DEF Bounded
<1>2. \A i \in Inserted : born[i].num \in Nat
  BY DEF BornTyped, Inserted
<1> DEFINE T == {b - born[i].num : i \in S}
<1>3. T \subseteq Nat /\ T # {}
  BY <1>1, <1>2
<1>4. PICK x \in T : \A y \in T : x <= y
  BY <1>3, FirstOfAll
<1>5. PICK m \in S : x = b - born[m].num
  BY <1>4
<1>6. \A i \in S : b - born[m].num <= b - born[i].num
  BY <1>4, <1>5
<1>7. \A i \in S : born[i].num <= born[m].num
  BY <1>1, <1>2, <1>6
<1> QED
  BY <1>7

LEMMA PresentInserted ==
  ASSUME CoreType
  PROVE  Present \subseteq Inserted /\ Present = Inserted \ Deleted
BY DEF CoreType, Present, Inserted, Deleted

LEMMA TopIs ==
  ASSUME NumberInv
  PROVE  Top
<1> SUFFICES ASSUME Present # {} PROVE \E m \in Present : \A i \in Present : rows[i].num <= rows[m].num
  BY DEF Top
<1>1. Present \in SUBSET Inserted
  BY PresentInserted DEF NumberInv, BaseInv
<1>2. PICK m \in Present : \A i \in Present : born[i].num <= born[m].num
  BY <1>1, HighestIs DEF NumberInv
<1> QED
  BY <1>2 DEF NumberInv, BornRows

LEMMA KeepNotEmpty ==
  ASSUME NEW W, Cardinality(W) = Keep
  PROVE  W # {}
BY FineTuneAssumption, FS_EmptySet

LEMMA IdsFinite ==
  ASSUME NEW S \in SUBSET Id
  PROVE  IsFiniteSet(S) /\ Cardinality(S) \in Nat
<1>1. IsFiniteSet(Id)
  BY FineTuneAssumption, FS_Interval DEF Id
<1> QED
  BY <1>1, FS_Subset, FS_CardinalityType

\* Of the deleted rows above row i, the highest one that has its number alone was spared Keep
\* rows, which are still there or share their number; and so was i.
LEMMA SurvivorsStay ==
  ASSUME NumberInv, NEW i \in Deleted
  PROVE  \E W \in SUBSET Survivors(i) : Cardinality(W) = Keep
<1> DEFINE Z == {k \in Deleted \ {i} : born[k].num >= born[i].num /\ ~Twin(k)}
<1>0. \A k \in Inserted : k \in Id /\ born[k].num \in Nat
  BY DEF NumberInv, BornTyped, Inserted
<1>1. Deleted \subseteq Inserted /\ Completed \subseteq Inserted /\ Past \subseteq Inserted
  BY PresentInserted DEF NumberInv, BaseInv, Deleted, Completed, Past
<1>2. CASE Z = {}
  <2>1. PICK W : BackedBy(i, W)
    BY DEF NumberInv, Backed
  <2>2. \A k \in W : k \in Survivors(i)
    BY <1>1, <1>2, <2>1 DEF BackedBy, Past, Survivors
  <2> QED
    BY <2>1, <2>2 DEF BackedBy
<1>3. CASE Z # {}
  <2>1. PICK z \in Z : \A k \in Z : born[k].num <= born[z].num
    <3>1. Z \in SUBSET Inserted
      BY <1>1
    <3> HIDE DEF Z
    <3> QED
      BY <1>3, <3>1, HighestIs DEF NumberInv
  <2>2. z \in Deleted /\ z # i /\ born[z].num >= born[i].num /\ ~Twin(z)
    BY <2>1
  <2>3. PICK W : BackedBy(z, W)
    BY <2>2 DEF NumberInv, Backed
  <2>4. ASSUME NEW k \in W PROVE k \in Survivors(i)
    <3>1. k \in Past /\ k # z /\ born[k].num >= born[z].num
      BY <2>3 DEF BackedBy
    <3>2. born[k].num # born[z].num
      BY <1>1, <2>2, <3>1 DEF Twin
    <3>3. k # i /\ born[k].num > born[z].num /\ born[k].num >= born[i].num
      BY <1>0, <1>1, <2>2, <3>1, <3>2
    <3>4. k \notin Z
      BY <1>0, <1>1, <2>1, <2>2, <3>1, <3>3
    <3> QED
      BY <1>1, <3>1, <3>3, <3>4 DEF Past, Survivors
  <2> QED
    BY <2>3, <2>4 DEF BackedBy
<1> QED
  BY <1>2, <1>3

LEMMA NumberPrune == NumberInv => PruneKeepsNewest
<1> SUFFICES ASSUME NumberInv, NEW i \in Deleted PROVE Cardinality(Survivors(i)) >= Keep
  BY DEF PruneKeepsNewest
<1>1. PICK W \in SUBSET Survivors(i) : Cardinality(W) = Keep
  BY SurvivorsStay
<1>2. Survivors(i) \in SUBSET Id
  BY DEF Survivors, Inserted
<1>3. IsFiniteSet(Survivors(i)) /\ Cardinality(Survivors(i)) \in Nat
  BY <1>2, IdsFinite
<1>4. Cardinality(W) <= Cardinality(Survivors(i))
  BY <1>1, <1>3, FS_Subset
<1> QED
  BY <1>1, <1>3, <1>4, FineTuneAssumption

\* The number a task computes is above all rows, but for ties.
LEMMA MaxFresh ==
  ASSUME NumberInv
  PROVE  Fresh(MaxNumber + 1, created)
<1>1. CoreType /\ Top
  BY TopIs DEF NumberInv, BaseInv
<1>2. MaxNumber \in Nat /\ \A i \in Present : rows[i].num <= MaxNumber
  BY <1>1, MaxNumberIs
<1>3. \A i \in Inserted : born[i].num \in Nat
  BY DEF NumberInv, BornTyped, Inserted
<1>4. ASSUME NEW i \in Present PROVE MaxNumber + 1 > born[i].num
  <2>1. i \in Inserted /\ rows[i].num = born[i].num
    BY <1>1, PresentInserted DEF NumberInv, BornRows
  <2> QED
    BY <1>2, <1>3, <2>1
<1>5. ASSUME NEW i \in Deleted PROVE Above(i, MaxNumber + 1)
  <2>1. PICK W \in SUBSET Survivors(i) : Cardinality(W) = Keep
    BY SurvivorsStay
  <2>2. PICK k \in W : TRUE
    BY <2>1, KeepNotEmpty
  <2>3. /\ k \in Inserted /\ i \in Inserted /\ born[k].num >= born[i].num
        /\ k \in Completed \/ (k \in Deleted /\ Twin(k))
    BY <2>2 DEF Survivors, Deleted
  <2>4. CASE k \in Completed
    <3>1. MaxNumber + 1 > born[k].num
      BY <1>4, <2>4 DEF Completed
    <3> QED
      BY <1>2, <1>3, <2>3, <3>1 DEF Above
  <2>5. CASE k \in Deleted /\ Twin(k)
    BY <2>3, <2>5 DEF Above
  <2> QED
    BY <2>3, <2>4, <2>5
<1>6. \A i \in Inserted : Above(i, MaxNumber + 1)
  BY <1>1, <1>4, <1>5, PresentInserted DEF Above
<1>7. created \in Nat
  BY <1>1 DEF CoreType
<1> QED
  BY <1>2, <1>6, <1>7 DEF Fresh

-----------------------------------------------------------------------------
\* A step that inserts no row, gives none another number and revokes no completion.
Goes ==
  /\ created' = created /\ born' = born
  /\ \A i \in Id : /\ rows[i] = None => rows'[i] = None
                   /\ rows[i] # None /\ rows'[i] # None =>
                        /\ rows'[i].num = rows[i].num
                        /\ rows[i].status = "completed" => rows'[i].status = "completed"

\* What any step keeps of the rows there were.
Grows ==
  /\ Inserted \subseteq Inserted' /\ Past \subseteq Past' /\ Deleted \subseteq Deleted'
  /\ \A i \in Inserted : born'[i] = born[i]

LEMMA GrowsKeeps ==
  ASSUME NumberInv, Grows
  PROVE  /\ \A i \in Inserted : Backed(i) => Backed(i)'
         /\ \A i \in Inserted : \A n : Above(i, n) => Above(i, n)'
<1>1. Past \subseteq Inserted /\ Deleted \subseteq Inserted
  BY PresentInserted DEF NumberInv, BaseInv, Past, Deleted, Completed
<1>2. ASSUME NEW i \in Inserted, Backed(i) PROVE Backed(i)'
  <2>1. PICK W : BackedBy(i, W)
    BY <1>2 DEF Backed
  <2>2. BackedBy(i, W)'
    <3>1. \A k \in W : k \in Inserted
      BY <1>1, <2>1 DEF BackedBy
    <3> QED
      BY <2>1, <3>1 DEF BackedBy, Grows
  <2> QED
    BY <2>2 DEF Backed
<1>3. ASSUME NEW i \in Inserted, NEW n, Above(i, n) PROVE Above(i, n)'
  <2>1. CASE n > born[i].num
    BY <2>1 DEF Above, Grows
  <2>2. ASSUME NEW l \in Deleted, Twin(l), born[l].num >= born[i].num PROVE Above(i, n)'
    <3>1. l \in Inserted /\ l \in Deleted' /\ born'[l] = born[l] /\ born'[i] = born[i]
      BY <1>1 DEF Grows
    <3>2. Twin(l)'
      BY <2>2, <3>1 DEF Twin, Grows
    <3> QED
      BY <2>2, <3>1, <3>2 DEF Above
  <2> QED
    BY <1>3, <2>1, <2>2 DEF Above
<1> QED
  BY <1>2, <1>3

LEMMA GoesGrows ==
  ASSUME NumberInv, Goes
  PROVE  Grows /\ Inserted' = Inserted
<1>1. Inserted' = Inserted
  BY DEF Goes, Inserted
<1>2. Deleted \subseteq Deleted'
  BY <1>1 DEF Goes, Deleted, Inserted
<1>3. ASSUME NEW i \in Completed PROVE i \in Past'
  <2>1. i \in Inserted /\ i \in Id /\ rows[i] # None /\ rows[i].status = "completed"
    BY PresentInserted DEF NumberInv, BaseInv, Completed, Present
  <2>2. CASE rows'[i] = None
    BY <1>1, <2>1, <2>2 DEF Past, Deleted
  <2>3. CASE rows'[i] # None
    <3>1. rows'[i].status = "completed"
      BY <2>1, <2>3 DEF Goes
    <3> QED
      BY <2>1, <2>3, <3>1 DEF Past, Completed, Present
  <2> QED
    BY <2>2, <2>3
<1>4. Past \subseteq Past'
  BY <1>2, <1>3 DEF Past
<1> QED
  BY <1>1, <1>2, <1>4 DEF Grows, Goes

LEMMA NumbersKept ==
  ASSUME NumberInv, BaseInv', Goes, \A i \in Deleted' \cup Doomed' : Backed(i),
         \A j \in Job : job'[j] # None /\ job'[j].pc = "numbered" => Fresh(job'[j].num, job'[j].seen)
  PROVE  NumberInv'
<1>1. Grows /\ Inserted' = Inserted
  BY GoesGrows
<1>2. BornTyped' /\ Bounded'
  BY <1>1 DEF NumberInv, BornTyped, Bounded, Goes
<1>3. BornRows'
  <2> SUFFICES ASSUME NEW i \in Id, rows'[i] # None PROVE rows'[i].num = born[i].num
    BY DEF BornRows, Present, Goes
  <2>1. rows[i] # None /\ rows'[i].num = rows[i].num
    BY DEF Goes
  <2> QED
    BY <2>1 DEF NumberInv, BornRows, Present
<1>4. \A i \in Deleted' \cup Doomed' : Backed(i)'
  <2>1. \A i \in Deleted' \cup Doomed' : i \in Inserted
    <3>1. Deleted' \subseteq Inserted
      BY <1>1 DEF Deleted
    <3>2. ASSUME NEW i \in Doomed' PROVE i \in Inserted
      <4>1. PICK j \in Job : job'[j] # None /\ i \in Id /\ i \in job'[j].set
        BY DEF Doomed, Open
      <4>2. job'[j].set \subseteq 1..created
        BY <4>1 DEF BaseInv, JobsPlaced, Placed, Open, Goes
      <4> QED
        BY <4>1, <4>2 DEF Inserted
    <3> QED
      BY <3>1, <3>2
  <2> QED
    BY <1>1, <2>1, GrowsKeeps
<1>5. NumbersFresh'
  <2>1. ASSUME NEW n, NEW s, Fresh(n, s) PROVE Fresh(n, s)'
    <3>1. \A i \in Inserted : i <= s => Above(i, n)'
      BY <1>1, <2>1, GrowsKeeps DEF Fresh
    <3> QED
      BY <1>1, <2>1, <3>1 DEF Fresh, Goes
  <2>2. ASSUME NEW j \in Job, job'[j] # None, job'[j].pc = "numbered"
        PROVE  Fresh(job[j].num, job[j].seen)'
    <3>1. PICK n, s : n = job'[j].num /\ s = job'[j].seen
      OBVIOUS
    <3>2. Fresh(n, s)'
      BY <2>1, <2>2, <3>1
    <3> QED
      BY <3>1, <3>2 DEF Fresh, Above
  <2> QED
    BY <2>2 DEF NumbersFresh, Open
<1>6. VersionsAscend'
  <2>1. ASSUME NEW i \in Inserted, NEW k \in Inserted, i <= born[k].seen PROVE Above(i, born[k].num)'
    <3>1. PICK n : n = born[k].num
      OBVIOUS
    <3>2. Above(i, n)
      BY <2>1, <3>1 DEF NumberInv, VersionsAscend, Above
    <3>3. Above(i, n)' /\ born' = born
      BY <1>1, <3>2, GrowsKeeps DEF Goes
    <3> QED
      BY <3>1, <3>3 DEF Above
  <2> QED
    BY <1>1, <2>1 DEF VersionsAscend, Above, Goes
<1> QED
  BY <1>2, <1>3, <1>4, <1>5, <1>6 DEF NumberInv

\* A step that selects nothing for deletion and deletes only what was selected.
LEMMA NumbersStay ==
  ASSUME NumberInv, BaseInv', Goes, Doomed' \subseteq Doomed, Deleted' \subseteq Deleted \cup Doomed,
         \A j \in Job : job'[j] # None /\ job'[j].pc = "numbered" =>
                          job[j] # None /\ job[j].pc = "numbered" /\ job'[j] = job[j]
  PROVE  NumberInv'
<1>1. \A i \in Deleted' \cup Doomed' : Backed(i)
  BY DEF NumberInv
<1>2. \A j \in Job : job'[j] # None /\ job'[j].pc = "numbered" => Fresh(job'[j].num, job'[j].seen)
  BY DEF NumberInv, NumbersFresh, Open
<1> QED
  BY <1>1, <1>2, NumbersKept

LEMMA NotDoomed ==
  ASSUME NEW j \in Job, \A k \in Job \ {j} : job'[k] = job[k],
         job'[j] = None \/ job'[j].pc # "pruning"
  PROVE  Doomed' \subseteq Doomed
BY DEF Doomed, Open

LEMMA SameRows ==
  ASSUME rows' = rows, created' = created
  PROVE  Deleted' = Deleted
BY DEF Deleted, Inserted

\* A task's step that leaves the rows alone, or all but their flags and the status of one.
LEMMA TaskKept ==
  ASSUME NumberInv, BaseInv', NEW j \in Job, \A k \in Job \ {j} : job'[k] = job[k],
         job'[j] = None \/ job'[j].pc \notin {"pruning", "numbered"},
         created' = created, born' = born,
         \A i \in Id : /\ rows'[i] = None <=> rows[i] = None
                       /\ rows[i] # None => /\ rows'[i].num = rows[i].num
                                            /\ rows[i].status = "completed" => rows'[i].status = "completed"
  PROVE  NumberInv'
<1>1. Goes
  BY DEF Goes
<1>2. Doomed' \subseteq Doomed
  BY NotDoomed
<1>3. Deleted' \subseteq Deleted
  BY DEF Deleted, Inserted
<1> QED
  BY <1>1, <1>2, <1>3, NumbersStay

LEMMA RequestKept ==
  ASSUME NumberInv, BaseInv', job' = job, created' = created, born' = born,
         \A i \in Id : /\ rows'[i] = None <=> rows[i] = None
                       /\ rows[i] # None => /\ rows'[i].num = rows[i].num
                                            /\ rows[i].status = "completed" => rows'[i].status = "completed"
  PROVE  NumberInv'
<1>1. Goes
  BY DEF Goes
<1>2. Doomed' \subseteq Doomed
  BY DEF Doomed, Open
<1>3. Deleted' \subseteq Deleted
  BY DEF Deleted, Inserted
<1> QED
  BY <1>1, <1>2, <1>3, NumbersStay

LEMMA AllocateKept ==
  ASSUME NumberInv, NEW j \in Job, AllocateNumber(j)
  PROVE  NumberInv'
<1>1. Top /\ BaseInv
  BY TopIs DEF NumberInv
<1>2. /\ BaseInv' /\ rows' = rows /\ created' = created
      /\ job'[j].pc = "numbered" /\ job'[j].num = MaxNumber + 1 /\ job'[j].seen = created
      /\ \A k \in Job \ {j} : job'[k] = job[k]
  BY <1>1, AllocateNumberBase
<1>3. born' = born
  BY DEF AllocateNumber
<1>4. Goes /\ Doomed' \subseteq Doomed /\ Deleted' = Deleted
  BY <1>2, <1>3, NotDoomed, SameRows DEF Goes
<1>5. \A k \in Job : job'[k] # None /\ job'[k].pc = "numbered" => Fresh(job'[k].num, job'[k].seen)
  BY <1>2, MaxFresh DEF NumberInv, NumbersFresh, Open
<1>6. \A i \in Deleted' \cup Doomed' : Backed(i)
  BY <1>4 DEF NumberInv
<1> QED
  BY <1>2, <1>4, <1>5, <1>6, NumbersKept

LEMMA SelectStaleKept ==
  ASSUME NumberInv, NEW j \in Job, SelectStale(j)
  PROVE  NumberInv'
<1>1. /\ BaseInv' /\ Open(j) /\ rows' = rows /\ created' = created
      /\ \A k \in Job \ {j} : job'[k] = job[k]
      /\ \/ job'[j] = None
         \/ \E kept \in SUBSET Completed :
              Newest(kept) /\ job'[j] # None /\ job'[j].pc = "pruning" /\ job'[j].set = Completed \ kept
  BY SelectStaleBase DEF NumberInv
<1>2. born' = born
  BY DEF SelectStale
<1>3. CASE job'[j] = None
  BY <1>1, <1>2, <1>3, TaskKept
<1>4. ASSUME NEW kept \in SUBSET Completed,
             Newest(kept), job'[j] # None, job'[j].pc = "pruning", job'[j].set = Completed \ kept
      PROVE  NumberInv'
  <2>1. Doomed' \subseteq Doomed \cup (Completed \ kept)
    BY <1>1, <1>4 DEF Doomed, Open
  <2>2. ASSUME NEW i \in Completed \ kept PROVE Backed(i)
    <3>1. \A k \in kept : rows[k].num >= rows[i].num
      BY <1>4 DEF Newest
    <3>2. \A k \in Completed : rows[k].num = born[k].num
      BY DEF NumberInv, BornRows, Completed
    <3>3. BackedBy(i, kept)
      BY <1>4, <3>1, <3>2 DEF BackedBy, Newest, Past
    <3> QED
      BY <3>3 DEF Backed
  <2>3. Goes /\ Deleted' = Deleted
    BY <1>1, <1>2, SameRows DEF Goes
  <2>4. \A i \in Deleted' \cup Doomed' : Backed(i)
    BY <2>1, <2>2, <2>3 DEF NumberInv
  <2>5. \A k \in Job : job'[k] # None /\ job'[k].pc = "numbered" => Fresh(job'[k].num, job'[k].seen)
    BY <1>1, <1>4 DEF NumberInv, NumbersFresh, Open
  <2> QED
    BY <1>1, <2>3, <2>4, <2>5, NumbersKept
<1> QED
  BY <1>1, <1>3, <1>4

LEMMA PruneKept ==
  ASSUME NumberInv, NEW j \in Job, Prune(j)
  PROVE  NumberInv'
<1>1. /\ BaseInv' /\ Open(j) /\ job[j].pc = "pruning" /\ job' = [job EXCEPT ![j] = None] /\ created' = created
      /\ \A i \in Id : rows'[i] = IF i \in job[j].set THEN None ELSE rows[i]
  BY PruneBase DEF NumberInv
<1>2. job'[j] = None /\ \A k \in Job \ {j} : job'[k] = job[k]
  BY <1>1 DEF NumberInv, BaseInv, CoreType
<1>3. born' = born
  BY DEF Prune
<1>4. Doomed' \subseteq Doomed
  BY <1>2, NotDoomed
<1>5. Deleted' \subseteq Deleted \cup Doomed
  BY <1>1 DEF Deleted, Inserted, Doomed
<1>6. Goes
  BY <1>1, <1>3 DEF Goes
<1> QED
  BY <1>1, <1>2, <1>4, <1>5, <1>6, NumbersStay

LEMMA InsertRowKept ==
  ASSUME NumberInv, NEW j \in Job, InsertRow(j)
  PROVE  NumberInv'
<1> DEFINE n == created'
           m == job[j].num
           s == job[j].seen
<1>0. Open(j) /\ job[j].pc = "numbered" /\ born' = [born EXCEPT ![created + 1] = [num |-> m, seen |-> s]]
  BY DEF InsertRow, At, Open
<1>1. /\ BaseInv' /\ n = created + 1 /\ n \in Id
      /\ rows'[n] # None /\ rows'[n].num = m /\ rows'[n].status = "running" /\ rows[n] = None
      /\ \A i \in Id \ {n} : rows'[i] = rows[i]
      /\ job'[j].pc = "training" /\ \A k \in Job \ {j} : job'[k] = job[k]
  BY InsertedRow DEF NumberInv
<1>2. /\ created \in Nat /\ Inserted' = Inserted \cup {n} /\ n \notin Inserted
      /\ Deleted' = Deleted /\ Present \subseteq Inserted
  <2>1. created \in Nat /\ \A i \in Id : i \in Nat
    BY DEF NumberInv, BaseInv, CoreType, Id
  <2>2. Inserted' = Inserted \cup {n} /\ n \notin Inserted
    <3>1. n = created + 1 /\ n \in Id
      BY <1>1
    <3>2. \A i \in Id : (i <= n <=> i <= created \/ i = n) /\ ~(n <= created)
      BY <2>1, <3>1
    <3> QED
      BY <3>1, <3>2 DEF Inserted
  <2>3. Deleted' = Deleted
    BY <1>1, <2>2 DEF Deleted, Inserted
  <2> QED
    BY <2>1, <2>2, <2>3, PresentInserted DEF NumberInv, BaseInv
<1>3. /\ born' \in [Id -> [num : Nat, seen : Nat]] /\ born'[n].num = m /\ born'[n].seen = s
      /\ \A i \in Inserted : born'[i] = born[i]
      /\ m \in Nat /\ s \in 0..created
  <2>1. Fresh(m, s)
    BY <1>0 DEF NumberInv, NumbersFresh
  <2>2. m \in Nat /\ s \in 0..created /\ s \in Nat
    BY <1>2, <2>1 DEF Fresh
  <2>3. [num |-> m, seen |-> s] \in [num : Nat, seen : Nat]
    BY <2>2
  <2>4. \A i \in Inserted : i \in Id /\ i # n
    BY <1>2 DEF Inserted
  <2> QED
    BY <1>0, <1>1, <2>2, <2>3, <2>4 DEF NumberInv, BornTyped
<1>4. Grows
  <2>1. \A i \in Completed : i \in Completed'
    BY <1>1 DEF Completed, Present
  <2> QED
    BY <1>2, <1>3, <2>1 DEF Grows, Past
<1>5. BornTyped' /\ BornRows'
  <2>1. \A i \in Present' : rows'[i].num = born'[i].num
    <3> SUFFICES ASSUME NEW i \in Id, rows'[i] # None PROVE rows'[i].num = born'[i].num
      BY DEF Present
    <3>1. CASE i = n
      BY <1>1, <1>3, <3>1
    <3>2. CASE i # n
      <4>1. i \in Present
        BY <1>1, <3>2 DEF Present
      <4> QED
        BY <1>1, <1>2, <1>3, <3>2, <4>1 DEF NumberInv, BornRows
    <3> QED
      BY <3>1, <3>2
  <2>2. \A i \in Inserted : born[i].seen <= created /\ born[i].seen \in Nat
    BY DEF NumberInv, BornTyped, Inserted
  <2> QED
    BY <1>1, <1>2, <1>3, <2>1, <2>2 DEF BornTyped, BornRows
<1>6. Bounded'
  <2>1. PICK b \in Nat : \A i \in Inserted : born[i].num <= b
    BY DEF NumberInv, Bounded
  <2>2. \A i \in Inserted : born[i].num \in Nat
    BY DEF NumberInv, BornTyped, Inserted
  <2>3. b + m \in Nat /\ \A i \in Inserted' : born'[i].num <= b + m
    BY <1>2, <1>3, <2>1, <2>2
  <2> QED
    BY <2>3 DEF Bounded
<1>7. \A i \in Deleted' \cup Doomed' : Backed(i)'
  <2>1. Doomed' \subseteq Doomed
    BY <1>1, NotDoomed
  <2>2. ASSUME NEW i \in Doomed PROVE i \in Inserted
    <3>1. PICK k \in Job : Open(k) /\ i \in Id /\ i \in job[k].set
      BY DEF Doomed
    <3>2. job[k].set \subseteq 1..created
      BY <3>1, OpenTyped DEF NumberInv, Placed
    <3> QED
      BY <3>1, <3>2 DEF Inserted
  <2>3. \A i \in Deleted : i \in Inserted
    BY DEF Deleted
  <2> QED
    BY <1>2, <1>4, <2>1, <2>2, <2>3, GrowsKeeps DEF NumberInv
<1>8. ASSUME NEW p, NEW q, Fresh(p, q) PROVE Fresh(p, q)' /\ \A i \in Inserted' : i <= q => Above(i, p)'
  <2>1. \A i \in Inserted' : i <= q => i \in Inserted
    BY <1>1, <1>2, <1>8 DEF Fresh
  <2>2. \A i \in Inserted' : i <= q => Above(i, p)'
    BY <1>4, <1>8, <2>1, GrowsKeeps DEF Fresh
  <2>3. p \in Nat /\ q \in 0..created'
    BY <1>1, <1>2, <1>8 DEF Fresh
  <2> QED
    BY <2>2, <2>3 DEF Fresh
<1>9. NumbersFresh'
  <2>1. ASSUME NEW k \in Job, job'[k] # None, job'[k].pc = "numbered"
        PROVE  Fresh(job[k].num, job[k].seen)'
    <3>1. k # j
      BY <1>1, <2>1
    <3>2. job'[k] = job[k]
      BY <1>1, <3>1
    <3>3. PICK p, q : p = job[k].num /\ q = job[k].seen
      OBVIOUS
    <3>4. Fresh(p, q)
      BY <2>1, <3>2, <3>3 DEF NumberInv, NumbersFresh, Open
    <3>5. Fresh(p, q)'
      BY <1>8, <3>4
    <3> QED
      BY <3>2, <3>3, <3>5 DEF Fresh, Above
  <2> QED
    BY <2>1 DEF NumbersFresh, Open
<1>10. VersionsAscend'
  <2> SUFFICES ASSUME NEW i \in Inserted', NEW k \in Inserted', i <= born'[k].seen PROVE Above(i, born[k].num)'
    BY DEF VersionsAscend, Above
  <2>0. PICK p : p = born'[k].num
    OBVIOUS
  <2> SUFFICES Above(i, p)'
    BY <2>0 DEF Above
  <2>1. CASE k = n
    <3>1. PICK q : q = born'[k].seen
      OBVIOUS
    <3>2. Fresh(p, q)
      BY <1>0, <1>3, <2>0, <2>1, <3>1 DEF NumberInv, NumbersFresh
    <3> QED
      BY <1>8, <3>1, <3>2
  <2>2. CASE k # n
    <3>1. k \in Inserted /\ born'[k] = born[k] /\ born[k].seen \in Nat /\ born[k].seen <= created
      BY <1>2, <1>3, <2>2 DEF NumberInv, BornTyped, Inserted
    <3>2. CASE i \in Inserted
      <4>1. Above(i, p)
        BY <2>0, <3>1, <3>2 DEF NumberInv, VersionsAscend, Above
      <4> QED
        BY <1>4, <3>2, <4>1, GrowsKeeps
    <3>3. CASE i = n
      \* nothing sees a row before it is there
      BY <1>1, <1>2, <3>1, <3>3
    <3> QED
      BY <1>2, <3>2, <3>3
  <2> QED
    BY <2>1, <2>2
<1> QED
  BY <1>1, <1>5, <1>6, <1>7, <1>9, <1>10 DEF NumberInv

LEMMA JobStepKept ==
  ASSUME NumberInv, NEW j \in Job, StartFineTune(j) \/ JobStep(j) \/ CrashJob(j)
  PROVE  NumberInv'
<1>0. BaseInv
  BY DEF NumberInv
<1>1. CASE StartFineTune(j)
  <2>1. rows' = rows /\ created' = created /\ born' = born
    BY <1>1 DEF StartFineTune
  <2> QED
    BY <1>0, <1>1, <2>1, StartFineTuneBase, TaskKept
<1>2. CASE CreateModel(j)
  <2>1. born' = born
    BY <1>2 DEF CreateModel
  <2> QED
    BY <1>0, <1>2, <2>1, CreateModelBase, TaskKept
<1>3. CASE CreateModelFails(j)
  <2>1. born' = born /\ job'[j] = None /\ \A k \in Job \ {j} : job'[k] = job[k]
    BY <1>0, <1>3 DEF CreateModelFails, BaseInv, CoreType
  <2> QED
    BY <1>0, <1>3, <2>1, CreateModelFailsBase, TaskKept
<1>4. CASE CompleteRow(j)
  <2>1. born' = born
    BY <1>4 DEF CompleteRow
  <2> QED
    BY <1>0, <1>4, <2>1, CompleteRowBase, TaskKept
<1>5. CASE SelectPriors(j)
  <2>1. born' = born
    BY <1>5 DEF SelectPriors
  <2> QED
    BY <1>0, <1>5, <2>1, SelectPriorsBase, TaskKept
<1>6. CASE DeactivatePriors(j)
  <2>1. born' = born
    BY <1>6 DEF DeactivatePriors
  <2> QED
    BY <1>0, <1>6, <2>1, DeactivatePriorsBase, TaskKept
<1>7. CASE DeactivateFails(j)
  <2>1. born' = born
    BY <1>7 DEF DeactivateFails
  <2> QED
    BY <1>0, <1>7, <2>1, DeactivateFailsBase, TaskKept
<1>8. CASE PullFails(j) \/ CrashJob(j)
  <2>1. born' = born
    BY <1>8 DEF PullFails, CrashJob
  <2> QED
    BY <1>0, <1>8, <2>1, TaskLost, TaskKept
<1>9. CASE CreateBaseModel(j)
  <2>1. born' = born
    BY <1>9 DEF CreateBaseModel
  <2> QED
    BY <1>0, <1>9, <2>1, CreateBaseModelBase, TaskKept
<1> QED
  BY <1>1, <1>2, <1>3, <1>4, <1>5, <1>6, <1>7, <1>8, <1>9,
     AllocateKept, InsertRowKept, SelectStaleKept, PruneKept DEF JobStep

LEMMA RequestStepKept ==
  ASSUME NumberInv, NEW h \in Handler,
         \/ HandlerStep(h) \/ BeginSwitch(h) \/ CheckTrigger(h)
         \/ \E i \in Id : BeginRollback(h, i)
  PROVE  NumberInv'
<1>0. BaseInv
  BY DEF NumberInv
<1>1. CASE BeginSwitch(h) \/ CheckTrigger(h) \/ \E i \in Id : BeginRollback(h, i)
  <2>1. job' = job /\ rows' = rows /\ created' = created /\ born' = born
    BY <1>1 DEF BeginSwitch, CheckTrigger, BeginRollback
  <2> QED
    BY <1>0, <1>1, <2>1, BeginSwitchBase, CheckTriggerBase, BeginRollbackBase, RequestKept
<1>2. CASE FinishRollback(h)
  <2>1. born' = born
    BY <1>2 DEF FinishRollback
  <2> QED
    BY <1>0, <1>2, <2>1, FinishRollbackBase, RequestKept
<1>3. CASE SwitchFails(h) \/ NoteTrigger(h)
  <2>1. job' = job /\ rows' = rows /\ created' = created /\ born' = born
    BY <1>3 DEF SwitchFails, NoteTrigger, FinishTrigger
  <2> QED
    BY <1>0, <1>3, <2>1, SwitchFailsBase, NoteTriggerBase, RequestKept
<1>4. ASSUME NEW j \in Job, FinishSwitch(h, j) PROVE NumberInv'
  <2>1. born' = born
    BY <1>4 DEF FinishSwitch
  <2> QED
    BY <1>0, <1>4, <2>1, FinishSwitchBase, TaskKept
<1>5. ASSUME NEW j \in Job, FireTrigger(h, j) PROVE NumberInv'
  <2>1. born' = born
    BY <1>5 DEF FireTrigger, FinishTrigger
  <2> QED
    BY <1>0, <1>5, <2>1, FireTriggerBase, TaskKept
<1> QED
  BY <1>1, <1>2, <1>3, <1>4, <1>5 DEF HandlerStep

LEMMA QuietBase ==
  ASSUME BaseInv, OwnerMessage \/ UNCHANGED vars
  PROVE  BaseInv' /\ UNCHANGED <<rows, created, job, handler, born, alone, tangled>>
<1>1. CASE OwnerMessage
  BY <1>1, OwnerMessageBase DEF OwnerMessage
<1>2. CASE UNCHANGED vars
  BY <1>2 DEF vars, BaseInv, CoreType, RoomLeft, JobsPlaced, Placed, OwnRow, Totals,
              Present, Unplaced, Open
<1> QED
  BY <1>1, <1>2

LEMMA BaseInitial == Init => BaseInv /\ Present = {}
<1> SUFFICES ASSUME Init PROVE BaseInv /\ Present = {}
  OBVIOUS
<1>1. Present = {} /\ Unplaced = {}
  BY DEF Init, Present, Unplaced, Open
<1>2. RoomLeft
  BY <1>1, FS_EmptySet, FineTuneAssumption DEF Init, RoomLeft
<1>3. CoreType
  BY <1>1, FineTuneAssumption DEF Init, CoreType
<1> QED
  BY <1>1, <1>2, <1>3 DEF Init, BaseInv, JobsPlaced, OwnRow, Totals, Open

LEMMA NumberInitial == Init => NumberInv
<1> SUFFICES ASSUME Init PROVE NumberInv
  OBVIOUS
<1>1. BaseInv /\ Present = {}
  BY BaseInitial
<1>2. Inserted = {} /\ Deleted = {} /\ Doomed = {}
  BY FineTuneAssumption DEF Init, Inserted, Deleted, Doomed, Open, Id
<1>3. BornTyped /\ BornRows /\ Bounded
  BY <1>1, <1>2 DEF Init, BornTyped, BornRows, Bounded
<1> QED
  BY <1>1, <1>2, <1>3 DEF Init, NumberInv, NumbersFresh, VersionsAscend, Open

LEMMA NumberStep == NumberInv /\ [Next]_vars => NumberInv'
<1> SUFFICES ASSUME NumberInv, [Next]_vars PROVE NumberInv'
  OBVIOUS
<1>1. CASE OwnerMessage \/ UNCHANGED vars
  <2>1. BaseInv' /\ UNCHANGED <<rows, created, job, handler, born, alone, tangled>>
    BY <1>1, QuietBase DEF NumberInv
  <2> QED
    BY <2>1, RequestKept
<1> QED
  BY <1>1, JobStepKept, RequestStepKept DEF Next

\* However jobs, prunes and rollbacks overlap and die, a version is deleted only where Keep
\* others, none of them older, stay, or were deleted as the twin of another
\* (_prune_old_versions, "Keep only the last N completed versions, delete the rest").
THEOREM PrunesKeepNewest == Spec => []PruneKeepsNewest
BY NumberInitial, NumberStep, NumberPrune, PTL DEF Spec

-----------------------------------------------------------------------------
(***************************************************************************)
(* The flags: whoever sets one has seen its row completed.                 *)
(***************************************************************************)
Targets == \A h \in Handler : handler[h] # None /\ handler[h].op = "rollback" => handler[h].target \in Past

FlagInv == NumberInv /\ Active \subseteq Completed /\ Targets

LEMMA FlagsKept ==
  ASSUME FlagInv, NumberInv', Grows,
         \A i \in Id : rows'[i] # None /\ rows'[i].active => rows'[i].status = "completed",
         \A h \in Handler : handler'[h] # None /\ handler'[h].op = "rollback" =>
                              handler'[h] = handler[h] \/ handler'[h].target \in Completed
  PROVE  FlagInv'
<1>1. Active' \subseteq Completed'
  BY DEF Active, Completed, Present
<1>2. Targets'
  BY DEF Targets, FlagInv, Grows, Past
<1> QED
  BY <1>1, <1>2 DEF FlagInv

\* A step that deletes rows or clears flags.
LEMMA FlagsStay ==
  ASSUME FlagInv, NumberInv', Goes,
         \A i \in Id : rows'[i] # None /\ rows'[i].active => rows[i].active,
         \A h \in Handler : handler'[h] # None => handler'[h] = handler[h]
  PROVE  FlagInv'
<1>1. ASSUME NEW i \in Id, rows'[i] # None, rows'[i].active PROVE rows'[i].status = "completed"
  <2>1. rows[i] # None /\ i \in Active
    BY <1>1 DEF Goes, Active, Present
  <2> QED
    BY <1>1, <2>1 DEF FlagInv, Completed, Goes
<1> QED
  BY <1>1, GoesGrows, FlagsKept DEF FlagInv

LEMMA RowsGo ==
  ASSUME rows' = rows, created' = created, born' = born
  PROVE  Goes
BY DEF Goes

LEMMA JobStepFlags ==
  ASSUME FlagInv, NEW j \in Job, StartFineTune(j) \/ JobStep(j) \/ CrashJob(j)
  PROVE  FlagInv'
<1>0. BaseInv /\ NumberInv /\ NumberInv'
  BY JobStepKept DEF FlagInv, NumberInv
<1>1. handler' = handler
  BY DEF StartFineTune, CrashJob, JobStep, AllocateNumber, InsertRow, CreateModel, CreateModelFails,
         CompleteRow, SelectPriors, DeactivatePriors, DeactivateFails, SelectStale, Prune, PullFails,
         CreateBaseModel
<1>2. CASE \/ StartFineTune(j) \/ CrashJob(j) \/ AllocateNumber(j) \/ CreateModel(j) \/ SelectPriors(j)
           \/ DeactivateFails(j) \/ SelectStale(j) \/ PullFails(j) \/ CreateBaseModel(j)
  <2>1. rows' = rows /\ created' = created /\ born' = born
    BY <1>2 DEF StartFineTune, CrashJob, AllocateNumber, CreateModel, SelectPriors, DeactivateFails,
                SelectStale, PullFails, CreateBaseModel
  <2> QED
    BY <1>0, <1>1, <2>1, RowsGo, FlagsStay
<1>3. CASE InsertRow(j)
  <2>1. /\ created' = created + 1 /\ created' \in Id
        /\ rows'[created'].active = FALSE
        /\ \A i \in Id \ {created'} : rows'[i] = rows[i]
        /\ rows[created'] = None
    BY <1>0, <1>3, InsertedRow
  <2>2. born' = [born EXCEPT ![created + 1] = [num |-> job[j].num, seen |-> job[j].seen]]
    BY <1>3 DEF InsertRow
  <2>3. created \in Nat
    BY <1>0 DEF BaseInv, CoreType
  <2>4. ASSUME NEW i \in Inserted PROVE i \in Inserted' /\ i # created' /\ born'[i] = born[i]
    <3>1. i \in Id /\ i \in Nat /\ i <= created
      BY DEF Inserted, Id
    <3>2. i # created + 1 /\ i <= created + 1
      BY <2>3, <3>1
    <3> QED
      BY <1>0, <2>1, <2>2, <3>1, <3>2 DEF Inserted, NumberInv, BornTyped
  <2>5. Deleted \subseteq Deleted' /\ Completed \subseteq Completed'
    BY <2>1, <2>4 DEF Deleted, Completed, Present, Inserted
  <2>6. Grows
    BY <2>4, <2>5 DEF Grows, Past
  <2>7. \A i \in Id : rows'[i] # None /\ rows'[i].active => rows'[i].status = "completed"
    BY <2>1 DEF FlagInv, Active, Completed, Present
  <2> QED
    BY <1>0, <1>1, <2>6, <2>7, FlagsKept
<1>4. CASE CreateModelFails(j)
  <2>1. /\ created' = created /\ job[j].id \in Id /\ rows[job[j].id] # None
        /\ rows[job[j].id].status = "running" /\ rows'[job[j].id] # None
        /\ rows'[job[j].id].num = rows[job[j].id].num
        /\ rows'[job[j].id].active = rows[job[j].id].active
        /\ \A i \in Id \ {job[j].id} : rows'[i] = rows[i]
    BY <1>0, <1>4, CreateModelFailsBase
  <2>2. born' = born
    BY <1>4 DEF CreateModelFails
  <2>3. Goes
    BY <2>1, <2>2 DEF Goes
  <2> QED
    BY <1>0, <1>1, <2>1, <2>3, FlagsStay
<1>5. CASE CompleteRow(j)
  <2>1. /\ created' = created /\ job[j].id \in Id /\ rows[job[j].id] # None
        /\ rows'[job[j].id] # None /\ rows'[job[j].id].status = "completed"
        /\ rows'[job[j].id].num = rows[job[j].id].num /\ \A i \in Id \ {job[j].id} : rows'[i] = rows[i]
    BY <1>0, <1>5, CompleteRowBase
  <2>2. born' = born
    BY <1>5 DEF CompleteRow
  <2>3. Grows
    <3>1. Goes
      BY <2>1, <2>2 DEF Goes
    <3> QED
      BY <1>0, <3>1, GoesGrows
  <2>4. \A i \in Id : rows'[i] # None /\ rows'[i].active => rows'[i].status = "completed"
    BY <2>1 DEF FlagInv, Active, Completed, Present
  <2> QED
    BY <1>0, <1>1, <2>3, <2>4, FlagsKept
<1>6. CASE DeactivatePriors(j)
  <2>1. /\ created' = created
        /\ \A i \in Id : /\ rows'[i] = None <=> rows[i] = None
                         /\ rows[i] # None => /\ rows'[i].num = rows[i].num
                                              /\ rows'[i].status = rows[i].status
                                              /\ rows'[i].active = IF i \in job[j].set THEN FALSE ELSE rows[i].active
    BY <1>0, <1>6, DeactivatePriorsBase
  <2>2. born' = born
    BY <1>6 DEF DeactivatePriors
  <2>3. Goes
    BY <2>1, <2>2 DEF Goes
  <2>4. \A i \in Id : rows'[i] # None /\ rows'[i].active => rows[i].active
    BY <2>1
  <2> QED
    BY <1>0, <1>1, <2>3, <2>4, FlagsStay
<1>7. CASE Prune(j)
  <2>1. /\ created' = created
        /\ \A i \in Id : rows'[i] = IF i \in job[j].set THEN None ELSE rows[i]
    BY <1>0, <1>7, PruneBase
  <2>2. born' = born
    BY <1>7 DEF Prune
  <2>3. Goes
    BY <2>1, <2>2 DEF Goes
  <2> QED
    BY <1>0, <1>1, <2>1, <2>3, FlagsStay
<1> QED
  BY <1>2, <1>3, <1>4, <1>5, <1>6, <1>7 DEF JobStep

LEMMA RequestStepFlags ==
  ASSUME FlagInv, NEW h \in Handler,
         \/ HandlerStep(h) \/ BeginSwitch(h) \/ CheckTrigger(h)
         \/ \E i \in Id : BeginRollback(h, i)
  PROVE  FlagInv'
<1>0. BaseInv /\ NumberInv /\ NumberInv'
  BY RequestStepKept DEF FlagInv, NumberInv
<1>1. ASSUME NEW i \in Id, BeginRollback(h, i) PROVE FlagInv'
  <2>1. rows' = rows /\ created' = created /\ born' = born
    BY <1>1 DEF BeginRollback
  <2>2. i \in Completed /\ handler'[h].target = i /\ \A g \in Handler \ {h} : handler'[g] = handler[g]
    <3>1. PICK W : W = (Active \cup {i}) \ (Active \cap {i})
      OBVIOUS
    <3>2. /\ i \in Completed /\ handler'[h] = [op |-> "rollback", target |-> i, want |-> W]
          /\ \A g \in Handler \ {h} : handler'[g] = handler[g]
      BY <1>0, <1>1, <3>1, BeginRollbackBase, Zenon
    <3> QED
      BY <3>2
  <2>3. Grows
    BY <1>0, <2>1, RowsGo, GoesGrows
  <2>4. \A k \in Id : rows'[k] # None /\ rows'[k].active => rows'[k].status = "completed"
    BY <2>1 DEF FlagInv, Active, Completed, Present
  <2>5. \A g \in Handler : handler'[g] = handler[g] \/ handler'[g].target \in Completed
    BY <2>2
  <2> QED
    BY <1>0, <2>3, <2>4, <2>5, FlagsKept
<1>2. CASE BeginSwitch(h) \/ CheckTrigger(h)
  <2>1. rows' = rows /\ created' = created /\ born' = born
    BY <1>2 DEF BeginSwitch, CheckTrigger
  <2>2. handler'[h].op # "rollback" /\ \A g \in Handler \ {h} : handler'[g] = handler[g]
    BY <1>0, <1>2, BeginSwitchBase, CheckTriggerBase
  <2>3. Grows
    BY <1>0, <2>1, RowsGo, GoesGrows
  <2>4. \A k \in Id : rows'[k] # None /\ rows'[k].active => rows'[k].status = "completed"
    BY <2>1 DEF FlagInv, Active, Completed, Present
  <2> QED
    BY <1>0, <2>2, <2>3, <2>4, FlagsKept
<1>3. CASE \/ SwitchFails(h) \/ NoteTrigger(h) \/ \E j \in Job : FireTrigger(h, j)
  <2>1. rows' = rows /\ created' = created /\ born' = born
    BY <1>3 DEF SwitchFails, NoteTrigger, FireTrigger, FinishTrigger
  <2>2. handler'[h] = None /\ \A g \in Handler \ {h} : handler'[g] = handler[g]
    BY <1>0, <1>3, SwitchFailsBase, NoteTriggerBase, FireTriggerBase
  <2> QED
    BY <1>0, <2>1, <2>2, RowsGo, FlagsStay
<1>4. ASSUME NEW j \in Job, FinishSwitch(h, j) PROVE FlagInv'
  <2>1. /\ created' = created
        /\ handler'[h] = None /\ \A g \in Handler \ {h} : handler'[g] = handler[g]
        /\ \A i \in Id : /\ rows'[i] = None <=> rows[i] = None
                         /\ rows[i] # None => /\ rows'[i].num = rows[i].num
                                              /\ rows'[i].status = rows[i].status
                                              /\ rows'[i].active = IF i \in handler[h].set THEN FALSE ELSE rows[i].active
    BY <1>0, <1>4, FinishSwitchBase
  <2>2. born' = born
    BY <1>4 DEF FinishSwitch
  <2>3. Goes
    BY <2>1, <2>2 DEF Goes
  <2>4. \A i \in Id : rows'[i] # None /\ rows'[i].active => rows[i].active
    BY <2>1
  <2> QED
    BY <1>0, <2>1, <2>3, <2>4, FlagsStay
<1>5. CASE FinishRollback(h)
  <2> DEFINE W == handler[h].want
             t == handler[h].target
  <2>1. /\ handler[h] # None /\ handler[h].op = "rollback" /\ created' = created
        /\ handler'[h] = None /\ \A g \in Handler \ {h} : handler'[g] = handler[g]
        /\ \A i \in Id : /\ rows'[i] = None <=> rows[i] = None
                         /\ rows[i] # None => /\ rows'[i].num = rows[i].num
                                              /\ rows'[i].status = rows[i].status
    BY <1>0, <1>5, FinishRollbackBase
  <2>2. born' = born /\ t \in Past
    BY <1>5, <2>1 DEF FinishRollback, FlagInv, Targets
  <2>3. Grows
    <3>1. Goes
      BY <2>1, <2>2 DEF Goes
    <3> QED
      BY <1>0, <3>1, GoesGrows
  <2>4. \A i \in Id : rows[i] # None /\ rows[i].active => rows[i].status = "completed"
    BY DEF FlagInv, Active, Completed, Present
  <2>5. rows[t] # None => rows[t].status = "completed"
    BY <2>2 DEF Past, Completed, Deleted
  <2>6. \A i \in Id : rows'[i] # None /\ rows'[i].active => rows[i].active \/ i = t
    <3>1. CASE UNCHANGED rows
      BY <3>1
    <3>2. CASE rows' = [i \in Id |-> IF i \in W /\ rows[i] # None
                                     THEN [rows[i] EXCEPT !.active = (i = t)] ELSE rows[i]]
      <4> SUFFICES ASSUME NEW i \in Id, rows'[i] # None, rows'[i].active, i # t PROVE rows[i].active
        OBVIOUS
      <4>1. CASE i \in W /\ rows[i] # None
        <5>1. rows'[i] = [rows[i] EXCEPT !.active = (i = t)]
          BY <3>2, <4>1
        <5>2. rows[i] \in Row
          BY <1>0, <4>1 DEF BaseInv, CoreType
        <5>3. rows'[i].active = (i = t)
          BY <5>1, <5>2, Zenon DEF Row
        <5> QED
          BY <5>3
      <4>2. CASE ~(i \in W /\ rows[i] # None)
        BY <3>2, <4>2
      <4> QED
        BY <4>1, <4>2
    <3>3. UNCHANGED rows \/ Activate(W, [i \in Id |-> i = t])
      BY <1>5 DEF FinishRollback
    <3>4. ASSUME Activate(W, [i \in Id |-> i = t])
          PROVE  rows' = [i \in Id |-> IF i \in W /\ rows[i] # None
                                       THEN [rows[i] EXCEPT !.active = (i = t)] ELSE rows[i]]
      BY <3>4, Zenon DEF Activate
    <3> QED
      BY <3>1, <3>2, <3>3, <3>4
  <2>7. \A i \in Id : rows'[i] # None /\ rows'[i].active => rows'[i].status = "completed"
    BY <2>1, <2>4, <2>5, <2>6
  <2> QED
    BY <1>0, <2>1, <2>3, <2>7, FlagsKept
<1> QED
  BY <1>1, <1>2, <1>3, <1>4, <1>5 DEF HandlerStep

LEMMA FlagStep == FlagInv /\ [Next]_vars => FlagInv'
<1> SUFFICES ASSUME FlagInv, [Next]_vars PROVE FlagInv'
  OBVIOUS
<1>1. CASE OwnerMessage \/ UNCHANGED vars
  <2>1. UNCHANGED <<rows, created, job, handler, born, alone, tangled>>
    BY <1>1, QuietBase DEF FlagInv, NumberInv
  <2>2. NumberInv'
    BY NumberStep DEF FlagInv
  <2> QED
    BY <2>1, <2>2, RowsGo, FlagsStay
<1> QED
  BY <1>1, JobStepFlags, RequestStepFlags DEF Next

LEMMA FlagInitial == Init => FlagInv
<1> SUFFICES ASSUME Init PROVE FlagInv
  OBVIOUS
<1>1. NumberInv /\ Present = {}
  BY NumberInitial, BaseInitial
<1> QED
  BY <1>1 DEF Init, FlagInv, Active, Targets

-----------------------------------------------------------------------------
(***************************************************************************)
(* Order: a job that has no company, whatever it found, leaves the         *)
(* versions settled, and what has no company keeps them so.                *)
(***************************************************************************)
Finishing == {"completed", "selected", "deactivated", "pruning"}

Single(S) == \A i, k \in S : i = k

Settled == Single(Active) /\ Cardinality(Completed) <= Keep

OneOpen ==
  /\ \A j, k \in Job : Open(j) /\ Open(k) => j = k
  /\ \A g, h \in Handler : handler[g] # None /\ handler[h] # None => g = h
  /\ \A j \in Job, h \in Handler : ~Open(j) \/ handler[h] = None

\* What a job has read or done is still so.
Progress(j) ==
  /\ job[j].pc = "selected" => job[j].set = Active \ {job[j].id}
  /\ job[j].pc \in {"deactivated", "pruning"} => Active \subseteq {job[j].id}
  /\ job[j].pc = "pruning" => job[j].set \subseteq Completed /\ Cardinality(Completed \ job[j].set) = Keep

\* What a request has read is still so.
Serves(h) ==
  /\ handler[h].op = "rollback" =>
       /\ handler[h].target \in Present
       /\ handler[h].want = (Active \cup {handler[h].target}) \ (Active \cap {handler[h].target})
  /\ handler[h].op = "switch" => handler[h].set = Active

NoneFinishing == \A j \in Job : Open(j) => job[j].pc \notin Finishing

AloneInv ==
  /\ OneOpen
  /\ \A j \in Job : Open(j) => Progress(j)
  /\ \A h \in Handler : handler[h] # None => Serves(h)

OrderInv ==
  /\ BaseInv
  /\ ~tangled => alone
  /\ alone => AloneInv
  /\ ~tangled /\ NoneFinishing => Settled

\* A step of a task or a request that has company, or a death.
LEMMA Tangles ==
  ASSUME OrderInv, BaseInv', tangled', ~alone'
  PROVE  OrderInv'
BY DEF OrderInv

LEMMA RowsSame ==
  ASSUME rows' = rows
  PROVE  Present' = Present /\ Completed' = Completed /\ Active' = Active /\ (Settled <=> Settled')
<1>1. Present' = Present /\ Completed' = Completed /\ Active' = Active
  BY DEF Present, Completed, Active
<1> QED
  BY <1>1 DEF Settled

\* A step after which at most task j is open.
LEMMA JobLeft ==
  ASSUME BaseInv', NEW j \in Job, alone',
         \A k \in Job : job'[k] # None => k = j,
         \A h \in Handler : handler'[h] = None,
         job'[j] # None => Progress(j)',
         ~tangled' /\ (job'[j] = None \/ job'[j].pc \notin Finishing) => Settled'
  PROVE  OrderInv'
<1>1. OneOpen'
  BY DEF OneOpen, Open
<1>2. \A k \in Job : job'[k] # None => Progress(k)'
  OBVIOUS
<1>3. NoneFinishing' => job'[j] = None \/ job'[j].pc \notin Finishing
  BY DEF NoneFinishing, Open
<1> QED
  BY <1>1, <1>2, <1>3 DEF OrderInv, AloneInv, Open

\* A step after which at most request h is open.
LEMMA RequestLeft ==
  ASSUME BaseInv', NEW h \in Handler, alone', ~tangled' => Settled',
         \A k \in Job : job'[k] = None,
         \A g \in Handler : handler'[g] # None => g = h,
         handler'[h] # None => Serves(h)'
  PROVE  OrderInv'
<1>1. OneOpen'
  BY DEF OneOpen, Open
<1>2. \A g \in Handler : handler'[g] # None => Serves(g)'
  OBVIOUS
<1> QED
  BY <1>1, <1>2 DEF OrderInv, AloneInv, Open

LEMMA TaskAlone ==
  ASSUME OrderInv, alone, NEW j \in Job, Open(j)
  PROVE  /\ \A k \in Job : Open(k) => k = j
         /\ \A h \in Handler : handler[h] = None
         /\ Progress(j)
         /\ ~tangled /\ job[j].pc \notin Finishing => Settled
<1>1. (\A k \in Job : Open(k) => k = j) /\ (\A h \in Handler : handler[h] = None) /\ Progress(j)
  BY DEF OrderInv, AloneInv, OneOpen
<1>2. job[j].pc \notin Finishing => NoneFinishing
  BY <1>1 DEF NoneFinishing
<1> QED
  BY <1>1, <1>2 DEF OrderInv

LEMMA RequestAlone ==
  ASSUME OrderInv, alone, NEW h \in Handler, handler[h] # None
  PROVE  /\ \A k \in Job : job[k] = None
         /\ \A g \in Handler : handler[g] # None => g = h
         /\ Serves(h)
         /\ ~tangled => Settled
BY DEF OrderInv, AloneInv, OneOpen, Open, NoneFinishing

LEMMA IdleSettled ==
  ASSUME OrderInv, Idle
  PROVE  /\ \A k \in Job : job[k] = None
         /\ \A g \in Handler : handler[g] = None
         /\ ~tangled => Settled
BY DEF OrderInv, Idle, NoneFinishing, Open

\* A step of a task that has no company.
LEMMA TaskSteps ==
  ASSUME OrderInv, NEW j \in Job, Open(j), JobStep(j), BaseInv',
         \A k \in Job \ {j} : job'[k] = job[k],
         alone => (job'[j] # None => Progress(j)'),
         alone /\ ~tangled' /\ (job'[j] = None \/ job'[j].pc \notin Finishing) => Settled'
  PROVE  OrderInv'
<1>1. handler' = handler /\ alone' = alone /\ (tangled' = tangled \/ tangled' = (tangled /\ ~alone))
  BY DEF JobStep, AllocateNumber, InsertRow, CreateModel, CreateModelFails, CompleteRow, SelectPriors,
         DeactivatePriors, DeactivateFails, SelectStale, Prune, PullFails, CreateBaseModel, PutInOrder
<1>2. CASE alone
  <2>1. (\A k \in Job : Open(k) => k = j) /\ \A h \in Handler : handler[h] = None
    BY <1>2, TaskAlone
  <2> QED
    BY <1>1, <1>2, <2>1, JobLeft DEF Open
<1>3. CASE ~alone
  BY <1>1, <1>3, Tangles DEF OrderInv
<1> QED
  BY <1>2, <1>3

\* A task's step before its version is complete, or one that ends it there.
LEMMA EarlyOrder ==
  ASSUME OrderInv, NEW j \in Job,
         \/ AllocateNumber(j) \/ InsertRow(j) \/ CreateModel(j) \/ CreateModelFails(j)
         \/ PullFails(j) \/ CreateBaseModel(j),
         Top
  PROVE  OrderInv'
<1>0. BaseInv /\ JobStep(j)
  BY DEF OrderInv, JobStep
<1>1. tangled' = tangled
  BY DEF AllocateNumber, InsertRow, CreateModel, CreateModelFails, PullFails, CreateBaseModel
<1>2. ASSUME Open(j), job[j].pc \notin Finishing, BaseInv', Active' = Active, Completed' = Completed,
             \A k \in Job \ {j} : job'[k] = job[k],
             job'[j] # None => job'[j].pc \notin Finishing
      PROVE  OrderInv'
  <2>1. Settled <=> Settled'
    BY <1>2 DEF Settled
  <2>2. job'[j] # None => Progress(j)'
    BY <1>2 DEF Progress, Finishing
  <2>3. alone /\ ~tangled => Settled
    BY <1>2, TaskAlone
  <2> QED
    BY <1>0, <1>1, <1>2, <2>1, <2>2, <2>3, TaskSteps
<1>3. CASE AllocateNumber(j)
  BY <1>0, <1>2, <1>3, AllocateNumberBase, RowsSame DEF Finishing
<1>4. CASE CreateModel(j)
  BY <1>0, <1>2, <1>4, CreateModelBase, RowsSame DEF Finishing
<1>5. CASE PullFails(j)
  <2>1. job[j].pc = "pulling"
    BY <1>5 DEF PullFails, At
  <2> QED
    BY <1>0, <1>2, <1>5, <2>1, TaskLost, RowsSame DEF Finishing
<1>6. CASE CreateBaseModel(j)
  BY <1>0, <1>2, <1>6, CreateBaseModelBase, RowsSame DEF Finishing
<1>7. CASE InsertRow(j)
  <2> DEFINE n == created'
  <2>1. /\ BaseInv' /\ n \in Id
        /\ rows'[n] # None /\ rows'[n].status = "running" /\ rows'[n].active = FALSE
        /\ \A i \in Id \ {n} : rows'[i] = rows[i]
        /\ rows[n] = None
        /\ job'[j] # None /\ job'[j].pc = "training"
        /\ \A k \in Job \ {j} : job'[k] = job[k]
    BY <1>0, <1>7, InsertedRow
  <2>2. Completed' = Completed /\ Active' = Active
    BY <2>1 DEF Completed, Active, Present
  <2>3. Open(j) /\ job[j].pc = "numbered"
    BY <1>7 DEF InsertRow, At, Open
  <2> QED
    BY <1>2, <2>1, <2>2, <2>3 DEF Finishing
<1>8. CASE CreateModelFails(j)
  <2> DEFINE x == job[j].id
  <2>1. /\ BaseInv' /\ job' = [job EXCEPT ![j] = None] /\ Open(j) /\ job[j].pc = "training"
        /\ x \in Id /\ rows[x] # None
        /\ rows[x].status = "running" /\ rows'[x] # None
        /\ rows'[x].active = rows[x].active
        /\ rows'[x].status = "failed" /\ \A i \in Id \ {x} : rows'[i] = rows[i]
    BY <1>0, <1>8, CreateModelFailsBase
  <2>2. job'[j] = None /\ \A k \in Job \ {j} : job'[k] = job[k]
    BY <1>0, <2>1 DEF BaseInv, CoreType
  <2>3. \A i \in Id : /\ rows'[i] = None <=> rows[i] = None
                      /\ rows'[i].status = "completed" <=> rows[i].status = "completed"
                      /\ rows'[i].active <=> rows[i].active
    BY <2>1
  <2>4. Completed' = Completed /\ Active' = Active
    BY <2>3, Zenon DEF Completed, Active, Present
  <2> QED
    BY <1>2, <2>1, <2>2, <2>4 DEF Finishing
<1> QED
  BY <1>3, <1>4, <1>5, <1>6, <1>7, <1>8

LEMMA CompletedFinite ==
  IsFiniteSet(Completed) /\ Cardinality(Completed) \in Nat /\ IsFiniteSet(Active) /\ Cardinality(Active) \in Nat
<1>1. Completed \in SUBSET Id /\ Active \in SUBSET Id
  BY DEF Completed, Active, Present
<1> QED
  BY <1>1, IdsFinite

LEMMA FinishOrder ==
  ASSUME OrderInv, NEW j \in Job, CompleteRow(j) \/ SelectPriors(j) \/ DeactivatePriors(j)
  PROVE  OrderInv'
<1>0. BaseInv /\ JobStep(j)
  BY DEF OrderInv, JobStep
<1>1. ASSUME Open(j), BaseInv', \A k \in Job \ {j} : job'[k] = job[k], job'[j] # None, job'[j].pc \in Finishing,
             alone => Progress(j)'
      PROVE  OrderInv'
  BY <1>0, <1>1, TaskSteps
<1>2. CASE CompleteRow(j)
  BY <1>0, <1>1, <1>2, CompleteRowBase DEF Progress, Finishing
<1>3. CASE SelectPriors(j)
  <2>1. /\ BaseInv' /\ Open(j) /\ job'[j] # None /\ job'[j].pc = "selected" /\ job'[j].id = job[j].id
        /\ job'[j].set = Active \ {job[j].id} /\ Active' = Active
        /\ \A k \in Job \ {j} : job'[k] = job[k]
    BY <1>0, <1>3, SelectPriorsBase, RowsSame
  <2>2. Progress(j)'
    BY <2>1 DEF Progress
  <2> QED
    BY <1>1, <2>1, <2>2 DEF Finishing
<1>4. CASE DeactivatePriors(j)
  <2> DEFINE x == job[j].id
             S == job[j].set
  <2>1. /\ BaseInv' /\ Open(j) /\ job[j].pc = "selected"
        /\ job'[j] # None /\ job'[j].pc = "deactivated" /\ job'[j].id = x
        /\ \A k \in Job \ {j} : job'[k] = job[k]
        /\ \A i \in Id : /\ rows'[i] = None <=> rows[i] = None
                         /\ rows[i] # None => rows'[i].active = IF i \in S THEN FALSE ELSE rows[i].active
    BY <1>0, <1>4, DeactivatePriorsBase
  <2>2. ASSUME alone PROVE Active' \subseteq {x}
    <3>1. S = Active \ {x}
      BY <2>1, <2>2, TaskAlone DEF Progress
    <3> SUFFICES ASSUME NEW i \in Id, rows'[i] # None, rows'[i].active PROVE i = x
      BY DEF Active, Present
    <3>2. i \notin S /\ rows[i] # None
      BY <2>1
    <3>3. i \in Active
      BY <2>1, <3>2 DEF Active, Present
    <3> QED
      BY <3>1, <3>2, <3>3
  <2>3. alone => Progress(j)'
    BY <2>1, <2>2 DEF Progress
  <2> QED
    BY <1>1, <2>1, <2>3 DEF Finishing
<1> QED
  BY <1>2, <1>3, <1>4

\* Alone, no prior version can have gone.
LEMMA DeactivateFailsOrder ==
  ASSUME OrderInv, NEW j \in Job, DeactivateFails(j)
  PROVE  OrderInv'
<1>0. BaseInv /\ JobStep(j)
  BY DEF OrderInv, JobStep
<1>1. /\ BaseInv' /\ Open(j) /\ job[j].pc = "selected" /\ Gone(job[j].set)
      /\ job'[j] = None /\ \A k \in Job \ {j} : job'[k] = job[k]
  BY <1>0, DeactivateFailsBase
<1>2. ~alone
  <2> SUFFICES ASSUME alone PROVE FALSE
    OBVIOUS
  <2>1. job[j].set \subseteq Active
    BY <1>1, TaskAlone DEF Progress
  <2> QED
    BY <1>1, <2>1 DEF Gone, Active, Present
<1> QED
  BY <1>0, <1>1, <1>2, TaskSteps

LEMMA SelectStaleOrder ==
  ASSUME OrderInv, NEW j \in Job, SelectStale(j)
  PROVE  OrderInv'
<1>0. BaseInv /\ JobStep(j)
  BY DEF OrderInv, JobStep
<1>1. /\ BaseInv' /\ Open(j) /\ job[j].pc = "deactivated" /\ rows' = rows
      /\ \A k \in Job \ {j} : job'[k] = job[k]
      /\ \/ job'[j] = None /\ Cardinality(Completed) <= Keep
         \/ \E kept \in SUBSET Completed :
              /\ Newest(kept) /\ job'[j] # None /\ job'[j].pc = "pruning"
              /\ job'[j].set = Completed \ kept /\ job'[j].id = job[j].id
  BY <1>0, SelectStaleBase
<1>2. Completed' = Completed /\ Active' = Active
  BY <1>1, RowsSame
<1>3. alone => Active \subseteq {job[j].id}
  BY <1>1, TaskAlone DEF Progress
<1>4. CASE job'[j] = None /\ Cardinality(Completed) <= Keep
  <2>1. alone => Settled'
    BY <1>2, <1>3, <1>4 DEF Settled, Single
  <2> QED
    BY <1>0, <1>1, <1>4, <2>1, TaskSteps
<1>5. ASSUME NEW kept \in SUBSET Completed,
             Newest(kept), job'[j] # None, job'[j].pc = "pruning", job'[j].set = Completed \ kept,
             job'[j].id = job[j].id
      PROVE  OrderInv'
  <2>1. Completed \ (Completed \ kept) = kept /\ Cardinality(kept) = Keep
    BY <1>5 DEF Newest
  <2>2. alone => Progress(j)'
    BY <1>2, <1>3, <1>5, <2>1 DEF Progress
  <2>3. job'[j].pc \in Finishing
    BY <1>5 DEF Finishing
  <2> QED
    BY <1>0, <1>1, <1>5, <2>2, <2>3, TaskSteps
<1> QED
  BY <1>1, <1>4, <1>5

LEMMA PruneOrder ==
  ASSUME OrderInv, NEW j \in Job, Prune(j)
  PROVE  OrderInv'
<1> DEFINE S == job[j].set
<1>0. BaseInv /\ JobStep(j)
  BY DEF OrderInv, JobStep
<1>1. /\ BaseInv' /\ Open(j) /\ job[j].pc = "pruning"
      /\ job' = [job EXCEPT ![j] = None]
      /\ \A i \in Id : rows'[i] = IF i \in S THEN None ELSE rows[i]
  BY <1>0, PruneBase
<1>2. job'[j] = None /\ \A k \in Job \ {j} : job'[k] = job[k]
  BY <1>0, <1>1 DEF BaseInv, CoreType
<1>3. ASSUME alone PROVE Settled'
  <2>1. Active \subseteq {job[j].id} /\ Cardinality(Completed \ S) = Keep
    BY <1>1, <1>3, TaskAlone DEF Progress
  <2>2. Completed' = Completed \ S /\ Active' \subseteq Active
    BY <1>1 DEF Completed, Active, Present
  <2> QED
    BY <2>1, <2>2, FineTuneAssumption DEF Settled, Single
<1> QED
  BY <1>0, <1>1, <1>2, <1>3, TaskSteps

LEMMA StartOrder ==
  ASSUME OrderInv, NEW j \in Job, StartFineTune(j)
  PROVE  OrderInv'
<1>1. BaseInv' /\ job'[j].pc = "queued" /\ \A k \in Job \ {j} : job'[k] = job[k]
  BY StartFineTuneBase DEF OrderInv
<1>2. rows' = rows /\ handler' = handler /\ alone' = Idle /\ tangled' = (tangled \/ ~Idle)
  BY DEF StartFineTune, Enter
<1>3. CASE Idle
  <2>1. (\A k \in Job : job[k] = None) /\ (\A g \in Handler : handler[g] = None) /\ (~tangled => Settled)
    BY <1>3, IdleSettled
  <2>2. Progress(j)' /\ (Settled <=> Settled')
    BY <1>1, <1>2, RowsSame DEF Progress
  <2> QED
    BY <1>1, <1>2, <1>3, <2>1, <2>2, JobLeft
<1>4. CASE ~Idle
  BY <1>1, <1>2, <1>4, Tangles
<1> QED
  BY <1>3, <1>4

LEMMA CrashOrder ==
  ASSUME OrderInv, NEW j \in Job, CrashJob(j)
  PROVE  OrderInv'
<1>1. BaseInv' /\ Open(j) /\ rows' = rows /\ job'[j] = None /\ \A k \in Job \ {j} : job'[k] = job[k]
  BY TaskLost DEF OrderInv
<1>2. handler' = handler /\ alone' = alone /\ tangled'
  BY DEF CrashJob
<1>3. CASE alone
  <2>1. (\A k \in Job : Open(k) => k = j) /\ \A h \in Handler : handler[h] = None
    BY <1>1, <1>3, TaskAlone
  <2> QED
    BY <1>1, <1>2, <1>3, <2>1, JobLeft DEF Open
<1>4. CASE ~alone
  BY <1>1, <1>2, <1>4, Tangles
<1> QED
  BY <1>3, <1>4

-----------------------------------------------------------------------------
LEMMA BeginOrder ==
  ASSUME OrderInv, NEW h \in Handler,
         BeginSwitch(h) \/ CheckTrigger(h) \/ \E i \in Id : BeginRollback(h, i)
  PROVE  OrderInv'
<1>0. BaseInv
  BY DEF OrderInv
<1>1. rows' = rows /\ job' = job /\ alone' = Idle /\ tangled' = (tangled \/ ~Idle)
  BY DEF BeginSwitch, CheckTrigger, BeginRollback, Enter
<1>2. Active' = Active /\ Completed' = Completed /\ Present' = Present /\ (Settled <=> Settled')
  BY <1>1, RowsSame
<1>3. ASSUME BaseInv', \A g \in Handler \ {h} : handler'[g] = handler[g], Serves(h)'
      PROVE  OrderInv'
  <2>1. CASE Idle
    <3>1. (\A k \in Job : job[k] = None) /\ (\A g \in Handler : handler[g] = None) /\ (~tangled => Settled)
      BY <2>1, IdleSettled
    <3> QED
      BY <1>1, <1>2, <1>3, <2>1, <3>1, RequestLeft
  <2>2. CASE ~Idle
    BY <1>1, <1>3, <2>2, Tangles
  <2> QED
    BY <2>1, <2>2
<1>4. CASE BeginSwitch(h)
  <2>1. /\ BaseInv' /\ handler'[h] = [op |-> "switch", set |-> Active]
        /\ \A g \in Handler \ {h} : handler'[g] = handler[g]
    BY <1>0, <1>4, BeginSwitchBase
  <2>2. Serves(h)'
    BY <1>2, <2>1 DEF Serves
  <2> QED
    BY <1>3, <2>1, <2>2
<1>5. CASE CheckTrigger(h)
  <2>1. /\ BaseInv' /\ handler'[h] = [op |-> "trigger", total |-> messages]
        /\ \A g \in Handler \ {h} : handler'[g] = handler[g]
    BY <1>0, <1>5, CheckTriggerBase
  <2>2. Serves(h)'
    BY <2>1 DEF Serves
  <2> QED
    BY <1>3, <2>1, <2>2
<1>6. ASSUME NEW target \in Id, BeginRollback(h, target) PROVE OrderInv'
  <2>1. /\ BaseInv' /\ target \in Completed
        /\ handler'[h] = [op |-> "rollback", target |-> target,
                          want |-> (Active \cup {target}) \ (Active \cap {target})]
        /\ \A g \in Handler \ {h} : handler'[g] = handler[g]
    BY <1>0, <1>6, BeginRollbackBase
  <2>2. Serves(h)'
    BY <1>2, <2>1 DEF Serves, Completed
  <2> QED
    BY <1>3, <2>1, <2>2
<1> QED
  BY <1>4, <1>5, <1>6

\* Nothing a rollback or switch read has changed, so its flags are those of one version, or none.
LEMMA FinishRollbackOrder ==
  ASSUME OrderInv, NEW h \in Handler, FinishRollback(h)
  PROVE  OrderInv'
<1> DEFINE t == handler[h].target
           W == handler[h].want
<1>1. /\ BaseInv' /\ handler[h] # None /\ handler[h].op = "rollback"
      /\ job' = job
      /\ handler'[h] = None /\ \A g \in Handler \ {h} : handler'[g] = handler[g]
      /\ \A i \in Id : /\ rows'[i] = None <=> rows[i] = None
                       /\ rows[i] # None => rows'[i].status = rows[i].status
      /\ ~Gone(W) =>
           \A i \in Id : rows[i] # None =>
             rows'[i].active = IF i \in W THEN i = t ELSE rows[i].active
  BY FinishRollbackBase DEF OrderInv
<1>2. alone' = alone /\ tangled' = tangled
  BY DEF FinishRollback
<1>3. CASE ~alone
  BY <1>1, <1>2, <1>3, Tangles DEF OrderInv
<1>4. CASE alone
  <2>1. /\ \A k \in Job : job[k] = None
        /\ \A g \in Handler : handler[g] # None => g = h
        /\ t \in Present /\ W = (Active \cup {t}) \ (Active \cap {t}) /\ (~tangled => Settled)
    BY <1>1, <1>4, RequestAlone DEF Serves
  <2>2. Completed' = Completed
    BY <1>1 DEF Completed, Present
  <2>3. ~Gone(W)
    BY <2>1 DEF Gone, Active, Present
  <2>4. Active' \subseteq {t}
    <3> SUFFICES ASSUME NEW i \in Id, rows'[i] # None, rows'[i].active, i # t PROVE FALSE
      BY DEF Active, Present
    <3>1. rows[i] # None /\ rows'[i].active = IF i \in W THEN i = t ELSE rows[i].active
      BY <1>1, <2>3
    <3>2. i \notin W
      BY <3>1
    <3>3. i \in Active
      BY <3>1, <3>2 DEF Active, Present
    <3> QED
      BY <2>1, <3>2, <3>3
  <2>5. Single(Active')
    BY <2>4 DEF Single
  <2>6. ~tangled => Settled'
    BY <2>1, <2>2, <2>5 DEF Settled
  <2> QED
    BY <1>1, <1>2, <1>4, <2>1, <2>6, RequestLeft
<1> QED
  BY <1>3, <1>4

LEMMA FinishSwitchOrder ==
  ASSUME OrderInv, NEW h \in Handler, NEW j \in Job, FinishSwitch(h, j)
  PROVE  OrderInv'
<1>1. /\ BaseInv' /\ handler[h] # None /\ handler[h].op = "switch" /\ job'[j].pc = "pulling"
      /\ \A k \in Job \ {j} : job'[k] = job[k]
      /\ handler'[h] = None /\ \A g \in Handler \ {h} : handler'[g] = handler[g]
      /\ \A i \in Id : /\ rows'[i] = None <=> rows[i] = None
                       /\ rows[i] # None => /\ rows'[i].status = rows[i].status
                                            /\ rows'[i].active = IF i \in handler[h].set THEN FALSE ELSE rows[i].active
  BY FinishSwitchBase DEF OrderInv
<1>2. alone' = alone /\ tangled' = tangled
  BY DEF FinishSwitch
<1>3. CASE ~alone
  BY <1>1, <1>2, <1>3, Tangles DEF OrderInv
<1>4. CASE alone
  <2>1. /\ \A k \in Job : job[k] = None
        /\ \A g \in Handler : handler[g] # None => g = h
        /\ handler[h].set = Active /\ (~tangled => Settled)
    BY <1>1, <1>4, RequestAlone DEF Serves
  <2>2. Completed' = Completed
    BY <1>1 DEF Completed, Present
  <2>3. Active' = {}
    <3> SUFFICES ASSUME NEW i \in Id, rows'[i] # None, rows'[i].active PROVE FALSE
      BY DEF Active, Present
    <3>1. rows[i] # None /\ rows'[i].active = IF i \in Active THEN FALSE ELSE rows[i].active
      BY <1>1, <2>1
    <3> QED
      BY <3>1 DEF Active, Present
  <2>4. ~tangled => Settled'
    BY <2>1, <2>2, <2>3 DEF Settled, Single
  <2>5. Progress(j)'
    BY <1>1 DEF Progress
  <2> QED
    BY <1>1, <1>2, <1>4, <2>1, <2>4, <2>5, JobLeft
<1> QED
  BY <1>3, <1>4

LEMMA TriggerOrder ==
  ASSUME OrderInv, NEW h \in Handler,
         SwitchFails(h) \/ NoteTrigger(h) \/ \E j \in Job : FireTrigger(h, j)
  PROVE  OrderInv'
<1>0. BaseInv
  BY DEF OrderInv
<1>1. rows' = rows /\ handler[h] # None /\ alone' = alone /\ tangled' = tangled
  BY DEF SwitchFails, NoteTrigger, FireTrigger, FinishTrigger
<1>2. BaseInv' /\ handler'[h] = None /\ \A g \in Handler \ {h} : handler'[g] = handler[g]
  BY <1>0, SwitchFailsBase, NoteTriggerBase, FireTriggerBase
<1>3. CASE ~alone
  BY <1>1, <1>2, <1>3, Tangles DEF OrderInv
<1>4. CASE alone
  <2>1. /\ \A k \in Job : job[k] = None
        /\ \A g \in Handler : handler[g] # None => g = h
        /\ (~tangled => Settled')
    BY <1>1, <1>4, RequestAlone, RowsSame
  <2>2. CASE SwitchFails(h) \/ NoteTrigger(h)
    <3>1. job' = job
      BY <2>2 DEF SwitchFails, NoteTrigger
    <3> QED
      BY <1>1, <1>2, <1>4, <2>1, <3>1, RequestLeft
  <2>3. ASSUME NEW j \in Job, FireTrigger(h, j) PROVE OrderInv'
    <3>1. job'[j].pc = "queued" /\ \A k \in Job \ {j} : job'[k] = job[k]
      BY <1>0, <2>3, FireTriggerBase
    <3>2. Progress(j)'
      BY <3>1 DEF Progress
    <3> QED
      BY <1>1, <1>2, <1>4, <2>1, <3>1, <3>2, JobLeft
  <2> QED
    BY <2>2, <2>3
<1> QED
  BY <1>3, <1>4

LEMMA QuietOrder ==
  ASSUME OrderInv, OwnerMessage \/ UNCHANGED vars
  PROVE  OrderInv'
<1>1. BaseInv' /\ UNCHANGED <<rows, created, job, handler, born, alone, tangled>>
  BY QuietBase DEF OrderInv
<1>2. Present' = Present /\ Completed' = Completed /\ Active' = Active
  BY <1>1, RowsSame
<1> QED
  BY <1>1, <1>2 DEF OrderInv, AloneInv, OneOpen, Open, Progress, Settled, Serves, NoneFinishing

LEMMA OrderInitial == Init => OrderInv
<1> SUFFICES ASSUME Init PROVE OrderInv
  OBVIOUS
<1>1. BaseInv /\ Present = {}
  BY BaseInitial
<1>2. Completed = {} /\ Active = {}
  BY <1>1 DEF Completed, Active
<1>3. Settled
  BY <1>2, FS_EmptySet, FineTuneAssumption DEF Settled, Single
<1> QED
  BY <1>1, <1>3 DEF Init, OrderInv, AloneInv, OneOpen, Open

LEMMA OrderStep == NumberInv /\ OrderInv /\ [Next]_vars => OrderInv'
<1> SUFFICES ASSUME NumberInv, OrderInv, [Next]_vars PROVE OrderInv'
  OBVIOUS
<1>0. Top
  BY TopIs
<1>1. ASSUME NEW j \in Job, JobStep(j) PROVE OrderInv'
  BY <1>0, <1>1, EarlyOrder, FinishOrder, DeactivateFailsOrder, SelectStaleOrder, PruneOrder DEF JobStep
<1>2. ASSUME NEW h \in Handler, HandlerStep(h) PROVE OrderInv'
  BY <1>2, FinishRollbackOrder, FinishSwitchOrder, TriggerOrder DEF HandlerStep
<1> QED
  BY <1>1, <1>2, CrashOrder, StartOrder, BeginOrder, QuietOrder DEF Next

\* The ghosts keep their types.
LEMMA GhostsTyped == (alone \in BOOLEAN /\ tangled \in BOOLEAN) /\ [Next]_vars => (alone \in BOOLEAN /\ tangled \in BOOLEAN)'
<1> SUFFICES ASSUME alone \in BOOLEAN, tangled \in BOOLEAN, [Next]_vars PROVE alone' \in BOOLEAN /\ tangled' \in BOOLEAN
  OBVIOUS
<1>1. ASSUME NEW j \in Job, StartFineTune(j) \/ JobStep(j) \/ CrashJob(j)
      PROVE  alone' \in BOOLEAN /\ tangled' \in BOOLEAN
  BY <1>1 DEF StartFineTune, CrashJob, JobStep, AllocateNumber, InsertRow, CreateModel, CreateModelFails,
         CompleteRow, SelectPriors, DeactivatePriors, DeactivateFails, SelectStale, Prune, PullFails,
         CreateBaseModel, Enter, PutInOrder, Idle
<1>2. ASSUME NEW h \in Handler, \/ HandlerStep(h) \/ BeginSwitch(h) \/ CheckTrigger(h)
                                \/ \E i \in Id : BeginRollback(h, i)
      PROVE  alone' \in BOOLEAN /\ tangled' \in BOOLEAN
  BY <1>2 DEF HandlerStep, BeginSwitch, CheckTrigger, BeginRollback, FinishRollback, SwitchFails, NoteTrigger,
         FinishSwitch, FireTrigger, FinishTrigger, Enter, Idle
<1> QED
  BY <1>1, <1>2 DEF Next, OwnerMessage, vars

LEMMA VersionsFollow ==
  ASSUME FlagInv, OrderInv, alone \in BOOLEAN, tangled \in BOOLEAN
  PROVE  VersionsInv
<1>1. NumberInv /\ BaseInv /\ CoreType
  BY DEF FlagInv, NumberInv, BaseInv
<1>2. TypeOK
  BY <1>1, PresentInserted DEF CoreType, TypeOK, NumberInv, BornTyped
<1>3. ASSUME Idle, ~tangled
      PROVE  Cardinality(Active) <= 1 /\ Cardinality(Completed) <= Keep
  <2>1. Single(Active) /\ Cardinality(Completed) <= Keep
    BY <1>3, IdleSettled DEF Settled
  <2>2. CASE Active = {}
    BY <2>1, <2>2, FS_EmptySet
  <2>3. ASSUME NEW i \in Active PROVE Cardinality(Active) <= 1
    <3>1. Active = {i}
      BY <2>1 DEF Single
    <3>2. Cardinality({i}) = 1
      BY FS_Singleton
    <3> QED
      BY <3>1, <3>2
  <2> QED
    BY <2>1, <2>2, <2>3
<1> QED
  BY <1>1, <1>2, <1>3 DEF VersionsInv, VersionsSettled, FlagInv, NumberInv

\* An active version is a completed one; a number is above those that were there when it was
\* computed, but for twins; and between jobs, rollbacks, switches and triggers one is active and
\* Keep completed ones are left at most, unless tasks overlapped or died since the last job that
\* ran to its end without company
\* (create_fine_tuned_model, rollback, model_switch, _prune_old_versions).
THEOREM VersionsKept == Spec => []VersionsInv
<1> DEFINE Everything == FlagInv /\ OrderInv /\ (alone \in BOOLEAN /\ tangled \in BOOLEAN)
<1>1. Init => Everything
  BY FlagInitial, OrderInitial DEF Init
<1>2. Everything /\ [Next]_vars => Everything'
  BY FlagStep, OrderStep, GhostsTyped DEF FlagInv
<1>3. Everything => VersionsInv
  BY VersionsFollow
<1> QED
  BY <1>1, <1>2, <1>3, PTL DEF Spec
=============================================================================
