--------------------------- MODULE ServicesProofs ---------------------------
(***************************************************************************)
(* What the services beside the conversations promise: the budget of the   *)
(* external models, the page monitors, the background loops, the owners'   *)
(* rows and the push notifications, for any number of requests, monitors,  *)
(* loops, rows and subscriptions.                                          *)
(***************************************************************************)
EXTENDS Budget, Browsing, Loops, Accounts, Push, FiniteSetTheorems, WellFoundedInduction, TLAPS

-----------------------------------------------------------------------------
(* Budget: BudgetSound for every number of queries at once, whatever they  *)
(* cost.                                                                   *)

QueryStates == [pc : {"idle", "provider", "record"}, read : Nat, cost : Nat]

BudgetType ==
  /\ limit \in Nat \cup {-1} /\ spent \in Nat /\ paid \in Nat
  /\ query \in [Queries -> QueryStates] /\ reset \in {"idle", "commit"}
  /\ hour \in Nat /\ wake \in Nat /\ hour <= wake
  /\ budgetLeft \in [{"query", "edit", "restart"} -> Nat] /\ budgetLeft["edit"] <= MaxEdit

\* A query under way was let in below the limit that still holds, and what it is about
\* to write costs what a query may cost.
LetIn ==
  \A q \in Queries :
    /\ budgetLeft["edit"] = MaxEdit /\ limit > 0 /\ query[q].pc # "idle" => query[q].read < limit
    /\ query[q].pc = "record" => query[q].cost \in Costs

\* The first hour of a month that the loop has passed, or will sleep through, is accounted
\* for; the hour itself, once its reset has ended.
HoursPassed ==
  \A h \in Nat : First(h) /\ h < wake /\ (h # hour \/ reset = "idle") => MonthOf(h) \in done \cup missed

BudgetInv == BudgetType /\ LetIn /\ SpentBounded /\ HoursPassed

\* The amount, whoever asks: what SpentBounded says of it.
AmountMoves(s, p, m) ==
  /\ spent' = s /\ paid' = p /\ mixed' = m /\ UNCHANGED limit
  /\ s \in Nat /\ p \in Nat /\ (~m => s = p)
  /\ budgetLeft["edit"] = MaxEdit /\ limit > 0 =>
       \A c \in Costs : (\A d \in Costs : d <= c) => s < limit + c

LEMMA LeftIs ==
  /\ budgetLeft.edit = budgetLeft["edit"] /\ budgetLeft'.edit = budgetLeft'["edit"]
OBVIOUS

LEMMA BudgetInitial == BudgetInit => BudgetInv
<1> SUFFICES ASSUME BudgetInit PROVE BudgetInv
  OBVIOUS
<1>1. BudgetType
  BY BudgetAssumption DEF BudgetInit, BudgetType, NoQuery, QueryStates
<1>2. LetIn
  BY DEF BudgetInit, LetIn, NoQuery
<1>3. SpentBounded
  BY BudgetAssumption DEF BudgetInit, SpentBounded
<1>4. HoursPassed
  <2>1. ASSUME NEW h \in Nat, h < 1 PROVE MonthOf(h) = 0
    <3>1. h = 0 /\ 0 \div Month = 0
      BY <2>1, BudgetAssumption
    <3> QED BY <3>1 DEF MonthOf
  <2> QED BY <2>1 DEF BudgetInit, HoursPassed
<1> QED BY <1>1, <1>2, <1>3, <1>4 DEF BudgetInv

\* A step of the queries: the clock stands still.
LEMMA QueryMoves ==
  ASSUME BudgetInv, NEW q \in Queries, NEW w \in QueryStates, query' = [query EXCEPT ![q] = w],
         UNCHANGED Clock, NEW s, NEW p, NEW m, AmountMoves(s, p, m),
         budgetLeft' \in [{"query", "edit", "restart"} -> Nat],
         budgetLeft'["edit"] = budgetLeft["edit"],
         budgetLeft["edit"] = MaxEdit /\ limit > 0 /\ w.pc # "idle" => w.read < limit,
         w.pc = "record" => w.cost \in Costs
  PROVE  BudgetInv'
<1>1. UNCHANGED <<hour, wake, reset, missed, done>>
  BY DEF Clock
<1>2. BudgetType'
  BY <1>1 DEF BudgetInv, BudgetType, AmountMoves
<1>3. LetIn'
  BY DEF BudgetInv, BudgetType, LetIn, AmountMoves
<1>4. SpentBounded'
  BY LeftIs DEF SpentBounded, AmountMoves
<1>5. HoursPassed'
  BY <1>1 DEF BudgetInv, HoursPassed
<1> QED BY <1>2, <1>3, <1>4, <1>5 DEF BudgetInv

LEMMA AmountRests ==
  ASSUME BudgetInv, UNCHANGED <<limit, spent, paid, mixed>>
  PROVE  AmountMoves(spent, paid, mixed)
BY LeftIs DEF BudgetInv, BudgetType, SpentBounded, AmountMoves

Answered(r, c) == [r EXCEPT !.pc = "record", !.cost = c]

LEMMA Querying ==
  ASSUME BudgetInv, NEW q \in Queries, BeginQuery(q) \/ CallProvider(q) \/ RecordUsage(q)
  PROVE  BudgetInv'
<1>0. /\ query \in [Queries -> QueryStates] /\ query[q] \in QueryStates
      /\ spent \in Nat /\ paid \in Nat /\ limit \in Nat \cup {-1}
      /\ budgetLeft \in [{"query", "edit", "restart"} -> Nat]
  BY DEF BudgetInv, BudgetType
<1>1. CASE BeginQuery(q)
  <2> DEFINE w == [pc |-> "provider", read |-> spent, cost |-> 0]
  <2>1. /\ query' = [query EXCEPT ![q] = w] /\ Within(spent) /\ UNCHANGED <<limit, spent, paid, mixed, Clock>>
        /\ budgetLeft["query"] > 0 /\ budgetLeft' = [budgetLeft EXCEPT !["query"] = @ - 1]
    BY <1>1 DEF BeginQuery, Use
  <2>2. w \in QueryStates /\ w.pc = "provider" /\ w.read = spent
    BY <1>0 DEF QueryStates
  <2>3. limit > 0 => w.read < limit
    BY <2>1, <2>2 DEF Within
  <2>4. /\ budgetLeft' \in [{"query", "edit", "restart"} -> Nat]
        /\ budgetLeft'["edit"] = budgetLeft["edit"]
    BY <1>0, <2>1
  <2> HIDE DEF w
  <2>5. AmountMoves(spent, paid, mixed)
    BY <2>1, AmountRests
  <2> QED BY <2>1, <2>2, <2>3, <2>4, <2>5, QueryMoves
<1>2. CASE CallProvider(q)
  <2>0. /\ UNCHANGED <<limit, spent, paid, mixed, Clock, budgetLeft>> /\ query[q].pc = "provider"
        /\ AmountMoves(spent, paid, mixed)
    BY <1>2, AmountRests DEF CallProvider
  <2>1. CASE query' = [query EXCEPT ![q] = NoQuery]
    <3>1. NoQuery \in QueryStates /\ NoQuery.pc = "idle"
      BY DEF NoQuery, QueryStates
    <3> QED BY <1>0, <2>0, <2>1, <3>1, QueryMoves
  <2>2. ASSUME NEW c \in Costs, query' = [query EXCEPT ![q] = Answered(query[q], c)]
        PROVE  BudgetInv'
    <3> DEFINE w == Answered(query[q], c)
    <3>1. c \in Nat
      BY BudgetAssumption
    <3>2. w \in QueryStates /\ w.pc = "record" /\ w.cost = c /\ w.read = query[q].read
      BY <1>0, <3>1 DEF Answered, QueryStates
    <3>3. budgetLeft["edit"] = MaxEdit /\ limit > 0 => w.read < limit
      BY <2>0, <3>2 DEF BudgetInv, LetIn
    <3>4. query' = [query EXCEPT ![q] = w]
      BY <2>2
    <3> HIDE DEF w
    <3> QED BY <1>0, <2>0, <3>2, <3>3, <3>4, QueryMoves
  <2>3. \/ query' = [query EXCEPT ![q] = NoQuery]
        \/ \E c \in Costs : query' = [query EXCEPT ![q] = Answered(query[q], c)]
    BY Zenon, <1>2 DEF CallProvider, Answered
  <2> QED BY <2>1, <2>2, <2>3
<1>3. CASE RecordUsage(q)
  <2> DEFINE r == query[q]
  <2>1. /\ r.pc = "record" /\ query' = [query EXCEPT ![q] = NoQuery]
        /\ UNCHANGED <<limit, Clock, budgetLeft>>
        /\ \/ limit < 0 /\ UNCHANGED <<spent, paid, mixed>>
           \/ /\ limit >= 0 /\ spent' = r.read + r.cost /\ paid' = paid + r.cost
              /\ mixed' = (mixed \/ r.read # spent)
    BY <1>3 DEF RecordUsage
  <2>2. NoQuery \in QueryStates /\ NoQuery.pc = "idle"
    BY DEF NoQuery, QueryStates
  <2>3. \E s, p, m : AmountMoves(s, p, m)
    <3>1. CASE UNCHANGED <<spent, paid, mixed>>
      <4>1. AmountMoves(spent, paid, mixed)
        BY <2>1, <3>1, AmountRests
      <4> QED BY <4>1
    <3>2. CASE /\ spent' = r.read + r.cost /\ paid' = paid + r.cost
               /\ mixed' = (mixed \/ r.read # spent)
      <4> DEFINE s == r.read + r.cost
                 p == paid + r.cost
      <4>1. r.read \in Nat /\ r.cost \in Nat /\ r.cost \in Costs
        BY <1>0, <2>1 DEF QueryStates, BudgetInv, LetIn
      <4>2. s \in Nat /\ p \in Nat
        BY <1>0, <4>1
      <4>3. ~mixed' => spent' = paid'
        <5>1. ~mixed' => ~mixed /\ r.read = spent
          BY <3>2
        <5>2. ~mixed => spent = paid
          BY DEF BudgetInv, SpentBounded
        <5> QED BY <3>2, <5>1, <5>2
      <4>4. ASSUME budgetLeft["edit"] = MaxEdit, limit > 0, NEW c \in Costs, \A d \in Costs : d <= c
            PROVE  s < limit + c
        <5>1. r.read < limit /\ r.cost <= c /\ c \in Nat
          BY <2>1, <4>1, <4>4, BudgetAssumption DEF BudgetInv, LetIn
        <5> QED BY <1>0, <4>1, <5>1
      <4>5. AmountMoves(s, p, mixed')
        <5>1. spent' = s /\ paid' = p /\ limit' = limit
          BY <2>1, <3>2
        <5>2. ~mixed' => s = p
          BY <4>3, <5>1
        <5> HIDE DEF s, p
        <5> QED BY <4>2, <4>4, <5>1, <5>2 DEF AmountMoves
      <4> QED BY <4>5
    <3> QED BY <2>1, <3>1, <3>2
  <2>4. PICK s, p, m : AmountMoves(s, p, m)
    BY <2>3
  <2> QED BY <1>0, <2>1, <2>2, <2>4, QueryMoves
<1> QED BY <1>1, <1>2, <1>3

LEMMA Editing ==
  ASSUME BudgetInv, DeleteConfig \/ \E l \in Limits : UpdateConfig(l)
  PROVE  BudgetInv'
<1>1. /\ limit' \in Nat \cup {-1} /\ UNCHANGED <<spent, paid, query, mixed, Clock>>
      /\ budgetLeft["edit"] > 0 /\ budgetLeft' = [budgetLeft EXCEPT !["edit"] = @ - 1]
  BY BudgetAssumption DEF DeleteConfig, UpdateConfig, Use
<1>2. UNCHANGED <<hour, wake, reset, missed, done>>
  BY <1>1 DEF Clock
<1>3. /\ budgetLeft' \in [{"query", "edit", "restart"} -> Nat] /\ budgetLeft'["edit"] < MaxEdit
      /\ budgetLeft'["edit"] # MaxEdit /\ budgetLeft'["edit"] <= MaxEdit
  BY <1>1, BudgetAssumption DEF BudgetInv, BudgetType
<1>4. BudgetType'
  BY <1>1, <1>2, <1>3 DEF BudgetInv, BudgetType
<1>5. LetIn' /\ SpentBounded'
  BY <1>1, <1>3, LeftIs DEF BudgetInv, LetIn, SpentBounded
<1>6. HoursPassed'
  BY <1>2 DEF BudgetInv, HoursPassed
<1> QED BY <1>4, <1>5, <1>6 DEF BudgetInv

LEMMA ClockMoves ==
  ASSUME BudgetInv, NextHour \/ Wake \/ RestartLoop
  PROVE  BudgetInv'
<1>0. hour \in Nat /\ wake \in Nat /\ hour <= wake /\ reset \in {"idle", "commit"}
  BY DEF BudgetInv, BudgetType
<1>1. UNCHANGED <<limit, spent, paid, query, mixed>>
  BY DEF NextHour, Wake, RestartLoop
<1>2. /\ budgetLeft' \in [{"query", "edit", "restart"} -> Nat]
      /\ budgetLeft'["edit"] = budgetLeft["edit"]
  BY DEF NextHour, Wake, RestartLoop, Use, BudgetInv, BudgetType
<1>3. LetIn' /\ SpentBounded'
  BY <1>1, <1>2, LeftIs DEF BudgetInv, LetIn, SpentBounded
<1>4. CASE NextHour
  <2>1. hour' = hour + 1 /\ wake > hour /\ reset = "idle" /\ UNCHANGED <<wake, reset, missed, done>>
    BY <1>4 DEF NextHour
  <2>2. BudgetType'
    BY <1>0, <1>1, <1>2, <2>1 DEF BudgetInv, BudgetType
  <2>3. HoursPassed'
    BY <1>0, <2>1 DEF BudgetInv, HoursPassed
  <2> QED BY <1>3, <2>2, <2>3 DEF BudgetInv
<1>5. CASE Wake
  <2>1. PICK h \in {hour + 1, hour + 2} : Sleep(h)
    BY <1>5 DEF Wake
  <2>2. /\ wake = hour /\ reset = "idle" /\ hour' = hour
        /\ reset' = IF First(hour) /\ Due THEN "commit" ELSE "idle"
        /\ done' = IF First(hour) /\ ~Due THEN done \cup {MonthOf(hour)} ELSE done
    BY <1>5 DEF Wake
  <2>3. /\ wake' = h /\ missed \subseteq missed'
        /\ \A k \in Nat : First(k) /\ hour < k /\ k < h => MonthOf(k) \in missed'
    BY <1>0, <2>1 DEF Sleep
  <2>4. BudgetType'
    BY <1>0, <1>1, <1>2, <2>2, <2>3 DEF BudgetInv, BudgetType
  <2>5. ASSUME NEW k \in Nat, First(k), k < wake', k # hour' \/ reset' = "idle"
        PROVE  MonthOf(k) \in done' \cup missed'
    <3>1. CASE k < hour
      BY <1>0, <2>2, <2>3, <2>5, <3>1 DEF BudgetInv, HoursPassed
    <3>2. CASE k = hour
      BY <2>2, <2>5, <3>2
    <3>3. CASE k > hour
      BY <1>0, <2>3, <2>5, <3>3
    <3> QED BY <1>0, <3>1, <3>2, <3>3
  <2> QED BY <1>3, <2>4, <2>5 DEF BudgetInv, HoursPassed
<1>6. CASE RestartLoop
  <2>1. /\ reset' = "idle" /\ wake' = hour + 1 /\ UNCHANGED <<hour, done>> /\ missed \subseteq missed'
        /\ First(hour) => MonthOf(hour) \in done' \cup missed'
    BY <1>6 DEF RestartLoop
  <2>2. BudgetType'
    BY <1>0, <1>1, <1>2, <2>1 DEF BudgetInv, BudgetType
  <2>3. ASSUME NEW k \in Nat, First(k), k < wake'
        PROVE  MonthOf(k) \in done' \cup missed'
    <3>1. CASE k < hour
      BY <1>0, <2>1, <2>3, <3>1 DEF BudgetInv, HoursPassed
    <3>2. CASE k = hour
      BY <2>1, <2>3, <3>2
    <3> QED BY <1>0, <2>1, <2>3, <3>1, <3>2
  <2> QED BY <1>3, <2>2, <2>3 DEF BudgetInv, HoursPassed
<1> QED BY <1>4, <1>5, <1>6

LEMMA Resetting ==
  ASSUME BudgetInv, ResetBudgets
  PROVE  BudgetInv'
<1>1. /\ reset' = "idle" /\ UNCHANGED <<limit, query, hour, wake, budgetLeft>>
      /\ done \subseteq done' /\ missed \subseteq missed' /\ MonthOf(hour) \in done' \cup missed'
      /\ (spent' = 0 /\ paid' = 0) \/ UNCHANGED <<spent, paid, mixed>>
  BY DEF ResetBudgets
<1>2. BudgetType' /\ LetIn'
  BY <1>1 DEF BudgetInv, BudgetType, LetIn
<1>3. SpentBounded'
  <2>1. CASE UNCHANGED <<spent, paid, mixed>>
    BY <1>1, <2>1 DEF BudgetInv, SpentBounded
  <2>2. CASE spent' = 0 /\ paid' = 0
    <3>1. ASSUME limit > 0, NEW c \in Costs PROVE 0 < limit + c
      BY <3>1, BudgetAssumption DEF BudgetInv, BudgetType
    <3> QED BY <1>1, <2>2, <3>1 DEF SpentBounded
  <2> QED BY <1>1, <2>1, <2>2
<1>4. HoursPassed'
  BY <1>1 DEF BudgetInv, HoursPassed
<1> QED BY <1>2, <1>3, <1>4 DEF BudgetInv

LEMMA BudgetStep == BudgetInv /\ [BudgetNext]_budgetVars => BudgetInv'
<1> SUFFICES ASSUME BudgetInv, [BudgetNext]_budgetVars PROVE BudgetInv'
  OBVIOUS
<1>1. CASE UNCHANGED budgetVars
  BY <1>1 DEF budgetVars, BudgetInv, BudgetType, LetIn, SpentBounded, HoursPassed
<1> QED BY <1>1, Querying, Editing, ClockMoves, Resetting DEF BudgetNext

\* The first hour of month m.
LEMMA FirstHour ==
  ASSUME NEW m \in Nat
  PROVE  m * Month \in Nat /\ First(m * Month) /\ MonthOf(m * Month) = m
BY BudgetAssumption DEF First, MonthOf

LEMMA MonthsBefore ==
  ASSUME NEW h \in Nat, NEW m \in 0..MonthOf(h), m < MonthOf(h) \/ h % Month > 0
  PROVE  m \in Nat /\ m * Month < h
BY BudgetAssumption DEF MonthOf

\* The amount is what the queries since the last reset cost unless they overlapped, and
\* passes the limit by one query at most; a month without a reset is explained: whatever
\* queries, edits and restarts overlap, for any costs, limits and length of the month.
THEOREM BudgetIsSound == BudgetSpec => []BudgetSound
<1>1. BudgetInv => BudgetSound
  <2> SUFFICES ASSUME BudgetInv PROVE BudgetSound
    OBVIOUS
  <2>1. ASSUME NEW m \in 0..MonthOf(hour), m < MonthOf(hour) \/ hour % Month > 0
        PROVE  m \in done \cup missed
    <3>1. hour \in Nat /\ wake \in Nat /\ hour <= wake
      BY DEF BudgetInv, BudgetType
    <3> DEFINE h == m * Month
    <3>2. m \in Nat /\ h < hour
      BY <2>1, <3>1, MonthsBefore
    <3>3. h \in Nat /\ First(h) /\ MonthOf(h) = m
      BY <3>2, FirstHour
    <3> HIDE DEF h
    <3> QED BY <3>1, <3>2, <3>3 DEF BudgetInv, HoursPassed
  <2> QED BY <2>1 DEF BudgetSound, MonthlyReset, BudgetInv
<1> QED BY <1>1, BudgetInitial, BudgetStep, PTL DEF BudgetSpec

-----------------------------------------------------------------------------
(* Browsing: ChangesReported and PausesKept for every number of monitors   *)
(* and of workers whose passes overlap.                                    *)

Statuses == {"none", "active", "paused", "triggered", "deleted"}
MonitorRows == [status : Statuses, hash : Nat, checks : Nat]
PassStates == [pc : {"idle", "check"}, loaded : [Monitors -> MonitorRows],
               todo : SUBSET Monitors, row : [Monitors -> MonitorRows]]

BrowsingType ==
  /\ monitor \in [Monitors -> MonitorRows] /\ page \in [Monitors -> Nat \ {0}]
  /\ pass \in [Pollers -> PassStates] /\ swallowed \in [Monitors -> Nat]

\* What a pass will write of a row it loaded: its status or that it is triggered, the
\* latter with every new content but the first.
Examined(was, new) ==
  /\ new.status \in {was.status, "triggered"}
  /\ new.hash # was.hash => new.hash # 0 /\ (was.hash # 0 => new.status = "triggered")

PassesExamine ==
  \A w \in Pollers, m \in Monitors :
    pass[w].pc = "check" => Examined(pass[w].loaded[m], pass[w].row[m])

\* The passes that loaded a monitor before its first content.
Blind(m) == {w \in Pollers : pass[w].pc = "check" /\ pass[w].loaded[m].hash = 0}

\* As long as a monitor that is not deleted has no content, no pass has seen one of it.
FirstContent ==
  \A m \in Monitors :
    monitor[m].hash = 0 /\ monitor[m].status # "deleted" =>
      /\ swallowed[m] = 0
      /\ \A w \in Pollers : pass[w].pc = "check" => pass[w].loaded[m].hash = 0

\* Once it has, each pass that loaded it before may replace the content once: all but the
\* one that wrote the first.
BlindCounted ==
  \A m \in Monitors :
    /\ swallowed[m] < Cardinality(Pollers)
    /\ monitor[m].hash # 0 => swallowed[m] + Cardinality(Blind(m)) < Cardinality(Pollers)

BrowsingInv == BrowsingType /\ PassesExamine /\ FirstContent /\ BlindCounted

\* What PausesKept says of one monitor and one pass.
PauseKept(m, w) ==
  pass[w].pc = "check" /\ pass'[w] = NoPass /\ monitor[m].status = "paused" =>
    \/ monitor'[m].status = "paused"
    \/ monitor'[m].status = "triggered" /\ pass[w].row[m].status = "triggered"

AllPausesKept == \A m \in Monitors, w \in Pollers : PauseKept(m, w)

LEMMA NoMonitorIs == NoMonitor \in MonitorRows /\ NoMonitor.hash = 0
BY DEF NoMonitor, MonitorRows, Statuses

LEMMA NoPassIs == NoPass \in PassStates /\ NoPass.pc = "idle"
<1>1. NoRows \in [Monitors -> MonitorRows]
  BY NoMonitorIs DEF NoRows
<1> QED BY <1>1 DEF NoPass, PassStates

LEMMA PollersCounted == IsFiniteSet(Pollers) /\ Cardinality(Pollers) \in Nat \ {0}
BY BrowsingAssumption, FS_CardinalityType, FS_EmptySet

LEMMA BlindIs ==
  ASSUME NEW m \in Monitors
  PROVE  /\ IsFiniteSet(Blind(m)) /\ Cardinality(Blind(m)) \in Nat
         /\ Cardinality(Blind(m)) <= Cardinality(Pollers)
         /\ IsFiniteSet(Blind(m)') /\ Cardinality(Blind(m)') \in Nat
         /\ Cardinality(Blind(m)') <= Cardinality(Pollers)
<1>1. Blind(m) \subseteq Pollers /\ Blind(m)' \subseteq Pollers
  BY DEF Blind
<1> HIDE DEF Blind
<1> QED BY <1>1, PollersCounted, FS_Subset, FS_CardinalityType

\* A step after which fewer passes are blind keeps the count.
LEMMA FewerBlind ==
  ASSUME NEW m \in Monitors, Blind(m)' \subseteq Blind(m)
  PROVE  Cardinality(Blind(m)') <= Cardinality(Blind(m))
BY BlindIs, FS_Subset

LEMMA BrowsingInitial == BrowsingInit => BrowsingInv
<1> SUFFICES ASSUME BrowsingInit PROVE BrowsingInv
  OBVIOUS
<1>1. monitor \in [Monitors -> MonitorRows] /\ \A m \in Monitors : monitor[m].hash = 0
  BY NoMonitorIs DEF BrowsingInit, NoRows
<1>2. BrowsingType
  BY <1>1, NoPassIs DEF BrowsingInit, BrowsingType
<1>3. PassesExamine /\ FirstContent
  BY NoPassIs DEF BrowsingInit, PassesExamine, FirstContent
<1>4. BlindCounted
  BY <1>1, PollersCounted DEF BrowsingInit, BlindCounted
<1> QED BY <1>2, <1>3, <1>4 DEF BrowsingInv

\* The owner edits one monitor: its content stays, or it is deleted.
LEMMA EditMoves ==
  ASSUME BrowsingInv, NEW m \in Monitors, NEW row \in MonitorRows,
         monitor' = [monitor EXCEPT ![m] = row],
         \/ row.status = "deleted" /\ row.hash = 0
         \/ row.hash = monitor[m].hash /\ monitor[m].status # "deleted",
         UNCHANGED <<page, pass, swallowed>>
  PROVE  BrowsingInv' /\ AllPausesKept
<1>1. BrowsingType' /\ PassesExamine'
  BY DEF BrowsingInv, BrowsingType, PassesExamine
<1>2. ASSUME NEW n \in Monitors
      PROVE  \/ monitor'[n].hash = 0 /\ monitor'[n].status = "deleted"
             \/ /\ monitor'[n].hash = monitor[n].hash
                /\ monitor'[n].status # "deleted" => monitor[n].status # "deleted"
  <2>1. CASE n = m
    BY <2>1 DEF BrowsingInv, BrowsingType
  <2>2. CASE n # m
    BY <2>2 DEF BrowsingInv, BrowsingType
  <2> QED BY <2>1, <2>2
<1>3. FirstContent'
  BY <1>2 DEF BrowsingInv, FirstContent
<1>4. \A n \in Monitors : Blind(n)' = Blind(n)
  BY DEF Blind
<1>5. BlindCounted'
  BY <1>2, <1>4 DEF BrowsingInv, BlindCounted
<1>6. AllPausesKept
  BY NoPassIs DEF AllPausesKept, PauseKept
<1> QED BY <1>1, <1>3, <1>5, <1>6 DEF BrowsingInv

LEMMA EditSteps ==
  ASSUME BrowsingInv, NEW m \in Monitors,
         \/ CreateMonitor(m) \/ DeleteMonitor(m)
         \/ \E s \in {"active", "paused"} : UpdateMonitor(m, s)
  PROVE  BrowsingInv' /\ AllPausesKept
<1>1. monitor[m] \in MonitorRows
  BY DEF BrowsingInv, BrowsingType
<1>2. CASE CreateMonitor(m)
  <2> DEFINE row == [monitor[m] EXCEPT !.status = "active"]
  <2>1. row \in MonitorRows /\ row.hash = monitor[m].hash
    BY <1>1 DEF MonitorRows, Statuses
  <2>2. /\ monitor' = [monitor EXCEPT ![m] = row] /\ monitor[m] = NoMonitor
        /\ UNCHANGED <<page, pass, swallowed>>
    BY <1>2, Zenon DEF CreateMonitor
  <2>3. monitor[m].status # "deleted"
    BY <2>2 DEF NoMonitor
  <2> HIDE DEF row
  <2> QED BY <2>1, <2>2, <2>3, EditMoves
<1>3. CASE DeleteMonitor(m)
  <2> DEFINE row == [NoMonitor EXCEPT !.status = "deleted"]
  <2>1. row \in MonitorRows /\ row.status = "deleted" /\ row.hash = 0
    BY DEF MonitorRows, Statuses, NoMonitor
  <2>2. monitor' = [monitor EXCEPT ![m] = row] /\ UNCHANGED <<page, pass, swallowed>>
    BY <1>3, Zenon DEF DeleteMonitor
  <2> HIDE DEF row
  <2> QED BY <2>1, <2>2, EditMoves
<1>4. ASSUME NEW s \in {"active", "paused"}, UpdateMonitor(m, s)
      PROVE  BrowsingInv' /\ AllPausesKept
  <2> DEFINE row == [monitor[m] EXCEPT !.status = s]
  <2>1. row \in MonitorRows /\ row.hash = monitor[m].hash
    BY <1>1 DEF MonitorRows, Statuses
  <2>2. /\ monitor' = [monitor EXCEPT ![m] = row] /\ There(m)
        /\ UNCHANGED <<page, pass, swallowed>>
    BY <1>4, Zenon DEF UpdateMonitor
  <2> HIDE DEF row
  <2> QED BY <2>1, <2>2, EditMoves DEF There
<1> QED BY <1>2, <1>3, <1>4

\* The passes write only of themselves, and load what is there.
LEMMA PassMoves ==
  ASSUME BrowsingInv, pass' \in [Pollers -> PassStates], page' \in [Monitors -> Nat \ {0}],
         UNCHANGED <<monitor, swallowed>>, PassesExamine',
         \A w \in Pollers : pass'[w].pc = "check" =>
           \/ pass[w].pc = "check" /\ pass'[w].loaded = pass[w].loaded
           \/ pass'[w].loaded = monitor
  PROVE  BrowsingInv' /\ AllPausesKept
<1>1. BrowsingType' /\ FirstContent'
  BY DEF BrowsingInv, BrowsingType, FirstContent
<1>2. ASSUME NEW m \in Monitors, monitor[m].hash # 0
      PROVE  swallowed[m] + Cardinality(Blind(m)') < Cardinality(Pollers)
  <2>1. Blind(m)' \subseteq Blind(m)
    BY <1>2 DEF Blind
  <2>2. swallowed[m] + Cardinality(Blind(m)) < Cardinality(Pollers) /\ swallowed[m] \in Nat
    BY <1>2 DEF BrowsingInv, BlindCounted, BrowsingType
  <2> QED BY <2>1, <2>2, FewerBlind, BlindIs, PollersCounted
<1>3. BlindCounted'
  BY <1>2 DEF BrowsingInv, BlindCounted
<1>4. AllPausesKept
  BY DEF AllPausesKept, PauseKept
<1> QED BY <1>1, <1>3, <1>4 DEF BrowsingInv

LEMMA PageChangesStep ==
  ASSUME BrowsingInv, NEW m \in Monitors, PageChanges(m)
  PROVE  BrowsingInv' /\ AllPausesKept
<1>1. page' \in [Monitors -> Nat \ {0}] /\ pass' \in [Pollers -> PassStates]
  BY DEF BrowsingInv, BrowsingType, PageChanges
<1>2. PassesExamine'
  BY DEF BrowsingInv, PageChanges, PassesExamine
<1> QED BY <1>1, <1>2, PassMoves DEF PageChanges

LEMMA BeginPassStep ==
  ASSUME BrowsingInv, NEW w \in Pollers, BeginPass(w)
  PROVE  BrowsingInv' /\ AllPausesKept
<1>1. PICK due \in SUBSET Active :
        pass' = [pass EXCEPT ![w] = [pc |-> "check", loaded |-> monitor, todo |-> due, row |-> monitor]]
  BY DEF BeginPass
<1> DEFINE new == [pc |-> "check", loaded |-> monitor, todo |-> due, row |-> monitor]
<1>2. new \in PassStates /\ new.loaded = monitor /\ new.row = monitor
  BY DEF BrowsingInv, BrowsingType, PassStates, Active
<1>3. pass' = [pass EXCEPT ![w] = new]
  BY <1>1
<1> HIDE DEF new
<1>4. pass' \in [Pollers -> PassStates] /\ pass'[w] = new /\ \A v \in Pollers : v # w => pass'[v] = pass[v]
  BY <1>2, <1>3 DEF BrowsingInv, BrowsingType
<1>5. PassesExamine'
  BY <1>2, <1>4 DEF BrowsingInv, PassesExamine, Examined, BeginPass
<1> QED BY <1>2, <1>4, <1>5, PassMoves DEF BeginPass, BrowsingInv, BrowsingType

\* What checking a row makes of it.
CheckedRow(r) == [r EXCEPT !.checks = @ + 1]

LEMMA CheckedRowIs ==
  ASSUME NEW r \in MonitorRows
  PROVE  CheckedRow(r) \in MonitorRows /\ CheckedRow(r).status = r.status /\ CheckedRow(r).hash = r.hash
BY DEF MonitorRows, CheckedRow

LEMMA CheckedIs ==
  ASSUME NEW p \in PassStates, NEW m \in Monitors, NEW r \in MonitorRows
  PROVE  /\ Checked(p, m, r) \in PassStates /\ Checked(p, m, r).pc = p.pc
         /\ Checked(p, m, r).loaded = p.loaded
         /\ Checked(p, m, r).row = [p.row EXCEPT ![m] = CheckedRow(r)]
<1> DEFINE rows == [p.row EXCEPT ![m] = CheckedRow(r)]
           left == p.todo \ {m}
<1>1. rows \in [Monitors -> MonitorRows] /\ left \in SUBSET Monitors
  BY CheckedRowIs DEF PassStates
<1>2. Checked(p, m, r) = [p EXCEPT !.todo = left, !.row = rows]
  BY Zenon DEF Checked, CheckedRow, PassStates
<1> HIDE DEF rows, left
<1>3. [p EXCEPT !.todo = left] \in PassStates /\ [p EXCEPT !.todo = left, !.row = rows] \in PassStates
  BY <1>1, Zenon DEF PassStates
<1>4. /\ Checked(p, m, r).pc = p.pc /\ Checked(p, m, r).loaded = p.loaded
      /\ Checked(p, m, r).row = rows
  BY <1>2, Zenon DEF PassStates
<1> QED BY <1>2, <1>3, <1>4 DEF rows

LEMMA CheckMoves ==
  ASSUME BrowsingInv, NEW w \in Pollers, NEW m \in Monitors, pass[w].pc = "check",
         NEW r \in MonitorRows, pass' = [pass EXCEPT ![w] = Checked(pass[w], m, r)],
         Examined(pass[w].loaded[m], r), UNCHANGED <<monitor, page, swallowed>>
  PROVE  BrowsingInv' /\ AllPausesKept
<1>1. pass[w] \in PassStates
  BY DEF BrowsingInv, BrowsingType
<1> DEFINE new == Checked(pass[w], m, r)
<1>2. /\ new \in PassStates /\ new.pc = "check" /\ new.loaded = pass[w].loaded
      /\ new.row = [pass[w].row EXCEPT ![m] = CheckedRow(r)]
  BY <1>1, CheckedIs
<1>3. pass' = [pass EXCEPT ![w] = new]
  OBVIOUS
<1> HIDE DEF new
<1>4. pass' \in [Pollers -> PassStates] /\ pass'[w] = new /\ \A v \in Pollers : v # w => pass'[v] = pass[v]
  BY <1>2, <1>3 DEF BrowsingInv, BrowsingType
<1>5. ASSUME NEW n \in Monitors PROVE Examined(new.loaded[n], new.row[n])
  <2>1. Examined(pass[w].loaded[n], pass[w].row[n])
    BY DEF BrowsingInv, PassesExamine
  <2>2. new.row[n] = IF n = m THEN CheckedRow(r) ELSE pass[w].row[n]
    BY <1>1, <1>2 DEF PassStates
  <2> QED BY <1>2, <2>1, <2>2, CheckedRowIs DEF Examined
<1>6. PassesExamine'
  BY <1>4, <1>5 DEF BrowsingInv, PassesExamine
<1> QED BY <1>2, <1>4, <1>6, PassMoves DEF BrowsingInv, BrowsingType

LEMMA CheckMonitorStep ==
  ASSUME BrowsingInv, NEW w \in Pollers, NEW m \in Monitors, CheckMonitor(w, m)
  PROVE  BrowsingInv' /\ AllPausesKept
<1> DEFINE r == pass[w].loaded[m]
           r1 == [r EXCEPT !.status = "triggered"]
           r2 == [r EXCEPT !.status = "triggered", !.hash = Hash(m)]
           r3 == [r EXCEPT !.hash = Hash(m)]
           To(row) == pass' = [pass EXCEPT ![w] = Checked(pass[w], m, row)]
<1>0. \A row : CheckRow(w, m, row) => To(row)
  BY DEF CheckRow
<1>1. /\ pass[w].pc = "check" /\ UNCHANGED <<monitor, page, swallowed>>
      /\ \/ To(r)
         \/ To(r1)
         \/ To(r2)
         \/ r.hash = 0 /\ To(r3)
  <2>1. /\ pass[w].pc = "check" /\ UNCHANGED <<monitor, page, swallowed>>
        /\ \/ CheckRow(w, m, r)
           \/ CheckRow(w, m, r1)
           \/ CheckRow(w, m, r2)
           \/ r.hash = 0 /\ CheckRow(w, m, r3)
    BY Zenon DEF CheckMonitor
  <2> HIDE DEF r, r1, r2, r3, To
  <2> QED BY <1>0, <2>1
<1>2. r \in MonitorRows /\ page[m] \in Nat \ {0}
  BY DEF BrowsingInv, BrowsingType, PassStates
<1>3. /\ r1 \in MonitorRows /\ r1.status = "triggered" /\ r1.hash = r.hash
      /\ r3 \in MonitorRows /\ r3.status = r.status /\ r3.hash # 0
  BY <1>2 DEF MonitorRows, Statuses, Hash
<1>4. "triggered" \in Statuses
  BY DEF Statuses
<1>5. r2 \in MonitorRows /\ r2.status = "triggered" /\ r2.hash = page[m]
  BY <1>2, <1>4, Zenon DEF MonitorRows, Hash
<1>6. r = pass[w].loaded[m]
  OBVIOUS
<1> HIDE DEF r, r1, r2, r3
<1>7. Examined(r, r) /\ Examined(r, r1) /\ Examined(r, r2) /\ (r.hash = 0 => Examined(r, r3))
  BY <1>2, <1>3, <1>5 DEF Examined
<1> QED BY <1>1, <1>2, <1>3, <1>5, <1>6, <1>7, CheckMoves

LEMMA AbandonPassStep ==
  ASSUME BrowsingInv, NEW w \in Pollers, AbandonPass(w)
  PROVE  BrowsingInv' /\ AllPausesKept
<1>1. /\ pass' \in [Pollers -> PassStates] /\ pass'[w] = NoPass
      /\ \A v \in Pollers : v # w => pass'[v] = pass[v]
  BY NoPassIs DEF AbandonPass, BrowsingInv, BrowsingType
<1>2. PassesExamine'
  BY <1>1, NoPassIs DEF AbandonPass, BrowsingInv, PassesExamine
<1> QED BY <1>1, <1>2, NoPassIs, PassMoves DEF AbandonPass, BrowsingInv, BrowsingType

LEMMA MergedIs ==
  ASSUME NEW old \in MonitorRows, NEW was \in MonitorRows, NEW new \in MonitorRows
  PROVE  /\ Merged(old, was, new) \in MonitorRows
         /\ Merged(old, was, new).status = IF new.status # was.status THEN new.status ELSE old.status
         /\ Merged(old, was, new).hash = IF new.hash # was.hash THEN new.hash ELSE old.hash
BY DEF MonitorRows, Merged

\* What the commit of a pass makes of one row.
LEMMA WrittenIs ==
  ASSUME BrowsingInv, NEW w \in Pollers, pass[w].pc = "check", NEW n \in Monitors
  PROVE  /\ Written(pass[w]) \in [Monitors -> MonitorRows]
         /\ \/ Written(pass[w])[n] = monitor[n]
            \/ /\ There(n)
               /\ Written(pass[w])[n] = Merged(monitor[n], pass[w].loaded[n], pass[w].row[n])
<1> DEFINE p == pass[w]
           new(m) == Merged(monitor[m], p.loaded[m], p.row[m])
<1>1. monitor \in [Monitors -> MonitorRows] /\ p \in PassStates
  BY DEF BrowsingInv, BrowsingType
<1>2. \A m \in Monitors : new(m) \in MonitorRows
  BY <1>1, MergedIs DEF PassStates
<1>3. \/ Written(p) = monitor
      \/ /\ \A m \in Touched(p) : There(m)
         /\ Written(p) = [m \in Monitors |-> IF m \in Touched(p) THEN new(m) ELSE monitor[m]]
  BY DEF Written
<1>4. \/ Written(p)[n] = monitor[n]
      \/ There(n) /\ Written(p)[n] = new(n)
  <2> HIDE DEF new, p
  <2> QED BY <1>3
<1>5. Written(p) \in [Monitors -> MonitorRows]
  <2> HIDE DEF new, p
  <2> QED BY <1>1, <1>2, <1>3
<1> QED BY <1>4, <1>5

LEMMA CommitPassStep ==
  ASSUME BrowsingInv, NEW w \in Pollers, CommitPass(w)
  PROVE  BrowsingInv' /\ AllPausesKept
<1> DEFINE p == pass[w]
<1>1. /\ p.pc = "check" /\ pass' = [pass EXCEPT ![w] = NoPass] /\ page' = page
      /\ monitor' = Written(p)
      /\ swallowed' = [m \in Monitors |-> IF Swallows(p, m) THEN swallowed[m] + 1 ELSE swallowed[m]]
  BY DEF CommitPass
<1>2. monitor \in [Monitors -> MonitorRows] /\ p \in PassStates /\ swallowed \in [Monitors -> Nat]
  BY DEF BrowsingInv, BrowsingType
<1>3. monitor' \in [Monitors -> MonitorRows] /\ swallowed' \in [Monitors -> Nat]
  <2>1. Monitors = {} \/ Written(p) \in [Monitors -> MonitorRows]
    BY <1>1, WrittenIs
  <2>2. CASE Monitors = {}
    <3>1. Touched(p) = {}
      BY <2>2 DEF Touched
    <3>2. Written(p) \in [Monitors -> MonitorRows]
      BY <2>2, <3>1, <1>2 DEF Written
    <3> QED BY <1>1, <1>2, <3>2
  <2> QED BY <1>1, <1>2, <2>1, <2>2
<1>4. /\ pass' \in [Pollers -> PassStates] /\ pass'[w] = NoPass
      /\ \A v \in Pollers : v # w => pass'[v] = pass[v]
  BY <1>1, NoPassIs DEF BrowsingInv, BrowsingType
<1>5. BrowsingType'
  BY <1>1, <1>3, <1>4 DEF BrowsingInv, BrowsingType
<1>6. PassesExamine'
  BY <1>4, NoPassIs DEF BrowsingInv, PassesExamine
<1>7. ASSUME NEW n \in Monitors
      PROVE  /\ monitor'[n].hash = 0 <=> monitor[n].hash = 0 /\ monitor'[n].hash = monitor[n].hash
             /\ monitor'[n].hash # monitor[n].hash =>
                  /\ monitor[n].status # "deleted"
                  /\ p.row[n].status # "triggered" => p.loaded[n].hash = 0
                  /\ monitor[n].hash = 0 => p.loaded[n].hash = 0
             /\ monitor'[n].status = "deleted" => monitor[n].status = "deleted" \/ p.row[n].status # "triggered"
             /\ monitor[n].status = "deleted" => monitor'[n] = monitor[n]
             /\ monitor'[n].status \in {monitor[n].status, "triggered"}
             /\ monitor'[n].status # monitor[n].status => p.row[n].status = "triggered"
  <2>1. /\ monitor[n] \in MonitorRows /\ p.loaded[n] \in MonitorRows /\ p.row[n] \in MonitorRows
    BY <1>2 DEF PassStates
  <2>2. Examined(p.loaded[n], p.row[n])
    BY <1>1 DEF BrowsingInv, PassesExamine
  <2>3. monitor[n].hash = 0 /\ monitor[n].status # "deleted" => p.loaded[n].hash = 0
    BY <1>1 DEF BrowsingInv, FirstContent
  <2>4. CASE monitor'[n] = monitor[n]
    BY <2>1, <2>4 DEF MonitorRows
  <2>5. CASE There(n) /\ monitor'[n] = Merged(monitor[n], p.loaded[n], p.row[n])
    <3>1. /\ monitor'[n].status = IF p.row[n].status # p.loaded[n].status
                                  THEN p.row[n].status ELSE monitor[n].status
          /\ monitor'[n].hash = IF p.row[n].hash # p.loaded[n].hash
                                THEN p.row[n].hash ELSE monitor[n].hash
      BY <2>1, <2>5, MergedIs
    <3> HIDE DEF p
    <3> QED BY <2>2, <2>3, <2>5, <3>1 DEF Examined, There
  <2> QED BY <1>1, <2>4, <2>5, WrittenIs
<1>8. \A n \in Monitors : Blind(n)' \subseteq Blind(n) \ {w}
  BY <1>4, NoPassIs DEF Blind
<1>9. ASSUME NEW n \in Monitors
      PROVE  swallowed'[n] = IF monitor[n].hash # 0 /\ monitor'[n].hash # monitor[n].hash
                                  /\ p.row[n].status # "triggered"
                             THEN swallowed[n] + 1 ELSE swallowed[n]
  BY <1>1 DEF Swallows
<1> HIDE DEF p
<1>10. FirstContent'
  BY <1>4, <1>7, <1>9, NoPassIs DEF BrowsingInv, FirstContent
<1>11. ASSUME NEW n \in Monitors
       PROVE  /\ swallowed'[n] < Cardinality(Pollers)
              /\ monitor'[n].hash # 0 => swallowed'[n] + Cardinality(Blind(n)') < Cardinality(Pollers)
  <2>1. /\ swallowed[n] \in Nat /\ swallowed[n] < Cardinality(Pollers)
        /\ monitor[n].hash # 0 => swallowed[n] + Cardinality(Blind(n)) < Cardinality(Pollers)
        /\ monitor[n].hash = 0 /\ monitor[n].status # "deleted" => swallowed[n] = 0
    BY <1>2 DEF BrowsingInv, BlindCounted, FirstContent
  <2>2. Cardinality(Blind(n)') <= Cardinality(Blind(n))
    BY <1>8, FewerBlind
  <2>3. ASSUME w \in Blind(n) PROVE Cardinality(Blind(n)') <= Cardinality(Blind(n)) - 1
    <3>1. Cardinality(Blind(n) \ {w}) = Cardinality(Blind(n)) - 1 /\ IsFiniteSet(Blind(n) \ {w})
      BY <2>3, BlindIs, FS_RemoveElement
    <3> HIDE DEF Blind
    <3> QED BY <1>8, <3>1, FS_Subset
  <2>4. monitor'[n].hash # monitor[n].hash /\ (monitor[n].hash = 0 \/ p.row[n].status # "triggered")
          => w \in Blind(n)
    BY <1>1, <1>7 DEF Blind, p
  <2> HIDE DEF Blind
  <2>5. CASE monitor'[n].hash = monitor[n].hash
    BY <1>9, <2>1, <2>2, <2>5, BlindIs, PollersCounted
  <2>6. CASE monitor'[n].hash # monitor[n].hash /\ monitor[n].hash # 0 /\ p.row[n].status = "triggered"
    BY <1>9, <2>1, <2>2, <2>6, BlindIs, PollersCounted
  <2>7. CASE monitor'[n].hash # monitor[n].hash /\ monitor[n].hash # 0 /\ p.row[n].status # "triggered"
    BY <1>9, <2>1, <2>3, <2>4, <2>7, BlindIs, PollersCounted
  <2>8. CASE monitor'[n].hash # monitor[n].hash /\ monitor[n].hash = 0
    <3>1. swallowed[n] = 0 /\ swallowed'[n] = 0
      BY <1>7, <1>9, <2>1, <2>8
    <3> QED BY <2>3, <2>4, <2>8, <3>1, BlindIs, PollersCounted
  <2> QED BY <2>5, <2>6, <2>7, <2>8
<1>12. BlindCounted'
  BY <1>11 DEF BlindCounted
<1>13. AllPausesKept
  BY <1>4, <1>7, NoPassIs DEF AllPausesKept, PauseKept, p
<1> QED BY <1>5, <1>6, <1>10, <1>12, <1>13 DEF BrowsingInv

LEMMA BrowsingStep ==
  ASSUME BrowsingInv, [BrowsingNext]_browsingVars
  PROVE  BrowsingInv' /\ [AllPausesKept]_browsingVars
<1>1. CASE UNCHANGED browsingVars
  BY <1>1 DEF browsingVars, BrowsingInv, BrowsingType, PassesExamine, FirstContent, BlindCounted, Blind
<1>2. CASE BrowsingNext
  BY <1>2, EditSteps, PageChangesStep, CheckMonitorStep, BeginPassStep, CommitPassStep, AbandonPassStep
  DEF BrowsingNext
<1> QED BY <1>1, <1>2

\* However many workers' passes overlap, the changes of a page that are swallowed in the life
\* of a monitor are fewer than the workers, and none with one: only a pass that loaded the
\* monitor before its first content replaces one without a report.
THEOREM ChangesAreReported == BrowsingSpec => []ChangesReported
<1>1. BrowsingInv => ChangesReported
  BY DEF BrowsingInv, BlindCounted, ChangesReported
<1> QED BY <1>1, BrowsingInitial, BrowsingStep, PTL DEF BrowsingSpec

\* No pass, whatever the owner did since it loaded the rows, takes back a pause but by
\* reporting the page: its commit writes the columns it changed, and the status it changes
\* only to triggered.
THEOREM PausesAreKept == BrowsingSpec => PausesKept
<1>1. AllPausesKept <=>
        \A m \in Monitors, w \in Pollers :
          pass[w].pc = "check" /\ pass'[w] = NoPass /\ monitor[m].status = "paused" =>
            \/ monitor'[m].status = "paused"
            \/ monitor'[m].status = "triggered" /\ pass[w].row[m].status = "triggered"
  BY DEF AllPausesKept, PauseKept
<1> QED BY <1>1, BrowsingInitial, BrowsingStep, PTL DEF BrowsingSpec, PausesKept

-----------------------------------------------------------------------------
(* Loops: LoopsRun for every number of loops and of restarts under way.    *)

TaskStates == {"none", "running", "cancelled", "done"}

LoopsType ==
  /\ current \in 0..MaxGeneration
  /\ loopTask \in [1..MaxGeneration -> [1..Loops -> TaskStates]]
  /\ restart = [r \in Restarts |-> restart[r]]
  /\ UnderWay # {} => current > 0

\* No loop runs that the dictionary has yet to hold.
NotYet == \A g \in 1..MaxGeneration, n \in 1..Loops :
            g > current => loopTask[g][n] # "running"

\* Restarts that do not overlap: none has left a loop running behind it, and the one
\* under way has cancelled them all.
Orderly ==
  ~overlapped =>
    /\ \A g \in 1..MaxGeneration, n \in 1..Loops : g < current => loopTask[g][n] # "running"
    /\ \A r, q \in UnderWay : r = q
    /\ UnderWay # {} => \A n \in 1..Loops : loopTask[current][n] # "running"

LoopsInv == LoopsType /\ NotYet /\ Orderly /\ LoopsKept

Begun == [n \in 1..Loops |-> "running"]

LEMMA Starting ==
  ASSUME LoopsInv, NEW was \in [1..MaxGeneration -> [1..Loops -> TaskStates]], StartAll(was)
  PROVE  /\ current' \in 1..MaxGeneration /\ current' = current + 1
         /\ loopTask' \in [1..MaxGeneration -> [1..Loops -> TaskStates]]
         /\ loopTask'[current'] = Begun
         /\ \A g \in 1..MaxGeneration : g # current' => loopTask'[g] = was[g]
<1>1. /\ current \in Nat /\ current + 1 \in 1..MaxGeneration /\ current' = current + 1
      /\ loopTask' = [was EXCEPT ![current + 1] = Begun]
  BY LoopsAssumption DEF LoopsInv, LoopsType, StartAll, Begun
<1>2. Begun \in [1..Loops -> TaskStates]
  BY DEF Begun, TaskStates
<1> HIDE DEF Begun
<1> QED BY <1>1, <1>2

\* All that may run after the start are the loops that are started, if those of was that
\* run are none.
LEMMA Started ==
  ASSUME LoopsInv, NEW was \in [1..MaxGeneration -> [1..Loops -> TaskStates]], StartAll(was),
         restart' = [r \in Restarts |-> restart'[r]],
         \A g \in 1..MaxGeneration, n \in 1..Loops :
           g > current => was[g][n] # "running",
         ~overlapped' => /\ UnderWay' = {}
                         /\ \A g \in 1..MaxGeneration, n \in 1..Loops :
                              g <= current => was[g][n] # "running"
  PROVE  LoopsInv'
<1>0. current \in Nat
  BY DEF LoopsInv, LoopsType
<1>1. /\ current' \in 1..MaxGeneration /\ current' = current + 1
      /\ loopTask' \in [1..MaxGeneration -> [1..Loops -> TaskStates]]
      /\ loopTask'[current'] = Begun
      /\ \A g \in 1..MaxGeneration : g # current' => loopTask'[g] = was[g]
  BY Starting
<1>2. LoopsType'
  BY <1>1 DEF LoopsType
<1>3. NotYet'
  BY <1>0, <1>1 DEF NotYet
<1>4. Orderly'
  BY <1>0, <1>1 DEF Orderly
<1>5. LoopsKept'
  BY <1>1 DEF LoopsKept, Begun
<1> QED BY <1>2, <1>3, <1>4, <1>5 DEF LoopsInv

\* A request that goes on to await a task of the dictionary.
LEMMA Awaiting ==
  ASSUME LoopsInv, NEW r \in Restarts, NEW at, current > 0, current' = current,
         restart' = [restart EXCEPT ![r] = [gen |-> current, at |-> at]],
         loopTask' \in [1..MaxGeneration -> [1..Loops -> TaskStates]],
         \A g \in 1..MaxGeneration, n \in 1..Loops :
           loopTask'[g][n] = "running" => loopTask[g][n] = "running",
         ~overlapped' => /\ ~overlapped /\ UnderWay \subseteq {r}
                         /\ \A n \in 1..Loops : loopTask'[current][n] # "running"
  PROVE  LoopsInv'
<1>1. /\ restart' = [q \in Restarts |-> restart'[q]]
      /\ \A q \in Restarts : q # r => restart'[q] = restart[q]
      /\ restart'[r] = [gen |-> current, at |-> at]
  BY DEF LoopsInv, LoopsType
<1>2. current \in Nat /\ restart'[r] # Idle
  <2>1. restart'[r].gen = current
    BY <1>1
  <2> QED BY <2>1 DEF Idle, LoopsInv, LoopsType
<1>3. r \in UnderWay' /\ UnderWay' \subseteq UnderWay \cup {r}
  BY <1>1, <1>2 DEF UnderWay
<1>4. LoopsType' /\ NotYet' /\ LoopsKept'
  BY <1>1, <1>3 DEF LoopsInv, LoopsType, NotYet, LoopsKept
<1>5. Orderly'
  BY <1>3 DEF LoopsInv, Orderly
<1> QED BY <1>4, <1>5 DEF LoopsInv

LEMMA LoopsInitial == LoopsInit => LoopsInv
<1> SUFFICES ASSUME LoopsInit PROVE LoopsInv
  OBVIOUS
<1>1. UnderWay = {}
  BY DEF LoopsInit, UnderWay
<1>2. LoopsType
  BY <1>1, LoopsAssumption DEF LoopsInit, LoopsType, TaskStates
<1>3. NotYet /\ Orderly /\ LoopsKept
  BY <1>1 DEF LoopsInit, NotYet, Orderly, LoopsKept
<1> QED BY <1>2, <1>3 DEF LoopsInv

LEMMA Ending ==
  ASSUME LoopsInv, NEW g \in 1..MaxGeneration, NEW n \in 1..Loops, TaskEnds(g, n)
  PROVE  LoopsInv'
<1>1. /\ loopTask' = [loopTask EXCEPT ![g][n] = "done"] /\ loopTask[g][n] = "cancelled"
      /\ UNCHANGED <<current, restart, overlapped>> /\ UnderWay' = UnderWay
  BY DEF TaskEnds, UnderWay
<1>2. /\ loopTask' \in [1..MaxGeneration -> [1..Loops -> TaskStates]]
      /\ \A h \in 1..MaxGeneration, k \in 1..Loops :
           /\ loopTask'[h][k] = "running" <=> loopTask[h][k] = "running"
  BY <1>1 DEF LoopsInv, LoopsType, TaskStates
<1>3. LoopsType' /\ NotYet' /\ Orderly'
  <2>1. current > 0 => current \in 1..MaxGeneration
    BY DEF LoopsInv, LoopsType
  <2>2. UnderWay # {} => current \in 1..MaxGeneration
    BY <2>1 DEF LoopsInv, LoopsType
  <2> QED BY <1>1, <1>2, <2>2 DEF LoopsInv, LoopsType, NotYet, Orderly
<1>4. LoopsKept'
  <2>1. current > 0 => current \in 1..MaxGeneration
    BY DEF LoopsInv, LoopsType
  <2> QED BY <1>1, <1>2, <2>1 DEF LoopsInv, LoopsKept
<1> QED BY <1>3, <1>4 DEF LoopsInv

LEMMA Proceeding ==
  ASSUME LoopsInv, NEW r \in Restarts, NEW from, current > 0,
         NEW was \in [1..MaxGeneration -> [1..Loops -> TaskStates]], Proceed(r, from, was),
         \A g \in 1..MaxGeneration, n \in 1..Loops :
           was[g][n] = "running" => loopTask[g][n] = "running",
         ~overlapped' => /\ ~overlapped /\ UnderWay \subseteq {r}
                         /\ \A n \in 1..Loops : was[current][n] # "running"
  PROVE  LoopsInv'
<1> DEFINE left == {n \in (from + 1)..Loops : was[current][n] # "done"}
           at == CHOOSE n \in left : \A k \in left : n <= k
<1>1. CASE /\ loopTask' = was /\ UNCHANGED current
           /\ restart' = [restart EXCEPT ![r] = [gen |-> current, at |-> at]]
  <2> HIDE DEF at
  <2> QED BY <1>1, Awaiting
<1>2. CASE restart' = [restart EXCEPT ![r] = Idle] /\ StartAll(was)
  <2>1. restart' = [q \in Restarts |-> restart'[q]]
    BY <1>2 DEF LoopsInv, LoopsType
  <2>2. UnderWay' = UnderWay \ {r}
    BY <1>2 DEF LoopsInv, LoopsType, UnderWay
  <2>3. \A g \in 1..MaxGeneration, n \in 1..Loops : g > current => was[g][n] # "running"
    BY DEF LoopsInv, NotYet
  <2>4. ASSUME ~overlapped'
        PROVE  /\ UnderWay' = {}
               /\ \A g \in 1..MaxGeneration, n \in 1..Loops :
                    g <= current => was[g][n] # "running"
    <3>1. ~overlapped /\ UnderWay \subseteq {r} /\ \A n \in 1..Loops : was[current][n] # "running"
      BY <2>4
    <3>2. \A g \in 1..MaxGeneration, n \in 1..Loops : g < current => was[g][n] # "running"
      BY <3>1 DEF LoopsInv, Orderly
    <3>3. \A g \in 1..MaxGeneration : g <= current => g < current \/ g = current
      BY DEF LoopsInv, LoopsType
    <3> QED BY <2>2, <3>1, <3>2, <3>3
  <2> QED BY <1>2, <2>1, <2>3, <2>4, Started
<1> QED BY <1>1, <1>2 DEF Proceed

LEMMA Cancelled ==
  ASSUME LoopsInv, current > 0
  PROVE  /\ CancelAll \in [1..MaxGeneration -> [1..Loops -> TaskStates]]
         /\ \A g \in 1..MaxGeneration, n \in 1..Loops :
              CancelAll[g][n] = "running" => loopTask[g][n] = "running"
         /\ \A n \in 1..Loops : CancelAll[current][n] # "running"
<1> DEFINE new == [n \in 1..Loops |-> IF loopTask[current][n] = "running" THEN "cancelled"
                                      ELSE loopTask[current][n]]
<1>1. current \in 1..MaxGeneration
  BY DEF LoopsInv, LoopsType
<1>2. CancelAll = [loopTask EXCEPT ![current] = new]
  BY DEF CancelAll
<1>3. new \in [1..Loops -> TaskStates] /\ \A n \in 1..Loops : new[n] # "running"
  BY <1>1 DEF LoopsInv, LoopsType, TaskStates
<1> HIDE DEF new
<1>4. CancelAll[current] = new /\ \A g \in 1..MaxGeneration : g # current => CancelAll[g] = loopTask[g]
  BY <1>1, <1>2 DEF LoopsInv, LoopsType
<1>5. CancelAll \in [1..MaxGeneration -> [1..Loops -> TaskStates]]
  BY <1>1, <1>2, <1>3 DEF LoopsInv, LoopsType
<1> QED BY <1>3, <1>4, <1>5

LEMMA Restarting ==
  ASSUME LoopsInv, NEW r \in Restarts, RestartAll(r) \/ Resume(r)
  PROVE  LoopsInv'
<1>1. CASE RestartAll(r)
  <2>1. current > 0 /\ Proceed(r, 0, CancelAll) /\ overlapped' = (overlapped \/ UnderWay # {})
    BY <1>1 DEF RestartAll
  <2> QED BY <2>1, Cancelled, Proceeding
<1>2. CASE Resume(r)
  <2>1. r \in UnderWay /\ Proceed(r, restart[r].at, loopTask) /\ overlapped' = overlapped
    BY <1>2 DEF Resume, UnderWay
  <2>2. current > 0 /\ loopTask \in [1..MaxGeneration -> [1..Loops -> TaskStates]]
    BY <2>1 DEF LoopsInv, LoopsType
  <2>3. ~overlapped' => /\ ~overlapped /\ UnderWay \subseteq {r}
                        /\ \A n \in 1..Loops : loopTask[current][n] # "running"
    BY <2>1 DEF LoopsInv, Orderly
  <2> QED BY <2>1, <2>2, <2>3, Proceeding
<1> QED BY <1>1, <1>2

LEMMA LoopsStepKeeps == LoopsInv /\ [LoopsNext]_loopVars => LoopsInv'
<1> SUFFICES ASSUME LoopsInv, [LoopsNext]_loopVars PROVE LoopsInv'
  OBVIOUS
<1>1. CASE UNCHANGED loopVars
  BY <1>1 DEF loopVars, LoopsInv, LoopsType, NotYet, Orderly, LoopsKept, UnderWay
<1>2. CASE Lifespan
  <2>1. current = 0 /\ StartAll(loopTask) /\ UNCHANGED <<restart, overlapped>>
    BY <1>2 DEF Lifespan
  <2>2. UnderWay = {} /\ UnderWay' = {}
    BY <2>1 DEF LoopsInv, LoopsType, UnderWay
  <2>3. /\ restart' = [r \in Restarts |-> restart'[r]]
        /\ loopTask \in [1..MaxGeneration -> [1..Loops -> TaskStates]]
    BY <2>1 DEF LoopsInv, LoopsType
  <2>4. \A g \in 1..MaxGeneration, n \in 1..Loops :
          /\ g > current => loopTask[g][n] # "running"
          /\ ~(g <= current)
    BY <2>1 DEF LoopsInv, NotYet
  <2> QED BY <2>1, <2>2, <2>3, <2>4, Started
<1> QED BY <1>1, <1>2, Ending, Restarting DEF LoopsNext, LoopsStep

\* Restarts neither lose a loop nor, unless they overlap, double it: whatever number of
\* loops restart_all() of background_loops.py is asked to restart, and however often.
THEOREM RestartsAreSound == LoopsSpec => []LoopsRun
<1>1. LoopsInv => LoopsRun
  <2> SUFFICES ASSUME LoopsInv PROVE LoopsRun
    OBVIOUS
  <2>1. ASSUME ~overlapped, NEW n \in 1..Loops PROVE Cardinality(Running(n)) <= 1
    <3>1. Running(n) \subseteq {current}
      <4>1. ASSUME NEW g \in Running(n) PROVE g = current
        <5>1. g \in 1..MaxGeneration /\ loopTask[g][n] = "running" /\ current \in Nat
          BY DEF Running, LoopsInv, LoopsType
        <5>2. ~(g < current) /\ ~(g > current)
          BY <2>1, <5>1 DEF LoopsInv, Orderly, NotYet
        <5> QED BY <5>1, <5>2
      <4> QED BY <4>1
    <3>2. IsFiniteSet({current}) /\ Cardinality({current}) = 1
      BY FS_Singleton
    <3>3. Cardinality(Running(n)) <= Cardinality({current})
      BY <3>1, <3>2, FS_Subset
    <3> QED BY <3>2, <3>3
  <2>2. LoopsKept
    BY DEF LoopsInv
  <2> QED BY <2>1, <2>2 DEF LoopsRun, NoTwins
<1> QED BY <1>1, LoopsInitial, LoopsStepKeeps, PTL DEF LoopsSpec

-----------------------------------------------------------------------------
(* Accounts: AccountsSound for every number of owners, addresses, Google   *)
(* accounts and requests. A profile is carried by the request that saved   *)
(* it until a row names it (CarriedOnce); that a linked row has had the    *)
(* address of its Google account (RowsWell) is what explains a link that   *)
(* changed.                                                                *)

Values == Addresses \cup Googles \cup {NoGoogle} \cup Nat
AccountRows == [Columns -> Values]
CallStates ==
  [op : {"none", "setup", "update", "password", "google", "enroll", "check"},
   pc : {"none", "insert", "commit", "mail", "face", "voice"},
   of : Owners \cup {0}, was : AccountRows, new : AccountRows, by : Googles \cup {NoGoogle}]

AccountsType ==
  /\ owner \in [Owners -> AccountRows] /\ wrote = owner
  /\ call \in [Calls -> CallStates]
  /\ had \in [Owners -> SUBSET Addresses] /\ home \in [Googles -> Owners \cup {0}]
  /\ storage \subseteq Nat \ {0}
  /\ accountsLeft \in [{"setup", "google", "edit", "password", "profile", "check", "death"} -> Nat]

\* A row that exists has had its own address, and that of the Google account it is linked
\* to; no two are linked to one.
RowsWell ==
  /\ \A o \in Existing :
       /\ owner[o]["email"] \in Addresses /\ Lower[owner[o]["email"]] \in had[o]
       /\ owner[o]["google"] \in Googles \cup {NoGoogle}
       /\ owner[o]["google"] # NoGoogle => MailOf[owner[o]["google"]] \in had[o]
  /\ \A o \in Existing, p \in Existing :
       owner[o]["google"] = owner[p]["google"] /\ owner[o]["google"] # NoGoogle => o = p

\* A row somebody has signed in to by Google never loses its link, though it may change.
HomesLinked ==
  \A g \in Googles : home[g] # 0 => home[g] \in Existing /\ owner[home[g]]["google"] # NoGoogle

Differs(w) == {c \in Columns : w.new[c] # w.was[c]}

\* The numbers of profiles on disk that a request may still write into a row.
Carried(w) ==
  IF w.op # "enroll" THEN {}
  ELSE IF w.pc = "commit" THEN {w.new[k] : k \in Kinds \cap Differs(w)}
  ELSE {w.new[k] : k \in Kinds \cap {w.pc}}

\* What a request has read and is about to write.
WellInsert(w) ==
  /\ w.op \in {"setup", "google"}
  /\ w.new["email"] \in Addresses /\ w.new["face"] = 0 /\ w.new["voice"] = 0
  /\ w.new["google"] = w.by
  /\ w.by # NoGoogle => w.by \in Googles /\ MailOf[w.by] = w.new["email"]
  /\ w.op = "google" => w.by \in Googles

WellCommit(w) ==
  /\ w.of \in Existing /\ w.new["email"] \in Addresses
  /\ w.op \in {"update", "password", "google", "enroll"}
  /\ w.op # "enroll" => Kinds \cap Differs(w) = {}
  /\ w.op = "enroll" => \E k \in Kinds : Differs(w) \subseteq {k}
  /\ w.op # "google" => "google" \notin Differs(w)
  /\ w.op = "google" =>
       /\ w.by \in Googles /\ w.new["google"] = w.by /\ MailOf[w.by] \in had[w.of]
       /\ w.was["google"] # NoGoogle => owner[w.of]["google"] # NoGoogle

WellCall(w) ==
  /\ w.pc = "insert" => WellInsert(w)
  /\ w.pc = "commit" => WellCommit(w)
  /\ w.op = "google" => w.by \in Googles
  /\ w.op = "enroll" /\ w.pc \in Kinds => w.of \in Existing
  /\ w.op = "check" => w.pc \in Kinds /\ w.was[w.pc] \in storage

CallsWell == \A r \in Calls : WellCall(call[r])

\* The profiles are numbered as they are saved; each is named by one row at most, once.
ProfilesNumbered ==
  /\ IsFiniteSet(storage) /\ storage = 1..Cardinality(storage)
  /\ \A o \in Owners, k \in Kinds :
       owner[o][k] # 0 =>
         /\ owner[o][k] \in storage
         /\ \A p \in Owners, l \in Kinds : owner[p][l] = owner[o][k] => p = o /\ l = k
  /\ \A c \in checks : c.against \in storage

\* One that is carried is on disk, in no row and in no other request.
CarriedOnce ==
  \A r \in Calls : \A n \in Carried(call[r]) :
    /\ n \in storage
    /\ \A o \in Owners, k \in Kinds : owner[o][k] # n
    /\ \A q \in Calls : n \in Carried(call[q]) => q = r

AccountsInv ==
  AccountsType /\ RowsWell /\ HomesLinked /\ CallsWell /\ ProfilesNumbered /\ CarriedOnce

LEMMA FieldIs ==
  \A x : /\ x.email = x["email"] /\ x.google = x["google"] /\ x.password = x["password"]
         /\ x.face = x["face"] /\ x.voice = x["voice"]
OBVIOUS

LEMMA NoRowIs == NoRow \in AccountRows /\ \A c \in Columns : NoRow[c] = 0
BY DEF NoRow, AccountRows, Values

LEMMA NoCallIs ==
  /\ NoCall \in CallStates /\ NoCall.op = "none" /\ NoCall.pc = "none" /\ NoCall.of = 0
  /\ NoCall.was = NoRow /\ NoCall.new = NoRow /\ NoCall.by = NoGoogle
  /\ WellCall(NoCall) /\ Carried(NoCall) = {}
BY NoRowIs DEF NoCall, CallStates, WellCall, Carried, Kinds

LEMMA ColumnsAre ==
  /\ Kinds \subseteq Columns /\ \A k \in Kinds : k \notin {"email", "google", "password"}
  /\ {"email", "google", "password", "face", "voice"} = Columns
BY DEF Columns, Kinds

LEMMA AccountsInitial == AccountsInit => AccountsInv
<1> SUFFICES ASSUME AccountsInit PROVE AccountsInv
  OBVIOUS
<1>1. AccountsType
  BY NoRowIs, NoCallIs, AccountsAssumption DEF AccountsInit, AccountsType
<1>2. Existing = {}
  BY DEF AccountsInit, Existing
<1>3. RowsWell /\ HomesLinked
  BY <1>2 DEF RowsWell, HomesLinked, AccountsInit
<1>4. CallsWell /\ CarriedOnce
  BY NoCallIs DEF CallsWell, CarriedOnce, AccountsInit
<1>5. storage = {} /\ IsFiniteSet(storage) /\ Cardinality(storage) = 0
  BY FS_EmptySet DEF AccountsInit
<1>6. ProfilesNumbered
  BY <1>5, NoRowIs, ColumnsAre DEF ProfilesNumbered, AccountsInit
<1> QED BY <1>1, <1>3, <1>4, <1>6 DEF AccountsInv

\* A request goes on by itself: the tables stay, and it carries no profile it did not.
LEMMA CallMoves ==
  ASSUME AccountsInv, NEW r \in Calls, NEW w \in CallStates, call' = [call EXCEPT ![r] = w],
         UNCHANGED <<owner, wrote, had>>,
         storage \subseteq storage', storage' \subseteq Nat \ {0},
         IsFiniteSet(storage'), storage' = 1..Cardinality(storage'),
         \A c \in checks' : c.against \in storage',
         home' \in [Googles -> Owners \cup {0}], HomesLinked',
         accountsLeft' \in [{"setup", "google", "edit", "password", "profile", "check", "death"} -> Nat],
         WellCall(w)', Carried(w) \subseteq Carried(call[r]) \cup (storage' \ storage)
  PROVE  AccountsInv'
<1>1. \A q \in Calls : call'[q] = IF q = r THEN w ELSE call[q]
  BY DEF AccountsInv, AccountsType
<1>2. AccountsType'
  BY DEF AccountsInv, AccountsType
<1>3. RowsWell'
  BY DEF AccountsInv, RowsWell, Existing
<1>4. CallsWell'
  <2> SUFFICES ASSUME NEW q \in Calls, NEW v, v = call'[q] PROVE WellCall(v)'
    BY DEF CallsWell, WellCall, WellInsert, WellCommit
  <2>1. CASE q = r
    BY <1>1, <2>1
  <2>2. CASE q # r
    <3>1. WellCall(v)
      BY <1>1, <2>2 DEF AccountsInv, CallsWell
    <3> QED BY <3>1 DEF WellCall, WellInsert, WellCommit, Existing
  <2> QED BY <2>1, <2>2
<1>5. ProfilesNumbered'
  <2>1. \A o \in Owners, k \in Kinds :
          owner[o][k] # 0 =>
            /\ owner[o][k] \in storage'
            /\ \A p \in Owners, l \in Kinds : owner[p][l] = owner[o][k] => p = o /\ l = k
    BY DEF AccountsInv, ProfilesNumbered
  <2>2. owner' = owner
    OBVIOUS
  <2>3. \A o \in Owners, k \in Kinds :
          owner'[o][k] # 0 =>
            /\ owner'[o][k] \in storage'
            /\ \A p \in Owners, l \in Kinds : owner'[p][l] = owner'[o][k] => p = o /\ l = k
    BY <2>1, <2>2
  <2> QED BY <2>3 DEF ProfilesNumbered
<1>6. CarriedOnce'
  <2> SUFFICES ASSUME NEW q \in Calls, NEW n \in Carried(call'[q])
               PROVE /\ n \in storage'
                     /\ \A o \in Owners, k \in Kinds : owner[o][k] # n
                     /\ \A p \in Calls : n \in Carried(call'[p]) => p = q
    BY DEF CarriedOnce
  <2>1. \A p \in Calls : Carried(call'[p]) \subseteq Carried(call[p]) \cup (storage' \ storage)
    BY <1>1
  <2>2. \A p \in Calls : p # r => Carried(call'[p]) = Carried(call[p])
    BY <1>1
  <2>3. \A o \in Owners, k \in Kinds : owner[o][k] = 0 \/ owner[o][k] \in storage
    BY DEF AccountsInv, ProfilesNumbered
  <2>4. \A p \in Calls : Carried(call[p]) \subseteq storage
    BY DEF AccountsInv, CarriedOnce
  <2>5. n \in storage'
    BY <2>1, <2>4
  <2>6. CASE n \in storage
    BY <2>1, <2>5, <2>6 DEF AccountsInv, CarriedOnce
  <2>7. CASE n \notin storage
    <3>1. \A p \in Calls : n \in Carried(call'[p]) => p = r
      BY <2>2, <2>4, <2>7
    <3> QED BY <2>3, <2>5, <2>7, <3>1
  <2> QED BY <2>6, <2>7
<1> QED BY <1>2, <1>3, <1>4, <1>5, <1>6 DEF AccountsInv

\* A request writes a row, by an insert or an update, and ends.
LEMMA RowMoves ==
  ASSUME AccountsInv, NEW r \in Calls, call' = [call EXCEPT ![r] = NoCall],
         NEW o \in Owners, NEW row \in AccountRows,
         owner' = [owner EXCEPT ![o] = row], wrote' = [wrote EXCEPT ![o] = row],
         had' = [had EXCEPT ![o] = had[o] \cup {Lower[row["email"]]}],
         UNCHANGED <<storage, checks, accountsLeft>>,
         \/ home' = home
         \/ row["google"] # NoGoogle /\ \E g \in Googles : home' = [home EXCEPT ![g] = o],
         row["email"] \in Addresses, row["google"] \in Googles \cup {NoGoogle},
         row["google"] # NoGoogle => MailOf[row["google"]] \in had'[o],
         o \in Existing /\ owner[o]["google"] # NoGoogle => row["google"] # NoGoogle,
         \A p \in Existing \ {o} : row["google"] # NoGoogle => owner[p]["google"] # row["google"],
         \E k \in Kinds : \A l \in Kinds \ {k} : row[l] = owner[o][l],
         \A k \in Kinds : row[k] = owner[o][k] \/ row[k] \in Carried(call[r])
  PROVE  AccountsInv'
<1>1. \A q \in Calls : call'[q] = IF q = r THEN NoCall ELSE call[q]
  BY DEF AccountsInv, AccountsType
<1>2. \A p \in Owners : owner'[p] = IF p = o THEN row ELSE owner[p]
  BY DEF AccountsInv, AccountsType
<1>3. \A p \in Owners : had'[p] = IF p = o THEN had[o] \cup {Lower[row["email"]]} ELSE had[p]
  BY DEF AccountsInv, AccountsType
<1>4. row # NoRow /\ Existing' = Existing \cup {o}
  <2>1. row # NoRow
    BY NoRowIs, ColumnsAre, AccountsAssumption
  <2> QED BY <1>2, <2>1 DEF Existing, NoRow
<1>10. home' \in [Googles -> Owners \cup {0}]
  BY DEF AccountsInv, AccountsType
<1>11. HomesLinked'
  <2> SUFFICES ASSUME NEW g \in Googles, home'[g] # 0
               PROVE  home'[g] \in Existing' /\ owner'[home'[g]]["google"] # NoGoogle
    BY DEF HomesLinked
  <2>1. CASE home'[g] = o /\ row["google"] # NoGoogle
    BY <1>2, <1>4, <2>1
  <2>2. CASE home'[g] = home[g]
    BY <1>2, <1>4, <2>2 DEF AccountsInv, HomesLinked, Existing
  <2> QED BY <2>1, <2>2 DEF AccountsInv, AccountsType
<1>5. AccountsType'
  <2>1. Lower[row["email"]] \in Addresses
    BY AccountsAssumption
  <2> QED BY <1>10, <2>1, NoCallIs DEF AccountsInv, AccountsType
<1>6. RowsWell'
  <2>1. ASSUME NEW p \in Existing'
        PROVE  /\ owner'[p]["email"] \in Addresses /\ Lower[owner'[p]["email"]] \in had'[p]
               /\ owner'[p]["google"] \in Googles \cup {NoGoogle}
               /\ owner'[p]["google"] # NoGoogle => MailOf[owner'[p]["google"]] \in had'[p]
    BY <1>2, <1>3, <1>4, <2>1 DEF AccountsInv, RowsWell, Existing
  <2>2. ASSUME NEW p \in Existing', NEW q \in Existing',
               owner'[p]["google"] = owner'[q]["google"], owner'[p]["google"] # NoGoogle
        PROVE  p = q
    BY <1>2, <1>4, <2>2 DEF AccountsInv, RowsWell, Existing
  <2> QED BY <2>1, <2>2 DEF RowsWell
<1>7. CallsWell'
  <2> SUFFICES ASSUME NEW q \in Calls, NEW w, w = call'[q] PROVE WellCall(w)'
    BY DEF CallsWell, WellCall, WellInsert, WellCommit
  <2>1. CASE q = r
    BY <1>1, <2>1, NoCallIs DEF WellCall, Kinds
  <2>2. CASE q # r
    <3>1. w = call[q] /\ WellCall(w) /\ w \in CallStates
      BY <1>1, <2>2 DEF AccountsInv, AccountsType, CallsWell
    <3>2. \A p \in Existing : p \in Existing' /\ had[p] \subseteq had'[p]
      BY <1>3, <1>4 DEF Existing
    <3>3. \A p \in Existing : owner[p]["google"] # NoGoogle => owner'[p]["google"] # NoGoogle
      BY <1>2 DEF Existing
    <3>4. WellInsert(w) => WellInsert(w)'
      BY DEF WellInsert
    <3>5. WellCommit(w) => WellCommit(w)'
      BY <3>2, <3>3 DEF WellCommit
    <3> QED BY <3>1, <3>2, <3>4, <3>5 DEF WellCall
  <2> QED BY <2>1, <2>2
<1>8. ProfilesNumbered'
  <2>1. PICK j \in Kinds : \A l \in Kinds \ {j} : row[l] = owner[o][l]
    OBVIOUS
  <2>2. \A n \in Carried(call[r]) : n \in storage /\ \A p \in Owners, k \in Kinds : owner[p][k] # n
    BY DEF AccountsInv, CarriedOnce
  <2>3. ASSUME NEW p \in Owners, NEW k \in Kinds, owner'[p][k] # 0
        PROVE  owner'[p][k] \in storage
    BY <1>2, <2>2, <2>3 DEF AccountsInv, ProfilesNumbered
  <2>4. ASSUME NEW p \in Owners, NEW k \in Kinds, owner'[p][k] # 0,
               NEW q \in Owners, NEW l \in Kinds, owner'[q][l] = owner'[p][k]
        PROVE  q = p /\ l = k
    <3>1. CASE owner'[p][k] = owner[p][k] /\ owner'[q][l] = owner[q][l]
      BY <2>4, <3>1 DEF AccountsInv, ProfilesNumbered
    <3>2. CASE owner'[p][k] # owner[p][k] /\ owner'[q][l] # owner[q][l]
      BY <1>2, <2>1, <3>2
    <3>3. CASE owner'[p][k] # owner[p][k] /\ owner'[q][l] = owner[q][l]
      BY <1>2, <2>2, <2>4, <3>3
    <3>4. CASE owner'[p][k] = owner[p][k] /\ owner'[q][l] # owner[q][l]
      BY <1>2, <2>2, <2>4, <3>4
    <3> QED BY <3>1, <3>2, <3>3, <3>4
  <2> QED BY <2>3, <2>4 DEF AccountsInv, ProfilesNumbered
<1>9. CarriedOnce'
  <2> SUFFICES ASSUME NEW q \in Calls, NEW n \in Carried(call'[q])
               PROVE /\ n \in storage
                     /\ \A p \in Owners, k \in Kinds : owner'[p][k] # n
                     /\ \A p \in Calls : n \in Carried(call'[p]) => p = q
    BY DEF CarriedOnce
  <2>1. q # r /\ n \in Carried(call[q]) /\ n \notin Carried(call[r])
    BY <1>1, NoCallIs DEF AccountsInv, CarriedOnce
  <2>2. /\ n \in storage /\ \A p \in Owners, k \in Kinds : owner[p][k] # n
        /\ \A p \in Calls : n \in Carried(call[p]) => p = q
    BY <2>1 DEF AccountsInv, CarriedOnce
  <2> QED BY <1>1, <1>2, <2>1, <2>2, NoCallIs
<1> QED BY <1>5, <1>6, <1>7, <1>8, <1>9, <1>11 DEF AccountsInv

LEMMA LeastIs ==
  ASSUME NEW S \in SUBSET Nat, S # {}
  PROVE  \E m \in S : \A n \in S : m <= n
<1>1. PICK m \in S : \A n \in S : <<n, m>> \notin OpToRel(<, Nat)
  BY NatLessThanWellFounded, WFMin
<1>2. \A n \in S : ~(n < m)
  BY <1>1 DEF OpToRel
<1> QED BY <1>2

LEMMA NextIdIs ==
  ASSUME Existing # Owners
  PROVE  NextId \in Owners \ Existing
<1>1. Owners \ Existing \in SUBSET Nat /\ Owners \ Existing # {}
  BY AccountsAssumption DEF Existing
<1>2. \E m \in Owners \ Existing : \A n \in Owners \ Existing : m <= n
  BY <1>1, LeastIs
<1> QED BY <1>2 DEF NextId

\* The row a request starts from, and what it means to change in it.
StartedAs(w, r, op, pc, o, new) ==
  /\ call' = [call EXCEPT ![r] = w] /\ w.op = op /\ w.pc = pc /\ w.of = o
  /\ w.was = owner[o] /\ w.new = new /\ w.by = NoGoogle

LEMMA StartIs ==
  ASSUME AccountsInv, NEW r, NEW op, NEW pc, NEW o \in Owners, NEW new \in AccountRows,
         Start(r, op, pc, o, new),
         op \in {"none", "setup", "update", "password", "google", "enroll", "check"},
         pc \in {"none", "insert", "commit", "mail", "face", "voice"}
  PROVE  \E w \in CallStates : StartedAs(w, r, op, pc, o, new)
<1> DEFINE w == [NoCall EXCEPT !.op = op, !.pc = pc, !.of = o, !.was = owner[o], !.new = new]
<1>1. owner[o] \in AccountRows /\ o \in Owners \cup {0}
  BY DEF AccountsInv, AccountsType
<1>2. w \in CallStates
  BY <1>1, NoCallIs, Zenon DEF CallStates
<1>3. w.op = op /\ w.pc = pc /\ w.of = o /\ w.was = owner[o] /\ w.new = new /\ w.by = NoGoogle
  BY NoCallIs, Zenon DEF CallStates
<1>4. call' = [call EXCEPT ![r] = w]
  BY Zenon DEF Start
<1> HIDE DEF w
<1> QED BY <1>2, <1>3, <1>4 DEF StartedAs

\* A request that only ends, or goes on with what it carries.
LEMMA CallGoesOn ==
  ASSUME AccountsInv, NEW r \in Calls, NEW w \in CallStates, call' = [call EXCEPT ![r] = w],
         UNCHANGED <<owner, wrote, had, storage, checks, home>>,
         accountsLeft' \in [{"setup", "google", "edit", "password", "profile", "check", "death"} -> Nat],
         WellCall(w), Carried(w) \subseteq Carried(call[r])
  PROVE  AccountsInv'
<1>1. HomesLinked'
  BY DEF AccountsInv, HomesLinked, Existing
<1>2. WellCall(w)'
  BY DEF WellCall, WellInsert, WellCommit, Existing
<1> QED BY <1>1, <1>2, CallMoves DEF AccountsInv, AccountsType, ProfilesNumbered

LEMMA SpendIs ==
  ASSUME AccountsInv,
         NEW what \in {"setup", "google", "edit", "password", "profile", "check", "death"},
         Spend(what)
  PROVE  accountsLeft' \in [{"setup", "google", "edit", "password", "profile", "check", "death"} -> Nat]
BY DEF AccountsInv, AccountsType, Spend

LEMMA EndStep ==
  ASSUME AccountsInv, NEW r \in Calls, End(r),
         UNCHANGED <<owner, wrote, had, storage, checks, home>>,
         accountsLeft' \in [{"setup", "google", "edit", "password", "profile", "check", "death"} -> Nat]
  PROVE  AccountsInv'
BY NoCallIs, CallGoesOn DEF End

LEMMA AccountIs ==
  ASSUME NEW email \in Addresses, NEW google \in Googles \cup {NoGoogle}
  PROVE  /\ Account(email, google) \in AccountRows
         /\ Account(email, google)["email"] = email /\ Account(email, google)["google"] = google
         /\ Account(email, google)["face"] = 0 /\ Account(email, google)["voice"] = 0
BY ColumnsAre DEF Account, AccountRows, Values

LEMMA SetupOwnerStep ==
  ASSUME AccountsInv, NEW r \in Calls, NEW email \in Addresses, SetupOwner(r, email)
  PROVE  AccountsInv'
<1> DEFINE row == Account(email, NoGoogle)
           w == [NoCall EXCEPT !.op = "setup", !.pc = "insert", !.new = row]
<1>1. /\ row \in AccountRows /\ row["email"] = email /\ row["google"] = NoGoogle
      /\ row["face"] = 0 /\ row["voice"] = 0
  BY AccountIs
<1>2. call' = [call EXCEPT ![r] = w] /\ UNCHANGED <<owner, wrote, had, storage, checks, home>>
      /\ Spend("setup")
  BY DEF SetupOwner
<1> HIDE DEF row
<1>3. /\ "setup" \in {"none", "setup", "update", "password", "google", "enroll", "check"}
      /\ "insert" \in {"none", "insert", "commit", "mail", "face", "voice"}
  OBVIOUS
<1>4. w \in CallStates /\ w.op = "setup" /\ w.pc = "insert" /\ w.new = row /\ w.by = NoGoogle
  BY <1>1, <1>3, NoCallIs, Zenon DEF CallStates
<1> HIDE DEF w
<1>5. WellCall(w) /\ Carried(w) = {}
  BY <1>1, <1>4 DEF WellCall, WellInsert, Carried, Kinds
<1> QED BY <1>2, <1>4, <1>5, SpendIs, CallGoesOn

\* A new row.
LEMMA InsertStep ==
  ASSUME AccountsInv, NEW r \in Calls, call[r].pc = "insert", Existing # Owners,
         ~Clash(0, call[r].new), Insert(NextId, call[r].new), End(r),
         UNCHANGED <<storage, checks, accountsLeft>>,
         \/ home' = home
         \/ call[r].by \in Googles /\ home' = [home EXCEPT ![call[r].by] = NextId]
  PROVE  AccountsInv'
<1> DEFINE o == NextId
           row == call[r].new
<1>1. /\ row \in AccountRows /\ WellInsert(call[r]) /\ call[r].by \in Googles \cup {NoGoogle}
  BY DEF AccountsInv, AccountsType, CallStates, CallsWell, WellCall
<1>2. o \in Owners /\ o \notin Existing /\ owner[o] = NoRow
  BY NextIdIs DEF Existing
<1>3. /\ owner' = [owner EXCEPT ![o] = row] /\ wrote' = [wrote EXCEPT ![o] = row]
      /\ had' = [had EXCEPT ![o] = had[o] \cup {Lower[row["email"]]}]
      /\ call' = [call EXCEPT ![r] = NoCall]
  BY FieldIs DEF Insert, End
<1>4. /\ row["email"] \in Addresses /\ row["google"] = call[r].by
      /\ row["google"] # NoGoogle => MailOf[row["google"]] = row["email"] /\ row["google"] \in Googles
      /\ \A k \in Kinds : row[k] = 0
  BY <1>1 DEF WellInsert, Kinds
<1>5. row["google"] # NoGoogle => MailOf[row["google"]] \in had'[o]
  BY <1>2, <1>3, <1>4, AccountsAssumption DEF AccountsInv, AccountsType
<1>6. \A p \in Existing \ {o} : row["google"] # NoGoogle => owner[p]["google"] # row["google"]
  BY FieldIs, AccountsAssumption DEF Clash, Existing
<1>7. \A k \in Kinds : owner[o][k] = row[k]
  BY <1>2, <1>4, NoRowIs, ColumnsAre
<1>8. /\ \E k \in Kinds : \A l \in Kinds \ {k} : row[l] = owner[o][l]
      /\ \A k \in Kinds : row[k] = owner[o][k] \/ row[k] \in Carried(call[r])
  BY <1>7 DEF Kinds
<1>9. call[r].by \in Googles => row["google"] # NoGoogle
  BY <1>4, AccountsAssumption
<1>10. \/ home' = home
       \/ row["google"] # NoGoogle /\ \E g \in Googles : home' = [home EXCEPT ![g] = o]
  BY <1>9
<1> HIDE DEF o, row
<1> QED BY <1>1, <1>2, <1>3, <1>4, <1>5, <1>6, <1>8, <1>10, RowMoves

LEMMA InsertOwnerStep ==
  ASSUME AccountsInv, NEW r \in Calls, InsertOwner(r)
  PROVE  AccountsInv'
BY InsertStep DEF InsertOwner, Is

LEMMA InsertViaGoogleStep ==
  ASSUME AccountsInv, NEW r \in Calls, InsertViaGoogle(r)
  PROVE  AccountsInv'
<1>1. call[r].by \in Googles
  BY DEF InsertViaGoogle, Is, AccountsInv, CallsWell, WellCall
<1> QED BY <1>1, InsertStep DEF InsertViaGoogle, Is

\* The columns a request changed, over the row as it is now.
LEMMA CommitStep ==
  ASSUME AccountsInv, NEW r \in Calls, call[r].pc = "commit", Commit(r),
         UNCHANGED <<storage, checks, accountsLeft>>,
         \/ home' = home
         \/ call[r].op = "google" /\ home' = [home EXCEPT ![call[r].by] = call[r].of]
  PROVE  AccountsInv'
<1>1. PICK o \in Owners : call[r].of = o /\ o \in Existing
  BY DEF AccountsInv, CallsWell, WellCall, WellCommit, Existing
<1>2. PICK row : row = Updated(r, owner[o])
  OBVIOUS
<1>3. /\ call[r].new \in AccountRows /\ call[r].was \in AccountRows /\ owner[o] \in AccountRows
      /\ WellCommit(call[r])
  BY DEF AccountsInv, AccountsType, CallStates, CallsWell, WellCall
<1>4. /\ row \in AccountRows
      /\ \A c \in Columns : row[c] = IF c \in Differs(call[r]) THEN call[r].new[c] ELSE owner[o][c]
  BY <1>2, <1>3 DEF Updated, Changed, Differs, AccountRows
<1>5. /\ ~Clash(o, row) /\ owner' = [owner EXCEPT ![o] = row]
      /\ had' = [had EXCEPT ![o] = had[o] \cup {Lower[row["email"]]}]
      /\ call' = [call EXCEPT ![r] = NoCall]
  BY <1>1, <1>2, FieldIs DEF Commit, End
<1>6. wrote' = [wrote EXCEPT ![o] = row]
  <2>1. wrote' = [wrote EXCEPT ![o] = [c \in Columns |-> IF c \in Changed(r) THEN call[r].new[c]
                                                         ELSE wrote[o][c]]]
    BY <1>1 DEF Commit
  <2>2. wrote[o] = owner[o]
    BY DEF AccountsInv, AccountsType
  <2> QED BY <1>2, <2>1, <2>2 DEF Updated
<1>7. row["email"] \in Addresses
  BY <1>1, <1>3, <1>4, ColumnsAre DEF WellCommit, AccountsInv, RowsWell
<1>8. /\ \/ row["google"] = owner[o]["google"]
         \/ call[r].op = "google" /\ row["google"] = call[r].by
      /\ call[r].op = "google" => row["google"] # NoGoogle
      /\ owner[o]["google"] # NoGoogle => row["google"] # NoGoogle
  <2>1. row["google"] = IF "google" \in Differs(call[r]) THEN call[r].new["google"]
                        ELSE owner[o]["google"]
    BY <1>4, ColumnsAre
  <2>2. CASE call[r].op = "google"
    <3>1. /\ call[r].new["google"] = call[r].by /\ call[r].by # NoGoogle
          /\ call[r].was["google"] # NoGoogle => owner[o]["google"] # NoGoogle
      BY <1>1, <1>3, <2>2, AccountsAssumption DEF WellCommit
    <3>2. "google" \notin Differs(call[r]) => call[r].new["google"] = call[r].was["google"]
      BY ColumnsAre DEF Differs
    <3> QED BY <2>1, <2>2, <3>1, <3>2
  <2>3. CASE call[r].op # "google"
    BY <1>3, <2>1, <2>3 DEF WellCommit
  <2> QED BY <2>2, <2>3
<1>9. \A p \in Existing \ {o} : row["google"] # NoGoogle => owner[p]["google"] # row["google"]
  BY <1>5, FieldIs DEF Clash
<1>10. row["google"] \in Googles \cup {NoGoogle}
  BY <1>1, <1>3, <1>8 DEF WellCommit, AccountsInv, RowsWell
<1>11. row["google"] # NoGoogle => MailOf[row["google"]] \in had'[o]
  <2>1. had[o] \subseteq had'[o]
    BY <1>5 DEF AccountsInv, AccountsType
  <2> QED BY <1>1, <1>3, <1>8, <2>1 DEF WellCommit, AccountsInv, RowsWell
<1>12. /\ \E k \in Kinds : \A l \in Kinds \ {k} : row[l] = owner[o][l]
       /\ \A k \in Kinds : row[k] = owner[o][k] \/ row[k] \in Carried(call[r])
  <2>1. CASE call[r].op = "enroll"
    <3>1. PICK k \in Kinds : Differs(call[r]) \subseteq {k}
      BY <1>3, <2>1 DEF WellCommit
    <3>2. \A l \in Kinds : l \in Differs(call[r]) => call[r].new[l] \in Carried(call[r])
      BY <2>1 DEF Carried
    <3> QED BY <1>4, <3>1, <3>2, ColumnsAre
  <2>2. CASE call[r].op # "enroll"
    <3>1. \A k \in Kinds : row[k] = owner[o][k]
      BY <1>3, <1>4, <2>2, ColumnsAre DEF WellCommit
    <3> QED BY <3>1 DEF Kinds
  <2> QED BY <2>1, <2>2
<1>13. \/ home' = home
       \/ row["google"] # NoGoogle /\ \E g \in Googles : home' = [home EXCEPT ![g] = o]
  BY <1>1, <1>3, <1>8 DEF WellCommit
<1>14. o \in Existing /\ owner[o]["google"] # NoGoogle => row["google"] # NoGoogle
  BY <1>8
<1> QED BY <1>4, <1>5, <1>6, <1>7, <1>9, <1>10, <1>11, <1>12, <1>13, <1>14, RowMoves

LEMMA CommitOwnerStep ==
  ASSUME AccountsInv, NEW r \in Calls, CommitOwner(r)
  PROVE  AccountsInv'
BY CommitStep DEF CommitOwner

LEMMA LinkGoogleStep ==
  ASSUME AccountsInv, NEW r \in Calls, LinkGoogle(r)
  PROVE  AccountsInv'
BY CommitStep DEF LinkGoogle, Is

LEMMA RefusedStep ==
  ASSUME AccountsInv, NEW r \in Calls, Refused(r)
  PROVE  AccountsInv'
BY EndStep DEF Refused, AccountsInv, AccountsType

LEMMA DropCallStep ==
  ASSUME AccountsInv, NEW r \in Calls, DropCall(r)
  PROVE  AccountsInv'
BY EndStep, SpendIs DEF DropCall

\* A row that is there, with one column changed.
LEMMA EditIs ==
  ASSUME AccountsInv, NEW o \in Existing, NEW c \in Columns, NEW v \in Values
  PROVE  /\ o \in Owners /\ [owner[o] EXCEPT ![c] = v] \in AccountRows
         /\ [owner[o] EXCEPT ![c] = v][c] = v
         /\ \A d \in Columns \ {c} : [owner[o] EXCEPT ![c] = v][d] = owner[o][d]
         /\ owner[o]["email"] \in Addresses /\ owner[o] \in AccountRows
BY DEF AccountsInv, AccountsType, RowsWell, Existing, AccountRows

LEMMA UpdateProfileStep ==
  ASSUME AccountsInv, NEW r \in Calls, NEW o \in Owners, NEW email \in Addresses,
         UpdateProfile(r, o, email)
  PROVE  AccountsInv'
<1> DEFINE row == [owner[o] EXCEPT !["email"] = email]
<1>1. /\ o \in Existing /\ Spend("edit") /\ Start(r, "update", "commit", o, row)
      /\ UNCHANGED <<owner, storage, checks, wrote, had, home>>
  BY Zenon DEF UpdateProfile
<1>2. /\ row \in AccountRows /\ row["email"] = email
      /\ \A d \in Columns \ {"email"} : row[d] = owner[o][d]
  BY <1>1, EditIs, ColumnsAre DEF Values
<1> HIDE DEF row
<1>3. PICK w \in CallStates : StartedAs(w, r, "update", "commit", o, row)
  BY <1>1, <1>2, StartIs
<1>4. Differs(w) \subseteq {"email"}
  BY <1>2, <1>3 DEF Differs, StartedAs
<1>5. WellCall(w) /\ Carried(w) = {}
  BY <1>1, <1>2, <1>3, <1>4 DEF WellCall, WellCommit, Carried, Kinds, StartedAs
<1> QED BY <1>1, <1>3, <1>5, SpendIs, CallGoesOn DEF StartedAs

LEMMA SetPasswordStep ==
  ASSUME AccountsInv, NEW r \in Calls, NEW o \in Owners, SetPassword(r, o)
  PROVE  AccountsInv'
<1>1. PICK v \in Nat : v = accountsLeft.password
  BY DEF AccountsInv, AccountsType
<1> DEFINE row == [owner[o] EXCEPT !["password"] = v]
<1>2. /\ o \in Existing /\ Spend("password") /\ Start(r, "password", "commit", o, row)
      /\ UNCHANGED <<owner, storage, checks, wrote, had, home>>
  BY <1>1, Zenon DEF SetPassword
<1>3. /\ row \in AccountRows /\ \A d \in Columns \ {"password"} : row[d] = owner[o][d]
      /\ owner[o]["email"] \in Addresses
  BY <1>2, EditIs, ColumnsAre DEF Values
<1> HIDE DEF row
<1>7. /\ "password" \in {"none", "setup", "update", "password", "google", "enroll", "check"}
      /\ "commit" \in {"none", "insert", "commit", "mail", "face", "voice"}
  OBVIOUS
<1>4. PICK w \in CallStates : StartedAs(w, r, "password", "commit", o, row)
  BY <1>2, <1>3, <1>7, StartIs
<1>5. Differs(w) \subseteq {"password"} /\ w.new["email"] \in Addresses
  BY <1>3, <1>4, ColumnsAre DEF Differs, StartedAs
<1>6. WellCall(w) /\ Carried(w) = {}
  BY <1>2, <1>4, <1>5 DEF WellCall, WellCommit, Carried, Kinds, StartedAs
<1> QED BY <1>2, <1>4, <1>6, SpendIs, CallGoesOn DEF StartedAs

LEMMA HomesStay ==
  ASSUME AccountsInv, NEW g \in Googles, NEW o \in Existing, owner[o]["google"] # NoGoogle,
         home' = [home EXCEPT ![g] = o], UNCHANGED owner
  PROVE  home' \in [Googles -> Owners \cup {0}] /\ HomesLinked'
<1>1. o \in Owners /\ home \in [Googles -> Owners \cup {0}]
  BY DEF Existing, AccountsInv, AccountsType
<1>2. \A h \in Googles : home'[h] = IF h = g THEN o ELSE home[h]
  BY <1>1
<1> QED BY <1>1, <1>2 DEF AccountsInv, HomesLinked, Existing

LEMMA LookUpGoogleStep ==
  ASSUME AccountsInv, NEW r \in Calls, NEW g \in Googles, LookUpGoogle(r, g)
  PROVE  AccountsInv'
<1>1. /\ UNCHANGED <<owner, storage, checks, wrote, had>> /\ Spend("google")
      /\ accountsLeft' \in [{"setup", "google", "edit", "password", "profile", "check", "death"} -> Nat]
  BY SpendIs DEF LookUpGoogle
<1>2. CASE OfGoogle(g) # {}
  <2>1. PICK o \in OfGoogle(g) : home' = [home EXCEPT ![g] = o]
    BY <1>2 DEF LookUpGoogle
  <2>2. o \in Existing /\ owner[o]["google"] # NoGoogle
    BY <2>1, FieldIs, AccountsAssumption DEF OfGoogle
  <2>3. home' \in [Googles -> Owners \cup {0}] /\ HomesLinked'
    BY <1>1, <2>1, <2>2, HomesStay
  <2>4. call' = call
    BY <1>2 DEF LookUpGoogle
  <2>5. PICK w \in CallStates : w = call[r]
    BY DEF AccountsInv, AccountsType
  <2>6. call' = [call EXCEPT ![r] = w]
    BY <2>4, <2>5 DEF AccountsInv, AccountsType
  <2>7. WellCall(w)
    BY <2>5 DEF AccountsInv, CallsWell
  <2>8. WellCall(w)'
    BY <1>1, <2>7 DEF WellCall, WellInsert, WellCommit, Existing
  <2>9. Carried(w) \subseteq Carried(call[r]) \cup (storage' \ storage)
    BY <2>5
  <2> QED BY <1>1, <2>3, <2>6, <2>8, <2>9, CallMoves DEF AccountsInv, AccountsType, ProfilesNumbered
<1>3. CASE OfGoogle(g) = {}
  <2> DEFINE w == [NoCall EXCEPT !.op = "google", !.pc = "mail", !.by = g]
  <2>1. call' = [call EXCEPT ![r] = w] /\ UNCHANGED home
    BY <1>3 DEF LookUpGoogle
  <2>2. /\ "google" \in {"none", "setup", "update", "password", "google", "enroll", "check"}
        /\ "mail" \in {"none", "insert", "commit", "mail", "face", "voice"}
        /\ g \in Googles \cup {NoGoogle}
    OBVIOUS
  <2>3. w \in CallStates /\ w.op = "google" /\ w.pc = "mail" /\ w.by = g
    BY <2>2, NoCallIs, Zenon DEF CallStates
  <2> HIDE DEF w
  <2>4. WellCall(w) /\ Carried(w) = {}
    BY <2>3 DEF WellCall, Carried, Kinds
  <2> QED BY <1>1, <2>1, <2>3, <2>4, CallGoesOn
<1> QED BY <1>2, <1>3

LEMMA LookUpMailStep ==
  ASSUME AccountsInv, NEW r \in Calls, LookUpMail(r)
  PROVE  AccountsInv'
<1> DEFINE c == call[r]
<1>1. /\ c \in CallStates /\ c.op = "google" /\ c.by \in Googles
      /\ UNCHANGED <<owner, wrote, had, storage, checks, home>>
      /\ accountsLeft' \in [{"setup", "google", "edit", "password", "profile", "check", "death"} -> Nat]
  BY DEF LookUpMail, Is, AccountsInv, AccountsType, CallsWell, WellCall
<1>2. PICK g \in Googles : g = c.by
  BY <1>1
<1>3. ASSUME OfMail(g) = {},
             call' = [call EXCEPT ![r].pc = "insert", ![r].new = Account(MailOf[g], g)]
      PROVE  AccountsInv'
  <2>1. PICK row \in AccountRows : row = Account(MailOf[g], g)
    BY AccountIs, AccountsAssumption
  <2>2. /\ row["email"] = MailOf[g] /\ row["google"] = g /\ row["face"] = 0 /\ row["voice"] = 0
        /\ MailOf[g] \in Addresses
    BY <2>1, AccountIs, AccountsAssumption
  <2> DEFINE w == [c EXCEPT !.pc = "insert", !.new = row]
  <2>3. call' = [call EXCEPT ![r] = w]
    BY <1>3, <2>1, Zenon DEF AccountsInv, AccountsType
  <2>4. "insert" \in {"none", "insert", "commit", "mail", "face", "voice"}
    OBVIOUS
  <2> HIDE DEF c
  <2>5. w \in CallStates /\ w.op = c.op /\ w.pc = "insert" /\ w.new = row /\ w.by = c.by
    BY <1>1, <2>1, <2>4, Zenon DEF CallStates
  <2> HIDE DEF w
  <2>6. WellCall(w) /\ Carried(w) = {}
    BY <1>1, <1>2, <2>2, <2>5 DEF WellCall, WellInsert, Carried, Kinds
  <2> QED BY <1>1, <2>3, <2>5, <2>6, CallGoesOn
<1>4. ASSUME NEW o \in OfMail(g),
             call' = [call EXCEPT ![r].pc = "commit", ![r].of = o, ![r].was = owner[o],
                                  ![r].new = [owner[o] EXCEPT !.google = g]]
      PROVE  AccountsInv'
  <2>1. /\ o \in Existing /\ owner[o] \in AccountRows /\ o \in Owners \cup {0}
        /\ MailOf[g] \in had[o] /\ owner[o]["email"] \in Addresses
    BY FieldIs DEF OfMail, Existing, AccountsInv, AccountsType, RowsWell
  <2>2. PICK row : row = [owner[o] EXCEPT !["google"] = g]
    OBVIOUS
  <2>3. /\ row \in AccountRows /\ row["google"] = g
        /\ \A d \in Columns \ {"google"} : row[d] = owner[o][d]
    BY <2>1, <2>2, EditIs, ColumnsAre DEF Values
  <2> DEFINE w == [c EXCEPT !.pc = "commit", !.of = o, !.was = owner[o], !.new = row]
  <2>4. call' = [call EXCEPT ![r] = w]
    BY <1>4, <2>2, Zenon DEF AccountsInv, AccountsType
  <2>5. "commit" \in {"none", "insert", "commit", "mail", "face", "voice"}
    OBVIOUS
  <2> HIDE DEF c
  <2>6. /\ w \in CallStates /\ w.op = c.op /\ w.pc = "commit" /\ w.of = o /\ w.was = owner[o]
        /\ w.new = row /\ w.by = c.by
    BY <1>1, <2>1, <2>3, <2>5, Zenon DEF CallStates
  <2> HIDE DEF w
  <2>7. Differs(w) \subseteq {"google"} /\ w.new["email"] \in Addresses
    BY <2>1, <2>3, <2>6, ColumnsAre DEF Differs
  <2>8. WellCall(w) /\ Carried(w) = {}
    BY <1>1, <1>2, <2>1, <2>3, <2>6, <2>7 DEF WellCall, WellCommit, Carried, Kinds
  <2> QED BY <1>1, <2>4, <2>6, <2>8, CallGoesOn
<1>5. CASE End(r)
  BY <1>1, <1>5, EndStep
<1> QED BY <1>2, <1>3, <1>4, <1>5 DEF LookUpMail

\* One more profile on disk.
LEMMA ProfileIs ==
  ASSUME AccountsInv
  PROVE  /\ NextProfile \in Nat \ {0} /\ NextProfile \notin storage
         /\ IsFiniteSet(storage \cup {NextProfile})
         /\ storage \cup {NextProfile} = 1..Cardinality(storage \cup {NextProfile})
<1>1. IsFiniteSet(storage) /\ storage = 1..Cardinality(storage) /\ Cardinality(storage) \in Nat
  BY FS_CardinalityType DEF AccountsInv, ProfilesNumbered
<1>2. NextProfile \in Nat \ {0} /\ NextProfile \notin storage
  BY <1>1 DEF NextProfile
<1>3. /\ IsFiniteSet(storage \cup {NextProfile})
      /\ Cardinality(storage \cup {NextProfile}) = Cardinality(storage) + 1
  BY <1>1, <1>2, FS_AddElement
<1>4. storage \cup {NextProfile} = 1..(Cardinality(storage) + 1)
  <2>1. NextProfile = Cardinality(storage) + 1
    BY DEF NextProfile
  <2> QED BY <1>1, <2>1
<1> QED BY <1>2, <1>3, <1>4

LEMMA EnrollProfileStep ==
  ASSUME AccountsInv, NEW r \in Calls, NEW o \in Owners, NEW k \in Kinds,
         EnrollProfile(r, o, k)
  PROVE  AccountsInv'
<1>1. PICK n : n = NextProfile
  OBVIOUS
<1>2. /\ n \in Nat \ {0} /\ n \notin storage /\ IsFiniteSet(storage \cup {n})
      /\ storage \cup {n} = 1..Cardinality(storage \cup {n})
  BY <1>1, ProfileIs
<1>3. PICK row : row = [NoRow EXCEPT ![k] = n]
  OBVIOUS
<1>4. row \in AccountRows /\ row[k] = n
  BY <1>2, <1>3, NoRowIs, ColumnsAre DEF AccountRows, Values
<1> DEFINE w == [NoCall EXCEPT !.op = "enroll", !.pc = k, !.of = o, !.new = row]
<1>5. /\ o \in Existing /\ Spend("profile") /\ storage' = storage \cup {n}
      /\ call' = [call EXCEPT ![r] = w] /\ UNCHANGED <<owner, checks, wrote, had, home>>
  BY <1>1, <1>3, Zenon DEF EnrollProfile
<1>6. /\ "enroll" \in {"none", "setup", "update", "password", "google", "enroll", "check"}
      /\ k \in {"none", "insert", "commit", "mail", "face", "voice"} /\ o \in Owners \cup {0}
  BY DEF Kinds
<1>7. w \in CallStates /\ w.op = "enroll" /\ w.pc = k /\ w.of = o /\ w.new = row
  BY <1>4, <1>6, NoCallIs, Zenon DEF CallStates
<1> HIDE DEF w
<1>8. Carried(w) = {n}
  BY <1>4, <1>7 DEF Carried, Kinds
<1>9. WellCall(w)'
  BY <1>5, <1>7 DEF WellCall, WellInsert, WellCommit, Existing, Kinds
<1>10. HomesLinked' /\ home' \in [Googles -> Owners \cup {0}]
  BY <1>5 DEF AccountsInv, AccountsType, HomesLinked, Existing
<1>11. /\ storage \subseteq storage' /\ storage' \subseteq Nat \ {0} /\ IsFiniteSet(storage')
       /\ storage' = 1..Cardinality(storage')
       /\ \A c \in checks' : c.against \in storage'
  BY <1>2, <1>5 DEF AccountsInv, AccountsType, ProfilesNumbered
<1>12. Carried(w) \subseteq Carried(call[r]) \cup (storage' \ storage)
  BY <1>2, <1>5, <1>8
<1> QED BY <1>5, <1>7, <1>9, <1>10, <1>11, <1>12, SpendIs, CallMoves

LEMMA ReadEnrolledStep ==
  ASSUME AccountsInv, NEW r \in Calls, NEW k \in Kinds, ReadEnrolled(r, k)
  PROVE  AccountsInv'
<1>1. /\ call[r] \in CallStates /\ call[r].op = "enroll" /\ call[r].pc = k
      /\ call[r].of \in Existing
  BY DEF ReadEnrolled, Is, AccountsInv, AccountsType, CallsWell, WellCall
<1>2. PICK o \in Owners : o = call[r].of /\ o \in Existing
  BY <1>1 DEF Existing
<1>3. PICK n \in Values : n = call[r].new[k]
  BY <1>1, ColumnsAre DEF CallStates, AccountRows
<1>4. PICK row : row = [owner[o] EXCEPT ![k] = n]
  OBVIOUS
<1>5. /\ row \in AccountRows /\ row[k] = n /\ \A d \in Columns \ {k} : row[d] = owner[o][d]
      /\ owner[o]["email"] \in Addresses
  BY <1>2, <1>4, EditIs, ColumnsAre
<1>6. /\ Start(r, "enroll", "commit", o, row)
      /\ UNCHANGED <<owner, storage, checks, wrote, had, home, accountsLeft>>
  BY <1>2, <1>3, <1>4, Zenon DEF ReadEnrolled
<1>7. /\ "enroll" \in {"none", "setup", "update", "password", "google", "enroll", "check"}
      /\ "commit" \in {"none", "insert", "commit", "mail", "face", "voice"}
  OBVIOUS
<1>8. PICK w \in CallStates : StartedAs(w, r, "enroll", "commit", o, row)
  BY <1>5, <1>6, <1>7, StartIs
<1>9. Differs(w) \subseteq {k} /\ w.new["email"] \in Addresses
  BY <1>5, <1>8, ColumnsAre DEF Differs, StartedAs
<1>10. Carried(call[r]) = {n}
  BY <1>1, <1>3 DEF Carried, Kinds
<1>11. Carried(w) \subseteq Carried(call[r])
  BY <1>5, <1>8, <1>9, <1>10 DEF Carried, StartedAs
<1>12. WellCall(w)
  BY <1>2, <1>8, <1>9, ColumnsAre DEF WellCall, WellCommit, StartedAs
<1> QED BY <1>6, <1>8, <1>11, <1>12, CallGoesOn DEF AccountsInv, AccountsType, StartedAs

LEMMA CheckProfileStep ==
  ASSUME AccountsInv, NEW r \in Calls, NEW o \in Owners, NEW k \in Kinds,
         CheckProfile(r, o, k)
  PROVE  AccountsInv'
<1>1. /\ owner[o] \in AccountRows /\ owner[o][k] \in storage
      /\ Start(r, "check", k, o, owner[o]) /\ Spend("check")
      /\ UNCHANGED <<owner, storage, checks, wrote, had, home>>
  BY DEF CheckProfile, AccountsInv, AccountsType, ProfilesNumbered
<1>2. /\ "check" \in {"none", "setup", "update", "password", "google", "enroll", "check"}
      /\ k \in {"none", "insert", "commit", "mail", "face", "voice"}
  BY DEF Kinds
<1>3. PICK w \in CallStates : StartedAs(w, r, "check", k, o, owner[o])
  BY <1>1, <1>2, StartIs
<1>4. WellCall(w) /\ Carried(w) = {}
  BY <1>1, <1>3 DEF WellCall, Carried, Kinds, StartedAs
<1> QED BY <1>1, <1>3, <1>4, SpendIs, CallGoesOn DEF StartedAs

LEMMA LogVerificationStep ==
  ASSUME AccountsInv, NEW r \in Calls, NEW k \in Kinds, LogVerification(r, k)
  PROVE  AccountsInv'
<1>1. call[r].op = "check" /\ call[r].pc = k /\ call[r].was[k] \in storage
  BY DEF LogVerification, Is, AccountsInv, CallsWell, WellCall
<1>2. /\ checks' = checks \cup {[kind |-> k, of |-> call[r].of, against |-> call[r].was[k]]}
      /\ call' = [call EXCEPT ![r] = NoCall]
      /\ UNCHANGED <<owner, storage, wrote, had, home, accountsLeft>>
  BY DEF LogVerification, End
<1>3. \A c \in checks' : c.against \in storage'
  BY <1>1, <1>2 DEF AccountsInv, ProfilesNumbered
<1>4. WellCall(NoCall)'
  BY NoCallIs DEF WellCall, Kinds
<1>5. /\ storage \subseteq storage' /\ storage' \subseteq Nat \ {0} /\ IsFiniteSet(storage')
      /\ storage' = 1..Cardinality(storage') /\ home' \in [Googles -> Owners \cup {0}]
      /\ accountsLeft' \in [{"setup", "google", "edit", "password", "profile", "check", "death"} -> Nat]
  BY <1>2 DEF AccountsInv, AccountsType, ProfilesNumbered
<1>6. HomesLinked'
  BY <1>2 DEF AccountsInv, HomesLinked, Existing
<1> QED BY <1>2, <1>3, <1>4, <1>5, <1>6, NoCallIs, CallMoves

LEMMA AccountsStep ==
  ASSUME AccountsInv, [AccountsNext]_accountVars
  PROVE  AccountsInv'
<1>1. CASE UNCHANGED accountVars
  BY <1>1 DEF accountVars, AccountsInv, AccountsType, RowsWell, HomesLinked, Existing, CallsWell,
              WellCall, WellInsert, WellCommit, ProfilesNumbered, CarriedOnce
<1>2. CASE AccountsNext
  BY <1>2, SetupOwnerStep, UpdateProfileStep, InsertOwnerStep, CommitOwnerStep, RefusedStep,
     DropCallStep, LookUpGoogleStep, LookUpMailStep, LinkGoogleStep, InsertViaGoogleStep,
     SetPasswordStep, EnrollProfileStep, CheckProfileStep, ReadEnrolledStep, LogVerificationStep
     DEF AccountsNext
<1> QED BY <1>1, <1>2

\* A Google account is linked to one row at most, and what linked it over is on record.
LEMMA LinksAreKept ==
  ASSUME AccountsInv
  PROVE  LinksKept
<1>1. ASSUME NEW g \in Googles
      PROVE  Cardinality(OfGoogle(g)) <= 1
  <2>1. \A o \in OfGoogle(g), p \in OfGoogle(g) : o = p
    BY FieldIs, AccountsAssumption DEF OfGoogle, AccountsInv, RowsWell
  <2>2. CASE OfGoogle(g) = {}
    BY <2>2, FS_EmptySet
  <2>3. CASE OfGoogle(g) # {}
    <3>1. PICK o : OfGoogle(g) = {o}
      BY <2>1, <2>3
    <3> QED BY <3>1, FS_Singleton
  <2> QED BY <2>2, <2>3
<1>2. ASSUME NEW g \in Googles, home[g] # 0, owner[home[g]].google # g
      PROVE  \E other \in Googles \ {g} :
               owner[home[g]].google = other /\ MailOf[other] \in had[home[g]]
  BY <1>2, FieldIs DEF AccountsInv, HomesLinked, RowsWell
<1> QED BY <1>1, <1>2 DEF LinksKept

\* The rows of the owners are sound: overlapping requests keep each other's columns, a
\* Google account stays with its row, and the profiles the rows name are on disk
\* (services/auth.py, services/face_verify.py, services/voice_verify.py).
THEOREM AccountsIsSound == AccountsSpec => []AccountsSound
<1>1. AccountsInv => AccountsSound
  <2> SUFFICES ASSUME AccountsInv PROVE AccountsSound
    OBVIOUS
  <2>1. ColumnsKept
    BY DEF ColumnsKept, AccountsInv, AccountsType
  <2>2. ProfilesStored
    BY DEF ProfilesStored, AccountsInv, ProfilesNumbered, Existing
  <2> QED BY <2>1, <2>2, LinksAreKept DEF AccountsSound
<1> QED BY <1>1, AccountsInitial, AccountsStep, PTL DEF AccountsSpec

-----------------------------------------------------------------------------
(* Push: PushSound for every number of members, endpoints and senders.     *)

Rows == [id : Nat, endpoint : Endpoints, of : Members]
Wishes ==
  [op : {"none", "join", "leave", "send", "sent"}, of : Members \cup {"none"},
   endpoint : Endpoints \cup {"none"}, row : Nat, subs : SUBSET Rows, fine : SUBSET Rows,
   stale : SUBSET Rows, dead : SUBSET Nat]
Casts ==
  [pc : {"none", "next", "sending", "done", "failed"}, left : SUBSET Members, count : Nat,
   lost : SUBSET Nat]

PushType ==
  /\ subscription \subseteq Rows /\ wish \in [Sender -> Wishes]
  /\ cast \in Casts /\ reached \in Nat

\* A row's id is its own and is never given again; an endpoint has one row.
RowsApart ==
  /\ \A s, t \in subscription : s.id = t.id \/ s.endpoint = t.endpoint => s = t
  /\ Present \cap departed = {}
  /\ \E n \in Nat : Present \cup departed = 1..n

\* i is the id of a row of endpoint e, or was.
Names(i, e) ==
  i \in Present \cup departed /\ \A s \in subscription : s.id = i => s.endpoint = e

OneEach(rows) == \A s, t \in rows : s.id = t.id => s = t

\* What a request has read stays true of the rows that are left; no row is to be pruned.
Informed(w) ==
  /\ w.op \in {"join", "leave"} /\ w.row # 0 => Names(w.row, w.endpoint)
  /\ w.op = "join" => w.of \in Members /\ w.endpoint \in Endpoints
  /\ w.op = "leave" => w.row # 0
  /\ w.op = "send" => /\ IsFiniteSet(w.subs) /\ OneEach(w.subs)
                      /\ \A s \in w.subs : Names(s.id, s.endpoint)
  /\ w.op = "sent" => /\ IsFiniteSet(w.fine) /\ OneEach(w.fine)
                      /\ \A s \in w.fine : Names(s.id, s.endpoint)
                      /\ w.stale = {}

Wanted == \A e \in wanted : \E s \in subscription : s.endpoint = e

\* What the broadcast has delivered and not counted yet.
Counting ==
  LET w == wish[Caster] IN
  /\ cast.pc = "sending" <=> w.op # "none"
  /\ cast.pc = "sending" => w.op \in {"send", "sent"}
  /\ cast.pc \in {"none", "next", "done"} => reached = cast.count
  /\ w.op = "send" => reached = cast.count
  /\ w.op = "sent" => reached = cast.count + Cardinality(w.fine)
  /\ cast.pc = "failed" => /\ cast.lost \cap departed # {}
                          /\ reached = cast.count + Cardinality(cast.lost)

PushInv ==
  PushType /\ RowsApart /\ (\A s \in Sender : Informed(wish[s])) /\ Wanted /\ Counting

-----------------------------------------------------------------------------
(* The rows.                                                                *)

LEMMA PresentIs == \A i : i \in Present <=> \E s \in subscription : s.id = i
BY DEF Present, Ids

\* The table is finite and the next id is one that no row has had.
LEMMA RowsCount ==
  ASSUME RowsApart
  PROVE  /\ IsFiniteSet(subscription)
         /\ NextRow \in Nat /\ NextRow # 0 /\ NextRow \notin Present \cup departed
         /\ Present \cup departed \cup {NextRow} = 1..NextRow
<1>1. PICK n \in Nat : Present \cup departed = 1..n
  BY DEF RowsApart
<1>2. IsFiniteSet(Present \cup departed) /\ Cardinality(Present \cup departed) = n
  <2>1. IsFiniteSet(1..n) /\ Cardinality(1..n) = n
    BY FS_Interval
  <2> QED BY <1>1, <2>1
<1>3. IsFiniteSet(Present) /\ IsFiniteSet(departed)
  BY <1>2, FS_Subset
<1> DEFINE f == [s \in subscription |-> s.id]
<1>4. f \in Bijection(subscription, Present)
  <2>1. f \in [subscription -> Present]
    BY PresentIs
  <2>2. \A a, b \in subscription : f[a] = f[b] => a = b
    BY DEF RowsApart
  <2>3. \A i \in Present : \E s \in subscription : f[s] = i
    BY PresentIs
  <2> HIDE DEF f
  <2> QED BY <2>1, <2>2, <2>3 DEF Bijection, Injection, Surjection, IsInjective
<1>5. f \in Injection(subscription, Present) /\ f \in Surjection(subscription, Present)
  BY <1>4 DEF Bijection
<1> HIDE DEF f
<1>6. IsFiniteSet(subscription) /\ Cardinality(subscription) = Cardinality(Present)
  BY <1>3, <1>5, FS_Injection
<1>7. Cardinality(Present) + Cardinality(departed) = n
  <2>1. Cardinality(Present \cup departed)
          = Cardinality(Present) + Cardinality(departed) - Cardinality(Present \cap departed)
    BY <1>3, FS_Union
  <2>2. Cardinality(Present \cap departed) = 0
    BY FS_EmptySet DEF RowsApart
  <2>3. Cardinality(Present) \in Nat /\ Cardinality(departed) \in Nat
    BY <1>3, FS_CardinalityType
  <2> QED BY <1>2, <2>1, <2>2, <2>3
<1>8. NextRow = n + 1
  BY <1>6, <1>7 DEF NextRow
<1> QED BY <1>1, <1>6, <1>8

\* Rows with an id each are as many as their ids.
LEMMA IdsCount ==
  ASSUME NEW rows, IsFiniteSet(rows), OneEach(rows)
  PROVE  Cardinality(Ids(rows)) = Cardinality(rows)
<1> DEFINE f == [s \in rows |-> s.id]
<1>1. f \in [rows -> Ids(rows)]
  BY DEF Ids
<1>2. \A a, b \in rows : f[a] = f[b] => a = b
  BY DEF OneEach
<1>3. \A i \in Ids(rows) : \E s \in rows : f[s] = i
  BY DEF Ids
<1>4. f \in Injection(rows, Ids(rows)) /\ f \in Surjection(rows, Ids(rows))
  <2> HIDE DEF f
  <2> QED BY <1>1, <1>2, <1>3 DEF Injection, Surjection, IsInjective
<1> HIDE DEF f
<1>5. IsFiniteSet(Ids(rows)) /\ Cardinality(Ids(rows)) <= Cardinality(rows)
  BY <1>4, FS_Surjection
<1> QED BY <1>4, <1>5, FS_Injection

LEMMA OnePerEndpoint ==
  ASSUME RowsApart, NEW e
  PROVE  Cardinality(On(e)) <= 1
<1>1. CASE On(e) = {}
  BY <1>1, FS_EmptySet
<1>2. CASE On(e) # {}
  <2>1. PICK s \in subscription : s \in On(e)
    BY <1>2 DEF On
  <2>2. On(e) = {s}
    BY <2>1 DEF On, RowsApart
  <2>3. Cardinality({s}) = 1
    BY FS_Singleton
  <2> QED BY <2>2, <2>3
<1> QED BY <1>1, <1>2

\* What was read of a row stays so while names are kept and endpoints do not come back.
LEMMA StaysInformed ==
  ASSUME NEW w, Informed(w), \A i, e : Names(i, e) => Names(i, e)'
  PROVE  Informed(w)'
BY DEF Informed

LEMMA NamesRest ==
  ASSUME UNCHANGED <<subscription, departed>>
  PROVE  \A i, e : Names(i, e) => Names(i, e)'
BY DEF Names, Present, Ids

-----------------------------------------------------------------------------
LEMMA PushInitial == PushInit => PushInv
<1> SUFFICES ASSUME PushInit PROVE PushInv
  OBVIOUS
<1>1. NoWish \in Wishes /\ NoWish.op = "none"
  BY DEF NoWish, Wishes
<1>2. /\ subscription = {} /\ departed = {} /\ wanted = {} /\ reached = 0
      /\ wish = [s \in Sender |-> NoWish] /\ cast = NoCast
  BY DEF PushInit
<1>3. NoCast.pc = "none" /\ NoCast.count = 0
      /\ NoCast \in Casts
  BY DEF NoCast, Casts
<1>4. PushType
  BY <1>1, <1>2, <1>3 DEF PushType
<1>5. RowsApart
  <2>1. Present = {}
    BY <1>2 DEF Present, Ids
  <2>2. Present \cup departed = 1..0
    BY <1>2, <2>1
  <2> QED BY <1>2, <2>1, <2>2 DEF RowsApart
<1>6. \A s \in Sender : Informed(wish[s])
  BY <1>1, <1>2 DEF Informed
<1>7. Wanted
  BY <1>2 DEF Wanted
<1>8. Counting
  <2>1. wish[Caster].op = "none"
    BY <1>1, <1>2 DEF Sender
  <2> QED BY <1>2, <1>3, <2>1 DEF Counting
<1> QED BY <1>4, <1>5, <1>6, <1>7, <1>8 DEF PushInv

-----------------------------------------------------------------------------
(* What a commit does to the rows.                                          *)

LEMMA Inserting ==
  ASSUME RowsApart, subscription \subseteq Rows, NEW e \in Endpoints, NEW m \in Members,
         On(e) = {}, departed' = departed,
         subscription' = subscription \cup {[id |-> NextRow, endpoint |-> e, of |-> m]}
  PROVE  /\ RowsApart' /\ subscription' \subseteq Rows /\ \A i, f : Names(i, f) => Names(i, f)'
         /\ \E s \in subscription' : s.endpoint = e
<1> DEFINE row == [id |-> NextRow, endpoint |-> e, of |-> m]
<1>1. row.id = NextRow /\ row.endpoint = e
  OBVIOUS
<1>2. row \in Rows
  BY RowsCount DEF Rows
<1>3. subscription' = subscription \cup {row}
  OBVIOUS
<1> HIDE DEF row
<1>4. Present' = Present \cup {NextRow}
  <2>1. \A i : i \in Present' <=> i \in Present \/ i = row.id
    BY <1>3 DEF Present, Ids
  <2> QED BY <1>1, <2>1
<1>5. \A s \in subscription : s.id # row.id /\ s.endpoint # row.endpoint
  BY <1>1, RowsCount, PresentIs DEF On
<1>6. \A s, t \in subscription' : s.id = t.id \/ s.endpoint = t.endpoint => s = t
  BY <1>3, <1>5 DEF RowsApart
<1>7. RowsApart'
  <2>1. Present' \cap departed' = {}
    BY <1>4, RowsCount DEF RowsApart
  <2>2. Present' \cup departed' = 1..NextRow /\ NextRow \in Nat
    BY <1>4, RowsCount
  <2>3. \E n \in Nat : Present' \cup departed' = 1..n
    BY <2>2
  <2> QED BY <1>6, <2>1, <2>3 DEF RowsApart
<1>8. ASSUME NEW i, NEW f, Names(i, f) PROVE Names(i, f)'
  <2>1. i \in Present \cup departed /\ i # row.id
    BY <1>1, <1>8, RowsCount DEF Names
  <2> QED BY <1>3, <1>4, <1>8, <2>1 DEF Names
<1> QED BY <1>1, <1>2, <1>3, <1>7, <1>8

\* A row that changes hands is the same row to whoever has read it.
LEMMA Rewriting ==
  ASSUME RowsApart, subscription \subseteq Rows, NEW i, NEW m \in Members, departed' = departed,
         subscription' = {IF s.id = i THEN [s EXCEPT !.of = m] ELSE s : s \in subscription}
  PROVE  /\ RowsApart' /\ subscription' \subseteq Rows /\ \A j, f : Names(j, f) => Names(j, f)'
         /\ Present' = Present
         /\ \A s \in subscription : \E t \in subscription' : t.id = s.id /\ t.endpoint = s.endpoint
<1> DEFINE New(s) == IF s.id = i THEN [s EXCEPT !.of = m] ELSE s
<1>1. ASSUME NEW s \in subscription
      PROVE  New(s) \in Rows /\ New(s).id = s.id /\ New(s).endpoint = s.endpoint
  <2>1. s \in Rows
    OBVIOUS
  <2>2. [s EXCEPT !.of = m] \in Rows /\ [s EXCEPT !.of = m].id = s.id
        /\ [s EXCEPT !.of = m].endpoint = s.endpoint
    BY <2>1 DEF Rows
  <2> QED BY <2>1, <2>2
<1>2. subscription' = {New(s) : s \in subscription}
  OBVIOUS
<1> HIDE DEF New
<1>3. \A j : j \in Present' <=> j \in Present
  BY <1>1, <1>2 DEF Present, Ids
<1>4. Present' = Present
  BY <1>3
<1>5. ASSUME NEW s \in subscription', NEW t \in subscription', s.id = t.id \/ s.endpoint = t.endpoint
      PROVE  s = t
  <2>1. PICK a \in subscription : s = New(a)
    BY <1>2
  <2>2. PICK b \in subscription : t = New(b)
    BY <1>2
  <2>3. a = b
    BY <1>1, <1>5, <2>1, <2>2 DEF RowsApart
  <2> QED BY <2>1, <2>2, <2>3
<1>6. RowsApart'
  <2>1. Present' \cap departed' = {} /\ \E n \in Nat : Present' \cup departed' = 1..n
    BY <1>4 DEF RowsApart
  <2> QED BY <1>5, <2>1 DEF RowsApart
<1>7. ASSUME NEW j, NEW f, Names(j, f) PROVE Names(j, f)'
  <2>1. ASSUME NEW t \in subscription', t.id = j PROVE t.endpoint = f
    <3>1. PICK a \in subscription : t = New(a)
      BY <1>2
    <3> QED BY <1>1, <1>7, <2>1, <3>1 DEF Names
  <2> QED BY <1>4, <1>7, <2>1 DEF Names
<1> QED BY <1>1, <1>2, <1>4, <1>6, <1>7

LEMMA Removing ==
  ASSUME RowsApart, NEW ids, RemoveRows(ids)
  PROVE  /\ RowsApart' /\ subscription' \subseteq subscription /\ departed \subseteq departed'
         /\ \A j, f : Names(j, f) => Names(j, f)'
<1>1. /\ subscription' = {s \in subscription : s.id \notin ids}
      /\ departed' = departed \cup (Present \cap ids)
  BY DEF RemoveRows
<1>2. \A j : j \in Present' <=> j \in Present /\ j \notin ids
  BY <1>1 DEF Present, Ids
<1>3. Present' \cup departed' = Present \cup departed /\ Present' \cap departed' = {}
  BY <1>1, <1>2 DEF RowsApart
<1>4. RowsApart'
  <2>1. \E n \in Nat : Present' \cup departed' = 1..n
    BY <1>3 DEF RowsApart
  <2> QED BY <1>1, <1>3, <2>1 DEF RowsApart
<1>5. \A j, f : Names(j, f) => Names(j, f)'
  BY <1>1, <1>3 DEF Names
<1> QED BY <1>1, <1>4, <1>5

-----------------------------------------------------------------------------
(* What a request becomes.                                                  *)

WishFor(w, op, m, e, i) == [w EXCEPT !.op = op, !.of = m, !.endpoint = e, !.row = i]
LeaveOf(w, e, i) == [w EXCEPT !.op = "leave", !.endpoint = e, !.row = i]
ListOf(w, m, rows) == [w EXCEPT !.op = "send", !.of = m, !.subs = rows]
SentOf(w, fine, stale, dead) ==
  [w EXCEPT !.op = "sent", !.fine = fine, !.stale = stale, !.dead = dead]

LEMMA NoWishIs == NoWish \in Wishes /\ NoWish.op = "none" /\ NoWish.row = 0
BY DEF NoWish, Wishes

LEMMA WishForIs ==
  ASSUME NEW w \in Wishes, NEW m \in Members, NEW e \in Endpoints, NEW i \in Nat
  PROVE  /\ WishFor(w, "join", m, e, i) \in Wishes /\ WishFor(w, "join", m, e, i).op = "join"
         /\ WishFor(w, "join", m, e, i).endpoint = e /\ WishFor(w, "join", m, e, i).row = i
         /\ WishFor(w, "join", m, e, i).of = m
<1>1. m \in Members \cup {"none"} /\ e \in Endpoints \cup {"none"}
  OBVIOUS
<1> QED BY Zenon, <1>1 DEF WishFor, Wishes

LEMMA LeaveOfIs ==
  ASSUME NEW w \in Wishes, NEW e \in Endpoints, NEW i \in Nat
  PROVE  /\ LeaveOf(w, e, i) \in Wishes /\ LeaveOf(w, e, i).op = "leave"
         /\ LeaveOf(w, e, i).endpoint = e /\ LeaveOf(w, e, i).row = i
<1>1. e \in Endpoints \cup {"none"}
  OBVIOUS
<1> QED BY Zenon, <1>1 DEF LeaveOf, Wishes

LEMMA ListOfIs ==
  ASSUME NEW w \in Wishes, NEW m \in Members, NEW rows \in SUBSET Rows
  PROVE  /\ ListOf(w, m, rows) \in Wishes /\ ListOf(w, m, rows).op = "send"
         /\ ListOf(w, m, rows).subs = rows
<1>1. m \in Members \cup {"none"}
  OBVIOUS
<1> QED BY Zenon, <1>1 DEF ListOf, Wishes

LEMMA SentOfIs ==
  ASSUME NEW w \in Wishes, NEW fine \in SUBSET Rows, NEW stale \in SUBSET Rows,
         NEW dead \in SUBSET Nat
  PROVE  /\ SentOf(w, fine, stale, dead) \in Wishes /\ SentOf(w, fine, stale, dead).op = "sent"
         /\ SentOf(w, fine, stale, dead).fine = fine /\ SentOf(w, fine, stale, dead).stale = stale
BY Zenon DEF SentOf, Wishes

\* A step of sender s, whose wish becomes w: what is left to show of it.
LEMMA WishMoves ==
  ASSUME PushInv, NEW s \in Sender, NEW w \in Wishes, wish' = [wish EXCEPT ![s] = w],
         RowsApart', subscription' \subseteq Rows, Wanted',
         \A i, e : Names(i, e) => Names(i, e)', departed \subseteq departed', Informed(wish[s])',
         s # Caster => cast' = cast /\ reached' = reached,
         s = Caster => /\ Counting' /\ reached' \in Nat /\ cast' \in Casts
  PROVE  PushInv'
<1>1. \A q \in Sender : wish'[q] = IF q = s THEN w ELSE wish[q]
  BY DEF PushInv, PushType
<1>2. PushType'
  BY DEF PushInv, PushType
<1>3. ASSUME NEW q \in Sender PROVE Informed(wish[q])'
  <2>1. CASE q = s
    BY <2>1
  <2>2. CASE q # s
    <3>1. wish'[q] = wish[q] /\ Informed(wish[q])
      BY <1>1, <2>2 DEF PushInv
    <3> QED BY <3>1, StaysInformed DEF Informed
  <2> QED BY <2>1, <2>2
<1>4. Counting'
  <2>1. CASE s # Caster
    <3>1. wish'[Caster] = wish[Caster]
      BY <1>1, <2>1 DEF Sender
    <3> QED BY <2>1, <3>1 DEF Counting, PushInv
  <2> QED BY <2>1
<1> QED BY <1>2, <1>3, <1>4 DEF PushInv

-----------------------------------------------------------------------------
(* Browsers.                                                                *)

\* A step that leaves the table as it is, and the endpoints.
LEMMA OnlyWish ==
  ASSUME PushInv, NEW r \in Asks, NEW w \in Wishes, wish' = [wish EXCEPT ![r] = w],
         Informed(wish[r])', gone' = gone,
         UNCHANGED <<subscription, departed, cast, wanted, reached>>
  PROVE  PushInv'
<1>1. r \in Sender /\ r # Caster
  BY PushAssumption DEF Sender
<1>2. RowsApart' /\ Wanted' /\ subscription' \subseteq Rows
  BY DEF PushInv, PushType, RowsApart, Present, Ids, Wanted
<1> QED BY <1>1, <1>2, NamesRest, WishMoves

LEMMA IdsOfRows ==
  ASSUME PushInv, NEW s \in subscription
  PROVE  s \in Rows /\ s.id \in Nat /\ Names(s.id, s.endpoint)
<1>1. s \in Rows /\ s.id \in Nat
  BY DEF PushInv, PushType, Rows
<1>2. s.id \in Present
  BY PresentIs
<1>3. \A t \in subscription : t.id = s.id => t.endpoint = s.endpoint
  BY DEF PushInv, RowsApart
<1> QED BY <1>1, <1>2, <1>3 DEF Names

LEMMA Subscribing ==
  ASSUME PushInv, NEW r \in Asks, NEW m \in Members, NEW e \in Endpoints,
         Subscribe(r, m, e) \/ Unsubscribe(r, m, e)
  PROVE  PushInv'
<1>0. r \in Sender /\ wish[r] \in Wishes /\ wish \in [Sender -> Wishes]
  BY DEF Sender, PushInv, PushType
<1>1. CASE Subscribe(r, m, e)
  <2>1. PICK i \in IF On(e) = {} THEN {0} ELSE Ids(On(e)) :
          wish' = [wish EXCEPT ![r] = WishFor(NoWish, "join", m, e, i)]
    BY Zenon, <1>1 DEF Subscribe, WishFor
  <2>2. i \in Nat /\ (i # 0 => Names(i, e))
    <3>1. CASE i = 0
      BY <3>1
    <3>2. CASE i # 0
      <4>1. PICK s \in subscription : s.endpoint = e /\ i = s.id
        BY <2>1, <3>2 DEF On, Ids
      <4> QED BY <4>1, IdsOfRows
    <3> QED BY <3>1, <3>2
  <2> DEFINE w == WishFor(NoWish, "join", m, e, i)
  <2>3. w \in Wishes /\ w.op = "join" /\ w.endpoint = e /\ w.row = i /\ w.of = m
    BY <2>2, NoWishIs, WishForIs
  <2>4. wish' = [wish EXCEPT ![r] = w] /\ gone' = gone
        /\ UNCHANGED <<subscription, departed, cast, wanted, reached>>
    BY <1>1, <2>1 DEF Subscribe
  <2> HIDE DEF w
  <2>5. wish'[r] = w
    BY <1>0, <2>4
  <2>6. \A j, f : Names(j, f) => Names(j, f)'
    BY <2>4, NamesRest
  <2>7. Informed(wish[r])'
    BY <2>2, <2>3, <2>5, <2>6 DEF Informed
  <2> QED BY <2>3, <2>4, <2>7, OnlyWish
<1>2. CASE Unsubscribe(r, m, e)
  <2>1. PICK s \in On(e) : wish' = [wish EXCEPT ![r] = LeaveOf(NoWish, e, s.id)]
    BY Zenon, <1>2 DEF Unsubscribe, LeaveOf
  <2>2. s.id \in Nat /\ Names(s.id, e) /\ s.id # 0
    <3>1. s \in subscription /\ s.endpoint = e
      BY DEF On
    <3>2. s.id \in Present
      BY <3>1, PresentIs
    <3>3. s.id # 0
      BY <3>2 DEF PushInv, RowsApart
    <3> QED BY <3>1, <3>3, IdsOfRows
  <2> DEFINE i == s.id
             w == LeaveOf(NoWish, e, i)
  <2>3. w \in Wishes /\ w.op = "leave" /\ w.endpoint = e /\ w.row = i
    BY <2>2, NoWishIs, LeaveOfIs
  <2>4. wish' = [wish EXCEPT ![r] = w] /\ gone' = gone
        /\ UNCHANGED <<subscription, departed, cast, wanted, reached>>
    BY <1>2, <2>1 DEF Unsubscribe
  <2> HIDE DEF w
  <2>5. wish'[r] = w
    BY <1>0, <2>4
  <2>6. \A j, f : Names(j, f) => Names(j, f)'
    BY <2>4, NamesRest
  <2>7. Informed(wish[r])'
    BY <2>2, <2>3, <2>5, <2>6 DEF Informed
  <2> QED BY <2>3, <2>4, <2>7, OnlyWish
<1> QED BY <1>1, <1>2

LEMMA SubscribeCommits ==
  ASSUME PushInv, NEW r \in Asks, CommitSubscribe(r)
  PROVE  PushInv'
<1> DEFINE w == wish[r]
<1>0. /\ r \in Sender /\ r # Caster /\ w \in Wishes /\ wish \in [Sender -> Wishes]
      /\ w.op = "join" /\ Goes(r) /\ Informed(w) /\ RowsApart /\ subscription \subseteq Rows
  BY PushAssumption DEF Sender, PushInv, PushType, CommitSubscribe
<1>1. /\ wish' = [wish EXCEPT ![r] = NoWish] /\ wanted' = wanted \cup {w.endpoint}
      /\ UNCHANGED <<departed, gone, cast, reached>>
  BY DEF CommitSubscribe, Leaves
<1>2. w.of \in Members /\ w.endpoint \in Endpoints
  BY <1>0 DEF Informed
<1>3. Informed(wish[r])'
  BY <1>0, <1>1, NoWishIs DEF Informed
<1>4. CASE w.row = 0
  <2>1. On(w.endpoint) = {}
    BY <1>0, <1>4 DEF Goes
  <2>2. subscription' = subscription \cup {[id |-> NextRow, endpoint |-> w.endpoint, of |-> w.of]}
    BY <1>4 DEF CommitSubscribe
  <2>3. /\ RowsApart' /\ subscription' \subseteq Rows /\ \A i, f : Names(i, f) => Names(i, f)'
        /\ \E s \in subscription' : s.endpoint = w.endpoint
    <3> DEFINE e == w.endpoint
               m == w.of
    <3>1. e \in Endpoints /\ m \in Members /\ On(e) = {} /\ departed' = departed
          /\ subscription' = subscription \cup {[id |-> NextRow, endpoint |-> e, of |-> m]}
      BY <1>1, <1>2, <2>1, <2>2
    <3> HIDE DEF e, m
    <3>2. /\ RowsApart' /\ subscription' \subseteq Rows /\ \A i, f : Names(i, f) => Names(i, f)'
          /\ \E s \in subscription' : s.endpoint = e
      BY <1>0, <3>1, Inserting
    <3> QED BY <3>2 DEF e
  <2>4. Wanted'
    BY <1>1, <2>2, <2>3 DEF Wanted, PushInv
  <2> QED BY <1>0, <1>1, <1>3, <2>3, <2>4, NoWishIs, WishMoves
<1>5. CASE w.row # 0
  <2>1. w.row \in Present /\ Names(w.row, w.endpoint)
    BY <1>0, <1>5 DEF Goes, Informed
  <2>2. subscription' = {IF s.id = w.row THEN [s EXCEPT !.of = w.of] ELSE s : s \in subscription}
    BY <1>5 DEF CommitSubscribe
  <2>3. /\ RowsApart' /\ subscription' \subseteq Rows /\ \A j, f : Names(j, f) => Names(j, f)'
        /\ Present' = Present
        /\ \A s \in subscription : \E t \in subscription' : t.id = s.id /\ t.endpoint = s.endpoint
    <3> DEFINE i == w.row
               m == w.of
    <3>1. /\ m \in Members /\ departed' = departed
          /\ subscription' = {IF s.id = i THEN [s EXCEPT !.of = m] ELSE s : s \in subscription}
      BY <1>1, <1>2, <2>2
    <3> HIDE DEF i, m
    <3> QED BY <1>0, <3>1, Rewriting
  <2>4. \E t \in subscription' : t.endpoint = w.endpoint
    <3>1. PICK s \in subscription : s.id = w.row
      BY <2>1, PresentIs
    <3>2. s.endpoint = w.endpoint
      BY <2>1, <3>1 DEF Names
    <3> QED BY <2>3, <3>2
  <2>5. Wanted'
    BY <1>1, <2>3, <2>4 DEF Wanted, PushInv
  <2> QED BY <1>0, <1>1, <1>3, <2>3, <2>5, NoWishIs, WishMoves
<1> QED BY <1>4, <1>5

LEMMA Leaving ==
  ASSUME PushInv, NEW r \in Asks, RefuseSubscribe(r) \/ CommitUnsubscribe(r)
  PROVE  PushInv'
<1> DEFINE w == wish[r]
<1>0. /\ r \in Sender /\ r # Caster /\ w \in Wishes /\ wish \in [Sender -> Wishes]
      /\ Informed(w) /\ RowsApart /\ subscription \subseteq Rows
  BY PushAssumption DEF Sender, PushInv, PushType
<1>1. wish' = [wish EXCEPT ![r] = NoWish] /\ UNCHANGED <<gone, cast, reached>>
  BY DEF RefuseSubscribe, CommitUnsubscribe, Leaves
<1>2. Informed(wish[r])'
  BY <1>0, <1>1, NoWishIs DEF Informed
<1>3. CASE RefuseSubscribe(r)
  BY <1>1, <1>2, <1>3, NoWishIs, OnlyWish DEF RefuseSubscribe
<1>4. CASE CommitUnsubscribe(r)
  <2>1. RemoveRows({w.row}) /\ wanted' = wanted \ {w.endpoint} /\ w.op = "leave"
    BY <1>4 DEF CommitUnsubscribe
  <2>2. /\ RowsApart' /\ subscription' \subseteq subscription /\ departed \subseteq departed'
        /\ \A j, f : Names(j, f) => Names(j, f)'
    BY <1>0, <2>1, Removing
  <2>3. Names(w.row, w.endpoint)
    BY <1>0, <2>1 DEF Informed
  <2>4. subscription' = {s \in subscription : s.id # w.row}
    BY <2>1 DEF RemoveRows
  <2>5. Wanted'
    BY <1>1, <2>1, <2>3, <2>4 DEF Wanted, PushInv, Names
  <2>6. subscription' \subseteq Rows
    BY <1>0, <2>2
  <2> QED BY <1>0, <1>1, <1>2, <2>2, <2>5, <2>6, NoWishIs, WishMoves
<1> QED BY <1>3, <1>4

LEMMA Going ==
  ASSUME PushInv, NEW e \in Endpoints, EndpointGoes(e)
  PROVE  PushInv'
<1>1. /\ gone \subseteq gone' /\ UNCHANGED <<subscription, departed, wish, cast, wanted, reached>>
  BY DEF EndpointGoes
<1>2. \A j, f : Names(j, f) => Names(j, f)'
  BY <1>1, NamesRest
<1>3. ASSUME NEW s \in Sender PROVE Informed(wish[s])'
  <2>1. Informed(wish[s]) /\ wish'[s] = wish[s]
    BY <1>1 DEF PushInv
  <2> QED BY <1>1, <1>2, <2>1 DEF Informed
<1>4. PushType' /\ RowsApart' /\ Wanted' /\ Counting'
  BY <1>1 DEF PushInv, PushType, RowsApart, Present, Ids, Wanted, Counting
<1> QED BY <1>3, <1>4 DEF PushInv

-----------------------------------------------------------------------------
(* Sends and the broadcast.                                                 *)

LEMMA OwnedIs ==
  ASSUME PushInv, NEW m
  PROVE  /\ Owned(m) \in SUBSET Rows /\ IsFiniteSet(Owned(m)) /\ OneEach(Owned(m))
         /\ \A s \in Owned(m) : Names(s.id, s.endpoint)
<1>1. Owned(m) \subseteq subscription
  BY DEF Owned
<1>2. IsFiniteSet(subscription)
  BY RowsCount DEF PushInv
<1>3. IsFiniteSet(Owned(m))
  BY <1>1, <1>2, FS_Subset
<1>4. OneEach(Owned(m))
  BY <1>1 DEF OneEach, PushInv, RowsApart
<1> QED BY <1>1, <1>3, <1>4, IdsOfRows

LEMMA Testing ==
  ASSUME PushInv, NEW r \in Asks, NEW m \in Members, SendTest(r, m)
  PROVE  PushInv'
<1> DEFINE rows == Owned(m)
           w == ListOf(NoWish, m, rows)
<1>1. wish' = [wish EXCEPT ![r] = w]
  BY Zenon DEF SendTest, Listing, ListOf
<1>2. gone' = gone /\ UNCHANGED <<subscription, departed, cast, wanted, reached>>
  BY DEF SendTest
<1>3. rows \in SUBSET Rows /\ IsFiniteSet(rows) /\ OneEach(rows) /\ \A s \in rows : Names(s.id, s.endpoint)
  BY OwnedIs
<1> HIDE DEF rows
<1>4. w \in Wishes /\ w.op = "send" /\ w.subs = rows
  BY <1>3, NoWishIs, ListOfIs
<1> HIDE DEF w
<1>5. wish'[r] = w
  BY <1>1 DEF PushInv, PushType, Sender
<1>6. \A j, f : Names(j, f) => Names(j, f)'
  BY <1>2, NamesRest
<1>7. Informed(wish[r])'
  BY <1>3, <1>4, <1>5, <1>6 DEF Informed
<1> QED BY <1>1, <1>2, <1>4, <1>7, OnlyWish

\* The broadcast's own step when the table stays as it is.
LEMMA CasterMoves ==
  ASSUME PushInv, NEW w \in Wishes, wish' = [wish EXCEPT ![Caster] = w], Informed(wish[Caster])',
         UNCHANGED <<subscription, departed, wanted>>, Counting', reached' \in Nat, cast' \in Casts
  PROVE  PushInv'
<1>1. Caster \in Sender
  BY DEF Sender
<1>2. RowsApart' /\ Wanted' /\ subscription' \subseteq Rows
  BY DEF PushInv, PushType, RowsApart, Present, Ids, Wanted
<1> QED BY <1>1, <1>2, NamesRest, WishMoves DEF Casts

LEMMA Delivering ==
  ASSUME PushInv, NEW s \in Sender, Webpush(s)
  PROVE  PushInv'
<1> DEFINE subs == wish[s].subs
           Dead(failed) == Ids({row \in failed : row.endpoint \in gone})
<1>0. /\ wish[s] \in Wishes /\ wish \in [Sender -> Wishes] /\ wish[s].op = "send"
      /\ Informed(wish[s]) /\ subs \in SUBSET Rows
  BY DEF PushInv, PushType, Webpush, Wishes
<1>1. PICK failed \in SUBSET subs :
        /\ wish' = [wish EXCEPT ![s] = SentOf(wish[s], subs \ failed, Stale(failed), Dead(failed))]
        /\ reached' = IF s = Caster THEN reached + Cardinality(subs \ failed) ELSE reached
  BY Zenon DEF Webpush, SentOf
<1>2. UNCHANGED <<subscription, departed, gone, cast, wanted>>
  BY DEF Webpush
<1> DEFINE fine == subs \ failed
           stale == Stale(failed)
           dead == Dead(failed)
           w == SentOf(wish[s], fine, stale, dead)
<1>3. IsFiniteSet(fine) /\ Cardinality(fine) \in Nat
  <2>1. IsFiniteSet(subs) /\ fine \subseteq subs
    BY <1>0 DEF Informed
  <2>2. IsFiniteSet(fine)
    BY <2>1, FS_Subset
  <2> QED BY <2>2, FS_CardinalityType
<1>4. /\ fine \in SUBSET Rows /\ OneEach(fine) /\ \A q \in fine : Names(q.id, q.endpoint)
      /\ stale = {} /\ dead \in SUBSET Nat
  <2>1. \A q \in failed : Seen(Answer(q)) = 0
    BY DEF Seen, Answer
  <2>2. stale = {}
    BY <2>1 DEF Stale
  <2>3. \A q \in failed : q.id \in Nat
    BY <1>0 DEF Rows
  <2>4. dead \in SUBSET Nat
    BY <2>3 DEF Ids
  <2> QED BY <1>0, <2>2, <2>4 DEF Informed, OneEach
<1>5. /\ wish' = [wish EXCEPT ![s] = w]
      /\ reached' = IF s = Caster THEN reached + Cardinality(fine) ELSE reached
  BY <1>1
<1> HIDE DEF fine, stale, dead, Dead
<1>6. w \in Wishes /\ w.op = "sent" /\ w.fine = fine /\ w.stale = {}
  BY <1>0, <1>4, SentOfIs
<1> HIDE DEF w
<1>7. wish'[s] = w
  BY <1>0, <1>5
<1>8. \A j, f : Names(j, f) => Names(j, f)'
  BY <1>2, NamesRest
<1>9. Informed(wish[s])'
  BY <1>2, <1>3, <1>4, <1>6, <1>7, <1>8 DEF Informed
<1>10. CASE s = Caster
  <2>1. cast.pc = "sending" /\ reached = cast.count /\ reached \in Nat /\ cast \in Casts
    BY <1>0, <1>10 DEF PushInv, PushType, Counting, Casts
  <2>2. reached' = reached + Cardinality(fine) /\ reached' \in Nat
    BY <1>3, <1>5, <1>10, <2>1
  <2>3. Counting'
    BY <1>2, <1>6, <1>7, <1>10, <2>1, <2>2 DEF Counting
  <2> QED BY <1>2, <1>5, <1>6, <1>9, <1>10, <2>1, <2>2, <2>3, CasterMoves
<1>11. CASE s # Caster
  <2>1. s \in Asks
    BY <1>11 DEF Sender
  <2> QED BY <1>2, <1>5, <1>6, <1>9, <1>11, <2>1, OnlyWish
<1> QED BY <1>10, <1>11

FailedOf(c, ids) == [c EXCEPT !.pc = "failed", !.lost = ids]

LEMMA FailedOfIs ==
  ASSUME NEW c \in Casts, NEW ids \in SUBSET Nat
  PROVE  /\ FailedOf(c, ids) \in Casts /\ FailedOf(c, ids).pc = "failed"
         /\ FailedOf(c, ids).count = c.count /\ FailedOf(c, ids).lost = ids
BY Zenon DEF FailedOf, Casts

CountOf(c, n) == [c EXCEPT !.pc = "next", !.count = @ + n]

LEMMA CountOfIs ==
  ASSUME NEW c \in Casts, NEW n \in Nat
  PROVE  CountOf(c, n) \in Casts /\ CountOf(c, n).pc = "next" /\ CountOf(c, n).count = c.count + n
<1>1. c.count + n \in Nat
  BY DEF Casts
<1> QED BY Zenon, <1>1 DEF CountOf, Casts

LEMMA Pruning ==
  ASSUME PushInv, NEW s \in Sender, CommitSend(s)
  PROVE  PushInv'
<1> DEFINE stale == wish[s].stale
           fine == wish[s].fine
<1>0. /\ wish[s] \in Wishes /\ wish \in [Sender -> Wishes] /\ wish[s].op = "sent"
      /\ Informed(wish[s]) /\ RowsApart /\ subscription \subseteq Rows
  BY DEF PushInv, PushType, CommitSend
<1>1. RemoveRows(Ids(stale)) /\ wish' = [wish EXCEPT ![s] = NoWish] /\ wanted' = wanted
  BY DEF CommitSend, Leaves
<1>2. /\ RowsApart' /\ subscription' \subseteq subscription /\ departed \subseteq departed'
      /\ \A j, f : Names(j, f) => Names(j, f)'
  BY <1>0, <1>1, Removing
<1>3. Wanted'
  <2>1. Ids(stale) = {}
    BY <1>0 DEF Informed, Ids
  <2>2. subscription' = {q \in subscription : q.id \notin Ids(stale)}
    BY <1>1 DEF RemoveRows
  <2> QED BY <1>1, <2>1, <2>2 DEF Wanted, PushInv
<1>4. wish'[s] = NoWish /\ Informed(wish[s])'
  BY <1>0, <1>1, NoWishIs DEF Informed
<1>5. subscription' \subseteq Rows
  BY <1>0, <1>2
<1>6. CASE s # Caster
  <2>1. cast' = cast /\ reached' = reached
    BY <1>6 DEF CommitSend
  <2> QED BY <1>1, <1>2, <1>3, <1>4, <1>5, <1>6, <2>1, NoWishIs, WishMoves
<1>7. CASE s = Caster
  <2> DEFINE n == Cardinality(fine)
  <2>1. cast' = CountOf(cast, n) /\ reached' = reached
    BY Zenon, <1>7 DEF CommitSend, CountOf
  <2>2. IsFiniteSet(fine)
    BY <1>0 DEF Informed
  <2>3. n \in Nat
    BY <2>2, FS_CardinalityType
  <2>4. cast \in Casts /\ reached \in Nat /\ reached = cast.count + n
    BY <1>0, <1>7 DEF PushInv, PushType, Counting, Casts
  <2> HIDE DEF n
  <2>5. cast' \in Casts /\ cast'.pc = "next" /\ cast'.count = cast.count + n
    BY <2>1, <2>3, <2>4, CountOfIs
  <2>6. Counting'
    BY <1>4, <1>7, <2>1, <2>4, <2>5, NoWishIs DEF Counting
  <2> QED BY <1>1, <1>2, <1>3, <1>4, <1>5, <1>7, <2>1, <2>4, <2>5, <2>6, NoWishIs, WishMoves DEF Casts
<1> QED BY <1>6, <1>7

LEMMA Failing ==
  ASSUME PushInv, NEW s \in Sender, FailSend(s)
  PROVE  PushInv'
<1> DEFINE fine == wish[s].fine
<1>0. /\ wish \in [Sender -> Wishes] /\ wish[s].op = "sent" /\ Informed(wish[s]) /\ cast \in Casts
      /\ ~Lasting(s) /\ wish[s] \in Wishes
  BY DEF PushInv, PushType, FailSend
<1>1. wish' = [wish EXCEPT ![s] = NoWish]
      /\ UNCHANGED <<subscription, departed, gone, wanted, reached>>
  BY DEF FailSend, Leaves
<1>2. wish'[s] = NoWish /\ Informed(wish[s])'
  BY <1>0, <1>1, NoWishIs DEF Informed
<1>3. CASE s # Caster
  <2>1. cast' = cast /\ s \in Asks
    BY <1>3 DEF FailSend, Sender
  <2> QED BY <1>1, <1>2, <2>1, NoWishIs, OnlyWish
<1>4. CASE s = Caster
  <2> DEFINE ids == Ids(fine)
  <2>1. cast' = FailedOf(cast, ids)
    BY Zenon, <1>4 DEF FailSend, FailedOf
  <2>2. /\ cast' \in Casts /\ cast'.pc = "failed" /\ cast'.count = cast.count
        /\ cast'.lost = Ids(fine)
    <3>1. ids \in SUBSET Nat
      BY <1>0 DEF Wishes, Rows, Ids
    <3> HIDE DEF ids
    <3>2. /\ cast' \in Casts /\ cast'.pc = "failed" /\ cast'.count = cast.count
          /\ cast'.lost = ids
      BY <1>0, <2>1, <3>1, FailedOfIs
    <3> QED BY <3>2 DEF ids
  <2>3. PICK q \in fine : q.id \in departed
    <3>1. PICK q \in fine : q.id \notin Present
      BY <1>0 DEF Lasting, Ids
    <3> QED BY <1>0, <3>1 DEF Informed, Names
  <2>4. Cardinality(Ids(fine)) = Cardinality(fine)
    BY <1>0, IdsCount DEF Informed
  <2>5. reached = cast.count + Cardinality(fine) /\ reached \in Nat
    BY <1>0, <1>4 DEF PushInv, PushType, Counting
  <2>6. Counting'
    <3>1. q.id \in cast'.lost \cap departed'
      BY <1>1, <2>2, <2>3 DEF Ids
    <3>2. cast'.lost \cap departed' # {} /\ reached' = cast'.count + Cardinality(cast'.lost)
      BY <1>1, <2>2, <2>4, <2>5, <3>1
    <3> QED BY <1>2, <1>4, <2>2, <3>2, NoWishIs DEF Counting
  <2> QED BY <1>1, <1>2, <1>4, <2>2, <2>5, <2>6, NoWishIs, CasterMoves
<1> QED BY <1>3, <1>4

LEMMA Casting ==
  ASSUME PushInv, BeginBroadcast \/ EndBroadcast \/ \E m \in Members : BroadcastTo(m)
  PROVE  PushInv'
<1>0. /\ wish \in [Sender -> Wishes] /\ cast \in Casts /\ reached \in Nat /\ Caster \in Sender
      /\ UNCHANGED <<subscription, departed, gone, wanted, reached>>
  BY DEF PushInv, PushType, Casts, Sender, BeginBroadcast, EndBroadcast, BroadcastTo
<1>1. CASE BeginBroadcast \/ EndBroadcast
  <2>1. wish' = [wish EXCEPT ![Caster] = wish[Caster]] /\ wish' = wish
    BY <1>0, <1>1 DEF BeginBroadcast, EndBroadcast
  <2>2. Informed(wish[Caster])'
    <3>1. Informed(wish[Caster])
      BY <1>0 DEF PushInv
    <3>2. \A j, f : Names(j, f) => Names(j, f)'
      BY <1>0, NamesRest
    <3> QED BY <1>0, <2>1, <3>1, <3>2 DEF Informed
  <2>3. cast' \in Casts /\ Counting'
    <3>1. CASE BeginBroadcast
      <4>1. cast = NoCast /\ cast' = [NoCast EXCEPT !.pc = "next", !.left = Members]
        BY Zenon, <3>1 DEF BeginBroadcast
      <4>2. cast'.pc = "next" /\ cast'.count = 0 /\ cast.pc = "none" /\ cast.count = 0 /\ cast' \in Casts
        BY <4>1 DEF NoCast, Casts
      <4> QED BY <1>0, <2>1, <4>2 DEF PushInv, Counting
    <3>2. CASE EndBroadcast
      <4>1. cast.pc = "next" /\ cast' = [cast EXCEPT !.pc = "done"]
        BY <3>2 DEF EndBroadcast
      <4>2. cast'.pc = "done" /\ cast'.count = cast.count /\ cast' \in Casts
        BY <1>0, <4>1 DEF Casts
      <4> QED BY <1>0, <2>1, <4>1, <4>2 DEF PushInv, Counting
    <3> QED BY <1>1, <3>1, <3>2
  <2> QED BY <1>0, <2>1, <2>2, <2>3, CasterMoves
<1>2. ASSUME NEW m \in Members, BroadcastTo(m) PROVE PushInv'
  <2> DEFINE rows == Owned(m)
             w == IF rows = {} THEN NoWish ELSE ListOf(NoWish, m, rows)
  <2>1. wish' = [wish EXCEPT ![Caster] = w]
    BY Zenon, <1>2 DEF BroadcastTo, Listing, ListOf
  <2>2. rows \in SUBSET Rows /\ IsFiniteSet(rows) /\ OneEach(rows) /\ \A s \in rows : Names(s.id, s.endpoint)
    BY OwnedIs
  <2>3. /\ cast.pc = "next"
        /\ cast' = [cast EXCEPT !.left = @ \ {m}, !.pc = IF rows = {} THEN "next" ELSE "sending"]
    BY Zenon, <1>2 DEF BroadcastTo
  <2> HIDE DEF rows
  <2>4. /\ w \in Wishes
        /\ rows = {} => w.op = "none" /\ w.row = 0
        /\ rows # {} => w.op = "send" /\ w.subs = rows
    BY <2>2, NoWishIs, ListOfIs
  <2> HIDE DEF w
  <2>5. cast' \in Casts /\ cast'.count = cast.count
        /\ cast'.pc = IF rows = {} THEN "next" ELSE "sending"
    BY <1>0, <2>3 DEF Casts
  <2>6. wish'[Caster] = w
    BY <1>0, <2>1
  <2>7. \A j, f : Names(j, f) => Names(j, f)'
    BY <1>0, NamesRest
  <2>8. Informed(wish[Caster])'
    BY <2>2, <2>4, <2>6, <2>7 DEF Informed
  <2>9. Counting'
    BY <1>0, <2>3, <2>4, <2>5, <2>6 DEF PushInv, Counting
  <2> QED BY <1>0, <2>1, <2>4, <2>5, <2>8, <2>9, CasterMoves
<1> QED BY <1>1, <1>2

LEMMA PushStep == PushInv /\ [PushNext]_pushVars => PushInv'
<1> SUFFICES ASSUME PushInv, [PushNext]_pushVars PROVE PushInv'
  OBVIOUS
<1>1. CASE UNCHANGED pushVars
  BY <1>1 DEF pushVars, PushInv, PushType, RowsApart, Informed, Names, Wanted, Counting, Present, Ids
<1>2. CASE PushNext
  BY <1>2, Subscribing, SubscribeCommits, Leaving, Going, Testing, Delivering, Pruning, Failing,
     Casting DEF PushNext
<1> QED BY <1>1, <1>2

\* A browser that was told it is subscribed keeps its one row until it unsubscribes, though
\* its endpoint goes: send_to_owner(), which never sees the status of a refusal, prunes
\* nothing.  And the count of a broadcast is that of its deliveries, unless a browser it had
\* just delivered to unsubscribed, whatever the requests that overlap.
THEOREM PushIsSound == PushSpec => []PushSound
<1>1. PushInv => PushSound
  <2> SUFFICES ASSUME PushInv PROVE PushSound
    OBVIOUS
  <2>1. ASSUME NEW e \in Endpoints PROVE Cardinality(On(e)) <= 1
    BY OnePerEndpoint DEF PushInv
  <2>2. ASSUME NEW e \in Endpoints, e \in wanted PROVE On(e) # {}
    BY <2>2 DEF PushInv, Wanted, On
  <2>3. CountsAgree
    BY DEF CountsAgree, PushInv, Counting
  <2> QED BY <2>1, <2>2, <2>3 DEF PushSound, StaysSubscribed
<1> QED BY <1>1, PushInitial, PushStep, PTL DEF PushSpec
=============================================================================
