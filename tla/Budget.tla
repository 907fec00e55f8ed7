------------------------------- MODULE Budget --------------------------------
(***************************************************************************)
(* The monthly budget of one external LLM configuration                    *)
(* (services/external_llm.py) and the loop of main.py that clears it.  A   *)
(* query checks the budget, waits for the provider, and writes the amount  *)
(* it had read plus its cost.  Time is in hours: the loop wakes once an    *)
(* hour and, as each sleep ends a little later, may pass over an hour.     *)
(***************************************************************************)
EXTENDS Integers, FiniteSets

CONSTANTS
  Queries,       \* queries in flight
  Costs,         \* what a query may cost
  Limits,        \* monthly budgets the owner may set, 0 for none
  Month,         \* hours in a month
  MaxHour, MaxQuery, MaxEdit, MaxRestart   \* bounds

ASSUME BudgetAssumption ==
  /\ Costs \subseteq Nat /\ Limits \subseteq Nat /\ Limits # {} /\ Month \in Nat \ {0, 1}
  /\ {MaxHour, MaxQuery, MaxEdit, MaxRestart} \subseteq Nat

VARIABLES
  limit,         \* monthly_budget_usd; -1 once the configuration is deleted
  spent,         \* spent_this_month_usd
  paid,          \* ghost: what the logged queries cost since the last reset
  query,         \* the queries
  mixed,         \* ghost: since the last reset, some query did not see another's cost
  hour, wake,    \* the hour, and the hour of the loop's next wake-up
  reset,         \* the loop's reset: idle, or about to commit
  missed,        \* ghost: the months whose first hour the loop slept through or failed in
  done,          \* the months that were reset
  budgetLeft     \* the bounds that are left

budgetVars == <<limit, spent, paid, query, mixed, hour, wake, reset, missed, done, budgetLeft>>

NoQuery == [pc |-> "idle", read |-> 0, cost |-> 0]
Use(what) == budgetLeft[what] > 0 /\ budgetLeft' = [budgetLeft EXCEPT ![what] = @ - 1]
Clock == <<hour, wake, reset, missed, done>>

BudgetInit ==
  /\ limit \in Limits /\ spent = 0 /\ paid = 0 /\ mixed = FALSE
  /\ query = [q \in Queries |-> NoQuery]
  /\ hour = 1 /\ wake = 1 /\ reset = "idle" /\ missed = {} /\ done = {0}
  /\ budgetLeft = [query |-> MaxQuery, edit |-> MaxEdit, restart |-> MaxRestart]

(***************************************************************************)
(* query_external(): check_budget, the provider, record_usage.             *)
(***************************************************************************)
Within(s) == limit > 0 => s < limit

\* BadBeginQuery and the other definitions named Bad... are faulty variants of the
\* definition that follows them, for the mutation runs only.
BadBeginQuery(q) ==
  /\ query[q].pc = "idle" /\ limit >= 0 /\ Use("query")
  /\ query' = [query EXCEPT ![q] = [pc |-> "provider", read |-> spent, cost |-> 0]]
  /\ UNCHANGED <<limit, spent, paid, mixed, Clock>>

BeginQuery(q) ==
  /\ query[q].pc = "idle" /\ limit >= 0 /\ Within(spent) /\ Use("query")
  /\ query' = [query EXCEPT ![q] = [pc |-> "provider", read |-> spent, cost |-> 0]]
  /\ UNCHANGED <<limit, spent, paid, mixed, Clock>>

\* the provider fails, or answers for a cost
CallProvider(q) ==
  /\ query[q].pc = "provider"
  /\ \/ query' = [query EXCEPT ![q] = NoQuery]
     \/ \E c \in Costs : query' = [query EXCEPT ![q] = [@ EXCEPT !.pc = "record", !.cost = c]]
  /\ UNCHANGED <<limit, spent, paid, mixed, Clock, budgetLeft>>

BadRecordUsage(q) ==
  LET r == query[q] IN
  /\ r.pc = "record" /\ query' = [query EXCEPT ![q] = NoQuery]
  /\ \/ limit < 0 /\ UNCHANGED <<spent, paid, mixed>>
     \/ /\ limit >= 0 /\ spent' = r.cost /\ paid' = paid + r.cost
        /\ mixed' = (mixed \/ r.read # spent)
  /\ UNCHANGED <<limit, Clock, budgetLeft>>

\* the log and the amount in one commit, which fails once the row is deleted
RecordUsage(q) ==
  LET r == query[q] IN
  /\ r.pc = "record" /\ query' = [query EXCEPT ![q] = NoQuery]
  /\ \/ limit < 0 /\ UNCHANGED <<spent, paid, mixed>>
     \/ /\ limit >= 0 /\ spent' = r.read + r.cost /\ paid' = paid + r.cost
        /\ mixed' = (mixed \/ r.read # spent)
  /\ UNCHANGED <<limit, Clock, budgetLeft>>

UpdateConfig(l) ==
  /\ limit >= 0 /\ l # limit /\ Use("edit") /\ limit' = l
  /\ UNCHANGED <<spent, paid, query, mixed, Clock>>

DeleteConfig ==
  /\ limit >= 0 /\ Use("edit") /\ limit' = -1
  /\ UNCHANGED <<spent, paid, query, mixed, Clock>>

(***************************************************************************)
(* _monthly_budget_reset_loop() and reset_monthly_budgets().               *)
(***************************************************************************)
First(h) == h % Month = 0
MonthOf(h) == h \div Month

NextHour ==
  /\ hour < MaxHour /\ wake > hour /\ reset = "idle" /\ hour' = hour + 1
  /\ UNCHANGED <<limit, spent, paid, query, mixed, wake, reset, missed, done, budgetLeft>>

\* the next wake-up is in the next hour, or in the one after when the sleeps have drifted
Sleep(h) == /\ wake' = h
            /\ missed' = missed \cup {MonthOf(g) : g \in {k \in (hour + 1)..(h - 1) : First(k)}}

Due == limit >= 0 /\ spent > 0

\* in the first hour of the month the amounts above zero are read, to become zero
Wake ==
  /\ wake = hour /\ reset = "idle" /\ \E h \in {hour + 1, hour + 2} : Sleep(h)
  /\ reset' = IF First(hour) /\ Due THEN "commit" ELSE "idle"
  /\ done' = IF First(hour) /\ ~Due THEN done \cup {MonthOf(hour)} ELSE done
  /\ UNCHANGED <<limit, spent, paid, query, mixed, hour, budgetLeft>>

\* a configuration deleted since fails the commit
ResetBudgets ==
  /\ reset = "commit" /\ reset' = "idle"
  /\ \/ /\ limit >= 0 /\ spent' = 0 /\ paid' = 0
        /\ mixed' = \E q \in Queries : query[q].pc # "idle"
        /\ done' = done \cup {MonthOf(hour)} /\ UNCHANGED missed
     \/ limit < 0 /\ missed' = missed \cup {MonthOf(hour)} /\ UNCHANGED <<spent, paid, mixed, done>>
  /\ UNCHANGED <<limit, query, hour, wake, budgetLeft>>

\* the loops are restarted, or the process is: the hour of sleep starts again
RestartLoop ==
  /\ Use("restart") /\ reset' = "idle" /\ wake' = hour + 1
  /\ missed' = IF First(hour) /\ MonthOf(hour) \notin done THEN missed \cup {MonthOf(hour)} ELSE missed
  /\ UNCHANGED <<limit, spent, paid, query, mixed, hour, done>>

BudgetNext ==
  \/ \E q \in Queries : BeginQuery(q) \/ CallProvider(q) \/ RecordUsage(q)
  \/ \E l \in Limits : UpdateConfig(l)
  \/ DeleteConfig \/ NextHour \/ Wake \/ ResetBudgets \/ RestartLoop

BudgetSpec == BudgetInit /\ [][BudgetNext]_budgetVars

-----------------------------------------------------------------------------
\* The amount the budget is checked against is what the logged queries cost since
\* the last reset, as long as none of them began before another had been recorded
\* or before the reset: nothing but an overlap loses or keeps a cost.  And whatever
\* overlaps, it passes the limit by the cost of one query at most while the owner
\* leaves the limit as it is: each query writes the amount it was let in with.
SpentBounded ==
  /\ ~mixed => spent = paid
  /\ budgetLeft.edit = MaxEdit /\ limit > 0 =>
       \A c \in Costs : (\A d \in Costs : d <= c) => spent < limit + c

\* A month begins without its reset only if the loop slept over its first hour,
\* was restarted in it, or failed to commit.
MonthlyReset == \A m \in 0..MonthOf(hour) :
  m < MonthOf(hour) \/ hour % Month > 0 => m \in done \cup missed

BudgetSound == SpentBounded /\ MonthlyReset
=============================================================================
