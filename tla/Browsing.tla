------------------------------ MODULE Browsing -------------------------------
(***************************************************************************)
(* The page monitors of one owner (services/web_browser.py).  The monitor  *)
(* loop of main.py runs in every worker process: each pass loads the       *)
(* active monitors, fetches page after page and commits once; meanwhile    *)
(* the owner edits and deletes them, and the passes of other workers load, *)
(* fetch and commit.  Pages, and whether one is fetched, are external;     *)
(* which monitors are due is an input.                                     *)
(*                                                                         *)
(* browse() is left out: its count of the day's pages compares an aware    *)
(* time with a naive column, which the driver refuses, before any fetch.   *)
(***************************************************************************)
EXTENDS Integers, FiniteSets

CONSTANTS
  Monitors,
  Pollers,       \* worker processes, each runs the monitor loop
  MaxVersion,    \* bound: changes of a page
  BrowsingStarts \* bounds: edits of monitors, passes

ASSUME BrowsingAssumption ==
  /\ IsFiniteSet(Pollers) /\ Pollers # {} /\ MaxVersion \in Nat
  /\ \A b \in BrowsingStarts : {b.edit, b.pass} \subseteq Nat

VARIABLES
  monitor,       \* the page_monitors rows
  page,          \* the version of the page
  pass,          \* the pass of each worker: where, the rows it loaded, what it will write
  swallowed,     \* ghost: how often a monitor's content was replaced and nothing reported
  browsingLeft   \* the bounds that are left

browsingVars == <<monitor, page, pass, swallowed, browsingLeft>>

NoMonitor == [status |-> "none", hash |-> 0, checks |-> 0]
NoRows == [m \in Monitors |-> NoMonitor]
NoPass == [pc |-> "idle", loaded |-> NoRows, todo |-> {}, row |-> NoRows]

BrowsingInit ==
  /\ monitor = NoRows /\ page = [m \in Monitors |-> 1]
  /\ pass = [w \in Pollers |-> NoPass] /\ swallowed = [m \in Monitors |-> 0]
  /\ browsingLeft \in BrowsingStarts

Take(what) == browsingLeft[what] > 0 /\ browsingLeft' = [browsingLeft EXCEPT ![what] = @ - 1]

(***************************************************************************)
(* The owner's monitors.                                                   *)
(***************************************************************************)
There(m) == monitor[m].status \notin {"none", "deleted"}

CreateMonitor(m) ==
  /\ monitor[m] = NoMonitor /\ Take("edit") /\ monitor' = [monitor EXCEPT ![m].status = "active"]
  /\ UNCHANGED <<page, pass, swallowed>>

UpdateMonitor(m, s) ==
  /\ There(m) /\ Take("edit") /\ monitor' = [monitor EXCEPT ![m].status = s]
  /\ UNCHANGED <<page, pass, swallowed>>

DeleteMonitor(m) ==
  /\ There(m) /\ Take("edit") /\ monitor' = [monitor EXCEPT ![m] = [NoMonitor EXCEPT !.status = "deleted"]]
  /\ UNCHANGED <<page, pass, swallowed>>

PageChanges(m) ==
  /\ page[m] <= MaxVersion /\ page' = [page EXCEPT ![m] = @ + 1]
  /\ UNCHANGED <<monitor, pass, swallowed, browsingLeft>>

(***************************************************************************)
(* check_monitors() and _check_single_monitor().                           *)
(***************************************************************************)
Active == {m \in Monitors : monitor[m].status = "active"}

BeginPass(w) ==
  /\ pass[w].pc = "idle" /\ Take("pass")
  /\ \E due \in SUBSET Active :
       pass' = [pass EXCEPT ![w] = [pc |-> "check", loaded |-> monitor, todo |-> due, row |-> monitor]]
  /\ UNCHANGED <<monitor, page, swallowed>>

Hash(m) == page[m]

\* Row r of monitor m, one check later.
Checked(p, m, r) == [p EXCEPT !.todo = @ \ {m}, !.row[m] = [r EXCEPT !.checks = @ + 1]]
CheckRow(w, m, r) == pass' = [pass EXCEPT ![w] = Checked(pass[w], m, r)]

\* BadCheckMonitor and the other definitions named Bad... are faulty variants of the
\* definition that follows them, for the mutation runs only.
BadCheckMonitor(w, m) ==
  LET r == pass[w].loaded[m] IN
  /\ pass[w].pc = "check" /\ m \in pass[w].todo
  /\ \/ CheckRow(w, m, r)
     \/ CheckRow(w, m, [r EXCEPT !.status = "triggered"])
     \/ r.hash # Hash(m) /\ CheckRow(w, m, [r EXCEPT !.hash = Hash(m)])
  /\ UNCHANGED <<monitor, page, swallowed, browsingLeft>>

\* not fetched or unchanged; a keyword found; another content; the first content
CheckMonitor(w, m) ==
  LET r == pass[w].loaded[m] IN
  /\ pass[w].pc = "check" /\ m \in pass[w].todo
  /\ \/ CheckRow(w, m, r)
     \/ CheckRow(w, m, [r EXCEPT !.status = "triggered"])
     \/ r.hash # 0 /\ r.hash # Hash(m) /\ CheckRow(w, m, [r EXCEPT !.status = "triggered", !.hash = Hash(m)])
     \/ r.hash = 0 /\ CheckRow(w, m, [r EXCEPT !.hash = Hash(m)])
  /\ UNCHANGED <<monitor, page, swallowed, browsingLeft>>

Touched(p) == {m \in Monitors : p.row[m] # p.loaded[m]}

\* BadMerged writes the whole row.
BadMerged(old, was, new) == new

Merged(old, was, new) ==
  [status |-> IF new.status # was.status THEN new.status ELSE old.status,
   hash |-> IF new.hash # was.hash THEN new.hash ELSE old.hash, checks |-> new.checks]

\* one commit writes the columns that differ from what was loaded; a row deleted
\* since fails it for all
Written(p) ==
  IF \A m \in Touched(p) : There(m)
  THEN [m \in Monitors |-> IF m \in Touched(p) THEN Merged(monitor[m], p.loaded[m], p.row[m])
                                               ELSE monitor[m]]
  ELSE monitor

Swallows(p, m) == monitor[m].hash \notin {0, Written(p)[m].hash} /\ p.row[m].status # "triggered"

CommitPass(w) ==
  /\ pass[w].pc = "check" /\ pass[w].todo = {}
  /\ pass' = [pass EXCEPT ![w] = NoPass]
  /\ monitor' = Written(pass[w])
  /\ swallowed' = [m \in Monitors |-> IF Swallows(pass[w], m)
                                      THEN swallowed[m] + 1 ELSE swallowed[m]]
  /\ UNCHANGED <<page, browsingLeft>>

\* the loops are restarted, or the process dies
AbandonPass(w) ==
  /\ pass[w].pc = "check" /\ pass' = [pass EXCEPT ![w] = NoPass]
  /\ UNCHANGED <<monitor, page, swallowed, browsingLeft>>

BrowsingNext ==
  \/ \E m \in Monitors :
       \/ CreateMonitor(m) \/ DeleteMonitor(m) \/ PageChanges(m)
       \/ \E s \in {"active", "paused"} : UpdateMonitor(m, s)
  \/ \E w \in Pollers :
       \/ BeginPass(w) \/ CommitPass(w) \/ AbandonPass(w)
       \/ \E m \in Monitors : CheckMonitor(w, m)

BrowsingSpec == BrowsingInit /\ [][BrowsingNext]_browsingVars

-----------------------------------------------------------------------------
\* A change of a page is swallowed when the content a monitor remembers is replaced by
\* another and nothing is reported.  That happens only through passes that overlap the
\* first one to see the page, and take what they find for the first content as well: less
\* often than there are workers in the life of a monitor, and never with one worker.
ChangesReported == \A m \in Monitors : swallowed[m] < Cardinality(Pollers)

\* A pass, which commits long after it loaded the rows, does not undo what the owner has
\* set meanwhile: a monitor that is paused stays so, unless the pass reports it.
PausesKept ==
  [][\A m \in Monitors, w \in Pollers :
       pass[w].pc = "check" /\ pass'[w] = NoPass /\ monitor[m].status = "paused" =>
         \/ monitor'[m].status = "paused"
         \/ monitor'[m].status = "triggered" /\ pass[w].row[m].status = "triggered"]_browsingVars
=============================================================================
