------------------------------ MODULE Delivery ------------------------------
(***************************************************************************)
(* What replication promises of the copies the instances hold, whatever    *)
(* the requests, passes, failures and restarts in between: a copy that is  *)
(* there stays there, and a version an instance made of its own is only    *)
(* replaced after the difference was recorded as a conflict, or by a sync  *)
(* that believes the instance has no copy.                                 *)
(***************************************************************************)
CONSTANTS Instances, Entries

VARIABLES
  store,     \* store[i][e]: "none", "same" as the canonical entry, or "own"
  disputed,  \* the pairs <<i, e>> a conflict was recorded for
  blind      \* the pairs <<i, e>> of which a sync believes that i has no e

vars == <<store, disputed, blind>>

Init ==
  /\ store = [i \in Instances |-> [e \in Entries |-> "none"]]
  /\ disputed = {}
  /\ blind = {}

Put(i, e, version) == store' = [store EXCEPT ![i][e] = version]

\* The instance changes its copy, without the others.
Diverge(i, e) ==
  /\ store[i][e] = "same"
  /\ Put(i, e, "own")
  /\ UNCHANGED disputed

\* An entry the instance does not hold, or holds as it is, arrives.
Deliver(i, e) ==
  /\ store[i][e] # "own"
  /\ Put(i, e, "same")
  /\ UNCHANGED disputed

\* The canonical entry replaces the version the instance made.
Replace(i, e) ==
  /\ store[i][e] = "own"
  /\ <<i, e>> \in disputed \/ <<i, e>> \in blind
  /\ Put(i, e, "same")
  /\ UNCHANGED disputed

\* A conflict names an entry some instance really changed.
Dispute(i, e) ==
  /\ store[i][e] # "none"
  /\ \E j \in Instances : store[j][e] = "own"
  /\ disputed' = disputed \cup {<<i, e>>}
  /\ UNCHANGED store

Look == UNCHANGED <<store, disputed>>

Next ==
  /\ blind' \in SUBSET (Instances \X Entries)
  /\ \/ \E i \in Instances, e \in Entries :
           Diverge(i, e) \/ Deliver(i, e) \/ Replace(i, e) \/ Dispute(i, e)
     \/ Look

Spec == Init /\ [][Next]_vars
=============================================================================
