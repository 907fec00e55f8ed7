---------------------------- MODULE MCReplication ----------------------------
\* Replication for TLC: what the owner asks for, and four slices of the bounds:
\* a registry that fills from nothing, and syncs over a settled one.
EXTENDS Replication

CONSTANTS p, a, e1

MCRequests == {<<"full", p, a, 0>>, <<"incremental", p, a, 2>>, <<"weights", p, a, 0>>}
MCStarts ==
  {[reg |-> {}, items |-> {}, logs |-> 0, registry |-> 5, restarts |-> 0],
   [reg |-> {p, a}, items |-> {e1}, logs |-> 1, registry |-> 1, restarts |-> 1],
   [reg |-> {p, a}, items |-> {e1}, logs |-> 2, registry |-> 0, restarts |-> 0],
   [reg |-> {p, a}, items |-> {Thread, Rule}, logs |-> 2, registry |-> 0, restarts |-> 0]}
=============================================================================
