-------------------------------- MODULE MCPush --------------------------------
\* Push on its own, for the promise of its docstring.
EXTENDS Push, TLC

MPushStarts == {[join |-> 2, leave |-> 1, test |-> 2, go |-> 1, cast |-> 1]}
=============================================================================
