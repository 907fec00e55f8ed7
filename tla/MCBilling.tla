------------------------------ MODULE MCBilling ------------------------------
(* Instances of Billing for TLC; its constants are all given in the cfg.   *)
EXTENDS Billing, TLC

\* the workers are alike
WorkersAlike == Permutations(Worker)
=============================================================================
