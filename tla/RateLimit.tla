------------------------------ MODULE RateLimit ------------------------------
(***************************************************************************)
(* The attempt counter and lockout of one key (core/rate_limit.py) under   *)
(* the sign-ins that use it: family_login, keyed by the family code, and   *)
(* verify_identity and login_owner, keyed by the owner.  Every call is one *)
(* Redis command, and other requests run between two of them.  A sign-in   *)
(* that is refused for another reason than a wrong secret records nothing. *)
(***************************************************************************)
EXTENDS Integers, FiniteSets

CONSTANTS
  Logins,        \* sign-ins in flight
  MaxAttempts,   \* verify_max_attempts
  MaxCrash       \* bound: deaths of the API process

ASSUME RateLimitAssumption ==
  IsFiniteSet(Logins) /\ MaxAttempts \in Nat \ {0} /\ MaxCrash \in Nat

VARIABLES
  attempts,      \* rate:verify:<key>, 0 when absent
  window,        \* whether that key has an expiry
  lockedOut,     \* whether rate:lockout:<key> is there
  login,         \* where a sign-in is
  overlap,       \* ghost: the most sign-ins that were past the check together
  crashed        \* the deaths so far, and whether one left the counter as it is

limitVars == <<attempts, window, lockedOut, login, overlap, crashed>>

Admitted == {s \in Logins : login[s] \in {"verify", "record"}}
Most(m, n) == IF m > n THEN m ELSE n

LimitInit ==
  /\ attempts = 0 /\ window = FALSE /\ lockedOut = FALSE
  /\ login = [s \in Logins |-> "idle"] /\ overlap = 0
  /\ crashed = [times |-> 0, left |-> FALSE]

Goto(s, pc) == login' = [login EXCEPT ![s] = pc]

(***************************************************************************)
(* check_rate_limit(): the lockout's TTL, then the counter.  A counter at  *)
(* the limit becomes the lockout, and the request is refused.              *)
(***************************************************************************)
CheckLockout(s) ==
  /\ login[s] = "idle" /\ ~lockedOut /\ Goto(s, "count")
  /\ UNCHANGED <<attempts, window, lockedOut, overlap, crashed>>

\* BadCheckAttempts and the other definitions named Bad... are faulty variants of the
\* definition that follows them, for the mutation runs only.
BadCheckAttempts(s) ==
  /\ login[s] = "count" /\ Goto(s, IF attempts < MaxAttempts + 1 THEN "verify" ELSE "lock")
  /\ overlap' = IF attempts < MaxAttempts + 1 THEN Most(overlap, Cardinality(Admitted) + 1) ELSE overlap
  /\ UNCHANGED <<attempts, window, lockedOut, crashed>>

CheckAttempts(s) ==
  /\ login[s] = "count" /\ Goto(s, IF attempts < MaxAttempts THEN "verify" ELSE "lock")
  /\ overlap' = IF attempts < MaxAttempts THEN Most(overlap, Cardinality(Admitted) + 1) ELSE overlap
  /\ UNCHANGED <<attempts, window, lockedOut, crashed>>

LockOut(s) ==
  /\ login[s] = "lock" /\ lockedOut' = TRUE /\ Goto(s, "delete")
  /\ UNCHANGED <<attempts, window, overlap, crashed>>

\* DEL of the counter: after a lockout, and first of the two of clear_attempts()
DeleteAttempts(s) ==
  /\ login[s] \in {"delete", "clear"} /\ Goto(s, IF login[s] = "clear" THEN "unlock" ELSE "idle")
  /\ attempts' = 0 /\ window' = FALSE
  /\ crashed' = [crashed EXCEPT !.left = FALSE] /\ UNCHANGED <<lockedOut, overlap>>

\* the secret is right, wrong, or was never compared
Verify(s) ==
  /\ login[s] = "verify" /\ \E pc \in {"clear", "record", "idle"} : Goto(s, pc)
  /\ UNCHANGED <<attempts, window, lockedOut, overlap, crashed>>

BadRecordAttempt(s) ==
  /\ login[s] = "record" /\ attempts' = attempts + 1
  /\ Goto(s, IF attempts = 1 THEN "expire" ELSE "idle")
  /\ UNCHANGED <<window, lockedOut, overlap, crashed>>

\* record_attempt(): INCR, and EXPIRE when the answer is 1
RecordAttempt(s) ==
  /\ login[s] = "record" /\ attempts' = attempts + 1
  /\ Goto(s, IF attempts = 0 THEN "expire" ELSE "idle")
  /\ UNCHANGED <<window, lockedOut, overlap, crashed>>

ExpireAttempts(s) ==
  /\ login[s] = "expire" /\ Goto(s, "idle")
  /\ window' = (attempts # 0)
  /\ UNCHANGED <<attempts, lockedOut, overlap>>
  /\ crashed' = [crashed EXCEPT !.left = FALSE]

ClearAttempts(s) ==
  /\ login[s] = "unlock" /\ Goto(s, "idle") /\ lockedOut' = FALSE
  /\ UNCHANGED <<attempts, window, overlap, crashed>>

WindowEnds ==
  /\ window /\ window' = FALSE /\ attempts' = 0
  /\ UNCHANGED <<lockedOut, login, overlap, crashed>>

LockoutEnds ==
  /\ lockedOut /\ lockedOut' = FALSE
  /\ UNCHANGED <<attempts, window, login, overlap, crashed>>

\* the process dies: its sign-ins end where they are
LimitCrash ==
  /\ crashed.times < MaxCrash
  /\ login' = [s \in Logins |-> "idle"]
  /\ crashed' = [times |-> crashed.times + 1,
                 left |-> crashed.left \/ \E s \in Logins : login[s] = "expire"]
  /\ UNCHANGED <<attempts, window, lockedOut, overlap>>

LimitNext ==
  \/ \E s \in Logins :
       \/ CheckLockout(s) \/ CheckAttempts(s) \/ LockOut(s) \/ DeleteAttempts(s)
       \/ Verify(s) \/ RecordAttempt(s) \/ ExpireAttempts(s) \/ ClearAttempts(s)
  \/ WindowEnds \/ LockoutEnds \/ LimitCrash

LimitSpec == LimitInit /\ [][LimitNext]_limitVars

-----------------------------------------------------------------------------
\* The failures counted, and those the sign-ins past the check may still add, pass the
\* limit by no more than the sign-ins that were past the check together, less the one
\* that may always be: check and record are separate commands.
AttemptsBounded == attempts + Cardinality(Admitted) <= MaxAttempts - 1 + overlap

\* A counter that no longer expires is one whose first failure still has to send
\* EXPIRE, or whose process died before it did; nothing else keeps an owner's
\* failures from being forgotten.
CounterExpires ==
  attempts # 0 /\ ~window => crashed.left \/ \E s \in Logins : login[s] = "expire"
=============================================================================
