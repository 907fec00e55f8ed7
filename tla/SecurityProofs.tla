--------------------------- MODULE SecurityProofs ---------------------------
(***************************************************************************)
(* What the sign-ins, the browsers, the second factor, the identity guard  *)
(* and the exports promise, for any number of requests at once, any limit, *)
(* any lifetime and any number of rows. Each part states the inductive     *)
(* invariant of one module, that its steps keep it, and the theorem.       *)
(***************************************************************************)
EXTENDS RateLimit, Sessions, TwoFactor, Guard, Exports, FiniteSetTheorems, TLAPS

-----------------------------------------------------------------------------
(* RateLimit: any number of sign-ins, any limit and any number of deaths   *)
(* of the process.                                                         *)

\* The values the keys, the sign-ins and the ghosts take.
LimitTypeOK ==
  /\ attempts \in Nat /\ window \in BOOLEAN /\ lockedOut \in BOOLEAN
  /\ login \in [Logins -> {"idle", "count", "lock", "delete", "verify", "record", "expire", "clear", "unlock"}]
  /\ overlap \in Nat
  /\ crashed \in [times : Nat, left : BOOLEAN]

\* The sign-ins past the check were past it together when the last of them passed.
OverlapCounts == Cardinality(Admitted) <= overlap

LimitInv == LimitTypeOK /\ OverlapCounts /\ AttemptsBounded /\ CounterExpires

-----------------------------------------------------------------------------
\* The sign-ins past the check are finitely many, and their number is a natural one.
LEMMA AdmittedFinite == IsFiniteSet(Admitted) /\ Cardinality(Admitted) \in Nat
<1>1. IsFiniteSet(Admitted)
  BY RateLimitAssumption, FS_Subset DEF Admitted
<1> QED BY <1>1, FS_CardinalityType

\* A step that lets no further sign-in past the check leaves no more of them past it.
LEMMA AdmittedShrinks ==
  ASSUME Admitted' \subseteq Admitted
  PROVE  Cardinality(Admitted') \in Nat /\ Cardinality(Admitted') <= Cardinality(Admitted)
<1>1. IsFiniteSet(Admitted') /\ Cardinality(Admitted') <= Cardinality(Admitted)
  BY AdmittedFinite, FS_Subset
<1> QED BY <1>1, FS_CardinalityType

\* One that takes a sign-in from among them leaves one fewer.
LEMMA AdmittedLeaves ==
  ASSUME NEW s \in Admitted, Admitted' = Admitted \ {s}
  PROVE  Cardinality(Admitted') = Cardinality(Admitted) - 1
BY AdmittedFinite, FS_RemoveElement

\* One that lets a sign-in past the check leaves one more.
LEMMA AdmittedJoins ==
  ASSUME NEW s, s \notin Admitted, Admitted' = Admitted \cup {s}
  PROVE  Cardinality(Admitted') = Cardinality(Admitted) + 1
BY AdmittedFinite, FS_AddElement

LEMMA LimitInvInit == LimitInit => LimitInv
<1> SUFFICES ASSUME LimitInit PROVE LimitInv
  OBVIOUS
<1>1. LimitTypeOK
  BY DEF LimitInit, LimitTypeOK
<1>2. Admitted = {}
  BY DEF LimitInit, Admitted
<1>3. Cardinality(Admitted) = 0
  BY <1>2, FS_EmptySet
<1>4. OverlapCounts /\ AttemptsBounded
  BY <1>3, RateLimitAssumption DEF LimitInit, OverlapCounts, AttemptsBounded
<1>5. CounterExpires
  BY DEF LimitInit, CounterExpires
<1> QED BY <1>1, <1>4, <1>5 DEF LimitInv

-----------------------------------------------------------------------------
LEMMA LimitTypeNext == LimitTypeOK /\ [LimitNext]_limitVars => LimitTypeOK'
<1> SUFFICES ASSUME LimitTypeOK, [LimitNext]_limitVars PROVE LimitTypeOK'
  OBVIOUS
<1> USE DEF LimitTypeOK, Goto
<1>1. ASSUME NEW s \in Logins, CheckLockout(s) PROVE LimitTypeOK'
  BY <1>1 DEF CheckLockout
<1>2. ASSUME NEW s \in Logins, CheckAttempts(s) PROVE LimitTypeOK'
  BY <1>2, AdmittedFinite DEF CheckAttempts, Most
<1>3. ASSUME NEW s \in Logins, LockOut(s) PROVE LimitTypeOK'
  BY <1>3 DEF LockOut
<1>4. ASSUME NEW s \in Logins, DeleteAttempts(s) PROVE LimitTypeOK'
  BY <1>4 DEF DeleteAttempts
<1>5. ASSUME NEW s \in Logins, Verify(s) PROVE LimitTypeOK'
  BY <1>5 DEF Verify
<1>6. ASSUME NEW s \in Logins, RecordAttempt(s) PROVE LimitTypeOK'
  BY <1>6 DEF RecordAttempt
<1>7. ASSUME NEW s \in Logins, ExpireAttempts(s) PROVE LimitTypeOK'
  BY <1>7 DEF ExpireAttempts
<1>8. ASSUME NEW s \in Logins, ClearAttempts(s) PROVE LimitTypeOK'
  BY <1>8 DEF ClearAttempts
<1>9. CASE WindowEnds
  BY <1>9, Zenon, 0 \in Nat DEF WindowEnds
<1>10. CASE LockoutEnds
  BY <1>10, Zenon DEF LockoutEnds
<1>11. CASE LimitCrash
  BY <1>11 DEF LimitCrash
<1>12. CASE UNCHANGED limitVars
  BY <1>12 DEF limitVars
<1> QED BY <1>1, <1>2, <1>3, <1>4, <1>5, <1>6, <1>7, <1>8, <1>9, <1>10, <1>11, <1>12 DEF LimitNext

-----------------------------------------------------------------------------
LEMMA BoundNext ==
  LimitTypeOK /\ OverlapCounts /\ AttemptsBounded /\ [LimitNext]_limitVars
    => (OverlapCounts /\ AttemptsBounded)'
<1> SUFFICES ASSUME LimitTypeOK, OverlapCounts, AttemptsBounded, [LimitNext]_limitVars
             PROVE  (OverlapCounts /\ AttemptsBounded)'
  OBVIOUS
<1> USE DEF OverlapCounts, AttemptsBounded
<1> DEFINE n == Cardinality(Admitted)
<1>0. n \in Nat /\ attempts \in Nat /\ overlap \in Nat /\ MaxAttempts \in Nat \ {0}
  BY AdmittedFinite, RateLimitAssumption DEF LimitTypeOK
\* what neither counts nor admits
<1>1. ASSUME Admitted' \subseteq Admitted, attempts' = attempts \/ attempts' = 0, overlap' = overlap
      PROVE  (OverlapCounts /\ AttemptsBounded)'
  <2>1. Cardinality(Admitted') \in Nat /\ Cardinality(Admitted') <= n
    BY <1>1, AdmittedShrinks
  <2> QED BY <1>0, <1>1, <2>1
<1>2. ASSUME NEW s \in Logins, CheckLockout(s) PROVE (OverlapCounts /\ AttemptsBounded)'
  BY <1>1, <1>2 DEF CheckLockout, Goto, Admitted, LimitTypeOK
<1>3. ASSUME NEW s \in Logins, CheckAttempts(s) PROVE (OverlapCounts /\ AttemptsBounded)'
  <2>1. CASE attempts < MaxAttempts
    <3>1. s \notin Admitted /\ Admitted' = Admitted \cup {s}
      BY <1>3, <2>1 DEF CheckAttempts, Goto, Admitted, LimitTypeOK
    <3>2. Cardinality(Admitted') = n + 1
      BY <3>1, AdmittedJoins
    <3>3. overlap' \in Nat /\ overlap' >= n + 1 /\ attempts' = attempts
      BY <1>0, <1>3, <2>1 DEF CheckAttempts, Most
    <3> QED BY <1>0, <2>1, <3>2, <3>3
  <2>2. CASE ~(attempts < MaxAttempts)
    BY <1>1, <1>3, <2>2 DEF CheckAttempts, Goto, Admitted, LimitTypeOK
  <2> QED BY <2>1, <2>2
<1>4. ASSUME NEW s \in Logins, LockOut(s) PROVE (OverlapCounts /\ AttemptsBounded)'
  BY <1>1, <1>4 DEF LockOut, Goto, Admitted, LimitTypeOK
<1>5. ASSUME NEW s \in Logins, DeleteAttempts(s) PROVE (OverlapCounts /\ AttemptsBounded)'
  BY <1>1, <1>5 DEF DeleteAttempts, Goto, Admitted, LimitTypeOK
<1>6. ASSUME NEW s \in Logins, Verify(s) PROVE (OverlapCounts /\ AttemptsBounded)'
  BY <1>1, <1>6 DEF Verify, Goto, Admitted, LimitTypeOK
<1>7. ASSUME NEW s \in Logins, RecordAttempt(s) PROVE (OverlapCounts /\ AttemptsBounded)'
  <2>1. s \in Admitted /\ Admitted' = Admitted \ {s}
    BY <1>7 DEF RecordAttempt, Goto, Admitted, LimitTypeOK
  <2>2. Cardinality(Admitted') = n - 1
    BY <2>1, AdmittedLeaves
  <2>3. attempts' = attempts + 1 /\ overlap' = overlap
    BY <1>7 DEF RecordAttempt
  <2> QED BY <1>0, <2>2, <2>3
<1>8. ASSUME NEW s \in Logins, ExpireAttempts(s) PROVE (OverlapCounts /\ AttemptsBounded)'
  BY <1>1, <1>8 DEF ExpireAttempts, Goto, Admitted, LimitTypeOK
<1>9. ASSUME NEW s \in Logins, ClearAttempts(s) PROVE (OverlapCounts /\ AttemptsBounded)'
  BY <1>1, <1>9 DEF ClearAttempts, Goto, Admitted, LimitTypeOK
<1>10. CASE WindowEnds \/ LockoutEnds \/ LimitCrash \/ UNCHANGED limitVars
  BY <1>1, <1>10 DEF WindowEnds, LockoutEnds, LimitCrash, limitVars, Admitted
<1> QED BY <1>2, <1>3, <1>4, <1>5, <1>6, <1>7, <1>8, <1>9, <1>10 DEF LimitNext

-----------------------------------------------------------------------------
LEMMA ExpiryNext ==
  LimitTypeOK /\ CounterExpires /\ [LimitNext]_limitVars => CounterExpires'
<1> SUFFICES ASSUME LimitTypeOK, CounterExpires, [LimitNext]_limitVars PROVE CounterExpires'
  OBVIOUS
<1> USE DEF CounterExpires, LimitTypeOK, Goto
\* a step of another sign-in leaves the one that still has to send EXPIRE where it is
<1>1. ASSUME NEW s \in Logins, NEW pc, login[s] # "expire", login' = [login EXCEPT ![s] = pc],
             attempts' = attempts, window' = window, crashed' = crashed
      PROVE  CounterExpires'
  BY <1>1
<1>2. ASSUME NEW s \in Logins, CheckLockout(s) PROVE CounterExpires'
  BY <1>1, <1>2 DEF CheckLockout
<1>3. ASSUME NEW s \in Logins, CheckAttempts(s) PROVE CounterExpires'
  BY <1>1, <1>3 DEF CheckAttempts
<1>4. ASSUME NEW s \in Logins, LockOut(s) PROVE CounterExpires'
  BY <1>1, <1>4 DEF LockOut
<1>5. ASSUME NEW s \in Logins, DeleteAttempts(s) PROVE CounterExpires'
  BY <1>5 DEF DeleteAttempts
<1>6. ASSUME NEW s \in Logins, Verify(s) PROVE CounterExpires'
  BY <1>1, <1>6 DEF Verify
<1>7. ASSUME NEW s \in Logins, RecordAttempt(s) PROVE CounterExpires'
  <2>1. CASE attempts = 0
    BY <1>7, <2>1 DEF RecordAttempt
  <2>2. CASE attempts # 0
    BY <1>7, <2>2 DEF RecordAttempt
  <2> QED BY <2>1, <2>2
<1>8. ASSUME NEW s \in Logins, ExpireAttempts(s) PROVE CounterExpires'
  BY <1>8 DEF ExpireAttempts
<1>9. ASSUME NEW s \in Logins, ClearAttempts(s) PROVE CounterExpires'
  BY <1>1, <1>9 DEF ClearAttempts
<1>10. CASE WindowEnds \/ LockoutEnds
  BY <1>10 DEF WindowEnds, LockoutEnds
<1>11. CASE LimitCrash
  BY <1>11 DEF LimitCrash
<1>12. CASE UNCHANGED limitVars
  BY <1>12 DEF limitVars
<1> QED BY <1>2, <1>3, <1>4, <1>5, <1>6, <1>7, <1>8, <1>9, <1>10, <1>11, <1>12 DEF LimitNext

-----------------------------------------------------------------------------
\* The inductive invariant holds in every state the limiter reaches.
LEMMA LimitInvariant == LimitSpec => []LimitInv
<1>1. LimitInv /\ [LimitNext]_limitVars => LimitInv'
  BY LimitTypeNext, BoundNext, ExpiryNext DEF LimitInv
<1> QED BY LimitInvInit, <1>1, PTL DEF LimitSpec

\* However sign-ins interleave and processes die, the failures of one key pass the
\* limit by no more than the sign-ins that were past check_rate_limit() together.
THEOREM FailuresAreBounded == LimitSpec => []AttemptsBounded
<1>1. LimitInv => AttemptsBounded
  BY DEF LimitInv
<1> QED BY LimitInvariant, <1>1, PTL

\* Unless a process dies between INCR and EXPIRE, a counter of failures expires.
THEOREM FailuresAreForgotten == LimitSpec => []CounterExpires
<1>1. LimitInv => CounterExpires
  BY DEF LimitInv
<1> QED BY LimitInvariant, <1>1, PTL

-----------------------------------------------------------------------------
(* Sessions: SlotExplained for every number of browsers and tabs and every *)
(* lifetime. It is not inductive: what makes a refresh work is that the    *)
(* slot, when it is filled, outlives every token of the owner              *)
(* (SlotOutlives), and what makes a sign-out hold is that a refresh past   *)
(* its check has a sign-in, or the sign-out itself, to account for it      *)
(* (PastCheck).                                                            *)

Pcs == {"idle", "store", "answer", "check", "revoke", "logout", "clear"}
Calls == [pc : Pcs, kind : {"none", "signin", "refresh", "signout"}, iat : Nat]

SessionsType ==
  /\ today \in Nat /\ slot \in Nat /\ held \in [Browsers -> Nat] /\ call \in [Tabs -> Calls]
  /\ \A t \in Tabs : /\ call[t].pc \in {"check", "revoke"} => call[t].kind = "refresh"
                     /\ call[t].pc = "store" => call[t].kind \in {"signin", "refresh"}

Storing == {t \in Refreshing : call[t].pc = "store"}

\* A token issued on a day works as long as it lives, but for what RefreshWorks excepts.
Outlived(iat) ==
  Alive(iat) => \/ iat + Ttl <= slot
                \/ slot = 0 /\ (lost # "no" \/ Storing # {})

\* The tokens of the browsers, and those on their way to them.
SlotOutlives ==
  /\ \A b \in Browsers : held[b] <= today /\ Outlived(held[b])
  /\ \A t \in Tabs : call[t].iat <= today /\ (call[t].pc = "answer" => Outlived(call[t].iat))

PastCheck == slot > 0 \/ Refreshing # {} => entered \/ late

SessionsInv == SessionsType /\ SlotOutlives /\ PastCheck

-----------------------------------------------------------------------------
LEMMA SessionsInitial == SessionsInit => SessionsInv
<1> SUFFICES ASSUME SessionsInit PROVE SessionsInv
  OBVIOUS
<1>1. SessionsType
  BY DEF SessionsInit, SessionsType, NoCall, Calls, Pcs
<1>2. SlotOutlives
  BY DEF SessionsInit, SlotOutlives, Outlived, Alive, NoCall
<1>3. PastCheck
  BY DEF SessionsInit, PastCheck, NoCall, Refreshing
<1> QED
  BY <1>1, <1>2, <1>3 DEF SessionsInv

LEMMA SessionsTyped == SessionsType /\ [SessionsNext]_sessionVars => SessionsType'
<1> SUFFICES ASSUME SessionsType, [SessionsNext]_sessionVars PROVE SessionsType'
  OBVIOUS
<1> USE SessionsAssumption DEF SessionsType, Calls, Pcs
<1>1. ASSUME NEW t \in Tabs, SignIn(t) PROVE SessionsType'
  BY <1>1 DEF SignIn
<1>2. ASSUME NEW t \in Tabs, StoreRefreshToken(t) PROVE SessionsType'
  BY <1>2 DEF StoreRefreshToken, Draft
<1>3. ASSUME NEW t \in Tabs, Answer(t) PROVE SessionsType'
  BY <1>3 DEF Answer, NoCall
<1>4. ASSUME NEW t \in Tabs, TryRefresh(t) PROVE SessionsType'
  BY <1>4 DEF TryRefresh
<1>5. ASSUME NEW t \in Tabs, RefreshTokens(t) PROVE SessionsType'
  BY <1>5 DEF RefreshTokens, Draft, NoCall
<1>6. ASSUME NEW t \in Tabs, Revoke(t) PROVE SessionsType'
  BY <1>6 DEF Revoke
<1>7. ASSUME NEW t \in Tabs, SignOut(t) PROVE SessionsType'
  BY <1>7 DEF SignOut
<1>8. ASSUME NEW t \in Tabs, Logout(t) PROVE SessionsType'
  BY <1>8 DEF Logout, Draft
<1>9. ASSUME NEW t \in Tabs, ClearTokens(t) PROVE SessionsType'
  BY <1>9 DEF ClearTokens, NoCall
<1>10. CASE Tomorrow
  BY <1>10 DEF Tomorrow
<1>11. CASE Death
  <2>1. \A t \in Tabs : call'[t] \in Calls
    BY <1>11 DEF Death, NoCall
  <2>2. \A t \in Tabs : call'[t].pc \notin {"check", "revoke", "store"}
    BY <1>11 DEF Death, NoCall
  <2>3. call' \in [Tabs -> Calls]
    BY <2>1, <1>11 DEF Death
  <2> QED
    BY <2>2, <2>3, <1>11 DEF Death
<1>12. CASE UNCHANGED sessionVars
  BY <1>12 DEF sessionVars
<1> QED
  BY <1>1, <1>2, <1>3, <1>4, <1>5, <1>6, <1>7, <1>8, <1>9, <1>10, <1>11, <1>12 DEF SessionsNext

\* No step leaves a live token without the slot, but for what RefreshWorks excepts.
LEMMA OutlivesStep ==
  SessionsType /\ SlotOutlives /\ [SessionsNext]_sessionVars => SlotOutlives'
<1> SUFFICES ASSUME SessionsType, SlotOutlives, [SessionsNext]_sessionVars PROVE SlotOutlives'
  OBVIOUS
<1> USE SessionsAssumption DEF SessionsType, Calls, Pcs
<1>1. ASSUME NEW t \in Tabs, SignIn(t) PROVE SlotOutlives'
  BY <1>1 DEF SignIn, NoCall, SlotOutlives, Outlived, Alive, Storing, Refreshing, Ghosts
<1>2. ASSUME NEW t \in Tabs, StoreRefreshToken(t) PROVE SlotOutlives'
  BY <1>2 DEF StoreRefreshToken, Draft, SlotOutlives, Outlived, Alive, Storing, Refreshing, Ghosts
<1>3. ASSUME NEW t \in Tabs, Answer(t) PROVE SlotOutlives'
  BY <1>3 DEF Answer, NoCall, SlotOutlives, Outlived, Alive, Storing, Refreshing, Ghosts
<1>4. ASSUME NEW t \in Tabs, TryRefresh(t) PROVE SlotOutlives'
  BY <1>4 DEF TryRefresh, NoCall, SlotOutlives, Outlived, Alive, Storing, Refreshing, Ghosts
<1>5. ASSUME NEW t \in Tabs, RefreshTokens(t) PROVE SlotOutlives'
  <2>1. call'[t].pc \in {"revoke", "idle"} /\ call'[t].iat <= today
    BY <1>5 DEF RefreshTokens, Draft, NoCall, SlotOutlives
  <2>2. \A u \in Tabs : u # t => call'[u] = call[u]
    BY <1>5 DEF RefreshTokens, Draft
  <2>3. Storing' = Storing
    BY <1>5, <2>1, <2>2 DEF RefreshTokens, Storing, Refreshing
  <2> QED
    BY <1>5, <2>1, <2>2, <2>3 DEF RefreshTokens, SlotOutlives, Outlived, Alive, Ghosts
<1>6. ASSUME NEW t \in Tabs, Revoke(t) PROVE SlotOutlives'
  BY <1>6 DEF Revoke, SlotOutlives, Outlived, Alive, Storing, Refreshing, Ghosts
<1>7. ASSUME NEW t \in Tabs, SignOut(t) PROVE SlotOutlives'
  BY <1>7 DEF SignOut, NoCall, SlotOutlives, Outlived, Alive, Storing, Refreshing, Ghosts
<1>8. ASSUME NEW t \in Tabs, Logout(t) PROVE SlotOutlives'
  BY <1>8 DEF Logout, Draft, SlotOutlives, Outlived, Alive, Storing, Refreshing, Ghosts
<1>9. ASSUME NEW t \in Tabs, ClearTokens(t) PROVE SlotOutlives'
  BY <1>9 DEF ClearTokens, NoCall, SlotOutlives, Outlived, Alive, Storing, Refreshing, Ghosts
<1>10. CASE Tomorrow
  BY <1>10 DEF Tomorrow, SlotOutlives, Outlived, Alive, Storing, Refreshing, Ghosts
<1>11. CASE Death
  BY <1>11 DEF Death, NoCall, SlotOutlives, Outlived, Alive, Storing, Refreshing, Ghosts
<1>12. CASE UNCHANGED sessionVars
  BY <1>12 DEF sessionVars, SlotOutlives, Outlived, Alive, Storing, Refreshing, Ghosts
<1> QED
  BY <1>1, <1>2, <1>3, <1>4, <1>5, <1>6, <1>7, <1>8, <1>9, <1>10, <1>11, <1>12 DEF SessionsNext

\* No refresh gets past its check after a sign-out, until a sign-in.
LEMMA PastCheckStep ==
  SessionsType /\ PastCheck /\ [SessionsNext]_sessionVars => PastCheck'
<1> SUFFICES ASSUME SessionsType, PastCheck, [SessionsNext]_sessionVars PROVE PastCheck'
  OBVIOUS
<1> USE SessionsAssumption DEF SessionsType, Calls, Pcs
<1>1. ASSUME NEW t \in Tabs, SignIn(t) PROVE PastCheck'
  BY <1>1 DEF SignIn, NoCall, PastCheck, Refreshing, Ghosts
<1>2. ASSUME NEW t \in Tabs, StoreRefreshToken(t) PROVE PastCheck'
  BY <1>2 DEF StoreRefreshToken, Draft, PastCheck, Refreshing, Ghosts
<1>3. ASSUME NEW t \in Tabs, Answer(t) PROVE PastCheck'
  BY <1>3 DEF Answer, NoCall, PastCheck, Refreshing, Ghosts
<1>4. ASSUME NEW t \in Tabs, TryRefresh(t) PROVE PastCheck'
  BY <1>4 DEF TryRefresh, NoCall, PastCheck, Refreshing, Ghosts
<1>5. ASSUME NEW t \in Tabs, RefreshTokens(t) PROVE PastCheck'
  BY <1>5 DEF RefreshTokens, Draft, NoCall, PastCheck, Refreshing, Ghosts
<1>6. ASSUME NEW t \in Tabs, Revoke(t) PROVE PastCheck'
  BY <1>6 DEF Revoke, PastCheck, Refreshing, Ghosts
<1>7. ASSUME NEW t \in Tabs, SignOut(t) PROVE PastCheck'
  BY <1>7 DEF SignOut, NoCall, PastCheck, Refreshing, Ghosts
<1>8. ASSUME NEW t \in Tabs, Logout(t) PROVE PastCheck'
  <2>1. Refreshing' = Refreshing
    BY <1>8 DEF Logout, Draft, Refreshing
  <2>2. CASE slot' = 0 /\ late' = (Refreshing # {})
    <3>1. ~(slot' > 0)
      BY <2>2
    <3>2. late' = (Refreshing' # {})
      BY <2>1, <2>2
    <3> QED
      BY <3>1, <3>2, Zenon DEF PastCheck
  <2>3. CASE UNCHANGED <<slot, Ghosts>>
    BY <2>1, <2>3 DEF PastCheck, Ghosts
  <2> QED
    BY <1>8, <2>2, <2>3 DEF Logout
<1>9. ASSUME NEW t \in Tabs, ClearTokens(t) PROVE PastCheck'
  BY <1>9 DEF ClearTokens, NoCall, PastCheck, Refreshing, Ghosts
<1>10. CASE Tomorrow
  BY <1>10 DEF Tomorrow, PastCheck, Refreshing, Ghosts
<1>11. CASE Death
  BY <1>11 DEF Death, NoCall, PastCheck, Refreshing
<1>12. CASE UNCHANGED sessionVars
  BY <1>12 DEF sessionVars, PastCheck, Refreshing, Ghosts
<1> QED
  BY <1>1, <1>2, <1>3, <1>4, <1>5, <1>6, <1>7, <1>8, <1>9, <1>10, <1>11, <1>12 DEF SessionsNext

LEMMA SessionsInductive == SessionsSpec => []SessionsInv
<1>1. SessionsInv /\ [SessionsNext]_sessionVars => SessionsInv'
  BY SessionsTyped, OutlivesStep, PastCheckStep DEF SessionsInv
<1> QED
  BY SessionsInitial, <1>1, PTL DEF SessionsSpec

\* The slot of an owner is empty, or filled, for a reason the user knows of (store_refresh_token,
\* refresh_tokens and logout of services/auth.py).
THEOREM SlotIsExplained == SessionsSpec => []SlotExplained
<1>1. SessionsInv => SlotExplained
  <2> SUFFICES ASSUME SessionsInv PROVE SlotExplained
    OBVIOUS
  <2> USE SessionsAssumption DEF SessionsInv, SessionsType
  <2>1. RefreshWorks
    BY DEF RefreshWorks, SlotOutlives, Outlived, Alive, Storing, Refreshing
  <2>2. SignOutHolds
    BY DEF SignOutHolds, PastCheck
  <2> QED
    BY <2>1, <2>2 DEF SlotExplained
<1> QED
  BY SessionsInductive, <1>1, PTL

-----------------------------------------------------------------------------
(* TwoFactor: FactorSound for every number of requests and rows. A request *)
(* works on the row as it read it; what makes the invariant inductive is   *)
(* what became of the row since.                                           *)

Writes == {"setup", "app", "code", "disable"}
FactorRows == [id : Nat, secret : Nat, codes : SUBSET (Nat \X BackupCodes), enabled : BOOLEAN]
RequestStates ==
  [pc : {"idle", "read"}, op : {"none", "setup", "verify", "delete"}, read : FactorRows,
   code : Nat \X (BackupCodes \cup {"app"}), met : SUBSET Writes]

FactorType ==
  /\ factor \in FactorRows /\ request \in [Requests -> RequestStates]
  /\ confirmed \subseteq Nat /\ spent \subseteq Nat \X BackupCodes
  /\ tangled \in BOOLEAN /\ doubled \in BOOLEAN
  /\ factorLeft \in [{"setup", "verify", "disable"} -> Nat]
  /\ factorLeft["setup"] <= MaxSetup

\* The backup codes that exist, or did when a request read the row.
SeenCodes == factor.codes \cup spent \cup UNION {request[r].read.codes : r \in Requests}

Making(r) == request[r].pc = "read" /\ request[r].op = "setup"

\* A setup under way has a number of its own, which no code carries yet.
Numbers ==
  /\ \A c \in SeenCodes : c[1] <= Setups
  /\ \A r \in Requests : Making(r) =>
       /\ request[r].code[1] <= Setups
       /\ \A c \in SeenCodes : c[1] # request[r].code[1]
       /\ \A q \in Requests \ {r} : Making(q) => request[q].code[1] # request[r].code[1]

\* What the row is to a request that has read it, by the writes it has met.
FollowsRow(was, met) ==
  "setup" \notin met =>
    \/ factor = NoFactor
    \/ /\ factor.id = was.id /\ factor.secret = was.secret
       /\ "code" \notin met => factor.codes = was.codes
FollowsEnabled(was, met) ==
  "app" \notin met /\ "code" \notin met => (factor.enabled => was.enabled)
ReadCodes(was, met) ==
  "setup" \notin met /\ ~tangled => was.codes \subseteq {was.secret} \X BackupCodes
Follows ==
  \A r \in Requests : request[r].pc = "read" =>
    /\ FollowsRow(request[r].read, request[r].met)
    /\ FollowsEnabled(request[r].read, request[r].met)
    /\ ReadCodes(request[r].read, request[r].met)
    /\ request[r].op \in {"verify", "delete"} => request[r].read.id # 0

FactorInv == FactorType /\ Numbers /\ Follows /\ Confirmed /\ CodesOnce

-----------------------------------------------------------------------------
LEMMA FactorInitial == TwoFactorInit => FactorInv
<1> SUFFICES ASSUME TwoFactorInit PROVE FactorInv
  OBVIOUS
<1>1. NoFactor \in FactorRows /\ NoFactor.codes = {} /\ NoFactor.enabled = FALSE
  BY DEF NoFactor, FactorRows
<1>2. NoRequest \in RequestStates /\ NoRequest.read = NoFactor /\ NoRequest.pc = "idle"
  <2> DEFINE f == NoFactor
  <2>1. f \in FactorRows
    BY <1>1
  <2>2. NoRequest = [pc |-> "idle", op |-> "none", read |-> f, code |-> <<0, "app">>, met |-> {}]
    BY DEF NoRequest
  <2> HIDE DEF f
  <2>3. NoRequest \in RequestStates /\ NoRequest.read = f /\ NoRequest.pc = "idle"
    BY <2>1, <2>2 DEF RequestStates
  <2> QED BY <2>3 DEF f
<1>3. /\ factor = NoFactor /\ request = [r \in Requests |-> NoRequest]
      /\ confirmed = {} /\ spent = {} /\ tangled = FALSE /\ doubled = FALSE
      /\ factorLeft = [setup |-> MaxSetup, verify |-> MaxVerify, disable |-> MaxDisable]
  BY DEF TwoFactorInit
<1>4. FactorType
  <2>1. /\ factorLeft \in [{"setup", "verify", "disable"} -> Nat]
        /\ factorLeft["setup"] <= MaxSetup
    BY <1>3, TwoFactorAssumption
  <2>2. factor \in FactorRows /\ request \in [Requests -> RequestStates]
    BY <1>1, <1>2, <1>3
  <2> QED BY <1>3, <2>1, <2>2 DEF FactorType
<1>5. \A r \in Requests : request[r].pc = "idle" /\ request[r].read.codes = {}
  BY <1>1, <1>2, <1>3
<1>6. SeenCodes = {}
  BY <1>1, <1>3, <1>5 DEF SeenCodes
<1>7. Numbers /\ Follows
  BY <1>5, <1>6 DEF Numbers, Follows, Making
<1>8. Confirmed /\ CodesOnce
  BY <1>1, <1>3 DEF Confirmed, CodesOnce
<1> QED BY <1>4, <1>7, <1>8 DEF FactorInv

-----------------------------------------------------------------------------
(* What a step does to the requests.                                        *)

\* r's state becomes w, and the other requests meet the write op, or nothing.
Turns(r, w, ops) ==
  /\ request'[r] = w
  /\ \A q \in Requests \ {r} :
       /\ request'[q].pc = request[q].pc /\ request'[q].op = request[q].op
       /\ request'[q].read = request[q].read /\ request'[q].code = request[q].code
       /\ request'[q].met \subseteq request[q].met \cup ops
       /\ request[q].met \subseteq request'[q].met
       /\ request[q].pc = "read" => ops \subseteq request'[q].met

LEMMA NoRequestIs ==
  /\ NoRequest \in RequestStates /\ NoRequest.pc = "idle" /\ NoRequest.read = NoFactor
  /\ NoFactor \in FactorRows /\ NoFactor.id = 0 /\ NoFactor.codes = {} /\ NoFactor.enabled = FALSE
<1>1. /\ NoFactor \in FactorRows /\ NoFactor.id = 0 /\ NoFactor.codes = {}
      /\ NoFactor.enabled = FALSE
  BY DEF NoFactor, FactorRows
<1> DEFINE f == NoFactor
<1>2. NoRequest = [pc |-> "idle", op |-> "none", read |-> f, code |-> <<0, "app">>, met |-> {}]
  BY DEF NoRequest
<1>3. f \in FactorRows
  BY <1>1
<1> HIDE DEF f
<1>4. NoRequest \in RequestStates /\ NoRequest.pc = "idle" /\ NoRequest.read = f
  BY <1>2, <1>3 DEF RequestStates
<1> QED BY <1>1, <1>4 DEF f

LEMMA Rewritten ==
  ASSUME FactorType, NEW r \in Requests, NEW w \in RequestStates,
         request' = [request EXCEPT ![r] = w]
  PROVE  request' \in [Requests -> RequestStates] /\ Turns(r, w, {})
BY DEF FactorType, Turns

LEMMA Committed ==
  ASSUME FactorType, NEW r \in Requests, NEW op \in Writes, Commit(r, op)
  PROVE  request' \in [Requests -> RequestStates] /\ Turns(r, NoRequest, {op})
<1> DEFINE Met(q) == [request[q] EXCEPT !.met = @ \cup {op}]
<1>1. ASSUME NEW q \in Requests
      PROVE  /\ Met(q) \in RequestStates /\ Met(q).met = request[q].met \cup {op}
             /\ Met(q).pc = request[q].pc /\ Met(q).op = request[q].op
             /\ Met(q).read = request[q].read /\ Met(q).code = request[q].code
  <2>1. request[q] \in RequestStates /\ request[q].met \cup {op} \in SUBSET Writes
    BY DEF FactorType, RequestStates
  <2> QED BY <2>1 DEF RequestStates
<1>2. ASSUME NEW q \in Requests
      PROVE  request'[q] = IF q = r THEN NoRequest
                           ELSE IF request[q].pc = "read" THEN Met(q) ELSE request[q]
  BY DEF Commit
<1>3. request' = [q \in Requests |-> request'[q]]
  BY DEF Commit
<1> HIDE DEF Met
<1>4. ASSUME NEW q \in Requests PROVE request'[q] \in RequestStates
  BY <1>1, <1>2, NoRequestIs DEF FactorType
<1>5. request' \in [Requests -> RequestStates]
  BY <1>3, <1>4
<1>6. Turns(r, NoRequest, {op})
  BY <1>1, <1>2 DEF Turns
<1> QED BY <1>5, <1>6

\* A step that makes no code keeps the numbers: r begins a setup with the next number,
\* or is not one.
LEMMA NumbersKept ==
  ASSUME FactorType, FactorType', Numbers, NEW r \in Requests, NEW w, NEW ops, Turns(r, w, ops),
         factor'.codes \cup spent' \cup w.read.codes \subseteq SeenCodes, Setups' >= Setups,
         w.pc = "read" /\ w.op = "setup" => w.code[1] = Setups + 1 /\ Setups' = Setups + 1
  PROVE  Numbers'
<1>1. SeenCodes' \subseteq SeenCodes
  BY DEF Turns, SeenCodes
<1>2. Setups \in Int /\ Setups' \in Int
  BY TwoFactorAssumption DEF Setups, FactorType
<1>3. ASSUME NEW c \in SeenCodes PROVE c[1] \in Nat
  BY DEF SeenCodes, FactorType, FactorRows, RequestStates
<1>4. \A c \in SeenCodes' : c[1] <= Setups'
  BY <1>1, <1>2, <1>3 DEF Numbers
<1>5. ASSUME NEW q \in Requests \ {r}
      PROVE (Making(q)' <=> Making(q)) /\ request'[q].code = request[q].code
  BY DEF Turns, Making
<1>6. ASSUME NEW q \in Requests, Making(q) PROVE request[q].code[1] \in Nat
  BY DEF FactorType, RequestStates
<1>7. ASSUME NEW q \in Requests, Making(q)'
      PROVE  /\ request'[q].code[1] <= Setups'
             /\ \A c \in SeenCodes' : c[1] # request'[q].code[1]
             /\ \A p \in Requests \ {q} : Making(p)' => request'[p].code[1] # request'[q].code[1]
  <2>1. CASE q = r
    <3>1. request'[q].code[1] = Setups + 1 /\ Setups' = Setups + 1
      BY <1>7, <2>1 DEF Turns, Making
    <3>2. \A c \in SeenCodes' : c[1] # request'[q].code[1]
      BY <1>1, <1>2, <1>3, <3>1 DEF Numbers
    <3>3. ASSUME NEW p \in Requests \ {q}, Making(p)'
          PROVE  request'[p].code[1] # request'[q].code[1]
      BY <1>2, <1>5, <1>6, <2>1, <3>1, <3>3 DEF Numbers
    <3> QED BY <1>2, <3>1, <3>2, <3>3
  <2>2. CASE q # r
    <3>1. Making(q) /\ request'[q].code = request[q].code
      BY <1>5, <1>7, <2>2
    <3>2. request[q].code[1] <= Setups /\ request[q].code[1] \in Nat
      BY <1>6, <3>1 DEF Numbers
    <3>3. \A c \in SeenCodes' : c[1] # request'[q].code[1]
      BY <1>1, <3>1 DEF Numbers
    <3>4. ASSUME NEW p \in Requests \ {q}, Making(p)'
          PROVE  request'[p].code[1] # request'[q].code[1]
      <4>1. CASE p = r
        BY <1>2, <3>1, <3>2, <3>4, <4>1 DEF Turns, Making
      <4>2. CASE p # r
        BY <1>5, <3>1, <3>4, <4>2 DEF Numbers
      <4> QED BY <4>1, <4>2
    <3> QED BY <1>2, <3>1, <3>2, <3>3, <3>4
  <2> QED BY <2>1, <2>2
<1> QED BY <1>4, <1>7 DEF Numbers

-----------------------------------------------------------------------------
(* Requests that read the row, or end without writing it.                   *)

LEMMA Refusing ==
  ASSUME FactorInv, NEW r \in Requests, Refuse(r)
  PROVE  FactorInv'
<1>1. request' \in [Requests -> RequestStates] /\ Turns(r, NoRequest, {})
  BY NoRequestIs, Rewritten DEF Refuse, FactorInv
<1>2. /\ factor' = factor /\ confirmed' = confirmed /\ spent' = spent /\ tangled' = tangled
      /\ doubled' = doubled /\ factorLeft' = factorLeft
  BY DEF Refuse
<1>3. FactorType'
  BY <1>1, <1>2 DEF FactorType, FactorInv
<1>4. Setups' = Setups /\ Setups \in Int
  BY <1>2, TwoFactorAssumption DEF Setups, FactorType, FactorInv
<1>5. Numbers'
  <2>1. factor'.codes \cup spent' \cup NoRequest.read.codes \subseteq SeenCodes
    BY <1>2, NoRequestIs DEF SeenCodes
  <2>2. Setups' >= Setups /\ NoRequest.pc # "read"
    BY <1>4, NoRequestIs
  <2> QED BY <1>1, <1>3, <2>1, <2>2, NumbersKept DEF FactorInv
<1>6. Follows'
  <2> SUFFICES ASSUME NEW q \in Requests, request'[q].pc = "read"
               PROVE  /\ FollowsRow(request[q].read, request[q].met)'
                      /\ FollowsEnabled(request[q].read, request[q].met)'
                      /\ ReadCodes(request[q].read, request[q].met)'
                      /\ request'[q].op \in {"verify", "delete"} => request'[q].read.id # 0
    BY DEF Follows
  <2>1. q # r /\ request[q].pc = "read" /\ request'[q].read = request[q].read
        /\ request'[q].met = request[q].met /\ request'[q].op = request[q].op
    BY <1>1, NoRequestIs DEF Turns
  <2> QED BY <1>2, <2>1 DEF Follows, FollowsRow, FollowsEnabled, ReadCodes, FactorInv
<1>7. Confirmed' /\ CodesOnce'
  BY <1>2 DEF Confirmed, CodesOnce, FactorInv
<1> QED BY <1>3, <1>5, <1>6, <1>7 DEF FactorInv

LEMMA Reading ==
  ASSUME FactorInv, NEW r \in Requests, NEW what \in {"setup", "verify"}, Use(what),
         NEW op \in {"setup", "verify", "delete"}, NEW code \in Nat \X (BackupCodes \cup {"app"}),
         Read(r, op, code), op = "setup" => code[1] = Setups + 1 /\ what = "setup",
         op # "setup" => There
  PROVE  FactorInv'
<1> DEFINE w == [pc |-> "read", op |-> op, read |-> factor, code |-> code, met |-> {}]
<1>0. FactorType
  BY DEF FactorInv
<1>1. /\ w \in RequestStates /\ w.pc = "read" /\ w.op = op /\ w.read = factor /\ w.code = code
      /\ w.met = {}
  BY <1>0 DEF RequestStates, FactorType
<1>2. /\ request' = [request EXCEPT ![r] = w] /\ factor' = factor /\ confirmed' = confirmed
      /\ spent' = spent /\ tangled' = tangled /\ doubled' = doubled
  BY DEF Read
<1> HIDE DEF w
<1>3. request' \in [Requests -> RequestStates] /\ Turns(r, w, {})
  BY <1>0, <1>1, <1>2, Rewritten
<1>4. /\ factorLeft' \in [{"setup", "verify", "disable"} -> Nat]
      /\ factorLeft'["setup"] =
           IF what = "setup" THEN factorLeft["setup"] - 1 ELSE factorLeft["setup"]
  BY <1>0 DEF Use, FactorType
<1>5. factorLeft["setup"] \in Nat /\ factorLeft["setup"] <= MaxSetup /\ MaxSetup \in Nat
  BY <1>0, TwoFactorAssumption DEF FactorType
<1>6. FactorType'
  BY <1>0, <1>2, <1>3, <1>4, <1>5 DEF FactorType
<1>7. Setups' = (IF what = "setup" THEN Setups + 1 ELSE Setups) /\ Setups \in Int
  BY <1>4, <1>5 DEF Setups
<1>8. Numbers'
  <2>1. factor'.codes \cup spent' \cup w.read.codes \subseteq SeenCodes
    BY <1>1, <1>2 DEF SeenCodes
  <2>2. Setups' >= Setups
    BY <1>7
  <2>3. w.pc = "read" /\ w.op = "setup" => w.code[1] = Setups + 1 /\ Setups' = Setups + 1
    BY <1>1, <1>7
  <2> QED BY <1>0, <1>3, <1>6, <2>1, <2>2, <2>3, NumbersKept DEF FactorInv
<1>9. Follows'
  <2> SUFFICES ASSUME NEW q \in Requests, request'[q].pc = "read"
               PROVE  /\ FollowsRow(request[q].read, request[q].met)'
                      /\ FollowsEnabled(request[q].read, request[q].met)'
                      /\ ReadCodes(request[q].read, request[q].met)'
                      /\ request'[q].op \in {"verify", "delete"} => request'[q].read.id # 0
    BY DEF Follows
  <2>1. CASE q = r
    <3>1. request'[q].read = factor /\ request'[q].met = {} /\ request'[q].op = op
      BY <1>1, <1>3, <2>1 DEF Turns
    <3>2. FollowsRow(request[q].read, request[q].met)'
      BY <1>2, <3>1 DEF FollowsRow
    <3>3. FollowsEnabled(request[q].read, request[q].met)'
      BY <1>2, <3>1 DEF FollowsEnabled
    <3>4. ReadCodes(request[q].read, request[q].met)'
      BY <1>2, <3>1 DEF ReadCodes, FactorInv, Confirmed
    <3> QED BY <3>1, <3>2, <3>3, <3>4 DEF There
  <2>2. CASE q # r
    <3>1. request[q].pc = "read" /\ request'[q].read = request[q].read
          /\ request'[q].met = request[q].met /\ request'[q].op = request[q].op
      BY <1>3, <2>2 DEF Turns
    <3> QED BY <1>2, <3>1 DEF Follows, FollowsRow, FollowsEnabled, ReadCodes, FactorInv
  <2> QED BY <2>1, <2>2
<1>10. Confirmed' /\ CodesOnce'
  BY <1>2 DEF Confirmed, CodesOnce, FactorInv
<1> QED BY <1>6, <1>8, <1>9, <1>10 DEF FactorInv

-----------------------------------------------------------------------------
(* Requests that write the row.                                             *)

LEMMA Disabling ==
  ASSUME FactorInv, NEW r \in Requests, Disable(r)
  PROVE  FactorInv'
<1>0. FactorType
  BY DEF FactorInv
<1>1. request' \in [Requests -> RequestStates] /\ Turns(r, NoRequest, {"disable"})
  BY <1>0, Committed DEF Disable, Writes
<1>2. /\ factor' = NoFactor /\ confirmed' = confirmed /\ spent' = spent /\ tangled' = tangled
      /\ doubled' = doubled /\ factorLeft' = [factorLeft EXCEPT !["disable"] = @ - 1]
      /\ factorLeft["disable"] > 0
  BY DEF Disable, Use
<1>3. /\ factorLeft' \in [{"setup", "verify", "disable"} -> Nat]
      /\ factorLeft'["setup"] = factorLeft["setup"]
  BY <1>0, <1>2 DEF FactorType
<1>4. FactorType'
  BY <1>0, <1>1, <1>2, <1>3, NoRequestIs DEF FactorType
<1>5. Setups' = Setups /\ Setups \in Int
  BY <1>0, <1>3, TwoFactorAssumption DEF Setups, FactorType
<1>6. Numbers'
  <2>1. factor'.codes \cup spent' \cup NoRequest.read.codes \subseteq SeenCodes
    BY <1>2, NoRequestIs DEF SeenCodes
  <2>2. Setups' >= Setups /\ NoRequest.pc # "read"
    BY <1>5, NoRequestIs
  <2> QED BY <1>0, <1>1, <1>4, <2>1, <2>2, NumbersKept DEF FactorInv
<1>7. Follows'
  <2> SUFFICES ASSUME NEW q \in Requests, request'[q].pc = "read"
               PROVE  /\ FollowsRow(request[q].read, request[q].met)'
                      /\ FollowsEnabled(request[q].read, request[q].met)'
                      /\ ReadCodes(request[q].read, request[q].met)'
                      /\ request'[q].op \in {"verify", "delete"} => request'[q].read.id # 0
    BY DEF Follows
  <2>1. q # r /\ request[q].pc = "read" /\ request'[q].read = request[q].read
        /\ request[q].met \subseteq request'[q].met /\ request'[q].op = request[q].op
    BY <1>1, NoRequestIs DEF Turns
  <2>2. FollowsRow(request[q].read, request[q].met)'
    BY <1>2 DEF FollowsRow
  <2>3. FollowsEnabled(request[q].read, request[q].met)'
    BY <1>2, NoRequestIs DEF FollowsEnabled
  <2>4. ReadCodes(request[q].read, request[q].met)'
    BY <1>2, <2>1 DEF Follows, ReadCodes, FactorInv
  <2>5. request'[q].op \in {"verify", "delete"} => request'[q].read.id # 0
    BY <2>1 DEF Follows, FactorInv
  <2> QED BY <2>2, <2>3, <2>4, <2>5
<1>8. Confirmed' /\ CodesOnce'
  BY <1>2, NoRequestIs DEF Confirmed, CodesOnce
<1> QED BY <1>4, <1>6, <1>7, <1>8 DEF FactorInv

LEMMA SettingUp ==
  ASSUME FactorInv, NEW r \in Requests, Setup(r), request[r].read.id = factor.id
  PROVE  FactorInv'
<1> DEFINE n == request[r].code[1]
           was == request[r].read
           met == request[r].met
<1>0. FactorType /\ Numbers /\ Making(r) /\ request[r].pc = "read"
  BY DEF FactorInv, Setup, Making
<1>1. Commit(r, "setup")
  BY DEF Setup
<1>2. request' \in [Requests -> RequestStates] /\ Turns(r, NoRequest, {"setup"})
  BY <1>0, <1>1, Committed DEF Writes
<1>3. /\ factor' = [id |-> IF There THEN factor.id ELSE n, secret |-> n,
                    codes |-> {n} \X BackupCodes, enabled |-> Enabled(was)]
      /\ tangled' = (met \cap {"app", "code"} # {}) /\ doubled' = FALSE
      /\ confirmed' = confirmed /\ spent' = spent /\ factorLeft' = factorLeft
  BY DEF Setup
<1>4. n \in Nat /\ n <= Setups /\ Setups' = Setups /\ Setups \in Int
  BY <1>0, <1>3, TwoFactorAssumption DEF Numbers, FactorType, RequestStates, Setups
<1>5. factor'.secret = n /\ factor'.codes = {n} \X BackupCodes /\ factor'.enabled = Enabled(was)
  BY <1>3
<1>6. factor' \in FactorRows
  <2>1. Enabled(was) \in BOOLEAN /\ factor.id \in Nat
    BY <1>0 DEF Enabled, FactorType, FactorRows, RequestStates
  <2>2. {n} \X BackupCodes \in SUBSET (Nat \X BackupCodes)
    BY <1>4
  <2> QED BY <1>3, <1>4, <2>1, <2>2 DEF FactorRows
<1>7. FactorType'
  <2>1. tangled' \in BOOLEAN /\ doubled' \in BOOLEAN
    BY <1>3
  <2> QED BY <1>0, <1>2, <1>3, <1>6, <2>1 DEF FactorType
<1>8. \A c \in SeenCodes' : c \in SeenCodes \/ c[1] = n
  BY <1>2, <1>3, <1>5, NoRequestIs DEF SeenCodes, Turns
<1>9. Numbers'
  <2>1. \A c \in SeenCodes' : c[1] <= Setups'
    BY <1>0, <1>4, <1>8 DEF Numbers
  <2>2. ASSUME NEW q \in Requests, Making(q)'
        PROVE  /\ q # r /\ Making(q) /\ request'[q].code = request[q].code
    BY <1>2, <2>2, NoRequestIs DEF Turns, Making
  <2>3. ASSUME NEW q \in Requests, Making(q)'
        PROVE  request[q].code[1] # n
    BY <1>0, <2>2, <2>3 DEF Numbers
  <2>4. ASSUME NEW q \in Requests, Making(q)'
        PROVE  /\ request'[q].code[1] <= Setups'
               /\ \A c \in SeenCodes' : c[1] # request'[q].code[1]
               /\ \A p \in Requests \ {q} : Making(p)' => request'[p].code[1] # request'[q].code[1]
    <3>1. request'[q].code[1] <= Setups'
      BY <1>0, <1>4, <2>2, <2>4 DEF Numbers
    <3>2. \A c \in SeenCodes' : c[1] # request'[q].code[1]
      BY <1>0, <1>8, <2>2, <2>3, <2>4 DEF Numbers
    <3>3. \A p \in Requests \ {q} : Making(p)' => request'[p].code[1] # request'[q].code[1]
      BY <1>0, <2>2, <2>4 DEF Numbers
    <3> QED BY <3>1, <3>2, <3>3
  <2> QED BY <2>1, <2>4 DEF Numbers
<1>10. Follows'
  <2> SUFFICES ASSUME NEW q \in Requests, request'[q].pc = "read"
               PROVE  /\ FollowsRow(request[q].read, request[q].met)'
                      /\ FollowsEnabled(request[q].read, request[q].met)'
                      /\ ReadCodes(request[q].read, request[q].met)'
                      /\ request'[q].op \in {"verify", "delete"} => request'[q].read.id # 0
    BY DEF Follows
  <2>1. q # r /\ request[q].pc = "read" /\ request'[q].read = request[q].read
        /\ request[q].met \subseteq request'[q].met /\ request'[q].op = request[q].op
        /\ "setup" \in request'[q].met
    BY <1>2, NoRequestIs DEF Turns
  <2>2. FollowsRow(request[q].read, request[q].met)' /\ ReadCodes(request[q].read, request[q].met)'
    BY <2>1 DEF FollowsRow, ReadCodes
  <2>3. FollowsEnabled(request[q].read, request[q].met)'
    <3>1. factor'.enabled => factor.enabled
      BY <1>5 DEF Enabled
    <3>2. FollowsEnabled(request[q].read, request[q].met)
      BY <2>1 DEF Follows, FactorInv
    <3> QED BY <2>1, <3>1, <3>2 DEF FollowsEnabled
  <2>4. request'[q].op \in {"verify", "delete"} => request'[q].read.id # 0
    BY <2>1 DEF Follows, FactorInv
  <2> QED BY <2>2, <2>3, <2>4
<1>11. Confirmed'
  <2>1. ~tangled' => ~factor'.enabled
    <3> SUFFICES ASSUME ~tangled' PROVE ~Enabled(was)
      BY <1>5
    <3>1. "app" \notin met /\ "code" \notin met
      BY <1>3
    <3>2. FollowsEnabled(was, met)
      BY <1>0 DEF Follows, FactorInv
    <3> QED BY <3>1, <3>2 DEF FollowsEnabled, Enabled
  <2> QED BY <1>5, <2>1 DEF Confirmed
<1>12. CodesOnce'
  <2>1. ASSUME NEW c \in factor'.codes \cap spent' PROVE FALSE
    <3>1. c[1] = n /\ c \in SeenCodes
      BY <1>3, <1>5, <2>1 DEF SeenCodes
    <3> QED BY <1>0, <3>1 DEF Numbers
  <2> QED BY <2>1 DEF CodesOnce
<1> QED BY <1>7, <1>9, <1>10, <1>11, <1>12 DEF FactorInv

\* A code is accepted from what the request has read, of the row that is there.
LEMMA Verifying ==
  ASSUME FactorInv, NEW r \in Requests, Verify2FA(r),
         Accepts(request[r].read, request[r].code), request[r].read.id = factor.id
  PROVE  FactorInv'
<1> DEFINE was == request[r].read
           code == request[r].code
           met == request[r].met
           op == IF code[2] # "app" THEN "code" ELSE "app"
<1>0. FactorType /\ Numbers
  BY DEF FactorInv
<1>1. /\ Commit(r, op) /\ request[r].pc = "read" /\ request[r].op \in {"verify", "delete"}
  BY DEF Verify2FA
<1>2. /\ factor' = [factor EXCEPT !.enabled = factor.enabled \/ ~was.enabled,
                     !.codes = IF code[2] # "app" THEN Keep(was, code) ELSE factor.codes]
      /\ confirmed' = confirmed \cup {code[1]}
      /\ spent' = (IF code[2] # "app" THEN spent \cup {code} ELSE spent)
      /\ tangled' = (tangled \/ "setup" \in met)
      /\ doubled' = (doubled \/ (code[2] # "app" /\ "code" \in met))
      /\ factorLeft' = factorLeft
  BY Zenon DEF Verify2FA
<1>3. op \in Writes /\ request' \in [Requests -> RequestStates] /\ Turns(r, NoRequest, {op})
  BY <1>0, <1>1, Committed DEF Writes
<1>4. /\ was \in FactorRows /\ code \in Nat \X (BackupCodes \cup {"app"}) /\ factor \in FactorRows
      /\ was.id # 0
  BY <1>0, <1>1 DEF FactorType, RequestStates, FactorInv, Follows
<1>5. /\ factor' \in FactorRows /\ factor'.id = factor.id /\ factor'.secret = factor.secret
      /\ factor'.codes = IF code[2] # "app" THEN Keep(was, code) ELSE factor.codes
  <2> DEFINE e == factor.enabled \/ ~was.enabled
             k == IF code[2] # "app" THEN Keep(was, code) ELSE factor.codes
  <2>1. e \in BOOLEAN
    OBVIOUS
  <2>2. k \in SUBSET (Nat \X BackupCodes)
    BY <1>4 DEF Keep, FactorRows
  <2>3. factor' = [factor EXCEPT !.enabled = e, !.codes = k]
    BY <1>2
  <2> HIDE DEF e, k
  <2>4. /\ factor' \in FactorRows /\ factor'.id = factor.id /\ factor'.secret = factor.secret
        /\ factor'.codes = k
    BY Zenon, <1>4, <2>1, <2>2, <2>3 DEF FactorRows
  <2> QED BY <2>4 DEF k
<1>6. factor'.enabled => factor.enabled \/ ~was.enabled
  <2> DEFINE e == factor.enabled \/ ~was.enabled
             k == IF code[2] # "app" THEN Keep(was, code) ELSE factor.codes
  <2>3. factor' = [factor EXCEPT !.enabled = e, !.codes = k]
    BY <1>2
  <2> HIDE DEF e, k
  <2>4. factor'.enabled = e
    BY Zenon, <1>4, <2>3 DEF FactorRows
  <2> QED BY Zenon, <2>4 DEF e
<1>7. code[2] # "app" => code \in was.codes
  BY DEF Accepts
<1>8. FactorType'
  <2>1. confirmed' \subseteq Nat /\ spent' \subseteq Nat \X BackupCodes
    BY <1>0, <1>2, <1>4, <1>7 DEF FactorType, FactorRows
  <2>2. tangled' \in BOOLEAN /\ doubled' \in BOOLEAN
    BY <1>2
  <2> QED BY <1>0, <1>2, <1>3, <1>5, <2>1, <2>2 DEF FactorType
<1>9. Numbers'
  <2>1. factor'.codes \cup spent' \cup NoRequest.read.codes \subseteq SeenCodes
    <3>1. was.codes \subseteq SeenCodes /\ factor.codes \subseteq SeenCodes /\ spent \subseteq SeenCodes
      BY DEF SeenCodes
    <3> QED BY <1>2, <1>5, <1>7, <3>1, NoRequestIs DEF Keep
  <2>2. Setups' >= Setups /\ NoRequest.pc # "read"
    BY <1>0, <1>2, TwoFactorAssumption, NoRequestIs DEF Setups, FactorType
  <2> QED BY <1>0, <1>3, <1>8, <2>1, <2>2, NumbersKept
<1>10. Follows'
  <2> SUFFICES ASSUME NEW q \in Requests, request'[q].pc = "read"
               PROVE  /\ FollowsRow(request[q].read, request[q].met)'
                      /\ FollowsEnabled(request[q].read, request[q].met)'
                      /\ ReadCodes(request[q].read, request[q].met)'
                      /\ request'[q].op \in {"verify", "delete"} => request'[q].read.id # 0
    BY DEF Follows
  <2>1. q # r /\ request[q].pc = "read" /\ request'[q].read = request[q].read
        /\ request[q].met \subseteq request'[q].met /\ request'[q].op = request[q].op
        /\ op \in request'[q].met /\ request'[q].met \subseteq request[q].met \cup {op}
    BY <1>3, NoRequestIs DEF Turns
  <2>2. FollowsRow(request[q].read, request[q].met)'
    <3>1. FollowsRow(request[q].read, request[q].met)
      BY <2>1 DEF Follows, FactorInv
    <3>2. factor.id # NoFactor.id
      BY <1>4, NoRequestIs
    <3>3. "code" \notin request'[q].met => factor'.codes = factor.codes /\ "code" \notin request[q].met
      BY <1>5, <2>1
    <3> QED BY <1>5, <2>1, <3>1, <3>2, <3>3 DEF FollowsRow
  <2>3. FollowsEnabled(request[q].read, request[q].met)'
    BY <2>1 DEF FollowsEnabled
  <2>4. ReadCodes(request[q].read, request[q].met)'
    BY <1>2, <2>1 DEF Follows, ReadCodes, FactorInv
  <2>5. request'[q].op \in {"verify", "delete"} => request'[q].read.id # 0
    BY <2>1 DEF Follows, FactorInv
  <2> QED BY <2>2, <2>3, <2>4, <2>5
\* Without a setup in between, the row is the one that was read.
<1>11. ASSUME ~tangled'
       PROVE  /\ ~tangled /\ "setup" \notin met
              /\ factor.secret = was.secret /\ was.codes \subseteq {was.secret} \X BackupCodes
              /\ "code" \notin met => factor.codes = was.codes
  <2>1. ~tangled /\ "setup" \notin met
    BY <1>2, <1>11
  <2>2. FollowsRow(was, met) /\ ReadCodes(was, met)
    BY <1>1 DEF Follows, FactorInv
  <2>3. factor # NoFactor
    BY <1>4, NoRequestIs
  <2> QED BY <2>1, <2>2, <2>3 DEF FollowsRow, ReadCodes
<1>12. Confirmed'
  <2> SUFFICES ASSUME ~tangled'
               PROVE  /\ factor'.secret \in confirmed'
                      /\ factor'.codes \subseteq {factor'.secret} \X BackupCodes
    BY DEF Confirmed
  <2>1. code[1] = was.secret
    BY <1>4, <1>11 DEF Accepts
  <2>2. factor'.secret \in confirmed'
    BY <1>2, <1>5, <1>11, <2>1
  <2>3. factor.codes \subseteq {factor.secret} \X BackupCodes
    BY <1>11 DEF Confirmed, FactorInv
  <2>4. factor'.codes \subseteq {factor'.secret} \X BackupCodes
    BY <1>5, <1>11, <2>3 DEF Keep
  <2> QED BY <2>2, <2>4
<1>13. CodesOnce'
  <2> SUFFICES ASSUME ~tangled', ~doubled' PROVE factor'.codes \cap spent' = {}
    BY DEF CodesOnce
  <2>1. ~doubled /\ (code[2] # "app" => "code" \notin met)
    BY <1>2
  <2>2. factor.codes \cap spent = {}
    BY <1>11, <2>1 DEF CodesOnce, FactorInv
  <2>3. CASE code[2] # "app"
    <3>1. factor'.codes = factor.codes \ {code} /\ spent' = spent \cup {code}
      BY <1>2, <1>5, <1>11, <2>1, <2>3 DEF Keep
    <3> QED BY <2>2, <3>1
  <2>4. CASE code[2] = "app"
    BY <1>2, <1>5, <2>2, <2>4
  <2> QED BY <2>3, <2>4
<1> QED BY <1>8, <1>9, <1>10, <1>12, <1>13 DEF FactorInv

LEMMA FactorStep == FactorInv /\ [TwoFactorNext]_factorVars => FactorInv'
<1> SUFFICES ASSUME FactorInv, [TwoFactorNext]_factorVars PROVE FactorInv'
  OBVIOUS
<1>0. FactorType /\ Setups \in Int
  BY TwoFactorAssumption DEF FactorInv, FactorType, Setups
<1>1. ASSUME NEW r \in Requests, BeginSetup(r) PROVE FactorInv'
  <2> DEFINE code == <<Setups + 1, "app">>
  <2>1. code \in Nat \X (BackupCodes \cup {"app"}) /\ code[1] = Setups + 1
    BY <1>0, TwoFactorAssumption DEF Setups, FactorType
  <2>2. Use("setup") /\ Read(r, "setup", code)
    BY <1>1 DEF BeginSetup
  <2> HIDE DEF code
  <2> QED BY <2>1, <2>2, Reading
<1>2. ASSUME NEW r \in Requests, NEW op \in {"verify", "delete"}, NEW n \in 1..MaxSetup,
             NEW c \in BackupCodes \cup {"app"}, BeginVerify(r, op, <<n, c>>)
      PROVE  FactorInv'
  <2> DEFINE code == <<n, c>>
  <2>1. code \in Nat \X (BackupCodes \cup {"app"})
    BY TwoFactorAssumption
  <2>2. Use("verify") /\ Read(r, op, code) /\ There
    BY <1>2 DEF BeginVerify
  <2> HIDE DEF code
  <2> QED BY <2>1, <2>2, Reading
<1>3. ASSUME NEW r \in Requests, Setup(r) PROVE FactorInv'
  BY <1>3, SettingUp, Refusing DEF Setup
<1>4. ASSUME NEW r \in Requests, Verify2FA(r) PROVE FactorInv'
  BY <1>4, Verifying, Refusing DEF Verify2FA
<1>5. ASSUME NEW r \in Requests, Abort(r) PROVE FactorInv'
  BY <1>5, Refusing DEF Abort
<1>6. CASE UNCHANGED factorVars
  BY <1>6 DEF factorVars, FactorInv, FactorType, Numbers, SeenCodes, Making, Setups, Follows,
              FollowsRow, FollowsEnabled, ReadCodes, Confirmed, CodesOnce
<1> QED BY <1>1, <1>2, <1>3, <1>4, <1>5, <1>6, Disabling DEF TwoFactorNext

\* For any number of requests, setups and codes, a secret that is asked for was shown, and
\* a backup code is accepted once, unless requests overlapped.
THEOREM FactorIsSound == TwoFactorSpec => []FactorSound
<1>1. FactorInv => FactorSound
  BY DEF FactorInv, FactorSound
<1> QED BY <1>1, FactorInitial, FactorStep, PTL DEF TwoFactorSpec

-----------------------------------------------------------------------------
(* Guard: ScoreBacked for every number of answers and devices. The score   *)
(* is at most what was earned less what the wrong answers under way have   *)
(* yet to add (Room).                                                      *)

Wrong == {s \in Answers : answer[s].pc # "idle" /\ ~answer[s].passed}

\* What the score may be at most: what was earned, less what the wrong answers under way
\* have yet to add.
Room == earned - 20 * Cardinality(Wrong)

\* 0 before an address is read.
Addresses == Devices \cup {0}
CheckStates == [pc : {"idle", "detect", "device", "score", "respond"}, sum : Nat,
                hit : BOOLEAN, ip : Addresses, list : Seq(Addresses)]
AnswerStates == [pc : {"idle", "judge", "score"}, on : Challenges \cup {0},
                 passed : BOOLEAN, held : Nat]

GuardType ==
  /\ score \in Nat /\ earned \in Nat /\ known \in Seq(Addresses)
  /\ check \in [Checks -> CheckStates] /\ answer \in [Answers -> AnswerStates]
  /\ IsFiniteSet(Wrong)

Backed ==
  /\ score <= Room
  /\ \A s \in Checks : check[s].sum <= Room
  /\ \A s \in Answers : answer[s].held <= Room

GuardInv == GuardType /\ Backed

-----------------------------------------------------------------------------
LEMMA Clamped ==
  ASSUME NEW n \in Int, NEW m \in Nat, n <= m
  PROVE  Clamp(n) \in Nat /\ Clamp(n) <= m
BY DEF Clamp

Moved(r, p) == [r EXCEPT !.pc = p]
Summed(r, p, n) == [r EXCEPT !.pc = p, !.sum = n]
Raised(r, p, n, h) == [r EXCEPT !.pc = p, !.sum = n, !.hit = h]
Listing(r, p, d, list) == [r EXCEPT !.pc = p, !.ip = d, !.list = list]
Held(r, n) == [r EXCEPT !.pc = "score", !.held = n]

\* What a check becomes is a check.
LEMMA Passes ==
  ASSUME NEW r \in CheckStates, NEW p \in {"idle", "detect", "device", "score", "respond"}
  PROVE  Moved(r, p) \in CheckStates /\ Moved(r, p).sum = r.sum
BY Zenon DEF CheckStates, Moved

LEMMA Sums ==
  ASSUME NEW r \in CheckStates, NEW n \in Nat, NEW p \in {"idle", "detect", "device", "score", "respond"}
  PROVE  /\ Summed(r, p, n) \in CheckStates
         /\ Summed(r, p, n).sum = n
BY Zenon DEF CheckStates, Summed

LEMMA Hits ==
  ASSUME NEW r \in CheckStates, NEW n \in Nat, NEW h \in BOOLEAN, NEW p \in {"idle", "detect", "device", "score", "respond"}
  PROVE  /\ Raised(r, p, n, h) \in CheckStates
         /\ Raised(r, p, n, h).sum = n
BY Zenon DEF CheckStates, Raised

LEMMA Reads ==
  ASSUME NEW r \in CheckStates, NEW d \in Addresses, NEW list \in Seq(Addresses), NEW p \in {"idle", "detect", "device", "score", "respond"}
  PROVE  /\ Listing(r, p, d, list) \in CheckStates
         /\ Listing(r, p, d, list).sum = r.sum
BY Zenon DEF CheckStates, Listing

LEMMA Judged ==
  ASSUME NEW r \in AnswerStates, NEW n \in Nat
  PROVE  /\ Held(r, n) \in AnswerStates
         /\ Held(r, n).held = n
         /\ Held(r, n).pc = "score"
         /\ Held(r, n).passed = r.passed
BY Zenon DEF AnswerStates, Held

LEMMA RoomIs == GuardInv => Room \in Nat
<1> SUFFICES ASSUME GuardInv PROVE Room \in Nat
  OBVIOUS
<1>1. Cardinality(Wrong) \in Nat
  BY FS_CardinalityType DEF GuardInv, GuardType
<1>2. Room \in Int /\ score <= Room /\ score \in Nat
  BY <1>1 DEF Room, GuardInv, GuardType, Backed
<1> QED BY <1>2

LEMMA GuardInitial == GuardInit => GuardInv
<1> SUFFICES ASSUME GuardInit PROVE GuardInv
  OBVIOUS
<1>1. known \in Seq(Addresses)
  <2>1. CASE known = <<>>
    BY <2>1
  <2>2. CASE \E d \in Devices : known = <<d>>
    BY <2>2 DEF Addresses
  <2> QED BY <2>1, <2>2 DEF GuardInit
<1>2. NoCheck \in CheckStates
  BY DEF NoCheck, CheckStates, Addresses
<1>3. NoAnswer \in AnswerStates
  BY DEF NoAnswer, AnswerStates
<1>4. Wrong = {}
  BY DEF GuardInit, Wrong, NoAnswer
<1>5. IsFiniteSet(Wrong) /\ Cardinality(Wrong) = 0
  BY <1>4, FS_EmptySet
<1>6. Room = 0
  BY <1>5 DEF Room, GuardInit
<1>7. \A s \in Checks : check[s].sum = 0
  BY DEF GuardInit, NoCheck
<1>8. \A s \in Answers : answer[s].held = 0
  BY DEF GuardInit, NoAnswer
<1>9. GuardType
  BY <1>1, <1>2, <1>3, <1>5 DEF GuardInit, GuardType
<1> QED BY <1>6, <1>7, <1>8, <1>9 DEF GuardInit, GuardInv, Backed

\* A step of a check: what it holds afterwards is backed.
LEMMA CheckMoves ==
  ASSUME GuardInv, answer' = answer, known' \in Seq(Addresses), NEW s \in Checks,
         NEW w \in CheckStates, check' = [check EXCEPT ![s] = w],
         NEW d \in Nat, earned' = earned + d, score' \in Nat, score' <= Room + d,
         w.sum <= Room + d
  PROVE  GuardInv'
<1>1. Wrong' = Wrong
  BY DEF Wrong
<1>2. Cardinality(Wrong) \in Nat
  BY FS_CardinalityType DEF GuardInv, GuardType
<1>3. Room \in Nat /\ Room' = Room + d /\ Room' >= Room
  BY <1>1, <1>2, RoomIs DEF Room, GuardInv, GuardType
<1>4. check' \in [Checks -> CheckStates]
  BY DEF GuardInv, GuardType
<1>5. GuardType'
  BY <1>1, <1>4 DEF GuardInv, GuardType
<1>6. ASSUME NEW q \in Checks PROVE check'[q].sum <= Room'
  <2>1. check[q].sum <= Room /\ check[q].sum \in Nat /\ w.sum \in Nat
    BY DEF GuardInv, GuardType, Backed, CheckStates
  <2>2. check'[q] = IF q = s THEN w ELSE check[q]
    BY DEF GuardInv, GuardType
  <2> QED BY <1>3, <2>1, <2>2
<1>7. ASSUME NEW q \in Answers PROVE answer'[q].held <= Room'
  <2>1. answer[q].held <= Room /\ answer[q].held \in Nat
    BY DEF GuardInv, GuardType, Backed, AnswerStates
  <2> QED BY <1>3, <2>1
<1> QED BY <1>3, <1>5, <1>6, <1>7 DEF GuardInv, Backed

\* A step of an answer: the room it leaves covers the score and what it holds.
LEMMA AnswerMoves ==
  ASSUME GuardInv, check' = check, known' = known, NEW s \in Answers,
         NEW w \in AnswerStates, answer' = [answer EXCEPT ![s] = w], IsFiniteSet(Wrong'),
         earned' \in Nat, score' \in Nat, Room' >= Room, Room' \in Int, score' <= Room',
         w.held <= Room'
  PROVE  GuardInv'
<1>1. Room \in Nat
  BY RoomIs
<1>2. answer' \in [Answers -> AnswerStates]
  BY DEF GuardInv, GuardType
<1>3. GuardType'
  BY <1>2 DEF GuardInv, GuardType
<1>4. ASSUME NEW q \in Checks PROVE check'[q].sum <= Room'
  <2>1. check[q].sum <= Room /\ check[q].sum \in Nat
    BY DEF GuardInv, GuardType, Backed, CheckStates
  <2> QED BY <1>1, <2>1
<1>5. ASSUME NEW q \in Answers PROVE answer'[q].held <= Room'
  <2>1. answer[q].held <= Room /\ answer[q].held \in Nat /\ w.held \in Nat
    BY DEF GuardInv, GuardType, Backed, AnswerStates
  <2>2. answer'[q] = IF q = s THEN w ELSE answer[q]
    BY DEF GuardInv, GuardType
  <2> QED BY <1>1, <2>1, <2>2
<1> QED BY <1>3, <1>4, <1>5 DEF GuardInv, Backed

\* A step of neither leaves what they hold as it is.
LEMMA TimeMoves ==
  ASSUME GuardInv, check' = check, answer' = answer, known' = known, earned' = earned,
         score' = 0 \/ score' = score
  PROVE  GuardInv'
<1>1. Wrong' = Wrong
  BY DEF Wrong
<1>2. Room' = Room /\ Room \in Nat
  BY <1>1, RoomIs DEF Room
<1> QED BY <1>1, <1>2 DEF GuardInv, GuardType, Backed

-----------------------------------------------------------------------------
LEMMA CheckSteps ==
  ASSUME GuardInv, NEW s \in Checks,
         \/ \E d \in Deltas : BeginCheck(s, d)
         \/ \E ip \in Devices : CheckNewDevice(s, ip)
         \/ RememberDevice(s) \/ SetScore(s) \/ Challenge(s)
  PROVE  GuardInv'
<1> DEFINE c == check[s]
<1>1. /\ c \in CheckStates /\ c.sum <= Room /\ c.sum \in Nat /\ c.hit \in BOOLEAN
      /\ c.ip \in Addresses /\ c.list \in Seq(Addresses)
  BY DEF GuardInv, GuardType, Backed, CheckStates
<1>2. /\ Room \in Nat /\ score \in Nat /\ score <= Room /\ earned \in Nat
      /\ known \in Seq(Addresses)
  BY RoomIs DEF GuardInv, GuardType, Backed
<1>3. ASSUME NEW d \in Deltas, BeginCheck(s, d) PROVE GuardInv'
  <2> DEFINE w == Raised(NoCheck, "detect", score + d, d # 0)
  <2>1. d \in Nat
    BY GuardAssumption
  <2>2. NoCheck \in CheckStates /\ score + d \in Nat /\ (d # 0) \in BOOLEAN
    BY <1>2, <2>1 DEF NoCheck, CheckStates, Addresses
  <2>3. w \in CheckStates /\ w.sum = score + d
    BY <2>2, Hits
  <2>4. /\ check' = [check EXCEPT ![s] = w] /\ earned' = earned + d
        /\ score' = score /\ known' = known /\ answer' = answer
    BY Zenon, <1>3 DEF BeginCheck, Raised
  <2> HIDE DEF w
  <2>6. w.sum <= Room + d /\ score' <= Room + d /\ score' \in Nat /\ known' \in Seq(Addresses)
    BY <1>2, <2>1, <2>3, <2>4
  <2> QED BY <2>1, <2>3, <2>4, <2>6, CheckMoves
<1>4. ASSUME NEW ip \in Devices, CheckNewDevice(s, ip) PROVE GuardInv'
  <2> DEFINE w == IF ip \in Listed(known) THEN Moved(c, "score")
                  ELSE Listing(c, "device", ip, known)
  <2>0. ip \in Addresses
    BY DEF Addresses
  <2>1. /\ check' = [check EXCEPT ![s] = w] /\ earned' = earned
        /\ score' = score /\ known' = known /\ answer' = answer
    BY Zenon, <1>4 DEF CheckNewDevice, Moved, Listing
  <2>2. w \in CheckStates /\ w.sum = c.sum
    BY <1>1, <1>2, <2>0, Passes, Reads
  <2> HIDE DEF w
  <2>3. /\ earned' = earned + 0 /\ w.sum <= Room + 0 /\ score' <= Room + 0
        /\ score' \in Nat /\ known' \in Seq(Addresses)
    BY <1>1, <1>2, <2>1, <2>2
  <2> QED BY <2>1, <2>2, <2>3, CheckMoves
<1>5. ASSUME RememberDevice(s) PROVE GuardInv'
  <2> DEFINE list == KeepLast(Append(c.list, c.ip))
             add == IF Len(list) > 1 THEN ScoreNewDevice ELSE 0
             w == Raised(c, "score", c.sum + add, c.hit \/ add # 0)
  <2>1. /\ c.pc = "device" /\ known' = list /\ earned' = earned + add
        /\ score' = score /\ answer' = answer
    BY <1>5 DEF RememberDevice
  <2>2. add \in Nat
    BY DEF ScoreNewDevice
  <2>3. check' = [check EXCEPT ![s] = w]
    BY Zenon, <1>5 DEF RememberDevice, Raised
  <2> HIDE DEF add
  <2>8. c.sum + add \in Nat /\ (c.hit \/ add # 0) \in BOOLEAN
    BY <1>1, <2>2
  <2>4. w \in CheckStates /\ w.sum = c.sum + add
    BY <1>1, <2>8, Hits
  <2>5. known' \in Seq(Addresses)
    BY <1>1, <2>1 DEF KeepLast
  <2> HIDE DEF w, list
  <2>7. w.sum <= Room + add /\ score' <= Room + add /\ score' \in Nat
    BY <1>1, <1>2, <2>1, <2>2, <2>4
  <2>9. PICK d \in Nat : /\ d = add /\ earned' = earned + d /\ w.sum <= Room + d
                         /\ score' <= Room + d
    BY <2>1, <2>2, <2>7
  <2>10. answer' = answer /\ w \in CheckStates
    BY <2>1, <2>4
  <2> QED BY <2>3, <2>5, <2>7, <2>9, <2>10, CheckMoves
<1>6. ASSUME SetScore(s) PROVE GuardInv'
  <2> DEFINE w == Summed(c, "respond", Clamp(c.sum))
  <2>1. Clamp(c.sum) \in Nat /\ Clamp(c.sum) <= Room
    <3>1. PICK n \in Nat : n = c.sum
      BY <1>1
    <3>2. PICK m \in Nat : m = Room
      BY <1>2
    <3>3. n \in Int /\ n <= m
      BY <1>1, <3>1, <3>2
    <3>4. Clamp(n) \in Nat /\ Clamp(n) <= m
      BY <3>3, Clamped
    <3> QED BY <3>1, <3>2, <3>4
  <2>2. /\ check' = [check EXCEPT ![s] = w] /\ score' = Clamp(c.sum)
        /\ earned' = earned /\ known' = known /\ answer' = answer
    BY Zenon, <1>6 DEF SetScore, Summed
  <2>3. w \in CheckStates /\ w.sum = Clamp(c.sum)
    BY <1>1, <2>1, Sums
  <2> HIDE DEF w
  <2>4. /\ earned' = earned + 0 /\ w.sum <= Room + 0 /\ score' <= Room + 0
        /\ score' \in Nat /\ known' \in Seq(Addresses)
    BY <1>1, <1>2, <2>1, <2>2, <2>3
  <2> QED BY <2>2, <2>3, <2>4, CheckMoves
<1>7. ASSUME Challenge(s) PROVE GuardInv'
  <2> DEFINE w == NoCheck
  <2>1. w \in CheckStates /\ w.sum = 0
    BY DEF NoCheck, CheckStates, Addresses
  <2>2. score' = score /\ earned' = earned /\ known' = known
    BY <1>7 DEF Challenge
  <2>3. check' = [check EXCEPT ![s] = w] /\ answer' = answer
    BY <1>7 DEF Challenge
  <2> HIDE DEF w
  <2>4. /\ earned' = earned + 0 /\ w.sum <= Room + 0 /\ score' <= Room + 0
        /\ score' \in Nat /\ known' \in Seq(Addresses) /\ earned' \in Nat
    BY <1>1, <1>2, <2>1, <2>2
  <2>5. \A d \in Nat : d = 0 => earned' = earned + d /\ w.sum <= Room + d /\ score' <= Room + d
    BY <2>4
  <2>6. PICK d \in Nat : d = 0
    OBVIOUS
  <2> QED BY <2>1, <2>3, <2>4, <2>5, <2>6, CheckMoves
<1> QED BY <1>3, <1>4, <1>5, <1>6, <1>7

LEMMA AnswerSteps ==
  ASSUME GuardInv, NEW s \in Answers,
         \/ \E c \in Challenges, passed \in BOOLEAN : BeginAnswer(s, c, passed)
         \/ JudgeAnswer(s) \/ EvaluateChallenge(s)
  PROVE  GuardInv'
<1> DEFINE a == answer[s]
<1>1. a \in AnswerStates /\ a.held <= Room /\ a.held \in Nat /\ a.passed \in BOOLEAN
  BY DEF GuardInv, GuardType, Backed, AnswerStates
<1>2. Room \in Nat /\ score \in Nat /\ score <= Room /\ earned \in Nat /\ IsFiniteSet(Wrong)
  BY RoomIs DEF GuardInv, GuardType, Backed
<1>3. Cardinality(Wrong) \in Nat
  BY <1>2, FS_CardinalityType
<1>4. ASSUME NEW w \in AnswerStates, answer' = [answer EXCEPT ![s] = w]
      PROVE  Wrong' = IF w.pc # "idle" /\ ~w.passed THEN Wrong \cup {s} ELSE Wrong \ {s}
  BY <1>4 DEF Wrong, GuardInv, GuardType
<1>5. ASSUME NEW c \in Challenges, NEW passed \in BOOLEAN, BeginAnswer(s, c, passed)
      PROVE  GuardInv'
  <2> DEFINE w == [pc |-> "judge", on |-> c, passed |-> passed, held |-> 0]
  <2>1. /\ a.pc = "idle" /\ answer' = [answer EXCEPT ![s] = w]
        /\ earned' = IF passed THEN earned ELSE earned + 20
        /\ score' = score /\ check' = check /\ known' = known
    BY <1>5 DEF BeginAnswer
  <2>2. w \in AnswerStates /\ w.held = 0 /\ w.pc = "judge" /\ w.passed = passed
    BY DEF AnswerStates
  <2>3. s \notin Wrong
    BY <2>1 DEF Wrong
  <2> HIDE DEF w
  <2>4. Wrong' = IF passed THEN Wrong ELSE Wrong \cup {s}
    BY <1>4, <2>1, <2>2, <2>3
  <2>5. IsFiniteSet(Wrong') /\ Cardinality(Wrong') = IF passed THEN Cardinality(Wrong)
                                                     ELSE Cardinality(Wrong) + 1
    BY <1>2, <2>3, <2>4, FS_AddElement
  <2>6. Room' = Room /\ earned' \in Nat
    BY <1>2, <1>3, <2>1, <2>5 DEF Room
  <2>7. /\ check' = check /\ known' = known /\ score' \in Nat /\ Room' >= Room
        /\ Room' \in Int /\ score' <= Room' /\ w.held <= Room'
    BY <1>2, <2>1, <2>2, <2>6
  <2> QED BY <2>1, <2>2, <2>5, <2>6, <2>7, AnswerMoves
<1>6. ASSUME JudgeAnswer(s) PROVE GuardInv'
  <2> DEFINE w == Held(a, score)
  <2>1. /\ a.pc = "judge" /\ answer' = [answer EXCEPT ![s] = w] /\ earned' = earned
        /\ score' = score /\ check' = check /\ known' = known
    BY Zenon, <1>6 DEF JudgeAnswer, Held
  <2>2. w \in AnswerStates /\ w.held = score /\ w.pc = "score" /\ w.passed = a.passed
    BY <1>1, <1>2, Judged
  <2> HIDE DEF w
  <2>3. Wrong' = Wrong
    BY <1>4, <2>1, <2>2 DEF Wrong
  <2>4. Room' = Room
    BY <2>1, <2>3 DEF Room
  <2>5. /\ check' = check /\ known' = known /\ score' \in Nat /\ Room' >= Room
        /\ Room' \in Int /\ score' <= Room' /\ w.held <= Room' /\ earned' \in Nat
    BY <1>2, <2>1, <2>2, <2>4
  <2>6. IsFiniteSet(Wrong')
    BY <1>2, <2>3
  <2> QED BY <2>1, <2>2, <2>5, <2>6, AnswerMoves
<1>7. ASSUME EvaluateChallenge(s) PROVE GuardInv'
  <2>1. /\ a.pc = "score" /\ answer' = [answer EXCEPT ![s] = NoAnswer] /\ earned' = earned
        /\ score' = Clamp(IF a.passed THEN a.held - 40 ELSE a.held + 20)
        /\ check' = check /\ known' = known
    BY <1>7 DEF EvaluateChallenge
  <2>2. NoAnswer \in AnswerStates /\ NoAnswer.pc = "idle" /\ NoAnswer.held = 0
    BY DEF NoAnswer, AnswerStates
  <2>3. Wrong' = Wrong \ {s} /\ (s \in Wrong <=> ~a.passed)
    BY <1>4, <2>1, <2>2 DEF Wrong
  <2>4. IsFiniteSet(Wrong') /\ Cardinality(Wrong') = IF a.passed THEN Cardinality(Wrong)
                                                     ELSE Cardinality(Wrong) - 1
    BY <1>2, <2>3, FS_RemoveElement
  <2>5. Room' = IF a.passed THEN Room ELSE Room + 20
    BY <1>2, <1>3, <2>1, <2>4 DEF Room
  <2>6. score' \in Nat /\ score' <= Room' /\ Room' \in Nat
    <3>1. CASE a.passed
      <4>1. a.held - 40 \in Int /\ a.held - 40 <= Room
        BY <1>1, <1>2
      <4> QED BY <1>2, <2>1, <2>5, <3>1, <4>1, Clamped
    <3>2. CASE ~a.passed
      <4>1. a.held + 20 \in Int /\ Room + 20 \in Nat /\ a.held + 20 <= Room + 20
        BY <1>1, <1>2
      <4> QED BY <1>2, <2>1, <2>5, <3>2, <4>1, Clamped
    <3> QED BY <3>1, <3>2
  <2>7. /\ check' = check /\ known' = known /\ score' \in Nat /\ Room' >= Room
        /\ Room' \in Int /\ score' <= Room' /\ NoAnswer.held <= Room' /\ earned' \in Nat
    BY <1>2, <2>1, <2>2, <2>5, <2>6
  <2> QED BY <2>1, <2>2, <2>4, <2>7, AnswerMoves
<1> QED BY <1>5, <1>6, <1>7

LEMMA GuardStep == GuardInv /\ [GuardNext]_guardVars => GuardInv'
<1> SUFFICES ASSUME GuardInv, [GuardNext]_guardVars PROVE GuardInv'
  OBVIOUS
<1>1. CASE \E c \in Challenges : ExpireChallenge(c)
  BY <1>1, TimeMoves DEF ExpireChallenge
<1>2. CASE HalfHour
  BY <1>2, TimeMoves DEF HalfHour
<1>3. CASE UNCHANGED guardVars
  BY <1>3, TimeMoves DEF guardVars
<1> QED BY <1>1, <1>2, <1>3, CheckSteps, AnswerSteps DEF GuardNext

\* However checks, answers, expiries and late writes interleave, for any number of
\* requests, the score is at most what was earned.
THEOREM ScoreIsBacked == GuardSpec => []ScoreBacked
<1>1. GuardInv => ScoreBacked
  <2> SUFFICES ASSUME GuardInv PROVE ScoreBacked
    OBVIOUS
  <2>1. Cardinality(Wrong) \in Nat
    BY FS_CardinalityType DEF GuardInv, GuardType
  <2> QED BY <2>1 DEF GuardInv, GuardType, Backed, Room, ScoreBacked
<1> QED BY <1>1, GuardInitial, GuardStep, PTL DEF GuardSpec

-----------------------------------------------------------------------------
(* Exports: ExportsSound for every number of exports and of downloads at   *)
(* once. It counts the sent archives against the requests that were past   *)
(* the check together; what makes that inductive is that the requests      *)
(* still past it count as well (Counted), and that the status is not       *)
(* checked again once anything was sent (Unsent, Marked).                  *)

DownloadStates == [pc : {"idle", "mark", "serve"}, of : Exported \cup {"none"}]

ExportsType ==
  /\ download \in [Downloads -> DownloadStates]
  /\ export \in [Exported -> {"none", "processing", "ready", "downloaded", "failed"}]
  /\ served \in [Exported -> Nat] /\ together \in [Exported -> Nat]
  /\ \A d \in Downloads : download[d].pc = "idle" <=> download[d].of = "none"

Counted == \A e \in Exported : served[e] + Cardinality(Past(e)) <= together[e]

Unsent == \A e \in Exported : export[e] # "downloaded" => served[e] = 0

Serving(e) == {d \in Past(e) : download[d].pc = "serve"}

Marked ==
  \A e \in Exported :
    /\ Serving(e) # {} => export[e] = "downloaded"
    /\ export[e] = "downloaded" /\ served[e] = 0 => e \in dropped \/ Serving(e) # {}

ExportsInv == ExportsType /\ Counted /\ Unsent /\ Marked /\ ClearOnlyWhenStopped

-----------------------------------------------------------------------------
LEMMA PastFinite == ASSUME NEW e PROVE IsFiniteSet(Past(e)) /\ Cardinality(Past(e)) \in Nat
<1>1. Past(e) \in SUBSET Downloads
  BY DEF Past
<1> QED
  BY <1>1, ExportsAssumption, FS_Subset, FS_CardinalityType

LEMMA ExportsInitial == ExportsInit => ExportsInv
<1> SUFFICES ASSUME ExportsInit PROVE ExportsInv
  OBVIOUS
<1>1. ExportsType
  BY DEF ExportsInit, ExportsType, NoDownload, DownloadStates
<1>2. ASSUME NEW e \in Exported PROVE Past(e) = {}
  BY <1>2, ExportsAssumption DEF ExportsInit, Past, NoDownload
<1>3. Counted
  BY <1>2, FS_EmptySet DEF ExportsInit, Counted
<1>4. Unsent /\ Marked
  BY <1>2 DEF ExportsInit, Unsent, Marked, Serving
<1>5. ClearOnlyWhenStopped
  BY DEF ExportsInit, ClearOnlyWhenStopped
<1> QED
  BY <1>1, <1>3, <1>4, <1>5 DEF ExportsInv

\* The four steps of a download: who is past the check of an export, and who serves it.
LEMMA Asked ==
  ASSUME ExportsType, NEW d \in Downloads, NEW e \in Exported, Download(d, e)
  PROVE  /\ download' \in [Downloads -> DownloadStates]
         /\ \A c \in Downloads : download'[c].pc = "idle" <=> download'[c].of = "none"
         /\ d \notin Past(e) /\ Past(e)' = Past(e) \cup {d}
         /\ \A f \in Exported \ {e} : Past(f)' = Past(f)
         /\ \A f \in Exported : Serving(f)' = Serving(f)
<1> DEFINE calling == [pc |-> "mark", of |-> e]
<1>1. download' = [download EXCEPT ![d] = calling] /\ download[d] = [pc |-> "idle", of |-> "none"]
  BY DEF Download, NoDownload
<1>2. calling \in DownloadStates /\ calling.pc = "mark" /\ calling.of = e /\ e # "none"
  BY ExportsAssumption DEF DownloadStates
<1> HIDE DEF calling
<1>3. /\ download' \in [Downloads -> DownloadStates] /\ download'[d] = calling
      /\ \A c \in Downloads \ {d} : download'[c] = download[c]
  BY <1>1, <1>2 DEF ExportsType
<1>4. download[d].pc = "idle" /\ download[d].of = "none"
  BY <1>1
<1> QED
  BY <1>2, <1>3, <1>4, ExportsAssumption DEF ExportsType, Past, Serving

LEMMA MarkedNow ==
  ASSUME ExportsType, NEW d \in Downloads, NEW e \in Exported, e = download[d].of,
         MarkDownloaded(d)
  PROVE  /\ download' \in [Downloads -> DownloadStates]
         /\ \A c \in Downloads : download'[c].pc = "idle" <=> download'[c].of = "none"
         /\ d \in Serving(e)'
         /\ \A f \in Exported : Past(f)' = Past(f)
         /\ \A f \in Exported \ {e} : Serving(f)' = Serving(f)
<1>1. /\ download' = [download EXCEPT ![d].pc = "serve"] /\ download[d].pc = "mark"
      /\ download[d] \in DownloadStates
  BY DEF MarkDownloaded, ExportsType
<1>2. /\ download' \in [Downloads -> DownloadStates]
      /\ download'[d].pc = "serve" /\ download'[d].of = e
      /\ \A c \in Downloads \ {d} : download'[c] = download[c]
  BY <1>1 DEF ExportsType, DownloadStates
<1> QED
  BY <1>1, <1>2, ExportsAssumption DEF ExportsType, Past, Serving

LEMMA OfExport ==
  ASSUME ExportsType, NEW d \in Downloads, download[d] # NoDownload
  PROVE  download[d].of \in Exported
<1>1. download[d] \in DownloadStates
  BY DEF ExportsType
<1>2. download[d] = [pc |-> download[d].pc, of |-> download[d].of]
  BY <1>1 DEF DownloadStates
<1>3. download[d].of # "none"
  BY <1>2 DEF ExportsType, NoDownload
<1> QED
  BY <1>1, <1>3 DEF DownloadStates

LEMMA Ended ==
  ASSUME ExportsType, NEW d \in Downloads, NEW e \in Exported, e = download[d].of,
         download' = [download EXCEPT ![d] = NoDownload]
  PROVE  /\ download' \in [Downloads -> DownloadStates]
         /\ \A c \in Downloads : download'[c].pc = "idle" <=> download'[c].of = "none"
         /\ d \in Past(e)
         /\ \A f \in Exported : Past(f)' = Past(f) \ {d} /\ Serving(f)' = Serving(f) \ {d}
         /\ \A f \in Exported \ {e} : d \notin Past(f)
<1>1. NoDownload \in DownloadStates /\ NoDownload.of = "none" /\ NoDownload.pc = "idle"
  BY DEF NoDownload, DownloadStates
<1>2. /\ download' \in [Downloads -> DownloadStates] /\ download'[d] = NoDownload
      /\ \A c \in Downloads \ {d} : download'[c] = download[c]
  BY <1>1 DEF ExportsType
<1> QED
  BY <1>1, <1>2, ExportsAssumption DEF ExportsType, Past, Serving

LEMMA DownloadKeeps ==
  ASSUME ExportsInv, NEW d \in Downloads, NEW e \in Exported, Download(d, e)
  PROVE  ExportsInv'
<1> USE DEF ExportsInv
<1>1. /\ export' = export /\ disk' = disk /\ served' = served /\ dropped' = dropped
      /\ failed' = failed /\ export[e] = "ready"
      /\ together' = [together EXCEPT ![e] =
           IF Cardinality(Past(e)) + 1 > @ THEN Cardinality(Past(e)) + 1 ELSE @]
  BY DEF Download, Offered
<1>2. together' \in [Exported -> Nat]
  BY <1>1, PastFinite DEF ExportsType
<1>3. ExportsType'
  BY <1>1, <1>2, Asked DEF ExportsType
<1>4. Counted'
  <2>1. served[e] = 0 /\ Cardinality(Past(e)') = Cardinality(Past(e)) + 1
    BY <1>1, Asked, PastFinite, FS_AddElement DEF Unsent
  <2>2. together'[e] >= Cardinality(Past(e)) + 1 /\ together[e] \in Nat
    BY <1>1, PastFinite DEF ExportsType
  <2>3. \A f \in Exported \ {e} : together'[f] = together[f] /\ Past(f)' = Past(f)
    BY <1>1, Asked DEF ExportsType
  <2>4. served[e] + Cardinality(Past(e)') <= together'[e]
    BY <1>2, <2>1, <2>2, PastFinite
  <2>5. ASSUME NEW f \in Exported, f # e PROVE served[f] + Cardinality(Past(f)') <= together'[f]
    BY <2>3, <2>5 DEF Counted
  <2> QED
    BY <1>1, <2>4, <2>5 DEF Counted
<1>5. Unsent' /\ Marked' /\ ClearOnlyWhenStopped'
  BY <1>1, Asked DEF Unsent, Marked, ClearOnlyWhenStopped
<1> QED
  BY <1>3, <1>4, <1>5

LEMMA MarkKeeps ==
  ASSUME ExportsInv, NEW d \in Downloads, MarkDownloaded(d)
  PROVE  ExportsInv'
<1> USE DEF ExportsInv
<1>1. PICK e \in Exported : e = download[d].of
  BY OfExport DEF MarkDownloaded, NoDownload
<1>2. /\ export' = [export EXCEPT ![e] = "downloaded"] /\ disk' = disk /\ served' = served
      /\ together' = together /\ dropped' = dropped /\ failed' = failed
  BY <1>1 DEF MarkDownloaded
<1>3. /\ download' \in [Downloads -> DownloadStates]
      /\ \A c \in Downloads : download'[c].pc = "idle" <=> download'[c].of = "none"
      /\ d \in Serving(e)'
      /\ \A f \in Exported : Past(f)' = Past(f)
      /\ \A f \in Exported \ {e} : Serving(f)' = Serving(f)
  BY <1>1, MarkedNow
<1>4. export'[e] = "downloaded" /\ \A f \in Exported \ {e} : export'[f] = export[f]
  BY <1>2 DEF ExportsType
<1>5. ExportsType'
  BY <1>2, <1>3, <1>4 DEF ExportsType
<1>6. Counted'
  BY <1>2, <1>3 DEF Counted
<1>7. Unsent' /\ Marked' /\ ClearOnlyWhenStopped'
  BY <1>2, <1>3, <1>4 DEF Unsent, Marked, ClearOnlyWhenStopped
<1> QED
  BY <1>5, <1>6, <1>7

LEMMA ServeKeeps ==
  ASSUME ExportsInv, NEW d \in Downloads, Serve(d)
  PROVE  ExportsInv'
<1> USE DEF ExportsInv
<1>1. PICK e \in Exported : e = download[d].of
  BY OfExport DEF Serve, NoDownload
<1>2. /\ export' = export /\ disk' = disk /\ together' = together /\ dropped' = dropped
      /\ failed' = failed /\ served' = [served EXCEPT ![e] = @ + 1]
      /\ download' = [download EXCEPT ![d] = NoDownload] /\ download[d].pc = "serve"
  BY <1>1 DEF Serve
<1>3. /\ download' \in [Downloads -> DownloadStates]
      /\ \A c \in Downloads : download'[c].pc = "idle" <=> download'[c].of = "none"
      /\ d \in Past(e)
      /\ \A f \in Exported : Past(f)' = Past(f) \ {d} /\ Serving(f)' = Serving(f) \ {d}
      /\ \A f \in Exported \ {e} : d \notin Past(f)
  BY <1>1, <1>2, Ended
<1>4. d \in Serving(e) /\ export[e] = "downloaded"
  BY <1>2, <1>3 DEF Serving, Marked
<1>5. /\ served'[e] = served[e] + 1 /\ served[e] \in Nat /\ served' \in [Exported -> Nat]
      /\ \A f \in Exported \ {e} : served'[f] = served[f]
  BY <1>2 DEF ExportsType
<1>6. ExportsType'
  BY <1>2, <1>3, <1>5 DEF ExportsType
<1>7. Counted'
  <2>1. Cardinality(Past(e)') = Cardinality(Past(e)) - 1
    BY <1>3, PastFinite, FS_RemoveElement
  <2>2. served'[e] + Cardinality(Past(e)') <= together[e]
    BY <1>5, <2>1, PastFinite DEF Counted
  <2>3. ASSUME NEW f \in Exported, f # e PROVE served'[f] + Cardinality(Past(f)') <= together[f]
    <3>1. Past(f)' = Past(f)
      BY <1>3, <2>3
    <3> QED
      BY <1>5, <2>3, <3>1 DEF Counted
  <2> QED
    BY <1>2, <2>2, <2>3 DEF Counted
<1>8. Unsent' /\ Marked'
  <2>1. served'[e] # 0 /\ export'[e] = "downloaded"
    BY <1>2, <1>4, <1>5
  <2>2. ASSUME NEW f \in Exported, f # e PROVE Serving(f)' = Serving(f)
    BY <1>3, <2>2 DEF Serving
  <2> QED
    BY <1>2, <1>5, <2>1, <2>2 DEF Unsent, Marked
<1>9. ClearOnlyWhenStopped'
  BY <1>2 DEF ClearOnlyWhenStopped
<1> QED
  BY <1>6, <1>7, <1>8, <1>9

LEMMA DropKeeps ==
  ASSUME ExportsInv, NEW d \in Downloads, DropDownload(d)
  PROVE  ExportsInv'
<1> USE DEF ExportsInv
<1>1. PICK e \in Exported : e = download[d].of
  BY OfExport DEF DropDownload
<1>2. /\ export' = export /\ disk' = disk /\ together' = together /\ served' = served
      /\ failed' = failed /\ download' = [download EXCEPT ![d] = NoDownload]
      /\ dropped' = IF download[d].pc = "serve" THEN dropped \cup {e} ELSE dropped
  BY <1>1 DEF DropDownload
<1>3. /\ download' \in [Downloads -> DownloadStates]
      /\ \A c \in Downloads : download'[c].pc = "idle" <=> download'[c].of = "none"
      /\ \A f \in Exported : Past(f)' = Past(f) \ {d} /\ Serving(f)' = Serving(f) \ {d}
  BY <1>1, <1>2, Ended
<1>4. ExportsType'
  BY <1>2, <1>3 DEF ExportsType
<1>5. Counted'
  <2> SUFFICES ASSUME NEW f \in Exported PROVE served[f] + Cardinality(Past(f)') <= together[f]
    BY <1>2 DEF Counted
  <2>1. Past(f)' = Past(f) \ {d}
    BY <1>3
  <2>2. Cardinality(Past(f)') \in Nat /\ Cardinality(Past(f)') <= Cardinality(Past(f))
    <3>1. /\ IsFiniteSet(Past(f) \ {d})
          /\ Cardinality(Past(f) \ {d}) =
               IF d \in Past(f) THEN Cardinality(Past(f)) - 1 ELSE Cardinality(Past(f))
      BY PastFinite, FS_RemoveElement
    <3>2. Cardinality(Past(f) \ {d}) \in Nat
      BY <3>1, FS_CardinalityType
    <3> QED
      BY <2>1, <3>1, <3>2, PastFinite
  <2>3. served[f] \in Nat /\ together[f] \in Nat
    BY DEF ExportsType
  <2> QED
    BY <2>2, <2>3, PastFinite DEF Counted
<1>6. Unsent' /\ ClearOnlyWhenStopped'
  BY <1>2 DEF Unsent, ClearOnlyWhenStopped
<1>7. Marked'
  <2> SUFFICES ASSUME NEW f \in Exported
               PROVE  /\ Serving(f)' # {} => export[f] = "downloaded"
                      /\ export[f] = "downloaded" /\ served[f] = 0 =>
                           f \in dropped' \/ Serving(f)' # {}
    BY <1>2 DEF Marked
  <2>1. Serving(f)' = Serving(f) \ {d}
    BY <1>3
  <2>2. d \in Serving(f) => f \in dropped'
    BY <1>1, <1>2 DEF Serving, Past
  <2>3. dropped \subseteq dropped'
    BY <1>2
  <2> QED
    BY <2>1, <2>2, <2>3 DEF Marked
<1> QED
  BY <1>4, <1>5, <1>6, <1>7

\* Building an archive, or not, concerns an export that nothing was sent of yet.
LEMMA BuildingKeeps ==
  ASSUME ExportsInv, NEW e \in Exported, CreateExport(e) \/ BuildArchive(e) \/ StopBuilding(e)
  PROVE  ExportsInv'
<1> USE DEF ExportsInv
<1>1. UNCHANGED <<download, served, together, dropped>>
  BY DEF CreateExport, BuildArchive, StopBuilding
<1>2. /\ export' \in [Exported -> {"none", "processing", "ready", "downloaded", "failed"}]
      /\ export[e] # "downloaded" /\ export'[e] # "downloaded"
      /\ \A f \in Exported \ {e} : export'[f] = export[f]
  BY DEF CreateExport, BuildArchive, StopBuilding, ExportsType
<1>3. ExportsType'
  BY <1>1, <1>2 DEF ExportsType
<1>4. Counted' /\ Unsent' /\ Marked'
  BY <1>1, <1>2 DEF Counted, Unsent, Marked, Serving, Past
<1>5. ClearOnlyWhenStopped'
  BY DEF CreateExport, BuildArchive, StopBuilding, ClearOnlyWhenStopped
<1> QED
  BY <1>3, <1>4, <1>5

LEMMA ExportsStep == ExportsInv /\ [ExportsNext]_exportVars => ExportsInv'
<1> SUFFICES ASSUME ExportsInv, [ExportsNext]_exportVars PROVE ExportsInv'
  OBVIOUS
<1>1. CASE UNCHANGED exportVars
  BY <1>1 DEF exportVars, ExportsInv, ExportsType, Counted, Unsent, Marked,
              ClearOnlyWhenStopped, Serving, Past
<1> QED
  BY <1>1, DownloadKeeps, MarkKeeps, ServeKeeps, DropKeeps, BuildingKeeps DEF ExportsNext

\* An archive (DataExporter and routers/security.py) is sent to no more requests than were
\* past the check of its status together, and a stopped build alone leaves it in the clear.
THEOREM ExportsAreSound == ExportsSpec => []ExportsSound
<1>1. ExportsInit => ExportsInv
  BY ExportsInitial
<1>2. ExportsInv /\ [ExportsNext]_exportVars => ExportsInv'
  BY ExportsStep
<1>3. ExportsInv => ExportsSound
  <2> SUFFICES ASSUME ExportsInv, NEW e \in Exported
               PROVE  /\ served[e] <= together[e]
                      /\ export[e] = "downloaded" /\ served[e] = 0 => e \in dropped \/ Past(e) # {}
    BY DEF ExportsSound, ServedOnce, ExportsInv
  <2>1. /\ served[e] \in Nat /\ together[e] \in Nat
        /\ served[e] + Cardinality(Past(e)) <= together[e]
    BY DEF ExportsInv, ExportsType, Counted
  <2>2. served[e] <= together[e]
    BY <2>1, PastFinite
  <2> QED
    BY <2>2 DEF ExportsInv, Marked, Serving
<1> QED
  BY <1>1, <1>2, <1>3, PTL DEF ExportsSpec
=============================================================================
