------------------------------ MODULE Sessions -------------------------------
(***************************************************************************)
(* The owner's sign-ins and the refreshing of tokens (services/auth.py,    *)
(* routers/auth.py, lib/api.ts of the web application).  The key           *)
(* refresh:<owner>:<token[:16]> is the same for every token of an owner,   *)
(* as a JWT begins with its header, and its value is never compared: Redis *)
(* holds one slot for all of the owner's browsers.  Time is in days.       *)
(***************************************************************************)
EXTENDS Integers, FiniteSets

CONSTANTS
  Browsers,      \* each has one localStorage
  Tabs,          \* each has one refresh, sign-in or sign-out under way at most
  BrowserOf,     \* the browser of a tab
  Ttl,           \* refresh_token_expire_days, of a token and of the slot
  MaxToday, MaxSignIn, MaxDeath   \* bounds

ASSUME SessionsAssumption ==
  /\ BrowserOf \in [Tabs -> Browsers] /\ Ttl \in Nat \ {0}
  /\ {MaxToday, MaxSignIn, MaxDeath} \subseteq Nat

VARIABLES
  today,
  slot,          \* the day the slot expires, 0 when it is absent
  held,          \* the day the refresh token of a browser was issued, 0 for none
  call,          \* what a tab waits for
  lost,          \* ghost: why the slot was emptied and not filled again
  entered,       \* ghost: a sign-in filled the slot since the last sign-out
  late,          \* ghost: the last sign-out found a refresh past its check
  sessionLeft    \* the bounds that are left

sessionVars == <<today, slot, held, call, lost, entered, late, sessionLeft>>
Ghosts == <<lost, entered, late>>

NoCall == [pc |-> "idle", kind |-> "none", iat |-> 0]
Draft(t, pc) == call' = [call EXCEPT ![t].pc = pc]
Alive(iat) == iat > 0 /\ today < iat + Ttl
Refreshing == {t \in Tabs : call[t].kind = "refresh" /\ call[t].pc \in {"revoke", "store"}}
Within(what) == sessionLeft[what] > 0 /\ sessionLeft' = [sessionLeft EXCEPT ![what] = @ - 1]

SessionsInit ==
  /\ today = 1 /\ slot = 0 /\ held = [b \in Browsers |-> 0] /\ call = [t \in Tabs |-> NoCall]
  /\ lost = "no" /\ entered = FALSE /\ late = FALSE
  /\ sessionLeft = [signin |-> MaxSignIn, death |-> MaxDeath]

(***************************************************************************)
(* /setup, /login, /verify and Google's callback: tokens, then the slot.   *)
(***************************************************************************)
SignIn(t) ==
  /\ call[t] = NoCall /\ Within("signin")
  /\ call' = [call EXCEPT ![t] = [pc |-> "store", kind |-> "signin", iat |-> today]]
  /\ UNCHANGED <<today, slot, held, Ghosts>>

StoreRefreshToken(t) ==
  /\ call[t].pc = "store" /\ slot' = today + Ttl /\ Draft(t, "answer")
  /\ lost' = "no" /\ entered' = (entered \/ call[t].kind = "signin")
  /\ UNCHANGED <<today, held, late, sessionLeft>>

\* setTokens(), also after another tab has signed out; or the answer is lost
Answer(t) ==
  /\ call[t].pc = "answer" /\ call' = [call EXCEPT ![t] = NoCall]
  /\ held' \in {held, [held EXCEPT ![BrowserOf[t]] = call[t].iat]}
  /\ UNCHANGED <<today, slot, Ghosts, sessionLeft>>

(***************************************************************************)
(* tryRefresh() of the browser, refresh_tokens() of the server.            *)
(***************************************************************************)
TryRefresh(t) ==
  /\ call[t] = NoCall /\ held[BrowserOf[t]] > 0
  /\ call' = [call EXCEPT ![t] = [pc |-> "check", kind |-> "refresh", iat |-> held[BrowserOf[t]]]]
  /\ UNCHANGED <<today, slot, held, Ghosts, sessionLeft>>

\* BadRefreshTokens and the other definitions named Bad... are faulty variants of the
\* definition that follows them, for the mutation runs only.
BadRefreshTokens(t) ==
  /\ call[t].pc = "check"
  /\ IF Alive(call[t].iat) THEN Draft(t, "revoke") ELSE call' = [call EXCEPT ![t] = NoCall]
  /\ UNCHANGED <<today, slot, held, Ghosts, sessionLeft>>

\* a 401 leaves the browser its token, to be tried again with the next request
RefreshTokens(t) ==
  /\ call[t].pc = "check"
  /\ IF Alive(call[t].iat) /\ slot > 0 THEN Draft(t, "revoke") ELSE call' = [call EXCEPT ![t] = NoCall]
  /\ UNCHANGED <<today, slot, held, Ghosts, sessionLeft>>

Revoke(t) ==
  /\ call[t].pc = "revoke" /\ slot' = 0
  /\ call' = [call EXCEPT ![t] = [@ EXCEPT !.pc = "store", !.iat = today]]
  /\ UNCHANGED <<today, held, Ghosts, sessionLeft>>

(***************************************************************************)
(* handleSignOut() of the top bar revokes and forgets, whatever becomes of *)
(* the request; handleLogout() of the bottom bar only forgets.             *)
(***************************************************************************)
SignOut(t) ==
  /\ call[t] = NoCall /\ held[BrowserOf[t]] > 0
  /\ call' = [call EXCEPT ![t] = [pc |-> "logout", kind |-> "signout", iat |-> held[BrowserOf[t]]]]
  /\ UNCHANGED <<today, slot, held, Ghosts, sessionLeft>>

Logout(t) ==
  /\ call[t].pc = "logout" /\ Draft(t, "clear")
  /\ \/ /\ Alive(call[t].iat) /\ slot' = 0 /\ lost' = "signout"
        /\ entered' = FALSE /\ late' = (Refreshing # {})
     \/ UNCHANGED <<slot, Ghosts>>   \* an expired token, or a lost request
  /\ UNCHANGED <<today, held, sessionLeft>>

ClearTokens(t) ==
  /\ call[t].pc = "clear" \/ (call[t] = NoCall /\ held[BrowserOf[t]] > 0)
  /\ call' = [call EXCEPT ![t] = NoCall] /\ held' = [held EXCEPT ![BrowserOf[t]] = 0]
  /\ UNCHANGED <<today, slot, Ghosts, sessionLeft>>

Tomorrow ==
  /\ today < MaxToday /\ today' = today + 1
  /\ slot' = IF slot > today + 1 THEN slot ELSE 0
  /\ UNCHANGED <<held, call, Ghosts, sessionLeft>>

\* the API process dies: what it was doing for the tabs stops where it is
Death ==
  /\ Within("death")
  /\ call' = [t \in Tabs |-> IF call[t].pc \in {"check", "revoke", "store"} THEN NoCall
                             ELSE IF call[t].pc = "logout" THEN [call[t] EXCEPT !.pc = "clear"]
                             ELSE call[t]]
  /\ lost' = IF slot = 0 /\ Refreshing # {} THEN "death" ELSE lost
  /\ UNCHANGED <<today, slot, held, entered, late>>

SessionsNext ==
  \/ \E t \in Tabs : \/ SignIn(t) \/ StoreRefreshToken(t) \/ Answer(t) \/ TryRefresh(t)
                     \/ RefreshTokens(t) \/ Revoke(t) \/ SignOut(t) \/ Logout(t) \/ ClearTokens(t)
  \/ Tomorrow \/ Death

SessionsSpec == SessionsInit /\ [][SessionsNext]_sessionVars

-----------------------------------------------------------------------------
\* A browser with a token that has not expired can refresh it, however the refreshes
\* of several tabs and browsers overlap, except while one of them is between its two
\* commands, after a sign-out, of whichever browser, or after a death between them.
RefreshWorks ==
  slot = 0 /\ (\E b \in Browsers : Alive(held[b])) =>
    lost # "no" \/ (\E t \in Refreshing : call[t].pc = "store")

\* After a sign-out the slot is filled by a sign-in only, or by a refresh that was past
\* its check when the sign-out came.
SignOutHolds == slot > 0 => entered \/ late

\* The slot is there, or absent, for a reason the user knows of.
SlotExplained == RefreshWorks /\ SignOutHolds
=============================================================================
