------------------------------- MODULE Access --------------------------------
(***************************************************************************)
(* Family access to one owner's replica (services/family_access.py,        *)
(* routers/family_access.py): the rules, the invites made from them, the   *)
(* durable family code, and what a family session may see.  Each request   *)
(* has a database session of its own, so that what it has read may be old  *)
(* when it commits.  The limiter of family_login is RateLimit; whether a   *)
(* secret is right and the hour allowed is an input.                       *)
(***************************************************************************)
EXTENDS Integers

CONSTANTS
  Rules, Invites,
  Visitors,      \* requests of visitors: an invite, or a sign-in with the code
  Openers,       \* requests of the owner for the family code
  Scopes,        \* what a rule may allow: [full, types, categories], All for no limit
  Knowledge,     \* entries: <<type, category>>, NoCategory for none
  All, NoCategory,
  MaxUses,       \* bound: uses of a reusable invite
  AccessStarts   \* bounds: edits of rules, invites made, requests for the code

ASSUME AccessAssumption ==
  /\ MaxUses \in Nat \ {0} /\ Scopes # {} /\ All # {}
  /\ \A b \in AccessStarts : {b.edit, b.invite, b.code} \subseteq Nat

VARIABLES
  rule,          \* rule |-> "none", "active", "off" or "deleted", with its scope
  invite,        \* invite |-> its row
  visit,         \* the visitors' requests
  granted,       \* the rules a session token was given for
  admitted,      \* ghost: sessions given for an invite
  shared,        \* ghost: invites that two requests have held at once
  code,          \* the owner's family code: 0 none, else how many were made before it
  opener,        \* the owner's requests for the code
  contested,     \* ghost: a new code was asked for, or two first ones at once
  accessLeft     \* the bounds that are left

accessVars == <<rule, invite, visit, granted, admitted, shared, code, opener, contested, accessLeft>>

NoVisit == [pc |-> "idle", on |-> 0, uses |-> 0]
NoOpener == [pc |-> "idle", got |-> 0]
NoInvite == [live |-> FALSE, rule |-> 0, max |-> 0, uses |-> 0]

AccessInit ==
  /\ rule = [r \in Rules |-> [state |-> "none", scope |-> CHOOSE s \in Scopes : TRUE]]
  /\ invite = [i \in Invites |-> NoInvite]
  /\ visit = [v \in Visitors |-> NoVisit] /\ granted = {}
  /\ admitted = [i \in Invites |-> 0] /\ shared = {}
  /\ code = 0 /\ opener = [q \in Openers |-> NoOpener] /\ contested = FALSE
  /\ accessLeft \in AccessStarts

Spend(what) == accessLeft[what] > 0 /\ accessLeft' = [accessLeft EXCEPT ![what] = @ - 1]

(***************************************************************************)
(* Rules and invites.                                                      *)
(***************************************************************************)
OnRules == UNCHANGED <<invite, visit, granted, admitted, shared, code, opener, contested>>
OnVisits == UNCHANGED <<rule, code, opener, contested>>
OnCode == UNCHANGED <<rule, invite, visit, granted, admitted, shared>>

Stored(r) == rule[r].state \in {"active", "off"}

CreateRule(r, s) ==
  /\ rule[r].state = "none" /\ rule' = [rule EXCEPT ![r] = [state |-> "active", scope |-> s]]
  /\ OnRules /\ UNCHANGED accessLeft

UpdateRule(r, s, state) ==
  /\ Stored(r) /\ Spend("edit") /\ rule' = [rule EXCEPT ![r] = [state |-> state, scope |-> s]]
  /\ OnRules

DeleteRule(r) ==
  /\ Stored(r) /\ Spend("edit") /\ rule' = [rule EXCEPT ![r].state = "deleted"] /\ OnRules

\* one use, or max_uses of them when the invite is reusable
GenerateInvite(i, r, max) ==
  /\ Stored(r) /\ invite[i] = NoInvite /\ Spend("invite")
  /\ invite' = [invite EXCEPT ![i] = [live |-> TRUE, rule |-> r, max |-> max, uses |-> max]]
  /\ OnVisits /\ UNCHANGED <<visit, granted, admitted, shared>>

ExpireInvite(i) ==
  /\ invite[i].live /\ invite' = [invite EXCEPT ![i].live = FALSE]
  /\ OnVisits /\ UNCHANGED <<visit, granted, admitted, shared, accessLeft>>

(***************************************************************************)
(* validate_family_access(): the invites that live and have uses left, the *)
(* rule, and the commit of one use less than was read.  The owner's edits  *)
(* fall between.  family_login() reads the active rules and commits nothing*)
(***************************************************************************)
Holding(i) == {v \in Visitors : visit[v].pc # "idle" /\ visit[v].on = i}

MatchInvite(v, i) ==
  /\ visit[v].pc = "idle" /\ invite[i].live /\ invite[i].uses > 0
  /\ visit' = [visit EXCEPT ![v] = [pc |-> "rule", on |-> i, uses |-> invite[i].uses]]
  /\ shared' = IF Holding(i) = {} THEN shared ELSE shared \cup {i}
  /\ OnVisits /\ UNCHANGED <<invite, granted, admitted, accessLeft>>

\* refused without an active rule, by its dates and hours, or by the verification
CheckRule(v) ==
  /\ visit[v].pc = "rule"
  /\ \/ visit' = [visit EXCEPT ![v] = NoVisit]
     \/ /\ rule[invite[visit[v].on].rule].state = "active"
        /\ visit' = [visit EXCEPT ![v].pc = "commit"]
  /\ OnVisits /\ UNCHANGED <<invite, granted, admitted, shared, accessLeft>>

\* BadUseInvite and the other definitions named Bad... are faulty variants of the
\* definition that follows them, for the mutation runs only.
BadUseInvite(v) ==
  LET i == visit[v].on IN
  /\ visit[v].pc = "commit" /\ visit' = [visit EXCEPT ![v] = NoVisit]
  /\ invite' = IF invite[i].max > 1 THEN invite
               ELSE [invite EXCEPT ![i].uses = visit[v].uses - 1]
  /\ admitted' = [admitted EXCEPT ![i] = @ + 1] /\ granted' = granted \cup {invite[i].rule}
  /\ OnVisits /\ UNCHANGED <<shared, accessLeft>>

UseInvite(v) ==
  LET i == visit[v].on IN
  /\ visit[v].pc = "commit" /\ visit' = [visit EXCEPT ![v] = NoVisit]
  /\ invite' = [invite EXCEPT ![i].uses = visit[v].uses - 1]
  /\ admitted' = [admitted EXCEPT ![i] = @ + 1] /\ granted' = granted \cup {invite[i].rule}
  /\ OnVisits /\ UNCHANGED <<shared, accessLeft>>

FamilyLogin(r) ==
  /\ code # 0 /\ rule[r].state = "active" /\ granted' = granted \cup {r}
  /\ OnVisits /\ UNCHANGED <<invite, visit, admitted, shared, accessLeft>>

(***************************************************************************)
(* What a session sees: the query of list_family_assets, and the filter    *)
(* permits() that search and chat apply to single entries.                 *)
(***************************************************************************)
Unrestricted == [types |-> All, categories |-> All]
Nothing == [types |-> {}, categories |-> {}]

ResolveFamilyScope(r) ==
  IF ~Stored(r) THEN Nothing
  ELSE IF rule[r].scope.full THEN Unrestricted
  ELSE [types |-> rule[r].scope.types, categories |-> rule[r].scope.categories]

Permits(scope, e) ==
  /\ scope.types = All \/ e[1] \in scope.types
  /\ scope.categories = All \/ e[2] = NoCategory \/ e[2] \in scope.categories

ListFamilyAssets(scope) ==
  IF scope.types = {} \/ scope.categories = {} THEN {}
  ELSE {e \in Knowledge : /\ scope.types # All => e[1] \in scope.types
                          /\ scope.categories # All => e[2] \in scope.categories \cup {NoCategory}}

(***************************************************************************)
(* The family code: ensure_family_code() makes one on first use,           *)
(* regenerate_family_code() a new one; the owner is shown what was stored. *)
(***************************************************************************)
Asking == {q \in Openers : opener[q].pc = "assign"}

BadEnsureFamilyCode(q) ==
  /\ opener[q].pc = "idle" /\ Spend("code")
  /\ opener' = [opener EXCEPT ![q] = [pc |-> "assign", got |-> 0]]
  /\ contested' = (contested \/ Asking # {})
  /\ OnCode /\ UNCHANGED code

EnsureFamilyCode(q) ==
  /\ opener[q].pc = "idle" /\ Spend("code")
  /\ opener' = [opener EXCEPT ![q] = IF code # 0 THEN [pc |-> "shown", got |-> code]
                                                 ELSE [pc |-> "assign", got |-> 0]]
  /\ contested' = (contested \/ Asking # {})
  /\ OnCode /\ UNCHANGED code

RegenerateFamilyCode(q) ==
  /\ opener[q].pc = "idle" /\ Spend("code")
  /\ opener' = [opener EXCEPT ![q] = [pc |-> "assign", got |-> 0]]
  /\ contested' = TRUE /\ OnCode /\ UNCHANGED code

\* a code no other owner has, over the one that is there
AssignNewFamilyCode(q) ==
  /\ opener[q].pc = "assign" /\ code' = code + 1
  /\ opener' = [opener EXCEPT ![q] = [pc |-> "shown", got |-> code + 1]]
  /\ OnCode /\ UNCHANGED <<contested, accessLeft>>

AccessNext ==
  \/ \E r \in Rules :
       \/ \E s \in Scopes : CreateRule(r, s) \/ \E state \in {"active", "off"} : UpdateRule(r, s, state)
       \/ DeleteRule(r) \/ FamilyLogin(r)
       \/ \E i \in Invites, max \in 1..MaxUses : GenerateInvite(i, r, max)
  \/ \E i \in Invites : ExpireInvite(i)
  \/ \E v \in Visitors : (\E i \in Invites : MatchInvite(v, i)) \/ CheckRule(v) \/ UseInvite(v)
  \/ \E q \in Openers : EnsureFamilyCode(q) \/ RegenerateFamilyCode(q) \/ AssignNewFamilyCode(q)

AccessSpec == AccessInit /\ [][AccessNext]_accessVars

-----------------------------------------------------------------------------
\* An invite is used no more often than the owner allowed, and its row tells how
\* often, unless two visitors were let in with it at the same time: each of them
\* writes back one less than it had read.  Even then an invite that has let somebody
\* in never has all its uses left again.
UsesAccounted ==
  \A i \in Invites :
    /\ admitted[i] > 0 => invite[i].uses < invite[i].max
    /\ i \notin shared => admitted[i] <= invite[i].max /\ invite[i].uses = invite[i].max - admitted[i]

\* The list of assets and the filter of single entries agree for every session, but
\* for entries without a category when the rule's list of categories is empty: the
\* list has none of them and the filter lets them pass.
ScopesAgree ==
  \A r \in granted :
    LET scope == ResolveFamilyScope(r)
        allowed == {e \in Knowledge : Permits(scope, e)} IN
    /\ ListFamilyAssets(scope) \subseteq allowed
    /\ \A e \in allowed \ ListFamilyAssets(scope) : e[2] = NoCategory /\ scope.categories = {}

\* The code the owner was shown stays the one that works until a new one is asked
\* for; two first requests at once are the exception, the second replacing the code
\* the first was answered with.
CodeDurable ==
  ~contested => \A q \in Openers : opener[q].pc = "shown" => opener[q].got = code

\* What a family member is let in with, and what the session then sees.
AccessSound == UsesAccounted /\ ScopesAgree /\ CodeDurable
=============================================================================
