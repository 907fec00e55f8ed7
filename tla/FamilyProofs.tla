---------------------------- MODULE FamilyProofs ----------------------------
(***************************************************************************)
(* What the family's access, the passing of it on and the exchanges of     *)
(* messages with the replica promise, for any number of visitors, invites, *)
(* actors, messages and relatives.                                         *)
(***************************************************************************)
EXTENDS Access, Legacy, Exchange, FiniteSetTheorems, TLAPS

-----------------------------------------------------------------------------
(* Access: AccessSound for every number of visitors and invites. A visitor *)
(* under way holds an invite as it was read; an invite is used up no       *)
(* further than its maximum and the visitors that overlap allow.           *)

InviteRows == [live : BOOLEAN, rule : Rules \cup {0}, max : Nat, uses : Nat]
VisitStates == [pc : {"idle", "rule", "commit"}, on : Invites \cup {0}, uses : Nat]

VisitsType ==
  /\ invite \in [Invites -> InviteRows] /\ visit \in [Visitors -> VisitStates]
  /\ admitted \in [Invites -> Nat]

\* A visitor under way holds an invite, as it was read.
Held ==
  /\ \A i \in Invites : invite[i].uses <= invite[i].max
  /\ \A v \in Visitors : visit[v].pc # "idle" =>
       visit[v].on \in Invites /\ visit[v].uses > 0 /\ visit[v].uses <= invite[visit[v].on].max

\* Of an invite that was never shared there is one holder, who has read what it says.
Alone ==
  \A v \in Visitors : visit[v].pc # "idle" /\ visit[v].on \notin shared =>
    /\ visit[v].uses = invite[visit[v].on].uses
    /\ \A w \in Visitors : visit[w].pc # "idle" /\ visit[w].on = visit[v].on => w = v

VisitsInv == VisitsType /\ Held /\ Alone /\ UsesAccounted

\* Until a second code is asked for, the first is asked for once, when there is none.
FirstCode ==
  /\ code \in Nat /\ opener \in [Openers -> [pc : {"idle", "assign", "shown"}, got : Nat]]
  /\ \A q \in Openers : opener[q].pc = "shown" => code # 0
  /\ ~contested => \A q \in Asking : code = 0 /\ \A p \in Asking : p = q

AccessInv == VisitsInv /\ FirstCode /\ CodeDurable

-----------------------------------------------------------------------------
\* Whatever a rule allows, the list and the filter agree but for entries without a
\* category.
LEMMA ScopesDo == ScopesAgree
<1> SUFFICES ASSUME NEW scope
             PROVE  LET allowed == {e \in Knowledge : Permits(scope, e)} IN
                    /\ ListFamilyAssets(scope) \subseteq allowed
                    /\ \A e \in allowed \ ListFamilyAssets(scope) :
                         e[2] = NoCategory /\ scope.categories = {}
  BY AccessAssumption DEF ScopesAgree
<1> QED BY AccessAssumption DEF Permits, ListFamilyAssets

LEMMA AccessInitial == AccessInit => AccessInv
<1> SUFFICES ASSUME AccessInit PROVE AccessInv
  OBVIOUS
<1>1. VisitsType
  BY DEF AccessInit, VisitsType, NoInvite, NoVisit, InviteRows, VisitStates
<1>2. Held /\ Alone /\ UsesAccounted
  BY DEF AccessInit, Held, Alone, UsesAccounted, NoInvite, NoVisit
<1>3. FirstCode /\ CodeDurable
  BY DEF AccessInit, FirstCode, CodeDurable, NoOpener, Asking
<1> QED BY <1>1, <1>2, <1>3 DEF AccessInv, VisitsInv

-----------------------------------------------------------------------------
(* Invites and visitors.                                                    *)

LEMMA VisitsRest ==
  ASSUME VisitsInv, UNCHANGED <<invite, visit, admitted, shared>>
  PROVE  VisitsInv'
BY DEF VisitsInv, VisitsType, Held, Alone, UsesAccounted

LEMMA Generating ==
  ASSUME VisitsInv, NEW i \in Invites, NEW r \in Rules, NEW max \in 1..MaxUses,
         GenerateInvite(i, r, max)
  PROVE  VisitsInv'
<1> USE DEF VisitsInv
<1> DEFINE w == [live |-> TRUE, rule |-> r, max |-> max, uses |-> max]
<1>1. max \in Nat /\ max > 0
  BY AccessAssumption
<1>2. w \in InviteRows /\ w.max = max /\ w.uses = max
  BY <1>1 DEF InviteRows
<1>3. /\ invite[i] = NoInvite /\ invite' = [invite EXCEPT ![i] = w]
      /\ visit' = visit /\ admitted' = admitted /\ shared' = shared
  BY DEF GenerateInvite
<1> HIDE DEF w
<1>4. invite[i].max = 0 /\ invite[i].uses = 0
  BY <1>3 DEF NoInvite
<1>5. admitted[i] = 0 /\ \A v \in Visitors : visit[v].pc # "idle" => visit[v].on # i
  BY <1>4 DEF UsesAccounted, VisitsType, Held, VisitStates
<1>6. \A j \in Invites : invite'[j] = IF j = i THEN w ELSE invite[j]
  BY <1>3 DEF VisitsType
<1>7. VisitsType'
  BY <1>2, <1>3 DEF VisitsType
<1>8. Held' /\ Alone'
  BY <1>1, <1>2, <1>3, <1>5, <1>6 DEF Held, Alone
<1>9. UsesAccounted'
  BY <1>1, <1>2, <1>3, <1>5, <1>6 DEF UsesAccounted
<1> QED BY <1>7, <1>8, <1>9

LEMMA Expiring ==
  ASSUME VisitsInv, NEW i \in Invites, ExpireInvite(i)
  PROVE  VisitsInv'
<1> USE DEF VisitsInv
<1>1. /\ invite' = [invite EXCEPT ![i].live = FALSE]
      /\ visit' = visit /\ admitted' = admitted /\ shared' = shared
  BY DEF ExpireInvite
<1>2. /\ VisitsType'
      /\ \A j \in Invites : invite'[j].max = invite[j].max /\ invite'[j].uses = invite[j].uses
  BY <1>1 DEF VisitsType, InviteRows
<1> QED BY <1>1, <1>2 DEF Held, Alone, UsesAccounted

LEMMA Matching ==
  ASSUME VisitsInv, NEW v \in Visitors, NEW i \in Invites, MatchInvite(v, i)
  PROVE  VisitsInv'
<1> USE DEF VisitsInv
<1> DEFINE w == [pc |-> "rule", on |-> i, uses |-> invite[i].uses]
<1>1. invite[i].uses \in Nat /\ invite[i].uses > 0
  BY DEF MatchInvite, VisitsType, InviteRows
<1>2. w \in VisitStates /\ w.pc = "rule" /\ w.on = i /\ w.uses = invite[i].uses
  BY <1>1 DEF VisitStates
<1>3. /\ visit' = [visit EXCEPT ![v] = w] /\ visit[v].pc = "idle"
      /\ shared' = IF Holding(i) = {} THEN shared ELSE shared \cup {i}
      /\ invite' = invite /\ admitted' = admitted
  BY DEF MatchInvite
<1> HIDE DEF w
<1>4. \A u \in Visitors : visit'[u] = IF u = v THEN w ELSE visit[u]
  BY <1>3 DEF VisitsType
<1>5. VisitsType'
  BY <1>2, <1>3 DEF VisitsType
<1>6. Held'
  BY <1>1, <1>2, <1>3, <1>4 DEF Held
<1>7. i \notin shared' => \A u \in Visitors : visit[u].pc # "idle" => visit[u].on # i
  BY <1>3 DEF Holding
<1>8. Alone'
  BY <1>2, <1>3, <1>4, <1>7 DEF Alone
<1>9. UsesAccounted'
  BY <1>3 DEF UsesAccounted
<1> QED BY <1>5, <1>6, <1>8, <1>9

LEMMA Checking ==
  ASSUME VisitsInv, NEW v \in Visitors, CheckRule(v)
  PROVE  VisitsInv'
<1> USE DEF VisitsInv
<1> DEFINE w == visit'[v]
<1>1. visit[v].pc = "rule" /\ UNCHANGED <<invite, admitted, shared>>
  BY DEF CheckRule
<1>2. NoVisit \in VisitStates /\ NoVisit.pc = "idle"
  BY DEF NoVisit, VisitStates
<1>3. /\ visit' \in [Visitors -> VisitStates]
      /\ \A u \in Visitors : visit'[u].pc # "idle" =>
           /\ visit[u].pc # "idle" /\ visit'[u].on = visit[u].on /\ visit'[u].uses = visit[u].uses
  <2>1. CASE visit' = [visit EXCEPT ![v] = NoVisit]
    BY <1>2, <2>1 DEF VisitsType
  <2>2. CASE visit' = [visit EXCEPT ![v].pc = "commit"]
    BY <1>1, <2>2 DEF VisitsType, VisitStates
  <2> QED BY <2>1, <2>2 DEF CheckRule
<1>4. VisitsType' /\ UsesAccounted'
  BY <1>1, <1>3 DEF VisitsType, UsesAccounted
<1>5. Held' /\ Alone'
  BY <1>1, <1>3 DEF Held, Alone
<1> QED BY <1>4, <1>5

\* Each visitor writes back one use less than it had read.
LEMMA Using ==
  ASSUME VisitsInv, NEW v \in Visitors, UseInvite(v)
  PROVE  VisitsInv'
<1> USE DEF VisitsInv
<1> DEFINE i == visit[v].on
           n == visit[v].uses - 1
<1>1. /\ visit[v].pc = "commit" /\ visit' = [visit EXCEPT ![v] = NoVisit]
      /\ invite' = [invite EXCEPT ![i].uses = n]
      /\ admitted' = [admitted EXCEPT ![i] = @ + 1] /\ shared' = shared
  BY DEF UseInvite
<1>2. i \in Invites /\ n \in Nat /\ n < invite[i].max /\ invite[i].max \in Nat
  BY <1>1 DEF Held, VisitsType, VisitStates, InviteRows
<1>3. NoVisit \in VisitStates /\ NoVisit.pc = "idle"
  BY DEF NoVisit, VisitStates
<1>4. i \notin shared =>
        /\ n = invite[i].uses - 1 /\ invite[i].uses > 0
        /\ \A u \in Visitors : visit[u].pc # "idle" /\ visit[u].on = i => u = v
  BY <1>1 DEF Alone, Held
<1> HIDE DEF n
<1>5. /\ \A j \in Invites : /\ invite'[j].max = invite[j].max
                            /\ invite'[j].uses = IF j = i THEN n ELSE invite[j].uses
                            /\ admitted'[j] = IF j = i THEN admitted[j] + 1 ELSE admitted[j]
      /\ \A u \in Visitors : visit'[u] = IF u = v THEN NoVisit ELSE visit[u]
  BY <1>1, <1>2 DEF VisitsType, InviteRows
<1>6. VisitsType'
  BY <1>1, <1>2, <1>3 DEF VisitsType, InviteRows
<1>7. Held'
  BY <1>1, <1>2, <1>3, <1>5 DEF Held
<1>8. Alone'
  BY <1>1, <1>2, <1>3, <1>4, <1>5 DEF Alone, Held
<1>9. UsesAccounted'
  <2> SUFFICES ASSUME NEW j \in Invites
               PROVE  /\ admitted'[j] > 0 => invite'[j].uses < invite'[j].max
                      /\ j \notin shared' => /\ admitted'[j] <= invite'[j].max
                                             /\ invite'[j].uses = invite'[j].max - admitted'[j]
    BY DEF UsesAccounted
  <2>1. /\ admitted[j] \in Nat /\ invite[j].max \in Nat /\ invite[j].uses \in Nat
        /\ admitted[j] > 0 => invite[j].uses < invite[j].max
        /\ j \notin shared => admitted[j] <= invite[j].max /\ invite[j].uses = invite[j].max - admitted[j]
    BY DEF UsesAccounted, VisitsType, InviteRows
  <2> QED BY <1>1, <1>2, <1>4, <1>5, <2>1
<1> QED BY <1>6, <1>7, <1>8, <1>9

-----------------------------------------------------------------------------
(* The family code.                                                         *)

LEMMA CodeRests ==
  ASSUME FirstCode, CodeDurable, UNCHANGED <<code, opener, contested>>
  PROVE  FirstCode' /\ CodeDurable'
BY DEF FirstCode, CodeDurable, Asking

LEMMA CodeSteps ==
  ASSUME FirstCode, CodeDurable, NEW q \in Openers,
         EnsureFamilyCode(q) \/ RegenerateFamilyCode(q) \/ AssignNewFamilyCode(q)
  PROVE  FirstCode' /\ CodeDurable'
<1>1. CASE EnsureFamilyCode(q)
  <2> DEFINE w == IF code # 0 THEN [pc |-> "shown", got |-> code] ELSE [pc |-> "assign", got |-> 0]
  <2>1. /\ opener[q].pc = "idle" /\ opener' = [opener EXCEPT ![q] = w] /\ code' = code
        /\ contested' = (contested \/ Asking # {})
    BY <1>1 DEF EnsureFamilyCode
  <2>2. /\ w \in [pc : {"idle", "assign", "shown"}, got : Nat]
        /\ w.pc = IF code # 0 THEN "shown" ELSE "assign"
        /\ w.pc = "shown" => w.got = code
    BY DEF FirstCode
  <2> HIDE DEF w
  <2>3. \A p \in Openers : opener'[p] = IF p = q THEN w ELSE opener[p]
    BY <2>1 DEF FirstCode
  <2>4. ~contested' => ~contested /\ \A p \in Openers : opener[p].pc # "assign"
    BY <2>1 DEF Asking
  <2> QED BY <2>1, <2>2, <2>3, <2>4 DEF FirstCode, CodeDurable, Asking
<1>2. CASE RegenerateFamilyCode(q)
  <2> DEFINE w == [pc |-> "assign", got |-> 0]
  <2>1. opener' = [opener EXCEPT ![q] = w] /\ code' = code /\ contested'
    BY <1>2 DEF RegenerateFamilyCode
  <2>2. w \in [pc : {"idle", "assign", "shown"}, got : Nat] /\ w.pc = "assign"
    OBVIOUS
  <2> HIDE DEF w
  <2> QED BY <2>1, <2>2 DEF FirstCode, CodeDurable
<1>3. CASE AssignNewFamilyCode(q)
  <2> DEFINE w == [pc |-> "shown", got |-> code + 1]
  <2>1. /\ opener[q].pc = "assign" /\ opener' = [opener EXCEPT ![q] = w] /\ code' = code + 1
        /\ contested' = contested
    BY <1>3 DEF AssignNewFamilyCode
  <2>2. /\ w \in [pc : {"idle", "assign", "shown"}, got : Nat] /\ w.pc = "shown"
        /\ w.got = code + 1 /\ code \in Nat
    BY DEF FirstCode
  <2> HIDE DEF w
  <2>3. \A p \in Openers : opener'[p] = IF p = q THEN w ELSE opener[p]
    BY <2>1 DEF FirstCode
  <2>4. ~contested => \A p \in Openers \ {q} : opener[p].pc = "idle"
    BY <2>1 DEF FirstCode, Asking
  <2> QED BY <2>1, <2>2, <2>3, <2>4 DEF FirstCode, CodeDurable, Asking
<1> QED BY <1>1, <1>2, <1>3

LEMMA AccessStep == AccessInv /\ [AccessNext]_accessVars => AccessInv'
<1> SUFFICES ASSUME AccessInv, [AccessNext]_accessVars PROVE AccessInv'
  OBVIOUS
<1> USE DEF AccessInv
<1>1. ASSUME NEW r \in Rules,
             \/ \E s \in Scopes : CreateRule(r, s) \/ \E state \in {"active", "off"} : UpdateRule(r, s, state)
             \/ DeleteRule(r) \/ FamilyLogin(r)
      PROVE  AccessInv'
  BY <1>1, VisitsRest, CodeRests
     DEF CreateRule, UpdateRule, DeleteRule, FamilyLogin, OnRules, OnVisits
<1>2. ASSUME NEW r \in Rules, NEW i \in Invites, NEW max \in 1..MaxUses, GenerateInvite(i, r, max)
      PROVE  AccessInv'
  BY <1>2, Generating, CodeRests DEF GenerateInvite, OnVisits
<1>3. ASSUME NEW i \in Invites, ExpireInvite(i) PROVE AccessInv'
  BY <1>3, Expiring, CodeRests DEF ExpireInvite, OnVisits
<1>4. ASSUME NEW v \in Visitors, NEW i \in Invites, MatchInvite(v, i) PROVE AccessInv'
  BY <1>4, Matching, CodeRests DEF MatchInvite, OnVisits
<1>5. ASSUME NEW v \in Visitors, CheckRule(v) PROVE AccessInv'
  BY <1>5, Checking, CodeRests DEF CheckRule, OnVisits
<1>6. ASSUME NEW v \in Visitors, UseInvite(v) PROVE AccessInv'
  BY <1>6, Using, CodeRests DEF UseInvite, OnVisits
<1>7. ASSUME NEW q \in Openers,
             EnsureFamilyCode(q) \/ RegenerateFamilyCode(q) \/ AssignNewFamilyCode(q)
      PROVE  AccessInv'
  BY <1>7, CodeSteps, VisitsRest
     DEF EnsureFamilyCode, RegenerateFamilyCode, AssignNewFamilyCode, OnCode
<1>8. CASE UNCHANGED accessVars
  BY <1>8, VisitsRest, CodeRests DEF accessVars
<1> QED BY <1>1, <1>2, <1>3, <1>4, <1>5, <1>6, <1>7, <1>8 DEF AccessNext

\* For any number of rules, invites and visitors: uses are accounted for, what a session is
\* listed is what it may see, and the first code lasts.
THEOREM AccessIsSound == AccessSpec => []AccessSound
<1>1. AccessInv => AccessSound
  BY ScopesDo DEF AccessInv, VisitsInv, AccessSound
<1> QED BY <1>1, AccessInitial, AccessStep, PTL DEF AccessSpec

-----------------------------------------------------------------------------
(* Legacy: ActivatedUntouched and ActivationKept for any number of actors  *)
(* and days.                                                               *)

LegacyType ==
  /\ day \in Nat /\ edited \subseteq 0..day
  /\ actor \in [Actors -> [pc : {"idle", "owner", "commit"}, now : Nat]]
  /\ config \in [there : BOOLEAN, trigger : {"manual", "inactivity", "trusted_person"},
                 active : BOOLEAN, at : Nat, by : {"nobody", "pass", "owner"}, saves : Nat]

\* The owner's row has a last day it was written, and nothing is dated ahead of time.
Dated ==
  /\ \E d \in edited : \A e \in edited : e <= d
  /\ config.at <= day /\ \A a \in Actors : actor[a].now <= day

\* What the pass has found holds until it commits, whatever the owner does meanwhile.
StillUntouched ==
  actor[Pass].pc = "commit" =>
    \A e \in edited : e < actor[Pass].now - Days \/ e >= actor[Pass].now

\* Nobody begins once the mode is active.
EarlyOnes == config.active => \A a \in Actors : actor[a].pc # "idle" => a \in early

LegacyInv == LegacyType /\ Dated /\ StillUntouched /\ EarlyOnes /\ ActivatedUntouched

-----------------------------------------------------------------------------
LEMMA LastWritten ==
  ASSUME LegacyType, Dated
  PROVE  UpdatedAt \in edited /\ \A e \in edited : e <= UpdatedAt
BY DEF Dated, UpdatedAt

LEMMA LegacyInitial == LegacyInit => LegacyInv
<1> SUFFICES ASSUME LegacyInit PROVE LegacyInv
  OBVIOUS
<1>1. LegacyType
  BY DEF LegacyInit, LegacyType, NoConfig
<1>2. Dated
  BY DEF LegacyInit, Dated, NoConfig
<1>3. StillUntouched /\ EarlyOnes /\ ActivatedUntouched
  BY DEF LegacyInit, StillUntouched, EarlyOnes, ActivatedUntouched, NoConfig, Actors
<1> QED BY <1>1, <1>2, <1>3 DEF LegacyInv

LEMMA LegacyStep == LegacyInv /\ [LegacyNext]_legacyVars => LegacyInv'
<1> SUFFICES ASSUME LegacyInv, [LegacyNext]_legacyVars PROVE LegacyInv'
  OBVIOUS
<1> USE DEF LegacyInv
<1>0. Pass \in Actors /\ Days \in Nat
  BY LegacyAssumption DEF Actors
<1>1. CASE NextDay
  BY <1>0, <1>1 DEF NextDay, LegacyType, Dated, StillUntouched, EarlyOnes, ActivatedUntouched
<1>2. CASE EditOwner
  <2>1. LegacyType'
    BY <1>2 DEF EditOwner, LegacyType
  <2>2. Dated'
    BY <1>2 DEF EditOwner, LegacyType, Dated
  <2>3. StillUntouched'
    BY <1>0, <1>2 DEF EditOwner, LegacyType, Dated, StillUntouched
  <2>4. EarlyOnes' /\ ActivatedUntouched'
    BY <1>2 DEF EditOwner, LegacyType, Dated, EarlyOnes, ActivatedUntouched
  <2> QED BY <2>1, <2>2, <2>3, <2>4
<1>3. CASE Speak
  BY <1>3 DEF Speak, LegacyType, Dated, StillUntouched, EarlyOnes, ActivatedUntouched
<1>4. ASSUME NEW trigger \in {"manual", "inactivity", "trusted_person"}, ConfigureLegacy(trigger)
      PROVE  LegacyInv'
  <2> DEFINE n == config.saves + 1
  <2>1. /\ config' = [config EXCEPT !.there = TRUE, !.trigger = trigger, !.saves = n]
        /\ day' = day /\ edited' = edited /\ actor' = actor /\ early' = early
    BY <1>4 DEF ConfigureLegacy
  <2>3. n \in Nat
    BY DEF LegacyType
  <2> HIDE DEF n
  <2>2. /\ config'.at = config.at /\ config'.by = config.by /\ config'.active = config.active
        /\ config' \in [there : BOOLEAN, trigger : {"manual", "inactivity", "trusted_person"},
                       active : BOOLEAN, at : Nat, by : {"nobody", "pass", "owner"}, saves : Nat]
    BY Zenon, <2>1, <2>3 DEF LegacyType
  <2>4. LegacyType'
    BY <2>1, <2>2 DEF LegacyType
  <2> QED BY <2>1, <2>2, <2>4 DEF Dated, StillUntouched, EarlyOnes, ActivatedUntouched
\* an actor begins, or the pass reads the owner's row
<1>5. ASSUME NEW a \in Actors, NEW w \in [pc : {"idle", "owner", "commit"}, now : Nat],
             actor' = [actor EXCEPT ![a] = w], w.now <= day, w.pc # "idle" => ~config.active \/ actor[a].pc # "idle",
             a = Pass /\ w.pc = "commit" => \A e \in edited : e < w.now - Days,
             UNCHANGED <<day, config, edited, spoke, early>>
      PROVE  LegacyInv'
  <2>1. LegacyType'
    BY <1>5 DEF LegacyType
  <2>2. \A b \in Actors : actor'[b] = IF b = a THEN w ELSE actor[b]
    BY <1>5 DEF LegacyType
  <2>3. Dated' /\ EarlyOnes' /\ ActivatedUntouched'
    BY <1>5, <2>2 DEF Dated, EarlyOnes, ActivatedUntouched
  <2>4. StillUntouched'
    BY <1>0, <1>5, <2>2 DEF StillUntouched
  <2> QED BY <2>1, <2>3, <2>4
<1>6. ASSUME NEW a \in Activators, BeginActivate(a) PROVE LegacyInv'
  <2> DEFINE w == [pc |-> "commit", now |-> day]
  <2>1. a \in Actors /\ a # Pass
    BY LegacyAssumption DEF Actors
  <2>2. w \in [pc : {"idle", "owner", "commit"}, now : Nat] /\ w.now <= day
    BY DEF LegacyType
  <2>3. actor' = [actor EXCEPT ![a] = w] /\ ~config.active
        /\ UNCHANGED <<day, config, edited, spoke, early>>
    BY <1>6 DEF BeginActivate, Begin
  <2> QED BY <1>5, <2>1, <2>2, <2>3
<1>7. CASE BeginPass
  <2> DEFINE w == [pc |-> "owner", now |-> day]
  <2>1. w \in [pc : {"idle", "owner", "commit"}, now : Nat] /\ w.now <= day /\ w.pc = "owner"
    BY DEF LegacyType
  <2>2. actor' = [actor EXCEPT ![Pass] = w] /\ ~config.active
        /\ UNCHANGED <<day, config, edited, spoke, early>>
    BY <1>7 DEF BeginPass, Begin
  <2> HIDE DEF w
  <2> QED BY <1>0, <1>5, <2>1, <2>2
<1>8. CASE ReadOwner
  <2> DEFINE pc == IF UpdatedAt < actor[Pass].now - Days THEN "commit" ELSE "idle"
             w == [actor[Pass] EXCEPT !.pc = pc]
  <2>1. actor' = [actor EXCEPT ![Pass] = w] /\ actor[Pass].pc = "owner"
        /\ UNCHANGED <<day, config, edited, spoke, early>>
    BY <1>8 DEF ReadOwner
  <2>2. actor[Pass] \in [pc : {"idle", "owner", "commit"}, now : Nat] /\ actor[Pass].now <= day
    BY <1>0 DEF LegacyType, Dated
  <2>3. w \in [pc : {"idle", "owner", "commit"}, now : Nat] /\ w.now = actor[Pass].now /\ w.pc = pc
    BY <2>2
  <2>4. pc = "commit" => \A e \in edited : e < actor[Pass].now - Days
    <3>1. \A e \in edited : e \in Int
      BY DEF LegacyType
    <3> QED BY <1>0, <2>2, <3>1, LastWritten
  <2> HIDE DEF w, pc
  <2> QED BY <1>0, <1>5, <2>1, <2>2, <2>3, <2>4
\* an actor ends: its commit, or not
<1>9. ASSUME NEW a \in Actors, Activate(a) PROVE LegacyInv'
  <2> DEFINE at == IF a = Pass THEN actor[a].now ELSE day
             by == IF a = Pass THEN "pass" ELSE "owner"
  <2>1. /\ actor[a].pc = "commit" /\ actor' = [actor EXCEPT ![a].pc = "idle"]
        /\ config' = [config EXCEPT !.active = TRUE, !.at = at, !.by = by]
        /\ day' = day /\ edited' = edited
        /\ early' = IF config.active THEN early \ {a}
                    ELSE {b \in Actors \ {a} : actor[b].pc # "idle"}
    BY <1>9 DEF Activate
  <2>2. at \in Nat /\ at <= day /\ by \in {"pass", "owner"} /\ (by = "pass" <=> a = Pass)
    BY DEF LegacyType, Dated
  <2> HIDE DEF at, by
  <2>3. LegacyType' /\ config'.at = at /\ config'.by = by /\ config'.active
    BY <2>1, <2>2 DEF LegacyType
  <2>4. \A b \in Actors : /\ actor'[b].now = actor[b].now
                          /\ actor'[b].pc = IF b = a THEN "idle" ELSE actor[b].pc
    BY <2>1 DEF LegacyType
  <2>5. Dated' /\ StillUntouched'
    BY <1>0, <2>1, <2>2, <2>3, <2>4 DEF Dated, StillUntouched
  <2>6. EarlyOnes'
    BY <2>1, <2>3, <2>4 DEF EarlyOnes
  <2>7. ActivatedUntouched'
    BY <1>0, <2>1, <2>2, <2>3 DEF StillUntouched, ActivatedUntouched, at
  <2> QED BY <2>3, <2>5, <2>6, <2>7
<1>10. ASSUME NEW a \in Actors, Abandon(a) PROVE LegacyInv'
  <2>1. /\ actor' = [actor EXCEPT ![a].pc = "idle"] /\ early' = early \ {a}
        /\ day' = day /\ edited' = edited /\ config' = config
    BY <1>10 DEF Abandon
  <2>2. \A b \in Actors : /\ actor'[b].now = actor[b].now
                          /\ actor'[b].pc = IF b = a THEN "idle" ELSE actor[b].pc
    BY <2>1 DEF LegacyType
  <2>3. LegacyType'
    BY <2>1 DEF LegacyType
  <2> QED BY <1>0, <2>1, <2>2, <2>3 DEF Dated, StillUntouched, EarlyOnes, ActivatedUntouched
<1>11. CASE UNCHANGED legacyVars
  BY <1>11 DEF legacyVars, LegacyType, Dated, StillUntouched, EarlyOnes, ActivatedUntouched
<1> QED BY <1>1, <1>2, <1>3, <1>4, <1>6, <1>7, <1>8, <1>9, <1>10, <1>11 DEF LegacyNext

\* Whatever the number of days and of requests, the pass activates the mode only for an
\* owner whose row had not been written for Days when the pass began.
THEOREM ActivationIsUntouched == LegacySpec => []ActivatedUntouched
BY LegacyInitial, LegacyStep, PTL DEF LegacySpec, LegacyInv

KeepsActivation ==
  config.active /\ config'.at # config.at =>
    \E a \in early : actor[a].pc = "commit" /\ actor'[a].pc = "idle"

\* The day the mode began is written again only by those who were under way then.
THEOREM ActivationIsKept == LegacySpec => ActivationKept
<1>1. ASSUME LegacyInv, [LegacyNext]_legacyVars PROVE [KeepsActivation]_legacyVars
  <2> USE DEF LegacyInv
  <2>1. ASSUME NEW a \in Actors, Activate(a) PROVE KeepsActivation
    <3>1. actor[a].pc = "commit" /\ actor'[a].pc = "idle"
      BY <1>1, <2>1 DEF Activate, LegacyType
    <3> QED BY <1>1, <3>1 DEF KeepsActivation, EarlyOnes
  <2>2. ASSUME config'.at = config.at PROVE KeepsActivation
    BY <2>2 DEF KeepsActivation
  <2>3. ASSUME NEW trigger, ConfigureLegacy(trigger) PROVE config'.at = config.at
    BY <1>1, <2>3 DEF ConfigureLegacy, LegacyType
  <2> QED BY <1>1, <2>1, <2>2, <2>3
       DEF LegacyNext, legacyVars, NextDay, EditOwner, Speak, BeginPass, ReadOwner,
           BeginActivate, Abandon
<1> QED BY <1>1, LegacyInitial, LegacyStep, PTL DEF LegacySpec, ActivationKept, KeepsActivation

-----------------------------------------------------------------------------
(* Exchange: ExchangeSound for every number of messages and relatives, of  *)
(* failures and of attempts. Messages share nothing but the services and   *)
(* the session of their thread, so the invariant is the story of each:     *)
(* what its handler has in its transaction, has committed and has embedded *)
(* when it is where it is (Stage, UnderWay), what the client was told when *)
(* it ended (Outcome), and how long the session lives (Noted).             *)

Texts == {"answer", "part", "apology", "empty"}
Ends == Texts \cup {"refusal"}
TurnPcs == {"idle", "ingest", "learning", "announce", "context", "search", "generate", "commit",
            "track", "reply"}
Turns == [pc : TurnPcs, via : {"rest"} \cup Streamed \cup Family, who : Relatives \cup {"owner"},
          tries : Nat, entry : Nat, got : BOOLEAN, pending : SUBSET ({"question"} \cup Texts)]
Kept == [of : Messages, what : {"question"} \cup Ends, at : Nat]

ExchangeType ==
  /\ up \subseteq Services /\ turn \in [Messages -> Turns] /\ history \subseteq Kept
  /\ vectors \subseteq Messages \X Nat /\ entries \subseteq vectors
  /\ session \in [Relatives -> Nat] /\ clock \in Nat
  /\ told \in [Messages -> {"nothing", "unavailable", "error"} \cup Ends]
  /\ learned \subseteq Messages /\ cause \in [Messages -> SUBSET (Services \cup {"network"})]
  /\ asked \subseteq Messages \X Relatives /\ untracked \subseteq Messages
  /\ exchangeLeft \in [{"outage", "lost", "tick"} -> Nat]

Made(m) == {w \in vectors : w[1] = m}
Named(m) == {e \in entries : e[1] = m}
Explains(m, x) == x \in Texts \ {"answer"} => cause[m] # {}

\* What a handler that has not asked the model to the end has of the exchange in its
\* transaction, and what it has committed.
Unanswered(m) ==
  \/ turn[m].via # "familyws" /\ StoredOf(m) = {} /\ turn[m].pending = {"question"}
  \/ turn[m].via = "familyws" /\ StoredOf(m) = {"question"} /\ turn[m].pending = {}

Answered(m) ==
  \E x \in Texts :
    /\ Explains(m, x)
    /\ \/ /\ turn[m].via # "familyws" /\ StoredOf(m) = {}
          /\ turn[m].pending = {"question", x}
       \/ turn[m].via = "familyws" /\ StoredOf(m) = {"question"} /\ turn[m].pending = {x}

Complete(m) == \E x \in Ends : Explains(m, x) /\ StoredOf(m) = {"question", x}

Stage(m) ==
  /\ turn[m].pc = "ingest" =>
       /\ StoredOf(m) = {} /\ turn[m].pending = {"question"} /\ turn[m].via \notin Family
       /\ turn[m].entry = 0 /\ m \notin learned /\ \A w \in Made(m) : w[2] <= turn[m].tries
  /\ turn[m].pc = "learning" => turn[m].via = "ws" /\ turn[m].entry # 0 /\ Unanswered(m)
  /\ turn[m].pc = "announce" => turn[m].via = "familyws" /\ StoredOf(m) = {}
  /\ turn[m].pc \in {"context", "search", "generate"} => Unanswered(m)
  /\ turn[m].pc = "commit" => Answered(m)
  /\ turn[m].pc = "track" =>
       turn[m].via \in Family /\ (Complete(m) \/ (turn[m].via = "familyws" /\ Unanswered(m)))
  /\ turn[m].pc = "reply" => Complete(m) /\ (m \in learned => Named(m) # {})

\* A handler under way, whatever it does.
UnderWay(m) ==
  turn[m].pc # "idle" =>
    /\ told[m] = "nothing"
    /\ turn[m].via \in Family => turn[m].who \in Relatives /\ turn[m].entry = 0
    /\ \A v \in Relatives : <<m, v>> \in asked => turn[m].via \in Family /\ turn[m].who = v
    /\ turn[m].entry # 0 =>
         <<m, turn[m].entry>> \in vectors /\ \A w \in Made(m) : w[2] <= turn[m].entry
    /\ m \in learned => turn[m].via = "ws" /\ turn[m].entry # 0

\* What the client was told when it ended.
Outcome(m) ==
  turn[m].pc = "idle" =>
    /\ told[m] = "nothing" => /\ StoredOf(m) = {} /\ Made(m) = {} /\ m \notin learned
                              /\ \A v \in Relatives : <<m, v>> \notin asked
    /\ told[m] = "unavailable" => StoredOf(m) = {} /\ cause[m] # {}
    /\ told[m] \in Ends => StoredOf(m) = {"question", told[m]} /\ Explains(m, told[m])
    /\ told[m] = "error" => StoredOf(m) \in {{}, {"question"}} \/ Complete(m)
    /\ told[m] # "error" /\ m \in learned => Named(m) # {}

\* The row of a message is written with its answer, and names the last of its vectors.
OneRow(m) ==
  /\ Named(m) # {} => turn[m].pc \in {"reply", "idle"} /\ "question" \in StoredOf(m)
  /\ \A e \in Named(m), w \in Made(m) : w[2] <= e[2]

\* The key of the session outlives every message of it by SessionTtl.
Noted(m) ==
  m \in untracked \/ turn[m].pc = "track" \/
    \A h \in history : h.of = m /\ h.what \in {"question", "refusal"} =>
      \A v \in Relatives : <<m, v>> \in asked => session[v] >= h.at + SessionTtl

Story(m) == Stage(m) /\ UnderWay(m) /\ Outcome(m) /\ OneRow(m) /\ Noted(m)

ExchangeInv ==
  /\ ExchangeType /\ \A h \in history : h.at <= clock
  /\ \A v \in Relatives : session[v] <= clock + SessionTtl
  /\ \A m \in Messages : Story(m)

Heard(m) == {h \in history : h.of = m}

\* A step leaves a message alone.
SameFor(q) ==
  /\ turn'[q] = turn[q] /\ told'[q] = told[q] /\ cause'[q] = cause[q]
  /\ Heard(q)' = Heard(q) /\ Made(q)' = Made(q) /\ Named(q)' = Named(q)
  /\ q \in learned' <=> q \in learned
  /\ q \in untracked => q \in untracked'
  /\ \A v \in Relatives : <<q, v>> \in asked' <=> <<q, v>> \in asked

LEMMA StoredIs == \A m : StoredOf(m) = {h.what : h \in Heard(m)}
BY DEF StoredOf, Heard

LEMMA SameStory ==
  ASSUME ExchangeInv, ExchangeType', NEW q \in Messages, SameFor(q),
         \A v \in Relatives : session'[v] >= session[v]
  PROVE  Story(q)'
<1>1. StoredOf(q)' = StoredOf(q)
  BY DEF SameFor, StoredOf, Heard
<1>2. Story(q)
  BY DEF ExchangeInv
<1>3. (Complete(q)' <=> Complete(q)) /\ (Unanswered(q)' <=> Unanswered(q))
      /\ (Answered(q)' <=> Answered(q))
  BY <1>1 DEF SameFor, Complete, Unanswered, Answered, Explains
<1>4. Stage(q)'
  BY <1>1, <1>2, <1>3 DEF SameFor, Story, Stage
<1>5. UnderWay(q)'
  <2>1. \A e \in Nat : <<q, e>> \in vectors => <<q, e>> \in vectors'
    <3> SUFFICES ASSUME NEW e \in Nat, <<q, e>> \in vectors PROVE <<q, e>> \in vectors'
      OBVIOUS
    <3>1. <<q, e>> \in Made(q)
      BY DEF Made
    <3>2. <<q, e>> \in Made(q)'
      BY <3>1 DEF SameFor
    <3> QED BY <3>2 DEF Made
  <2>2. turn[q].entry \in Nat
    BY DEF ExchangeInv, ExchangeType, Turns
  <2> QED BY <1>2, <2>1, <2>2 DEF SameFor, Story, UnderWay
<1>6. Outcome(q)'
  BY <1>1, <1>2, <1>3 DEF SameFor, Story, Outcome, Explains
<1>7. OneRow(q)'
  BY <1>1, <1>2 DEF SameFor, Story, OneRow
<1>8. Noted(q)'
  <2>1. \A h : h \in history' /\ h.of = q => h \in history
    BY DEF SameFor, Heard
  <2>2. \A v \in Relatives : session[v] \in Nat /\ session'[v] \in Nat
    BY DEF ExchangeInv, ExchangeType
  <2>3. \A h \in history : h.at + SessionTtl \in Nat
    BY ExchangeAssumption DEF ExchangeInv, ExchangeType, Kept
  <2>4. SUFFICES ASSUME ~(q \in untracked' \/ turn'[q].pc = "track"),
                        NEW h \in history', h.of = q, h.what \in {"question", "refusal"},
                        NEW v \in Relatives, <<q, v>> \in asked'
                 PROVE  session'[v] >= h.at + SessionTtl
    BY DEF Noted
  <2>5. h \in history /\ <<q, v>> \in asked /\ ~(q \in untracked \/ turn[q].pc = "track")
    BY <2>1, <2>4 DEF SameFor
  <2>6. session[v] >= h.at + SessionTtl
    BY <1>2, <2>4, <2>5 DEF Story, Noted
  <2> QED BY <2>2, <2>3, <2>5, <2>6
<1> QED BY <1>4, <1>5, <1>6, <1>7, <1>8 DEF Story

LEMMA StoriesKept ==
  ASSUME ExchangeInv, ExchangeType', \A h \in history' : h.at <= clock',
         \A v \in Relatives : session'[v] >= session[v] /\ session'[v] <= clock' + SessionTtl,
         \A q \in Messages : SameFor(q) \/ Story(q)'
  PROVE  ExchangeInv'
<1>1. \A q \in Messages : Story(q)'
  BY SameStory
<1> QED BY <1>1 DEF ExchangeInv

\* Only the handler of m moves, and nothing is stored.
MovesAlone(m) ==
  /\ UNCHANGED <<history, vectors, entries, session, clock, asked>>
  /\ \A q \in Messages \ {m} : told'[q] = told[q] /\ cause'[q] = cause[q]
  /\ \A q \in Messages \ {m} : q \in learned' <=> q \in learned
  /\ untracked \subseteq untracked'

LEMMA AloneKeeps ==
  ASSUME ExchangeInv, ExchangeType', NEW m \in Messages, MovesAlone(m),
         NEW w, turn' = [turn EXCEPT ![m] = w], Story(m)'
  PROVE  ExchangeInv'
<1>1. ASSUME NEW q \in Messages, q # m PROVE SameFor(q)
  BY <1>1 DEF MovesAlone, SameFor, Heard, Made, Named, ExchangeInv, ExchangeType
<1>2. \A v \in Relatives : session'[v] >= session[v] /\ session'[v] <= clock' + SessionTtl
  BY DEF MovesAlone, ExchangeInv, ExchangeType
<1>3. \A h \in history' : h.at <= clock'
  BY DEF MovesAlone, ExchangeInv
<1> QED BY <1>1, <1>2, <1>3, StoriesKept

\* What is stored of a message stays what it is, as do its vectors and its row.
LEMMA AloneStores ==
  ASSUME NEW m, MovesAlone(m)
  PROVE  /\ StoredOf(m)' = StoredOf(m) /\ Made(m)' = Made(m) /\ Named(m)' = Named(m)
         /\ vectors' = vectors /\ asked' = asked /\ session' = session /\ history' = history
BY DEF MovesAlone, StoredOf, Made, Named

-----------------------------------------------------------------------------
(* How a handler goes on.                                                   *)

Moved(m, w, pc, tries, entry, pending) ==
  /\ turn' = [turn EXCEPT ![m] = w] /\ w.pc = pc /\ w.tries = tries /\ w.entry = entry
  /\ w.pending = pending /\ w.via = turn[m].via /\ w.who = turn[m].who

LEMMA MovedIs ==
  ASSUME NEW m \in Messages, ExchangeType, NEW w, NEW pc, NEW tries, NEW entry, NEW pending,
         Moved(m, w, pc, tries, entry, pending)
  PROVE  /\ turn'[m] = w /\ turn'[m].pc = pc /\ turn'[m].tries = tries
         /\ turn'[m].entry = entry /\ turn'[m].pending = pending
         /\ turn'[m].via = turn[m].via /\ turn'[m].who = turn[m].who
         /\ turn[m] \in Turns
         /\ w \in Turns => turn' \in [Messages -> Turns]
         /\ turn' = [turn EXCEPT ![m] = w]
BY DEF Moved, ExchangeType

\* Its parts, one by one, are of their types.
LEMMA TurnIs ==
  ASSUME NEW m \in Messages, ExchangeType
  PROVE  /\ turn[m] \in Turns /\ turn[m].pc \in TurnPcs /\ turn[m].tries \in Nat
         /\ turn[m].entry \in Nat /\ turn[m].got \in BOOLEAN
         /\ turn[m].pending \in SUBSET ({"question"} \cup Texts)
BY DEF ExchangeType, Turns

LEMMA MovesOn ==
  ASSUME NEW m \in Messages, ExchangeType, NEW pc \in TurnPcs,
         turn' = [turn EXCEPT ![m].pc = pc]
  PROVE  \E w \in Turns : Moved(m, w, pc, turn[m].tries, turn[m].entry, turn[m].pending)
<1> DEFINE c == turn[m]
           w == [c EXCEPT !.pc = pc]
<1>1. turn' = [turn EXCEPT ![m] = w]
  BY Zenon DEF ExchangeType
<1>2. c \in Turns
  BY TurnIs
<1> HIDE DEF c
<1>3. /\ w \in Turns /\ w.pc = pc /\ w.tries = c.tries /\ w.entry = c.entry
      /\ w.pending = c.pending /\ w.via = c.via /\ w.who = c.who
  BY <1>2, Zenon DEF Turns
<1> HIDE DEF w
<1> QED BY <1>1, <1>3 DEF c, Moved

LEMMA GoesOn ==
  ASSUME NEW m \in Messages, ExchangeType, NEW pc \in TurnPcs, NEW tries \in Nat,
         turn' = [turn EXCEPT ![m].pc = pc, ![m].tries = tries]
  PROVE  \E w \in Turns : Moved(m, w, pc, tries, turn[m].entry, turn[m].pending)
<1> DEFINE c == turn[m]
           w == [c EXCEPT !.pc = pc, !.tries = tries]
<1>1. turn' = [turn EXCEPT ![m] = w]
  BY Zenon DEF ExchangeType
<1>2. c \in Turns
  BY TurnIs
<1> HIDE DEF c
<1>3. /\ w \in Turns /\ w.pc = pc /\ w.tries = tries /\ w.entry = c.entry
      /\ w.pending = c.pending /\ w.via = c.via /\ w.who = c.who
  BY <1>2, Zenon DEF Turns
<1> HIDE DEF w
<1> QED BY <1>1, <1>3 DEF c, Moved

LEMMA GoesOnWith ==
  ASSUME NEW m \in Messages, ExchangeType, NEW pc \in TurnPcs, NEW entry \in Nat,
         turn' = [turn EXCEPT ![m].pc = pc, ![m].tries = 0, ![m].entry = entry]
  PROVE  \E w \in Turns : Moved(m, w, pc, 0, entry, turn[m].pending)
<1> DEFINE c == turn[m]
           w == [c EXCEPT !.pc = pc, !.tries = 0, !.entry = entry]
<1>1. turn' = [turn EXCEPT ![m] = w]
  BY Zenon DEF ExchangeType
<1>2. c \in Turns /\ 0 \in Nat
  BY TurnIs
<1> HIDE DEF c
<1>3. /\ w \in Turns /\ w.pc = pc /\ w.tries = 0 /\ w.entry = entry
      /\ w.pending = c.pending /\ w.via = c.via /\ w.who = c.who
  BY <1>2, Zenon DEF Turns
<1> HIDE DEF w
<1> QED BY <1>1, <1>3 DEF c, Moved

LEMMA GoesOnAnswered ==
  ASSUME NEW m \in Messages, ExchangeType, NEW pc \in TurnPcs, NEW text \in Texts,
         turn' = [turn EXCEPT ![m].pc = pc, ![m].tries = 0, ![m].pending = @ \cup {text}]
  PROVE  \E w \in Turns : Moved(m, w, pc, 0, turn[m].entry, turn[m].pending \cup {text})
<1> DEFINE c == turn[m]
           P == c.pending \cup {text}
           w == [c EXCEPT !.pc = pc, !.tries = 0, !.pending = P]
<1>1. turn' = [turn EXCEPT ![m] = w]
  BY Zenon DEF ExchangeType
<1>2. c \in Turns /\ 0 \in Nat /\ P \in SUBSET ({"question"} \cup Texts)
  BY TurnIs
<1> HIDE DEF P
<1>3. /\ w \in Turns /\ w.pc = pc /\ w.tries = 0 /\ w.entry = c.entry
      /\ w.pending = P /\ w.via = c.via /\ w.who = c.who
  <2> HIDE DEF c
  <2> QED BY <1>2, Zenon DEF Turns
<1> HIDE DEF w
<1> QED BY <1>1, <1>3 DEF P, Moved

LEMMA GoesOnAnnounced ==
  ASSUME NEW m \in Messages, ExchangeType, NEW pc \in TurnPcs,
         turn' = [turn EXCEPT ![m].pc = pc, ![m].pending = {}]
  PROVE  \E w \in Turns : Moved(m, w, pc, turn[m].tries, turn[m].entry, {})
<1> DEFINE c == turn[m]
           w == [c EXCEPT !.pc = pc, !.pending = {}]
<1>1. turn' = [turn EXCEPT ![m] = w]
  BY Zenon DEF ExchangeType
<1>2. c \in Turns /\ {} \in SUBSET ({"question"} \cup Texts)
  BY TurnIs
<1> HIDE DEF c
<1>3. /\ w \in Turns /\ w.pc = pc /\ w.tries = c.tries /\ w.entry = c.entry
      /\ w.pending = {} /\ w.via = c.via /\ w.who = c.who
  BY <1>2, Zenon DEF Turns
<1> HIDE DEF w
<1> QED BY <1>1, <1>3 DEF c, Moved

LEMMA GoesOnStreaming ==
  ASSUME NEW m \in Messages, ExchangeType, turn' = [turn EXCEPT ![m].got = TRUE]
  PROVE  \E w \in Turns :
           Moved(m, w, turn[m].pc, turn[m].tries, turn[m].entry, turn[m].pending)
<1> DEFINE c == turn[m]
           w == [c EXCEPT !.got = TRUE]
<1>1. turn' = [turn EXCEPT ![m] = w]
  BY Zenon DEF ExchangeType
<1>2. c \in Turns /\ TRUE \in BOOLEAN
  BY TurnIs
<1> HIDE DEF c
<1>3. /\ w \in Turns /\ w.pc = c.pc /\ w.tries = c.tries /\ w.entry = c.entry
      /\ w.pending = c.pending /\ w.via = c.via /\ w.who = c.who
  BY <1>2, Zenon DEF Turns
<1> HIDE DEF w
<1> QED BY <1>1, <1>3 DEF c, Moved

LEMMA NoTurnIs ==
  /\ NoTurn \in Turns /\ NoTurn.pc = "idle" /\ NoTurn.via = "rest" /\ NoTurn.entry = 0
BY DEF NoTurn, Turns, TurnPcs, Streamed, Family

LEMMA ExchangeInitial == ExchangeInit => ExchangeInv
<1> SUFFICES ASSUME ExchangeInit PROVE ExchangeInv
  OBVIOUS
<1>1. ExchangeType
  BY NoTurnIs, ExchangeAssumption DEF ExchangeInit, ExchangeType, Services
<1>2. ASSUME NEW m \in Messages PROVE Story(m)
  <2>1. turn[m].pc = "idle" /\ StoredOf(m) = {} /\ Made(m) = {} /\ Named(m) = {}
    BY NoTurnIs DEF ExchangeInit, StoredOf, Made, Named
  <2>2. told[m] = "nothing" /\ learned = {} /\ asked = {} /\ history = {}
    BY DEF ExchangeInit
  <2> QED BY <2>1, <2>2 DEF Story, Stage, UnderWay, Outcome, OneRow, Noted, Ends, Texts
<1> QED BY <1>1, <1>2, ExchangeAssumption DEF ExchangeInv, ExchangeInit

LEMMA OnceIs ==
  ASSUME ExchangeType, NEW what \in {"outage", "lost", "tick"}, Once(what)
  PROVE  exchangeLeft' \in [{"outage", "lost", "tick"} -> Nat]
BY DEF ExchangeType, Once

-----------------------------------------------------------------------------
(* The services.                                                            *)

LEMMA ServicesChange ==
  ASSUME ExchangeInv, NEW s \in Services, Fail(s) \/ Recover(s)
  PROVE  ExchangeInv'
<1>1. ExchangeType'
  BY OnceIs DEF Fail, Recover, ExchangeInv, ExchangeType
<1>2. ASSUME NEW q \in Messages PROVE SameFor(q)
  BY DEF Fail, Recover, SameFor, Heard, Made, Named
<1>3. \A v \in Relatives : session'[v] >= session[v] /\ session'[v] <= clock' + SessionTtl
  BY DEF Fail, Recover, ExchangeInv, ExchangeType
<1>4. \A h \in history' : h.at <= clock'
  BY DEF Fail, Recover, ExchangeInv
<1> QED BY <1>1, <1>2, <1>3, <1>4, StoriesKept

LEMMA TimePasses ==
  ASSUME ExchangeInv, Tick
  PROVE  ExchangeInv'
<1>1. ExchangeType'
  BY OnceIs DEF Tick, ExchangeInv, ExchangeType
<1>2. ASSUME NEW q \in Messages PROVE SameFor(q)
  BY DEF Tick, SameFor, Heard, Made, Named
<1>3. \A v \in Relatives : session'[v] >= session[v] /\ session'[v] <= clock' + SessionTtl
  BY ExchangeAssumption DEF Tick, ExchangeInv, ExchangeType
<1>4. \A h \in history' : h.at <= clock'
  BY DEF Tick, ExchangeInv, ExchangeType, Kept
<1> QED BY <1>1, <1>2, <1>3, <1>4, StoriesKept

-----------------------------------------------------------------------------
(* A handler on its way.                                                    *)

\* A row is written when the exchange is over for all but the reply.
LEMMA NamedLate ==
  ASSUME ExchangeInv, NEW m \in Messages, turn[m].pc \notin {"reply", "idle"}
  PROVE  Named(m) = {}
BY DEF ExchangeInv, Story, OneRow

LEMMA StaysUnderWay ==
  ASSUME ExchangeInv, NEW m \in Messages, MovesAlone(m), told'[m] = told[m],
         turn[m].pc \notin {"idle", "track", "reply"},
         turn'[m].pc \notin {"idle", "track", "reply"}, turn'[m].entry = turn[m].entry,
         turn'[m].via = turn[m].via, turn'[m].who = turn[m].who,
         m \in learned' => turn[m].via = "ws" /\ turn[m].entry # 0,
         Stage(m)'
  PROVE  Story(m)'
<1>2. Story(m) /\ Named(m) = {}
  BY NamedLate DEF ExchangeInv
<1>3. UnderWay(m)'
  BY <1>2, AloneStores DEF Story, UnderWay
<1>4. Outcome(m)'
  BY DEF Outcome
<1>5. OneRow(m)'
  BY <1>2, AloneStores DEF OneRow
<1>6. Noted(m)'
  BY <1>2, AloneStores DEF Story, Noted, MovesAlone
<1> QED BY <1>3, <1>4, <1>5, <1>6 DEF Story

\* A handler that ends has noted the session, or says that it has not.
LEMMA EndsSo ==
  ASSUME ExchangeInv, NEW m \in Messages, MovesAlone(m), turn' = [turn EXCEPT ![m] = NoTurn],
         turn[m].pc # "track" \/ m \in untracked', Outcome(m)'
  PROVE  Story(m)'
<1>1. turn'[m].pc = "idle"
  BY NoTurnIs DEF ExchangeInv, ExchangeType
<1>2. Story(m)
  BY DEF ExchangeInv
<1>3. Stage(m)' /\ UnderWay(m)'
  BY <1>1 DEF Stage, UnderWay
<1>4. OneRow(m)'
  BY <1>1, <1>2, AloneStores DEF Story, OneRow
<1>5. Noted(m)'
  BY <1>2, AloneStores DEF Story, Noted, MovesAlone
<1> QED BY <1>3, <1>4, <1>5 DEF Story

\* Whenever a handler stops, nothing of the exchange is stored, or its question, or all.
LEMMA StoredSoFar ==
  ASSUME ExchangeInv, NEW m \in Messages
  PROVE  StoredOf(m) \in {{}, {"question"}} \/ Complete(m)
<1>1. /\ Stage(m) /\ Outcome(m)
      /\ told[m] \in {"nothing", "unavailable", "error"} \cup Ends
      /\ turn[m].pc \in TurnPcs
  BY TurnIs DEF ExchangeInv, ExchangeType, Story
<1>2. CASE turn[m].pc = "idle"
  BY <1>1, <1>2 DEF Outcome, Complete
<1>3. CASE turn[m].pc \in {"context", "search", "generate", "learning", "ingest", "announce"}
  BY <1>1, <1>3 DEF Stage, Unanswered
<1>4. CASE turn[m].pc = "commit"
  BY <1>1, <1>4 DEF Stage, Answered
<1>5. CASE turn[m].pc \in {"track", "reply"}
  BY <1>1, <1>5 DEF Stage, Unanswered
<1> QED BY <1>1, <1>2, <1>3, <1>4, <1>5 DEF TurnPcs

LEMMA LearningSent ==
  ASSUME ExchangeInv, NEW m \in Messages, SendLearning(m)
  PROVE  ExchangeInv'
<1>1. ExchangeType /\ Stage(m) /\ turn[m].pc = "learning" /\ told'[m] = told[m]
  BY DEF SendLearning, At, ExchangeInv, Story
<1>2. MovesAlone(m)
  BY DEF SendLearning, MovesAlone
<1>3. PICK w \in Turns : Moved(m, w, "context", 0, turn[m].entry, turn[m].pending)
  BY <1>1, GoesOn DEF SendLearning, Go, TurnPcs
<1>4. /\ turn'[m].pc = "context" /\ turn'[m].via = turn[m].via
      /\ turn'[m].who = turn[m].who /\ turn'[m].entry = turn[m].entry
      /\ turn'[m].pending = turn[m].pending /\ turn' \in [Messages -> Turns]
  BY <1>1, <1>3, MovedIs
<1>5. ExchangeType'
  BY <1>1, <1>4 DEF SendLearning, ExchangeType
<1>6. Stage(m)'
  BY <1>1, <1>2, <1>4, AloneStores DEF Stage, Unanswered
<1>7. turn[m].via = "ws" /\ turn[m].entry # 0
  BY <1>1 DEF Stage
<1>8. Story(m)'
  BY <1>1, <1>2, <1>4, <1>6, <1>7, StaysUnderWay
<1> QED BY <1>2, <1>3, <1>5, <1>8, AloneKeeps DEF Moved

LEMMA ContextLoaded ==
  ASSUME ExchangeInv, NEW m \in Messages, LoadContext(m)
  PROVE  ExchangeInv'
<1>1. ExchangeType /\ Stage(m) /\ UnderWay(m) /\ turn[m].pc = "context"
  BY DEF LoadContext, At, ExchangeInv, Story
<1>2. MovesAlone(m)
  BY <1>1 DEF LoadContext, MovesAlone, ExchangeType
<1>3. CASE "redis" \in up
  <2>1. PICK w \in Turns : Moved(m, w, "search", 0, turn[m].entry, turn[m].pending)
    BY <1>1, <1>3, GoesOn DEF LoadContext, Go, TurnPcs
  <2>2. /\ turn'[m].pc = "search" /\ turn'[m].via = turn[m].via
        /\ turn'[m].who = turn[m].who /\ turn'[m].entry = turn[m].entry
        /\ turn'[m].pending = turn[m].pending /\ turn' \in [Messages -> Turns]
    BY <1>1, <2>1, MovedIs
  <2>3. ExchangeType'
    BY <1>1, <1>3, <2>2 DEF LoadContext, ExchangeType
  <2>4. Stage(m)'
    BY <1>1, <1>2, <2>2, AloneStores DEF Stage, Unanswered
  <2>5. m \in learned' => turn[m].via = "ws" /\ turn[m].entry # 0
    BY <1>1 DEF UnderWay, LoadContext
  <2>6. told'[m] = told[m]
    BY <1>3 DEF LoadContext
  <2>7. Story(m)'
    BY <1>1, <1>2, <2>2, <2>4, <2>5, <2>6, StaysUnderWay
  <2> QED BY <1>2, <2>1, <2>3, <2>7, AloneKeeps DEF Moved
<1>4. CASE "redis" \notin up
  <2>1. turn' = [turn EXCEPT ![m] = NoTurn] /\ told' = [told EXCEPT ![m] = "error"]
    BY <1>4 DEF LoadContext
  <2>2. ExchangeType'
    BY <1>1, <2>1, NoTurnIs DEF LoadContext, ExchangeType
  <2>3. Outcome(m)'
    <3>1. told'[m] = "error" /\ "error" \notin Ends
      BY <1>1, <2>1 DEF ExchangeType, Ends, Texts
    <3>2. StoredOf(m)' \in {{}, {"question"}}
      BY <1>1, <1>2, AloneStores DEF Stage, Unanswered
    <3> QED BY <3>1, <3>2 DEF Outcome
  <2>4. Story(m)'
    BY <1>1, <1>2, <2>1, <2>3, EndsSo
  <2> QED BY <1>2, <2>1, <2>2, <2>4, AloneKeeps
<1> QED BY <1>3, <1>4

-----------------------------------------------------------------------------
(* Generation.                                                              *)

LEMMA BreaksOff ==
  ASSUME ExchangeInv, NEW m \in Messages, turn[m].pc \in {"search", "generate"},
         NEW why \in Services \cup {"network"}, NEW broken \in BOOLEAN,
         cause' = [cause EXCEPT ![m] = @ \cup {why}],
         IF turn[m].via \in Streamed THEN EndStream(m, broken) /\ UNCHANGED told ELSE RollBack(m),
         UNCHANGED <<up, history, vectors, entries, session, clock, learned, asked, untracked>>,
         exchangeLeft' \in [{"outage", "lost", "tick"} -> Nat]
  PROVE  ExchangeInv'
<1>1. /\ ExchangeType /\ Stage(m) /\ UnderWay(m) /\ Unanswered(m)
      /\ m \in learned => turn[m].via = "ws" /\ turn[m].entry # 0
  BY DEF ExchangeInv, Story, Stage, UnderWay
<1>2. MovesAlone(m)
  BY <1>1 DEF MovesAlone, ExchangeType, RollBack
<1>3. cause'[m] # {} /\ cause' \in [Messages -> SUBSET (Services \cup {"network"})]
  BY <1>1 DEF ExchangeType
<1>4. CASE turn[m].via \in Streamed
  <2>1. PICK x \in Texts :
          turn' = [turn EXCEPT ![m].pc = "commit", ![m].tries = 0, ![m].pending = @ \cup {x}]
    BY <1>4 DEF EndStream, Texts
  <2>2. PICK w \in Turns : Moved(m, w, "commit", 0, turn[m].entry, turn[m].pending \cup {x})
    BY <1>1, <2>1, GoesOnAnswered DEF TurnPcs
  <2>3. /\ turn'[m].pc = "commit" /\ turn'[m].via = turn[m].via
        /\ turn'[m].who = turn[m].who /\ turn'[m].entry = turn[m].entry
        /\ turn'[m].pending = turn[m].pending \cup {x} /\ turn' \in [Messages -> Turns]
    BY <1>1, <2>2, MovedIs
  <2>4. ExchangeType' /\ told'[m] = told[m]
    BY <1>1, <1>3, <1>4, <2>3 DEF ExchangeType
  <2>5. Answered(m)'
    BY <1>1, <1>2, <1>3, <2>3, AloneStores DEF Unanswered, Answered, Explains
  <2>6. Stage(m)'
    BY <2>3, <2>5 DEF Stage
  <2>7. Story(m)'
    BY <1>1, <1>2, <2>3, <2>4, <2>6, StaysUnderWay
  <2> QED BY <1>2, <2>2, <2>4, <2>7, AloneKeeps DEF Moved
<1>5. CASE turn[m].via \notin Streamed
  <2>1. turn' = [turn EXCEPT ![m] = NoTurn] /\ told' = [told EXCEPT ![m] = "unavailable"]
    BY <1>5 DEF RollBack
  <2>2. ExchangeType'
    BY <1>1, <1>3, <2>1, NoTurnIs DEF ExchangeType
  <2>3. Outcome(m)'
    <3>1. told'[m] = "unavailable" /\ "unavailable" \notin Ends
      BY <1>1, <2>1 DEF ExchangeType, Ends, Texts
    <3>2. StoredOf(m)' = {} /\ m \notin learned'
      BY <1>1, <1>2, <1>5, AloneStores DEF Unanswered, Streamed
    <3> QED BY <1>3, <3>1, <3>2 DEF Outcome
  <2>4. Story(m)'
    BY <1>2, <2>1, <2>3, EndsSo
  <2> QED BY <1>2, <2>1, <2>2, <2>4, AloneKeeps
<1> QED BY <1>4, <1>5

\* A generation that goes on, or is begun again, has stored nothing new.
LEMMA GeneratesOn ==
  ASSUME ExchangeInv, NEW m \in Messages, turn[m].pc \in {"search", "generate"},
         NEW w \in Turns, NEW pc \in {"search", "generate"}, NEW tries,
         Moved(m, w, pc, tries, turn[m].entry, turn[m].pending),
         UNCHANGED <<up, history, vectors, entries, session, clock, told, learned, cause, asked,
                     untracked>>,
         exchangeLeft' \in [{"outage", "lost", "tick"} -> Nat]
  PROVE  ExchangeInv'
<1>1. /\ ExchangeType /\ Unanswered(m)
      /\ m \in learned => turn[m].via = "ws" /\ turn[m].entry # 0
  BY DEF ExchangeInv, Story, Stage, UnderWay
<1>2. MovesAlone(m)
  BY DEF MovesAlone
<1>3. /\ turn'[m].pc = pc /\ turn'[m].via = turn[m].via
      /\ turn'[m].who = turn[m].who /\ turn'[m].entry = turn[m].entry
      /\ turn'[m].pending = turn[m].pending /\ turn' \in [Messages -> Turns]
  BY <1>1, MovedIs
<1>4. ExchangeType'
  BY <1>1, <1>3 DEF ExchangeType
<1>5. Stage(m)'
  BY <1>1, <1>2, <1>3, AloneStores DEF Stage, Unanswered
<1>6. Story(m)'
  BY <1>1, <1>2, <1>3, <1>5, StaysUnderWay
<1> QED BY <1>2, <1>4, <1>6, AloneKeeps DEF Moved

LEMMA Searched ==
  ASSUME ExchangeInv, NEW m \in Messages, Search(m)
  PROVE  ExchangeInv'
<1>1. /\ ExchangeType /\ turn[m].pc = "search"
      /\ exchangeLeft' \in [{"outage", "lost", "tick"} -> Nat]
  BY DEF Search, At, ExchangeInv, ExchangeType
<1>2. CASE /\ turn' = [turn EXCEPT ![m].pc = "generate"] /\ UNCHANGED <<cause, told>>
  <2>1. PICK w \in Turns :
          Moved(m, w, "generate", turn[m].tries, turn[m].entry, turn[m].pending)
    BY <1>1, <1>2, MovesOn DEF TurnPcs
  <2> QED BY <1>1, <1>2, <2>1, GeneratesOn DEF Search
<1>3. CASE \E s \in {"ollama", "qdrant"} \ up : GenerationFails(m, s)
  <2>1. PICK s \in {"ollama", "qdrant"} \ up : GenerationFails(m, s)
    BY <1>3
  <2>2. s \in Services \cup {"network"} /\ FALSE \in BOOLEAN
    BY <2>1 DEF Services
  <2> QED BY <1>1, <2>1, <2>2, BreaksOff DEF Search, GenerationFails
<1> QED BY <1>2, <1>3 DEF Search

LEMMA Generated ==
  ASSUME ExchangeInv, NEW m \in Messages, GenerateAnswer(m)
  PROVE  ExchangeInv'
<1>1. /\ ExchangeType /\ turn[m].pc = "generate"
      /\ exchangeLeft' \in [{"outage", "lost", "tick"} -> Nat]
  BY DEF GenerateAnswer, At, ExchangeInv, ExchangeType
<1>2. CASE /\ UNCHANGED <<cause, told>>
           /\ turn' = [turn EXCEPT ![m].pc = "commit", ![m].tries = 0,
                                   ![m].pending = @ \cup {"answer"}]
  <2>1. PICK w \in Turns :
          Moved(m, w, "commit", 0, turn[m].entry, turn[m].pending \cup {"answer"})
    BY <1>1, <1>2, GoesOnAnswered DEF TurnPcs, Texts
  <2>2. /\ turn'[m].pc = "commit" /\ turn'[m].via = turn[m].via
        /\ turn'[m].who = turn[m].who /\ turn'[m].entry = turn[m].entry
        /\ turn'[m].pending = turn[m].pending \cup {"answer"} /\ turn' \in [Messages -> Turns]
    BY <1>1, <2>1, MovedIs
  <2>3. /\ MovesAlone(m) /\ ExchangeType' /\ told'[m] = told[m] /\ Unanswered(m)
        /\ m \in learned' => turn[m].via = "ws" /\ turn[m].entry # 0
    BY <1>1, <1>2, <2>2
       DEF GenerateAnswer, MovesAlone, ExchangeType, ExchangeInv, Story, Stage, UnderWay
  <2>4. Answered(m)'
    BY <2>2, <2>3, AloneStores DEF Unanswered, Answered, Explains, Texts
  <2>5. Stage(m)'
    BY <2>2, <2>4 DEF Stage
  <2>6. Story(m)'
    BY <1>1, <2>2, <2>3, <2>5, StaysUnderWay
  <2> QED BY <2>1, <2>3, <2>6, AloneKeeps DEF Moved
<1>3. CASE UNCHANGED <<cause, told>> /\ turn' = [turn EXCEPT ![m].got = TRUE]
  <2>1. PICK w \in Turns :
          Moved(m, w, turn[m].pc, turn[m].tries, turn[m].entry, turn[m].pending)
    BY <1>1, <1>3, GoesOnStreaming
  <2> QED BY <1>1, <1>3, <2>1, GeneratesOn DEF GenerateAnswer
<1>4. CASE GenerationFails(m, "ollama")
  <2>1. "ollama" \in Services \cup {"network"} /\ FALSE \in BOOLEAN
    BY DEF Services
  <2> QED BY <1>1, <1>4, <2>1, BreaksOff DEF GenerateAnswer, GenerationFails
<1> QED BY <1>2, <1>3, <1>4 DEF GenerateAnswer

LEMMA ReplyLost ==
  ASSUME ExchangeInv, NEW m \in Messages, LoseReply(m)
  PROVE  ExchangeInv'
<1>1. /\ ExchangeType /\ turn[m].pc \in {"search", "generate"}
      /\ exchangeLeft' \in [{"outage", "lost", "tick"} -> Nat]
  BY OnceIs DEF LoseReply, ExchangeInv
<1>2. CASE /\ turn' = [turn EXCEPT ![m].pc = "search", ![m].tries = @ + 1]
           /\ UNCHANGED <<cause, told>>
  <2>1. turn[m].tries + 1 \in Nat /\ "search" \in TurnPcs
    BY <1>1, TurnIs DEF TurnPcs
  <2>2. turn' = [turn EXCEPT ![m].pc = "search", ![m].tries = turn[m].tries + 1]
    BY <1>1, <1>2, Zenon DEF ExchangeType
  <2>3. PICK w \in Turns :
          Moved(m, w, "search", turn[m].tries + 1, turn[m].entry, turn[m].pending)
    BY <1>1, <2>1, <2>2, GoesOn
  <2> QED BY <1>1, <1>2, <2>3, GeneratesOn DEF LoseReply
<1>3. CASE /\ cause' = [cause EXCEPT ![m] = @ \cup {"network"}]
           /\ IF turn[m].via \in Streamed THEN EndStream(m, TRUE) /\ UNCHANGED told
              ELSE RollBack(m)
  <2>1. "network" \in Services \cup {"network"} /\ TRUE \in BOOLEAN
    OBVIOUS
  <2> QED BY <1>1, <1>3, <2>1, BreaksOff DEF LoseReply
<1> QED BY <1>2, <1>3 DEF LoseReply

-----------------------------------------------------------------------------
(* Asking.                                                                  *)

LEMMA RowsAre ==
  ASSUME NEW m \in Messages, NEW P, history' = history \cup {Row(m, x) : x \in P}
  PROVE  /\ StoredOf(m)' = StoredOf(m) \cup P
         /\ \A q \in Messages \ {m} : Heard(q)' = Heard(q)
<1> DEFINE R == {Row(m, x) : x \in P}
<1>0. \A x : Row(m, x).of = m /\ Row(m, x).what = x
  BY DEF Row
<1>1. (\A r \in R : r.of = m) /\ {r.what : r \in R} = P
  <2>1. (\A r \in R : r.of = m /\ r.what \in P) /\ (\A x \in P : Row(m, x) \in R)
    BY <1>0
  <2> HIDE DEF R
  <2> QED BY <1>0, <2>1
<1>2. history' = history \cup R
  OBVIOUS
<1> HIDE DEF R
<1>3. {g \in history' : g.of = m} = {g \in history : g.of = m} \cup R
  BY <1>1, <1>2
<1>4. StoredOf(m)' = StoredOf(m) \cup {r.what : r \in R}
  BY <1>3 DEF StoredOf
<1> QED BY <1>1, <1>2, <1>4 DEF Heard

LEMMA RowsTyped ==
  ASSUME ExchangeInv, NEW m \in Messages, NEW P \in SUBSET ({"question"} \cup Ends),
         history' = history \cup {Row(m, x) : x \in P}, clock' = clock
  PROVE  history' \subseteq Kept /\ \A h \in history' : h.at <= clock'
BY DEF ExchangeInv, ExchangeType, Row, Kept

\* Before a message is asked nothing is there of it.
LEMMA NotAsked ==
  ASSUME ExchangeInv, NEW m \in Messages, At(m, "idle"), told[m] = "nothing"
  PROVE  /\ StoredOf(m) = {} /\ Made(m) = {} /\ Named(m) = {} /\ Heard(m) = {}
         /\ m \notin learned /\ \A v \in Relatives : <<m, v>> \notin asked
<1>1. Outcome(m) /\ OneRow(m)
  BY DEF ExchangeInv, Story
<1> QED BY <1>1, StoredIs DEF At, Outcome, OneRow

LEMMA Asked ==
  ASSUME ExchangeInv, NEW m \in Messages, NEW via \in {"rest"} \cup Streamed \cup Family,
         NEW who \in Relatives \cup {"owner"}, NEW long \in BOOLEAN, Ask(m, via, who, long)
  PROVE  ExchangeInv'
<1>1. /\ ExchangeType /\ told[m] = "nothing" /\ (via \in Family) = (who \in Relatives)
      /\ StoredOf(m) = {} /\ Made(m) = {} /\ Named(m) = {} /\ Heard(m) = {} /\ m \notin learned
      /\ \A v \in Relatives : <<m, v>> \notin asked
  BY NotAsked DEF Ask, ExchangeInv
<1>2. PICK pc \in {"ingest", "announce", "context"} :
        pc = IF long /\ via \notin Family THEN "ingest"
             ELSE IF via = "familyws" THEN "announce" ELSE "context"
  OBVIOUS
<1> DEFINE w == [NoTurn EXCEPT !.via = via, !.who = who, !.pending = {"question"}, !.pc = pc]
<1>3. turn' = [turn EXCEPT ![m] = w]
  BY <1>2, Zenon DEF Ask
<1>4. pc \in TurnPcs /\ {"question"} \in SUBSET ({"question"} \cup Texts)
  BY DEF TurnPcs
<1>5. /\ w \in Turns /\ w.pc = pc /\ w.tries = NoTurn.tries /\ w.entry = NoTurn.entry
      /\ w.pending = {"question"} /\ w.via = via /\ w.who = who
  BY <1>4, NoTurnIs, Zenon DEF Turns
<1> HIDE DEF w
<1>6. /\ turn'[m].pc = pc /\ turn'[m].entry = 0 /\ turn'[m].pending = {"question"}
      /\ turn'[m].via = via /\ turn'[m].who = who /\ turn' \in [Messages -> Turns]
  BY <1>1, <1>3, <1>5, NoTurnIs DEF ExchangeType
<1>7. /\ UNCHANGED <<up, history, vectors, entries, session, clock, told, learned, cause,
                     untracked, exchangeLeft>>
      /\ asked' = IF via \in Family THEN asked \cup {<<m, who>>} ELSE asked
  BY DEF Ask
<1>8. ExchangeType'
  BY <1>1, <1>6, <1>7 DEF ExchangeType
<1>9. StoredOf(m)' = {} /\ Made(m)' = {} /\ Named(m)' = {} /\ Heard(m)' = {}
  BY <1>1, <1>7 DEF StoredOf, Made, Named, Heard
<1>10. Stage(m)'
  BY <1>1, <1>2, <1>6, <1>7, <1>9 DEF Stage, Unanswered, Family
<1>11. UnderWay(m)'
  BY <1>1, <1>6, <1>7 DEF UnderWay
<1>12. Outcome(m)' /\ OneRow(m)'
  BY <1>6, <1>9 DEF Outcome, OneRow
<1>13. Noted(m)'
  BY <1>9 DEF Noted, Heard
<1>14. ASSUME NEW q \in Messages \ {m} PROVE SameFor(q)
  BY <1>1, <1>3, <1>7 DEF SameFor, Heard, Made, Named, ExchangeType
<1>15. \A v \in Relatives : session'[v] >= session[v] /\ session'[v] <= clock' + SessionTtl
  BY <1>7 DEF ExchangeInv, ExchangeType
<1>16. \A h \in history' : h.at <= clock'
  BY <1>7 DEF ExchangeInv
<1> QED BY <1>8, <1>10, <1>11, <1>12, <1>13, <1>14, <1>15, <1>16, StoriesKept DEF Story

LEMMA TopicRefused ==
  ASSUME ExchangeInv, NEW m \in Messages, NEW via \in Family, NEW v \in Relatives,
         RefuseTopic(m, via, v)
  PROVE  ExchangeInv'
<1>1. /\ ExchangeType /\ told[m] = "nothing"
      /\ StoredOf(m) = {} /\ Made(m) = {} /\ Named(m) = {} /\ m \notin learned
      /\ \A u \in Relatives : <<m, u>> \notin asked
  BY NotAsked DEF RefuseTopic, ExchangeInv
<1> DEFINE w == [NoTurn EXCEPT !.via = via, !.who = v, !.pc = "track"]
<1>2. turn' = [turn EXCEPT ![m] = w]
  BY Zenon DEF RefuseTopic
<1>3. "track" \in TurnPcs /\ via \in {"rest"} \cup Streamed \cup Family
  BY DEF TurnPcs
<1>4. /\ w \in Turns /\ w.pc = "track" /\ w.entry = NoTurn.entry /\ w.via = via /\ w.who = v
  BY <1>3, NoTurnIs, Zenon DEF Turns
<1> HIDE DEF w
<1>5. /\ turn'[m].pc = "track" /\ turn'[m].entry = 0 /\ turn'[m].via = via
      /\ turn'[m].who = v /\ turn' \in [Messages -> Turns]
  BY <1>1, <1>2, <1>4, NoTurnIs DEF ExchangeType
<1>6. /\ UNCHANGED <<up, vectors, entries, session, clock, told, learned, cause,
                     untracked, exchangeLeft>>
      /\ asked' = asked \cup {<<m, v>>}
      /\ history' = history \cup {Row(m, x) : x \in {"question", "refusal"}}
  BY DEF RefuseTopic
<1>7. history' \subseteq Kept /\ \A h \in history' : h.at <= clock'
  BY <1>6, RowsTyped DEF Ends
<1>8. ExchangeType'
  BY <1>1, <1>5, <1>6, <1>7 DEF ExchangeType
<1>9. /\ StoredOf(m)' = {"question", "refusal"} /\ Made(m)' = {} /\ Named(m)' = {}
      /\ \A q \in Messages \ {m} : Heard(q)' = Heard(q)
  <2>1. /\ StoredOf(m)' = StoredOf(m) \cup {"question", "refusal"}
        /\ \A q \in Messages \ {m} : Heard(q)' = Heard(q)
    BY <1>6, RowsAre
  <2> QED BY <1>1, <1>6, <2>1 DEF Made, Named
<1>10. Complete(m)'
  BY <1>9 DEF Complete, Explains, Ends, Texts
<1>11. Stage(m)'
  BY <1>5, <1>10 DEF Stage
<1>12. UnderWay(m)'
  BY <1>1, <1>5, <1>6 DEF UnderWay
<1>13. Outcome(m)' /\ OneRow(m)' /\ Noted(m)'
  BY <1>5, <1>9 DEF Outcome, OneRow, Noted
<1>14. ASSUME NEW q \in Messages \ {m} PROVE SameFor(q)
  BY <1>1, <1>2, <1>6, <1>9 DEF SameFor, Made, Named, ExchangeType
<1>15. \A u \in Relatives : session'[u] >= session[u] /\ session'[u] <= clock' + SessionTtl
  BY <1>6 DEF ExchangeInv, ExchangeType
<1> QED BY <1>7, <1>8, <1>11, <1>12, <1>13, <1>14, <1>15, StoriesKept DEF Story

LEMMA Announced ==
  ASSUME ExchangeInv, NEW m \in Messages, Announce(m)
  PROVE  ExchangeInv'
<1>1. /\ ExchangeType /\ turn[m].pc = "announce" /\ Named(m) = {} /\ Story(m)
  BY NamedLate DEF Announce, At, ExchangeInv
<1>2. turn[m].via = "familyws" /\ StoredOf(m) = {}
  BY <1>1 DEF Story, Stage
<1>3. PICK w \in Turns : Moved(m, w, "track", turn[m].tries, turn[m].entry, {})
  BY <1>1, GoesOnAnnounced DEF Announce, TurnPcs
<1>4. /\ turn'[m].pc = "track" /\ turn'[m].entry = turn[m].entry /\ turn'[m].pending = {}
      /\ turn'[m].via = turn[m].via /\ turn'[m].who = turn[m].who
      /\ turn' \in [Messages -> Turns] /\ turn' = [turn EXCEPT ![m] = w]
  BY <1>1, <1>3, MovedIs
<1>5. /\ UNCHANGED <<up, vectors, entries, session, clock, told, learned, cause, asked,
                     untracked, exchangeLeft>>
      /\ history' = history \cup {Row(m, x) : x \in {"question"}}
  BY DEF Announce
<1>6. history' \subseteq Kept /\ \A h \in history' : h.at <= clock'
  BY <1>5, RowsTyped
<1>7. ExchangeType'
  BY <1>1, <1>4, <1>5, <1>6 DEF ExchangeType
<1>8. /\ StoredOf(m)' = {"question"} /\ Made(m)' = Made(m) /\ Named(m)' = {}
      /\ \A q \in Messages \ {m} : Heard(q)' = Heard(q)
  <2>1. /\ StoredOf(m)' = StoredOf(m) \cup {"question"}
        /\ \A q \in Messages \ {m} : Heard(q)' = Heard(q)
    BY <1>5, RowsAre
  <2> QED BY <1>1, <1>2, <1>5, <2>1 DEF Made, Named
<1>9. Stage(m)'
  BY <1>2, <1>4, <1>8 DEF Stage, Unanswered, Family
<1>10. UnderWay(m)'
  BY <1>1, <1>4, <1>5, <1>8 DEF Story, UnderWay
<1>11. Outcome(m)' /\ OneRow(m)' /\ Noted(m)'
  BY <1>4, <1>8 DEF Outcome, OneRow, Noted
<1>12. ASSUME NEW q \in Messages \ {m} PROVE SameFor(q)
  BY <1>1, <1>4, <1>5, <1>8 DEF SameFor, Made, Named, ExchangeType
<1>13. \A u \in Relatives : session'[u] >= session[u] /\ session'[u] <= clock' + SessionTtl
  BY <1>5 DEF ExchangeInv, ExchangeType
<1> QED BY <1>6, <1>7, <1>9, <1>10, <1>11, <1>12, <1>13, StoriesKept DEF Story

\* The vectors of an attempt are there whether its reply arrives or not.
LEMMA Embedded ==
  ASSUME ExchangeInv, NEW m \in Messages, turn[m].pc = "ingest", NEW w \in Turns,
         NEW pc \in {"ingest", "learning", "context"}, NEW tries, NEW entry,
         Moved(m, w, pc, tries, entry, turn[m].pending),
         vectors' = vectors \cup {<<m, turn[m].tries + 1>>},
         pc = "ingest" => tries = turn[m].tries + 1 /\ entry = 0,
         pc = "learning" => turn[m].via = "ws" /\ entry = turn[m].tries + 1,
         entry \in {0, turn[m].tries + 1},
         UNCHANGED <<up, history, entries, session, clock, told, learned, cause, asked, untracked>>,
         exchangeLeft' \in [{"outage", "lost", "tick"} -> Nat]
  PROVE  ExchangeInv'
<1>1. /\ ExchangeType /\ Named(m) = {} /\ Stage(m) /\ UnderWay(m) /\ Noted(m)
      /\ turn[m].tries + 1 \in Nat
  BY NamedLate, TurnIs DEF ExchangeInv, Story
<1>2. /\ StoredOf(m) = {} /\ turn[m].pending = {"question"} /\ turn[m].via \notin Family
      /\ m \notin learned /\ \A x \in Made(m) : x[2] <= turn[m].tries
  BY <1>1 DEF Stage
<1>3. /\ turn'[m].pc = pc /\ turn'[m].entry = entry /\ turn'[m].pending = turn[m].pending
      /\ turn'[m].via = turn[m].via /\ turn'[m].who = turn[m].who /\ turn'[m].tries = tries
      /\ turn' \in [Messages -> Turns] /\ turn' = [turn EXCEPT ![m] = w]
  BY <1>1, MovedIs
<1>4. ExchangeType'
  BY <1>1, <1>3 DEF ExchangeType
<1>5. StoredOf(m)' = {} /\ Named(m)' = {}
  BY <1>1, <1>2 DEF StoredOf, Named
<1>6. Made(m)' = Made(m) \cup {<<m, turn[m].tries + 1>>}
  BY DEF Made
<1>7. \A x \in Made(m)' : x[2] <= turn[m].tries + 1
  <2>1. \A x \in Made(m) : x[2] \in Nat
    BY <1>1 DEF Made, ExchangeType
  <2>2. turn[m].tries \in Nat
    BY <1>1, TurnIs
  <2> QED BY <1>2, <1>6, <2>1, <2>2
<1>8. Stage(m)'
  <2>1. turn[m].via # "familyws"
    BY <1>2 DEF Family
  <2>2. pc = "learning" => entry # 0
    BY <1>1, TurnIs
  <2>3. Unanswered(m)'
    BY <1>2, <1>3, <1>5, <2>1 DEF Unanswered
  <2>4. CASE pc = "ingest"
    BY <1>2, <1>3, <1>5, <1>7, <2>4 DEF Stage
  <2>5. CASE pc # "ingest"
    BY <1>3, <2>2, <2>3, <2>5 DEF Stage
  <2> QED BY <2>4, <2>5
<1>9. UnderWay(m)'
  BY <1>1, <1>2, <1>3, <1>7 DEF UnderWay
<1>10. Outcome(m)' /\ OneRow(m)'
  BY <1>3, <1>5 DEF Outcome, OneRow
<1>11. Noted(m)'
  BY <1>1 DEF Noted
<1>12. ASSUME NEW q \in Messages \ {m} PROVE SameFor(q)
  BY <1>1, <1>3 DEF SameFor, Heard, Made, Named, ExchangeType
<1>13. \A u \in Relatives : session'[u] >= session[u] /\ session'[u] <= clock' + SessionTtl
  BY DEF ExchangeInv, ExchangeType
<1>14. \A h \in history' : h.at <= clock'
  BY DEF ExchangeInv
<1> QED BY <1>4, <1>8, <1>9, <1>10, <1>11, <1>12, <1>13, <1>14, StoriesKept DEF Story

LEMMA TextIngested ==
  ASSUME ExchangeInv, NEW m \in Messages, IngestOwnerText(m)
  PROVE  ExchangeInv'
<1>1. /\ ExchangeType /\ turn[m].pc = "ingest" /\ Stage(m) /\ turn[m].tries + 1 \in Nat
  BY TurnIs DEF IngestOwnerText, At, ExchangeInv, Story
<1>2. /\ turn[m].entry = 0 /\ Unanswered(m) /\ m \notin learned
      /\ {"ingest", "learning", "context"} \subseteq TurnPcs /\ 0 \in Nat
  BY <1>1 DEF Stage, Unanswered, TurnPcs, Family
<1>3. CASE /\ turn' = [turn EXCEPT
                        ![m].pc = IF turn[m].via = "ws" THEN "learning" ELSE "context",
                        ![m].tries = 0, ![m].entry = turn[m].tries + 1]
           /\ vectors' = vectors \cup {<<m, turn[m].tries + 1>>} /\ UNCHANGED exchangeLeft
  <2>1. PICK pc \in {"learning", "context"} :
          pc = IF turn[m].via = "ws" THEN "learning" ELSE "context"
    OBVIOUS
  <2>2. PICK w \in Turns : Moved(m, w, pc, 0, turn[m].tries + 1, turn[m].pending)
    BY <1>1, <1>2, <1>3, <2>1, GoesOnWith
  <2>3. exchangeLeft' \in [{"outage", "lost", "tick"} -> Nat]
    BY <1>1, <1>3 DEF ExchangeType
  <2> QED BY <1>1, <1>3, <2>1, <2>2, <2>3, Embedded DEF IngestOwnerText
<1>4. CASE /\ Once("lost")
           /\ turn' = [turn EXCEPT
                ![m].pc = IF turn[m].tries + 1 < Attempts THEN "ingest" ELSE "context",
                ![m].tries = IF turn[m].tries + 1 < Attempts THEN turn[m].tries + 1 ELSE 0]
           /\ vectors' = vectors \cup {<<m, turn[m].tries + 1>>}
  <2>1. PICK pc \in {"ingest", "context"} :
          pc = IF turn[m].tries + 1 < Attempts THEN "ingest" ELSE "context"
    OBVIOUS
  <2>2. PICK k \in Nat : k = IF turn[m].tries + 1 < Attempts THEN turn[m].tries + 1 ELSE 0
    BY <1>1
  <2>3. PICK w \in Turns : Moved(m, w, pc, k, turn[m].entry, turn[m].pending)
    BY <1>1, <1>2, <1>4, <2>1, <2>2, GoesOn
  <2>4. exchangeLeft' \in [{"outage", "lost", "tick"} -> Nat]
    BY <1>1, <1>4, OnceIs
  <2>5. pc = "ingest" => k = turn[m].tries + 1
    BY <2>1, <2>2
  <2> QED BY <1>1, <1>2, <1>4, <2>1, <2>3, <2>4, <2>5, Embedded DEF IngestOwnerText
<1>5. CASE Go(m, "context") /\ UNCHANGED <<vectors, exchangeLeft>>
  <2>1. PICK w \in Turns : Moved(m, w, "context", 0, turn[m].entry, turn[m].pending)
    BY <1>1, <1>2, <1>5, GoesOn DEF Go
  <2>2. /\ turn'[m].pc = "context" /\ turn'[m].via = turn[m].via
        /\ turn'[m].who = turn[m].who /\ turn'[m].entry = turn[m].entry
        /\ turn'[m].pending = turn[m].pending /\ turn' \in [Messages -> Turns]
    BY <1>1, <2>1, MovedIs
  <2>3. /\ MovesAlone(m) /\ ExchangeType' /\ told'[m] = told[m] /\ m \notin learned'
    BY <1>1, <1>2, <1>5, <2>2 DEF IngestOwnerText, MovesAlone, ExchangeType
  <2>4. Stage(m)'
    BY <1>2, <2>2, <2>3, AloneStores DEF Stage, Unanswered
  <2>5. Story(m)'
    BY <1>1, <2>2, <2>3, <2>4, StaysUnderWay
  <2> QED BY <2>1, <2>3, <2>5, AloneKeeps DEF Moved
<1> QED BY <1>3, <1>4, <1>5 DEF IngestOwnerText

-----------------------------------------------------------------------------
(* The end.                                                                 *)

LEMMA Committed ==
  ASSUME ExchangeInv, NEW m \in Messages, CommitExchange(m)
  PROVE  ExchangeInv'
<1>1. /\ ExchangeType /\ turn[m].pc = "commit" /\ Named(m) = {} /\ Answered(m)
      /\ UnderWay(m) /\ Noted(m) /\ turn[m].pending \in SUBSET ({"question"} \cup Texts)
  BY NamedLate, TurnIs DEF CommitExchange, At, ExchangeInv, Story, Stage
<1>2. PICK pc \in {"track", "reply"} : pc = IF turn[m].via = "family" THEN "track" ELSE "reply"
  OBVIOUS
<1>3. PICK w \in Turns : Moved(m, w, pc, turn[m].tries, turn[m].entry, turn[m].pending)
  BY <1>1, <1>2, MovesOn DEF CommitExchange, TurnPcs
<1>4. /\ turn'[m].pc = pc /\ turn'[m].entry = turn[m].entry
      /\ turn'[m].via = turn[m].via /\ turn'[m].who = turn[m].who
      /\ turn' \in [Messages -> Turns] /\ turn' = [turn EXCEPT ![m] = w]
  BY <1>1, <1>3, MovedIs
<1>5. /\ UNCHANGED <<up, vectors, session, clock, told, learned, cause, asked,
                     untracked, exchangeLeft>>
      /\ history' = history \cup {Row(m, x) : x \in turn[m].pending}
      /\ entries' = IF turn[m].entry = 0 THEN entries ELSE entries \cup {<<m, turn[m].entry>>}
  BY DEF CommitExchange
<1>6. history' \subseteq Kept /\ \A h \in history' : h.at <= clock'
  BY <1>1, <1>5, RowsTyped DEF Ends
<1>7. entries' \subseteq vectors'
  BY <1>1, <1>5 DEF UnderWay, ExchangeType
<1>8. ExchangeType'
  BY <1>1, <1>4, <1>5, <1>6, <1>7 DEF ExchangeType
<1>9. /\ StoredOf(m)' = StoredOf(m) \cup turn[m].pending
      /\ \A q \in Messages \ {m} : Heard(q)' = Heard(q)
  BY <1>5, RowsAre
<1>10. Complete(m)' /\ "question" \in StoredOf(m)'
  <2>1. PICK x \in Texts : Explains(m, x) /\ StoredOf(m)' = {"question", x}
    BY <1>1, <1>9 DEF Answered
  <2> QED BY <1>5, <2>1 DEF Complete, Explains, Ends
<1>11. Made(m)' = Made(m) /\ Named(m)' = IF turn[m].entry = 0 THEN {} ELSE {<<m, turn[m].entry>>}
  BY <1>1, <1>5 DEF Made, Named
<1>12. Stage(m)'
  BY <1>1, <1>2, <1>4, <1>5, <1>10, <1>11 DEF Stage, UnderWay, Family
<1>13. UnderWay(m)'
  BY <1>1, <1>4, <1>5, <1>11 DEF UnderWay
<1>14. Outcome(m)'
  BY <1>4 DEF Outcome
<1>15. OneRow(m)'
  BY <1>1, <1>2, <1>4, <1>10, <1>11 DEF OneRow, UnderWay, Family
<1>16. Noted(m)'
  <2>1. CASE turn[m].via = "family"
    BY <1>2, <1>4, <2>1 DEF Noted
  <2>2. CASE turn[m].via = "familyws"
    <3>1. "question" \notin turn[m].pending /\ "refusal" \notin turn[m].pending
      BY <1>1, <2>2 DEF Answered, Texts
    <3>2. \A h : h \in history' /\ h.what \in {"question", "refusal"} => h \in history
      BY <1>5, <3>1 DEF Row
    <3> QED BY <1>1, <1>5, <3>2 DEF Noted
  <2>3. CASE turn[m].via \notin Family
    BY <1>1, <1>5, <2>3 DEF Noted, UnderWay
  <2> QED BY <2>1, <2>2, <2>3 DEF Family
<1>17. ASSUME NEW q \in Messages \ {m} PROVE SameFor(q)
  BY <1>1, <1>4, <1>5, <1>9 DEF SameFor, Made, Named, ExchangeType
<1>18. \A u \in Relatives : session'[u] >= session[u] /\ session'[u] <= clock' + SessionTtl
  BY <1>5 DEF ExchangeInv, ExchangeType
<1> QED BY <1>6, <1>8, <1>12, <1>13, <1>14, <1>15, <1>16, <1>17, <1>18, StoriesKept DEF Story

LEMMA Tracked ==
  ASSUME ExchangeInv, NEW m \in Messages, Track(m)
  PROVE  ExchangeInv'
<1>1. /\ ExchangeType /\ turn[m].pc = "track" /\ Named(m) = {} /\ UnderWay(m)
      /\ turn[m].via \in Family
      /\ Complete(m) \/ (turn[m].via = "familyws" /\ Unanswered(m))
  BY NamedLate DEF Track, At, ExchangeInv, Story, Stage
<1>2. turn[m].who \in Relatives /\ m \notin learned
  BY <1>1 DEF UnderWay, Family
<1>3. CASE "redis" \in up
  <2>1. PICK pc \in {"context", "reply"} :
          pc = IF StoredOf(m) = {"question"} THEN "context" ELSE "reply"
    OBVIOUS
  <2>2. PICK w \in Turns : Moved(m, w, pc, 0, turn[m].entry, turn[m].pending)
    BY <1>1, <1>3, <2>1, GoesOn DEF Track, Go, TurnPcs
  <2>3. /\ turn'[m].pc = pc /\ turn'[m].entry = turn[m].entry /\ turn'[m].via = turn[m].via
        /\ turn'[m].who = turn[m].who /\ turn'[m].pending = turn[m].pending
        /\ turn' \in [Messages -> Turns] /\ turn' = [turn EXCEPT ![m] = w]
    BY <1>1, <2>2, MovedIs
  <2>4. /\ UNCHANGED <<up, history, vectors, entries, clock, told, learned, cause, asked,
                       untracked, exchangeLeft>>
        /\ session' = [session EXCEPT ![turn[m].who] = clock + SessionTtl]
    BY <1>3 DEF Track, TrackSession
  <2>5. clock + SessionTtl \in Nat
    BY <1>1, ExchangeAssumption DEF ExchangeType
  <2>6. ExchangeType'
    BY <1>1, <1>2, <2>3, <2>4, <2>5 DEF ExchangeType
  <2>7. StoredOf(m)' = StoredOf(m) /\ Made(m)' = Made(m) /\ Named(m)' = {}
    BY <1>1, <2>4 DEF StoredOf, Made, Named
  <2>8. Stage(m)'
    <3>1. CASE StoredOf(m) = {"question"}
      <4>1. ~Complete(m)
        BY <3>1 DEF Complete, Ends, Texts
      <4> QED BY <1>1, <2>1, <2>3, <2>7, <3>1, <4>1 DEF Stage, Unanswered
    <3>2. CASE StoredOf(m) # {"question"}
      <4>1. Complete(m)
        BY <1>1, <3>2 DEF Unanswered
      <4>2. Complete(m)'
        BY <2>4, <2>7, <4>1 DEF Complete, Explains
      <4> QED BY <1>2, <2>1, <2>3, <2>4, <3>2, <4>2 DEF Stage
    <3> QED BY <3>1, <3>2
  <2>9. UnderWay(m)'
    BY <1>1, <2>3, <2>4, <2>7 DEF UnderWay
  <2>10. Outcome(m)' /\ OneRow(m)'
    BY <2>1, <2>3, <2>7 DEF Outcome, OneRow
  <2>11. Noted(m)'
    <3>1. SUFFICES ASSUME NEW h \in history', h.of = m, NEW v \in Relatives, <<m, v>> \in asked'
                   PROVE  session'[v] >= h.at + SessionTtl
      BY DEF Noted
    <3>2. v = turn[m].who
      BY <1>1, <2>4, <3>1 DEF UnderWay
    <3>3. session'[v] = clock + SessionTtl
      BY <1>1, <2>4, <3>2 DEF ExchangeType
    <3>4. h.at <= clock /\ h.at \in Nat /\ clock \in Nat /\ SessionTtl \in Nat
      BY <1>1, <2>4, ExchangeAssumption DEF ExchangeInv, ExchangeType, Kept
    <3> QED BY <3>3, <3>4
  <2>12. ASSUME NEW q \in Messages \ {m} PROVE SameFor(q)
    BY <1>1, <2>3, <2>4 DEF SameFor, Heard, Made, Named, ExchangeType
  <2>13. \A u \in Relatives : session'[u] >= session[u] /\ session'[u] <= clock' + SessionTtl
    BY <1>2, <2>4, <2>5 DEF ExchangeInv, ExchangeType
  <2>14. \A h \in history' : h.at <= clock'
    BY <2>4 DEF ExchangeInv
  <2> QED BY <2>6, <2>8, <2>9, <2>10, <2>11, <2>12, <2>13, <2>14, StoriesKept DEF Story
<1>4. CASE "redis" \notin up
  <2>1. /\ turn' = [turn EXCEPT ![m] = NoTurn] /\ told' = [told EXCEPT ![m] = "error"]
        /\ untracked' = untracked \cup {m}
        /\ UNCHANGED <<up, history, vectors, entries, clock, learned, cause, asked, exchangeLeft,
                       session>>
    BY <1>4 DEF Track
  <2>2. ExchangeType' /\ MovesAlone(m)
    BY <1>1, <2>1, NoTurnIs DEF ExchangeType, MovesAlone
  <2>3. Outcome(m)'
    <3>1. told'[m] = "error" /\ "error" \notin Ends
      BY <1>1, <2>1 DEF ExchangeType, Ends, Texts
    <3>2. StoredOf(m) \in {{}, {"question"}} \/ Complete(m)
      BY StoredSoFar
    <3>3. StoredOf(m)' \in {{}, {"question"}} \/ Complete(m)'
      BY <2>1, <2>2, <3>2, AloneStores DEF Complete, Explains
    <3> QED BY <3>1, <3>3 DEF Outcome
  <2>4. Story(m)'
    BY <2>1, <2>2, <2>3, EndsSo
  <2> QED BY <2>1, <2>2, <2>4, AloneKeeps
<1> QED BY <1>3, <1>4

LEMMA ReplySent ==
  ASSUME ExchangeInv, NEW m \in Messages, SendReply(m)
  PROVE  ExchangeInv'
<1>1. /\ ExchangeType /\ turn[m].pc = "reply" /\ Complete(m)
      /\ m \in learned => Named(m) # {}
  BY DEF SendReply, At, ExchangeInv, Story, Stage
<1>2. PICK x \in Ends : Explains(m, x) /\ StoredOf(m) = {"question", x}
  BY <1>1 DEF Complete
<1>3. x # "question" /\ x \notin {"nothing", "unavailable", "error"}
  BY DEF Ends, Texts
<1>4. (CHOOSE u \in StoredOf(m) : u # "question") = x
  BY <1>2, <1>3
<1>5. /\ turn' = [turn EXCEPT ![m] = NoTurn] /\ told' = [told EXCEPT ![m] = x]
      /\ UNCHANGED <<up, history, vectors, entries, session, clock, learned, cause, asked,
                     untracked, exchangeLeft>>
  BY <1>4 DEF SendReply
<1>6. ExchangeType' /\ MovesAlone(m) /\ told'[m] = x
  BY <1>1, <1>5, NoTurnIs DEF ExchangeType, MovesAlone
<1>7. Explains(m, x)' /\ StoredOf(m)' = {"question", x} /\ Named(m)' = Named(m)
  BY <1>2, <1>5, <1>6, AloneStores DEF Explains
<1>8. Outcome(m)'
  BY <1>1, <1>3, <1>5, <1>6, <1>7 DEF Outcome
<1>9. Story(m)'
  BY <1>1, <1>5, <1>6, <1>8, EndsSo
<1> QED BY <1>5, <1>6, <1>9, AloneKeeps

LEMMA HandlerDies ==
  ASSUME ExchangeInv, NEW m \in Messages, Die(m)
  PROVE  ExchangeInv'
<1>1. ExchangeType
  BY DEF ExchangeInv
<1>2. /\ turn' = [turn EXCEPT ![m] = NoTurn] /\ told' = [told EXCEPT ![m] = "error"]
      /\ untracked' = IF At(m, "track") THEN untracked \cup {m} ELSE untracked
      /\ UNCHANGED <<up, history, vectors, entries, session, clock, learned, cause, asked>>
      /\ exchangeLeft' \in [{"outage", "lost", "tick"} -> Nat]
  BY <1>1, OnceIs DEF Die
<1>3. ExchangeType' /\ MovesAlone(m) /\ (turn[m].pc # "track" \/ m \in untracked')
  BY <1>1, <1>2, NoTurnIs DEF ExchangeType, MovesAlone, At
<1>4. Outcome(m)'
  <2>1. told'[m] = "error" /\ "error" \notin Ends
    BY <1>1, <1>2 DEF ExchangeType, Ends, Texts
  <2>2. StoredOf(m) \in {{}, {"question"}} \/ Complete(m)
    BY StoredSoFar
  <2>3. StoredOf(m)' \in {{}, {"question"}} \/ Complete(m)'
    BY <1>2, <1>3, <2>2, AloneStores DEF Complete, Explains
  <2> QED BY <2>1, <2>3 DEF Outcome
<1>5. Story(m)'
  BY <1>2, <1>3, <1>4, EndsSo
<1> QED BY <1>2, <1>3, <1>5, AloneKeeps

LEMMA ExchangeStep == ExchangeInv /\ [ExchangeNext]_exchangeVars => ExchangeInv'
<1> SUFFICES ASSUME ExchangeInv, [ExchangeNext]_exchangeVars PROVE ExchangeInv'
  OBVIOUS
<1>1. CASE UNCHANGED exchangeVars
  <2>1. ASSUME NEW q \in Messages PROVE SameFor(q)
    BY <1>1 DEF exchangeVars, SameFor, Heard, Made, Named
  <2>2. ExchangeType' /\ \A h \in history' : h.at <= clock'
    BY <1>1 DEF exchangeVars, ExchangeInv, ExchangeType
  <2>3. \A v \in Relatives : session'[v] >= session[v] /\ session'[v] <= clock' + SessionTtl
    BY <1>1 DEF exchangeVars, ExchangeInv, ExchangeType
  <2> QED BY <2>1, <2>2, <2>3, StoriesKept
<1>2. ASSUME NEW m \in Messages, NEW via \in {"rest", "ws"}, NEW long \in BOOLEAN,
             Ask(m, via, "owner", long)
      PROVE  ExchangeInv'
  <2>1. via \in {"rest"} \cup Streamed \cup Family /\ "owner" \in Relatives \cup {"owner"}
    BY DEF Streamed
  <2> QED BY <1>2, <2>1, Asked
<1>3. ASSUME NEW m \in Messages, NEW via \in Family, NEW v \in Relatives,
             Ask(m, via, v, FALSE) \/ RefuseTopic(m, via, v)
      PROVE  ExchangeInv'
  <2>1. /\ via \in {"rest"} \cup Streamed \cup Family /\ v \in Relatives \cup {"owner"}
        /\ FALSE \in BOOLEAN
    OBVIOUS
  <2> QED BY <1>3, <2>1, Asked, TopicRefused
<1> QED
  BY <1>1, <1>2, <1>3, ServicesChange, TimePasses, Announced, TextIngested, LearningSent,
     ContextLoaded, Searched, Generated, ReplyLost, Committed, Tracked, ReplySent, HandlerDies
     DEF ExchangeNext

\* Messages, knowledge and session agree with one another and with what the client was
\* told, whatever fails and whoever asks: the exchange of each message tells one story.
THEOREM ExchangeIsSound == ExchangeSpec => []ExchangeSound
<1>1. ExchangeInv => ExchangeSound
  <2> SUFFICES ASSUME ExchangeInv PROVE ExchangeSound
    OBVIOUS
  <2>1. Paired
    <3> SUFFICES ASSUME NEW m \in Messages, StoredOf(m) # {}
                 PROVE  /\ "question" \in StoredOf(m) /\ Cardinality(StoredOf(m)) <= 2
                        /\ StoredOf(m) = {"question"} =>
                             turn[m].via = "familyws" \/ told[m] = "error"
      BY DEF Paired
    <3>1. \A x : IsFiniteSet({"question", x}) /\ Cardinality({"question", x}) <= 2
      <4> TAKE x
      <4>1. IsFiniteSet({"question"}) /\ Cardinality({"question"}) = 1
        BY FS_Singleton
      <4>2. {"question", x} = {"question"} \cup {x}
        OBVIOUS
      <4> QED BY <4>1, <4>2, FS_AddElement
    <3>2. StoredOf(m) \in {{}, {"question"}} \/ Complete(m)
      BY StoredSoFar
    <3>3. "question" \in StoredOf(m) /\ Cardinality(StoredOf(m)) <= 2
      <4>1. StoredOf(m) = {"question", "question"} \/ \E x : StoredOf(m) = {"question", x}
        BY <3>2 DEF Complete
      <4> QED BY <3>1, <4>1
    <3>4. ASSUME StoredOf(m) = {"question"}
          PROVE  turn[m].via = "familyws" \/ told[m] = "error"
      <4>1. Stage(m) /\ Outcome(m) /\ turn[m].pc \in TurnPcs
            /\ told[m] \in {"nothing", "unavailable", "error"} \cup Ends
        BY TurnIs DEF ExchangeInv, ExchangeType, Story
      <4>2. ~Complete(m)
        BY <3>4 DEF Complete, Ends, Texts
      <4>3. CASE turn[m].pc = "idle"
        BY <3>4, <4>1, <4>2, <4>3 DEF Outcome, Complete
      <4>4. CASE turn[m].pc # "idle"
        BY <3>4, <4>1, <4>2, <4>4 DEF Stage, Unanswered, Answered, TurnPcs
      <4> QED BY <4>3, <4>4
    <3> QED BY <3>3, <3>4
  <2>2. AnswerStored
    <3> SUFFICES ASSUME NEW m \in Messages
                 PROVE  /\ told[m] \notin {"nothing", "unavailable", "error"} =>
                             told[m] \in StoredOf(m)
                        /\ told[m] = "unavailable" => StoredOf(m) = {} /\ cause[m] # {}
                        /\ told[m] \in {"part", "apology", "empty"} => cause[m] # {}
      BY DEF AnswerStored
    <3>1. UnderWay(m) /\ Outcome(m) /\ told[m] \in {"nothing", "unavailable", "error"} \cup Ends
      BY DEF ExchangeInv, ExchangeType, Story
    <3> QED BY <3>1 DEF UnderWay, Outcome, Explains, Ends, Texts
  <2>3. Taught
    <3>1. entries \subseteq vectors /\ vectors \subseteq Messages \X Nat
      BY DEF ExchangeInv, ExchangeType
    <3>2. ASSUME NEW e \in entries
          PROVE  /\ "question" \in StoredOf(e[1])
                 /\ \A w \in vectors : w[1] = e[1] => w[2] <= e[2]
      <4>1. e[1] \in Messages /\ e \in Named(e[1])
        BY <3>1 DEF Named
      <4>2. OneRow(e[1])
        BY <4>1 DEF ExchangeInv, Story
      <4> QED BY <4>1, <4>2 DEF OneRow, Made
    <3>3. ASSUME NEW m \in learned, At(m, "idle"), told[m] # "error"
          PROVE  \E e \in entries : e[1] = m
      <4>1. Outcome(m)
        BY DEF ExchangeInv, ExchangeType, Story
      <4> QED BY <3>3, <4>1 DEF Outcome, At, Named
    <3> QED BY <3>1, <3>2, <3>3 DEF Taught
  <2>4. SessionsShown
    <3> SUFFICES ASSUME NEW h \in history, h.what \in {"question", "refusal"},
                        h.at + SessionTtl > clock, h.of \notin untracked, turn[h.of].pc # "track",
                        NEW v \in Relatives, <<h.of, v>> \in asked
                 PROVE  session[v] > clock
      BY DEF SessionsShown
    <3>1. h.of \in Messages /\ h.at \in Nat /\ clock \in Nat /\ SessionTtl \in Nat
          /\ session[v] \in Nat
      BY ExchangeAssumption DEF ExchangeInv, ExchangeType, Kept
    <3>2. Noted(h.of)
      BY <3>1 DEF ExchangeInv, Story
    <3>3. session[v] >= h.at + SessionTtl
      BY <3>2 DEF Noted
    <3> QED BY <3>1, <3>3
  <2> QED BY <2>1, <2>2, <2>3, <2>4 DEF ExchangeSound
<1> QED BY <1>1, ExchangeInitial, ExchangeStep, PTL DEF ExchangeSpec
=============================================================================
