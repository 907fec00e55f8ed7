------------------------------- MODULE Legacy --------------------------------
(***************************************************************************)
(* Legacy mode of one owner (services/family_access.py): its configuration,*)
(* the owner who activates it, and the hourly pass of main.py that         *)
(* activates it for an owner who has been inactive.  The pass reads the    *)
(* configurations, then owner after owner, and commits once.  Time is in   *)
(* days; the row of the owner carries the time of its last UPDATE.         *)
(***************************************************************************)
EXTENDS Integers

CONSTANTS
  Activators,    \* the owner's requests to activate
  Pass,          \* the hourly pass
  Days,          \* inactivity_days
  MaxDay,        \* bound on time
  MaxConfigure   \* bound: configurations saved

ASSUME LegacyAssumption ==
  /\ Days \in Nat \ {0} /\ MaxDay \in Nat /\ MaxConfigure \in Nat /\ Pass \notin Activators

VARIABLES
  day,
  config,        \* the legacy_configs row
  edited,        \* the days the owner's row was written; the last one is updated_at
  spoke,         \* the days the owner sent a message
  actor,         \* the requests and the pass
  early          \* ghost: the actors under way when the mode was activated

legacyVars == <<day, config, edited, spoke, actor, early>>

Actors == Activators \cup {Pass}
NoConfig == [there |-> FALSE, trigger |-> "manual", active |-> FALSE, at |-> 0, by |-> "nobody", saves |-> 0]
UpdatedAt == CHOOSE d \in edited : \A e \in edited : e <= d

LegacyInit ==
  /\ day = 0 /\ config = NoConfig /\ edited = {0} /\ spoke = {}
  /\ actor = [a \in Actors |-> [pc |-> "idle", now |-> 0]] /\ early = {}

NextDay ==
  /\ day < MaxDay /\ day' = day + 1
  /\ UNCHANGED <<config, edited, spoke, actor, early>>

\* an UPDATE of the owner's row: profile, password, code, voice or face reference
EditOwner == edited' = edited \cup {day} /\ UNCHANGED <<day, config, spoke, actor, early>>

\* a message is a row of its own and leaves the owner's as it is
Speak == spoke' = spoke \cup {day} /\ UNCHANGED <<day, config, edited, actor, early>>

\* configure_legacy(): inserted or updated, active or not
ConfigureLegacy(trigger) ==
  /\ config.saves < MaxConfigure
  /\ config' = [config EXCEPT !.there = TRUE, !.trigger = trigger, !.saves = @ + 1]
  /\ UNCHANGED <<day, edited, spoke, actor, early>>

Begin(a, pc) == actor' = [actor EXCEPT ![a] = [pc |-> pc, now |-> day]]

\* BadBeginActivate and the other definitions named Bad... are faulty variants of
\* the definition that follows them, for the mutation runs only.
BadBeginActivate(a) ==
  /\ actor[a].pc = "idle" /\ config.there /\ Begin(a, "commit")
  /\ UNCHANGED <<day, config, edited, spoke, early>>

BeginActivate(a) ==
  /\ actor[a].pc = "idle" /\ config.there /\ ~config.active /\ Begin(a, "commit")
  /\ UNCHANGED <<day, config, edited, spoke, early>>

\* check_inactivity_triggers()
BeginPass ==
  /\ actor[Pass].pc = "idle"
  /\ config.there /\ ~config.active /\ config.trigger = "inactivity" /\ Begin(Pass, "owner")
  /\ UNCHANGED <<day, config, edited, spoke, early>>

BadReadOwner ==
  /\ actor[Pass].pc = "owner"
  /\ actor' = [actor EXCEPT ![Pass].pc =
                 IF UpdatedAt <= actor[Pass].now - Days THEN "commit" ELSE "idle"]
  /\ UNCHANGED <<day, config, edited, spoke, early>>

ReadOwner ==
  /\ actor[Pass].pc = "owner"
  /\ actor' = [actor EXCEPT ![Pass].pc =
                 IF UpdatedAt < actor[Pass].now - Days THEN "commit" ELSE "idle"]
  /\ UNCHANGED <<day, config, edited, spoke, early>>

\* the commit writes is_active and activated_at, whatever the row holds by then
Activate(a) ==
  /\ actor[a].pc = "commit" /\ actor' = [actor EXCEPT ![a].pc = "idle"]
  /\ config' = [config EXCEPT !.active = TRUE,
                  !.at = IF a = Pass THEN actor[a].now ELSE day,
                  !.by = IF a = Pass THEN "pass" ELSE "owner"]
  /\ early' = IF config.active THEN early \ {a}
              ELSE {b \in Actors \ {a} : actor[b].pc # "idle"}
  /\ UNCHANGED <<day, edited, spoke>>

\* the request or the loop is cancelled, or the process dies
Abandon(a) ==
  /\ actor[a].pc # "idle" /\ actor' = [actor EXCEPT ![a].pc = "idle"]
  /\ early' = early \ {a} /\ UNCHANGED <<day, config, edited, spoke>>

LegacyNext ==
  \/ NextDay \/ EditOwner \/ Speak \/ BeginPass \/ ReadOwner
  \/ \E trigger \in {"manual", "inactivity", "trusted_person"} : ConfigureLegacy(trigger)
  \/ \E a \in Activators : BeginActivate(a)
  \/ \E a \in Actors : Activate(a) \/ Abandon(a)

LegacySpec == LegacyInit /\ [][LegacyNext]_legacyVars

-----------------------------------------------------------------------------
\* The day legacy mode began is kept: only a request or a pass that was under way
\* when it was activated writes another one.
ActivationKept ==
  [][config.active /\ config'.at # config.at =>
       \E a \in early : actor[a].pc = "commit" /\ actor'[a].pc = "idle"]_legacyVars

\* The pass activates the mode for an owner whose row had not been written for more
\* than Days when the pass began, though it reads the row later.
ActivatedUntouched ==
  config.by = "pass" => \A e \in edited : e < config.at - Days \/ e >= config.at

\* What the settings page promises, "Legacy mode will activate after N days without
\* activity", for the activity of an owner who talks to the replica.
OnlyWhenInactive ==
  config.by = "pass" => \A d \in spoke : d < config.at - Days \/ d >= config.at
=============================================================================
