------------------------------ MODULE Learning -------------------------------
(***************************************************************************)
(* Self-learning (services/self_learner.py): the owners' preferences, what *)
(* they ask to learn, and the daily loop of main.py, which goes through    *)
(* the owners in one database session.  The search, the synthesis and the  *)
(* gap analysis are external: a topic is ingested or it is not.  An error  *)
(* of the database leaves the session refusing every later call; the       *)
(* handlers catch it and go on with the same session.                      *)
(***************************************************************************)
EXTENDS Integers, Sequences, SequencesExt

CONSTANTS
  Learners, Topics,
  PrefStarts,    \* what the preferences may be at first
  AutoLists,     \* sequences of topics the owner may ask for
  Gaps,          \* sequences of topics the gap analysis may answer
  MaxTopics,     \* learning_daily_max_topics
  LearnStarts    \* bounds: database errors, preferences saved, requests to learn

ASSUME LearningAssumption ==
  /\ MaxTopics \in Nat \ {0}
  /\ \A b \in LearnStarts : {b.fault, b.prefs, b.manual} \subseteq Nat
  /\ AutoLists \subseteq Seq(Topics) /\ Gaps \subseteq Seq(Topics)

VARIABLES
  prefs,         \* the learning_configs rows
  entries,       \* what was ingested: <<owner, topic>>
  learnLog,      \* the newest of the learning_logs: <<owner, topic, status>>
  routine,       \* the loop: where, the owners left, the owner, its topics, the session
  manual,        \* requests to learn a topic: ingested or not, the log still to come
  learnLeft      \* the bounds that are left

learnVars == <<prefs, entries, learnLog, routine, manual, learnLeft>>

Asleep == [pc |-> "sleep", todo |-> {}, on |-> 0, topics |-> <<>>, got |-> FALSE, broken |-> FALSE]

LearnInit ==
  /\ prefs \in [Learners -> PrefStarts]
  /\ entries = {} /\ learnLog = <<>> /\ manual = {} /\ routine = Asleep
  /\ learnLeft \in LearnStarts

Pay(what) == learnLeft[what] > 0 /\ learnLeft' = [learnLeft EXCEPT ![what] = @ - 1]

\* upsert_preferences(): the row is made on first use
UpsertPreferences(o, enabled, auto, ignore) ==
  /\ Pay("prefs")
  /\ prefs' = [prefs EXCEPT ![o] = [enabled |-> enabled, auto |-> auto, ignore |-> ignore]]
  /\ UNCHANGED <<entries, learnLog, routine, manual>>

(***************************************************************************)
(* learn_topic(), by itself and within the routine: ingest, then the log.  *)
(***************************************************************************)
Status(got) == IF got THEN "completed" ELSE "failed"
Ingested(o, t, got) == entries' = IF got THEN entries \cup {<<o, t>>} ELSE entries

LearnNow(o, t) ==
  /\ Pay("manual")
  /\ \E got \in BOOLEAN : Ingested(o, t, got) /\ manual' = manual \cup {<<o, t, Status(got)>>}
  /\ UNCHANGED <<prefs, learnLog, routine>>

\* the log is committed, or its commit fails and the request with it
LogNow(r) ==
  /\ r \in manual /\ manual' = manual \ {r}
  /\ \/ learnLog' = r /\ UNCHANGED learnLeft
     \/ Pay("fault") /\ UNCHANGED learnLog
  /\ UNCHANGED <<prefs, entries, routine>>

(***************************************************************************)
(* _daily_learning_loop() and daily_learning_routine().                    *)
(***************************************************************************)
\* BadBeginRoutine and the other definitions named Bad... are faulty variants of the
\* definition that follows them, for the mutation runs only.
BadBeginRoutine ==
  /\ routine.pc = "sleep"
  /\ routine' = [routine EXCEPT !.pc = "owners", !.todo = {o \in Learners : prefs[o].enabled}]
  /\ UNCHANGED <<prefs, entries, learnLog, manual, learnLeft>>

\* a new session
BeginRoutine ==
  /\ routine.pc = "sleep"
  /\ routine' = [Asleep EXCEPT !.pc = "owners", !.todo = {o \in Learners : prefs[o].enabled}]
  /\ UNCHANGED <<prefs, entries, learnLog, manual, learnLeft>>

Upto(s) == IF Len(s) > MaxTopics THEN SubSeq(s, 1, MaxTopics) ELSE s
Wanted(p) == Upto(SelectSeq(p.auto, LAMBDA t : t \notin p.ignore))

\* the owner's topics first, then gaps while there is room
SelectTopics(p, gaps) ==
  Upto(FoldLeft(LAMBDA s, t : IF Len(s) >= MaxTopics \/ t \in p.ignore \cup ToSet(s)
                              THEN s ELSE Append(s, t),
                Wanted(p), gaps))

\* the preferences are read again; a session that refuses, a routine switched off
\* since, or no topics
PassOver(o) ==
  /\ routine.pc = "owners" /\ o \in routine.todo
  /\ \/ routine.broken
     \/ ~prefs[o].enabled
     \/ \E gaps \in Gaps : SelectTopics(prefs[o], gaps) = <<>>
  /\ routine' = [routine EXCEPT !.todo = @ \ {o}]
  /\ UNCHANGED <<prefs, entries, learnLog, manual, learnLeft>>

ChooseTopics(o) ==
  /\ routine.pc = "owners" /\ o \in routine.todo
  /\ ~routine.broken /\ prefs[o].enabled
  /\ \E gaps \in Gaps :
       /\ SelectTopics(prefs[o], gaps) # <<>>
       /\ routine' = [routine EXCEPT !.pc = "learn", !.on = o, !.todo = @ \ {o},
                                     !.topics = SelectTopics(prefs[o], gaps)]
  /\ UNCHANGED <<prefs, entries, learnLog, manual, learnLeft>>

\* an error of the database on the way is swallowed, and the topic ingested or not
LearnTopic ==
  /\ routine.pc = "learn"
  /\ \E got \in BOOLEAN, broken \in BOOLEAN :
       /\ Ingested(routine.on, Head(routine.topics), got)
       /\ IF broken THEN Pay("fault") ELSE UNCHANGED learnLeft
       /\ routine' = [routine EXCEPT !.pc = "log", !.got = got, !.broken = @ \/ broken]
  /\ UNCHANGED <<prefs, learnLog, manual>>

Logged(r, status) ==
  /\ learnLog' = <<r.on, Head(r.topics), status>>
  /\ routine' = [r EXCEPT !.pc = IF Len(r.topics) = 1 THEN "owners" ELSE "learn",
                          !.topics = Tail(@), !.got = FALSE]

LogTopic ==
  /\ routine.pc = "log" /\ ~routine.broken /\ Logged(routine, Status(routine.got))
  /\ UNCHANGED <<prefs, entries, manual, learnLeft>>

\* the commit fails, and so does the one that would log the failure: the exception
\* ends the owner's routine
FailOwner ==
  /\ routine.pc = "log"
  /\ IF routine.broken THEN UNCHANGED learnLeft ELSE Pay("fault")
  /\ routine' = [routine EXCEPT !.pc = "owners", !.topics = <<>>, !.got = FALSE, !.broken = TRUE]
  /\ UNCHANGED <<prefs, entries, learnLog, manual>>

EndRoutine ==
  /\ routine.pc = "owners" /\ routine.todo = {} /\ routine' = [routine EXCEPT !.pc = "sleep"]
  /\ UNCHANGED <<prefs, entries, learnLog, manual, learnLeft>>

\* the loops are restarted, or the process dies
AbandonRoutine ==
  /\ routine.pc # "sleep" /\ Pay("fault") /\ routine' = Asleep
  /\ UNCHANGED <<prefs, entries, learnLog, manual>>

RoutineStep ==
  \/ BeginRoutine \/ LearnTopic \/ LogTopic \/ FailOwner \/ EndRoutine
  \/ \E o \in Learners : PassOver(o) \/ ChooseTopics(o)

LearnNext ==
  \/ \E o \in Learners :
       \/ \E enabled \in BOOLEAN, auto \in AutoLists, ignore \in SUBSET Topics :
            UpsertPreferences(o, enabled, auto, ignore)
       \/ \E t \in Topics : LearnNow(o, t)
  \/ \E r \in manual : LogNow(r)
  \/ RoutineStep \/ AbandonRoutine

LearnSpec == LearnInit /\ [][LearnNext]_learnVars

-----------------------------------------------------------------------------
\* Each of the first MaxTopics topics an owner wants is tried again and again, as
\* long as the preferences stay: an error, of this owner or of one before it, costs
\* the owners left that day's routine and no other.
WantedIsTried ==
  \A o \in Learners, t \in Topics :
    <>[](prefs[o].enabled /\ t \in ToSet(Wanted(prefs[o]))) =>
      []<>(routine.pc = "log" /\ routine.on = o /\ Head(routine.topics) = t)
=============================================================================
