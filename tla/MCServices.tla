------------------------------ MODULE MCServices -----------------------------
\* The services of the API process that share no state (the budget of the external
\* LLM, page monitors, self-learning, the background loops, ingestion, search, training
\* data, accounts, push notifications, translation) in one run: each behaviour moves one
\* of them, chosen at the start.
EXTENDS Budget, Browsing, Learning, Loops, Ingestion, Retrieval, Training, Accounts, Push,
        Translation, TLC

CONSTANTS t1, t2, u1, u2, p1, p2, p3, p4, p5, p6, n1, n2, n3, ty1, ty2, ca1, w1, w2,
          a1, b1, B1, g1, g2

VARIABLE scene

MBrowsingStarts == {[edit |-> 3, pass |-> 3]}
MAutoLists == {<<t1, t2>>}
MGaps == {<<>>, <<t2>>}
MPrefStarts == {[enabled |-> TRUE, auto |-> <<t1, t2>>, ignore |-> {}],
                [enabled |-> FALSE, auto |-> <<>>, ignore |-> {}]}
MLearnStarts == {[fault |-> 1, prefs |-> 1, manual |-> 0], [fault |-> 1, prefs |-> 0, manual |-> 1]}
MChunks == u1 :> 2 @@ u2 :> 0
MIngestStarts == {[fault |-> 1, ask |-> 2, remove |-> 2]}

\* Four chunks of one entry, one each of two others; a scope of each kind.
MEntryOf == [p \in {p1, p2, p3, p4} |-> n1] @@ p5 :> n2 @@ p6 :> n3
MTypeOf == [p \in Points |-> IF p = p6 THEN ty2 ELSE ty1]
MCategoryOf == [p \in Points |-> IF p = p5 THEN ca1 ELSE Uncategorised]
MScopings == {[types |-> Anything, categories |-> Anything],
              [types |-> {ty1}, categories |-> {}], [types |-> {ty2}, categories |-> {ca1}]}
MClosenesses ==
  {w1 :> ([p \in {p1, p2} |-> 3] @@ [p \in {p3, p4} |-> a] @@ p5 :> b @@ p6 :> 3)
     @@ w2 :> ([p \in {p1, p2, p3, p4} |-> 2] @@ p5 :> b @@ p6 :> 1) :
       a \in {1, 3}, b \in {0, 2}}
MRetrievalStarts == {[store |-> 1, drop |-> 1]}

MTrainingStarts ==
  {[turn |-> 2, fact |-> 1, run |-> 1, persona |-> 1],
   [turn |-> 1, fact |-> 2, run |-> 2, persona |-> 1],
   [turn |-> 1, fact |-> 0, run |-> 2, persona |-> 3]}

MLower == a1 :> a1 @@ b1 :> b1 @@ B1 :> b1
MMailOf == g1 :> a1 @@ g2 :> b1
NoAccount == [setup |-> 0, google |-> 0, edit |-> 0, password |-> 0, profile |-> 0, check |-> 0,
              death |-> 0]
MAccountStarts ==
  {[NoAccount EXCEPT !.setup = 1, !.google = 3, !.edit = 1],
   [NoAccount EXCEPT !.setup = 1, !.edit = 1, !.password = 1, !.profile = 1, !.google = 1],
   [NoAccount EXCEPT !.setup = 1, !.profile = 2, !.check = 1, !.death = 1]}

NoPush == [join |-> 0, leave |-> 0, test |-> 0, go |-> 0, cast |-> 0]
MPushStarts ==
  {[NoPush EXCEPT !.join = 2, !.leave = 1, !.go = 1, !.cast = 1],
   [NoPush EXCEPT !.join = 2, !.leave = 1, !.go = 1, !.test = 1],
   [NoPush EXCEPT !.join = 3, !.leave = 1, !.test = 1]}
MTranslationStarts == {3}

Init ==
  /\ scene \in {"budget", "browsing", "learning", "loops", "ingestion", "retrieval", "training",
              "accounts", "push", "translation"}
  /\ BudgetInit /\ BrowsingInit /\ LearnInit /\ LoopsInit /\ IngestInit
  /\ RetrievalInit /\ TrainingInit /\ AccountsInit /\ PushInit /\ TranslationInit
  /\ scene # "budget" => limit = 0
  /\ scene # "learning" => learnLeft.manual = 0 /\ \A o \in Learners : ~prefs[o].enabled
  /\ scene # "retrieval" => collection = {} /\ closeness = CHOOSE c \in Closenesses : TRUE
  /\ scene # "training" => trainingLeft = CHOOSE b \in TrainingStarts : TRUE
  /\ scene # "accounts" => accountsLeft = CHOOSE b \in AccountStarts : TRUE
  /\ scene # "push" => pushLeft = CHOOSE b \in PushStarts : TRUE

Budgeting == scene = "budget" /\ UNCHANGED <<scene, browsingVars, learnVars, loopVars, ingestVars,
  retrievalVars, trainingVars, accountVars, pushVars, translationVars>>
Surfing == scene = "browsing" /\ UNCHANGED <<scene, budgetVars, learnVars, loopVars, ingestVars,
  retrievalVars, trainingVars, accountVars, pushVars, translationVars>>
Studying == scene = "learning" /\ UNCHANGED <<scene, budgetVars, browsingVars, loopVars, ingestVars,
  retrievalVars, trainingVars, accountVars, pushVars, translationVars>>
Looping == scene = "loops" /\ UNCHANGED <<scene, budgetVars, browsingVars, learnVars, ingestVars,
  retrievalVars, trainingVars, accountVars, pushVars, translationVars>>
Ingesting == scene = "ingestion" /\ UNCHANGED <<scene, budgetVars, browsingVars, learnVars, loopVars,
  retrievalVars, trainingVars, accountVars, pushVars, translationVars>>
Retrieving == scene = "retrieval" /\ UNCHANGED <<scene, budgetVars, browsingVars, learnVars, loopVars,
  ingestVars, trainingVars, accountVars, pushVars, translationVars>>
Teaching == scene = "training" /\ UNCHANGED <<scene, budgetVars, browsingVars, learnVars, loopVars,
  ingestVars, retrievalVars, accountVars, pushVars, translationVars>>
Registering == scene = "accounts" /\ UNCHANGED <<scene, budgetVars, browsingVars, learnVars, loopVars,
  ingestVars, retrievalVars, trainingVars, pushVars, translationVars>>
Notifying == scene = "push" /\ UNCHANGED <<scene, budgetVars, browsingVars, learnVars, loopVars,
  ingestVars, retrievalVars, trainingVars, accountVars, translationVars>>
Translating == scene = "translation" /\ UNCHANGED <<scene, budgetVars, browsingVars, learnVars, loopVars,
  ingestVars, retrievalVars, trainingVars, accountVars, pushVars>>

\* The actions of the components' next-state relations, one by one, so that TLC counts
\* each of them.
Next ==
  \/ \E q \in Queries : Budgeting /\ BeginQuery(q)
  \/ \E q \in Queries : Budgeting /\ CallProvider(q)
  \/ \E q \in Queries : Budgeting /\ RecordUsage(q)
  \/ \E l \in Limits : Budgeting /\ UpdateConfig(l)
  \/ Budgeting /\ DeleteConfig
  \/ Budgeting /\ NextHour
  \/ Budgeting /\ Wake
  \/ Budgeting /\ ResetBudgets
  \/ Budgeting /\ RestartLoop
  \/ \E m \in Monitors : Surfing /\ CreateMonitor(m)
  \/ \E m \in Monitors, s \in {"active", "paused"} : Surfing /\ UpdateMonitor(m, s)
  \/ \E m \in Monitors : Surfing /\ DeleteMonitor(m)
  \/ \E m \in Monitors : Surfing /\ PageChanges(m)
  \/ \E w \in Pollers : Surfing /\ BeginPass(w)
  \/ \E w \in Pollers, m \in Monitors : Surfing /\ CheckMonitor(w, m)
  \/ \E w \in Pollers : Surfing /\ CommitPass(w)
  \/ \E w \in Pollers : Surfing /\ AbandonPass(w)
  \/ \E o \in Learners, enabled \in BOOLEAN, auto \in AutoLists, ignore \in SUBSET Topics :
       Studying /\ UpsertPreferences(o, enabled, auto, ignore)
  \/ \E o \in Learners, t \in Topics : Studying /\ LearnNow(o, t)
  \/ \E r \in manual : Studying /\ LogNow(r)
  \/ Studying /\ BeginRoutine
  \/ \E o \in Learners : Studying /\ PassOver(o)
  \/ \E o \in Learners : Studying /\ ChooseTopics(o)
  \/ Studying /\ LearnTopic
  \/ Studying /\ LogTopic
  \/ Studying /\ FailOwner
  \/ Studying /\ EndRoutine
  \/ Studying /\ AbandonRoutine
  \/ Looping /\ Lifespan
  \/ \E r \in Restarts : Looping /\ RestartAll(r)
  \/ \E g \in 1..MaxGeneration, n \in 1..Loops : Looping /\ TaskEnds(g, n)
  \/ \E r \in Restarts : Looping /\ Resume(r)
  \/ \E u \in Uploads : Ingesting /\ Upload(u)
  \/ \E u \in Uploads : Ingesting /\ StoreChunk(u)
  \/ \E u \in Uploads : Ingesting /\ Complete(u)
  \/ \E u \in Uploads : Ingesting /\ FailJob(u)
  \/ Ingesting /\ CrashService
  \/ \E u \in Uploads : Ingesting /\ TaskExpires(u)
  \/ \E u \in Uploads : Ingesting /\ IngestText(u)
  \/ \E u \in Uploads : Ingesting /\ CommitText(u)
  \/ \E u \in Uploads : Ingesting /\ AutoPersist(u)
  \/ \E u \in Uploads : Ingesting /\ TimeOut(u)
  \/ \E u \in Uploads : Ingesting /\ InsertEntry(u)
  \/ \E c \in Clients, u \in Uploads : Ingesting /\ GetTaskStatus(c, u)
  \/ \E c \in Clients : Ingesting /\ InsertAsked(c)
  \/ \E d \in Removals, u \in Uploads : Ingesting /\ BeginDelete(d, u)
  \/ \E d \in Removals : Ingesting /\ DeleteVectors(d)
  \/ \E d \in Removals : Ingesting /\ DeleteRow(d)
  \/ Ingesting /\ CrashApi
  \/ \E p \in Points : Retrieving /\ StorePoint(p)
  \/ \E p \in Points : Retrieving /\ DropEntry(EntryOf[p])
  \/ \E via \in {"generate", "stream"}, scope \in Scopings, probes \in SUBSET Probes :
       Retrieving /\ ExtractQueries(via, scope, probes)
  \/ \E probe \in Probes, p \in Points, any \in BOOLEAN :
       Retrieving /\ SearchKnowledge(probe, IF any THEN Anything ELSE {TypeOf[p]})
  \/ \E probe \in Probes : Retrieving /\ RunProbe(probe)
  \/ Retrieving /\ FailProbe
  \/ Retrieving /\ RankSources
  \/ Retrieving /\ Generate
  \/ Retrieving /\ ShowResults
  \/ \E e \in Turns, t \in Talks, long \in BOOLEAN : Teaching /\ AskReplica(e, t, long)
  \/ \E e \in Turns, long \in BOOLEAN : Teaching /\ AnswerOwner(e, long)
  \/ \E f \in Facts : Teaching /\ StoreFact(f)
  \/ \E why \in {"train", "evaluate"} : Teaching /\ BeginGeneration(why)
  \/ Teaching /\ ReadFacts
  \/ Teaching /\ AskAboutFact
  \/ Teaching /\ AddPersonality
  \/ Teaching /\ BuildPrompt
  \/ Teaching /\ EvaluateModel
  \/ \E r \in Calls, a \in Addresses : Registering /\ SetupOwner(r, a)
  \/ \E r \in Calls : Registering /\ InsertOwner(r)
  \/ \E r \in Calls, o \in Owners, a \in Addresses : Registering /\ UpdateProfile(r, o, a)
  \/ \E r \in Calls, o \in Owners : Registering /\ SetPassword(r, o)
  \/ \E r \in Calls : Registering /\ CommitOwner(r)
  \/ \E r \in Calls : Registering /\ Refused(r)
  \/ \E r \in Calls : Registering /\ DropCall(r)
  \/ \E r \in Calls, g \in Googles : Registering /\ LookUpGoogle(r, g)
  \/ \E r \in Calls : Registering /\ LookUpMail(r)
  \/ \E r \in Calls : Registering /\ LinkGoogle(r)
  \/ \E r \in Calls : Registering /\ InsertViaGoogle(r)
  \/ \E r \in Calls, o \in Owners, k \in Kinds : Registering /\ EnrollProfile(r, o, k)
  \/ \E r \in Calls, k \in Kinds : Registering /\ ReadEnrolled(r, k)
  \/ \E r \in Calls, o \in Owners, k \in Kinds : Registering /\ CheckProfile(r, o, k)
  \/ \E r \in Calls, k \in Kinds : Registering /\ LogVerification(r, k)
  \/ \E r \in Asks, m \in Members, e \in Endpoints : Notifying /\ Subscribe(r, m, e)
  \/ \E r \in Asks, m \in Members, e \in Endpoints : Notifying /\ Unsubscribe(r, m, e)
  \/ \E r \in Asks : Notifying /\ CommitSubscribe(r)
  \/ \E r \in Asks : Notifying /\ RefuseSubscribe(r)
  \/ \E r \in Asks : Notifying /\ CommitUnsubscribe(r)
  \/ \E e \in Endpoints : Notifying /\ EndpointGoes(e)
  \/ \E r \in Asks, m \in Members : Notifying /\ SendTest(r, m)
  \/ \E s \in Sender : Notifying /\ Webpush(s)
  \/ \E s \in Sender : Notifying /\ CommitSend(s)
  \/ \E s \in Sender : Notifying /\ FailSend(s)
  \/ Notifying /\ BeginBroadcast
  \/ \E m \in Members : Notifying /\ BroadcastTo(m)
  \/ Notifying /\ EndBroadcast
  \/ \E r \in Translators, text \in Texts, tongue \in Tongues :
       Translating /\ AskTranslation(r, text, tongue)
  \/ \E r \in Translators : Translating /\ LookUpCache(r)
  \/ \E r \in Translators : Translating /\ MissCache(r)
  \/ \E r \in Translators : Translating /\ TranslateExternally(r)
  \/ \E r \in Translators : Translating /\ TranslateByModel(r)
  \/ \E r \in Translators : Translating /\ ModelRaises(r)
  \/ \E r \in Translators : Translating /\ StoreTranslation(r)
  \/ \E r \in Translators : Translating /\ KeepUnstored(r)
  \/ Translating /\ DayPasses

vars == <<scene, budgetVars, browsingVars, learnVars, loopVars, ingestVars, retrievalVars,
          trainingVars, accountVars, pushVars, translationVars>>

\* The event loop runs what is ready: a routine under way goes on and the next one
\* begins, a cancelled task ends and what awaits it resumes, a job ends and its
\* entry is written.
Spec == /\ Init /\ [][Next]_vars
        /\ WF_vars(Studying /\ RoutineStep)
        /\ WF_vars(Looping /\ LoopsStep)
        /\ WF_vars(Ingesting /\ IngestStep)
=============================================================================
