# Replica AI in TLA+

Replica AI keeps a conversational replica of its owner: the owner and invited
family members talk to it, it learns from documents and from the web, its
language model is rebuilt from the owner's messages, its data is copied to other
instances, and it pays for its own hosting. This directory models the parts of
it where several activities write the same rows or keys, checks them with TLC
and proves central facts about them with TLAPS.

Paths below are under `src/apps/api/app/` unless they begin with `src/`.

| module | what it is |
| --- | --- |
| `Billing` | hosting payments, survival mode, Stripe's webhooks, the daily pass |
| `FineTune` | model versions: jobs, pruning, rollback, model switch, auto-trigger |
| `Training` | the pairs a version is made of, its prompt, its evaluation |
| `Conversation` | messages of a thread, context, rolling summary, personality analysis, paging |
| `Exchange` | one message through all its awaits and commits, with services that fail |
| `VoiceCall` | the frames of a voice or video call and the handler that takes them |
| `Replication` | the registry of instances and the synchronisation engine |
| `Delivery` | what synchronisation promises; `Replication` implements it |
| `Guard` | the identity guard: score, lockout, challenges, known devices |
| `RateLimit` | the attempt counter of the sign-ins, command by command |
| `Access` | rules, invites and the family code; what a family session sees |
| `Legacy` | legacy mode and the hourly pass that activates it |
| `Sessions` | sign-ins, refreshes and sign-outs of several browsers and tabs |
| `TwoFactor` | setting up, verifying and disabling the second factor |
| `Exports` | the archives of all data: build, check, mark, serve |
| `Accounts` | making, linking and editing accounts; face and voice profiles |
| `Budget` | the monthly budget of an external model |
| `Browsing` | page monitors and the passes of the workers over them |
| `Learning` | the daily routine of self-learning |
| `Loops` | the background tasks and their restarts |
| `Ingestion` | upload, task record, vectors and row of a knowledge entry |
| `Retrieval` | which entries an answer is grounded in |
| `Push` | browsers' subscriptions, notifications, broadcasts |
| `Translation` | translations and their cache |
| `BillingProofs`, `FineTuneProofs`, `ConversationProofs`, `ReplicationProofs`, `SecurityProofs`, `FamilyProofs`, `KnowledgeProofs`, `ServicesProofs` | the theorems about them |
| `MCBilling`, `MCFineTune`, `MCConversation`, `MCReplication`, `MCHousehold`, `MCServices`, `MCExchange`, `MCLegacy`, `MCPush` | the instances TLC checks, one `.cfg` per question |

`PROJECT.json` maps every definition to the lines it models, lists the runs, a
faulty variant for every property (the definitions named `Bad...`), the hazards
and the theorems.

## 1. The system

### Processes and shared state

* The **API** (FastAPI) runs as four worker processes
  (`src/apps/api/Dockerfile:57`). Each of them serves requests and sockets on
  one event loop and each starts all seven background loops (`main.py:30-151`).
* **PostgreSQL** through SQLAlchemy with `expire_on_commit=False`
  (`core/database.py:7-13`): a session keeps what it read, does not see what
  others commit, and an UPDATE writes the columns that the session changed.
  `x += 1` writes the sum of what was read. An UPDATE of a row that has gone
  raises; a DELETE of one passes with a warning. No statement locks a row.
* **Redis** holds summaries, counters, scores, challenges, lockouts, refresh
  slots, sessions and task records, with expiries, one command at a time.
* The **AI service** (`src/apps/ai`) calls Ollama and Qdrant, and runs jobs of
  its own.
* **Stripe** takes payments and sends webhooks, late, repeated or never. Other
  **instances** of the replica answer, refuse, or answer nonsense.
* The **web and mobile clients** use the same requests and sockets.

Every `await` of a handler is a point where any other handler may run, in this
process or another. So all modules have one shape: the committed rows and keys,
and per open handler the snapshot it read and the point it has reached (`pc`).

### Components

| component | state | operations | what is hard | what makes it correct | modelled in |
| --- | --- | --- | --- | --- | --- |
| hosting billing (`services/self_manager.py`, `routers/billing.py`) | `billing_configs` | set up, subscribe, cancel, auto-pay, webhooks, daily check | the daily pass holds the rows of all owners while it awaits Stripe; four workers; replies of Stripe that are lost; a crash between charge and commit | a charge that is recorded is not repeated, what it paid for is never taken back, auto-pay that is off stops the charges, overdue owners are settled | `Billing` |
| survival settings (same files) | grace period, switches | update, check | nothing else writes them | – | – |
| fine-tuning (`services/fine_tuner.py`, `routers/finetune.py`, `routers/model.py`) | `model_versions`, the Ollama model, trigger counter, training pairs | start, complete, prune, roll back, switch, auto-trigger, evaluate | jobs that outlive requests, commits between activation and deactivation, an error handler whose own commit fails, data that arrives during a run | active versions are completed, numbers ascend but for twins, N are kept, a job without company leaves order, a job settles; pairs that belong together | `FineTune`, `Training` |
| conversations (`services/conversation.py`, `routers/chat.py`) | messages, threads, summary in Redis | ask, answer, refuse, intervene, summarise, page | commits long after the timestamp, timestamps of one millisecond, several turns summarising at once, expiry | a message is in a context once unless three share a millisecond, paging misses only what shares one | `Conversation`, `Exchange` |
| family chat (`routers/family_chat.py`, `services/family_chat.py`) | threads, sessions in Redis | ask, refuse a topic, track | the question is committed before the answer | stored, told and shown agree | `Exchange` |
| personality analysis, language (`services/personality.py`, `services/multilingual.py`) | profile, `messages_analyzed`, cache | analyse, refresh, translate | a counter read before and written after a long await; overlapping misses | the counter is ahead of the messages by a batch per forced refresh at most; an answer belongs to its request | `Conversation`, `Translation` |
| voice and video (`routers/voice_chat.py`, `routers/video_call.py`) | buffers of the socket, the call's thread | record, transcribe, answer, face frames | frames overtake what the handler waits for | no audio of another turn; one thread; faces answered | `VoiceCall` |
| instances and synchronisation (`services/instance_manager.py`, `services/sync_engine.py`) | instances, `last_sync_at`, logs, conflicts, copies at the peers | register, heartbeat, probe, promote, stale check, full, incremental and automatic sync, weights, resolve | swallowed failures, marks moved at the end, deregistration during a sync, restarts | every gap has a reason; own versions are only replaced knowingly; a live instance comes back online | `Replication`, `Delivery` |
| external LLM gateway (`services/external_llm.py`) | `spent_this_month_usd` | query, edit, delete, reset | check, await, add; a reset in between | what is spent is what was paid unless queries overlap; the reset happens | `Budget` |
| monitors, browsing (`services/web_browser.py`) | monitors, page log, domain rules | create, edit, delete, check all; `browse()` raises before it fetches | one commit after many fetches, in every worker | a change is swallowed less often than there are workers, never with one; a pause is kept | `Browsing` |
| self learning (`services/self_learner.py`) | preferences, log | routine, learn now, edit | one session for all owners, a failure in the middle | every wanted topic is tried again | `Learning` |
| background loops (`core/background_loops.py`, `main.py`) | task table | start, restart | restart awaits each task while another restart runs | one task per loop, none lost, restarts end | `Loops` |
| identity guard (`services/identity_guard.py`) | score, challenge, lockout, devices | check, challenge, evaluate | read, await, write back; three expiries | the score is backed by what happened | `Guard` |
| family access, legacy mode (`services/family_access.py`, `routers/family_access.py`) | rules, invites, code, legacy config | edit, invite, validate, log in, activate | counters over awaits; a pass over all rows with one commit | an invite is used as often as it says; a session sees what its rule permits; activation once | `Access`, `Legacy` |
| attempt limits (`core/rate_limit.py`) | counter, lockout | check, record, clear | several Redis commands per operation | the limit holds up to overlap; counters expire | `RateLimit` |
| authentication (`services/auth.py`, `routers/auth.py`, `src/apps/web/src/lib/api.ts`) | refresh slot, owners | sign in, refresh, sign out, link, edit, enrol | one slot per owner; unique indexes decide last | the slot is explained; columns, links and profiles are kept | `Sessions`, `Accounts` |
| security settings (`services/security.py`, `routers/security.py`) | second factor, exports, files | set up, verify, disable; build, download | overlapping requests, dropped downloads | confirmed secrets only; codes once; exports served once | `TwoFactor`, `Exports` |
| knowledge (`routers/knowledge.py`, `src/apps/ai`) | rows, vectors, task records | upload, poll, persist, delete, search | three stores never written together | rows are indexed, orphans are explained; nothing better is left out | `Ingestion`, `Retrieval` |
| retries, degraded mode (`core/retry.py`, `core/degraded.py`) | – | retry | a lost reply | stored once | `Exchange` |
| push (`services/push.py`) | subscriptions | subscribe, remove, send, broadcast | rows that go during a send; what the push service rejected is not pruned | subscribed stays subscribed; counts agree; what is gone is pruned (it is not) | `Push` |
| administration (`services/admin`) | – | broadcast, restart | – | – | `Push`, `Loops` |
| request limits (`core/request_limits.py`, `core/security_middleware.py`) | token bucket per process | take | no await | – | – |
| web and mobile clients (`src/apps/web`, `src/apps/mobile`) | sockets, offline queue | send, reconnect | redelivery | – | calls and tabs only |

The components meet in few places. A chat message may start an ingestion, an
analysis and a fine-tune; a model switch starts a fine-tune; entering survival
mode switches browsing and external models off; the loops drive billing,
synchronisation, legacy mode, the budget reset, monitors and learning. Where two
share state, one module holds both (the chat exchange and the knowledge it
stores, the fine-tune and its data); where they only call each other, the call
is an input of the callee.

## 2. The modules

In every module an action is the code between two awaits that another actor can
see. A handler's record holds its control point and what it read; "begin"
actions read, later ones write what was computed from that reading. History
variables (`confirmed`, `excused`, `together`, `tangled`, ...) record what
happened so that a property can refer to it; no action's guard depends on them.
`...Left` variables count the bounds of a run down.

### Billing

A row of `billing_configs` is a record (`Row`), and the computations of the
service on a row are functions from rows to rows: `RenewSucceeded`,
`RenewFailed`, `InvoiceSucceeded`, `InvoiceFailed`, `Subscribed`,
`SubscriptionDeleted`. `Merge` is the session's UPDATE: a column is written iff
the handler changed it, and every other column keeps what is committed by then.

| in the model | in the code |
| --- | --- |
| `StartPass`, then per owner `CheckIdle`, `CheckCharged` or `CheckDeclined` | `SelfPreservation.daily_check`: one SELECT of all rows, then `_check_single_owner` and `renew_hosting`, with a commit per owner. `except stripe.StripeError` is one branch: `CheckDeclined` is a charge that Stripe refused, or one it made and whose reply was lost |
| `CrashPass` | the process dies in the pass, before or after Stripe took the money |
| `StartRequest`, `Deliver`, then `Finish...` | the handlers of `routers/billing.py`; the row is read at the start and committed at the end |
| `SettleInvoice`, `EndSubscription` | Stripe (external). An event stays in `events` until it is delivered for the last time, perhaps for ever |
| `ledger` | Stripe's successful one-time charges, which the database does not hold: the day, whether the row came to know of it (`known`), and whether no other worker's pass was open (`alone`) |
| `unwilled` | a history variable: the charges since auto-pay was switched off |

Survival mode's countdown only writes a log line, so the pass does nothing
then. Payment logs, card data, `auto_pay_llm` and the switches turned off in
two other tables are left out: nothing reads them back here.

### FineTune and Training

`FineTune` has the rows of one owner, by id; `None` before the insert and after
the delete. A job is an asyncio task with a control point between any two
awaits: number, insert, build the model, complete, select the others, deactivate
them, select the stale ones, delete. Rollback, model switch and the auto-trigger
are handlers of two steps, a read and a commit. The four statuses between
creation and completion are one, `"running"`: the code never tells them apart.
`Activate` is an UPDATE by primary key: it skips a row that has gone, and
SQLAlchemy then raises, which is `DeactivateFails` and `SwitchFails`. The job's
error handler sets `failed` and commits the same session, which was not rolled
back and refuses: the row stays completed, and active. `born` remembers the
number of each row and how many rows there were when it was computed; `alone`
says that no more than one task is open, and `tangled` that tasks overlapped or
died since the last job that ran to its end without company.

`Training` is what happens inside one preparation: the messages are read
(`BeginGeneration`), then the entries (`ReadFacts`), the model is asked about
one entry after the other (`AskAboutFact`), the personality is added as far as
there is room, and the prompt takes `PerSource` pairs of each source
(`BuildPrompt`), while `AskReplica`, `AnswerOwner` and `StoreFact` go on.
`EvaluateModel` makes its samples anew from what is there then. Rows are read
by thread and by `created_at`: `InOrder` picks the one enumeration of them that
ascends (`Before`).

### Conversation, Exchange and VoiceCall

In `Conversation` a message is its place in the order of the flushes, and
`stamp` is its `created_at` in milliseconds, which several may share (`Now`); it
is taken when the message is flushed (`conversation.py:161-181`), and others see
the message when its transaction commits. A turn is a handler that walks through
`_process_message` (`routers/chat.py:122-254`): question, summary, window,
profile, answer, commit, `maybe_summarize` in four steps, and for an owner's
request the analysis. A request is rolled back when the AI service fails and
ends with the analysis; a socket answers anyway and does not analyse; a family
socket commits the question before the answer. `Refuse` and `Intervene` are the
other two writers. The pager is a client that follows `before` until the server
says there is no more; the next page begins strictly before a stamp. SQL's
`ORDER BY ... LIMIT n` is a predicate (`IsNewest`, `IsOldest`) on the set of
rows it returns. `Refresh` is the client's forced analysis, which takes the
newest messages whether they are analysed or not; rows of one stamp come in any
order.

`Exchange` is the same walk seen from one message and from the services it needs:
Ollama, Qdrant and Redis are up or down (`Fail`, `Recover`), a reply of the AI
service may be lost after its work was done (`LoseReply`), and `core/retry.py`
sends it again up to `Attempts` times. The four routes (`rest`, `ws`, and the
family's two) differ in what they commit when. It holds the messages, the
knowledge rows and vectors of what was taught, and the family session keys.

`VoiceCall` has the wire between view and handler in order, the handler's place
(`outer`, collecting, verifying a face, transcribing, answering, speaking), its
buffer and the thread of the call. Wherever the handler waits for a frame it
takes the next one, whatever it is.

### Replication and Delivery

`Replication` keeps the registry rows, what each instance holds of entries, a
thread, an access rule and model weights (`store`, `weights`), the logs and the
conflicts. A row of a table is flushed, which gives it its `created_at`
(`Flush`), and others see it when its transaction commits (`Create`) or never do
(`Rollback`). A session is one request's or the automatic pass's; its steps are
`StartSync`, `SelectEntries`, `GetRemoteEntryIds`, per entry
`CheckEntryConflict` and the transfer, `SyncConversations`, `SyncAccessRules`,
`FinishSync`; weights have `ListModels` and one step per model. What a peer
answers is an input: taken, refused, or an answer that is no JSON. A restart
ends all sessions. The registry's stale check and the probes read, await and
write. The heartbeats come from outside.

`Delivery` has three variables and five actions: a copy that is there stays
there, an instance may change its copy, and such a version is replaced only
after a conflict was recorded, or by a sync that believes the instance holds no
copy (its list of ids was refused or unreadable). The refinement mapping takes
`store` restricted to entries, the pairs of the conflicts, and the pairs some
session is about to send unasked.

### The household: Guard, RateLimit, Access, Legacy, Sessions, TwoFactor, Exports

* `Guard`: `BeginCheck` reads lockout, score and devices, `CheckNewDevice`,
  `RememberDevice`, `SetScore` and `Challenge` write; an answer is
  `BeginAnswer`, `JudgeAnswer` (the model's verdict), `EvaluateChallenge`. The
  three keys have their own lives.
* `RateLimit`: every action is one Redis command of `check_rate_limit`,
  `record_attempt` and `clear_attempts`.
* `Access`: `MatchInvite`, `CheckRule`, `UseInvite` are `validate_invite`;
  `Permits` and `ListFamilyAssets` are the two places that apply a scope.
* `Legacy`: the pass is `BeginPass`, then per owner `ReadOwner` and one commit
  for all.
* `Sessions`: `slot` is the days the one key of an owner still lives;
  `StoreRefreshToken`, `RefreshTokens`, `Revoke`, `Logout` are its commands,
  `TryRefresh` and `ClearTokens` the web client's side.
* `TwoFactor`: secret, flag and codes are read, worked on and written by column.
* `Exports`: `BuildArchive` or `StopBuilding` ends the background task; a
  download checks the status, marks it, and serves.

### The services: Budget, Browsing, Learning, Loops, Ingestion, Retrieval, Accounts, Push, Translation

* `Budget`: `BeginQuery` reads the amount, `CallProvider` awaits, `RecordUsage`
  writes the sum of what was read; `Wake` and `ResetBudgets` are the loop.
* `Browsing`: each worker has a pass of its own. It loads the active monitors,
  `CheckMonitor` fetches one, `CommitPass` writes the columns it changed of all
  (`Merged`); a deleted row makes the commit fail and a restart loses the pass
  (`AbandonPass`).
* `Learning`: `BeginRoutine`, per owner `ChooseTopics`, per topic `LearnTopic`
  and `LogTopic`; `FailOwner` leaves the shared session refusing.
* `Loops`: tasks are numbered by the restart that made them; `RestartAll`
  cancels, `Resume` goes on after an awaited task ended.
* `Ingestion`: job, task record, vectors, row and deletions, each in its store,
  with deaths of either service and polls by clients.
* `Retrieval`: probes run one after the other while points are stored and
  dropped; filters, over-fetch, threshold, merging and cut as in the code.
* `Accounts`: each request reads, awaits and commits its columns, and the unique
  indexes refuse what clashes.
* `Push`: rows by endpoint; sending reads the rows, posts, deletes those whose
  answer it sees to be 404 or 410 (`Seen`: an answer of 400 or more is false, so
  none), and updates the rest; the broadcast shares a session.
* `Translation`: cache look-up, external service, model, store.

Inputs that the code takes from a model or a sensor (is the answer right, does
the face match, how close is a chunk) are chosen freely.

## 3. What is checked

TLC explores all interleavings of the instances below. Every run finishes; the
numbers are distinct states, up to the exchange of alike workers, jobs or handlers
where the configuration declares a symmetry (it never does with liveness).

| run | question | instance | states |
| --- | --- | --- | --- |
| `billing_overlap` | Two workers' passes, a request, a lost reply or a crash: a period is charged again only after a charge that was not recorded or was made while passes overlapped; auto-pay that is off stops the charges | 2 workers, 1 request, 1 subscription, a fault, counter to 3, 3 days | 2.8 million |
| `billing_live` | One worker's pass against a request and webhooks on stale snapshots: what a recorded charge paid for is never taken back, and an overdue owner is settled | 1 worker, 1 request, 1 subscription, 1 invoice, a fault, counter to 3, 2 days | 276 thousand |
| `billing_workers` | Is a period charged once with the workers of the production image? No: a violation | 2 workers, 1 request, no fault, 4 days | found at 21 thousand |
| `finetune_overlap` | Jobs, prunes, rollbacks, switches and a death in every order: active is completed, numbers ascend but for twins, pruning keeps the newest, and a job without company restores order | 2 jobs, 1 request, 3 rows, keep 1, trigger at 1 message, a death | 443 thousand |
| `finetune_crash` | Does a job in progress always settle? No: a violation | 1 job, 1 row, a death | found at 100 |
| `conversation_thread` | All kinds of turns, a pager, an expiring summary, messages of one millisecond, a forced refresh: what is repeated or missed shares its stamp, the counter is bounded | 2 handlers, 4 messages, window 1, batch 1, threshold 2, page 1, analysis of 2, 1 forced | 2.4 million |
| `replication` | Overlapping syncs with late commits, refusals, garbled answers and a restart: gaps and open logs are explained, the copies keep `Delivery`'s promise, the living come back online | 2 instances, 1 entry or a thread and a rule, 1 model, clock to 2 | 429 thousand |
| `household` | What a late write of one request may undo of another's, for the nine components around an owner | see below | 904 thousand |
| `services` | The same for the ten services of the process, with their loops, and what they owe | see below | 205 thousand |
| `exchange_degraded` | Is a message answered without Qdrant? No: a violation | 1 message | found at 150 |
| `legacy_speaking` | Is legacy mode activated only for the inactive? No: a violation | 3 days, limit 1 | found at 2 thousand |
| `push_gone` | Is a subscription pruned that the push service rejects as gone? No: a violation | 2 owners, 2 endpoints, one goes | found at 2 thousand |

`household` and `services` bundle components that share no state: a behaviour
picks a `scene` at the start and moves that component only, so the run is the
sum of its scenes and not their product. `replication` in the same way is the
sum of four starts (`MCStarts`): a registry that fills from nothing, a sync with
a restart and a change in the registry, two syncs of an entry, two syncs of a
thread and a rule.

| scene | instance | properties |
| --- | --- | --- |
| guard | 2 checks, 2 answers, 1 challenge, 3 devices with 2 remembered, 1 tick | `ScoreBacked` |
| limit | 3 sign-ins, limit 2, a death | `AttemptsBounded`, `CounterExpires` |
| access | 1 rule of each kind of scope, 2 invites of up to 2 uses, 2 visitors, 2 openers | `AccessSound` |
| legacy | 1 activator and the pass, limit 1 day of 3, 2 configurations | `ActivatedUntouched`, `ActivationKept` |
| sessions | 2 tabs in 2 browsers, lifetime 2 of 4 days, 2 sign-ins, a death | `SlotExplained` |
| factor | 2 requests, 2 codes, 2 setups, 3 verifications, 1 disabling | `FactorSound` |
| exports | 2 exports, 2 downloads, 4 asks, 2 drops | `ExportsSound` |
| exchange | 2 messages, 1 relative, 2 attempts, an outage or a lost reply or two ticks | `ExchangeSound` |
| call | 2 recordings, 3 frames on the wire, a face frame and a cancel, or a text | `CallsSound` |
| budget | 2 queries of cost 1 or 2, limit 2 or none, months of 2 hours, 4 hours, an edit, a restart | `BudgetSound` |
| browsing | 1 monitor, 2 workers, 3 edits, 3 passes | `ChangesReported`, `PausesKept` |
| learning | 2 owners, 2 topics, 1 a day, a fault, an edit or a request | `WantedIsTried` |
| loops | 3 loops, 2 restarts | `LoopsRun`, `RestartEnds` |
| ingestion | 2 uploads (of 2 chunks and a text), 2 polls, 2 deletions, a fault | `StoresAgree`, `DeletedStays`, `UploadIsKept` |
| retrieval | 6 chunks of 3 entries, 2 probes, 3 scopes, top 2, over-fetch 2 | `RetrievalSound` |
| training | 2 exchanges in 2 threads, 3 entries, up to 4 pairs, 2 runs | `TrainingSound` |
| accounts | 3 owners, 3 addresses of which two differ in case, 2 Google accounts, 2 calls, a death | `AccountsSound` |
| push | 2 owners, 2 endpoints, 2 requests and a broadcast | `PushSound` |
| translation | 1 text, 2 languages, 2 requests, lifetime 2, clock 3 | `TranslationSound` |

What the compound properties say:

* `SyncInv`: an open log belongs to a running session, a process that has gone,
  or a deregistered instance; an item older than the mark of an instance that
  lacks it was passed over for one of six reasons the comment at
  `GapsExplained` lists.
* `AccessSound`: the uses of an invite agree with its row unless two visitors
  overlapped; the list and the filter of a scope agree but for uncategorised
  entries; the family code shown stays the code.
* `SlotExplained`: a live token can be refreshed and a sign-out holds, but for
  the overlaps and deaths named.
* `FactorSound`: a secret in force was confirmed by a code; a backup code is
  accepted once.
* `ExportsSound`: an archive is sent no more often than requests were past its
  check together; an archive in the clear is left only by a build that stopped.
* `ExchangeSound`: questions and answers are stored in pairs; what the client is
  told is what is stored; what was taught is one row with its vectors; a thread
  in use is among the active sessions.
* `CallsSound`: no audio of an earlier turn; one thread; announced in order what
  is stored; face frames answered.
* `BudgetSound`: without overlap the amount is the sum paid; whatever overlaps,
  it passes the limit by at most one query; each month has its reset or a reason.
* `StoresAgree`: a row has its vectors; vectors without a row come of a failure.
* `RetrievalSound`: what is shown is permitted, stored and relevant, and nothing
  better is left out unless the chunks of fewer entries filled the over-fetch.
* `TrainingSound`: prompts are paired with their own answers, clear exchanges
  are all used, samples are apart from what is baked in, but for small sources.
* `AccountsSound`: columns hold the last commit's value; a Google account leads
  to one row; profiles named are on disk and nobody else's.
* `PushSound`: a subscribed browser stays subscribed, once; counts are
  deliveries, unless a browser unsubscribed between a delivery and its commit.
* `VersionsInv`: active versions are completed; unless tasks overlapped or died
  since, the last job that ran alone left one active version and at most `Keep`.
* `LoopsRun`: restarts neither lose nor double a loop unless they overlap.

**Why the bounds are enough.** The properties compare two handlers, or two
charges, versions, messages, tokens or copies; none needs a third actor to
break (three sign-ins exceed the limit of two), and for the modules with proofs
they hold for every number. `Period` is one day: the 30 days of the code only
lengthen the stretches in which the expiry step does nothing. Days 0 to 2
hold two charges that are a period apart and a declined series; `MaxCount` is the
three declines at which survival mode begins. Three rows let two versions be
pruned by a third, or by each other where two share a number, and one fail.
Four messages exceed the threshold by enough for a second summary after the
first expired, and let three share a stamp. Sizes keep the
code's proportions: its threshold (50) equals batch plus window (30 + 20), the
model's 2 = 1 + 1. Lifetimes are two ticks where the order of two expiries
matters. Four chunks of one entry fill the over-fetch. Every property has a
faulty variant of the code that violates it within these bounds.

**What is assumed in which run.** Nothing but the bounds: handlers, jobs and
passes overlap in every run in which they can in the code. Where the code's
overlaps break a property as its authors would state it, the property names
what must have happened before (a charge that was not recorded, a shared number,
a shared millisecond, a forced refresh), and the overlap is in the run. Only
`billing_live` has one worker, to keep its liveness property in reach; the safety
property it checks is proved for any number of them. The sizes of
`conversation_thread` obey the assumption of the code's constants
(`Threshold >= Batch + Window`).

**Fairness.** `Billing!FairSpec`: the loop of a live worker starts its pass
again and again (`StartPass`; `main.py:119-129` catches everything), every owner
of a pass is dealt with (`CheckOwner`: Stripe's client answers or times out, and
either is `CheckCharged` or `CheckDeclined`), a request that began ends
(`FinishRequest`). Stripe, the calendar, the owner, crashes and lost replies are
under no obligation.
`FineTune!FairSpec`: a task that is not killed is run by its loop, and the call
of the AI service returns or times out. `Replication!FairSpec`: an instance that
is alive keeps sending heartbeats, and nothing else is owed a turn. `MCServices`:
the event loop runs what is ready, so a learning routine goes on and the next
begins (`RoutineStep`), a cancelled task ends and what awaits it resumes
(`LoopsStep`), a job ends and its entry is written (`IngestStep`).

**Deadlock** is not an error in these runs: when the bounds are used up the
system may rest.

## 4. What is proved

For every value of the constants, without bounds on owners, workers, days,
handlers, messages, tabs or sizes, but with the named assumptions of the
modules (types of the constants, and the sizes quoted below).

`BillingProofs`:

* `BillingTypeOK`. One lemma per row computation, one for `Merge`, then one
  step per action.
* `RepeatsAreExplained` and `PaidPeriodsKept`, for any number of workers. That a
  recorded charge is not repeated is not inductive: a stale snapshot could still
  renew. `ChargeInv` adds that expiries only grow and what a pass has read of an
  owner is not ahead of the row (`Calendar`); that beside a pass that is alone
  no other is open and only it sets a retry day (`Solitude`); and that a
  recorded charge made alone has been seen by the row and by every snapshot of
  an owner still to be checked: their expiry is not older than its period, and a
  retry day, if there is one, lies behind it (`AllClear`).
* `OffStops`: `OffHolds` says that the charges made since auto-pay went off and
  the workers whose snapshot still has it on are together no more than the
  workers.

`ConversationProofs`, for `Conversation` all from one invariant `IInv`:

* `NothingRepeated`. A message is *safe* when more than `Window` committed
  messages, itself among them, are no older (`Safe`). Committed messages never
  go away, so a safe message is in no later window (`WindowMissesSafe`),
  whatever commits late, unless the window puts it behind others of its stamp.
  The oldest `Batch` of more than `Threshold >= Batch + Window` messages are
  safe, and the handler that reads them counted that many, perhaps long ago. For
  one of them to be in summary and window three messages must share its stamp.
  The assumption on the sizes is the reason for the constants at
  `conversation.py:18-20`; the code does not check it.
* `HistoryCovered`. Of what was there at the start, the client has met (`Met`:
  seen it, or a message of its stamp) what is not before its cursor
  (`PagerInv`).
* `CounterBounded`. A handler about to add its sample read a counter from which
  a whole batch was missing, or was forced and is counted in `forced`; the
  messages only grow, so that the sum stays below them and a batch for each
  forced refresh, even if another handler stored its own sum first.
* `ConversationTypeOK`.
* `CallsAreSound`, of `VoiceCall`, from `CallInv`. A recording is a start, its
  chunks and a stop on the wire; `InOrder` says how these marks, and the one the
  client would send next, follow one another. It is what makes the handler's
  place mean something: while it records, the first mark ahead belongs to the
  recording it hears and is no start (`Expected`), and no mark ahead is of a
  recording earlier than one that was heard or answered (`NoSooner`). An
  announcement is followed by its picture at once, and no picture comes first
  while the handler waits for the one frame of a recording without a start
  (`Pictured`).

`FineTuneProofs`, from `BaseInv`, what every interleaving keeps (a running row
has its task, ids are left for the tasks that may still insert), and one more
each:

* `PrunesKeepNewest`. Where a version was deleted, `Keep` others that are no
  older are completed or were deleted as the twin of another row. The invariant
  is `NumberInv`: each row that is deleted, or that some prune is about to
  delete, has `Keep` rows above it that are completed *or once were* (`Backed`),
  which no other prune can take away. Of the deleted rows above it that are no
  twins, the one of the highest number (`HighestIs`) has `Keep` above it that
  all survive (`SurvivorsStay`). `Fresh` says of a number about to be used that
  it is above those of the rows there were when it was computed, but for a
  deleted twin.
* `VersionsKept`, from `FlagInv` (who sets a flag has seen its row completed)
  and `OrderInv`. The latter is about the stretches in which a task has no
  company (`AloneInv`): what a request read is still so when it commits
  (`Serves`), and `Progress` says what a job's new version still has beside it;
  once such a job has ended, and until tasks overlap or die again (`tangled`),
  at most one version is active and at most `Keep` are left (`Settled`).

`ReplicationProofs`, from one invariant `ReplicationInv`:

* `SyncIsExplained`. A gap appears when a sync moves the marks, at its end, long
  after it read the tables; between the two the session must account for every
  item of the tables it has dealt with: held by the target, still on its list,
  or noted as missed (`Handled`). A row under way belongs to neither: if it is
  committed under an older mark, that is a reason of its own. Logs are closed by
  index, so that the two sessions must never share one (`OwnLog`), and a log
  that nobody works on is older than the process or names an instance that has
  left (`Known`).
* `ReplicationDelivers`: the initial state is one of `Delivery`, and every action
  is a step of `Delivery` or leaves copies and conflicts alone (`OthersLook`).
  Ingestion needs that nothing holds an entry before it exists, a row under way
  included (`Unborn`), a
  transfer that its pair is in `Blind`, a resolution that its pair is disputed.

`SecurityProofs`, one part for each module, from an invariant of its own:

* `FailuresAreBounded` and `FailuresAreForgotten` (`LimitInv`). The bound needs
  that no more sign-ins are past the check than `overlap` counted at once; a
  check that lets one in finds fewer failures than the limit. The expiry is
  followed from INCR to EXPIRE.
* `SlotIsExplained` (`SessionsInv`). The slot lives as long as any token handed
  out or on its way (`SlotOutlives`), except in the stretches named, and a
  refresh that writes after a sign-out had been past its check (`PastCheck`).
* `FactorIsSound` (`FactorInv`). A request works on the row as it read it;
  `Follows` says what the row is by now, from the writes that happened since. A
  setup under way has a number no code carries yet (`Numbers`), so that two
  secrets are never taken for one.
* `ScoreIsBacked` (`GuardInv`). That the score is at most what was earned is not
  inductive: two wrong answers may both have read it. It, and whatever a check or
  an answer holds of it, is at most what was earned less 20 for each wrong
  answer that has not written yet (`Room`).
* `ExportsAreSound` (`ExportsInv`). What was served and what is past the check
  of an export together stay within the most that were past it at once
  (`Counted`); while none is marked nothing was sent (`Unsent`); what is marked
  was marked by somebody (`Marked`).

`FamilyProofs`:

* `AccessIsSound`. A visitor under way holds an invite at a count the row still
  allows; of an invite that was never shared there is one holder, who has read
  what the row says (`Alone`). The first code is asked for once until a second
  one is (`FirstCode`).
* `ActivationIsUntouched` and the action property `ActivationIsKept`. What the
  pass found holds until it commits, as whoever writes the row meanwhile dates it
  with a later day than the pass began on (`StillUntouched`); nobody sets out to
  activate an active mode (`EarlyOnes`).
* `ExchangeIsSound`. Messages share only the services and the session of their
  thread, so the invariant is a story of each: what its handler has in its
  transaction, has committed and has embedded when it is where it is (`Stage`,
  `UnderWay`), what the client was told when it ended (`Outcome`), that its row
  names the last of its vectors (`OneRow`), and that the session outlives each
  message stored by its whole lifetime (`Noted`). The steps of the other messages
  keep it by one lemma (`SameStory`).

`KnowledgeProofs`:

* `TranslationIsSound`. A cached value is the translation of its key or the
  text of a blank answer no older than the entry (`CacheExplained`), and so is
  what a request carries (`Underway`).
* `StoresDoAgree` and the action property `DeletionsStay`, from a story of each
  upload: until its job has ended nobody else knows of it (`Unknown`), and what
  `RowIsIndexed` says of a row holds already of an upload that a poll, an asking
  client or a completed task may yet make a row of (`Expected`).
* `RetrievalIsSound`. While a question is probed, every chunk that was stored
  throughout and may be seen has its place in the results of each probe that ran,
  or `TopK` other entries that are at least as close have theirs, or the chunks
  of fewer entries filled the over-fetch (`Probed`). Ranking keeps this
  (`RankedIs`), since what is cut off never scores above what is kept.
* `TrainingIsSound`, of `Training`, from `TrainingInv`. What the loop over the
  rows returns (`Taken`) is an invariant of its prefixes (`LoopInv`): the least
  prefix that breaks it does not exist. Each pair comes from a message that lies
  between what its answer answers and the answer (`Own`); an exchange that was
  read and not used is crossed by another (`SeenUsed`). That an evaluation finds
  what the version was made of needs that a generation makes one list and no
  other while nothing moves (`Steady`, `Made`): two enumerations of one set that
  ascend in one order are the same (`SortedUnique`). A pair that is held out and
  baked in has at most `PerSource` of its source up to it and fewer than the
  holdout behind it (`PromptedApart`).

`ServicesProofs`:

* `BudgetIsSound`. A query under way was let in below the limit (`LetIn`), and
  each first hour of a month that the loop has passed, or will sleep through, has
  its reset or a reason (`HoursPassed`).
* `ChangesAreReported` and the action property `PausesAreKept`. As long as a
  monitor has no content no pass has seen one of it (`FirstContent`). Once it
  has, each pass that loaded it before may replace the content once without a
  report, all but the one that wrote the first (`BlindCounted`); a pass that
  loaded it later reports what it replaces.
* `RestartsAreSound`. Unless restarts overlap, the tasks of earlier starts do not
  run, and while one restarts none does (`Orderly`).
* `AccountsIsSound`. A request that is to commit differs from what it read in
  the columns of its own operation only (`CallsWell`); a profile just saved is
  carried by one request and named by no row until that request commits
  (`CarriedOnce`); a row whose Google account changed had the address of both
  (`RowsWell`), which is what explains a link that moved (`HomesLinked`).
* `PushIsSound`. Ids are never given again (`RowsApart`), so what a request has
  read of a row stays true of it or the row has gone (`Informed`); a broadcast
  has counted what it delivered, but for the send under way (`Counting`). Only a
  browser that unsubscribes between a delivery and its commit spoils the count.

Besides the types and sizes of the constants, the modules assume that the
categories of a library are not none (`Access`), that 0 is no id (`Ingestion`,
`Accounts`) and that the chunks are finitely many (`Retrieval`).

Only model-checked are the liveness properties (`OverdueIsSettled`,
`JobSettles`, `OfflineComesBack`, `WantedIsTried`, `RestartEnds`,
`UploadIsKept`): the prover has no fairness and no ENABLED. The library's
induction theorems, which take an operator, are out of reach as well; where an
induction over data is needed (`Training`), the set of the numbers that fail is
shown to be empty, as `Nat` is well-founded (`FirstOfAll`).

## 5. What the models brought out

Five disagreements are runs that end in a violation:

* `billing_workers`: two workers read the rows before either charges, and both
  charge. No lock or idempotency key prevents it.
* `finetune_crash`: a row left `training` by a process that died makes every
  later start and switch fail with "already in progress".
* `exchange_degraded`: "falls back to plain generation without RAG"
  (`src/docs/websocket-protocol.md:84`); `/rag/generate` answers 502 without
  Qdrant and the fallback of `core/degraded.py` is called by nothing.
* `legacy_speaking`: "activate after N days without activity" (the settings
  page); `check_inactivity_triggers` looks at `Owner.updated_at`, which messages
  do not move.

* `push_gone`: "Subscriptions that the push service rejects with 404/410 are
  pruned automatically" (`push.py:127`); the status is read only `if
  exc.response` (168), and a response of 400 or more is false, so nothing is.

Others are recorded here. They were met while modelling, and the models show
them where they are in scope, as an exception a property names.

Billing and fine-tuning.

* A timeout or a lost connection after Stripe took the money is caught with the
  declines (`self_manager.py:293-314`): it is counted as one, and the month is
  charged again without an idempotency key. `payment_retry_count += 1` on rows
  read before the await may lose a decline, and a repeated webhook counts one
  twice.
* `renew_hosting`'s docstring has a "one-time charge if no subscription"
  (`self_manager.py:248`); the subscription is not looked at. A failed invoice
  in survival mode restarts the grace period (324). `_exit_survival_mode` says
  "re-enable features" (353) and does not. `subscribe` does not look at the
  status of what it created (192), and a late `customer.subscription.deleted`
  forgets a newer subscription (533). The expiry step charges whatever
  `next_retry_at` says (624), so the back-off delays nothing.
* "Don't double-up while a job is in flight" (`fine_tuner.py:829`): between the
  check and the insert there are awaits, and two jobs start. After an overlap
  there may be two active versions or none. Two jobs that read the same maximum
  get the same number (569), and two prunes that break the tie differently
  delete each other's survivors. When a prior version goes between the SELECT
  and the deactivation, the handler sets "failed" and commits the session whose
  flush had failed, which raises again (627-632): "failed" is never stored, and
  both versions stay active. "Restore a previous model version as active" (797)
  flips the rows; the Ollama model remains.
* Knowledge pairs are made of entries with an English translation only, which
  entries in English do not have, yet those count toward the limit read. The
  samples an evaluation calls held out (690) are baked into the prompt when a
  source has few pairs, and data that arrived since shifts them. Overlapping
  exchanges of a thread may pair a prompt with the other's answer.

Conversations and calls.

* "latest batch of unanalyzed messages" (`personality.py:123`): the latest 100
  are taken whether analysed or not. Sockets start no analysis, so a backlog may
  exceed the batch, and the same messages are counted again; so they are by a
  forced refresh (127), which is what the web client's personality page asks
  for.
* Paging asks for what is strictly before the oldest stamp of a page
  (`conversation.py:317`), in a column of milliseconds: a message flushed in the
  same millisecond as that one is never shown.
* A summary covers the oldest 30 messages, is not extended while it lives and
  is made of the oldest 30 again after it expired. What lies between it and the
  last 20, or before the last 20 in a thread of at most 50, is in no context.
* Two first messages create two threads (`chat.py:314`), and an owner's message
  without a thread continues the account's most recent one, which may be a
  family member's. The embedding of a message survives its rolled back
  transaction, and vectors ingested by an attempt whose reply was lost have no
  row. `load_context` lets a Redis error through.
* In a video call face frames sent during a recording are taken as audio and
  never answered; the last chunk after `is_final` closes the socket; an
  over-large recording may be answered twice; typed text opens a new thread each
  time until something is spoken.
* The web client's `sendMessage` drops a message silently while the socket is
  not open and its queue counts it as sent; two flushes may send it twice.
* A blank answer of the model caches the original text for the lifetime, also in
  place of another request's good translation.

Synchronisation.

* Marks are taken at the end and not at the SELECT (`sync_engine.py:131`), for
  the source as well (185) and also when transfers failed (568), so that what was
  flushed before a mark and committed after it is in no later incremental sync; "modified after" (155) compares the creation time, so edited rules and
  messages in older threads are not sent again. Each full sync records a
  resolved conflict anew (780); a crash leaves its log in progress (112).

Around the owner.

* The lockout (30 minutes) ends before the score that caused it (60 minutes,
  renewed on each write), so that the next message locks out again
  (`identity_guard.py:35-38`). Two checks may forget a device.
* One refresh slot serves all browsers of an owner, so signing out in one signs
  out all at their next refresh; the bottom bar's sign-out only forgets tokens
  locally. Overlapping setup and verification may enable a secret nobody
  confirmed.
* An archive may be sent to several downloads that overlap; its `expires_at` is
  not looked at and the old file never matched by the clean-up. Deleting an
  account raises, as `FamilyInvite` has no `owner_id`.
* Addresses are compared by case when an account is made and in lower case when
  it signs in: two that differ in case make both sign-ins raise. A Google link
  is replaced by another Google account whose address the owner has had.
* The list of assets and the filter of entries disagree for uncategorised
  entries and an empty list of categories. The trigger `trusted_person`
  activates nothing by itself.

Services.

* The monthly reset happens in the first hour of the month only (`main.py:96`).
  `daily_budget_usd`, `schedule_hour_utc` and `max_daily_web_searches` are read
  by nothing. Topics beyond the daily maximum are never tried while the
  preferences stay, and those before it are learned anew each day.
* `browse()` compares an aware time with a naive column
  (`web_browser.py:219-225`), so that it always raises before it fetches, and
  the domain check reads one result twice. Monitors are fetched without domain
  rules or the daily limit, and by every worker (`main.py:106`): passes that
  overlap the first one to see a page each take what they find for the first
  content, and a change in between is not reported.
* An entry deleted and polled for within the hour comes back without vectors.
  One entry with many close chunks crowds others out of a search.
* In a broadcast, a subscription removed between listing and commit leaves the
  session unusable: the owners behind get nothing and the count stays 0 although
  notifications were sent.
* Never called: `safe_redis_*`, `rag_generate_with_fallback`,
  `semantic_search_with_reranking`, `check_hosting_retries`, `reset_score`.

Known hazards beside those listed in `PROJECT.json`: the read and write back of
`self_manager.py:263` and `503`, the expiries at `conversation.py:20` and `229`,
the batch at `personality.py:147`, the awaits at `fine_tuner.py:443`,
`627`, `653`, `830` and `836`, `identity_guard.py:301`, `family_chat.py:294`.

## 6. What is left

The plan is carried out but for these, in this order:

1. **The clients' queue**: the chat socket's reconnects and the offline store,
   with the server's duplicates.
2. **The threads** of an account (which one a message continues) as a module
   above `Conversation`.

## 7. What is not modelled, and why

* Prompts, emotions, dialects, embeddings, codecs, noise reduction, page
  extraction, formatting, prices and encryption: data that no property here
  tells apart. Where a computation on them decides something, its result is an
  input.
* The AI service's models, Ollama, Qdrant, Stripe and the providers, except that
  a call succeeds, fails, or succeeds and loses its answer: external.
* `survival_configs`: a request overwrites the row and the daily pass only logs
  what it reads.
* Request limits and security headers: a token bucket per process that is
  refilled and taken from without an await.
* Reports, exports of statistics and single-row edits of the administration:
  no second step another actor could meet. The entries of `audit_logs` follow in
  transactions of their own and decide nothing.
* `stop_all` at shutdown: the process ends with it.
* The web and mobile applications beyond the sides modelled in `Sessions` and
  `VoiceCall`, and the schema: user interface and declarations.
