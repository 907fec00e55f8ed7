------------------------------ MODULE FineTune ------------------------------
(***************************************************************************)
(* Model versions of one owner (services/fine_tuner.py, routers/model.py,  *)
(* routers/finetune.py); rows of different owners never meet.              *)
(*                                                                         *)
(* A fine-tune job is an asyncio task of some API process: it allocates a  *)
(* version number, inserts its row, has the AI service rebuild the owner's *)
(* Ollama model, activates the row, deactivates the others and prunes.  At *)
(* every await other jobs, rollbacks, model switches and the auto-trigger  *)
(* of a chat message may run.  Nothing locks the rows, and each session    *)
(* commits the columns it changed of the rows it read.                     *)
(*                                                                         *)
(* "pending", "preparing", "training" and "evaluating" are one status,     *)
(* "running": the code never tells them apart.  Base models are left out;  *)
(* the training data and the evaluation are in Training.                   *)
(***************************************************************************)
EXTENDS Integers, FiniteSets

CONSTANTS
  Job,          \* background tasks that may be open at the same time
  Handler,      \* requests that may be open at the same time
  Keep,         \* finetune_versions_to_keep
  Threshold,    \* trigger_message_count
  MaxRows,      \* bound: rows ever inserted
  MaxMessages,  \* bound: messages of the owner
  MaxCrashes,   \* bound: deaths of a process with an open job
  None          \* no row, no task

ASSUME FineTuneAssumption ==
  /\ IsFiniteSet(Job)
  /\ Keep \in Nat \ {0} /\ Threshold \in Nat \ {0}
  /\ MaxRows \in Nat /\ MaxMessages \in Nat /\ MaxCrashes \in Nat

VARIABLES
  rows,      \* model_versions: row of each id, None before its insert and after its delete
  created,   \* number of ids given out
  job,       \* per task: the fine-tune or switch job in progress, or None
  handler,   \* per request: the handler between its read and its commit, or None
  messages,  \* number of the owner's messages
  last,      \* last_trigger_message_total
  crashes,   \* number of crashes so far
  born,      \* ghost: the number each row was given, and the rows there were by then
  alone,     \* ghost: what is open has had no company since it began
  tangled    \* ghost: tasks overlapped or died since the versions were last put in order

vars == <<rows, created, job, handler, messages, last, crashes, born, alone, tangled>>

-----------------------------------------------------------------------------
Id     == 1..MaxRows
Status == {"running", "completed", "failed"}
Row    == [num : Nat \ {0}, status : Status, active : BOOLEAN]

Present   == {i \in Id : rows[i] # None}
Completed == {i \in Present : rows[i].status = "completed"}
Active    == {i \in Present : rows[i].active}

(* get_running_job *)
RunningJob == \E i \in Present : rows[i].status = "running"

JobPc == {"pulling", "queued", "numbered", "training", "created", "completed",
          "selected", "deactivated", "pruning"}

(* num and id are those of the row; seen is the number of rows there were   *)
(* when num was computed; set holds the rows of the last SELECT; retrain    *)
(* says whether a switch goes on to a fine-tune                             *)
JobState == [pc : JobPc, num : Nat, seen : Nat, id : Id \cup {0}, set : SUBSET Id,
             retrain : BOOLEAN]

HandlerState ==
  [op : {"rollback"}, target : Id, want : SUBSET Id]
    \cup [op : {"switch"}, set : SUBSET Id]
    \cup [op : {"trigger"}, total : Nat]

(* None is no record of the rows, the tasks or the requests *)
ASSUME NoneAssumption == None \notin Row \cup JobState \cup HandlerState

NewJob(pc, retrain) ==
  [pc |-> pc, num |-> 0, seen |-> 0, id |-> 0, set |-> {}, retrain |-> retrain]

Idle == (\A j \in Job : job[j] = None) /\ (\A h \in Handler : handler[h] = None)

(* A task or a request begins; it has company if another one is open.       *)
Enter == alone' = Idle /\ tangled' = (tangled \/ ~Idle)

(* A job that had no company has put the versions in order.                 *)
PutInOrder == tangled' = (tangled /\ ~alone) /\ UNCHANGED alone

(* bound: there is an id left for every open job that may still insert *)
RowsLeft ==
  created + Cardinality({j \in Job : job[j] # None /\ job[j].id = 0}) < MaxRows

At(j, pc) == job[j] # None /\ job[j].pc = pc
Goto(j, pc) == job' = [job EXCEPT ![j].pc = pc]

SetStatus(i, status) == rows' = [rows EXCEPT ![i] = [@ EXCEPT !.status = status]]

(* UPDATEs of is_active at a commit; the flush raises if a row has gone     *)
Activate(ids, on) ==
  rows' = [i \in Id |-> IF i \in ids /\ rows[i] # None
                        THEN [rows[i] EXCEPT !.active = on[i]] ELSE rows[i]]

Gone(ids) == \E i \in ids : rows[i] = None

-----------------------------------------------------------------------------
(* A fine-tune job, create_fine_tuned_model. *)

StartFineTune(j) ==
  /\ job[j] = None /\ RowsLeft
  /\ ~RunningJob
  /\ job' = [job EXCEPT ![j] = NewJob("queued", TRUE)]
  /\ Enter
  /\ UNCHANGED <<rows, created, handler, messages, last, crashes, born>>

(* BadMaxNumber and the other definitions named Bad... are faulty variants *)
(* of the one that follows them, for the mutation runs only.               *)
BadMaxNumber == Cardinality(Present)

MaxNumber ==
  IF Present = {} THEN 0
  ELSE CHOOSE n \in {rows[i].num : i \in Present} : \A i \in Present : rows[i].num <= n

AllocateNumber(j) ==
  /\ At(j, "queued")
  /\ job' = [job EXCEPT ![j] =
       [@ EXCEPT !.pc = "numbered", !.num = MaxNumber + 1, !.seen = created]]
  /\ UNCHANGED <<rows, created, handler, messages, last, crashes, born, alone, tangled>>

InsertRow(j) ==
  /\ At(j, "numbered")
  /\ created' = created + 1
  /\ rows' = [rows EXCEPT ![created + 1] =
                [num |-> job[j].num, status |-> "running", active |-> FALSE]]
  /\ born' = [born EXCEPT ![created + 1] = [num |-> job[j].num, seen |-> job[j].seen]]
  /\ job' = [job EXCEPT ![j] = [@ EXCEPT !.pc = "training", !.id = created + 1]]
  /\ UNCHANGED <<handler, messages, last, crashes, alone, tangled>>

CreateModel(j) ==
  /\ At(j, "training")
  /\ Goto(j, "created")
  /\ UNCHANGED <<rows, created, handler, messages, last, crashes, born, alone, tangled>>

(* the AI service fails, or its answer is lost after it built the model *)
CreateModelFails(j) ==
  /\ At(j, "training")
  /\ SetStatus(job[j].id, "failed")
  /\ job' = [job EXCEPT ![j] = None]
  /\ UNCHANGED <<created, handler, messages, last, crashes, born, alone, tangled>>

CompleteRow(j) ==
  /\ At(j, "created")
  /\ rows' = [rows EXCEPT ![job[j].id] =
                [@ EXCEPT !.status = "completed", !.active = TRUE]]
  /\ Goto(j, "completed")
  /\ UNCHANGED <<created, handler, messages, last, crashes, born, alone, tangled>>

Others(j) == Active \ {job[j].id}

SelectPriors(j) ==
  /\ At(j, "completed")
  /\ job' = [job EXCEPT ![j] = [@ EXCEPT !.pc = "selected", !.set = Others(j)]]
  /\ UNCHANGED <<rows, created, handler, messages, last, crashes, born, alone, tangled>>

BadDeactivatePriors(j) ==
  /\ At(j, "selected")
  /\ Goto(j, "deactivated")
  /\ UNCHANGED <<rows, created, handler, messages, last, crashes, born, alone, tangled>>

DeactivatePriors(j) ==
  /\ At(j, "selected")
  /\ Activate(job[j].set, [i \in Id |-> FALSE])
  /\ Goto(j, "deactivated")
  /\ UNCHANGED <<created, handler, messages, last, crashes, born, alone, tangled>>

(* A prior version was pruned since, and the flush raises.  The handler of  *)
(* the exception commits the session it has not rolled back, which raises   *)
(* again: "failed" is never stored, and the new version stays completed and *)
(* active beside the priors.                                               *)
DeactivateFails(j) ==
  /\ At(j, "selected") /\ Gone(job[j].set)
  /\ job' = [job EXCEPT ![j] = None]
  /\ UNCHANGED <<rows, created, handler, messages, last, crashes, born, alone, tangled>>

BadNewest(kept) ==
  /\ Cardinality(kept) = Keep
  /\ \A i \in kept, k \in Completed \ kept : rows[i].num <= rows[k].num

(* the first Keep rows of ORDER BY version DESC *)
Newest(kept) ==
  /\ Cardinality(kept) = Keep
  /\ \A i \in kept, k \in Completed \ kept : rows[i].num >= rows[k].num

SelectStale(j) ==
  /\ At(j, "deactivated")
  /\ IF Cardinality(Completed) <= Keep
     THEN job' = [job EXCEPT ![j] = None] /\ PutInOrder
     ELSE \E kept \in SUBSET Completed :
            /\ Newest(kept) /\ UNCHANGED <<alone, tangled>>
            /\ job' = [job EXCEPT ![j] =
                         [@ EXCEPT !.pc = "pruning", !.set = Completed \ kept]]
  /\ UNCHANGED <<rows, created, handler, messages, last, crashes, born>>

Prune(j) ==
  /\ At(j, "pruning")
  /\ rows' = [i \in Id |-> IF i \in job[j].set THEN None ELSE rows[i]]
  /\ job' = [job EXCEPT ![j] = None]
  /\ PutInOrder
  /\ UNCHANGED <<created, handler, messages, last, crashes, born>>

CrashJob(j) ==
  /\ job[j] # None /\ crashes < MaxCrashes
  /\ job' = [job EXCEPT ![j] = None]
  /\ crashes' = crashes + 1 /\ tangled' = TRUE
  /\ UNCHANGED <<rows, created, handler, messages, last, born, alone>>

-----------------------------------------------------------------------------
(* rollback: a version number that two rows share is not found *)

BeginRollback(h, target) ==
  /\ handler[h] = None
  /\ target \in Completed
  /\ \A i \in Present \ {target} : rows[i].num # rows[target].num
  /\ handler' = [handler EXCEPT ![h] =
       [op |-> "rollback", target |-> target, want |-> (Active \cup {target}) \ (Active \cap {target})]]
  /\ Enter
  /\ UNCHANGED <<rows, created, job, messages, last, crashes, born>>

FinishRollback(h) ==
  /\ handler[h] # None /\ handler[h].op = "rollback"
  /\ LET r == handler[h]
     IN  \/ Activate(r.want, [i \in Id |-> i = r.target])
         \/ Gone(r.want) /\ UNCHANGED rows
  /\ handler' = [handler EXCEPT ![h] = None]
  /\ UNCHANGED <<created, job, messages, last, crashes, born, alone, tangled>>

-----------------------------------------------------------------------------
(* model_switch, and the background job it starts *)

BeginSwitch(h) ==
  /\ handler[h] = None
  /\ ~RunningJob
  /\ handler' = [handler EXCEPT ![h] = [op |-> "switch", set |-> Active]]
  /\ Enter
  /\ UNCHANGED <<rows, created, job, messages, last, crashes, born>>

FinishSwitch(h, j) ==
  /\ handler[h] # None /\ handler[h].op = "switch"
  /\ job[j] = None /\ RowsLeft
  /\ Activate(handler[h].set, [i \in Id |-> FALSE])
  /\ job' = [job EXCEPT ![j] = NewJob("pulling", Completed # {})]
  /\ handler' = [handler EXCEPT ![h] = None]
  /\ UNCHANGED <<created, messages, last, crashes, born, alone, tangled>>

SwitchFails(h) ==
  /\ handler[h] # None /\ handler[h].op = "switch" /\ Gone(handler[h].set)
  /\ handler' = [handler EXCEPT ![h] = None]
  /\ UNCHANGED <<rows, created, job, messages, last, crashes, born, alone, tangled>>

PullFails(j) ==
  /\ At(j, "pulling")
  /\ job' = [job EXCEPT ![j] = None]
  /\ UNCHANGED <<rows, created, handler, messages, last, crashes, born, alone, tangled>>

CreateBaseModel(j) ==
  /\ At(j, "pulling")
  /\ job' = [job EXCEPT ![j] = IF job[j].retrain THEN NewJob("queued", TRUE) ELSE None]
  /\ UNCHANGED <<rows, created, handler, messages, last, crashes, born, alone, tangled>>

-----------------------------------------------------------------------------
(* maybe_auto_trigger, called for every message of the owner *)

OwnerMessage ==
  /\ messages < MaxMessages
  /\ messages' = messages + 1
  /\ UNCHANGED <<rows, created, job, handler, last, crashes, born, alone, tangled>>

TriggerDue == messages - last >= Threshold

CheckTrigger(h) ==
  /\ handler[h] = None
  /\ ~RunningJob /\ TriggerDue
  /\ handler' = [handler EXCEPT ![h] = [op |-> "trigger", total |-> messages]]
  /\ Enter
  /\ UNCHANGED <<rows, created, job, messages, last, crashes, born>>

FinishTrigger(h) ==
  /\ handler[h] # None /\ handler[h].op = "trigger"
  /\ last' = handler[h].total
  /\ handler' = [handler EXCEPT ![h] = None]
  /\ UNCHANGED <<rows, created, messages, crashes, born, alone, tangled>>

(* auto_approve is off *)
NoteTrigger(h) == FinishTrigger(h) /\ UNCHANGED job

FireTrigger(h, j) ==
  /\ FinishTrigger(h)
  /\ job[j] = None /\ RowsLeft
  /\ job' = [job EXCEPT ![j] = NewJob("queued", TRUE)]

-----------------------------------------------------------------------------
Init ==
  /\ rows = [i \in Id |-> None]
  /\ created = 0
  /\ job = [j \in Job |-> None]
  /\ handler = [h \in Handler |-> None]
  /\ messages = 0 /\ last = 0
  /\ crashes = 0
  /\ born = [i \in Id |-> [num |-> 0, seen |-> 0]]
  /\ alone = TRUE /\ tangled = FALSE

JobStep(j) ==
  \/ AllocateNumber(j) \/ InsertRow(j)
  \/ CreateModel(j) \/ CreateModelFails(j) \/ CompleteRow(j)
  \/ SelectPriors(j) \/ DeactivatePriors(j) \/ DeactivateFails(j)
  \/ SelectStale(j) \/ Prune(j)
  \/ PullFails(j) \/ CreateBaseModel(j)

HandlerStep(h) ==
  \/ FinishRollback(h) \/ SwitchFails(h) \/ NoteTrigger(h)
  \/ \E j \in Job : FinishSwitch(h, j) \/ FireTrigger(h, j)

Next ==
  \/ \E j \in Job : StartFineTune(j) \/ JobStep(j) \/ CrashJob(j)
  \/ \E h \in Handler : HandlerStep(h) \/ BeginSwitch(h) \/ CheckTrigger(h)
  \/ \E h \in Handler, i \in Id : BeginRollback(h, i)
  \/ OwnerMessage

Spec == Init /\ [][Next]_vars

(* A task that is not killed is run by its event loop; the AI service       *)
(* answers or the client times out.                                        *)
FairSpec ==
  /\ Spec
  /\ \A j \in Job : WF_vars(JobStep(j))

-----------------------------------------------------------------------------
(* Properties. *)

Inserted == {i \in Id : i <= created}
Deleted  == {i \in Inserted : rows[i] = None}

(* Rows, tasks and requests hold values of their types; ids are given out   *)
(* in order.                                                               *)
TypeOK ==
  /\ rows \in [Id -> Row \cup {None}]
  /\ created \in 0..MaxRows
  /\ job \in [Job -> JobState \cup {None}]
  /\ handler \in [Handler -> HandlerState \cup {None}]
  /\ messages \in Nat /\ last \in 0..messages
  /\ crashes \in Nat
  /\ born \in [Id -> [num : Nat, seen : Nat]]
  /\ alone \in BOOLEAN /\ tangled \in BOOLEAN
  /\ Present \subseteq Inserted

(* A version that is active is completed, always.  Between the jobs,        *)
(* rollbacks and switches at most one version is active and no more than    *)
(* Keep completed ones are left, rollbacks and failed jobs notwithstanding, *)
(* although the flag is moved by four handlers and cleared by a fifth, none *)
(* of which looks at all the rows in one statement.  Tasks that overlap or  *)
(* die can leave it otherwise, but only until the next job that runs to its *)
(* end without company.                                                     *)
VersionsSettled ==
  /\ Active \subseteq Completed
  /\ Idle /\ ~tangled => Cardinality(Active) <= 1 /\ Cardinality(Completed) <= Keep

(* Two rows were given one number; rollback, which looks a version up by    *)
(* its number, finds neither.                                               *)
Twin(i) == \E k \in Inserted \ {i} : born[k].num = born[i].num

(* A version has a higher number than the rows there were when the number   *)
(* was computed, although it is one more than the highest that pruning has  *)
(* left: the newest is pruned only if it shared its number.                 *)
VersionsAscend ==
  \A i, k \in Inserted : i <= born[k].seen =>
    \/ born[k].num > born[i].num
    \/ \E l \in Deleted : Twin(l) /\ born[l].num >= born[i].num

(* What every state of the versions keeps. *)
VersionsInv == TypeOK /\ VersionsSettled /\ VersionsAscend

(* _prune_old_versions: "Keep only the last N completed versions, delete    *)
(* the rest."  Where a version has been deleted, Keep others, none of them  *)
(* older, are there, however jobs, prunes and rollbacks overlapped, but for *)
(* those that share their number with another row: two prunes whose SELECTs *)
(* break the tie differently delete each other's survivors.                 *)
Survivors(i) ==
  {k \in Inserted \ {i} : /\ born[k].num >= born[i].num
                          /\ k \in Completed \/ (k \in Deleted /\ Twin(k))}

PruneKeepsNewest == \A i \in Deleted : Cardinality(Survivors(i)) >= Keep

IsRunning(i) == rows[i] # None /\ rows[i].status = "running"

(* The 409 answer of model_switch: "Wait for it to complete before switching *)
(* models."  A job that is in progress does complete or fail.                *)
JobSettles == \A i \in Id : IsRunning(i) ~> ~IsRunning(i)
=============================================================================
