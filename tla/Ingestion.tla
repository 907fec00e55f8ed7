------------------------------ MODULE Ingestion ------------------------------
(***************************************************************************)
(* From an upload to a knowledge entry: the AI service's jobs and their    *)
(* task records in Redis (apps/ai: core/task_tracker.py,                   *)
(* services/knowledge.py), the vectors in Qdrant, and the API's routers,   *)
(* which write the row once the task is completed: in the background, or   *)
(* for a client that asks for the status (routers/knowledge.py).  No two   *)
(* of Redis, Qdrant and Postgres are written together.  An upload, its     *)
(* task and its entry go by one name.                                      *)
(***************************************************************************)
EXTENDS Integers

CONSTANTS
  Uploads,
  Clients,       \* requests of clients for the status of a task
  Removals,      \* requests to delete an entry
  Chunks,        \* Chunks[u]: the embeddings of the upload, 0 for a text
  IngestStarts   \* bounds: failures and deaths, requests, deletions

ASSUME IngestionAssumption ==
  /\ Chunks \in [Uploads -> Nat] /\ 0 \notin Uploads
  /\ \A b \in IngestStarts : {b.fault, b.ask, b.remove} \subseteq Nat

VARIABLES
  task,          \* the task record: "none" before the upload and when it has expired
  job,           \* the AI service's job: "new", "run", "end", or "dead" with its process
  vectors,       \* vectors[u]: points in Qdrant
  entryRow,      \* the uploads that have a knowledge_entries row
  persist,       \* _auto_persist: "idle", "poll", "insert" or "end"
  ask, removal,  \* the requests
  removed,       \* ghost: uploads whose row was deleted
  excused,       \* ghost: uploads some failure has struck
  ingestLeft     \* the bounds that are left

ingestVars == <<task, job, vectors, entryRow, persist, ask, removal, removed, excused, ingestLeft>>

NoAsk == [pc |-> "idle", on |-> 0]

IngestInit ==
  /\ task = [u \in Uploads |-> "none"] /\ job = [u \in Uploads |-> "new"]
  /\ vectors = [u \in Uploads |-> 0] /\ entryRow = {} /\ persist = [u \in Uploads |-> "idle"]
  /\ ask = [c \in Clients |-> NoAsk] /\ removal = [d \in Removals |-> NoAsk]
  /\ removed = {} /\ excused = {} /\ ingestLeft \in IngestStarts

Draw(what) == ingestLeft[what] > 0 /\ ingestLeft' = [ingestLeft EXCEPT ![what] = @ - 1]
Strike(who) == Draw("fault") /\ excused' = excused \cup who
Calm == UNCHANGED <<excused, ingestLeft>>
Requests == <<persist, ask, removal, removed>>

(***************************************************************************)
(* The AI service.                                                         *)
(***************************************************************************)
\* create_task(), and the API starts to poll
Upload(u) ==
  /\ job[u] = "new" /\ Chunks[u] > 0
  /\ task' = [task EXCEPT ![u] = "pending"] /\ job' = [job EXCEPT ![u] = "run"]
  /\ persist' = [persist EXCEPT ![u] = "poll"]
  /\ UNCHANGED <<vectors, entryRow, ask, removal, removed>> /\ Calm

\* update_task() changes nothing when the record is gone
UpdateTask(u, status) ==
  task' = [task EXCEPT ![u] = IF @ = "none" THEN @ ELSE status]

StoreChunk(u) ==
  /\ job[u] = "run" /\ vectors[u] < Chunks[u]
  /\ UpdateTask(u, "processing") /\ vectors' = [vectors EXCEPT ![u] = @ + 1]
  /\ UNCHANGED <<job, entryRow, Requests>> /\ Calm

\* BadComplete and the other definitions named Bad... are faulty variants of the
\* definition that follows them, for the mutation runs only.
BadComplete(u) ==
  /\ job[u] = "run" /\ vectors[u] > 0 /\ task[u] # "completed"
  /\ UpdateTask(u, "completed") /\ job' = [job EXCEPT ![u] = IF vectors[u] = Chunks[u] THEN "end" ELSE @]
  /\ UNCHANGED <<vectors, entryRow, Requests>> /\ Calm

Complete(u) ==
  /\ job[u] = "run" /\ vectors[u] = Chunks[u]
  /\ UpdateTask(u, "completed") /\ job' = [job EXCEPT ![u] = "end"]
  /\ UNCHANGED <<vectors, entryRow, Requests>> /\ Calm

\* transcription, translation, storage or Qdrant fails: what was stored stays
FailJob(u) ==
  /\ job[u] = "run" /\ Strike({u})
  /\ UpdateTask(u, "failed") /\ job' = [job EXCEPT ![u] = "end"]
  /\ UNCHANGED <<vectors, entryRow, Requests>>

CrashService ==
  /\ \E u \in Uploads : job[u] = "run"
  /\ Strike({u \in Uploads : job[u] = "run"})
  /\ job' = [u \in Uploads |-> IF job[u] = "run" THEN "dead" ELSE job[u]]
  /\ UNCHANGED <<task, vectors, entryRow, Requests>>

\* an hour after the end of the job, or a day after a job that died; the API's five
\* minutes of polling are over by then
TaskExpires(u) ==
  /\ task[u] # "none" /\ job[u] # "run" /\ persist[u] # "poll"
  /\ task' = [task EXCEPT ![u] = "none"]
  /\ UNCHANGED <<job, vectors, entryRow, Requests>> /\ Calm

(***************************************************************************)
(* ingest_text(): the vector in the AI service, then the row.              *)
(***************************************************************************)
IngestText(u) ==
  /\ Chunks[u] = 0 /\ job[u] = "new"
  /\ vectors' = [vectors EXCEPT ![u] = 1] /\ job' = [job EXCEPT ![u] = "row"]
  /\ UNCHANGED <<task, entryRow, Requests>> /\ Calm

CommitText(u) ==
  /\ job[u] = "row" /\ job' = [job EXCEPT ![u] = "end"]
  /\ \/ entryRow' = entryRow \cup {u} /\ Calm
     \/ Strike({u}) /\ UNCHANGED entryRow
  /\ UNCHANGED <<task, vectors, Requests>>

(***************************************************************************)
(* _auto_persist() and get_task_status(): look for the row of a completed  *)
(* task, then insert it; a second insert violates the key and is lost.     *)
(***************************************************************************)
BadAutoPersist(u) ==
  /\ persist[u] = "poll" /\ task[u] = "failed"
  /\ persist' = [persist EXCEPT ![u] = "end"]
  /\ UNCHANGED <<task, job, vectors, entryRow, ask, removal, removed>> /\ Calm

AutoPersist(u) ==
  /\ persist[u] = "poll" /\ task[u] \in {"completed", "failed"}
  /\ persist' = [persist EXCEPT ![u] = IF task[u] = "completed" /\ u \notin entryRow THEN "insert" ELSE "end"]
  /\ UNCHANGED <<task, job, vectors, entryRow, ask, removal, removed>> /\ Calm

\* 150 polls without an answer that settles it
TimeOut(u) ==
  /\ persist[u] = "poll" /\ Strike({u}) /\ persist' = [persist EXCEPT ![u] = "end"]
  /\ UNCHANGED <<task, job, vectors, entryRow, ask, removal, removed>>

InsertEntry(u) ==
  /\ persist[u] = "insert" /\ persist' = [persist EXCEPT ![u] = "end"]
  /\ entryRow' = entryRow \cup {u}
  /\ UNCHANGED <<task, job, vectors, ask, removal, removed>> /\ Calm

BadGetTaskStatus(c, u) ==
  /\ ask[c] = NoAsk /\ job[u] = "end" /\ u \notin entryRow /\ Draw("ask")
  /\ ask' = [ask EXCEPT ![c] = [pc |-> "insert", on |-> u]]
  /\ UNCHANGED <<task, job, vectors, entryRow, persist, removal, removed, excused>>

GetTaskStatus(c, u) ==
  /\ ask[c] = NoAsk /\ task[u] = "completed" /\ u \notin entryRow /\ Draw("ask")
  /\ ask' = [ask EXCEPT ![c] = [pc |-> "insert", on |-> u]]
  /\ UNCHANGED <<task, job, vectors, entryRow, persist, removal, removed, excused>>

InsertAsked(c) ==
  /\ ask[c].pc = "insert" /\ ask' = [ask EXCEPT ![c] = NoAsk]
  /\ entryRow' = entryRow \cup {ask[c].on}
  /\ UNCHANGED <<task, job, vectors, persist, removal, removed>> /\ Calm

(***************************************************************************)
(* delete_entry(): the vectors, at best, then the row.                     *)
(***************************************************************************)
BeginDelete(d, u) ==
  /\ removal[d] = NoAsk /\ u \in entryRow /\ Draw("remove")
  /\ removal' = [removal EXCEPT ![d] = [pc |-> "vectors", on |-> u]]
  /\ UNCHANGED <<task, job, vectors, entryRow, persist, ask, removed, excused>>

DeleteVectors(d) ==
  /\ removal[d].pc = "vectors" /\ removal' = [removal EXCEPT ![d].pc = "row"]
  /\ \/ vectors' = [vectors EXCEPT ![removal[d].on] = 0] /\ Calm
     \/ Strike({removal[d].on}) /\ UNCHANGED vectors
  /\ UNCHANGED <<task, job, entryRow, persist, ask, removed>>

\* a row that is gone by then fails the commit
DeleteRow(d) ==
  /\ removal[d].pc = "row" /\ removal' = [removal EXCEPT ![d] = NoAsk]
  /\ entryRow' = entryRow \ {removal[d].on} /\ removed' = removed \cup {removal[d].on}
  /\ UNCHANGED <<task, job, vectors, persist, ask>> /\ Calm

\* the API process dies: nothing polls for the uploads under way any more
CrashApi ==
  /\ Strike({u \in Uploads : persist[u] \in {"poll", "insert"} \/ job[u] = "row"}
            \cup {removal[d].on : d \in {e \in Removals : removal[e] # NoAsk}})
  /\ persist' = [u \in Uploads |-> IF persist[u] = "idle" THEN "idle" ELSE "end"]
  /\ ask' = [c \in Clients |-> NoAsk] /\ removal' = [d \in Removals |-> NoAsk]
  /\ job' = [u \in Uploads |-> IF job[u] = "row" THEN "end" ELSE job[u]]
  /\ UNCHANGED <<task, vectors, entryRow, removed>>

\* what needs nobody from outside
IngestStep ==
  \/ \E u \in Uploads : StoreChunk(u) \/ Complete(u) \/ AutoPersist(u) \/ InsertEntry(u) \/ CommitText(u)
  \/ \E c \in Clients : InsertAsked(c)
  \/ \E d \in Removals : DeleteVectors(d) \/ DeleteRow(d)

IngestNext ==
  \/ IngestStep
  \/ \E u \in Uploads :
       \/ Upload(u) \/ FailJob(u) \/ TaskExpires(u) \/ IngestText(u) \/ TimeOut(u)
       \/ \E c \in Clients : GetTaskStatus(c, u)
       \/ \E d \in Removals : BeginDelete(d, u)
  \/ CrashService \/ CrashApi

IngestSpec == IngestInit /\ [][IngestNext]_ingestVars

-----------------------------------------------------------------------------
Whole(u) == IF Chunks[u] = 0 THEN 1 ELSE Chunks[u]
Removing(u) == \E d \in Removals : removal[d].on = u /\ removal[d] # NoAsk

\* An entry the owner can see can be found: its row appears after the last of its
\* vectors, and they go only with a deletion.
RowIsIndexed ==
  \A u \in entryRow : u \in removed \/ Removing(u) \/ u \in excused \/ vectors[u] = Whole(u)

\* Vectors without a row, which searches still return, are left by failures only: a
\* job or a process that ended in between, polls that timed out, or a deletion that
\* Qdrant refused.
OrphansExplained ==
  \A u \in Uploads :
    vectors[u] > 0 /\ u \notin entryRow /\ job[u] \in {"end", "dead"}
      /\ persist[u] \in {"idle", "end"} /\ ~Removing(u) => u \in excused

\* The three stores tell the same of an upload, whatever fails in between: what has a
\* row is indexed whole, and what is indexed has a row, or the failure is known.
StoresAgree == RowIsIndexed /\ OrphansExplained

\* A deletion is final once the task is forgotten, an hour after it ended, and no
\* request that had found it completed is under way.  Before that a poll of the client
\* finds the task completed and no row, and inserts the entry again, without vectors.
Forgotten(u) ==
  /\ u \in removed \ entryRow /\ task[u] = "none" /\ persist[u] \notin {"poll", "insert"}
  /\ \A c \in Clients : ask[c].on # u
DeletedStays == [][\A u \in Uploads : Forgotten(u) => Forgotten(u)']_ingestVars

\* An upload becomes an entry without any client asking for it, unless something
\* failed on the way.
UploadIsKept ==
  \A u \in Uploads : task[u] = "pending" ~> u \in entryRow \cup excused
=============================================================================
