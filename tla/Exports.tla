------------------------------- MODULE Exports -------------------------------
(***************************************************************************)
(* The archives an owner asks for of all data (DataExporter of             *)
(* services/security.py and the routes of routers/security.py).  The       *)
(* expiry written in the row is read by nothing, and no archive leaves the *)
(* disk.                                                                   *)
(***************************************************************************)
EXTENDS Integers, FiniteSets

CONSTANTS
  Exported,      \* the exports
  Downloads,     \* the requests for an archive
  Sealed,        \* whether ENCRYPTION_MASTER_KEY is set
  MaxAsk, MaxDrop   \* bounds on downloads, and on deaths and closed connections

ASSUME ExportsAssumption ==
  /\ IsFiniteSet(Downloads) /\ "none" \notin Exported
  /\ Sealed \in BOOLEAN /\ {MaxAsk, MaxDrop} \subseteq Nat

VARIABLES
  export,        \* the status of a row of data_export_requests
  disk,          \* the archives on disk, in the clear and encrypted
  download,      \* the requests
  served,        \* ghost: how often an archive was sent
  together,      \* ghost: the most requests that were past the check together
  dropped,       \* ghost: the exports whose download stopped after it was marked
  failed,        \* ghost: the exports that were not built to the end
  exportsLeft    \* the bounds that are left

exportVars == <<export, disk, download, served, together, dropped, failed, exportsLeft>>

NoDownload == [pc |-> "idle", of |-> "none"]
Past(e) == {d \in Downloads : download[d].of = e}
Consume(what) == exportsLeft[what] > 0 /\ exportsLeft' = [exportsLeft EXCEPT ![what] = @ - 1]

ExportsInit ==
  /\ export = [e \in Exported |-> "none"] /\ disk = {}
  /\ download = [d \in Downloads |-> NoDownload]
  /\ served = [e \in Exported |-> 0] /\ together = [e \in Exported |-> 0]
  /\ dropped = {} /\ failed = {}
  /\ exportsLeft = [ask |-> MaxAsk, drop |-> MaxDrop]

CreateExport(e) ==
  /\ export[e] = "none" /\ export' = [export EXCEPT ![e] = "processing"]
  /\ UNCHANGED <<disk, download, served, together, dropped, failed, exportsLeft>>

\* the tar in the clear, then the encrypted one if there is a key, then the unlink
BuildArchive(e) ==
  /\ export[e] = "processing" /\ e \notin failed
  /\ export' = [export EXCEPT ![e] = "ready"]
  /\ disk' = disk \cup {<<e, IF Sealed THEN "enc" ELSE "tar">>}
  /\ UNCHANGED <<download, served, together, dropped, failed, exportsLeft>>

\* An error is written to the row; a death of the process leaves it processing for ever.
\* Both leave what was written so far.
StopBuilding(e) ==
  /\ export[e] = "processing" /\ e \notin failed
  /\ failed' = failed \cup {e}
  /\ \/ export' = [export EXCEPT ![e] = "failed"] /\ UNCHANGED exportsLeft
     \/ UNCHANGED export /\ Consume("drop")
  /\ \E left \in SUBSET ({e} \X (IF Sealed THEN {"tar", "enc"} ELSE {"tar"})) : disk' = disk \cup left
  /\ UNCHANGED <<download, served, together, dropped>>

\* BadOffered and the other definitions named Bad... are faulty variants of the
\* definition that follows them, for the mutation runs only.
BadOffered(e) == export[e] \in {"ready", "downloaded"}

Offered(e) == export[e] = "ready"

Download(d, e) ==
  /\ download[d] = NoDownload /\ Offered(e) /\ Consume("ask")
  /\ download' = [download EXCEPT ![d] = [pc |-> "mark", of |-> e]]
  /\ together' = [together EXCEPT ![e] =
       IF Cardinality(Past(e)) + 1 > @ THEN Cardinality(Past(e)) + 1 ELSE @]
  /\ UNCHANGED <<export, disk, served, dropped, failed>>

MarkDownloaded(d) ==
  /\ download[d].pc = "mark" /\ download' = [download EXCEPT ![d].pc = "serve"]
  /\ export' = [export EXCEPT ![download[d].of] = "downloaded"]
  /\ UNCHANGED <<disk, served, together, dropped, failed, exportsLeft>>

Serve(d) ==
  /\ download[d].pc = "serve" /\ download' = [download EXCEPT ![d] = NoDownload]
  /\ served' = [served EXCEPT ![download[d].of] = @ + 1]
  /\ UNCHANGED <<export, disk, together, dropped, failed, exportsLeft>>

\* the process dies, or the connection is closed
DropDownload(d) ==
  /\ download[d] # NoDownload /\ Consume("drop")
  /\ download' = [download EXCEPT ![d] = NoDownload]
  /\ dropped' = IF download[d].pc = "serve" THEN dropped \cup {download[d].of} ELSE dropped
  /\ UNCHANGED <<export, disk, served, together, failed>>

ExportsNext ==
  \/ \E e \in Exported : CreateExport(e) \/ BuildArchive(e) \/ StopBuilding(e)
  \/ \E d \in Downloads : \/ MarkDownloaded(d) \/ Serve(d) \/ DropDownload(d)
                          \/ \E e \in Exported : Download(d, e)

ExportsSpec == ExportsInit /\ [][ExportsNext]_exportVars

-----------------------------------------------------------------------------
\* An archive is sent to no more requests than were past the check of its status at
\* once, and an export that is downloaded was sent, or is about to be, unless the
\* request stopped in between: nothing offers it again.
ServedOnce ==
  \A e \in Exported :
    /\ served[e] <= together[e]
    /\ export[e] = "downloaded" /\ served[e] = 0 => e \in dropped \/ Past(e) # {}

\* An archive lies in the clear on disk only if there is no key, or its export stopped.
ClearOnlyWhenStopped == \A e \in Exported : <<e, "tar">> \in disk => ~Sealed \/ e \in failed

ExportsSound == ServedOnce /\ ClearOnlyWhenStopped
=============================================================================
