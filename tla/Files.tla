-------------------------------- MODULE Files --------------------------------
(***************************************************************************)
(* The files of one owner: rows of file_objects in PostgreSQL and objects  *)
(* in the bucket, which the handlers change in separate calls and the      *)
(* client writes directly, with an URL that stays good until it expires.   *)
(* A file stands for its row and its key, which is random and never reused *)
(* (file-key.helper.ts:11-14).                                             *)
(***************************************************************************)
EXTENDS Handlers

CONSTANTS File,
          NoFile    \* the file of an idle handler

ASSUME FilesAssumption == NoFile \notin File

VARIABLES
    row,          \* file_objects: none, PENDING, UPLOADED or deleted
    bucket,       \* the files whose object exists
    url,          \* the client's upload URL: none, valid or expired
    serving,      \* local: the file a handler works on
    halfDeleted,  \* history: the object was deleted, the row not yet
    putLate       \* history: files written after a delete of their object

fileVars == <<row, bucket, url, serving, halfDeleted, putLate>>

FileLabel == {"idle", "createRow", "head", "markUploaded", "deleteObject", "deleteRow"}

FilesTypeOK ==
    /\ pc \in [Requests -> FileLabel]
    /\ faults \in 0..MaxFaults
    /\ row \in [File -> {"none", "PENDING", "UPLOADED", "deleted"}]
    /\ url \in [File -> {"none", "valid", "expired"}]
    /\ serving \in [Requests -> File \cup {NoFile}]
    /\ bucket \subseteq File /\ halfDeleted \subseteq File /\ putLate \subseteq File

FilesInit ==
    /\ HandlersInit
    /\ row = [f \in File |-> "none"]
    /\ url = [f \in File |-> "none"]
    /\ serving = [r \in Requests |-> NoFile]
    /\ bucket = {} /\ halfDeleted = {} /\ putLate = {}

There(f) == row[f] \in {"PENDING", "UPLOADED"}

ServeFile(r, f, label) ==
    /\ Goto(r, "idle", label)
    /\ serving' = [serving EXCEPT ![r] = f]
    /\ UNCHANGED <<row, bucket, url, halfDeleted, putLate, faults>>

FileStep(r, from, to) ==
    /\ Goto(r, from, to)
    /\ serving' = IF to = "idle" THEN [serving EXCEPT ![r] = NoFile] ELSE serving
    /\ UNCHANGED faults

(* The URL is signed before the row exists; the client has it after. *)
CreateUploadUrl(r, f) ==
    /\ row[f] = "none" /\ \A q \in Requests : serving[q] # f
    /\ ServeFile(r, f, "createRow")

CreateRow(r) ==
    /\ FileStep(r, "createRow", "idle")
    /\ row' = [row EXCEPT ![serving[r]] = "PENDING"]
    /\ url' = [url EXCEPT ![serving[r]] = "valid"]
    /\ UNCHANGED <<bucket, halfDeleted, putLate>>

Put(f) ==
    /\ url[f] = "valid"
    /\ bucket' = bucket \cup {f}
    /\ putLate' = IF f \in halfDeleted \/ row[f] = "deleted" THEN putLate \cup {f} ELSE putLate
    /\ UNCHANGED <<row, url, serving, halfDeleted, pc, faults>>

ExpireUrl(f) ==
    /\ url[f] = "valid"
    /\ url' = [url EXCEPT ![f] = "expired"]
    /\ UNCHANGED <<row, bucket, serving, halfDeleted, putLate, pc, faults>>

(* A file that is confirmed already needs nothing. *)
BugConfirmTrusts(r, f) == row[f] = "PENDING" /\ ServeFile(r, f, "markUploaded")

Confirm(r, f) == row[f] = "PENDING" /\ ServeFile(r, f, "head")

Head(r) ==
    /\ FileStep(r, "head", IF serving[r] \in bucket THEN "markUploaded" ELSE "idle")
    /\ UNCHANGED <<row, bucket, url, halfDeleted, putLate>>

(* Fails when the row is gone. *)
MarkUploaded(r) ==
    /\ FileStep(r, "markUploaded", "idle")
    /\ row' = IF There(serving[r]) THEN [row EXCEPT ![serving[r]] = "UPLOADED"] ELSE row
    /\ UNCHANGED <<bucket, url, halfDeleted, putLate>>

BugDeleteSkipsPending(r, f) ==
    /\ There(f)
    /\ ServeFile(r, f, IF row[f] = "PENDING" THEN "deleteRow" ELSE "deleteObject")

Delete(r, f) == There(f) /\ ServeFile(r, f, "deleteObject")

DeleteObject(r) ==
    LET f == serving[r] IN
    /\ FileStep(r, "deleteObject", "deleteRow")
    /\ bucket' = bucket \ {f}
    /\ halfDeleted' = IF There(f) THEN halfDeleted \cup {f} ELSE halfDeleted
    /\ putLate' = putLate \ {f}
    /\ UNCHANGED <<row, url>>

DeleteRow(r) ==
    LET f == serving[r] IN
    /\ FileStep(r, "deleteRow", "idle")
    /\ row' = [row EXCEPT ![f] = "deleted"]
    /\ halfDeleted' = halfDeleted \ {f}
    /\ UNCHANGED <<bucket, url, putLate>>

FileDies(r) ==
    /\ Die(r)
    /\ serving' = [serving EXCEPT ![r] = NoFile]
    /\ UNCHANGED <<row, bucket, url, halfDeleted, putLate>>

FilesNext ==
    \/ \E f \in File : Put(f) \/ ExpireUrl(f)
    \/ \E r \in Requests :
         \/ CreateRow(r) \/ Head(r) \/ MarkUploaded(r) \/ DeleteObject(r)
         \/ DeleteRow(r) \/ FileDies(r)
         \/ \E f \in File : CreateUploadUrl(r, f) \/ Confirm(r, f) \/ Delete(r, f)

FilesSpec == FilesInit /\ [][FilesNext]_<<pc, faults, fileVars>>

-------------------------------------------------------------------------------
(* file.prisma:8-10: a file is UPLOADED only while its object is in the    *)
(* bucket, so a download URL finds it, whatever confirmations and deletes  *)
(* run at the same time; the one exception is a delete between its two     *)
(* calls, or one that stopped there (delete-file.service.ts:22-23).        *)
UploadedHasObject ==
    \A f \in File : row[f] = "UPLOADED" => f \in bucket \/ f \in halfDeleted

(* An object outlives its row only if the client wrote it after a delete   *)
(* had removed it, with an URL that had not expired.                       *)
OrphansArePutLate ==
    \A f \in File : row[f] = "deleted" /\ f \in bucket => f \in putLate
===============================================================================
