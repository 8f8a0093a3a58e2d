----------------------------- MODULE RecordsProofs -----------------------------
(***************************************************************************)
(* Theorems about Files: its types, that an uploaded file has its object,  *)
(* and that an object outlives its row only by a late write, for any files *)
(* and any handlers.  About PushTokens: the unique keys hold, and a        *)
(* registration that ran alone keeps its row, for any owners, devices and  *)
(* tokens.  About Pagination: a walk over the pages is complete, for any   *)
(* rows and any size of a page.  And about MCRecords: a behaviour of the   *)
(* instance is one of the module it has chosen, Accounts among them.       *)
(***************************************************************************)
EXTENDS MCRecords, AccountsProofs

Serving == {"head", "markUploaded", "deleteObject", "deleteRow"}

(* A handler that is not idle works on a file. *)
WorksOnFile == \A r \in Requests : pc[r] # "idle" => serving[r] \in File

(* Whoever creates a row is alone with the file, and there is none yet. *)
CreatorIsAlone ==
    \A r \in Requests : pc[r] = "createRow" =>
        /\ row[serving[r]] = "none"
        /\ \A q \in Requests \ {r} : serving[q] # serving[r]

(* Every other handler has found a row, and rows do not go back to none. *)
RowWasFound == \A r \in Requests : pc[r] \in Serving => row[serving[r]] # "none"

(* What a confirmation has seen in the bucket is there, or a delete came   *)
(* in between.                                                             *)
SeenIsThere ==
    \A r \in Requests : pc[r] = "markUploaded" =>
        serving[r] \in bucket \cup halfDeleted \/ row[serving[r]] = "deleted"

(* Behind the delete of an object, whoever writes it writes late. *)
DeletedBehind ==
    \A r \in Requests : pc[r] = "deleteRow" =>
        /\ serving[r] \in halfDeleted \/ row[serving[r]] = "deleted"
        /\ serving[r] \in bucket => serving[r] \in putLate

FilesInv ==
    /\ FilesTypeOK /\ WorksOnFile /\ CreatorIsAlone /\ RowWasFound
    /\ SeenIsThere /\ DeletedBehind
    /\ UploadedHasObject /\ OrphansArePutLate

LEMMA FilesInitInv == FilesInit => FilesInv
BY FilesAssumption, HandlersAssumption
DEF FilesInit, HandlersInit, FilesInv, FilesTypeOK, WorksOnFile, CreatorIsAlone, RowWasFound,
    SeenIsThere, DeletedBehind, UploadedHasObject, OrphansArePutLate, Serving, FileLabel

(* Every step of the handlers and of the client preserves the invariant. *)
LEMMA FilesStepInv == FilesInv /\ [FilesNext]_<<pc, faults, fileVars>> => FilesInv'
<1> USE FilesAssumption, HandlersAssumption
        DEF FilesInv, FilesTypeOK, WorksOnFile, CreatorIsAlone, RowWasFound,
            SeenIsThere, DeletedBehind, UploadedHasObject, OrphansArePutLate,
            Serving, FileLabel, There
<1> SUFFICES ASSUME FilesInv, [FilesNext]_<<pc, faults, fileVars>>
             PROVE  FilesInv'
  OBVIOUS
<1>1. ASSUME NEW f \in File, Put(f) PROVE FilesInv'
  BY <1>1 DEF Put
<1>2. ASSUME NEW f \in File, ExpireUrl(f) PROVE FilesInv'
  BY <1>2 DEF ExpireUrl
<1>3. ASSUME NEW r \in Requests, CreateRow(r) PROVE FilesInv'
  BY <1>3 DEF CreateRow, FileStep, Goto
<1>4. ASSUME NEW r \in Requests, Head(r) PROVE FilesInv'
  BY <1>4 DEF Head, FileStep, Goto
<1>5. ASSUME NEW r \in Requests, MarkUploaded(r) PROVE FilesInv'
  BY <1>5 DEF MarkUploaded, FileStep, Goto
<1>6. ASSUME NEW r \in Requests, DeleteObject(r) PROVE FilesInv'
  BY <1>6 DEF DeleteObject, FileStep, Goto
<1>7. ASSUME NEW r \in Requests, DeleteRow(r) PROVE FilesInv'
  BY <1>7 DEF DeleteRow, FileStep, Goto
<1>8. ASSUME NEW r \in Requests, FileDies(r) PROVE FilesInv'
  BY <1>8 DEF FileDies, Die
<1>9. ASSUME NEW r \in Requests, NEW f \in File, CreateUploadUrl(r, f) PROVE FilesInv'
  BY <1>9 DEF CreateUploadUrl, ServeFile, Goto
<1>10. ASSUME NEW r \in Requests, NEW f \in File, Confirm(r, f) PROVE FilesInv'
  BY <1>10 DEF Confirm, ServeFile, Goto
<1>11. ASSUME NEW r \in Requests, NEW f \in File, Delete(r, f) PROVE FilesInv'
  BY <1>11 DEF Delete, ServeFile, Goto
<1>12. CASE UNCHANGED <<pc, faults, fileVars>>
  BY <1>12 DEF fileVars
<1>. QED
  BY <1>1, <1>2, <1>3, <1>4, <1>5, <1>6, <1>7, <1>8, <1>9, <1>10, <1>11, <1>12
  DEF FilesNext

-------------------------------------------------------------------------------
(* In every reachable state of the handlers, the client and the bucket,    *)
(* the invariant holds (create-upload-url, confirm-upload, delete-file).   *)
THEOREM FilesInvariance == FilesSpec => []FilesInv
  BY FilesInitInv, FilesStepInv, PTL DEF FilesSpec

(* A row says UPLOADED only while the object is in the bucket, or a delete *)
(* is half done.                                                           *)
THEOREM UploadsHaveObjects == FilesSpec => []UploadedHasObject
<1>1. FilesInv => UploadedHasObject
  BY DEF FilesInv
<1>2. QED
  BY <1>1, FilesInvariance, PTL

(* The object of a deleted row was written after a delete had removed it.  *)
THEOREM OrphansAreLateWrites == FilesSpec => []OrphansArePutLate
<1>1. FilesInv => OrphansArePutLate
  BY DEF FilesInv
<1>2. QED
  BY <1>1, FilesInvariance, PTL
-------------------------------------------------------------------------------
(* Push tokens *)
(* A transaction has read row ids that were given out. *)
ReadsAreIds ==
    \A r \in Requests : pc[r] \in Registering =>
        /\ reading[r] \in Reading
        /\ reading[r].byToken <= pushIds /\ reading[r].byDevice <= pushIds

(* Of two registrations in flight neither is alone. *)
AloneMeansAlone ==
    \A r, q \in Requests :
        r # q /\ pc[r] \in Registering /\ pc[q] \in Registering => ~reading[r].alone

IdsAreGivenOut == \A x \in registered : x.id <= pushIds

(* The row with the id that r has read has the token r is about to write,  *)
(* if r is alone, or if what the row holds is promised: another            *)
(* registration that wrote it since was not promised anything.             *)
TokenStillRead ==
    \A r \in Requests, x \in registered :
        /\ pc[r] \in Registering /\ x.id = reading[r].byToken
        /\ reading[r].alone \/ x.data \in promised
        => x.data.token = reading[r].data.token

DeviceStillRead ==
    \A r \in Requests, x \in registered :
        /\ pc[r] = "write" /\ x.id = reading[r].byDevice
        /\ reading[r].alone \/ x.data \in promised
        => SameDevice(x.data, reading[r].data)

PushInv ==
    /\ PushTypeOK /\ ReadsAreIds /\ AloneMeansAlone /\ IdsAreGivenOut
    /\ TokenStillRead /\ DeviceStillRead /\ RegistrationsStay

LEMMA PushInitInv == PushInit => PushInv
  BY PushAssumption, HandlersAssumption
  DEF PushInit, HandlersInit, PushInv, PushTypeOK, ReadsAreIds, AloneMeansAlone,
      IdsAreGivenOut, TokenStillRead, DeviceStillRead, RegistrationsStay, Registering

(* findFirst of rows: the id of one of them, or 0 when there is none. *)
LEMMA IdOfRows ==
    ASSUME NEW S \in SUBSET PushRow
    PROVE  (S = {} /\ IdOf(S) = 0) \/ \E x \in S : IdOf(S) = x.id
  BY DEF IdOf

-------------------------------------------------------------------------------
(* One lemma for each statement of the transaction. *)

LEMMA ReadByTokenInv ==
    ASSUME PushInv, NEW r \in Requests, NEW d \in PushData, ReadByToken(r, d)
    PROVE  PushInv'
<1> DEFINE S == {x \in registered : x.data.token = d.token}
<1> USE PushAssumption, HandlersAssumption
    DEF PushInv, ReadByToken, Goto
<1>1. (S = {} /\ IdOf(S) = 0) \/ \E x \in S : IdOf(S) = x.id
  BY IdOfRows DEF PushTypeOK
<1>2. IdOf(S) \in 0..MaxPushRows /\ IdOf(S) <= pushIds
  BY <1>1 DEF PushTypeOK, PushRow, IdsAreGivenOut
<1>3. reading'[r] = [owner |-> d.owner, alone |-> At(Registering) = {}, data |-> d,
                     byDevice |-> 0, byToken |-> IdOf(S)]
  BY DEF PushTypeOK
<1>4. \A q \in Requests \ {r} : reading'[q] = [reading[q] EXCEPT !.alone = FALSE]
  BY DEF PushTypeOK
<1>5. reading'[r] \in Reading
  BY <1>2, <1>3 DEF Reading, PushData, PushTypeOK
<1>6. ASSUME NEW q \in Requests \ {r}
      PROVE  /\ reading[q] \in Reading => reading'[q] \in Reading
             /\ reading[q] = Idle => reading'[q] = Idle
             /\ ~reading'[q].alone
  <2>1. reading[q] \in Reading \/ reading[q] = Idle
    BY DEF PushTypeOK
  <2>2. CASE reading[q] \in Reading
    <3>1. [reading[q] EXCEPT !.alone = FALSE] \in Reading
      BY <2>2 DEF Reading
    <3>2. [reading[q] EXCEPT !.alone = FALSE].alone = FALSE
      BY <2>2 DEF Reading
    <3>3. reading[q] # Idle
      BY <2>2 DEF Reading, Idle
    <3>4. QED
      BY <1>4, <3>1, <3>2, <3>3
  <2>3. CASE reading[q] = Idle
    <3>1. [Idle EXCEPT !.alone = FALSE] = Idle /\ ~Idle.alone
      <4>1. DOMAIN Idle = {"owner", "alone"} /\ Idle.alone = FALSE
        BY DEF Idle
      <4>2. \A f \in {"owner", "alone"} : [Idle EXCEPT !.alone = FALSE][f] = Idle[f]
        BY <4>1
      <4>3. QED
        BY <4>1, <4>2 DEF Idle
    <3>2. Idle \notin Reading
      BY DEF Reading, Idle
    <3>3. QED
      BY <1>4, <2>3, <3>1, <3>2
  <2>4. QED
    BY <2>1, <2>2, <2>3
<1>7. PushTypeOK'
  BY <1>5, <1>6 DEF PushTypeOK, Registering
<1>8. ReadsAreIds' /\ IdsAreGivenOut' /\ RegistrationsStay'
  BY <1>2, <1>3, <1>4, <1>5, <1>6
     DEF ReadsAreIds, Reading, IdsAreGivenOut, RegistrationsStay, PushTypeOK, Registering
<1>9. AloneMeansAlone'
  BY <1>3, <1>6 DEF AloneMeansAlone, At, PushTypeOK
<1>10. TokenStillRead'
  BY <1>1, <1>3, <1>4, <1>6 DEF TokenStillRead, PushTypeOK, PushRow, Registering, Reading, ReadsAreIds
<1>11. DeviceStillRead'
  BY <1>3, <1>4, <1>6 DEF DeviceStillRead, PushTypeOK, Reading, ReadsAreIds, Registering, SameDevice
<1>12. QED
  BY <1>7, <1>8, <1>9, <1>10, <1>11

LEMMA ReadByDeviceInv ==
    ASSUME PushInv, NEW r \in Requests, ReadByDevice(r)
    PROVE  PushInv'
<1> DEFINE S == {x \in registered : SameDevice(x.data, reading[r].data)}
<1> USE PushAssumption, HandlersAssumption
    DEF PushInv, ReadByDevice, Goto
<1>1. (S = {} /\ IdOf(S) = 0) \/ \E x \in S : IdOf(S) = x.id
  BY IdOfRows DEF PushTypeOK
<1>2. IdOf(S) \in 0..MaxPushRows /\ IdOf(S) <= pushIds
  BY <1>1 DEF PushTypeOK, PushRow, IdsAreGivenOut
<1>3. reading[r] \in Reading /\ reading' = [reading EXCEPT ![r].byDevice = IdOf(S)]
  BY DEF ReadsAreIds, Registering
<1>4. /\ reading'[r] \in Reading
      /\ reading'[r].byDevice = IdOf(S)
      /\ reading'[r].byToken = reading[r].byToken
      /\ reading'[r].alone = reading[r].alone
      /\ reading'[r].data = reading[r].data
  BY <1>2, <1>3 DEF Reading, PushTypeOK
<1>5. \A q \in Requests \ {r} : reading'[q] = reading[q]
  BY <1>3 DEF PushTypeOK
<1>6. PushTypeOK'
  BY <1>4, <1>5, <1>3 DEF PushTypeOK, Registering
<1>7. ReadsAreIds' /\ IdsAreGivenOut' /\ RegistrationsStay' /\ AloneMeansAlone'
  BY <1>2, <1>4, <1>5
     DEF ReadsAreIds, IdsAreGivenOut, RegistrationsStay, AloneMeansAlone, PushTypeOK, Registering
<1>8. TokenStillRead'
  BY <1>4, <1>5 DEF TokenStillRead, PushTypeOK, Registering
<1>9. DeviceStillRead'
  BY <1>1, <1>4, <1>5 DEF DeviceStillRead, PushTypeOK, PushRow
<1>10. QED
  BY <1>6, <1>7, <1>8, <1>9

(* The handler ends without a write: on an index, or because it dies. *)
LEMMA PushForgetInv ==
    ASSUME PushInv, NEW r \in Requests,
           pc' = [pc EXCEPT ![r] = "idle"], reading' = [reading EXCEPT ![r] = Idle],
           faults' \in 0..MaxFaults,
           UNCHANGED <<registered, pushIds, promised>>
    PROVE  PushInv'
<1>1. \A q \in Requests : pc'[q] # "idle" => q # r /\ pc'[q] = pc[q] /\ reading'[q] = reading[q]
  BY DEF PushInv, PushTypeOK
<1>2. PushTypeOK'
  BY DEF PushInv, PushTypeOK
<1>3. ReadsAreIds' /\ AloneMeansAlone' /\ IdsAreGivenOut'
  BY <1>1 DEF PushInv, ReadsAreIds, AloneMeansAlone, IdsAreGivenOut, Registering
<1>4. TokenStillRead' /\ DeviceStillRead' /\ RegistrationsStay'
  BY <1>1 DEF PushInv, TokenStillRead, DeviceStillRead, RegistrationsStay, Registering
<1>5. QED
  BY <1>2, <1>3, <1>4 DEF PushInv

(* Rows are deleted, and with them what was promised of them. *)
LEMMA DeletePushInv ==
    ASSUME PushInv, registered' \subseteq registered, promised' \subseteq promised,
           RegistrationsStay', UNCHANGED <<pushIds, reading, pc, faults>>
    PROVE  PushInv'
<1>1. PushTypeOK'
  BY DEF PushInv, PushTypeOK
<1>2. ReadsAreIds' /\ AloneMeansAlone' /\ IdsAreGivenOut'
  BY DEF PushInv, ReadsAreIds, AloneMeansAlone, IdsAreGivenOut
<1>3. TokenStillRead' /\ DeviceStillRead'
  BY DEF PushInv, TokenStillRead, DeviceStillRead
<1>4. QED
  BY <1>1, <1>2, <1>3 DEF PushInv

LEMMA RemoveTokenInv ==
    ASSUME PushInv, NEW u \in Owners, NEW t \in Tokens, RemoveToken(u, t)
    PROVE  PushInv'
<1>1. RegistrationsStay'
  BY DEF PushInv, RegistrationsStay, RemoveToken, DeletePush
<1>2. QED
  BY <1>1, DeletePushInv DEF RemoveToken, DeletePush

LEMMA SweepTokensInv ==
    ASSUME PushInv, NEW u \in Owners, SweepTokens(u)
    PROVE  PushInv'
<1>1. RegistrationsStay'
  BY DEF PushInv, RegistrationsStay, SweepTokens, DeletePush
<1>2. QED
  BY <1>1, DeletePushInv DEF SweepTokens, DeletePush

-------------------------------------------------------------------------------
(* The writes of a registration and its commit. *)

LEMMA CommitInv ==
    ASSUME PushInv, NEW r \in Requests, Commit(r),
           pc[r] = "write", pc' = [pc EXCEPT ![r] = "idle"],
           reading' = [reading EXCEPT ![r] = Idle], UNCHANGED faults
    PROVE  PushInv'
<1> DEFINE c == reading[r]
           new == [id |-> Kept(c), data |-> c.data]
<1> USE PushAssumption, HandlersAssumption
<1>1. /\ c \in Reading /\ c.data \in PushData
      /\ c.byToken \in 0..pushIds /\ c.byDevice \in 0..pushIds /\ pushIds \in Nat
  BY DEF PushInv, PushTypeOK, ReadsAreIds, Registering, Reading
<1>2. /\ Kept(c) \in 1..MaxPushRows /\ Kept(c) <= pushIds + 1
      /\ c.byToken # 0 => Kept(c) = c.byToken
      /\ c.byToken = 0 /\ c.byDevice # 0 => Kept(c) = c.byDevice
      /\ c.byToken = 0 /\ c.byDevice = 0 => Kept(c) = pushIds + 1
  <2>1. /\ c.byToken # 0 => Kept(c) = c.byToken
        /\ c.byToken = 0 /\ c.byDevice # 0 => Kept(c) = c.byDevice
        /\ c.byToken = 0 /\ c.byDevice = 0 => Kept(c) = pushIds + 1
    BY <1>1 DEF Kept
  <2>2. Kept(c) <= MaxPushRows
    BY DEF Commit
  <2>3. Kept(c) \in Nat /\ Kept(c) >= 1 /\ Kept(c) <= pushIds + 1
    BY <1>1, <2>1
  <2>4. QED
    BY <2>1, <2>2, <2>3
<1>3. new \in PushRow
  BY <1>1, <1>2 DEF PushRow
<1>4. pushIds' \in 0..MaxPushRows /\ pushIds <= pushIds' /\ Kept(c) <= pushIds'
  BY <1>1, <1>2 DEF Commit, PushInv, PushTypeOK
<1>5. \A q \in Requests : pc'[q] # "idle" =>
         /\ q # r /\ pc'[q] = pc[q] /\ reading'[q] = reading[q]
         /\ pc[q] \in Registering
  BY DEF PushInv, PushTypeOK, Registering
<1>6. registered' \subseteq registered \cup {new}
  BY DEF Commit, Written
<1>7. \A d \in promised' :
         \/ d = c.data /\ c.alone
         \/ d \in promised /\ d.token # c.data.token /\ ~SameDevice(d, c.data)
  <2>1. promised' = {d \in promised : d.token # c.data.token /\ ~SameDevice(d, c.data)}
                       \cup IF c.alone THEN {c.data} ELSE {}
    BY DEF Commit
  <2>2. QED
    BY <2>1, Zenon
<1>8. promised' \subseteq PushData
  BY <1>1, <1>7 DEF PushInv, PushTypeOK
<1>9. \A q \in Requests : pc'[q] # "idle" => ~reading'[q].alone /\ ~c.alone
  BY <1>5 DEF PushInv, AloneMeansAlone, Registering
<1>10. ReadsAreIds' /\ AloneMeansAlone'
  BY <1>1, <1>4, <1>5 DEF PushInv, ReadsAreIds, AloneMeansAlone, Registering, Reading
<1>11. TokenStillRead' /\ DeviceStillRead'
  <2>1. ASSUME NEW x \in registered', NEW q \in Requests, pc'[q] # "idle", x.data \in promised'
        PROVE  x \in registered /\ x.data \in promised
    BY <1>6, <1>7, <1>9, <2>1
  <2>2. TokenStillRead'
    BY <1>5, <1>9, <2>1 DEF PushInv, TokenStillRead, Registering
  <2>3. DeviceStillRead'
    BY <1>5, <1>9, <2>1 DEF PushInv, DeviceStillRead, Registering
  <2>4. QED
    BY <2>2, <2>3
<1>12. CASE Synced(c)
  <2>1. registered' = registered /\ Kept(c) = c.byToken /\ c.byToken = c.byDevice
    BY <1>2, <1>12 DEF Commit, Written, Synced
  <2>2. PushTypeOK'
    BY <1>4, <1>8, <2>1 DEF PushInv, PushTypeOK, Registering
  <2>3. IdsAreGivenOut'
    BY <1>4, <2>1 DEF PushInv, IdsAreGivenOut, PushTypeOK, PushRow
  <2>4. PICK x \in registered : x.id = c.byToken
    BY <1>1, <2>1 DEF Commit, Succeeds, Touched
  <2>5. ASSUME c.alone PROVE x.data = c.data
    <3>1. x.data.token = c.data.token
      BY <2>4, <2>5 DEF PushInv, TokenStillRead, Registering
    <3>2. SameDevice(x.data, c.data)
      BY <2>1, <2>4, <2>5 DEF PushInv, DeviceStillRead
    <3>3. x.data \in PushData
      BY DEF PushInv, PushTypeOK, PushRow
    <3>4. QED
      BY <1>1, <3>1, <3>2, <3>3 DEF SameDevice, PushData
  <2>6. RegistrationsStay'
    BY <1>7, <2>1, <2>5 DEF PushInv, RegistrationsStay
  <2>7. QED
    BY <1>10, <1>11, <2>2, <2>3, <2>6 DEF PushInv
<1>13. CASE ~Synced(c)
  <2>1. registered' = {x \in registered : x.id \notin Dropped(c) \cup {Kept(c)}} \cup {new}
    BY <1>13 DEF Commit, Written
  <2>2. registered' \subseteq PushRow
    BY <1>3, <1>6 DEF PushInv, PushTypeOK
  <2>3. \A x, y \in registered' : x # y =>
           /\ x.id # y.id /\ x.data.token # y.data.token
           /\ <<x.data.owner, x.data.device>> # <<y.data.owner, y.data.device>>
    <3>1. \A x, y \in registered' : x # y => x.id # y.id
      BY <2>1 DEF PushInv, PushTypeOK
    <3>2. \A x, y \in registered' : x # y =>
             x.data.token # y.data.token /\ ~SameDevice(x.data, y.data)
      BY DEF Commit, Succeeds
    <3>3. QED
      BY <3>1, <3>2 DEF SameDevice
  <2>4. PushTypeOK'
    BY <1>4, <1>8, <2>2, <2>3 DEF PushInv, PushTypeOK, Registering
  <2>5. IdsAreGivenOut'
    BY <1>1, <1>4, <2>1 DEF PushInv, IdsAreGivenOut, PushTypeOK, PushRow
  <2>6. ASSUME NEW d \in promised' PROVE \E x \in registered' : x.data = d
    <3>1. CASE d = c.data
      <4>1. new \in registered' /\ new.data = c.data
        BY <2>1
      <4>2. QED
        BY <3>1, <4>1
    <3>2. CASE /\ d \in promised
               /\ d.token # c.data.token /\ ~SameDevice(d, c.data)
      <4>1. PICK x \in registered : x.data = d
        BY <3>2 DEF PushInv, RegistrationsStay
      <4>2. x.id # c.byToken
        BY <1>1, <3>2, <4>1 DEF PushInv, TokenStillRead, Registering
      <4>3. x.id # c.byDevice
        BY <3>2, <4>1 DEF PushInv, DeviceStillRead
      <4>4. x.id # pushIds + 1
        BY <1>1 DEF PushInv, IdsAreGivenOut, PushTypeOK, PushRow
      <4>5. x.id \notin Dropped(c) \cup {Kept(c)}
        BY <1>2, <4>2, <4>3, <4>4 DEF Dropped
      <4>6. QED
        BY <2>1, <4>1, <4>5
    <3>3. QED
      BY <1>7, <3>1, <3>2
  <2>7. QED
    BY <1>10, <1>11, <2>4, <2>5, <2>6 DEF PushInv, RegistrationsStay
<1>14. QED
  BY <1>12, <1>13

LEMMA WriteTokenInv ==
    ASSUME PushInv, NEW r \in Requests, WriteToken(r)
    PROVE  PushInv'
<1>1. /\ pc[r] = "write" /\ pc' = [pc EXCEPT ![r] = "idle"]
      /\ reading' = [reading EXCEPT ![r] = Idle] /\ UNCHANGED faults
  BY DEF WriteToken, Goto
<1>2. CASE Commit(r)
  BY <1>1, <1>2, CommitInv
<1>3. CASE UNCHANGED <<registered, pushIds, promised>>
  <2>1. faults' \in 0..MaxFaults
    BY <1>1 DEF PushInv, PushTypeOK
  <2>2. QED
    BY <1>1, <1>3, <2>1, PushForgetInv
<1>4. QED
  BY <1>2, <1>3 DEF WriteToken

LEMMA PushDiesInv ==
    ASSUME PushInv, NEW r \in Requests, PushDies(r)
    PROVE  PushInv'
<1>1. pc' = [pc EXCEPT ![r] = "idle"] /\ faults' \in 0..MaxFaults
  BY PushAssumption, HandlersAssumption DEF PushDies, Die, PushInv, PushTypeOK
<1>2. QED
  BY <1>1, PushForgetInv DEF PushDies

-------------------------------------------------------------------------------
LEMMA PushStep ==
    PushInv /\ [PushNext]_<<pc, faults, pushVars>> => PushInv'
<1> SUFFICES ASSUME PushInv, [PushNext]_<<pc, faults, pushVars>>
             PROVE  PushInv'
  OBVIOUS
<1>1. CASE UNCHANGED <<pc, faults, pushVars>>
  BY <1>1 DEF pushVars, PushInv, PushTypeOK, ReadsAreIds, AloneMeansAlone,
              IdsAreGivenOut, TokenStillRead, DeviceStillRead, RegistrationsStay
<1>2. ASSUME NEW u \in Owners, SweepTokens(u) PROVE PushInv'
  BY <1>2, SweepTokensInv
<1>3. ASSUME NEW u \in Owners, NEW t \in Tokens, RemoveToken(u, t) PROVE PushInv'
  BY <1>3, RemoveTokenInv
<1>4. ASSUME NEW r \in Requests, NEW d \in PushData, ReadByToken(r, d) PROVE PushInv'
  BY <1>4, ReadByTokenInv
<1>5. ASSUME NEW r \in Requests, ReadByDevice(r) PROVE PushInv'
  BY <1>5, ReadByDeviceInv
<1>6. ASSUME NEW r \in Requests, WriteToken(r) PROVE PushInv'
  BY <1>6, WriteTokenInv
<1>7. ASSUME NEW r \in Requests, PushDies(r) PROVE PushInv'
  BY <1>7, PushDiesInv
<1>8. QED
  BY <1>1, <1>2, <1>3, <1>4, <1>5, <1>6, <1>7 DEF PushNext

(* The inductive invariant: rows keep their unique keys, and what a        *)
(* registration that ran alone has read is still so when it writes         *)
(* (register-fcm-token.service.ts:25-61).                                  *)
THEOREM PushInvariance == PushSpec => []PushInv
<1>1. PushInit => PushInv
  BY PushInitInv
<1>2. PushInv /\ [PushNext]_<<pc, faults, pushVars>> => PushInv'
  BY PushStep
<1>3. QED
  BY <1>1, <1>2, PTL DEF PushSpec

(* A registration that succeeded alone keeps its row until its device or   *)
(* its token registers again, or its owner removes it or is swept          *)
(* (register-fcm-token.service.ts:25-61, remove-fcm-token.service.ts).     *)
THEOREM RegistrationsAreKept == PushSpec => []RegistrationsStay
<1>1. PushInv => RegistrationsStay
  BY DEF PushInv
<1>2. QED
  BY <1>1, PushInvariance, PTL

-------------------------------------------------------------------------------
(* Pagination.  Numbers of pages. *)

(* A page ends where the next one begins. *)
LEMMA PageEnds ==
    ASSUME NEW p \in Nat \ {0}, NEW n \in Nat \ {0}
    PROVE  /\ p * n \in Nat /\ (p - 1) * n \in Nat
           /\ (p - 1) * n + n = p * n
  <1>1. PICK q \in Nat : p = q + 1
    <2>1. p - 1 \in Nat /\ p = (p - 1) + 1
      OBVIOUS
    <2> QED BY <2>1
  <1>2. (q + 1) * n = q * n + n
    OBVIOUS
  <1>3. q * n \in Nat
    OBVIOUS
  <1> QED BY <1>1, <1>2, <1>3

(* The number of pages is no more than that of the rows, and enough.       *)
LEMMA PagesHoldRows ==
    ASSUME NEW n \in Nat, NEW size \in Nat \ {0}
    PROVE  LET pages == (n + size - 1) \div size IN
           /\ pages \in Nat /\ pages <= n
           /\ \A p \in Nat : p >= pages => n <= p * size
  <1> DEFINE a == n + size - 1
             pages == a \div size
  <1>1. a \in Nat
    OBVIOUS
  <1>2. a % size \in 0..(size - 1)
    BY <1>1
  <1>3. pages \in Int
    BY <1>1
  <1>4. a = size * pages + (a % size)
    BY <1>1
  <1> QED BY <1>2, <1>3, <1>4

-------------------------------------------------------------------------------
(* Finite sets. *)

LEMMA RowsFinite ==
    ASSUME NEW S \in SUBSET Ids
    PROVE  /\ IsFiniteSet(S) /\ Cardinality(S) \in Nat
           /\ \A T \in SUBSET S :
                 /\ IsFiniteSet(T) /\ Cardinality(T) \in Nat
                 /\ Cardinality(T) <= Cardinality(S)
                 /\ Cardinality(T) = Cardinality(S) => T = S
  BY PaginationAssumption, FS_Subset, FS_CardinalityType

LEMMA Disjoint ==
    ASSUME NEW S \in SUBSET Ids, NEW A \in SUBSET S, NEW D \in SUBSET (S \ A)
    PROVE  Cardinality(A) + Cardinality(D) <= Cardinality(S)
  <1>1. A \in SUBSET Ids /\ D \in SUBSET Ids /\ A \cup D \in SUBSET S
    OBVIOUS
  <1>2. IsFiniteSet(A) /\ IsFiniteSet(D)
    BY <1>1, RowsFinite
  <1>3. A \cap D = {}
    OBVIOUS
  <1>4. Cardinality(A \cap D) = 0
    BY <1>3, FS_EmptySet
  <1>5. /\ Cardinality(A) \in Nat /\ Cardinality(D) \in Nat
        /\ Cardinality(A \cup D) = Cardinality(A) + Cardinality(D) - Cardinality(A \cap D)
    BY <1>2, FS_Union, FS_CardinalityType
  <1> QED BY <1>1, <1>4, <1>5, RowsFinite

-------------------------------------------------------------------------------
(* Pages. *)

Higher(i) == {j \in Rows : created[j] > created[i]}

(* The exception the code makes of a row under the caller's orderBy. *)
Excused(i) == walk.order = "caller" /\ Tied(i, edges)

(* Before its first page, a walk has shown nothing. *)
NothingShown ==
    /\ walk.next = "start" => walk.page = 1 /\ walk.cursor = 0 /\ there = {}
    /\ (\/ walk.next \in {"start", "offset"} /\ walk.page = 1
        \/ walk.next = "cursor" /\ walk.cursor = 0)
       => edges = {} /\ \A i \in Ids : seen[i] = 0

(* A walk by cursor has shown each row once, except those of its keyset. *)
CursorWalk ==
    walk.next = "cursor" =>
        /\ walk.page = 1
        /\ walk.cursor # 0 =>
            /\ walk.cursor \in Rows
            /\ \A i \in there :
                  Excused(i) \/ seen[i] = IF i \in Keyset(walk.cursor) THEN 0 ELSE 1

(* The pages whose rows a walk by offset has been given. *)
Answered == IF walk.next = "count" THEN walk.page ELSE walk.page - 1

(* A walk by offset has shown the rows that have fewer before them than    *)
(* there are on those pages; a row that is not tied keeps its place, or    *)
(* moves back.                                                             *)
OffsetWalk ==
    walk.next \in {"offset", "count"} =>
        /\ walk.order = "caller" /\ edges = {}
        /\ (walk.next = "count" /\ walk.page = 1) =>
               Cardinality(Rows) > Limit \/ \A i \in there : seen[i] = 1
        /\ \A i \in there :
              Tied(i, Rows) \/ seen[i] # 0 \/ Cardinality(Higher(i)) >= Answered * Limit

PageInv ==
    /\ PageTypeOK
    /\ there \subseteq Rows /\ edges \subseteq Rows
    /\ NothingShown /\ CursorWalk /\ OffsetWalk
    /\ WalksAreComplete

LEMMA TopsFacts ==
    ASSUME NEW S \in SUBSET Ids, NEW n \in Nat, NEW T \in Tops(S, n)
    PROVE  /\ T \in SUBSET S /\ Cardinality(T) \in Nat
           /\ T # S => Cardinality(T) = n
           /\ Cardinality(T) <= n
           /\ Cardinality(S) <= n => T = S
           /\ \A i \in T, j \in S \ T : ~Before(j, i)
  <1>1. /\ T \in SUBSET S
        /\ Cardinality(T) = IF n < Cardinality(S) THEN n ELSE Cardinality(S)
        /\ \A i \in T, j \in S \ T : ~Before(j, i)
    BY DEF Tops
  <1>2. /\ Cardinality(S) \in Nat /\ Cardinality(T) \in Nat
        /\ Cardinality(T) = Cardinality(S) => T = S
    BY <1>1, RowsFinite
  <1> QED BY <1>1, <1>2

LEMMA ShowFacts ==
    ASSUME seen \in [Ids -> 0..2], NEW D \in SUBSET Ids, Show(D)
    PROVE  /\ seen' \in [Ids -> 0..2]
           /\ \A i \in Ids : /\ i \notin D => seen'[i] = seen[i]
                             /\ i \in D /\ seen[i] = 0 => seen'[i] = 1
                             /\ seen[i] # 0 => seen'[i] # 0
  BY DEF Show

LEMMA KeysetFacts ==
    ASSUME PageTypeOK, NEW c \in Rows
    PROVE  /\ Keyset(c) \subseteq Rows /\ Rows \subseteq Ids
           /\ \A d \in Keyset(c) : Keyset(d) \subseteq Keyset(c)
           /\ c \notin Keyset(c)
  <1>1. created \in [Ids -> Nat] /\ Ids \subseteq Nat /\ Rows \subseteq Ids
    BY PaginationAssumption DEF PageTypeOK, Rows
  <1>2. Keyset(c) \subseteq Rows
    BY DEF Keyset, Older
  <1>3. \A d \in Keyset(c) : \A i \in Keyset(d) : i \in Keyset(c)
    <2> SUFFICES ASSUME NEW d \in Keyset(c), NEW i \in Keyset(d)
                 PROVE  i \in Keyset(c)
      OBVIOUS
    <2>1. /\ i \in Rows /\ d \in Rows
          /\ created[i] \in Nat /\ created[d] \in Nat /\ created[c] \in Nat
          /\ i \in Nat /\ d \in Nat /\ c \in Nat
      BY <1>1 DEF Keyset, Older
    <2>2. created[d] < created[c] \/ (created[d] = created[c] /\ d < c)
      BY <2>1 DEF Keyset, Older
    <2>3. created[i] < created[d] \/ (created[i] = created[d] /\ i < d)
      BY <2>1 DEF Keyset, Older
    <2>4. created[i] < created[c] \/ (created[i] = created[c] /\ i < c)
      BY <2>1, <2>2, <2>3
    <2> QED BY <2>1, <2>4 DEF Keyset, Older
  <1>4. c \notin Keyset(c)
    BY <1>1 DEF Keyset, Older
  <1> QED BY <1>1, <1>2, <1>3, <1>4

(* A page takes from a keyset the rows before the next keyset. *)
LEMMA PageSplitsKeyset ==
    ASSUME PageTypeOK, NEW S \in SUBSET Rows, NEW D \in Tops(S, Limit),
           NEW last \in D, \A i \in D : ~Before(last, i), edges' = edges \cup {last},
           created' = created, walk'.order = walk.order,
           NEW i \in S, ~Excused(i)'
    PROVE  i \in D <=> i \notin Keyset(last)
  <1>1. /\ \A j \in D, k \in S \ D : ~Before(k, j)
        /\ D \subseteq S /\ S \subseteq Ids
    BY TopsFacts, PaginationAssumption DEF Rows
  <1>2. created \in [Ids -> Nat] /\ walk.order \in {"caller", "made"} /\ Ids \subseteq Nat
    BY PaginationAssumption DEF PageTypeOK, Walk
  <1>3. i # last /\ created[i] = created[last] => walk.order = "made"
    BY <1>2 DEF Excused, Tied
  <1>4. CASE i \in D
    <2>1. ~Before(last, i)
      BY <1>4
    <2> QED BY <2>1, <1>1, <1>2, <1>3, <1>4 DEF Before, Keyset, Older
  <1>5. CASE i \notin D
    <2>1. ~Before(i, last)
      BY <1>1, <1>5
    <2>2. i # last
      BY <1>5
    <2> QED BY <2>1, <2>2, <1>1, <1>2, <1>3, <1>5 DEF Before, Keyset, Older
  <1> QED BY <1>4, <1>5

-------------------------------------------------------------------------------
(* Steps. *)

LEMMA PageInitInv == PageInit => PageInv
  <1> SUFFICES ASSUME PageInit
               PROVE  PageInv
    OBVIOUS
  <1>1. Cardinality(Ids) \in Nat
    BY RowsFinite
  <1> QED BY <1>1, PaginationAssumption
          DEF PageInit, PageInv, PageTypeOK, Walk, NothingShown, CursorWalk, OffsetWalk,
              WalksAreComplete

(* What stays when rows are only added, and the walk does not move. *)
LEMMA TickInv == PageInv /\ Tick => PageInv'
  BY PaginationAssumption
  DEF PageInv, PageTypeOK, NothingShown, CursorWalk, OffsetWalk, WalksAreComplete, Tick,
      Rows, Keyset, Older, Higher, Excused, Tied, Answered

LEMMA StartInv ==
    ASSUME PageInv, NEW next \in {"cursor", "offset"}, NEW order \in {"caller", "made"},
           next = "offset" => order = "caller", StartWalk(next, order)
    PROVE  PageInv'
  <1>1. /\ walk \in Walk /\ walk.next = "start" /\ walk.page = 1 /\ walk.cursor = 0
        /\ edges = {} /\ \A i \in Ids : seen[i] = 0
    BY DEF PageInv, PageTypeOK, NothingShown, StartWalk
  <1>2. /\ walk' = [walk EXCEPT !.next = next, !.order = order]
        /\ UNCHANGED <<created, now, seen, edges>>
        /\ there' = Rows
    BY DEF StartWalk
  <1>3. /\ walk' \in Walk /\ walk'.next = next /\ walk'.order = order
        /\ walk'.page = 1 /\ walk'.cursor = 0
    BY <1>1, <1>2 DEF Walk
  <1>4. Rows' = Rows /\ Rows \subseteq Ids
    BY <1>2 DEF Rows
  <1>5. PageTypeOK'
    BY <1>2, <1>3, <1>4 DEF PageInv, PageTypeOK
  <1>6. there' \subseteq Rows' /\ edges' \subseteq Rows'
    BY <1>1, <1>2, <1>4
  <1>7. NothingShown'
    BY <1>1, <1>2, <1>3 DEF NothingShown
  <1>8. CursorWalk'
    BY <1>3 DEF CursorWalk
  <1>9. OffsetWalk'
    <2>1. Answered' * Limit = 0
      BY <1>3, PaginationAssumption DEF Answered
    <2>2. \A i \in Rows' : Cardinality(Higher(i)') >= 0
      <3> SUFFICES ASSUME NEW i \in Rows'
                   PROVE  Cardinality(Higher(i)') >= 0
        OBVIOUS
      <3>1. Higher(i)' \in SUBSET Ids
        BY DEF Higher, Rows
      <3> QED BY <3>1, RowsFinite
    <2> QED BY <2>1, <2>2, <1>1, <1>2, <1>3, <1>6 DEF OffsetWalk
  <1>10. WalksAreComplete'
    BY <1>3 DEF WalksAreComplete
  <1> QED BY <1>5, <1>6, <1>7, <1>8, <1>9, <1>10 DEF PageInv

LEMMA InsertInv ==
    ASSUME PageInv, NEW new \in Ids, Insert(new)
    PROVE  PageInv'
  <1>1. /\ created[new] = 0 /\ created' = [created EXCEPT ![new] = now]
        /\ UNCHANGED <<now, walk, seen, there, edges>>
    BY DEF Insert
  <1>2. /\ PageTypeOK /\ created \in [Ids -> Nat] /\ now \in Nat \ {0}
        /\ there \subseteq Rows /\ edges \subseteq Rows
    BY PaginationAssumption DEF PageInv, PageTypeOK
  <1>3. /\ new \notin Rows /\ Rows' = Rows \cup {new} /\ Rows \subseteq Ids
        /\ \A i \in Rows : created'[i] = created[i]
        /\ created'[new] = now
    BY <1>1, <1>2 DEF Rows
  <1>4. PageTypeOK'
    BY <1>1, <1>2, PaginationAssumption DEF PageTypeOK
  <1>5. there' \subseteq Rows' /\ edges' \subseteq Rows'
    BY <1>1, <1>2, <1>3
  <1>6. NothingShown'
    BY <1>1 DEF PageInv, NothingShown
  <1>7. \A i \in there : /\ Tied(i, edges) => Tied(i, edges)'
                         /\ Tied(i, Rows) => Tied(i, Rows)'
                         /\ Excused(i) => Excused(i)'
    BY <1>1, <1>2, <1>3 DEF Tied, Excused
  <1>8. CursorWalk'
    <2>1. \A i \in there : walk.cursor \in Rows =>
              (i \in Keyset(walk.cursor) <=> i \in Keyset(walk.cursor)')
      BY <1>1, <1>2, <1>3 DEF Keyset, Older
    <2> QED BY <2>1, <1>1, <1>3, <1>7 DEF PageInv, CursorWalk
  <1>9. OffsetWalk'
    <2>1. Cardinality(Rows) <= Cardinality(Rows') /\ Cardinality(Rows) \in Nat
          /\ Cardinality(Rows') \in Nat
      <3>1. Rows' \in SUBSET Ids /\ Rows \in SUBSET Rows'
        BY <1>3
      <3> QED BY <3>1, RowsFinite
    <2>2. ASSUME NEW i \in there
          PROVE  /\ Cardinality(Higher(i)) <= Cardinality(Higher(i)')
                 /\ Cardinality(Higher(i)) \in Nat /\ Cardinality(Higher(i)') \in Nat
      <3>1. Higher(i)' \in SUBSET Ids
        BY <1>3 DEF Higher
      <3>2. Higher(i) \in SUBSET Higher(i)'
        BY <1>2, <1>3 DEF Higher
      <3> QED BY <3>1, <3>2, RowsFinite
    <2>3. Answered' = Answered /\ Answered \in Int /\ Answered * Limit \in Int
      BY <1>1, <1>2, PaginationAssumption DEF Answered, PageTypeOK, Walk
    <2>4. Limit \in Nat
      BY PaginationAssumption
    <2> QED BY <2>1, <2>2, <2>3, <2>4, <1>1, <1>7 DEF PageInv, OffsetWalk
  <1>10. WalksAreComplete'
    BY <1>1, <1>7 DEF PageInv, WalksAreComplete
  <1> QED BY <1>4, <1>5, <1>6, <1>8, <1>9, <1>10 DEF PageInv

(* Sorted by time, the rows of an offset page follow those it skips.       *)
LEMMA SkippedComeBefore ==
    ASSUME PageTypeOK, walk.order = "caller", NEW n \in Nat,
           NEW A \in Tops(Rows, n), NEW D \in Tops(Rows \ A, Limit),
           NEW i \in Rows, ~Tied(i, Rows), i \notin D
    PROVE  Cardinality(Higher(i)) < n \/ Cardinality(Higher(i)) >= n + Limit
  <1>1. /\ Rows \in SUBSET Ids /\ Rows \ A \in SUBSET Ids /\ Limit \in Nat
        /\ \A j \in Rows : created[j] \in Nat
    BY PaginationAssumption DEF Rows, PageTypeOK
  <1>2. /\ A \in SUBSET Rows /\ Cardinality(A) \in Nat /\ Cardinality(A) <= n
        /\ A # Rows => Cardinality(A) = n
        /\ \A j \in A, k \in Rows \ A : ~Before(k, j)
    BY <1>1, TopsFacts
  <1>3. /\ D \in SUBSET (Rows \ A) /\ Cardinality(D) \in Nat
        /\ D # Rows \ A => Cardinality(D) = Limit
        /\ \A j \in D, k \in (Rows \ A) \ D : ~Before(k, j)
    <2>1. ASSUME NEW S \in SUBSET Ids, D \in Tops(S, Limit)
          PROVE  /\ D \in SUBSET S /\ Cardinality(D) \in Nat
                 /\ D # S => Cardinality(D) = Limit
                 /\ \A j \in D, k \in S \ D : ~Before(k, j)
      BY <2>1, <1>1, TopsFacts
    <2> QED BY <2>1, <1>1
  <1>4. /\ Higher(i) \in SUBSET Rows /\ i \notin Higher(i)
        /\ Higher(i) \in SUBSET Ids /\ Cardinality(Higher(i)) \in Nat
    <2>1. Higher(i) \in SUBSET Rows /\ i \notin Higher(i)
      BY <1>1 DEF Higher
    <2> QED BY <2>1, <1>1, RowsFinite
  <1>5. CASE i \in A
    <2>1. Higher(i) \in SUBSET A
      BY <1>1, <1>2, <1>4, <1>5 DEF Higher, Before
    <2>2. A \in SUBSET Ids /\ {i} \in SUBSET (A \ Higher(i))
      BY <1>1, <1>2, <1>4, <1>5
    <2>3. Cardinality(Higher(i)) + Cardinality({i}) <= Cardinality(A)
      BY <2>1, <2>2, Disjoint
    <2>4. Cardinality({i}) = 1
      BY FS_Singleton
    <2> QED BY <2>3, <2>4, <1>2, <1>4
  <1>6. CASE i \notin A
    <2>1. /\ \A j \in A : j # i /\ j \in Rows /\ ~Before(i, j)
          /\ \A j \in D : j # i /\ j \in Rows /\ ~Before(i, j)
      BY <1>2, <1>3, <1>6
    <2>2. \A j \in Rows : j # i /\ ~Before(i, j) => j \in Higher(i)
      BY <1>1 DEF Before, Higher, Tied
    <2>3. A \in SUBSET Higher(i) /\ D \in SUBSET (Higher(i) \ A)
      BY <2>1, <2>2, <1>3
    <2>4. Cardinality(A) + Cardinality(D) <= Cardinality(Higher(i))
      BY <2>3, <1>4, Disjoint
    <2>5. Cardinality(A) = n /\ Cardinality(D) = Limit
      BY <1>2, <1>3, <1>6
    <2> QED BY <2>4, <2>5, <1>1, <1>4
  <1> QED BY <1>5, <1>6

LEMMA OffsetPageInv == PageInv /\ OffsetPage => PageInv'
  <1> SUFFICES ASSUME PageInv, OffsetPage
               PROVE  PageInv'
    OBVIOUS
  <1>1. /\ walk.next = "offset" /\ walk' = [walk EXCEPT !.next = "count"]
        /\ UNCHANGED <<created, now, there, edges>>
    BY DEF OffsetPage
  <1>2. PICK A \in Tops(Rows, (walk.page - 1) * Limit) :
             \E D \in Tops(Rows \ A, Limit) : Show(D)
    BY DEF OffsetPage
  <1>3. PICK D \in Tops(Rows \ A, Limit) : Show(D)
    BY <1>2
  <1>4. /\ PageTypeOK /\ walk \in Walk /\ walk.page \in Nat \ {0}
        /\ seen \in [Ids -> 0..2] /\ Rows \in SUBSET Ids /\ Rows \ A \in SUBSET Ids
        /\ there \subseteq Rows /\ Limit \in Nat \ {0}
    BY PaginationAssumption DEF PageInv, PageTypeOK, Walk, Rows
  <1>5. /\ walk' \in Walk /\ walk'.next = "count" /\ walk'.order = walk.order
        /\ walk'.page = walk.page /\ walk'.cursor = walk.cursor
    BY <1>1, <1>4 DEF Walk
  <1>6. D \in SUBSET Ids
    BY <1>4, TopsFacts
  <1>7. /\ seen' \in [Ids -> 0..2]
        /\ \A i \in Ids : /\ i \notin D => seen'[i] = seen[i]
                          /\ i \in D /\ seen[i] = 0 => seen'[i] = 1
                          /\ seen[i] # 0 => seen'[i] # 0
    BY <1>3, <1>4, <1>6, ShowFacts
  <1>8. /\ Rows' = Rows
        /\ \A i \in Ids : Higher(i)' = Higher(i) /\ (Tied(i, Rows)' <=> Tied(i, Rows))
    BY <1>1 DEF Rows, Higher, Tied
  <1>9. /\ walk.order = "caller" /\ edges = {}
        /\ \A i \in there : \/ Tied(i, Rows) \/ seen[i] # 0
                            \/ Cardinality(Higher(i)) >= (walk.page - 1) * Limit
        /\ walk.page = 1 => \A i \in Ids : seen[i] = 0
    BY <1>1 DEF PageInv, OffsetWalk, NothingShown, Answered
  <1>10. PageTypeOK' /\ there' \subseteq Rows' /\ edges' \subseteq Rows'
    BY <1>1, <1>4, <1>5, <1>7, <1>8 DEF PageInv, PageTypeOK
  <1>11. NothingShown' /\ CursorWalk' /\ WalksAreComplete'
    BY <1>5 DEF NothingShown, CursorWalk, WalksAreComplete
  <1>12. /\ walk.page * Limit \in Nat /\ (walk.page - 1) * Limit \in Nat
         /\ (walk.page - 1) * Limit + Limit = walk.page * Limit
    BY <1>4, PageEnds
  <1>13. ASSUME walk.page = 1
         PROVE  Cardinality(Rows) > Limit \/ \A i \in there : seen'[i] = 1
    <2>1. (walk.page - 1) * Limit = 0
      BY <1>4, <1>13
    <2>2. Cardinality(A) <= 0 /\ A \in SUBSET Rows /\ Cardinality(A) \in Nat /\ IsFiniteSet(A)
      BY <1>4, <1>12, <2>1, TopsFacts, RowsFinite
    <2>3. A = {}
      BY <2>2, FS_EmptySet
    <2>4. Cardinality(Rows) \in Nat /\ (Cardinality(Rows) <= Limit => D = Rows \ A)
      BY <1>4, <2>3, TopsFacts, RowsFinite
    <2> QED BY <2>3, <2>4, <1>4, <1>7, <1>9, <1>13
  <1>14. ASSUME NEW i \in there, ~Tied(i, Rows), seen'[i] = 0
         PROVE  Cardinality(Higher(i)) >= walk.page * Limit
    <2>1. i \notin D /\ seen[i] = 0 /\ i \in Rows
      BY <1>4, <1>7, <1>14
    <2>2. \/ Cardinality(Higher(i)) < (walk.page - 1) * Limit
          \/ Cardinality(Higher(i)) >= (walk.page - 1) * Limit + Limit
      BY <2>1, <1>4, <1>9, <1>12, <1>14, SkippedComeBefore
    <2>3. Cardinality(Higher(i)) >= (walk.page - 1) * Limit
      BY <2>1, <1>9, <1>14
    <2>4. Cardinality(Higher(i)) \in Nat
      <3>1. Higher(i) \in SUBSET Ids
        BY <1>4 DEF Higher
      <3> QED BY <3>1, RowsFinite
    <2> QED BY <2>2, <2>3, <2>4, <1>12
  <1>15. OffsetWalk'
    <2>1. Answered' = walk.page
      BY <1>5 DEF Answered
    <2>2. \A i \in there : Tied(i, Rows)' \/ seen'[i] # 0
                           \/ Cardinality(Higher(i)') >= Answered' * Limit
      BY <2>1, <1>4, <1>8, <1>14
    <2> QED BY <2>2, <1>1, <1>5, <1>8, <1>9, <1>13 DEF OffsetWalk
  <1> QED BY <1>10, <1>11, <1>15 DEF PageInv

LEMMA OffsetCountInv == PageInv /\ OffsetCount => PageInv'
  <1> SUFFICES ASSUME PageInv, OffsetCount
               PROVE  PageInv'
    OBVIOUS
  <1> DEFINE n == Cardinality(Rows)
             pages == (n + Limit - 1) \div Limit
  <1>1. /\ walk.next = "count"
        /\ walk' = IF walk.page < pages
                   THEN [walk EXCEPT !.next = "offset", !.page = walk.page + 1]
                   ELSE [walk EXCEPT !.next = "done"]
        /\ UNCHANGED <<created, now, seen, there, edges>>
    BY DEF OffsetCount
  <1>2. /\ PageTypeOK /\ walk \in Walk /\ walk.page \in Nat \ {0}
        /\ seen \in [Ids -> 0..2] /\ Rows \in SUBSET Ids
        /\ there \subseteq Rows /\ Limit \in Nat \ {0}
    BY PaginationAssumption DEF PageInv, PageTypeOK, Walk, Rows
  <1>3. n \in Nat /\ Cardinality(Ids) \in Nat /\ n <= Cardinality(Ids)
    BY <1>2, RowsFinite
  <1>4. /\ pages \in Nat /\ pages <= n
        /\ \A p \in Nat : p >= pages => n <= p * Limit
    BY <1>2, <1>3, PagesHoldRows
  <1> HIDE DEF pages
  <1>5. /\ Rows' = Rows
        /\ \A i \in Ids : Higher(i)' = Higher(i) /\ (Tied(i, Rows)' <=> Tied(i, Rows))
    BY <1>1 DEF Rows, Higher, Tied
  <1>6. /\ walk.order = "caller" /\ edges = {}
        /\ walk.page = 1 => n > Limit \/ \A i \in there : seen[i] = 1
        /\ \A i \in there : \/ Tied(i, Rows) \/ seen[i] # 0
                            \/ Cardinality(Higher(i)) >= walk.page * Limit
    BY <1>1 DEF PageInv, OffsetWalk, Answered
  <1>7. CASE walk.page < pages
    <2>1. /\ walk' \in Walk /\ walk'.next = "offset" /\ walk'.order = walk.order
          /\ walk'.page = walk.page + 1 /\ walk'.cursor = walk.cursor
      <3>1. walk.page + 1 \in 1..Cardinality(Ids) + 1
        BY <1>2, <1>3, <1>4, <1>7
      <3> QED BY <3>1, <1>1, <1>2, <1>7 DEF Walk
    <2>2. PageTypeOK' /\ there' \subseteq Rows' /\ edges' \subseteq Rows'
      BY <1>1, <1>2, <1>5, <1>6, <2>1 DEF PageTypeOK
    <2>3. walk'.page # 1 /\ Answered' = walk.page
      BY <1>2, <2>1 DEF Answered
    <2>4. NothingShown' /\ CursorWalk' /\ WalksAreComplete'
      BY <2>1, <2>3 DEF NothingShown, CursorWalk, WalksAreComplete
    <2>5. OffsetWalk'
      <3>1. \A i \in there : Tied(i, Rows)' \/ seen'[i] # 0
                             \/ Cardinality(Higher(i)') >= Answered' * Limit
        BY <1>1, <1>2, <1>5, <1>6, <2>3
      <3> QED BY <3>1, <1>1, <1>6, <2>1, <2>3 DEF OffsetWalk
    <2> QED BY <2>2, <2>4, <2>5 DEF PageInv
  <1>8. CASE ~(walk.page < pages)
    <2>1. /\ walk' \in Walk /\ walk'.next = "done" /\ walk'.order = walk.order
          /\ walk'.page = walk.page
      BY <1>1, <1>2, <1>8 DEF Walk
    <2>2. PageTypeOK' /\ there' \subseteq Rows' /\ edges' \subseteq Rows'
      BY <1>1, <1>2, <1>5, <1>6, <2>1 DEF PageTypeOK
    <2>3. NothingShown' /\ CursorWalk' /\ OffsetWalk'
      BY <2>1 DEF NothingShown, CursorWalk, OffsetWalk
    <2>4. n <= walk.page * Limit /\ walk.page * Limit \in Nat
      <3>1. walk.page \in Nat /\ walk.page >= pages /\ walk.page * Limit \in Nat
        BY <1>2, <1>4, <1>8
      <3> QED BY <3>1, <1>4
    <2>5. ASSUME NEW i \in there, walk.page # 1
          PROVE  seen[i] \in {1, 2} \/ Tied(i, Rows)
      <3>1. Cardinality(Higher(i)) < n /\ Cardinality(Higher(i)) \in Nat
        <4>1. /\ Higher(i) \in SUBSET Rows /\ Higher(i) \in SUBSET Ids
              /\ {i} \in SUBSET (Rows \ Higher(i))
          BY <1>2 DEF Higher, PageTypeOK
        <4>2. Cardinality(Higher(i)) + Cardinality({i}) <= n
          BY <4>1, <1>2, Disjoint
        <4>3. Cardinality({i}) = 1 /\ Cardinality(Higher(i)) \in Nat
          BY <4>1, FS_Singleton, RowsFinite
        <4> QED BY <4>2, <4>3, <1>3
      <3>2. seen[i] \in 0..2
        BY <1>2
      <3> QED BY <3>1, <3>2, <2>4, <1>3, <1>6
    <2>6. ASSUME NEW i \in there, walk.page = 1
          PROVE  seen[i] = 1
      <3>1. n <= Limit
        BY <2>4, <2>6, <1>2
      <3> QED BY <3>1, <2>6, <1>2, <1>3, <1>6
    <2>7. WalksAreComplete'
      <3>1. ASSUME NEW i \in there
            PROVE  IF walk.page = 1 THEN seen[i] = 1
                   ELSE seen[i] \in {1, 2} \/ Tied(i, Rows)'
        BY <2>5, <2>6, <1>2, <1>5
      <3> QED BY <3>1, <2>1, <1>1, <1>2, <1>6 DEF WalksAreComplete
    <2> QED BY <2>2, <2>3, <2>7 DEF PageInv
  <1> QED BY <1>7, <1>8

LEMMA CursorPageInv == PageInv /\ CursorPage => PageInv'
  <1> SUFFICES ASSUME PageInv, CursorPage
               PROVE  PageInv'
    OBVIOUS
  <1> DEFINE S == IF walk.cursor = 0 THEN Rows ELSE Keyset(walk.cursor)
  <1>1. walk.next = "cursor" /\ Page(S) /\ UNCHANGED <<created, now, there>>
    BY DEF CursorPage
  <1>2. PICK D \in Tops(S, Limit) :
           /\ Show(D)
           /\ IF Cardinality(S) <= Limit
              THEN walk' = [walk EXCEPT !.next = "done"] /\ UNCHANGED edges
              ELSE \E last \in D :
                     /\ \A i \in D : ~Before(last, i)
                     /\ walk' = [walk EXCEPT !.cursor = last]
                     /\ edges' = edges \cup {last}
    BY <1>1 DEF Page
  <1>3. /\ PageTypeOK /\ walk \in Walk /\ walk.page = 1
        /\ seen \in [Ids -> 0..2] /\ Rows \in SUBSET Ids
        /\ there \subseteq Rows /\ edges \subseteq Rows /\ Limit \in Nat \ {0}
        /\ Ids \subseteq Nat \ {0}
    BY <1>1, PaginationAssumption DEF PageInv, PageTypeOK, Rows, CursorWalk
  <1>4. /\ S \in SUBSET Rows /\ S \in SUBSET Ids
        /\ \A i \in there : Excused(i) \/ seen[i] = IF i \in S THEN 0 ELSE 1
        /\ \A d \in S : d # 0 /\ Keyset(d) \subseteq S
    <2>1. CASE walk.cursor = 0
      <3>1. \A d \in Rows : Keyset(d) \subseteq Rows
        BY <1>3, KeysetFacts
      <3> QED BY <2>1, <3>1, <1>1, <1>3 DEF PageInv, NothingShown
    <2>2. CASE walk.cursor # 0
      <3>1. /\ walk.cursor \in Rows
            /\ \A i \in there : Excused(i) \/ seen[i] = IF i \in S THEN 0 ELSE 1
        BY <2>2, <1>1 DEF PageInv, CursorWalk
      <3> QED BY <3>1, <2>2, <1>3, KeysetFacts
    <2> QED BY <2>1, <2>2
  <1> HIDE DEF S
  <1>5. D \in SUBSET S /\ D \in SUBSET Ids /\ (Cardinality(S) <= Limit => D = S)
    BY <1>3, <1>4, TopsFacts
  <1>6. /\ seen' \in [Ids -> 0..2]
        /\ \A i \in Ids : /\ i \notin D => seen'[i] = seen[i]
                          /\ i \in D /\ seen[i] = 0 => seen'[i] = 1
                          /\ seen[i] # 0 => seen'[i] # 0
    BY <1>2, <1>3, <1>5, ShowFacts
  <1>7. Rows' = Rows /\ \A c \in Ids : Keyset(c)' = Keyset(c)
    BY <1>1 DEF Rows, Keyset, Older
  <1>8. CASE Cardinality(S) <= Limit
    <2>1. walk' = [walk EXCEPT !.next = "done"] /\ edges' = edges /\ D = S
      BY <1>2, <1>5, <1>8
    <2>2. /\ walk' \in Walk /\ walk'.next = "done" /\ walk'.order = walk.order
          /\ walk'.page = 1
      BY <1>3, <2>1 DEF Walk
    <2>3. PageTypeOK' /\ there' \subseteq Rows' /\ edges' \subseteq Rows'
      BY <1>1, <1>3, <1>6, <1>7, <2>1, <2>2 DEF PageTypeOK
    <2>4. NothingShown' /\ CursorWalk' /\ OffsetWalk'
      BY <2>2 DEF NothingShown, CursorWalk, OffsetWalk
    <2>5. \A i \in there : Excused(i) \/ seen'[i] = 1
      BY <1>3, <1>4, <1>6, <2>1
    <2>6. WalksAreComplete'
      BY <1>1, <2>1, <2>2, <2>5 DEF WalksAreComplete, Excused, Tied
    <2> QED BY <2>3, <2>4, <2>6 DEF PageInv
  <1>9. CASE ~(Cardinality(S) <= Limit)
    <2>1. PICK last \in D : /\ \A i \in D : ~Before(last, i)
                            /\ walk' = [walk EXCEPT !.cursor = last]
                            /\ edges' = edges \cup {last}
      BY <1>2, <1>9
    <2>2. /\ walk' \in Walk /\ walk'.next = "cursor" /\ walk'.order = walk.order
          /\ walk'.page = 1 /\ walk'.cursor = last /\ last # 0 /\ last \in Rows /\ last \in S
      BY <1>1, <1>3, <1>4, <1>5, <2>1 DEF Walk
    <2>3. PageTypeOK' /\ there' \subseteq Rows' /\ edges' \subseteq Rows'
      BY <1>1, <1>3, <1>6, <1>7, <2>1, <2>2 DEF PageTypeOK
    <2>4. NothingShown' /\ OffsetWalk' /\ WalksAreComplete'
      BY <2>2 DEF NothingShown, OffsetWalk, WalksAreComplete
    <2>5. \A i \in there : Excused(i) => Excused(i)'
      BY <1>1, <2>1, <2>2 DEF Excused, Tied
    <2>6. ASSUME NEW i \in there, ~Excused(i)'
          PROVE  seen'[i] = IF i \in Keyset(last) THEN 0 ELSE 1
      <3>1. i \in Ids /\ seen[i] = IF i \in S THEN 0 ELSE 1
        BY <2>5, <2>6, <1>3, <1>4
      <3>2. CASE i \in S
        <4>1. i \in D <=> i \notin Keyset(last)
          BY <3>2, <2>1, <2>2, <2>6, <1>1, <1>3, <1>4, PageSplitsKeyset
        <4> QED BY <4>1, <3>1, <3>2, <1>6
      <3>3. CASE i \notin S
        <4>1. i \notin Keyset(last) /\ i \notin D
          BY <3>3, <2>2, <1>4, <1>5
        <4> QED BY <4>1, <3>1, <3>3, <1>6
      <3> QED BY <3>2, <3>3
    <2>7. CursorWalk'
      <3>1. Keyset(walk.cursor)' = Keyset(last)
        BY <1>1, <2>2 DEF Keyset, Older, Rows
      <3> QED BY <3>1, <2>2, <2>6, <1>1, <1>7 DEF CursorWalk
    <2> QED BY <2>3, <2>4, <2>7 DEF PageInv
  <1> QED BY <1>8, <1>9

(* Every step of the client and of the table preserves the invariant.      *)
LEMMA PageStepInv == PageInv /\ [PageNext]_pageVars => PageInv'
  <1> SUFFICES ASSUME PageInv, [PageNext]_pageVars
               PROVE  PageInv'
    OBVIOUS
  <1>1. CASE UNCHANGED pageVars
    BY <1>1 DEF pageVars, PageInv, PageTypeOK, NothingShown, CursorWalk, OffsetWalk,
                WalksAreComplete, Rows, Keyset, Older, Higher, Excused, Tied, Answered
  <1>2. ASSUME NEW i \in Ids, Insert(i) PROVE PageInv'
    BY <1>2, InsertInv
  <1>3. ASSUME NEW order \in {"caller", "made"}, StartWalk("cursor", order) PROVE PageInv'
    BY <1>3, StartInv
  <1>4. CASE StartWalk("offset", "caller")
    BY <1>4, StartInv
  <1> QED BY <1>1, <1>2, <1>3, <1>4, TickInv, CursorPageInv, OffsetPageInv, OffsetCountInv
          DEF PageNext

(* What the walk has shown, for any rows, any size of a page and any time. *)
THEOREM PageInvariance == PageSpec => []PageInv
<1>1. PageInit => PageInv BY PageInitInv
<1>2. PageInv /\ [PageNext]_pageVars => PageInv' BY PageStepInv
<1>3. QED BY <1>1, <1>2, PTL DEF PageSpec

(* Every variable of the client and of its table keeps its type            *)
(* (pagination.util.ts), for any number of rows.                           *)
THEOREM PageTypes == PageSpec => []PageTypeOK
<1>1. PageInv => PageTypeOK BY DEF PageInv
<1>2. QED BY <1>1, PageInvariance, PTL

(* A walk to the last page misses no row that was there when it began, and *)
(* by cursor it repeats none, for any rows, any size of a page and any     *)
(* insertions between two pages; rows the caller's orderBy does not tell   *)
(* apart are the only exception (activity.repository.ts:85).               *)
THEOREM WalksMissNothing == PageSpec => []WalksAreComplete
<1>1. PageInv => WalksAreComplete BY DEF PageInv
<1>2. QED BY <1>1, PageInvariance, PTL

-------------------------------------------------------------------------------
(* The instance.  A behaviour stays in the module it has chosen, where it  *)
(* is a behaviour of that module's specification.                          *)

LEMMA RecordsChoose ==
    RecordsInit => /\ component \in {"accounts", "files", "push", "pages"}
                   /\ AccountsInit /\ FilesInit /\ PushInit /\ PageInit
  BY DEF RecordsInit

LEMMA AccountsChosen ==
    component = "accounts"
    /\ [RecordsNext]_<<component, pc, faults, accountVars, fileVars, pushVars, pageVars>>
    => (component = "accounts")' /\ [AccountsNext]_<<pc, faults, accountVars>>
  BY DEF RecordsNext

LEMMA FilesChosen ==
    component = "files"
    /\ [RecordsNext]_<<component, pc, faults, accountVars, fileVars, pushVars, pageVars>>
    => (component = "files")' /\ [FilesNext]_<<pc, faults, fileVars>>
  BY DEF RecordsNext

LEMMA PushChosen ==
    component = "push"
    /\ [RecordsNext]_<<component, pc, faults, accountVars, fileVars, pushVars, pageVars>>
    => (component = "push")' /\ [PushNext]_<<pc, faults, pushVars>>
  BY DEF RecordsNext

LEMMA PagesChosen ==
    component = "pages"
    /\ [RecordsNext]_<<component, pc, faults, accountVars, fileVars, pushVars, pageVars>>
    => (component = "pages")' /\ [PageNext]_pageVars
  BY DEF RecordsNext

(* What happens to rows that need no session happens to an account, a      *)
(* file, a push token or a list of rows, each as its own specification     *)
(* describes it, so that what is proved of the modules holds in the        *)
(* instance (user.repository.ts, create-upload-url.service.ts,             *)
(* register-fcm-token.service.ts, pagination.util.ts).                     *)
THEOREM RecordsAreOneModule ==
    RecordsSpec => \/ [](component = "accounts") /\ AccountsSpec
                   \/ [](component = "files")    /\ FilesSpec
                   \/ [](component = "push")     /\ PushSpec
                   \/ [](component = "pages")    /\ PageSpec
<1>1. component \in {"accounts", "files", "push", "pages"}
      => \/ component = "accounts" \/ component = "files"
         \/ component = "push" \/ component = "pages"
  OBVIOUS
<1>2. QED
  BY <1>1, RecordsChoose, AccountsChosen, FilesChosen, PushChosen, PagesChosen, PTL
  DEF RecordsSpec, AccountsSpec, FilesSpec, PushSpec, PageSpec

(* Whichever module a behaviour has chosen keeps the types of its          *)
(* variables, pc among them, which three of them share.                    *)
THEOREM RecordsTypes == RecordsSpec => []RecordsTypeOK
<1>1. component = "accounts" /\ AccountsInv => RecordsTypeOK
  BY DEF RecordsTypeOK, AccountsInv
<1>2. component = "files" /\ FilesInv => RecordsTypeOK
  BY DEF RecordsTypeOK, FilesInv
<1>3. component = "push" /\ PushInv => RecordsTypeOK
  BY DEF RecordsTypeOK, PushInv
<1>4. component = "pages" /\ PageInv => RecordsTypeOK
  BY DEF RecordsTypeOK, PageInv
<1>5. QED
  BY <1>1, <1>2, <1>3, <1>4, RecordsAreOneModule, AccountsInvariance, FilesInvariance,
     PushInvariance, PageInvariance, PTL
===============================================================================
