-------------------------- MODULE AuditPipelineProofs --------------------------
(***************************************************************************)
(* Theorems about AuditPipeline, for any rows, workers, batch size and     *)
(* number of faults: no row is stored twice or disappears, a fault loses   *)
(* one batch, and an import that has left the queue is complete, with a    *)
(* copy more only for a run whose end BullMQ did not see.                  *)
(***************************************************************************)
EXTENDS AuditPipeline, FiniteSetTheorems, TLAPS

(* A batch of the list in the hands of a worker. *)
Popped(S) == S \subseteq Rows /\ Cardinality(S) <= batchSize

(* What a worker holds in memory when it comes to an await.  One whose job *)
(* was given away has what it had.                                         *)
WorkerFits(label, j, S) ==
    /\ label = "idle" <=> j = NoJob
    /\ label # "persist" => S = {}
    /\ label = "drain" => j # "bulk"
    /\ label = "persist" => /\ j = "bulk" => S = BulkRows
                            /\ j = Stalled => S = BulkRows \/ Popped(S)
                            /\ j \in {"flush", "tick"} => Popped(S)

WorkersFit == \A w \in Workers : WorkerFits(wpc[w], wjob[w], hand[w])

(* A job with an id of its own is run by one worker that it is not taken   *)
(* from.                                                                   *)
JobsAreRun ==
    \A j \in Kept :
        /\ \A w \in Workers : wjob[w] = j => job[j] = "active"
        /\ \A v, w \in Workers : wjob[v] = j /\ wjob[w] = j => v = w

TriesLeft == \A j \in Job : job[j] # "failed" => tries[j] < attempts

(* The runs of the import: those whose job was given away and that have    *)
(* still to insert, and the one that ended or is about to end well.        *)
Late(b) == {w \in Workers : wjob[w] = Stalled /\ b \in hand[w]}
Ends(w) == wjob[w] = "bulk" /\ wpc[w] = "finish"
Ended   == IF imported /\ (job["bulk"] = "absent" \/ \E w \in Workers : Ends(w))
           THEN 1 ELSE 0

(* The rows of the import are stored when it is about to leave the queue;  *)
(* every copy of them, and every one that is still to come, is that of the *)
(* run that ended well or of one that is counted in unsure.                *)
ImportIsKept ==
    /\ ~imported => job["bulk"] = "absent"
    /\ (Ended = 1) => \A b \in BulkRows : stored[b] > 0
    /\ \A b \in BulkRows : stored[b] + Cardinality(Late(b)) <= unsure + Ended

(* The one place of a row of the list. *)
Lies(r, place) ==
    /\ r \in buffer <=> place = "buffer"
    /\ r \in lost <=> place = "lost"
    /\ stored[r] = IF place = "stored" THEN 1 ELSE 0
    /\ (\E w \in Workers : r \in hand[w]) <=> place = "hand"
    /\ \A v, w \in Workers : r \in hand[v] /\ r \in hand[w] => v = w

Places == {"nowhere", "buffer", "hand", "stored", "lost"}

PlacesAreKept ==
    \A r \in Rows :
        /\ r \in dropped => stage[r] # "new"
        /\ \E place \in Places :
              /\ Lies(r, place)
              /\ place = "nowhere" <=> (stage[r] = "new" \/ r \in dropped)

(* The types, by what the steps change together; a row is stored at most   *)
(* once, or once more than there were faults, as the other parts say.      *)
RequestTypes ==
    /\ stage \in [Rows -> {"new", "length", "add", "done"}]
    /\ buffer \subseteq Rows /\ dropped \subseteq Rows
QueueTypes ==
    /\ job \in [Job -> {"absent", "waiting", "active", "failed"}]
    /\ tries \in [Job -> 0..attempts]
    /\ imported \in BOOLEAN
Label == {"idle", "drain", "persist", "finish", "fail"}
WorkerTypes ==
    /\ wpc \in [Workers -> Label]
    /\ wjob \in [Workers -> Job \cup {NoJob, Stalled}]
    /\ hand \in [Workers -> SUBSET (Rows \cup BulkRows)]
OutcomeTypes ==
    /\ stored \in [Rows \cup BulkRows -> Nat]
    /\ faults \in 0..MaxFaults
    /\ lost \subseteq Rows
    /\ unsure \in Nat /\ unsure <= faults

AuditInv ==
    /\ RequestTypes /\ QueueTypes /\ WorkerTypes /\ OutcomeTypes
    /\ WorkersFit /\ JobsAreRun /\ TriesLeft
    /\ ImportIsKept /\ PlacesAreKept /\ FaultLosesOneBatch

-------------------------------------------------------------------------------
LEMMA Bounds ==
    /\ Rows \cap BulkRows = {} /\ IsFiniteSet(Rows) /\ IsFiniteSet(Workers)
    /\ batchSize \in Nat /\ batchSize # 0 /\ attempts \in Nat /\ attempts # 0
    /\ MaxFaults \in Nat
  BY AuditAssumption

LEMMA MinOfTwo ==
    ASSUME NEW a \in Nat, NEW b \in Nat
    PROVE  Min({a, b}) \in {a, b} /\ Min({a, b}) <= a /\ Min({a, b}) <= b
<1> DEFINE Least(x) == \A y \in {a, b} : x <= y
<1>1. \E x \in {a, b} : Least(x)
  <2>1. CASE a <= b
    BY <2>1
  <2>2. CASE b <= a
    BY <2>2
  <2>3. QED
    BY <2>1, <2>2
<1>2. Min({a, b}) = CHOOSE x \in {a, b} : Least(x)
  BY DEF Min
<1> HIDE DEF Least
<1>3. Min({a, b}) \in {a, b} /\ Least(Min({a, b}))
  BY <1>1, <1>2
<1>4. QED
  BY <1>3 DEF Least

(* A batch is a finite set of at most batchSize rows of the list. *)
LEMMA BatchFits ==
    ASSUME buffer \subseteq Rows, NEW S, Batch(S)
    PROVE  S \subseteq buffer /\ IsFiniteSet(S) /\ Cardinality(S) <= batchSize
<1>1. IsFiniteSet(buffer)
  BY Bounds, FS_Subset
<1>2. Cardinality(buffer) \in Nat
  BY <1>1, FS_CardinalityType
<1>3. Cardinality(S) = Min({batchSize, Cardinality(buffer)})
  BY DEF Batch
<1>4. Min({batchSize, Cardinality(buffer)}) <= batchSize
  BY <1>2, Bounds, MinOfTwo
<1>5. S \subseteq buffer
  BY DEF Batch
<1>6. QED
  BY <1>1, <1>3, <1>4, <1>5, FS_Subset

LEMMA AuditInitInv == Init => AuditInv
<1> SUFFICES ASSUME Init PROVE AuditInv
  OBVIOUS
<1> USE Bounds DEF Init
<1>1. RequestTypes /\ QueueTypes /\ WorkerTypes /\ OutcomeTypes
  <2>0. imported \in BOOLEAN
    BY Zenon
  <2>1. RequestTypes /\ QueueTypes
    <3>1. RequestTypes
      BY DEF RequestTypes
    <3>2. QueueTypes
      BY <2>0 DEF QueueTypes
    <3>3. QED
      BY <3>1, <3>2
  <2>2. WorkerTypes
    BY DEF WorkerTypes, Label
  <2>3. OutcomeTypes
    BY DEF OutcomeTypes
  <2>4. QED
    BY <2>1, <2>2, <2>3
<1>2. WorkersFit /\ JobsAreRun /\ TriesLeft
  BY DEF WorkersFit, WorkerFits, JobsAreRun, TriesLeft, NoJob, Job, Kept
<1>3. ImportIsKept
  <2>1. job["bulk"] = "absent" /\ ~imported /\ unsure = 0 /\ Ended = 0
    BY DEF Job, Ended
  <2>2. ASSUME NEW b \in BulkRows PROVE stored[b] + Cardinality(Late(b)) <= unsure + Ended
    <3>1. Late(b) = {} /\ stored[b] = 0
      BY DEF Late
    <3>2. Cardinality(Late(b)) = 0
      BY <3>1, FS_EmptySet, Zenon
    <3>3. QED
      BY <2>1, <3>1, <3>2
  <2>3. QED
    BY <2>1, <2>2 DEF ImportIsKept
<1>4. PlacesAreKept
  <2>1. ASSUME NEW r \in Rows PROVE Lies(r, "nowhere")
    BY DEF Lies
  <2>2. QED
    BY <2>1 DEF PlacesAreKept, Places
<1>5. FaultLosesOneBatch
  <2>1. Cardinality({}) = 0
    BY FS_EmptySet
  <2>2. Cardinality(lost) = 0
    BY <2>1, Zenon
  <2>3. QED
    BY <2>2 DEF FaultLosesOneBatch
<1>6. QED
  BY <1>1, <1>2, <1>3, <1>4, <1>5 DEF AuditInv

-------------------------------------------------------------------------------
(* Where the rows go. *)

(* No row changes its place. *)
LEMMA RowsRest ==
    ASSUME PlacesAreKept, UNCHANGED <<buffer, lost, stored, dropped>>,
           \A r \in Rows, w \in Workers : r \in hand'[w] <=> r \in hand[w],
           \A r \in Rows : stage'[r] = "new" <=> stage[r] = "new"
    PROVE  PlacesAreKept'
<1>1. ASSUME NEW r \in Rows, NEW place \in Places, Lies(r, place)
      PROVE  Lies(r, place)'
  BY <1>1 DEF Lies
<1>2. QED
  BY <1>1 DEF PlacesAreKept

(* The rows of S go from one place to another one. *)
LEMMA RowsMove ==
    ASSUME PlacesAreKept, UNCHANGED dropped, NEW S, NEW to \in Places \ {"nowhere"},
           \A r \in Rows : r \in S => Lies(r, to)' /\ r \notin dropped /\ stage'[r] # "new",
           \A r \in Rows : r \notin S =>
               /\ stage'[r] = "new" <=> stage[r] = "new"
               /\ r \in buffer' <=> r \in buffer
               /\ r \in lost' <=> r \in lost
               /\ stored'[r] = stored[r]
               /\ \A w \in Workers : r \in hand'[w] <=> r \in hand[w]
    PROVE  PlacesAreKept'
<1>1. ASSUME NEW r \in Rows, r \in S
      PROVE  /\ r \in dropped' => stage'[r] # "new"
             /\ \E place \in Places :
                   /\ Lies(r, place)'
                   /\ place = "nowhere" <=> (stage'[r] = "new" \/ r \in dropped')
  BY <1>1
<1>2. ASSUME NEW r \in Rows, r \notin S
      PROVE  /\ r \in dropped' => stage'[r] # "new"
             /\ \E place \in Places :
                   /\ Lies(r, place)'
                   /\ place = "nowhere" <=> (stage'[r] = "new" \/ r \in dropped')
  <2>1. PICK place \in Places :
            /\ Lies(r, place)
            /\ place = "nowhere" <=> (stage[r] = "new" \/ r \in dropped)
    BY DEF PlacesAreKept
  <2>2. Lies(r, place)'
    BY <1>2, <2>1 DEF Lies
  <2>3. QED
    BY <1>2, <2>1, <2>2 DEF PlacesAreKept
<1>3. QED
  BY <1>1, <1>2 DEF PlacesAreKept

(* A row of the list that is somewhere is nowhere else. *)
LEMMA OnePlace ==
    ASSUME PlacesAreKept, NEW r \in Rows
    PROVE  /\ stage[r] = "new" => Lies(r, "nowhere") /\ r \notin dropped
           /\ r \in buffer => Lies(r, "buffer") /\ r \notin dropped /\ stage[r] # "new"
           /\ \A w \in Workers : r \in hand[w] =>
                 Lies(r, "hand") /\ r \notin dropped /\ stage[r] # "new"
<1>1. PICK place \in Places :
          /\ Lies(r, place)
          /\ place = "nowhere" <=> (stage[r] = "new" \/ r \in dropped)
  BY DEF PlacesAreKept
<1>2. /\ r \in buffer => place = "buffer"
      /\ \A w \in Workers : r \in hand[w] => place = "hand"
  BY <1>1 DEF Lies
<1>3. r \in dropped => stage[r] # "new"
  BY DEF PlacesAreKept
<1>4. QED
  BY <1>1, <1>2, <1>3

-------------------------------------------------------------------------------
(* A step of one worker, with what it holds after it. *)
Moves(w, label, j, S) ==
    /\ wpc' = [wpc EXCEPT ![w] = label]
    /\ wjob' = [wjob EXCEPT ![w] = j]
    /\ hand' = [hand EXCEPT ![w] = S]

LEMMA MovesAre ==
    ASSUME WorkerTypes, WorkersFit, NEW w \in Workers,
           NEW label \in Label, NEW j \in Job \cup {NoJob, Stalled},
           NEW S \in SUBSET (Rows \cup BulkRows), Moves(w, label, j, S),
           WorkerFits(label, j, S)
    PROVE  /\ WorkerTypes' /\ WorkersFit'
           /\ wpc'[w] = label /\ wjob'[w] = j /\ hand'[w] = S
           /\ \A v \in Workers : v # w =>
                 wpc'[v] = wpc[v] /\ wjob'[v] = wjob[v] /\ hand'[v] = hand[v]
<1>1. WorkerTypes'
  BY DEF WorkerTypes, Moves
<1>2. /\ wpc'[w] = label /\ wjob'[w] = j /\ hand'[w] = S
      /\ \A v \in Workers : v # w =>
            wpc'[v] = wpc[v] /\ wjob'[v] = wjob[v] /\ hand'[v] = hand[v]
  BY DEF WorkerTypes, Moves
<1>3. \A v \in Workers : WorkerFits(wpc'[v], wjob'[v], hand'[v])
  <2>1. WorkerFits(wpc'[w], wjob'[w], hand'[w])
    BY <1>2, Zenon
  <2>2. ASSUME NEW v \in Workers, v # w PROVE WorkerFits(wpc'[v], wjob'[v], hand'[v])
    <3>1. WorkerFits(wpc[v], wjob[v], hand[v])
      BY DEF WorkersFit
    <3>2. wpc'[v] = wpc[v] /\ wjob'[v] = wjob[v] /\ hand'[v] = hand[v]
      BY <1>2, <2>2
    <3>3. QED
      BY <3>1, <3>2, Zenon
  <2>3. QED
    BY <2>1, <2>2
<1>4. WorkersFit'
  BY <1>3 DEF WorkersFit, WorkerFits
<1>5. QED
  BY <1>1, <1>2, <1>4

(* The worker is done with its job, or the job was given away. *)
LEMMA LeavesJob ==
    ASSUME JobsAreRun, NEW w \in Workers, wjob'[w] \in {NoJob, Stalled},
           \A v \in Workers : v # w => wjob'[v] = wjob[v],
           \A j \in Kept : j # wjob[w] => job'[j] = job[j]
    PROVE  JobsAreRun'
<1>1. \A v \in Workers, j \in Kept :
         wjob'[v] = j => wjob[v] = j /\ v # w /\ (wjob[w] = j => v = w)
  BY DEF JobsAreRun, NoJob, Stalled, Kept
<1>2. QED
  BY <1>1 DEF JobsAreRun

(* An insert puts rows of a worker's hand where no other one has them. *)
LEMMA RowsAreStored ==
    ASSUME PlacesAreKept, OutcomeTypes, WorkerTypes, NEW w \in Workers,
           hand'[w] = {}, \A v \in Workers : v # w => hand'[v] = hand[v],
           Insert(hand[w]), UNCHANGED <<requests, buffer, lost>>
    PROVE  PlacesAreKept'
<1>1. ASSUME NEW r \in Rows, r \in hand[w]
      PROVE  Lies(r, "stored")' /\ r \notin dropped /\ stage'[r] # "new"
  <2>1. Lies(r, "hand") /\ r \notin dropped /\ stage[r] # "new"
    BY <1>1, OnePlace
  <2>2. stored'[r] = 1
    BY <1>1, <2>1 DEF Insert, Lies
  <2>3. \A v \in Workers : r \notin hand'[v]
    BY <1>1, <2>1 DEF Lies
  <2>4. QED
    BY <2>1, <2>2, <2>3 DEF Lies, requests
<1>2. \A r \in Rows : r \notin hand[w] =>
         /\ stored'[r] = stored[r]
         /\ \A v \in Workers : r \in hand'[v] <=> r \in hand[v]
  BY DEF Insert
<1>3. UNCHANGED <<stage, dropped, buffer, lost>> /\ "stored" \in Places \ {"nowhere"}
  BY DEF requests, Places
<1>4. QED
  BY <1>1, <1>2, <1>3, RowsMove

LEMMA RowsAreLost ==
    ASSUME PlacesAreKept, WorkerTypes, NEW w \in Workers,
           hand'[w] = {}, \A v \in Workers : v # w => hand'[v] = hand[v],
           lost' = lost \cup (hand[w] \cap Rows), UNCHANGED <<requests, buffer, stored>>
    PROVE  PlacesAreKept'
<1>1. ASSUME NEW r \in Rows, r \in hand[w]
      PROVE  Lies(r, "lost")' /\ r \notin dropped /\ stage'[r] # "new"
  <2>1. Lies(r, "hand") /\ r \notin dropped /\ stage[r] # "new"
    BY <1>1, OnePlace
  <2>2. \A v \in Workers : r \notin hand'[v]
    BY <1>1, <2>1 DEF Lies
  <2>3. QED
    BY <1>1, <2>1, <2>2 DEF Lies, requests
<1>2. \A r \in Rows : r \notin hand[w] =>
         /\ r \in lost' <=> r \in lost
         /\ \A v \in Workers : r \in hand'[v] <=> r \in hand[v]
  OBVIOUS
<1>3. UNCHANGED <<stage, dropped, buffer, stored>> /\ "lost" \in Places \ {"nowhere"}
  BY DEF requests, Places
<1>4. QED
  BY <1>1, <1>2, <1>3, RowsMove

(* A fault adds one batch to what is lost. *)
LEMMA LossGrows ==
    ASSUME OutcomeTypes, FaultLosesOneBatch, Fault, NEW S \in SUBSET Rows,
           Cardinality(S) <= batchSize, lost' = lost \cup S
    PROVE  FaultLosesOneBatch'
<1>1. IsFiniteSet(lost) /\ IsFiniteSet(S)
  BY Bounds, FS_Subset DEF OutcomeTypes
<1>2. IsFiniteSet(lost \cap S)
  BY <1>1, FS_Subset
<1>3. /\ Cardinality(lost) \in Nat /\ Cardinality(S) \in Nat /\ Cardinality(lost \cap S) \in Nat
      /\ Cardinality(lost \cup S) =
            Cardinality(lost) + Cardinality(S) - Cardinality(lost \cap S)
  BY <1>1, <1>2, FS_CardinalityType, FS_Union
<1>4. PICK n \in Nat : n = faults /\ faults' = n + 1
  BY Bounds DEF OutcomeTypes, Fault
<1>5. batchSize * (n + 1) = batchSize * n + batchSize
  BY Bounds
<1>6. Cardinality(lost) <= batchSize * n
  BY <1>4 DEF FaultLosesOneBatch
<1>7. batchSize * n \in Nat
  BY Bounds
<1>8. Cardinality(lost') <= batchSize * faults'
  BY <1>3, <1>4, <1>5, <1>6, <1>7, Bounds
<1>9. QED
  BY <1>8 DEF FaultLosesOneBatch

-------------------------------------------------------------------------------
(* Steps of requests and of the scheduler. *)

LEMMA TimesGrows ==
    ASSUME NEW m \in Nat, NEW n \in Nat, m <= n
    PROVE  batchSize * m \in Nat /\ batchSize * n \in Nat /\ batchSize * m <= batchSize * n
<1>1. PICK d \in Nat : n = m + d
  <2>1. n - m \in Nat /\ n = m + (n - m)
    OBVIOUS
  <2>2. QED
    BY <2>1
<1>2. batchSize * (m + d) = batchSize * m + batchSize * d
  BY Bounds
<1>3. batchSize * m \in Nat /\ batchSize * d \in Nat
  BY Bounds
<1>4. QED
  BY <1>1, <1>2, <1>3

(* They touch no worker, and a job only to add it. *)
LEMMA RequestKeeps ==
    ASSUME AuditInv, UNCHANGED <<worker, outcome, tries>>,
           \A j \in Job : job'[j] = job[j] \/ (job[j] = "absent" /\ job'[j] = "waiting"),
           faults' \in 0..MaxFaults, faults <= faults',
           RequestTypes', QueueTypes', ImportIsKept', PlacesAreKept'
    PROVE  AuditInv'
<1>0. /\ RequestTypes /\ QueueTypes /\ WorkerTypes /\ OutcomeTypes
      /\ WorkersFit /\ JobsAreRun /\ TriesLeft /\ FaultLosesOneBatch
  BY DEF AuditInv
<1>1. WorkerTypes' /\ OutcomeTypes'
  BY <1>0, Bounds DEF WorkerTypes, OutcomeTypes, worker, outcome
<1>2. WorkersFit'
  BY <1>0 DEF WorkersFit, WorkerFits, worker
<1>3. JobsAreRun'
  <2>1. \A j \in Kept : job[j] = "active" => job'[j] = "active"
    BY DEF Job, Kept
  <2>2. QED
    BY <1>0, <2>1 DEF JobsAreRun, worker
<1>4. TriesLeft'
  BY <1>0 DEF TriesLeft
<1>5. FaultLosesOneBatch'
  <2>1. faults \in Nat /\ faults' \in Nat
    BY <1>0, Bounds DEF OutcomeTypes
  <2>2. IsFiniteSet(lost)
    BY <1>0, Bounds, FS_Subset DEF OutcomeTypes
  <2>3. Cardinality(lost) \in Nat
    BY <2>2, FS_CardinalityType
  <2>4. batchSize * faults \in Nat /\ batchSize * faults' \in Nat
        /\ batchSize * faults <= batchSize * faults'
    BY <2>1, TimesGrows
  <2>5. Cardinality(lost) <= batchSize * faults
    BY <1>0 DEF FaultLosesOneBatch
  <2>6. Cardinality(lost) <= batchSize * faults'
    BY <2>3, <2>4, <2>5
  <2>7. QED
    BY <2>6 DEF FaultLosesOneBatch, outcome
<1>6. QED
  BY <1>1, <1>2, <1>3, <1>4, <1>5 DEF AuditInv

(* The import's rows and job, the workers and the inserts stay. *)
LEMMA ImportRests ==
    ASSUME ImportIsKept, UNCHANGED <<imported, stored, unsure, worker>>,
           job'["bulk"] = job["bulk"]
    PROVE  ImportIsKept'
<1>1. \A b \in BulkRows : Late(b)' = Late(b)
  BY DEF Late, worker
<1>2. Ended' = Ended
  BY DEF Ended, Ends, worker
<1>3. QED
  BY <1>1, <1>2 DEF ImportIsKept

LEMMA RecordKeeps ==
    ASSUME AuditInv, NEW S \in SUBSET Rows, NEW r \in S, Record(r, S)
    PROVE  AuditInv'
<1>0. /\ RequestTypes /\ QueueTypes /\ OutcomeTypes /\ ImportIsKept /\ PlacesAreKept
  BY DEF AuditInv
<1>1. /\ buffer' = buffer \cup S
      /\ UNCHANGED <<dropped, queue, worker, outcome, faults>>
      /\ \A s \in S : stage[s] = "new" /\ stage'[s] # "new"
      /\ \A s \in Rows \ S : stage'[s] = stage[s]
  BY <1>0 DEF Record, RequestTypes
<1>2. RequestTypes'
  BY <1>0 DEF Record, RequestTypes
<1>3. QueueTypes' /\ ImportIsKept'
  BY <1>0, <1>1, ImportRests DEF QueueTypes, queue, outcome
<1>4. PlacesAreKept'
  <2>1. ASSUME NEW s \in Rows, s \in S
        PROVE  Lies(s, "buffer")' /\ s \notin dropped /\ stage'[s] # "new"
    <3>1. Lies(s, "nowhere") /\ s \notin dropped
      BY <1>0, <1>1, <2>1, OnePlace
    <3>2. QED
      BY <1>1, <2>1, <3>1 DEF Lies, worker, outcome
  <2>2. \A s \in Rows : s \notin S =>
           /\ stage'[s] = "new" <=> stage[s] = "new"
           /\ s \in buffer' <=> s \in buffer
           /\ s \in lost' <=> s \in lost
           /\ stored'[s] = stored[s]
           /\ \A w \in Workers : s \in hand'[w] <=> s \in hand[w]
    BY <1>1 DEF worker, outcome
  <2>3. "buffer" \in Places \ {"nowhere"} /\ UNCHANGED dropped
    BY <1>1 DEF Places
  <2>4. QED
    BY <1>0, <2>1, <2>2, <2>3, RowsMove
<1>5. faults' \in 0..MaxFaults /\ faults <= faults' /\ UNCHANGED <<worker, outcome, tries, job>>
  BY <1>0, <1>1, Bounds DEF OutcomeTypes, queue
<1>6. QED
  BY <1>2, <1>3, <1>4, <1>5, RequestKeeps

LEMMA FaultCounts ==
    ASSUME OutcomeTypes, Fault
    PROVE  faults' \in 0..MaxFaults /\ faults <= faults'
  BY Bounds DEF OutcomeTypes, Fault

LEMMA RecordFailsKeeps ==
    ASSUME AuditInv, NEW r \in Rows, RecordFails(r)
    PROVE  AuditInv'
<1>0. /\ RequestTypes /\ QueueTypes /\ OutcomeTypes /\ ImportIsKept /\ PlacesAreKept
  BY DEF AuditInv
<1>1. /\ UNCHANGED <<buffer, queue, worker, outcome>>
      /\ stage[r] = "new" /\ stage'[r] = "done" /\ dropped' = dropped \cup {r}
      /\ \A s \in Rows : s # r => stage'[s] = stage[s]
  BY <1>0 DEF RecordFails, RequestTypes
<1>2. RequestTypes'
  BY <1>0 DEF RecordFails, RequestTypes
<1>3. QueueTypes' /\ ImportIsKept'
  BY <1>0, <1>1, ImportRests DEF QueueTypes, queue, outcome
<1>4. PlacesAreKept'
  <2>1. \A s \in Rows, place \in Places : Lies(s, place) => Lies(s, place)'
    BY <1>1 DEF Lies, worker, outcome
  <2>2. \A s \in Rows : (stage'[s] = "new" \/ s \in dropped') <=> (stage[s] = "new" \/ s \in dropped)
    BY <1>1
  <2>3. \A s \in Rows : s \in dropped' => stage'[s] # "new"
    BY <1>0, <1>1 DEF PlacesAreKept
  <2>4. QED
    BY <1>0, <2>1, <2>2, <2>3 DEF PlacesAreKept
<1>5. faults' \in 0..MaxFaults /\ faults <= faults' /\ UNCHANGED <<worker, outcome, tries, job>>
  BY <1>0, <1>1, FaultCounts DEF RecordFails, queue
<1>6. QED
  BY <1>2, <1>3, <1>4, <1>5, RequestKeeps

(* The rest of a request: the row is recorded, or given up, already. *)
LEMMA RequestGoesOn ==
    ASSUME AuditInv, NEW r \in Rows, NEW to \in {"add", "done"},
           stage[r] \in {"length", "add"}, stage' = [stage EXCEPT ![r] = to],
           UNCHANGED <<dropped, buffer, tries, imported, worker, outcome>>,
           \A j \in Job : job'[j] = job[j] \/ (job[j] = "absent" /\ job'[j] = "waiting"),
           job'["bulk"] = job["bulk"], QueueTypes',
           faults' \in 0..MaxFaults, faults <= faults'
    PROVE  AuditInv'
<1>0. /\ RequestTypes /\ ImportIsKept /\ PlacesAreKept
  BY DEF AuditInv
<1>1. RequestTypes' /\ \A s \in Rows : stage'[s] = "new" <=> stage[s] = "new"
  BY <1>0 DEF RequestTypes
<1>2. PlacesAreKept'
  BY <1>0, <1>1, RowsRest DEF worker, outcome
<1>3. ImportIsKept'
  BY <1>0, ImportRests DEF outcome
<1>4. QED
  BY <1>1, <1>2, <1>3, RequestKeeps

LEMMA RequestStepKeeps ==
    ASSUME AuditInv, NEW r \in Rows, Request(r) \/ EnqueueFails(r)
    PROVE  AuditInv'
<1>0. QueueTypes /\ OutcomeTypes
  BY DEF AuditInv
<1>1. faults \in 0..MaxFaults /\ faults <= faults
  BY <1>0, Bounds DEF OutcomeTypes
<1>2. CASE Length(r)
  <2>1. PICK to \in {"add", "done"} : stage' = [stage EXCEPT ![r] = to]
    BY <1>2 DEF Length
  <2>2. /\ stage[r] \in {"length", "add"} /\ QueueTypes'
        /\ UNCHANGED <<dropped, buffer, job, tries, imported, worker, outcome, faults>>
    BY <1>0, <1>2 DEF Length, queue, QueueTypes
  <2>3. QED
    BY <1>1, <2>1, <2>2, RequestGoesOn
<1>3. CASE AddFlush(r)
  <2>1. /\ stage[r] \in {"length", "add"} /\ stage' = [stage EXCEPT ![r] = "done"]
        /\ UNCHANGED <<dropped, buffer, tries, imported, worker, outcome, faults>>
    BY <1>3 DEF AddFlush
  <2>2. /\ QueueTypes' /\ job'["bulk"] = job["bulk"]
        /\ \A j \in Job : job'[j] = job[j] \/ (job[j] = "absent" /\ job'[j] = "waiting")
    BY <1>0, <1>3 DEF AddFlush, QueueTypes, Job
  <2>3. QED
    BY <1>1, <2>1, <2>2, RequestGoesOn
<1>4. CASE EnqueueFails(r)
  <2>1. /\ stage[r] \in {"length", "add"} /\ stage' = [stage EXCEPT ![r] = "done"] /\ QueueTypes'
        /\ UNCHANGED <<dropped, buffer, job, tries, imported, worker, outcome>>
    BY <1>0, <1>4 DEF EnqueueFails, queue, QueueTypes
  <2>2. faults' \in 0..MaxFaults /\ faults <= faults'
    BY <1>0, <1>4, FaultCounts DEF EnqueueFails
  <2>3. QED
    BY <2>1, <2>2, RequestGoesOn
<1>5. QED
  BY <1>2, <1>3, <1>4 DEF Request

LEMMA JobsRun ==
    ASSUME AuditInv, NEW w \in Workers, wjob[w] \in Kept
    PROVE  job[wjob[w]] = "active" /\ tries[wjob[w]] < attempts
  BY DEF AuditInv, JobsAreRun, TriesLeft, Kept, Job

LEMMA QueueKeeps ==
    ASSUME AuditInv, ImportBulk \/ Schedule
    PROVE  AuditInv'
<1>0. RequestTypes /\ QueueTypes /\ OutcomeTypes /\ ImportIsKept /\ PlacesAreKept
  BY DEF AuditInv
<1>1. UNCHANGED <<requests, buffer, tries, worker, outcome, faults>>
  BY DEF ImportBulk, Schedule
<1>2. RequestTypes' /\ faults' \in 0..MaxFaults /\ faults <= faults'
  BY <1>0, <1>1, Bounds DEF RequestTypes, requests, OutcomeTypes
<1>3. QueueTypes'
  BY <1>0 DEF ImportBulk, Schedule, QueueTypes
<1>4. \A j \in Job : job'[j] = job[j] \/ (job[j] = "absent" /\ job'[j] = "waiting")
  BY <1>0 DEF ImportBulk, Schedule, QueueTypes, Job, ImportIsKept
<1>5. PlacesAreKept'
  BY <1>0, <1>1, RowsRest DEF requests, worker, outcome
<1>6. ImportIsKept'
  <2>1. CASE ImportBulk
    <3>1. /\ ~imported /\ imported' /\ job["bulk"] = "absent" /\ job'["bulk"] = "waiting"
          /\ UNCHANGED <<stored, unsure, worker>>
      BY <1>0, <1>1, <2>1 DEF ImportBulk, ImportIsKept, QueueTypes, Job, outcome
    <3>2. \A w \in Workers : ~Ends(w) /\ ~Ends(w)'
      <4>1. \A w \in Workers : wjob[w] # "bulk"
        BY <3>1, JobsRun DEF Kept
      <4>2. QED
        BY <3>1, <4>1 DEF Ends, worker
    <3>3. Ended = 0 /\ Ended' = 0 /\ \A b \in BulkRows : Late(b)' = Late(b)
      BY <3>1, <3>2 DEF Ended, Late, worker
    <3>4. QED
      BY <1>0, <3>1, <3>3 DEF ImportIsKept
  <2>2. CASE Schedule
    BY <1>0, <1>1, <2>2, ImportRests DEF Schedule, QueueTypes, Job, outcome
  <2>3. QED
    BY <2>1, <2>2
<1>7. QED
  BY <1>1, <1>2, <1>3, <1>4, <1>5, <1>6, RequestKeeps

-------------------------------------------------------------------------------
(* Steps of a worker. *)

LEMMA WorkerKeeps ==
    ASSUME AuditInv, NEW w \in Workers, NEW label \in Label,
           NEW j \in Job \cup {NoJob, Stalled}, NEW S \in SUBSET (Rows \cup BulkRows),
           Moves(w, label, j, S), WorkerFits(label, j, S),
           RequestTypes', QueueTypes', OutcomeTypes',
           JobsAreRun', TriesLeft', ImportIsKept', PlacesAreKept', FaultLosesOneBatch'
    PROVE  AuditInv'
<1>1. WorkerTypes /\ WorkersFit
  BY DEF AuditInv
<1>2. WorkerTypes' /\ WorkersFit'
  BY <1>1, MovesAre
<1>3. QED
  BY <1>2 DEF AuditInv

LEMMA Parts ==
    ASSUME AuditInv
    PROVE  /\ RequestTypes /\ QueueTypes /\ WorkerTypes /\ OutcomeTypes
           /\ WorkersFit /\ JobsAreRun /\ TriesLeft
           /\ ImportIsKept /\ PlacesAreKept /\ FaultLosesOneBatch
  BY DEF AuditInv

LEMMA Own ==
    ASSUME AuditInv, NEW w \in Workers
    PROVE  /\ WorkerFits(wpc[w], wjob[w], hand[w])
           /\ wpc[w] \in Label
           /\ wjob[w] \in Job \cup {NoJob, Stalled}
           /\ wpc[w] # "idle" => wjob[w] \in Job \cup {Stalled}
           /\ hand[w] \subseteq Rows \cup BulkRows
  BY Parts DEF WorkersFit, WorkerFits, WorkerTypes

LEMMA IdleFits == WorkerFits("idle", NoJob, {})
  BY DEF WorkerFits

(* Whether a worker has still to insert a row of a run that was given away. *)
Owes(b, j, S) == IF j = Stalled /\ b \in S THEN 1 ELSE 0

Owing(b, J, H)      == {v \in Workers : J[v] = Stalled /\ b \in H[v]}
Besides(w, b, J, H) == {v \in Workers : v # w /\ J[v] = Stalled /\ b \in H[v]}

(* The copies to come, those of one worker apart. *)
LEMMA LateApart ==
    ASSUME NEW J, NEW H, NEW b, NEW w \in Workers
    PROVE  /\ Cardinality(Besides(w, b, J, H)) \in Nat
           /\ Cardinality(Owing(b, J, H))
                 = Cardinality(Besides(w, b, J, H)) + Owes(b, J[w], H[w])
<1>1. IsFiniteSet(Besides(w, b, J, H))
  BY Bounds, FS_Subset DEF Besides
<1>2. Cardinality(Besides(w, b, J, H)) \in Nat
  BY <1>1, FS_CardinalityType
<1>3. CASE J[w] = Stalled /\ b \in H[w]
  <2>1. Owing(b, J, H) = Besides(w, b, J, H) \cup {w} /\ w \notin Besides(w, b, J, H)
    BY <1>3 DEF Owing, Besides
  <2>2. Cardinality(Besides(w, b, J, H) \cup {w}) = Cardinality(Besides(w, b, J, H)) + 1
    BY <1>1, <2>1, FS_AddElement
  <2>3. Owes(b, J[w], H[w]) = 1
    BY <1>3 DEF Owes
  <2>4. QED
    BY <1>2, <2>1, <2>2, <2>3
<1>4. CASE ~(J[w] = Stalled /\ b \in H[w])
  <2>1. Owing(b, J, H) = Besides(w, b, J, H)
    BY <1>4 DEF Owing, Besides
  <2>2. Owes(b, J[w], H[w]) = 0
    BY <1>4 DEF Owes
  <2>3. QED
    BY <1>2, <2>1, <2>2
<1>5. QED
  BY <1>2, <1>3, <1>4

(* A step of one worker. *)
OthersRest(w) ==
    \A v \in Workers : v # w => wpc'[v] = wpc[v] /\ wjob'[v] = wjob[v] /\ hand'[v] = hand[v]

LEMMA LateMoves ==
    ASSUME NEW w \in Workers, NEW b \in BulkRows, OthersRest(w)
    PROVE  /\ Cardinality(Late(b)) \in Nat /\ Cardinality(Late(b)') \in Nat
           /\ Cardinality(Late(b)') + Owes(b, wjob[w], hand[w])
                 = Cardinality(Late(b)) + Owes(b, wjob'[w], hand'[w])
<1>1. Late(b) = Owing(b, wjob, hand) /\ Late(b)' = Owing(b, wjob', hand')
  BY DEF Late, Owing
<1>2. Besides(w, b, wjob', hand') = Besides(w, b, wjob, hand)
  BY DEF Besides, OthersRest
<1>3. /\ Cardinality(Besides(w, b, wjob, hand)) \in Nat
      /\ Cardinality(Owing(b, wjob, hand))
            = Cardinality(Besides(w, b, wjob, hand)) + Owes(b, wjob[w], hand[w])
  BY LateApart
<1>4. Cardinality(Owing(b, wjob', hand'))
         = Cardinality(Besides(w, b, wjob', hand')) + Owes(b, wjob'[w], hand'[w])
  BY LateApart
<1>5. Owes(b, wjob[w], hand[w]) \in {0, 1} /\ Owes(b, wjob'[w], hand'[w]) \in {0, 1}
  BY DEF Owes
<1>6. QED
  BY <1>1, <1>2, <1>3, <1>4, <1>5

(* A worker that has the import's job has it alone, and while it is there. *)
LEMMA ImportRuns ==
    ASSUME AuditInv, NEW w \in Workers, wjob[w] = "bulk"
    PROVE  /\ job["bulk"] = "active" /\ imported
           /\ \A v \in Workers : wjob[v] = "bulk" => v = w
           /\ Ended = IF wpc[w] = "finish" THEN 1 ELSE 0
<1>1. /\ job["bulk"] = "active" /\ ImportIsKept
      /\ \A v \in Workers : wjob[v] = "bulk" => v = w
  BY Parts DEF JobsAreRun, Kept
<1>2. imported
  BY <1>1 DEF ImportIsKept
<1>3. (\E v \in Workers : Ends(v)) <=> wpc[w] = "finish"
  BY <1>1 DEF Ends
<1>4. Ended = IF wpc[w] = "finish" THEN 1 ELSE 0
  BY <1>1, <1>2, <1>3 DEF Ended
<1>5. QED
  BY <1>1, <1>2, <1>4

(* What a step of the worker that runs the import does to it: a copy is    *)
(* stored, or is still to come, for an end of the run or for one that      *)
(* BullMQ does not see.                                                    *)
LEMMA ImportRunMoves ==
    ASSUME AuditInv, NEW w \in Workers, wjob[w] = "bulk", OthersRest(w), UNCHANGED imported,
           OutcomeTypes', NEW before \in {0, 1}, before = 1 <=> wpc[w] = "finish",
           NEW after \in {0, 1},
           after = 1 <=> job'["bulk"] = "absent" \/ (wjob'[w] = "bulk" /\ wpc'[w] = "finish"),
           \A b \in BulkRows :
              /\ after = 1 => stored'[b] > 0
              /\ stored'[b] + Owes(b, wjob'[w], hand'[w]) + unsure + before
                    <= stored[b] + unsure' + after
    PROVE  ImportIsKept'
<1>1. ImportIsKept /\ OutcomeTypes
  BY Parts
<1>2. imported /\ imported' /\ Ended = before
  BY ImportRuns
<1>3. (\E v \in Workers : Ends(v)') <=> wjob'[w] = "bulk" /\ wpc'[w] = "finish"
  <2>1. \A v \in Workers : v # w => wjob'[v] # "bulk"
    BY ImportRuns DEF OthersRest
  <2>2. QED
    BY <2>1 DEF Ends
<1>4. Ended' = after
  BY <1>2, <1>3 DEF Ended
<1>5. ASSUME NEW b \in BulkRows
      PROVE  stored'[b] + Cardinality(Late(b)') <= unsure' + Ended'
  <2>1. /\ Cardinality(Late(b)) \in Nat /\ Cardinality(Late(b)') \in Nat
        /\ Cardinality(Late(b)') + Owes(b, wjob[w], hand[w])
              = Cardinality(Late(b)) + Owes(b, wjob'[w], hand'[w])
    BY LateMoves
  <2>2. Owes(b, wjob[w], hand[w]) = 0 /\ Owes(b, wjob'[w], hand'[w]) \in {0, 1}
    BY DEF Owes, Stalled
  <2>3. stored[b] + Cardinality(Late(b)) <= unsure + before
    BY <1>1, <1>2 DEF ImportIsKept
  <2>4. stored[b] \in Nat /\ stored'[b] \in Nat /\ unsure \in Nat /\ unsure' \in Nat
    BY <1>1 DEF OutcomeTypes
  <2>5. stored'[b] + Owes(b, wjob'[w], hand'[w]) + unsure + before <= stored[b] + unsure' + after
    OBVIOUS
  <2>6. QED
    BY <1>4, <2>1, <2>2, <2>3, <2>4, <2>5
<1>6. QED
  BY <1>2, <1>4, <1>5 DEF ImportIsKept

(* What another worker does to it: a copy that was to come may be stored. *)
LEMMA ImportOthersMove ==
    ASSUME AuditInv, NEW w \in Workers, wjob[w] # "bulk", OthersRest(w),
           UNCHANGED <<imported, unsure>>, OutcomeTypes',
           \/ wjob'[w] # "bulk" /\ job'["bulk"] = job["bulk"]
           \/ /\ wjob'[w] = "bulk" /\ wpc'[w] # "finish"
              /\ job["bulk"] = "waiting" /\ job'["bulk"] = "active",
           \A b \in BulkRows :
              /\ stored'[b] >= stored[b]
              /\ stored'[b] + Owes(b, wjob'[w], hand'[w])
                    <= stored[b] + Owes(b, wjob[w], hand[w])
    PROVE  ImportIsKept'
<1>1. ImportIsKept /\ OutcomeTypes
  BY Parts
<1>2. (\E v \in Workers : Ends(v)') <=> (\E v \in Workers : Ends(v))
  BY DEF Ends, OthersRest
<1>3. job'["bulk"] = "absent" <=> job["bulk"] = "absent"
  OBVIOUS
<1>4. Ended' = Ended /\ Ended \in {0, 1}
  BY <1>2, <1>3 DEF Ended
<1>5. ASSUME NEW b \in BulkRows
      PROVE  /\ Ended' = 1 => stored'[b] > 0
             /\ stored'[b] + Cardinality(Late(b)') <= unsure' + Ended'
  <2>1. /\ Cardinality(Late(b)) \in Nat /\ Cardinality(Late(b)') \in Nat
        /\ Cardinality(Late(b)') + Owes(b, wjob[w], hand[w])
              = Cardinality(Late(b)) + Owes(b, wjob'[w], hand'[w])
    BY LateMoves
  <2>2. Owes(b, wjob[w], hand[w]) \in {0, 1} /\ Owes(b, wjob'[w], hand'[w]) \in {0, 1}
    BY DEF Owes
  <2>3. /\ stored[b] + Cardinality(Late(b)) <= unsure + Ended
        /\ Ended = 1 => stored[b] > 0
    BY <1>1 DEF ImportIsKept
  <2>4. stored[b] \in Nat /\ stored'[b] \in Nat /\ unsure \in Nat /\ unsure' = unsure
    BY <1>1 DEF OutcomeTypes
  <2>5. /\ stored'[b] >= stored[b]
        /\ stored'[b] + Owes(b, wjob'[w], hand'[w]) <= stored[b] + Owes(b, wjob[w], hand[w])
    OBVIOUS
  <2>6. QED
    BY <1>4, <2>1, <2>2, <2>3, <2>4, <2>5
<1>6. QED
  BY <1>1, <1>3, <1>4, <1>5 DEF ImportIsKept

-------------------------------------------------------------------------------
(* The end of a job. *)

(* Complete, Fail and Die leave the worker idle, and the queue like this. *)
EndsJob(w) ==
    /\ Moves(w, "idle", NoJob, {})
    /\ QueueTypes' /\ JobsAreRun' /\ TriesLeft' /\ UNCHANGED imported
    /\ wjob[w] # "bulk" => job'["bulk"] = job["bulk"]

LEMMA RestMoves ==
    ASSUME AuditInv, NEW w \in Workers, Moves(w, "idle", NoJob, {})
    PROVE  /\ OthersRest(w)
           /\ wpc'[w] = "idle" /\ wjob'[w] = NoJob /\ hand'[w] = {}
  BY Parts DEF Moves, WorkerTypes, OthersRest

(* The job of the worker's own, whatever becomes of it. *)
LEMMA EndsWith ==
    ASSUME AuditInv, NEW w \in Workers, Moves(w, "idle", NoJob, {}), QueueTypes', TriesLeft',
           UNCHANGED imported, \A i \in Kept : i # wjob[w] => job'[i] = job[i]
    PROVE  EndsJob(w)
<1>1. JobsAreRun
  BY Parts
<1>2. wjob'[w] = NoJob /\ \A v \in Workers : v # w => wjob'[v] = wjob[v]
  BY RestMoves DEF OthersRest
<1>3. JobsAreRun'
  BY <1>1, <1>2, LeavesJob
<1>4. QED
  BY <1>3 DEF EndsJob, Kept

LEMMA CompleteEnds ==
    ASSUME AuditInv, NEW w \in Workers, Complete(w)
    PROVE  EndsJob(w) /\ (wjob[w] = "bulk" => job'["bulk"] = "absent")
<1>0. QueueTypes /\ TriesLeft
  BY Parts
<1>1. Moves(w, "idle", NoJob, {}) /\ UNCHANGED imported
  BY DEF Complete, Rest, Moves
<1>2. CASE wjob[w] \notin Kept
  <2>1. UNCHANGED <<job, tries>> /\ wjob[w] # "bulk"
    BY <1>2 DEF Complete, Kept
  <2>2. QueueTypes' /\ TriesLeft'
    BY <1>0, <1>1, <2>1 DEF QueueTypes, TriesLeft
  <2>3. QED
    BY <1>1, <2>1, <2>2, EndsWith
<1>3. ASSUME NEW j \in Kept, wjob[w] = j
      PROVE  EndsJob(w) /\ (wjob[w] = "bulk" => job'["bulk"] = "absent")
  <2>1. job' = [job EXCEPT ![j] = "absent"] /\ tries' = [tries EXCEPT ![j] = 0]
    BY <1>3 DEF Complete
  <2>2. QueueTypes'
    <3>1. 0 \in 0..attempts
      BY Bounds
    <3>2. QED
      BY <1>0, <1>1, <2>1, <3>1 DEF QueueTypes
  <2>3. TriesLeft'
    BY <1>0, <2>1, Bounds DEF QueueTypes, TriesLeft
  <2>4. /\ \A i \in Kept : i # wjob[w] => job'[i] = job[i]
        /\ job'[j] = "absent"
    BY <1>0, <1>3, <2>1 DEF QueueTypes, Job, Kept
  <2>5. QED
    BY <1>1, <1>3, <2>2, <2>3, <2>4, EndsWith
<1>4. QED
  BY <1>2, <1>3

LEMMA FailEnds ==
    ASSUME AuditInv, NEW w \in Workers, Fail(w)
    PROVE  EndsJob(w) /\ (wjob[w] = "bulk" => job'["bulk"] # "absent")
<1>0. QueueTypes /\ TriesLeft
  BY Parts
<1>1. Moves(w, "idle", NoJob, {}) /\ UNCHANGED imported
  BY DEF Fail, Rest, Moves
<1>2. CASE wjob[w] \notin Kept
  <2>1. UNCHANGED <<job, tries>> /\ wjob[w] # "bulk"
    BY <1>2 DEF Fail, Kept
  <2>2. QueueTypes' /\ TriesLeft'
    BY <1>0, <1>1, <2>1 DEF QueueTypes, TriesLeft
  <2>3. QED
    BY <1>1, <2>1, <2>2, EndsWith
<1>3. ASSUME NEW j \in Kept, wjob[w] = j
      PROVE  EndsJob(w) /\ (wjob[w] = "bulk" => job'["bulk"] # "absent")
  <2>1. PICK n \in Nat : n = tries[j] + 1 /\ n <= attempts
    <3>1. tries[j] < attempts /\ tries[j] \in 0..attempts
      BY <1>0, <1>3, JobsRun DEF QueueTypes, Job, Kept
    <3>2. QED
      BY <3>1, Bounds
  <2>2. PICK s \in {"waiting", "failed"} :
            /\ job' = [job EXCEPT ![j] = s] /\ (s # "failed" => n < attempts)
            /\ tries' = [tries EXCEPT ![j] = n]
    BY <1>3, <2>1 DEF Fail
  <2>3. QueueTypes'
    <3>1. n \in 0..attempts
      BY <2>1, Bounds
    <3>2. QED
      BY <1>0, <1>1, <2>2, <3>1 DEF QueueTypes
  <2>4. TriesLeft'
    BY <1>0, <2>2 DEF TriesLeft, QueueTypes
  <2>5. /\ \A i \in Kept : i # wjob[w] => job'[i] = job[i]
        /\ job'[j] # "absent"
    BY <1>0, <1>3, <2>2 DEF QueueTypes, Job, Kept
  <2>6. QED
    BY <1>1, <1>3, <2>3, <2>4, <2>5, EndsWith
<1>4. QED
  BY <1>2, <1>3

(* BullMQ gives the job of a worker away. *)
LEMMA GivesAway ==
    ASSUME AuditInv, NEW w \in Workers, GiveAway(wjob[w]), UNCHANGED <<tries, imported>>
    PROVE  /\ QueueTypes' /\ TriesLeft'
           /\ \A i \in Kept : i # wjob[w] => job'[i] = job[i]
           /\ wjob[w] = "bulk" => job'["bulk"] # "absent"
<1>0. QueueTypes /\ TriesLeft
  BY Parts
<1>1. CASE wjob[w] \notin Kept
  <2>1. UNCHANGED job /\ wjob[w] # "bulk"
    BY <1>1 DEF GiveAway, Kept
  <2>2. QED
    BY <1>0, <2>1 DEF QueueTypes, TriesLeft
<1>2. ASSUME NEW j \in Kept, wjob[w] = j
      PROVE  /\ QueueTypes' /\ TriesLeft'
             /\ \A i \in Kept : i # wjob[w] => job'[i] = job[i]
             /\ wjob[w] = "bulk" => job'["bulk"] # "absent"
  <2>1. PICK s \in {"waiting", "failed"} : job' = [job EXCEPT ![j] = s]
    BY <1>2 DEF GiveAway
  <2>2. tries[j] < attempts
    BY <1>2, JobsRun
  <2>3. QueueTypes' /\ TriesLeft'
    BY <1>0, <2>1, <2>2 DEF QueueTypes, TriesLeft
  <2>4. /\ \A i \in Kept : i # wjob[w] => job'[i] = job[i]
        /\ job'[j] # "absent"
    BY <1>0, <1>2, <2>1 DEF QueueTypes, Job, Kept
  <2>5. QED
    BY <1>2, <2>3, <2>4
<1>3. QED
  BY <1>1, <1>2

LEMMA DieEnds ==
    ASSUME AuditInv, NEW w \in Workers, Die(w)
    PROVE  EndsJob(w) /\ (wjob[w] = "bulk" => job'["bulk"] # "absent")
<1>1. Moves(w, "idle", NoJob, {}) /\ UNCHANGED imported
  BY DEF Die, Rest, Moves
<1>2. QED
  BY <1>1, GivesAway, EndsWith DEF Die

LEMMA EqualSums ==
    ASSUME NEW a \in Nat, NEW b \in Nat, NEW c \in Nat, NEW d \in Nat, a + b = c + d
    PROVE  \A n \in Nat : n + 0 + c + d <= n + a + b
OBVIOUS

(* The import when its run, or that of another job, ends: a run ends well  *)
(* after its insert, or is counted when BullMQ does not see that it did.   *)
LEMMA ImportEnds ==
    ASSUME AuditInv, NEW w \in Workers, EndsJob(w), UNCHANGED stored, OutcomeTypes',
           wjob[w] # "bulk" => unsure' = unsure,
           wjob[w] = "bulk" =>
              \/ job'["bulk"] = "absent" /\ wpc[w] = "finish" /\ unsure' = unsure
              \/ /\ job'["bulk"] # "absent"
                 /\ unsure' = IF wpc[w] = "finish" THEN unsure + 1 ELSE unsure
    PROVE  ImportIsKept'
<1>1. /\ OthersRest(w) /\ wpc'[w] = "idle" /\ wjob'[w] = NoJob /\ hand'[w] = {}
      /\ UNCHANGED imported
  BY RestMoves DEF EndsJob
<1>2. OutcomeTypes /\ ImportIsKept /\ \A b \in BulkRows : stored[b] \in Nat
  BY Parts DEF OutcomeTypes
<1>3. \A b \in BulkRows : Owes(b, wjob'[w], hand'[w]) = 0 /\ Owes(b, wjob[w], hand[w]) \in {0, 1}
  BY <1>1 DEF Owes
<1>4. CASE wjob[w] # "bulk"
  <2>1. wjob'[w] # "bulk" /\ job'["bulk"] = job["bulk"]
    BY <1>1, <1>4 DEF EndsJob, NoJob
  <2>2. \A b \in BulkRows :
           /\ stored'[b] >= stored[b]
           /\ stored'[b] + Owes(b, wjob'[w], hand'[w])
                 <= stored[b] + Owes(b, wjob[w], hand[w])
    BY <1>2, <1>3
  <2>3. QED
    BY <1>1, <1>4, <2>1, <2>2, ImportOthersMove
<1>5. CASE wjob[w] = "bulk"
  <2>1. PICK before \in {0, 1} : before = 1 <=> wpc[w] = "finish"
    OBVIOUS
  <2>2. PICK after \in {0, 1} : after = 1 <=> job'["bulk"] = "absent"
    OBVIOUS
  <2>3. unsure' + after = unsure + before
    BY <1>2, <1>5, <2>1, <2>2 DEF OutcomeTypes
  <2>4. wpc[w] = "finish" => \A b \in BulkRows : stored[b] > 0
    BY <1>2, <1>5, ImportRuns DEF ImportIsKept
  <2>5. after = 1 <=> job'["bulk"] = "absent" \/ (wjob'[w] = "bulk" /\ wpc'[w] = "finish")
    BY <1>1, <2>2
  <2>6. unsure \in Nat /\ unsure' \in Nat
    BY <1>2 DEF OutcomeTypes
  <2>7. \A b \in BulkRows :
           /\ after = 1 => stored'[b] > 0
           /\ stored'[b] + Owes(b, wjob'[w], hand'[w]) + unsure + before
                 <= stored[b] + unsure' + after
    <3>1. \A b \in BulkRows :
             stored'[b] = stored[b] /\ stored[b] \in Nat /\ Owes(b, wjob'[w], hand'[w]) = 0
      BY <1>2, <1>3
    <3>2. after = 1 => wpc[w] = "finish"
      BY <1>5, <2>2
    <3>3. \A n \in Nat : n + 0 + unsure + before <= n + unsure' + after
      <4>1. before \in Nat /\ after \in Nat
        BY <2>1, <2>2
      <4>2. QED
        BY <2>3, <2>6, <4>1, EqualSums
    <3>4. QED
      BY <2>4, <3>1, <3>2, <3>3
  <2>8. QED
    BY <1>1, <1>5, <2>1, <2>5, <2>7, ImportRunMoves
<1>6. QED
  BY <1>4, <1>5

LEMMA EndsKeeps ==
    ASSUME AuditInv, NEW w \in Workers, EndsJob(w),
           RequestTypes', OutcomeTypes', ImportIsKept', PlacesAreKept', FaultLosesOneBatch'
    PROVE  AuditInv'
<1>1. "idle" \in Label
  BY DEF Label
<1>2. QED
  BY <1>1, IdleFits, WorkerKeeps DEF EndsJob

LEMMA OutcomeKeeps ==
    ASSUME AuditInv, UNCHANGED <<requests, buffer, outcome, faults>>
    PROVE  RequestTypes' /\ OutcomeTypes' /\ FaultLosesOneBatch'
  BY Parts DEF RequestTypes, OutcomeTypes, FaultLosesOneBatch, requests, outcome

LEMMA EndKeeps ==
    ASSUME AuditInv, NEW w \in Workers, Complete(w) \/ Fail(w)
    PROVE  AuditInv'
<1>1. /\ EndsJob(w) /\ wpc[w] \in {"finish", "fail"}
      /\ UNCHANGED <<requests, buffer, outcome, faults>>
      /\ wjob[w] = "bulk" => \/ job'["bulk"] = "absent" /\ wpc[w] = "finish"
                             \/ job'["bulk"] # "absent" /\ wpc[w] = "fail"
  <2>1. CASE Complete(w)
    BY <2>1, CompleteEnds DEF Complete
  <2>2. CASE Fail(w)
    BY <2>2, FailEnds DEF Fail
  <2>3. QED
    BY <2>1, <2>2
<1>2. RequestTypes' /\ OutcomeTypes' /\ FaultLosesOneBatch'
  BY <1>1, OutcomeKeeps
<1>3. ImportIsKept'
  BY <1>1, <1>2, ImportEnds DEF outcome
<1>4. PlacesAreKept'
  <2>1. hand[w] = {}
    BY <1>1, Own DEF WorkerFits
  <2>2. hand'[w] = {} /\ \A v \in Workers : v # w => hand'[v] = hand[v]
    BY <1>1, RestMoves DEF EndsJob, OthersRest
  <2>3. \A r \in Rows, v \in Workers : r \in hand'[v] <=> r \in hand[v]
    BY <2>1, <2>2
  <2>4. PlacesAreKept /\ UNCHANGED <<buffer, lost, stored, dropped, stage>>
    BY <1>1, Parts DEF requests, outcome
  <2>5. QED
    BY <2>3, <2>4, RowsRest
<1>5. QED
  BY <1>1, <1>2, <1>3, <1>4, EndsKeeps

-------------------------------------------------------------------------------
(* A run of a job, from await to await. *)

LEMMA TakeKeeps ==
    ASSUME AuditInv, NEW w \in Workers, NEW j \in Job, Take(w, j)
    PROVE  AuditInv'
<1>0. /\ RequestTypes /\ QueueTypes /\ WorkerTypes /\ OutcomeTypes /\ JobsAreRun
      /\ TriesLeft /\ ImportIsKept /\ PlacesAreKept /\ FaultLosesOneBatch /\ WorkersFit
  BY Parts
<1>1. wpc[w] = "idle" /\ hand[w] = {} /\ wjob[w] = NoJob
  BY Own DEF Take, WorkerFits
<1>2. PICK label \in {"drain", "persist"}, S \in SUBSET (Rows \cup BulkRows) :
         /\ label = IF j = "bulk" THEN "persist" ELSE "drain"
         /\ S = IF j = "bulk" THEN BulkRows ELSE {}
  OBVIOUS
<1>3. Moves(w, label, j, S) /\ label \in Label
  BY <1>2 DEF Take, Moves, Label
<1>4. WorkerFits(label, j, S)
  BY <1>2 DEF WorkerFits, Job, NoJob, Stalled
<1>5. /\ job[j] = "waiting" /\ UNCHANGED <<requests, buffer, tries, imported, outcome, faults>>
      /\ job' = [job EXCEPT ![j] = IF j = "tick" THEN "absent" ELSE "active"]
  BY DEF Take
<1>6. RequestTypes' /\ QueueTypes' /\ OutcomeTypes' /\ FaultLosesOneBatch'
  BY <1>0, <1>5, OutcomeKeeps DEF QueueTypes
<1>7. wpc'[w] = label /\ wjob'[w] = j /\ hand'[w] = S /\ OthersRest(w)
  BY <1>0, <1>2, <1>3, <1>4, MovesAre DEF OthersRest
<1>8. JobsAreRun'
  <2>1. \A v \in Workers : j # "tick" => wjob[v] # j
    BY <1>0, <1>5 DEF JobsAreRun, Job, Kept
  <2>2. \A i \in Kept : job'[i] = IF i = j THEN "active" ELSE job[i]
    BY <1>0, <1>5 DEF QueueTypes, Job, Kept
  <2>3. \A v \in Workers, i \in Kept :
           wjob'[v] = i => IF i = j THEN v = w ELSE wjob[v] = i
    BY <1>7, <2>1 DEF Job, Kept, OthersRest
  <2>4. QED
    BY <1>0, <2>2, <2>3 DEF JobsAreRun
<1>9. TriesLeft'
  BY <1>0, <1>5 DEF TriesLeft, QueueTypes
<1>10. ImportIsKept'
  <2>1. wjob[w] # "bulk" /\ UNCHANGED <<imported, unsure, stored>>
    BY <1>1, <1>5 DEF NoJob, outcome
  <2>2. \/ wjob'[w] # "bulk" /\ job'["bulk"] = job["bulk"]
        \/ /\ wjob'[w] = "bulk" /\ wpc'[w] # "finish"
           /\ job["bulk"] = "waiting" /\ job'["bulk"] = "active"
    BY <1>0, <1>2, <1>5, <1>7 DEF QueueTypes, Job
  <2>3. \A b \in BulkRows : Owes(b, wjob'[w], hand'[w]) = 0 /\ Owes(b, wjob[w], hand[w]) = 0
    BY <1>1, <1>7 DEF Owes, NoJob, Stalled, Job
  <2>4. \A b \in BulkRows : stored[b] \in Nat /\ stored'[b] = stored[b]
    BY <1>0, <2>1 DEF OutcomeTypes
  <2>5. \A b \in BulkRows :
           /\ stored'[b] >= stored[b]
           /\ stored'[b] + Owes(b, wjob'[w], hand'[w])
                 <= stored[b] + Owes(b, wjob[w], hand[w])
    BY <2>3, <2>4
  <2>6. QED
    BY <1>6, <1>7, <2>1, <2>2, <2>5, ImportOthersMove
<1>11. PlacesAreKept'
  <2>1. \A r \in Rows, v \in Workers : r \in hand'[v] <=> r \in hand[v]
    BY <1>1, <1>2, <1>7, Bounds DEF OthersRest
  <2>2. UNCHANGED <<buffer, lost, stored, dropped, stage>>
    BY <1>5 DEF requests, outcome
  <2>3. QED
    BY <1>0, <2>1, <2>2, RowsRest
<1>12. QED
  BY <1>3, <1>4, <1>6, <1>8, <1>9, <1>10, <1>11, WorkerKeeps

LEMMA TurnMoves ==
    ASSUME AuditInv, NEW w \in Workers, NEW label, NEW S, Turn(w, label, S)
    PROVE  /\ Moves(w, label, wjob[w], S) /\ OthersRest(w)
           /\ wpc'[w] = label /\ wjob' = wjob /\ hand'[w] = S
  BY Parts DEF Turn, Moves, OthersRest, WorkerTypes

(* The rows of the import when a worker turns to another await. *)
LEMMA ImportTurns ==
    ASSUME AuditInv, NEW w \in Workers, NEW label \in Label \ {"idle"}, wpc[w] # "finish",
           NEW S \in SUBSET (Rows \cup BulkRows), Turn(w, label, S), UNCHANGED queue, OutcomeTypes',
           NEW more \in {0, 1},
           \A b \in BulkRows : stored'[b] = IF b \in hand[w] THEN stored[b] + more ELSE stored[b],
           S \cap BulkRows = {},
           wjob[w] # "bulk" => unsure' = unsure,
           wjob[w] = "bulk" => \/ label = "fail" /\ unsure' = unsure + more
                               \/ /\ label = "finish" /\ unsure' = unsure
                                  /\ more = 1 /\ hand[w] = BulkRows
    PROVE  ImportIsKept'
<1>1. /\ OthersRest(w) /\ wpc'[w] = label /\ wjob' = wjob /\ hand'[w] = S
      /\ UNCHANGED <<imported, job>>
  BY TurnMoves DEF queue
<1>2. OutcomeTypes /\ unsure \in Nat /\ unsure' \in Nat /\ \A b \in BulkRows : stored[b] \in Nat
  BY Parts DEF OutcomeTypes
<1>3. \A b \in BulkRows : /\ Owes(b, wjob'[w], hand'[w]) = 0
                          /\ Owes(b, wjob[w], hand[w]) = IF wjob[w] = Stalled /\ b \in hand[w] THEN 1 ELSE 0
  BY <1>1 DEF Owes
<1>4. CASE wjob[w] # "bulk"
  <2>1. \A b \in BulkRows : b \in hand[w] => wjob[w] = Stalled
    BY <1>4, Own, Bounds DEF WorkerFits, Popped, Job, NoJob
  <2>2. \A b \in BulkRows :
           /\ stored'[b] >= stored[b]
           /\ stored'[b] + Owes(b, wjob'[w], hand'[w])
                 <= stored[b] + Owes(b, wjob[w], hand[w])
    BY <1>2, <1>3, <2>1
  <2>3. QED
    BY <1>1, <1>4, <2>2, ImportOthersMove
<1>5. CASE wjob[w] = "bulk"
  <2>1. PICK before \in {0, 1} : before = 0 /\ (before = 1 <=> wpc[w] = "finish")
    OBVIOUS
  <2>2. PICK after \in {0, 1} : after = 1 <=> label = "finish"
    OBVIOUS
  <2>3. job["bulk"] = "active"
    BY <1>5, ImportRuns
  <2>4. after = 1 <=> job'["bulk"] = "absent" \/ (wjob'[w] = "bulk" /\ wpc'[w] = "finish")
    BY <1>1, <1>5, <2>2, <2>3
  <2>5. \A b \in BulkRows :
           /\ after = 1 => stored'[b] > 0
           /\ stored'[b] + Owes(b, wjob'[w], hand'[w]) + unsure + before
                 <= stored[b] + unsure' + after
    BY <1>2, <1>3, <1>5, <2>1, <2>2
  <2>6. QED
    BY <1>1, <1>5, <2>1, <2>4, <2>5, ImportRunMoves
<1>6. QED
  BY <1>4, <1>5

LEMMA TurnKeeps ==
    ASSUME AuditInv, NEW w \in Workers, NEW label \in Label, NEW S \in SUBSET (Rows \cup BulkRows),
           Turn(w, label, S), UNCHANGED queue, WorkerFits(label, wjob[w], S),
           RequestTypes', OutcomeTypes', ImportIsKept', PlacesAreKept', FaultLosesOneBatch'
    PROVE  AuditInv'
<1>1. QueueTypes /\ JobsAreRun /\ TriesLeft /\ wjob[w] \in Job \cup {NoJob, Stalled}
  BY Parts, Own
<1>2. Moves(w, label, wjob[w], S) /\ UNCHANGED <<wjob, job, tries, imported>>
  BY TurnMoves DEF queue
<1>3. QueueTypes' /\ JobsAreRun' /\ TriesLeft'
  BY <1>1, <1>2 DEF QueueTypes, JobsAreRun, TriesLeft
<1>4. QED
  BY <1>1, <1>2, <1>3, WorkerKeeps

LEMMA DrainKeeps ==
    ASSUME AuditInv, NEW w \in Workers, NEW S \in SUBSET buffer, Drain(w, S)
    PROVE  AuditInv'
<1>0. /\ RequestTypes /\ OutcomeTypes /\ PlacesAreKept /\ FaultLosesOneBatch
  BY Parts
<1>1. wpc[w] = "drain" /\ wjob[w] \in {"flush", "tick", Stalled} /\ hand[w] = {}
  BY Own DEF Drain, WorkerFits, Job
<1>2. Popped(S)
  BY <1>0, BatchFits DEF Drain, RequestTypes, Popped
<1>3. /\ Turn(w, "persist", S) /\ buffer' = buffer \ S
      /\ UNCHANGED <<requests, queue, outcome, faults>>
  BY DEF Drain
<1>4. WorkerFits("persist", wjob[w], S) /\ "persist" \in Label \ {"idle"}
      /\ S \in SUBSET (Rows \cup BulkRows) /\ S \cap BulkRows = {}
  BY <1>1, <1>2, Bounds DEF WorkerFits, Job, NoJob, Stalled, Label, Popped
<1>5. RequestTypes' /\ OutcomeTypes' /\ FaultLosesOneBatch'
  BY <1>0, <1>3 DEF RequestTypes, OutcomeTypes, FaultLosesOneBatch, requests, outcome
<1>6. PlacesAreKept'
  <2>1. hand'[w] = S /\ \A v \in Workers : v # w => hand'[v] = hand[v]
    BY <1>3, TurnMoves DEF OthersRest
  <2>2. ASSUME NEW r \in Rows, r \in S
        PROVE  Lies(r, "hand")' /\ r \notin dropped /\ stage'[r] # "new"
    <3>1. Lies(r, "buffer") /\ r \notin dropped /\ stage[r] # "new"
      BY <1>0, <2>2, OnePlace
    <3>2. \A v \in Workers : r \in hand'[v] <=> v = w
      BY <2>1, <2>2, <3>1 DEF Lies
    <3>3. QED
      BY <1>3, <2>2, <3>1, <3>2 DEF Lies, requests, outcome
  <2>3. \A r \in Rows : r \notin S => /\ r \in buffer' <=> r \in buffer
                                      /\ \A v \in Workers : r \in hand'[v] <=> r \in hand[v]
    BY <1>1, <1>3, <2>1
  <2>4. UNCHANGED <<stage, dropped, lost, stored>> /\ "hand" \in Places \ {"nowhere"}
    BY <1>3 DEF requests, outcome, Places
  <2>5. QED
    BY <1>0, <2>2, <2>3, <2>4, RowsMove
<1>7. ImportIsKept'
  <2>1. UNCHANGED <<stored, unsure>> /\ wjob[w] # "bulk" /\ 0 \in {0, 1}
    BY <1>1, <1>3 DEF outcome, Stalled
  <2>2. \A b \in BulkRows : stored'[b] = IF b \in hand[w] THEN stored[b] + 0 ELSE stored[b]
    BY <1>1, <2>1
  <2>3. QED
    BY <1>1, <1>3, <1>4, <1>5, <2>1, <2>2, ImportTurns
<1>8. QED
  BY <1>3, <1>4, <1>5, <1>6, <1>7, TurnKeeps

(* A drain that gives the worker nothing: the list is empty, or the        *)
(* replies are lost and the rows with them.                                *)
LEMMA DrainsNothing ==
    ASSUME AuditInv, NEW w \in Workers, wpc[w] = "drain", Turn(w, "finish", {}),
           UNCHANGED <<queue, stored, unsure>>,
           RequestTypes', OutcomeTypes', FaultLosesOneBatch', PlacesAreKept'
    PROVE  AuditInv'
<1>1. wjob[w] \in {"flush", "tick", Stalled} /\ hand[w] = {}
  BY Own DEF WorkerFits, Job
<1>2. WorkerFits("finish", wjob[w], {}) /\ "finish" \in Label \ {"idle"}
  BY <1>1 DEF WorkerFits, NoJob, Stalled, Label
<1>3. \A b \in BulkRows : stored'[b] = IF b \in hand[w] THEN stored[b] + 0 ELSE stored[b]
  BY <1>1
<1>4. ImportIsKept'
  <2>1. wjob[w] # "bulk" /\ 0 \in {0, 1} /\ {} \in SUBSET (Rows \cup BulkRows) /\ {} \cap BulkRows = {}
    BY <1>1 DEF Stalled
  <2>2. QED
    BY <1>2, <1>3, <2>1, ImportTurns
<1>5. {} \in SUBSET (Rows \cup BulkRows)
  OBVIOUS
<1>6. QED
  BY <1>2, <1>4, <1>5, TurnKeeps

LEMMA DrainEmptyKeeps ==
    ASSUME AuditInv, NEW w \in Workers, DrainEmpty(w)
    PROVE  AuditInv'
<1>1. /\ wpc[w] = "drain" /\ Turn(w, "finish", {}) /\ hand[w] = {} /\ PlacesAreKept
      /\ UNCHANGED <<requests, buffer, queue, outcome, faults>>
  BY Own, Parts DEF DrainEmpty, WorkerFits
<1>2. RequestTypes' /\ OutcomeTypes' /\ FaultLosesOneBatch'
  BY <1>1, OutcomeKeeps
<1>3. \A v \in Workers : hand'[v] = hand[v]
  BY <1>1, TurnMoves DEF OthersRest
<1>4. PlacesAreKept'
  BY <1>1, <1>3, RowsRest DEF requests, outcome
<1>5. QED
  BY <1>1, <1>2, <1>4, DrainsNothing DEF outcome

LEMMA DrainFailsKeeps ==
    ASSUME AuditInv, NEW w \in Workers, NEW S \in SUBSET buffer, DrainFails(w, S)
    PROVE  AuditInv'
<1>0. RequestTypes /\ OutcomeTypes /\ PlacesAreKept /\ FaultLosesOneBatch
  BY Parts
<1>1. /\ wpc[w] = "drain" /\ hand[w] = {} /\ Turn(w, "finish", {}) /\ Fault
      /\ buffer' = buffer \ S /\ lost' = lost \cup S
      /\ UNCHANGED <<requests, queue, stored, unsure>>
  BY Own DEF DrainFails, WorkerFits
<1>2. S \subseteq Rows /\ Cardinality(S) <= batchSize
  BY <1>0, BatchFits DEF DrainFails, RequestTypes
<1>3. RequestTypes' /\ OutcomeTypes'
  BY <1>0, <1>1, <1>2, FaultCounts DEF RequestTypes, OutcomeTypes, requests
<1>4. FaultLosesOneBatch'
  BY <1>0, <1>1, <1>2, LossGrows
<1>5. PlacesAreKept'
  <2>1. \A v \in Workers : hand'[v] = hand[v]
    BY <1>1, TurnMoves DEF OthersRest
  <2>2. ASSUME NEW r \in Rows, r \in S
        PROVE  Lies(r, "lost")' /\ r \notin dropped /\ stage'[r] # "new"
    <3>1. Lies(r, "buffer") /\ r \notin dropped /\ stage[r] # "new"
      BY <1>0, <2>2, OnePlace
    <3>2. \A v \in Workers : r \notin hand'[v]
      BY <2>1, <3>1 DEF Lies
    <3>3. QED
      BY <1>1, <2>2, <3>1, <3>2 DEF Lies, requests
  <2>3. \A r \in Rows : r \notin S => /\ r \in buffer' <=> r \in buffer
                                      /\ r \in lost' <=> r \in lost
                                      /\ \A v \in Workers : r \in hand'[v] <=> r \in hand[v]
    BY <1>1, <2>1
  <2>4. UNCHANGED <<stage, dropped, stored>> /\ "lost" \in Places \ {"nowhere"}
    BY <1>1 DEF requests, Places
  <2>5. QED
    BY <1>0, <2>2, <2>3, <2>4, RowsMove
<1>6. QED
  BY <1>1, <1>3, <1>4, <1>5, DrainsNothing

LEMMA InsertTypes ==
    ASSUME OutcomeTypes, NEW S, Insert(S)
    PROVE  /\ stored' \in [Rows \cup BulkRows -> Nat]
           /\ \A b \in BulkRows : stored'[b] = IF b \in S THEN stored[b] + 1 ELSE stored[b]
<1>1. \A r \in Rows \cup BulkRows :
         stored[r] \in Nat /\ stored'[r] = IF r \in S THEN stored[r] + 1 ELSE stored[r]
  BY DEF OutcomeTypes, Insert
<1>2. \A r \in Rows \cup BulkRows : stored'[r] \in Nat
  BY <1>1
<1>3. stored' \in [Rows \cup BulkRows -> Nat]
  BY <1>2 DEF Insert
<1>4. QED
  BY <1>1, <1>3

(* The insert committed, whether the worker gets to know it or not. *)
LEMMA InsertKeeps ==
    ASSUME AuditInv, NEW w \in Workers, NEW label \in {"drain", "finish", "fail"},
           wpc[w] = "persist", Insert(hand[w]), Turn(w, label, {}),
           UNCHANGED <<requests, buffer, queue, lost>>,
           OutcomeTypes', FaultLosesOneBatch',
           wjob[w] # "bulk" => unsure' = unsure,
           wjob[w] = "bulk" => \/ label = "fail" /\ unsure' = unsure + 1
                               \/ label = "finish" /\ unsure' = unsure
    PROVE  AuditInv'
<1>0. RequestTypes /\ OutcomeTypes /\ PlacesAreKept /\ WorkerTypes
  BY Parts
<1>1. /\ wjob[w] \in Job \cup {Stalled} /\ (wjob[w] = "bulk" => hand[w] = BulkRows)
      /\ label \in Label \ {"idle"}
  BY Own DEF WorkerFits, Label
<1>2. RequestTypes'
  BY <1>0 DEF RequestTypes, requests
<1>3. \A b \in BulkRows : stored'[b] = IF b \in hand[w] THEN stored[b] + 1 ELSE stored[b]
  BY <1>0, InsertTypes
<1>4. PlacesAreKept'
  <2>1. hand'[w] = {} /\ \A v \in Workers : v # w => hand'[v] = hand[v]
    BY TurnMoves DEF OthersRest
  <2>2. QED
    BY <1>0, <2>1, RowsAreStored
<1>5. {} \in SUBSET (Rows \cup BulkRows) /\ {} \cap BulkRows = {} /\ 1 \in {0, 1}
  OBVIOUS
<1>6. ImportIsKept'
  BY <1>1, <1>3, <1>5, ImportTurns
<1>7. WorkerFits(label, wjob[w], {})
  BY <1>1 DEF WorkerFits, Job, NoJob, Stalled, Label
<1>8. QED
  BY <1>1, <1>2, <1>4, <1>5, <1>6, <1>7, TurnKeeps

LEMMA PersistKeeps ==
    ASSUME AuditInv, NEW w \in Workers, Persist(w)
    PROVE  AuditInv'
<1>0. OutcomeTypes /\ FaultLosesOneBatch
  BY Parts
<1>1. PICK label \in {"drain", "finish"} :
         /\ Turn(w, label, {})
         /\ label = "drain" <=> hand[w] \subseteq Rows /\ Cardinality(hand[w]) = batchSize
  BY DEF Persist
<1>2. /\ wpc[w] = "persist" /\ Insert(hand[w])
      /\ UNCHANGED <<requests, buffer, queue, lost, unsure, faults>>
  BY DEF Persist
<1>3. OutcomeTypes' /\ FaultLosesOneBatch'
  BY <1>0, <1>2, InsertTypes DEF OutcomeTypes, FaultLosesOneBatch
<1>4. wjob[w] = "bulk" => label = "finish"
  <2>1. SUFFICES ASSUME wjob[w] = "bulk", label = "drain" PROVE FALSE
    BY <1>1
  <2>2. hand[w] = BulkRows
    BY <1>2, <2>1, Own DEF WorkerFits
  <2>3. hand[w] = {}
    BY <1>1, <2>1, <2>2, Bounds
  <2>4. Cardinality({}) = 0
    BY FS_EmptySet
  <2>5. Cardinality(hand[w]) = 0
    BY <2>3, <2>4, Zenon
  <2>6. QED
    BY <1>1, <2>1, <2>5, Bounds
<1>5. QED
  BY <1>1, <1>2, <1>3, <1>4, InsertKeeps

LEMMA PersistUnsureKeeps ==
    ASSUME AuditInv, NEW w \in Workers, PersistUnsure(w)
    PROVE  AuditInv'
<1>0. OutcomeTypes /\ FaultLosesOneBatch
  BY Parts
<1>1. /\ wpc[w] = "persist" /\ Fault /\ Insert(hand[w]) /\ Turn(w, "fail", {})
      /\ unsure' = IF wjob[w] = "bulk" THEN unsure + 1 ELSE unsure
      /\ UNCHANGED <<requests, buffer, queue, lost>>
  BY DEF PersistUnsure
<1>2. OutcomeTypes'
  BY <1>0, <1>1, InsertTypes, Bounds DEF OutcomeTypes, Fault
<1>3. FaultLosesOneBatch'
  <2>1. Cardinality({}) = 0 /\ lost' = lost \cup {} /\ {} \in SUBSET Rows
    BY <1>1, FS_EmptySet
  <2>2. Cardinality({}) <= batchSize
    BY <2>1, Bounds
  <2>3. QED
    BY <1>0, <1>1, <2>1, <2>2, LossGrows
<1>4. QED
  BY <1>1, <1>2, <1>3, InsertKeeps

(* A worker that fails or dies loses the rows of the list it had popped;  *)
(* those of the import are still in the job.                               *)
LEMMA LosesRows ==
    ASSUME AuditInv, NEW w \in Workers, Fault, hand'[w] = {},
           \A v \in Workers : v # w => hand'[v] = hand[v],
           lost' = lost \cup (hand[w] \cap Rows), UNCHANGED <<requests, buffer, stored>>,
           unsure' \in {unsure, unsure + 1}
    PROVE  RequestTypes' /\ OutcomeTypes' /\ FaultLosesOneBatch' /\ PlacesAreKept'
<1>0. /\ RequestTypes /\ WorkerTypes /\ OutcomeTypes
      /\ PlacesAreKept /\ FaultLosesOneBatch
  BY Parts
<1>1. RequestTypes' /\ OutcomeTypes'
  BY <1>0, Bounds DEF RequestTypes, OutcomeTypes, requests, Fault
<1>2. Cardinality(hand[w] \cap Rows) <= batchSize
  <2>1. \/ hand[w] \cap Rows = {}
        \/ hand[w] \cap Rows = hand[w] /\ Cardinality(hand[w]) <= batchSize
    BY Own, Bounds DEF WorkerFits, Popped, Job, Label
  <2>2. Cardinality({}) = 0
    BY FS_EmptySet
  <2>3. CASE hand[w] \cap Rows = {}
    <3>1. Cardinality(hand[w] \cap Rows) = 0
      BY <2>2, <2>3, Zenon
    <3>2. QED
      BY <3>1, Bounds
  <2>4. CASE hand[w] \cap Rows = hand[w] /\ Cardinality(hand[w]) <= batchSize
    BY <2>4, Zenon
  <2>5. QED
    BY <2>1, <2>3, <2>4
<1>3. FaultLosesOneBatch'
  <2>1. hand[w] \cap Rows \in SUBSET Rows
    OBVIOUS
  <2>2. QED
    BY <1>0, <1>2, <2>1, LossGrows
<1>4. PlacesAreKept'
  BY <1>0, RowsAreLost
<1>5. QED
  BY <1>1, <1>3, <1>4

LEMMA PersistFailsKeeps ==
    ASSUME AuditInv, NEW w \in Workers, PersistFails(w)
    PROVE  AuditInv'
<1>1. /\ wpc[w] = "persist" /\ Fault /\ lost' = lost \cup (hand[w] \cap Rows)
      /\ Turn(w, "fail", {}) /\ UNCHANGED <<requests, buffer, queue, stored, unsure>>
  BY DEF PersistFails
<1>2. hand'[w] = {} /\ \A v \in Workers : v # w => hand'[v] = hand[v]
  BY <1>1, TurnMoves DEF OthersRest
<1>3. RequestTypes' /\ OutcomeTypes' /\ FaultLosesOneBatch' /\ PlacesAreKept'
  BY <1>1, <1>2, LosesRows
<1>4. WorkerFits("fail", wjob[w], {}) /\ "fail" \in Label \ {"idle"}
  BY <1>1, Own DEF WorkerFits, Job, NoJob, Stalled, Label
<1>5. /\ {} \in SUBSET (Rows \cup BulkRows) /\ {} \cap BulkRows = {} /\ 0 \in {0, 1}
      /\ unsure' = unsure + 0
  BY <1>1, Parts DEF OutcomeTypes
<1>6. \A b \in BulkRows : stored'[b] = IF b \in hand[w] THEN stored[b] + 0 ELSE stored[b]
  BY <1>1, Parts DEF OutcomeTypes
<1>7. ImportIsKept'
  BY <1>1, <1>3, <1>4, <1>5, <1>6, ImportTurns
<1>8. QED
  BY <1>1, <1>3, <1>4, <1>5, <1>7, TurnKeeps

LEMMA DieKeeps ==
    ASSUME AuditInv, NEW w \in Workers, Die(w)
    PROVE  AuditInv'
<1>1. /\ Fault /\ lost' = lost \cup (hand[w] \cap Rows)
      /\ unsure' = IF wjob[w] = "bulk" /\ wpc[w] = "finish" THEN unsure + 1 ELSE unsure
      /\ UNCHANGED <<requests, buffer, stored>>
  BY DEF Die
<1>2. EndsJob(w) /\ (wjob[w] = "bulk" => job'["bulk"] # "absent")
  BY DieEnds
<1>3. hand'[w] = {} /\ \A v \in Workers : v # w => hand'[v] = hand[v]
  BY <1>2, RestMoves DEF EndsJob, OthersRest
<1>4. RequestTypes' /\ OutcomeTypes' /\ FaultLosesOneBatch' /\ PlacesAreKept'
  BY <1>1, <1>3, LosesRows
<1>5. ImportIsKept'
  BY <1>1, <1>2, <1>4, ImportEnds
<1>6. QED
  BY <1>2, <1>4, <1>5, EndsKeeps

(* A job that is given away while its worker goes on. *)
LEMMA StallKeeps ==
    ASSUME AuditInv, NEW w \in Workers, Stall(w)
    PROVE  AuditInv'
<1>0. /\ RequestTypes /\ WorkerTypes /\ OutcomeTypes /\ PlacesAreKept /\ FaultLosesOneBatch
      /\ JobsAreRun
  BY Parts
<1>1. /\ Fault /\ wjob[w] \in Kept /\ wjob' = [wjob EXCEPT ![w] = Stalled]
      /\ unsure' = IF wjob[w] = "bulk" /\ wpc[w] # "fail" THEN unsure + 1 ELSE unsure
      /\ GiveAway(wjob[w])
      /\ UNCHANGED <<requests, buffer, tries, imported, wpc, hand, stored, lost>>
  BY DEF Stall
<1>2. Moves(w, wpc[w], Stalled, hand[w])
  BY <1>0, <1>1 DEF Moves, WorkerTypes
<1>3. /\ wjob'[w] = Stalled /\ wpc'[w] = wpc[w] /\ hand'[w] = hand[w] /\ OthersRest(w)
  BY <1>0, <1>1 DEF WorkerTypes, OthersRest
<1>4. WorkerFits(wpc[w], Stalled, hand[w])
  BY <1>1, Own DEF WorkerFits, Kept, NoJob, Stalled
<1>5. /\ QueueTypes' /\ TriesLeft' /\ \A i \in Kept : i # wjob[w] => job'[i] = job[i]
      /\ wjob[w] = "bulk" => job'["bulk"] # "absent"
  BY <1>1, GivesAway
<1>6. JobsAreRun'
  BY <1>0, <1>3, <1>5, LeavesJob DEF OthersRest
<1>7. RequestTypes' /\ OutcomeTypes'
  BY <1>0, <1>1, Bounds DEF RequestTypes, OutcomeTypes, requests, Fault
<1>8. FaultLosesOneBatch'
  <2>1. Cardinality({}) = 0 /\ lost' = lost \cup {} /\ {} \in SUBSET Rows
    BY <1>1, FS_EmptySet
  <2>2. Cardinality({}) <= batchSize
    BY <2>1, Bounds
  <2>3. QED
    BY <1>0, <1>1, <2>1, <2>2, LossGrows
<1>9. PlacesAreKept'
  BY <1>0, <1>1, RowsRest DEF requests
<1>10. ImportIsKept'
  <2>1. \A b \in BulkRows : /\ stored'[b] = stored[b] /\ stored[b] \in Nat
                            /\ Owes(b, wjob'[w], hand'[w]) = IF b \in hand[w] THEN 1 ELSE 0
    BY <1>0, <1>1, <1>3 DEF OutcomeTypes, Owes
  <2>2. CASE wjob[w] # "bulk"
    <3>1. \A b \in BulkRows : b \notin hand[w] /\ Owes(b, wjob[w], hand[w]) = 0
      BY <1>1, <2>2, Own, Bounds DEF WorkerFits, Popped, Kept, Owes, Stalled, Label
    <3>2. \A b \in BulkRows :
             /\ stored'[b] >= stored[b]
             /\ stored'[b] + Owes(b, wjob'[w], hand'[w])
                   <= stored[b] + Owes(b, wjob[w], hand[w])
      BY <2>1, <3>1
    <3>3. wjob'[w] # "bulk" /\ job'["bulk"] = job["bulk"] /\ UNCHANGED <<imported, unsure>>
      BY <1>1, <1>3, <1>5, <2>2 DEF Stalled, Kept
    <3>4. QED
      BY <1>3, <1>7, <2>2, <3>2, <3>3, ImportOthersMove
  <2>3. CASE wjob[w] = "bulk"
    <3>1. PICK before \in {0, 1} : before = 1 <=> wpc[w] = "finish"
      OBVIOUS
    <3>2. wpc[w] \in {"persist", "finish", "fail"} /\ (wpc[w] # "persist" => hand[w] = {})
      BY <1>1, <2>3, Own DEF WorkerFits, Label, NoJob
    <3>3. unsure \in Nat /\ unsure' = IF wpc[w] # "fail" THEN unsure + 1 ELSE unsure
      BY <1>0, <1>1, <2>3 DEF OutcomeTypes
    <3>4. \A b \in BulkRows : stored'[b] + Owes(b, wjob'[w], hand'[w]) + unsure + before
                                 <= stored[b] + unsure' + 0
      BY <2>1, <3>1, <3>2, <3>3
    <3>5. /\ 0 \in {0, 1} /\ UNCHANGED imported
          /\ 0 = 1 <=> job'["bulk"] = "absent" \/ (wjob'[w] = "bulk" /\ wpc'[w] = "finish")
      BY <1>1, <1>3, <1>5, <2>3 DEF Stalled
    <3>6. QED
      BY <1>3, <1>7, <2>3, <3>1, <3>4, <3>5, ImportRunMoves
  <2>4. QED
    BY <2>2, <2>3
<1>11. QED
  <2>1. wpc[w] \in Label /\ hand[w] \in SUBSET (Rows \cup BulkRows)
    BY Own
  <2>2. QED
    BY <1>2, <1>4, <1>5, <1>6, <1>7, <1>8, <1>9, <1>10, <2>1, WorkerKeeps

LEMMA AuditStep == AuditInv /\ [Next]_vars => AuditInv'
<1> SUFFICES ASSUME AuditInv, [Next]_vars PROVE AuditInv'
  OBVIOUS
<1>1. ASSUME NEW S \in SUBSET Rows, NEW r \in S, Record(r, S) PROVE AuditInv'
  BY <1>1, RecordKeeps
<1>2. ASSUME NEW r \in Rows, Request(r) PROVE AuditInv'
  BY <1>2, RequestStepKeeps
<1>3. CASE ImportBulk \/ Schedule
  BY <1>3, QueueKeeps
<1>4. ASSUME NEW w \in Workers, Work(w) PROVE AuditInv'
  BY <1>4, TakeKeeps, DrainKeeps, DrainEmptyKeeps, PersistKeeps, EndKeeps DEF Work
<1>5. CASE Trouble
  BY <1>5, RecordFailsKeeps, RequestStepKeeps, DrainFailsKeeps, PersistFailsKeeps,
     PersistUnsureKeeps, DieKeeps, StallKeeps DEF Trouble
<1>6. CASE UNCHANGED vars
  <2>1. UNCHANGED <<requests, buffer, queue, worker, outcome, faults>>
    BY <1>6 DEF vars
  <2>2. /\ RequestTypes /\ QueueTypes /\ OutcomeTypes /\ ImportIsKept /\ PlacesAreKept
    BY Parts
  <2>3. RequestTypes' /\ QueueTypes' /\ faults' \in 0..MaxFaults /\ faults <= faults'
    BY <2>1, <2>2, Bounds DEF RequestTypes, QueueTypes, OutcomeTypes, requests, queue
  <2>4. ImportIsKept'
    BY <2>1, <2>2, ImportRests DEF queue, outcome
  <2>5. PlacesAreKept'
    BY <2>1, <2>2, RowsRest DEF requests, worker, outcome
  <2>6. UNCHANGED <<worker, outcome, tries, job>>
    BY <2>1 DEF queue
  <2>7. QED
    BY <2>3, <2>4, <2>5, <2>6, RequestKeeps
<1>7. QED
  BY <1>1, <1>2, <1>3, <1>4, <1>5, <1>6 DEF Next

-------------------------------------------------------------------------------
(* The invariant holds in every state of the pipeline, whatever fails. *)
THEOREM AuditInvariance == Spec => []AuditInv
  BY AuditInitInv, AuditStep, PTL DEF Spec

(* The copies of a row of the import, and the runs they come from. *)
LEMMA ImportCopies ==
    ASSUME AuditInv, NEW b \in BulkRows
    PROVE  stored[b] <= 1 + unsure
<1>1. stored[b] + Cardinality(Late(b)) <= unsure + Ended /\ Ended \in {0, 1}
  BY Parts DEF ImportIsKept, Ended
<1>2. IsFiniteSet(Late(b))
  BY Bounds, FS_Subset DEF Late
<1>3. Cardinality(Late(b)) \in Nat
  BY <1>2, FS_CardinalityType
<1>4. stored[b] \in Nat /\ unsure \in Nat
  BY Parts DEF OutcomeTypes
<1>5. QED
  BY <1>1, <1>3, <1>4

(* The jobs, the list and what the workers hold are of their kind; no job  *)
(* is tried more than attempts times.                                      *)
THEOREM AuditTypes == Spec => []TypeOK
<1>1. AuditInv => TypeOK
  <2> SUFFICES ASSUME AuditInv PROVE TypeOK
    OBVIOUS
  <2>1. RequestTypes /\ QueueTypes /\ WorkerTypes /\ OutcomeTypes
    BY Parts
  <2>2. unsure \in 0..MaxFaults
    BY <2>1, Bounds DEF OutcomeTypes
  <2>3. ASSUME NEW r \in Rows PROVE stored[r] \in 0..MaxFaults + 1
    BY Parts, Bounds DEF PlacesAreKept, Lies
  <2>4. ASSUME NEW b \in BulkRows PROVE stored[b] \in 0..MaxFaults + 1
    BY <2>1, <2>2, Bounds, ImportCopies DEF OutcomeTypes
  <2>5. stored \in [Rows \cup BulkRows -> 0..MaxFaults + 1]
    BY <2>1, <2>3, <2>4 DEF OutcomeTypes
  <2>6. QED
    BY <2>1, <2>2, <2>5 DEF TypeOK, RequestTypes, QueueTypes, WorkerTypes, OutcomeTypes, Label
<1>2. QED
  BY <1>1, AuditInvariance, PTL

(* record, drain and createMany move a row from the request to the list,   *)
(* to one worker and to the table: whatever instances flush at the same    *)
(* time, jobs are retried and calls fail, it is in one of these places, or *)
(* among those a fault lost, and it is stored once.                        *)
THEOREM RowsAreNeitherCopiedNorForgotten == Spec => []EachRowInOnePlace
<1>1. AuditInv => EachRowInOnePlace
  <2> SUFFICES ASSUME AuditInv, NEW r \in Rows
               PROVE  Cardinality({w \in Workers : r \in hand[w]})
                         + Cardinality({r} \cap buffer) + Cardinality({r} \cap lost) + stored[r]
                         = IF stage[r] = "new" \/ r \in dropped THEN 0 ELSE 1
    BY DEF EachRowInOnePlace
  <2>1. PICK place \in Places :
            /\ Lies(r, place)
            /\ place = "nowhere" <=> (stage[r] = "new" \/ r \in dropped)
    BY Parts DEF PlacesAreKept
  <2>2. Cardinality({}) = 0 /\ Cardinality({r}) = 1
    BY FS_EmptySet, FS_Singleton
  <2>3. Cardinality({r} \cap buffer) = IF place = "buffer" THEN 1 ELSE 0
    <3>1. {r} \cap buffer = IF place = "buffer" THEN {r} ELSE {}
      BY <2>1 DEF Lies
    <3>2. QED
      BY <2>2, <3>1, Zenon
  <2>4. Cardinality({r} \cap lost) = IF place = "lost" THEN 1 ELSE 0
    <3>1. {r} \cap lost = IF place = "lost" THEN {r} ELSE {}
      BY <2>1 DEF Lies
    <3>2. QED
      BY <2>2, <3>1, Zenon
  <2>5. Cardinality({w \in Workers : r \in hand[w]}) = IF place = "hand" THEN 1 ELSE 0
    <3>1. CASE place = "hand"
      <4>1. PICK w \in Workers : r \in hand[w]
        BY <2>1, <3>1 DEF Lies
      <4>2. {v \in Workers : r \in hand[v]} = {w}
        BY <2>1, <4>1 DEF Lies
      <4>3. Cardinality({w}) = 1
        BY FS_Singleton
      <4>4. QED
        BY <3>1, <4>2, <4>3, Zenon
    <3>2. CASE place # "hand"
      <4>1. {v \in Workers : r \in hand[v]} = {}
        BY <2>1, <3>2 DEF Lies
      <4>2. QED
        BY <2>2, <3>2, <4>1, Zenon
    <3>3. QED
      BY <3>1, <3>2
  <2>6. stored[r] = IF place = "stored" THEN 1 ELSE 0
    BY <2>1 DEF Lies
  <2>7. QED
    BY <2>1, <2>3, <2>4, <2>5, <2>6 DEF Places
<1>2. QED
  BY <1>1, AuditInvariance, PTL

(* A worker has at most batchSize rows of the list in memory, and only a   *)
(* fault makes it drop them; the rest is still in Redis.                   *)
THEOREM LossIsBounded == Spec => []FaultLosesOneBatch
<1>1. AuditInv => FaultLosesOneBatch
  BY DEF AuditInv
<1>2. QED
  BY <1>1, AuditInvariance, PTL

(* importBulk's rows travel in its job, which is retried with all of them  *)
(* and leaves the queue only after an insert: none is missing then.  The   *)
(* insert and the completion of the job are two awaits, so rows are there  *)
(* once more for every run that died, stalled or lost its reply between    *)
(* them, and never for another reason.                                     *)
THEOREM ImportsAreComplete == Spec => []BulkIsComplete
<1>1. AuditInv => BulkIsComplete
  <2> SUFFICES ASSUME AuditInv, NEW b \in BulkRows
               PROVE  /\ imported /\ job["bulk"] = "absent" => stored[b] > 0
                      /\ stored[b] <= 1 + unsure
    BY DEF BulkIsComplete
  <2>1. imported /\ job["bulk"] = "absent" => Ended = 1
    BY DEF Ended
  <2>2. QED
    BY <2>1, Parts, ImportCopies DEF ImportIsKept
<1>2. QED
  BY <1>1, AuditInvariance, PTL
===============================================================================
