---------------------------- MODULE AuditPipeline ----------------------------
(***************************************************************************)
(* The audit trail: AuditService.record pushes a row to a Redis list and   *)
(* asks for a flush when the list is long, a BullMQ scheduler asks for one *)
(* every flushIntervalMs, and AuditProcessor, in each instance of the      *)
(* program, pops a batch and inserts it with one createMany.  importBulk   *)
(* goes round the list: its rows travel in the job.                        *)
(*                                                                         *)
(* The list is a set here: which rows share a batch matters, their order   *)
(* does not (createdAt is set before the push).                            *)
(***************************************************************************)
EXTENDS Naturals, FiniteSets, FiniteSetsExt

CONSTANTS Rows,         \* rows recorded one by one or by recordMany
          BulkRows,     \* the rows of one importBulk
          Workers,      \* AuditProcessor instances, one job at a time each
          batchSize,    \* AUDIT_PIPELINE.batchSize
          attempts,     \* attempts of a job before it stays failed
          MaxFaults     \* bound: calls that fail and processes that die

ASSUME AuditAssumption ==
    /\ Rows \cap BulkRows = {} /\ IsFiniteSet(Rows) /\ IsFiniteSet(Workers)
    /\ batchSize \in Nat \ {0} /\ attempts \in Nat \ {0} /\ MaxFaults \in Nat

VARIABLES
    stage,      \* what the request that recorded each row does next
    buffer,     \* Redis list audit:inbox
    job,        \* BullMQ: audit-flush, the scheduler's next job, the import
    tries,      \* attemptsMade of each job
    imported,   \* importBulk has been called
    wpc,        \* the await each worker performs next
    wjob,       \* the job it runs, or that it was taken from it
    hand,       \* the rows it holds in memory
    stored,     \* activities: how often each row was inserted
    faults,     \* faults so far
    dropped,    \* history: rows whose LPUSH failed, which record() ignores
    lost,       \* history: rows popped and never inserted
    unsure      \* history: runs of the import whose insert was committed, or
                \* still to come, when BullMQ gave its job away or counted
                \* it as failed

requests == <<stage, dropped>>
queue    == <<job, tries, imported>>
worker   == <<wpc, wjob, hand>>
outcome  == <<stored, lost, unsure>>
vars     == <<requests, buffer, queue, worker, outcome, faults>>

Job     == {"flush", "tick", "bulk"}
Kept    == {"flush", "bulk"}    \* those that stay in the queue while they run
NoJob   == "none"
Stalled == "stalled"            \* what a worker runs whose job was given away

TypeOK ==
    /\ stage \in [Rows -> {"new", "length", "add", "done"}]
    /\ buffer \subseteq Rows
    /\ job \in [Job -> {"absent", "waiting", "active", "failed"}]
    /\ tries \in [Job -> 0..attempts]
    /\ imported \in BOOLEAN
    /\ wpc \in [Workers -> {"idle", "drain", "persist", "finish", "fail"}]
    /\ wjob \in [Workers -> Job \cup {NoJob, Stalled}]
    /\ hand \in [Workers -> SUBSET (Rows \cup BulkRows)]
    /\ stored \in [Rows \cup BulkRows -> 0..MaxFaults + 1]
    /\ faults \in 0..MaxFaults
    /\ dropped \subseteq Rows /\ lost \subseteq Rows
    /\ unsure \in 0..MaxFaults

Init ==
    /\ stage = [r \in Rows |-> "new"]
    /\ buffer = {}
    /\ job = [j \in Job |-> "absent"]
    /\ tries = [j \in Job |-> 0]
    /\ imported = FALSE
    /\ wpc = [w \in Workers |-> "idle"]
    /\ wjob = [w \in Workers |-> NoJob]
    /\ hand = [w \in Workers |-> {}]
    /\ stored = [r \in Rows \cup BulkRows |-> 0]
    /\ faults = 0 /\ dropped = {} /\ lost = {} /\ unsure = 0

Fault == faults < MaxFaults /\ faults' = faults + 1

-------------------------------------------------------------------------------
(* AuditService *)

(* record, and recordMany with several rows: one LPUSH.  The request goes  *)
(* on under the name of one of its rows.                                   *)
Record(r, S) ==
    /\ r \in S
    /\ \A s \in S : stage[s] = "new"
    /\ stage' = [s \in Rows |-> IF s = r THEN "length"
                                ELSE IF s \in S THEN "done" ELSE stage[s]]
    /\ buffer' = buffer \cup S
    /\ UNCHANGED <<dropped, queue, worker, outcome, faults>>

(* LPUSH fails: a warning is logged and the caller goes on. *)
RecordFails(r) ==
    /\ stage[r] = "new"
    /\ Fault
    /\ stage' = [stage EXCEPT ![r] = "done"]
    /\ dropped' = dropped \cup {r}
    /\ UNCHANGED <<buffer, queue, worker, outcome>>

(* LLEN, on its own after the push. *)
Length(r) ==
    /\ stage[r] = "length"
    /\ stage' = [stage EXCEPT ![r] =
                    IF Cardinality(buffer) >= batchSize THEN "add" ELSE "done"]
    /\ UNCHANGED <<dropped, buffer, queue, worker, outcome, faults>>

(* queue.add under the stable id: BullMQ ignores it while a job with that  *)
(* id exists, failed ones included.                                        *)
AddFlush(r) ==
    /\ stage[r] = "add"
    /\ stage' = [stage EXCEPT ![r] = "done"]
    /\ job' = [job EXCEPT !["flush"] = IF @ = "absent" THEN "waiting" ELSE @]
    /\ UNCHANGED <<dropped, buffer, tries, imported, worker, outcome, faults>>

(* LLEN or queue.add fails, and the error is swallowed. *)
EnqueueFails(r) ==
    /\ stage[r] \in {"length", "add"}
    /\ Fault
    /\ stage' = [stage EXCEPT ![r] = "done"]
    /\ UNCHANGED <<dropped, buffer, queue, worker, outcome>>

ImportBulk ==
    /\ ~imported
    /\ imported' = TRUE
    /\ job' = [job EXCEPT !["bulk"] = "waiting"]
    /\ UNCHANGED <<requests, buffer, tries, worker, outcome, faults>>

(* Bug: the periodic flush is only asked for when a batch is full. *)
BugScheduleWhenFull ==
    /\ job["tick"] = "absent" /\ Cardinality(buffer) >= batchSize
    /\ job' = [job EXCEPT !["tick"] = "waiting"]
    /\ UNCHANGED <<requests, buffer, tries, imported, worker, outcome, faults>>

(* The job scheduler of onModuleInit: every iteration has an id of its     *)
(* own, so the next one waits while the last one runs.                     *)
Schedule ==
    /\ job["tick"] = "absent"
    /\ job' = [job EXCEPT !["tick"] = "waiting"]
    /\ UNCHANGED <<requests, buffer, tries, imported, worker, outcome, faults>>

-------------------------------------------------------------------------------
(* AuditProcessor.process *)

Take(w, j) ==
    /\ wpc[w] = "idle"
    /\ job[j] = "waiting"
    /\ job' = [job EXCEPT ![j] = IF j = "tick" THEN "absent" ELSE "active"]
    /\ wjob' = [wjob EXCEPT ![w] = j]
    /\ wpc' = [wpc EXCEPT ![w] = IF j = "bulk" THEN "persist" ELSE "drain"]
    /\ hand' = [hand EXCEPT ![w] = IF j = "bulk" THEN BulkRows ELSE {}]
    /\ UNCHANGED <<requests, buffer, tries, imported, outcome, faults>>

Rest(w) ==
    /\ wpc' = [wpc EXCEPT ![w] = "idle"]
    /\ wjob' = [wjob EXCEPT ![w] = NoJob]
    /\ hand' = [hand EXCEPT ![w] = {}]

(* The worker turns to another await of the same run. *)
Turn(w, label, S) ==
    /\ wpc' = [wpc EXCEPT ![w] = label]
    /\ hand' = [hand EXCEPT ![w] = S]
    /\ UNCHANGED wjob

(* process has returned, and BullMQ is told: removeOnComplete frees the id *)
(* again.  A worker whose job was given away is not listened to.           *)
Complete(w) ==
    LET j == wjob[w] IN
    /\ wpc[w] = "finish"
    /\ Rest(w)
    /\ IF j \in Kept
       THEN job' = [job EXCEPT ![j] = "absent"] /\ tries' = [tries EXCEPT ![j] = 0]
       ELSE UNCHANGED <<job, tries>>
    /\ UNCHANGED <<requests, buffer, imported, outcome, faults>>

(* Bug: a failed job is removed, whatever it carried. *)
BugFailForgets(w) ==
    LET j == wjob[w] IN
    /\ wpc[w] = "fail"
    /\ Rest(w)
    /\ job' = IF j \in Kept THEN [job EXCEPT ![j] = "absent"] ELSE job
    /\ UNCHANGED <<requests, buffer, tries, imported, outcome, faults>>

(* process has thrown, and BullMQ is told: the job is retried with what it *)
(* was created with, up to attempts; then removeOnFail keeps it.  A tick   *)
(* is not retried here: the next one does the same.                        *)
Fail(w) ==
    LET j == wjob[w]
        n == tries[j] + 1 IN
    /\ wpc[w] = "fail"
    /\ Rest(w)
    /\ IF j \in Kept
       THEN /\ job' = [job EXCEPT ![j] = IF n < attempts THEN "waiting" ELSE "failed"]
            /\ tries' = [tries EXCEPT ![j] = n]
       ELSE UNCHANGED <<job, tries>>
    /\ UNCHANGED <<requests, buffer, imported, outcome, faults>>

(* Bug: drain ignores its limit. *)
BugBatchIsEverything(S) ==
    S = buffer

(* A pipeline of batchSize RPOPs is not a transaction, but each RPOP is:   *)
(* the worker gets rows nobody else gets.                                  *)
Batch(S) ==
    /\ S \subseteq buffer
    /\ Cardinality(S) = Min({batchSize, Cardinality(buffer)})

(* Bug: the batch is read (LRANGE) and trimmed later. *)
BugDrainPeeks(w, S) ==
    /\ wpc[w] = "drain"
    /\ S # {} /\ Batch(S)
    /\ Turn(w, "persist", S)
    /\ UNCHANGED <<requests, buffer, queue, outcome, faults>>

Drain(w, S) ==
    /\ wpc[w] = "drain"
    /\ S # {} /\ Batch(S)
    /\ buffer' = buffer \ S
    /\ Turn(w, "persist", S)
    /\ UNCHANGED <<requests, queue, outcome, faults>>

DrainEmpty(w) ==
    /\ wpc[w] = "drain"
    /\ buffer = {}
    /\ Turn(w, "finish", {})
    /\ UNCHANGED <<requests, buffer, queue, outcome, faults>>

(* The rows are popped and the replies do not arrive: every command of the *)
(* pipeline has an error, drain returns no rows and process returns.       *)
DrainFails(w, S) ==
    /\ wpc[w] = "drain"
    /\ Fault
    /\ S # {} /\ Batch(S)
    /\ buffer' = buffer \ S
    /\ lost' = lost \cup S
    /\ Turn(w, "finish", {})
    /\ UNCHANGED <<requests, queue, stored, unsure>>

Insert(S) ==
    stored' = [r \in Rows \cup BulkRows |-> IF r \in S THEN stored[r] + 1 ELSE stored[r]]

(* createMany; flushInbox goes on after a full batch and stops after a     *)
(* short one, and the import has one batch.                                *)
Persist(w) ==
    /\ wpc[w] = "persist"
    /\ Insert(hand[w])
    /\ Turn(w, IF hand[w] \subseteq Rows /\ Cardinality(hand[w]) = batchSize
               THEN "drain" ELSE "finish", {})
    /\ UNCHANGED <<requests, buffer, queue, lost, unsure, faults>>

(* Bug: the rows of a failed import are given up with those of the list. *)
BugPersistFailsDropsImport(w) ==
    /\ wpc[w] = "persist"
    /\ Fault
    /\ lost' = lost \cup hand[w]
    /\ Turn(w, "fail", {})
    /\ UNCHANGED <<requests, buffer, queue, stored, unsure>>

(* createMany is rejected, and with it the whole batch. *)
PersistFails(w) ==
    /\ wpc[w] = "persist"
    /\ Fault
    /\ lost' = lost \cup (hand[w] \cap Rows)
    /\ Turn(w, "fail", {})
    /\ UNCHANGED <<requests, buffer, queue, stored, unsure>>

(* createMany commits, and the connection drops before the worker knows. *)
PersistUnsure(w) ==
    /\ wpc[w] = "persist"
    /\ Fault
    /\ Insert(hand[w])
    /\ unsure' = IF wjob[w] = "bulk" THEN unsure + 1 ELSE unsure
    /\ Turn(w, "fail", {})
    /\ UNCHANGED <<requests, buffer, queue, lost>>

(* BullMQ finds a job stalled and hands it out again, or fails it. *)
GiveAway(j) ==
    IF j \in Kept THEN \E s \in {"waiting", "failed"} : job' = [job EXCEPT ![j] = s]
    ELSE UNCHANGED job

(* The process dies, or the Redis command that was to complete or to fail  *)
(* its job is lost.                                                        *)
Die(w) ==
    /\ wpc[w] # "idle"
    /\ Fault
    /\ lost' = lost \cup (hand[w] \cap Rows)
    /\ unsure' = IF wjob[w] = "bulk" /\ wpc[w] = "finish" THEN unsure + 1 ELSE unsure
    /\ Rest(w)
    /\ GiveAway(wjob[w])
    /\ UNCHANGED <<requests, buffer, tries, imported, stored>>

(* A live worker does not renew the lock of its job in time: the job is    *)
(* given away, and the worker goes on with its run.                        *)
Stall(w) ==
    /\ wjob[w] \in Kept
    /\ Fault
    /\ unsure' = IF wjob[w] = "bulk" /\ wpc[w] # "fail" THEN unsure + 1 ELSE unsure
    /\ wjob' = [wjob EXCEPT ![w] = Stalled]
    /\ GiveAway(wjob[w])
    /\ UNCHANGED <<requests, buffer, tries, imported, wpc, hand, stored, lost>>

-------------------------------------------------------------------------------
Request(r) == Length(r) \/ AddFlush(r)

Work(w) ==
    \/ \E j \in Job : Take(w, j)
    \/ \E S \in SUBSET buffer : Drain(w, S)
    \/ DrainEmpty(w) \/ Persist(w) \/ Complete(w) \/ Fail(w)

Trouble ==
    \/ \E r \in Rows : RecordFails(r) \/ EnqueueFails(r)
    \/ \E w \in Workers :
          \/ \E S \in SUBSET buffer : DrainFails(w, S)
          \/ PersistFails(w) \/ PersistUnsure(w) \/ Die(w) \/ Stall(w)

Next ==
    \/ \E S \in SUBSET Rows : \E r \in S : Record(r, S)
    \/ \E r \in Rows : Request(r)
    \/ ImportBulk \/ Schedule
    \/ \E w \in Workers : Work(w)
    \/ Trouble

Spec == Init /\ [][Next]_vars

(* BullMQ keeps its schedule, and a live worker keeps working. *)
Fairness == WF_vars(Schedule) /\ \A w \in Workers : WF_vars(Work(w))

FairSpec == Spec /\ Fairness

-------------------------------------------------------------------------------
(* A row that was recorded is in exactly one place, and inserted once:     *)
(* instances that flush at the same time, retried jobs and inserts with an *)
(* unknown outcome neither duplicate a row nor make it vanish unnoticed.   *)
EachRowInOnePlace ==
    \A r \in Rows :
        LET holders == {w \in Workers : r \in hand[w]}
            places  == Cardinality(holders) + Cardinality({r} \cap buffer)
                         + Cardinality({r} \cap lost) + stored[r]
        IN places = IF stage[r] = "new" \/ r \in dropped THEN 0 ELSE 1

(* A fault costs at most the one batch a worker had popped: rows left in   *)
(* the list are never lost.                                                *)
FaultLosesOneBatch ==
    Cardinality(lost) <= batchSize * faults

(* An import that has left the queue inserted every row.  A row is there   *)
(* as often as there were runs that BullMQ did not see end well but for    *)
(* one: retries, deaths and stalls between the insert and the completion,  *)
(* or around them, add no other copy.                                      *)
BulkIsComplete ==
    \A b \in BulkRows :
        /\ imported /\ job["bulk"] = "absent" => stored[b] > 0
        /\ stored[b] <= 1 + unsure

(* A row in the list gets to PostgreSQL, or into the hands of a worker     *)
(* that fails: even when the audit-flush id is blocked by a failed job,    *)
(* and for a list that never reaches batchSize.                            *)
RowsLand ==
    \A r \in Rows : r \in buffer ~> (stored[r] > 0 \/ r \in lost)

===============================================================================
