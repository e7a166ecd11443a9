-------------------------------- MODULE Worker --------------------------------
(***************************************************************************)
(* The worker process (app/queue/worker.py): it reads the job stream, runs *)
(* one asyncio task per entry under a semaphore, stores and announces the  *)
(* result, and XACKs the entry only when the result (or a fallback) went   *)
(* out.  On start it drains the entries a former run left pending, one     *)
(* after the other, before it reads new ones.                              *)
(***************************************************************************)
EXTENDS Redis

CONSTANTS
  MaxConcurrency,  \* _MAX_CONCURRENCY
  DrainBatch       \* count= of the drain's XREADGROUP

ASSUME ConcurrencyAssumption == MaxConcurrency \in Nat \ {0}
ASSUME DrainBatchAssumption == DrainBatch \in Nat \ {0}

VARIABLES
  phase,     \* the process is down, draining, or consuming new entries
  task,      \* where the job's asyncio task is
  attempt,   \* 1: its own result is being published; 2: the fallback
  batch,     \* rest of the batch the drain read and has not processed
  runReads,  \* history: entries this run of the process read as new
  runs,      \* history: how often the job's handler was started
  silent     \* history: jobs whose handler last ended with no response

workerVars == <<phase, task, attempt, batch, runReads, runs, silent>>

TaskStates ==
  {"none", "waiting", "running", "storing", "announcing", "acking"}

WorkerTypeOK ==
  /\ phase \in {"down", "drain", "consume"}
  /\ task \in [Job -> TaskStates]
  /\ attempt \in [Job -> 1..2]
  /\ batch \subseteq Job
  /\ runReads \subseteq Job
  /\ runs \in [Job -> Nat]
  /\ silent \subseteq Job

WorkerInit ==
  /\ phase = "down"
  /\ task = [j \in Job |-> "none"]
  /\ attempt = [j \in Job |-> 1]
  /\ batch = {}
  /\ runReads = {}
  /\ runs = [j \in Job |-> 0]
  /\ silent = {}

Move(j, from, to) ==
  /\ task[j] = from
  /\ task' = [task EXCEPT ![j] = to]

NoTask == \A j \in Job : task[j] = "none"

(* The tasks that hold the semaphore. *)
Holders == {j \in Job : task[j] \notin {"none", "waiting"}}

------------------------------------------------------------------------------
(* Process life cycle. *)

(* Mutant: a restarted worker goes straight to new entries. *)
WorkerStart_NoDrain ==
  /\ phase = "down"
  /\ phase' = "consume"
  /\ batch' = {}
  /\ UNCHANGED <<task, attempt, runReads, runs, silent, redisVars>>

WorkerStart ==
  /\ phase = "down"
  /\ phase' = "drain"
  /\ batch' = {}
  /\ UNCHANGED <<task, attempt, runReads, runs, silent, redisVars>>

(* A crash, a kill or a redeploy: every task of the process is gone. *)
Die ==
  /\ phase' = "down"
  /\ task' = [j \in Job |-> "none"]
  /\ batch' = {}
  /\ runReads' = {}
  /\ UNCHANGED <<attempt, runs, silent>>

WorkerCrash ==
  /\ phase # "down"
  /\ Fault("worker crash")
  /\ Die
  /\ UNCHANGED <<queueVars, resultVars, lockTTL, pubsubVars>>

------------------------------------------------------------------------------
(* Phase 1: _drain_pending.  XREADGROUP "0" returns up to DrainBatch of    *)
(* the pending entries; each is processed and awaited before the next, and *)
(* the next batch is read when this one is done.                           *)

DrainRead ==
  /\ phase = "drain" /\ NoTask /\ batch = {}
  /\ pel # {}
  /\ \E b \in SUBSET pel :
       /\ Cardinality(b) = DrainBatch \/ (b = pel /\ Cardinality(b) <= DrainBatch)
       /\ batch' = b
  /\ UNCHANGED <<phase, task, attempt, runReads, runs, silent, redisVars>>

DrainNext(j) ==
  /\ phase = "drain" /\ NoTask
  /\ j \in batch
  /\ batch' = batch \ {j}
  /\ Move(j, "none", "waiting")
  /\ UNCHANGED <<phase, attempt, runReads, runs, silent, redisVars>>

(* Mutant: the drain stops after its first batch. *)
DrainDone_FirstBatch ==
  /\ phase = "drain" /\ NoTask /\ batch = {}
  /\ phase' = "consume"
  /\ UNCHANGED <<task, attempt, batch, runReads, runs, silent, redisVars>>

DrainDone ==
  /\ phase = "drain" /\ NoTask /\ batch = {}
  /\ pel = {}
  /\ phase' = "consume"
  /\ UNCHANGED <<task, attempt, batch, runReads, runs, silent, redisVars>>

(* Phase 2: _loop reads one new entry and creates a task for it; tasks are *)
(* created without limit, only the semaphore holds them back.              *)
ReadNew ==
  /\ phase = "consume"
  /\ XReadNew
  /\ Move(Head(stream), "none", "waiting")
  /\ runReads' = runReads \cup {Head(stream)}
  /\ UNCHANGED <<phase, attempt, batch, runs, silent,
                 resultVars, lockTTL, pubsubVars, faults>>

(* The reply of XREADGROUP ">" is lost after the server assigned the entry:*)
(* _loop logs the error and goes on, the entry is pending without a task.  *)
ReadLost ==
  /\ phase = "consume"
  /\ Fault("redis")
  /\ XReadNew
  /\ runReads' = runReads \cup {Head(stream)}
  /\ UNCHANGED <<phase, task, attempt, batch, runs, silent,
                 resultVars, lockTTL, pubsubVars>>

------------------------------------------------------------------------------
(* _process_and_ack and _process. *)

StartJob(j) ==
  /\ Cardinality(Holders) < MaxConcurrency
  /\ Move(j, "waiting", "running")
  /\ attempt' = [attempt EXCEPT ![j] = 1]
  /\ runs' = [runs EXCEPT ![j] = @ + 1]
  /\ silent' = silent \ {j}
  /\ UNCHANGED <<phase, batch, runReads, redisVars>>

(* The handler returned a response, or route_job raised and _process made  *)
(* an error response of it: there is something to publish.                 *)
HandlerResponds(j) ==
  /\ Move(j, "running", "storing")
  /\ UNCHANGED <<phase, attempt, batch, runReads, runs, silent, redisVars>>

(* A proactive handler skipped, or raised: the response is empty, nothing  *)
(* is published and the job counts as published all the same.              *)
HandlerSilent(j) ==
  /\ kind[j] = "scheduled"
  /\ Move(j, "running", "acking")
  /\ silent' = silent \cup {j}
  /\ UNCHANGED <<phase, attempt, batch, runReads, runs, redisVars>>

(* The 120 s limit ends the handler; the fallback is published instead. *)
JobTimeout(j) ==
  /\ Fault("timeout")
  /\ Move(j, "running", "storing")
  /\ attempt' = [attempt EXCEPT ![j] = 2]
  /\ UNCHANGED <<phase, batch, runReads, runs, silent,
                 queueVars, resultVars, lockTTL, pubsubVars>>

StoreResult(j) ==
  /\ Move(j, "storing", "announcing")
  /\ Setex(j)
  /\ UNCHANGED <<phase, attempt, batch, runReads, runs, silent,
                 queueVars, lockTTL, pubsubVars, faults>>

Announce(j) ==
  /\ Move(j, "announcing", "acking")
  /\ Publish(j)
  /\ UNCHANGED <<phase, attempt, batch, runReads, runs, silent,
                 queueVars, resultVars, lockTTL, faults>>

(* Mutant: the entry is XACKed although even the fallback failed. *)
PublishFails_AcksAnyway(j) ==
  /\ Fault("redis")
  /\ task[j] \in {"storing", "announcing"}
  /\ task' = [task EXCEPT ![j] = IF attempt[j] = 1 THEN "storing" ELSE "acking"]
  /\ attempt' = [attempt EXCEPT ![j] = 2]
  /\ UNCHANGED <<phase, batch, runReads, runs, silent,
                 queueVars, resultVars, lockTTL, pubsubVars>>

(* SETEX or PUBLISH raises (connection error, the 5 s limit of the command,*)
(* or the 120 s limit of the job).  The command may have taken effect.     *)
(* The first time the fallback is tried; the second time the task gives up *)
(* and leaves the entry pending.                                           *)
PublishFails(j) ==
  /\ Fault("redis")
  /\ \/ /\ task[j] = "storing"
        /\ Setex(j) \/ UNCHANGED resultVars
        /\ UNCHANGED pubsubVars
     \/ /\ task[j] = "announcing"
        /\ Publish(j) \/ UNCHANGED pubsubVars
        /\ UNCHANGED resultVars
  /\ task' = [task EXCEPT ![j] = IF attempt[j] = 1 THEN "storing" ELSE "none"]
  /\ attempt' = [attempt EXCEPT ![j] = 2]
  /\ UNCHANGED <<phase, batch, runReads, runs, silent, queueVars, lockTTL>>

Acknowledge(j) ==
  /\ Move(j, "acking", "none")
  /\ XAck(j)
  /\ UNCHANGED <<phase, attempt, batch, runReads, runs, silent,
                 resultVars, lockTTL, pubsubVars, faults>>

(* XACK raises, applied or not.  In a task of its own the exception ends   *)
(* the task; in the drain it ends the process.                             *)
AckFails(j) ==
  /\ Fault("redis")
  /\ task[j] = "acking"
  /\ XAck(j) \/ UNCHANGED queueVars
  /\ \/ /\ phase = "consume"
        /\ task' = [task EXCEPT ![j] = "none"]
        /\ UNCHANGED <<phase, attempt, batch, runReads, runs, silent>>
     \/ /\ phase = "drain"
        /\ Die
  /\ UNCHANGED <<resultVars, lockTTL, pubsubVars>>

------------------------------------------------------------------------------
(* The steps of one job's task, and of the process's own loop. *)
TaskStep(j) ==
  \/ StartJob(j)
  \/ HandlerResponds(j) \/ HandlerSilent(j)
  \/ StoreResult(j) \/ Announce(j) \/ Acknowledge(j)

LoopStep ==
  \/ DrainRead \/ DrainDone \/ ReadNew
  \/ \E j \in Job : DrainNext(j)

WorkerFault ==
  \/ WorkerCrash \/ ReadLost
  \/ \E j \in Job : JobTimeout(j) \/ PublishFails(j) \/ AckFails(j)

WorkerNext ==
  \/ WorkerStart
  \/ LoopStep
  \/ \E j \in Job : TaskStep(j)
  \/ WorkerFault
===============================================================================
