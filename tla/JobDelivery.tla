----------------------------- MODULE JobDelivery -----------------------------
(***************************************************************************)
(* The job path end to end: the API process and the worker process, joined *)
(* by Redis.  A step is a step of one process or of the clock.             *)
(***************************************************************************)
EXTENDS Api, Worker

vars == <<redisVars, apiVars, workerVars>>

Init == RedisInit /\ ApiInit /\ WorkerInit

(* Half a key's life passes while some step is late.  An instance without  *)
(* "delay" is one whose behaviours fit into that time.                     *)
Tick ==
  /\ "delay" \in Faults
  /\ Prompt
  /\ ExpireKeys
  /\ UNCHANGED <<apiVars, workerVars>>

Next ==
  \/ ApiNext /\ UNCHANGED workerVars
  \/ WorkerNext /\ UNCHANGED apiVars
  \/ Tick

Spec == Init /\ [][Next]_vars

(* Both processes are always running again some time after a crash (the    *)
(* container restarts), a task that can go on does, and the listener       *)
(* reconnects (start() loops with a 2 s pause).  Nothing forces a user to  *)
(* write, a fault to strike or the clock to move.                          *)
Fairness ==
  /\ WF_vars(WorkerStart /\ UNCHANGED apiVars)
  /\ WF_vars(LoopStep /\ UNCHANGED apiVars)
  /\ \A j \in Job : WF_vars(TaskStep(j) /\ UNCHANGED apiVars)
  /\ \A j \in Job : WF_vars(PipelineStep(j) /\ UNCHANGED workerVars)
  /\ WF_vars(Subscribe /\ UNCHANGED workerVars)
  /\ WF_vars(ListenerStep /\ UNCHANGED workerVars)

FairSpec == Spec /\ Fairness

TypeOK == RedisTypeOK /\ ApiTypeOK /\ WorkerTypeOK

------------------------------------------------------------------------------
(* Final responses of j that are claimed and about to be sent. *)
InFlight(j) ==
  (IF pc[j] = "sending" THEN 1 ELSE 0) + (IF lis[j] = "sending" THEN 1 ELSE 0)

(* A claim of the listener that is still to be matched with the result. *)
OpenClaim(j) == IF lis[j] = "claimed" /\ HasResult(j) THEN 1 ELSE 0

(* A result that outlives its lock can be claimed once more. *)
Claimable(j) == IF resultTTL[j] > lockTTL[j] THEN 1 ELSE 0

(* The job's entry has not been read yet. *)
Queued(j) == \E i \in 1..Len(stream) : stream[i] = j

(* The job was announced, or its proactive handler had nothing to say.     *)
Served(j) == j \in published \/ (kind[j] = "scheduled" /\ j \in silent)

(* Every final response the user gets for a job is backed by a result the  *)
(* worker stored for it, each result by at most one response: the race     *)
(* path and the listener never both deliver the same one, and a lock that  *)
(* expires never lets an old result out a second time.                     *)
(* (QueueClient.claim_delivery against its two callers.)                   *)
OneAnswerPerResult == \A j \in Job : sent[j] <= stored[j]

(* A job that was announced is answered, or its answer is coming: a claim  *)
(* is being turned into a message, or the announcement waits for the       *)
(* listener, with the result there and nobody in the way. Whoever comes    *)
(* second finds the lock taken and gives up, so one of them must go on;    *)
(* only a waste excuses both: an announcement nobody heard or that came    *)
(* after the result's end, a claim that failed or whose result could not   *)
(* be sent (no address, no text, no such channel). (_process after         *)
(* push_job against _deliver.)                                             *)
Coming(j) ==
  \/ pc[j] = "sending" \/ lis[j] = "sending"
  \/ lis[j] = "claimed" /\ HasResult(j)
  \/ j \in Unheard /\ HasResult(j) /\ ClaimFree(j)

AnnouncedIsAnswered == \A j \in published \ missed : sent[j] > 0 \/ Coming(j)

(* An entry that has left the stream and the pending list was announced to *)
(* the API, or its proactive handler had nothing to say: XACK never        *)
(* discards a job that was not answered. (_process_and_ack's "published".) *)
AckedWasPublished ==
  \A j \in Job : kind[j] = "none" \/ Queued(j) \/ j \in pel \/ Served(j)

(* While the worker consumes new entries, everything pending was read by   *)
(* this very run: the drain leaves no entry of a former run behind, however*)
(* many batches it takes. (_drain_pending before the ">" loop.)            *)
DrainLeavesNothing == phase = "consume" => pel \subseteq runReads

(* A job's handler is started again only by the drain of a restarted       *)
(* worker: a worker that keeps running never executes an entry twice.      *)
RerunOnlyInDrain ==
  [][\A j \in Job : runs[j] > 0 /\ runs'[j] > runs[j] => phase = "drain"]_vars

(* The bookkeeping that makes OneAnswerPerResult inductive.  Every stored  *)
(* result is used at most once, counting the responses on their way and    *)
(* the uses still open; whoever holds a claim holds a lock that is as young*)
(* as it can be; the two paths are never both about to send; and a result  *)
(* the race has seen is still there when it claims.                        *)
DeliveryOf(j) ==
  /\ sent[j] + InFlight(j) + OpenClaim(j) + Claimable(j) <= stored[j]
  /\ pc[j] = "sending" \/ lis[j] # "idle" => lockTTL[j] = TTL
  /\ pc[j] = "sending" => lis[j] = "idle"
  /\ pc[j] = "claiming" => HasResult(j)

DeliveryInv == \A j \in Job : DeliveryOf(j)

(* The bookkeeping of the stream: an entry is in one place, a task belongs *)
(* to a pending entry the drain is not also holding back, and only a job   *)
(* that was announced, or had nothing to say, is about to be XACKed.       *)
StreamOf(j) ==
  /\ Queued(j) => j \notin pel /\ runs[j] = 0 /\ kind[j] # "none"
  /\ kind[j] = "none" => j \notin pel /\ runs[j] = 0
  /\ task[j] # "none" => j \in pel /\ j \notin batch
  /\ task[j] = "acking" => Served(j)
  /\ task[j] = "waiting" /\ phase = "consume" => runs[j] = 0

StreamInv ==
  /\ batch \subseteq pel
  /\ phase # "drain" => batch = {}
  /\ phase = "down" => NoTask
  /\ \A i, k \in 1..Len(stream) : stream[i] = stream[k] => i = k
  /\ \A j \in Job : StreamOf(j)

------------------------------------------------------------------------------
(* The user gets at most one answer of a job per delivery-lock window, and *)
(* each from a result of its own: the job path implements AnswerWindow,    *)
(* where a claim counts as quiet time only once it is spent.               *)
Spent(j) == pc[j] # "sending" /\ lis[j] = "idle"

Quiet == [j \in Job |-> IF Spent(j) THEN lockTTL[j] ELSE 0]

Promise == INSTANCE AnswerWindow WITH
  results <- stored, answers <- sent, quiet <- Quiet

AnswersSpaced == Promise!Spec

------------------------------------------------------------------------------
(* A message queued while the listener is subscribed is answered, even if  *)
(* the worker crashes at any step of the job: the entry stays pending and  *)
(* the next drain runs it. (At-least-once across worker restarts; the      *)
(* instance supposes that its handler's text is not empty.)                *)
MessageAnswered ==
  \A j \in Job :
    (kind[j] = "message" /\ link = "up" /\ j \notin published) ~> sent[j] > 0

(* Entries pending when a run of the worker starts are cleared by its      *)
(* drain, unless that run ends too.                                        *)
DrainClears ==
  \A j \in Job : (phase = "drain" /\ j \in pel) ~> (j \notin pel \/ phase = "down")

------------------------------------------------------------------------------
(* A statement of the repository's text that the code does not keep.       *)

(* docs/blog.md:124: after the ACK the final response is delivered later by*)
(* the ResponseListener.                                                   *)
AckedIsAnswered == \A j \in Job : notice[j] = "ack" ~> sent[j] > 0
==============================================================================
