-------------------------------- MODULE Redis --------------------------------
(***************************************************************************)
(* The Redis server as the API process and the worker process use it: the  *)
(* job stream with its one consumer group, the result:{job_id} keys, the   *)
(* delivered:{job_id} delivery locks and the pub/sub channel on which the  *)
(* worker announces finished jobs.  Every operator below is one Redis      *)
(* command, atomic at the server; the modules Worker and Api say when each *)
(* process issues it.                                                      *)
(*                                                                         *)
(* Keys expire.  Both TTLs in the code are 300 s; here a key lives for TTL *)
(* ticks of a coarse clock, and a key whose counter is 0 does not exist.   *)
(***************************************************************************)
EXTENDS Naturals, Sequences, FiniteSets

CONSTANTS
  Job,        \* the jobs that may be queued; a job is its uuid job_id
  TTL,        \* life of result: and delivered: keys, in clock ticks
  Faults,     \* the kinds of fault this instance may suffer
  MaxFaults   \* bound on the number of faults in one behaviour

ASSUME TTLAssumption == TTL \in Nat \ {0}
ASSUME MaxFaultsAssumption == MaxFaults \in Nat

VARIABLES
  kind,        \* who queued the job: the payload fields source and confirmed_action
  stream,      \* stream entries the group has not read yet, oldest first
  pel,         \* the group's pending entries list: read, not XACKed
  resultTTL,   \* remaining life of result:{job_id}
  lockTTL,     \* remaining life of delivered:{job_id}
  link,        \* the listener's subscription: "up" while it hears the channel
  inbox,       \* announcements the listener's connection has not consumed
  stored,      \* history: how often a result was stored for the job
  published,   \* history: the jobs announced at least once
  missed,      \* history: the jobs one of whose announcements or claims was wasted:
               \* unheard, unread in time, failed, or spent on a malformed result
  faults       \* number of faults so far

queueVars  == <<kind, stream, pel>>
resultVars == <<resultTTL, stored>>
pubsubVars == <<link, inbox, published, missed>>
redisVars  == <<queueVars, resultVars, lockTTL, pubsubVars, faults>>

(* "message": an inbound user message; "confirmed": a pending action the   *)
(* user said yes to; "scheduled": a proactive job from the scheduler.      *)
Kinds == {"message", "confirmed", "scheduled"}

RedisTypeOK ==
  /\ kind \in [Job -> Kinds \cup {"none"}]
  /\ stream \in Seq(Job)
  /\ pel \subseteq Job
  /\ resultTTL \in [Job -> 0..TTL]
  /\ lockTTL \in [Job -> 0..TTL]
  /\ link \in {"up", "down"}
  /\ inbox \in Seq(Job)
  /\ stored \in [Job -> Nat]
  /\ published \subseteq Job
  /\ missed \subseteq Job
  /\ faults \in 0..MaxFaults

RedisInit ==
  /\ kind = [j \in Job |-> "none"]
  /\ stream = <<>>
  /\ pel = {}
  /\ resultTTL = [j \in Job |-> 0]
  /\ lockTTL = [j \in Job |-> 0]
  /\ link = "down"
  /\ inbox = <<>>
  /\ stored = [j \in Job |-> 0]
  /\ published = {}
  /\ missed = {}
  /\ faults = 0

(* A fault of kind k strikes now. *)
Fault(k) ==
  /\ k \in Faults
  /\ faults < MaxFaults
  /\ faults' = faults + 1

------------------------------------------------------------------------------
(* XADD of a new job by its producer. *)
XAdd(j, k) ==
  /\ kind[j] = "none"
  /\ kind' = [kind EXCEPT ![j] = k]
  /\ stream' = Append(stream, j)
  /\ pel' = pel

(* Mutants of XReadNew: the group's cursor does not move; with NOACK, the  *)
(* entry never becomes pending.                                            *)
XReadNew_CursorStays ==
  /\ stream # <<>>
  /\ pel' = pel \cup {Head(stream)}
  /\ UNCHANGED <<stream, kind>>

XReadNew_NoAck ==
  /\ stream # <<>>
  /\ pel' = pel
  /\ stream' = Tail(stream)
  /\ kind' = kind

(* XREADGROUP ">": the oldest unread entry becomes pending. *)
XReadNew ==
  /\ stream # <<>>
  /\ pel' = pel \cup {Head(stream)}
  /\ stream' = Tail(stream)
  /\ kind' = kind

XAck(j) ==
  /\ pel' = pel \ {j}
  /\ UNCHANGED <<kind, stream>>

(* Mutant: the result key outlives the delivery lock. *)
Setex_LongResult(j) ==
  /\ resultTTL' = [resultTTL EXCEPT ![j] = TTL + 1]
  /\ stored' = [stored EXCEPT ![j] = @ + 1]

(* SETEX result:{job_id}: replaces any older result and restarts its life. *)
Setex(j) ==
  /\ resultTTL' = [resultTTL EXCEPT ![j] = TTL]
  /\ stored' = [stored EXCEPT ![j] = @ + 1]

HasResult(j) == resultTTL[j] > 0

(* PUBLISH: heard only by a connection that is subscribed at that moment. *)
Publish(j) ==
  /\ inbox' = IF link = "up" THEN Append(inbox, j) ELSE inbox
  /\ published' = published \cup {j}
  /\ missed' = IF link = "up" THEN missed ELSE missed \cup {j}
  /\ link' = link

(* What was announced and not consumed yet. *)
Unheard == {inbox[i] : i \in 1..Len(inbox)}

(* SET delivered:{job_id} NX: whether it will succeed, and its effect. *)
ClaimFree(j) == lockTTL[j] = 0
Claim(j) == lockTTL' = [lockTTL EXCEPT ![j] = TTL]

(* Mutant: an expired key goes on ageing. *)
Older_NoFloor(ttl) == [j \in Job |-> ttl[j] - 1]

(* One tick of the clock: every live key is a tick closer to its end. *)
Older(ttl) == [j \in Job |-> IF ttl[j] > 0 THEN ttl[j] - 1 ELSE 0]

ExpireKeys ==
  /\ \E j \in Job : resultTTL[j] > 0 \/ lockTTL[j] > 0
  /\ resultTTL' = Older(resultTTL)
  /\ lockTTL' = Older(lockTTL)
  /\ missed' = missed \cup {j \in Job : resultTTL[j] = 1}
  /\ UNCHANGED <<queueVars, stored, link, inbox, published, faults>>
==============================================================================
