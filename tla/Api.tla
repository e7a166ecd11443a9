--------------------------------- MODULE Api ---------------------------------
(***************************************************************************)
(* The API process (app/core/pipeline.py, app/queue/client.py).  Each      *)
(* inbound message has a background task, MessagePipeline._process, that   *)
(* queues a job and then races the worker: if it sees the result within    *)
(* race_timeout_s it delivers it itself, otherwise it sends an ACK and     *)
(* leaves the result to the ResponseListener, the one task that consumes   *)
(* the pub/sub channel.  Both claim delivered:{job_id} before they send.   *)
(* Jobs of a confirmed action and of the scheduler are queued without a    *)
(* race: only the listener can deliver them.                               *)
(***************************************************************************)
EXTENDS Redis

VARIABLES
  pc,      \* where the pipeline task of the job's message is
  lis,     \* where the listener is with the job; at most one is not idle
  sent,    \* history: how often the final response reached the user
  notice   \* the interim message the pipeline sent: an ACK, an error reply

apiVars == <<pc, lis, sent, notice>>

PipelineStates ==
  {"idle", "racing", "claiming", "sending", "acknowledging", "done"}

ApiTypeOK ==
  /\ pc \in [Job -> PipelineStates]
  /\ lis \in [Job -> {"idle", "claimed", "sending"}]
  /\ sent \in [Job -> Nat]
  /\ notice \in [Job -> {"none", "ack", "error"}]

ApiInit ==
  /\ pc = [j \in Job |-> "idle"]
  /\ lis = [j \in Job |-> "idle"]
  /\ sent = [j \in Job |-> 0]
  /\ notice = [j \in Job |-> "none"]

Goto(j, from, to) ==
  /\ pc[j] = from
  /\ pc' = [pc EXCEPT ![j] = to]

ListenerIdle == \A j \in Job : lis[j] = "idle"

------------------------------------------------------------------------------
(* Producers. *)

(* The pipeline queues the message's job and starts the race. *)
PushMessage(j) ==
  /\ XAdd(j, "message")
  /\ Goto(j, "idle", "racing")
  /\ UNCHANGED <<lis, sent, notice, resultVars, lockTTL, pubsubVars, faults>>

(* A "yes" queues the confirmed action, the scheduler a proactive job: the *)
(* producer does not wait for the result.                                  *)
PushOther(j) ==
  /\ \E k \in Kinds \ {"message"} : XAdd(j, k)
  /\ UNCHANGED <<apiVars, resultVars, lockTTL, pubsubVars, faults>>

------------------------------------------------------------------------------
(* The race (MessagePipeline._process after push_job). *)

(* wait_for_result polled the key while it existed. *)
RaceSeesResult(j) ==
  /\ HasResult(j)
  /\ Goto(j, "racing", "claiming")
  /\ UNCHANGED <<lis, sent, notice, redisVars>>

(* Mutant: the race checks the lock but does not take it. *)
RaceWins_NoLock(j) ==
  /\ ClaimFree(j)
  /\ Goto(j, "claiming", "sending")
  /\ UNCHANGED <<lis, sent, notice, redisVars>>

RaceWins(j) ==
  /\ ClaimFree(j)
  /\ Goto(j, "claiming", "sending")
  /\ Claim(j)
  /\ UNCHANGED <<lis, sent, notice, queueVars, resultVars, pubsubVars, faults>>

RaceLosesClaim(j) ==
  /\ ~ClaimFree(j)
  /\ Goto(j, "claiming", "done")
  /\ UNCHANGED <<lis, sent, notice, redisVars>>

(* channel.send, which reports a failure only by the value the pipeline    *)
(* ignores; the message is stored as delivered in either case.             *)
RaceSends(j) ==
  /\ Goto(j, "sending", "done")
  /\ sent' = [sent EXCEPT ![j] = @ + 1]
  /\ UNCHANGED <<lis, notice, redisVars>>

RaceSendFails(j) ==
  /\ Fault("send")
  /\ Goto(j, "sending", "done")
  /\ missed' = missed \cup {j}
  /\ UNCHANGED <<lis, sent, notice, queueVars, resultVars, lockTTL,
                 link, inbox, published>>

(* The text of the result is empty: the claim is taken, nothing is sent,   *)
(* and the ACK that was being prepared is cancelled.                       *)
RaceDrops(j) ==
  /\ Fault("malformed")
  /\ Goto(j, "sending", "done")
  /\ missed' = missed \cup {j}
  /\ UNCHANGED <<lis, sent, notice, queueVars, resultVars, lockTTL,
                 link, inbox, published>>

(* No poll found the result before the deadline; the last poll may be a    *)
(* whole poll interval old.                                                *)
RaceTimesOut(j) ==
  /\ Goto(j, "racing", "acknowledging")
  /\ UNCHANGED <<lis, sent, notice, redisVars>>

(* The ACK text is ready (an LLM call of up to 0.9 s) and is sent. *)
SendAck(j) ==
  /\ Goto(j, "acknowledging", "done")
  /\ notice' = [notice EXCEPT ![j] = "ack"]
  /\ UNCHANGED <<lis, sent, redisVars>>

(* A Redis call of the race raises: the route's handler sends error_reply. *)
(* A claim may have been taken although its caller never knew.             *)
RaceFails(j) ==
  /\ Fault("redis")
  /\ \/ pc[j] \in {"racing", "claiming"} /\ UNCHANGED <<lockTTL, missed>>
     \/ pc[j] = "claiming" /\ ClaimFree(j) /\ Claim(j) /\ missed' = missed \cup {j}
  /\ pc' = [pc EXCEPT ![j] = "done"]
  /\ notice' = [notice EXCEPT ![j] = "error"]
  /\ UNCHANGED <<lis, sent, queueVars, resultVars, link, inbox, published>>

------------------------------------------------------------------------------
(* The listener: ResponseListener.start and _deliver.  It handles one      *)
(* announcement at a time.                                                 *)

Subscribe ==
  /\ link = "down" /\ ListenerIdle
  /\ link' = "up"
  /\ UNCHANGED <<apiVars, queueVars, resultVars, lockTTL, inbox, published,
                 missed, faults>>

(* The connection drops; what it had not handed over is gone, and so is    *)
(* everything published until the next Subscribe.                          *)
Disconnect ==
  /\ link = "up"
  /\ Fault("disconnect")
  /\ link' = "down"
  /\ inbox' = <<>>
  /\ missed' = missed \cup Unheard
  /\ UNCHANGED <<apiVars, queueVars, resultVars, lockTTL, published>>

TakeAnnouncement(j) ==
  /\ ListenerIdle
  /\ inbox # <<>> /\ j = Head(inbox)
  /\ inbox' = Tail(inbox)
  /\ UNCHANGED <<link, published>>

(* Mutant: the listener does not look whether the race was faster. *)
ListenerClaims_Unchecked(j) ==
  /\ TakeAnnouncement(j)
  /\ Claim(j)
  /\ lis' = [lis EXCEPT ![j] = "claimed"]
  /\ UNCHANGED <<pc, sent, notice, queueVars, resultVars, missed, faults>>

ListenerClaims(j) ==
  /\ TakeAnnouncement(j)
  /\ ClaimFree(j)
  /\ Claim(j)
  /\ lis' = [lis EXCEPT ![j] = "claimed"]
  /\ UNCHANGED <<pc, sent, notice, queueVars, resultVars, missed, faults>>

(* Mutant: the listener leaves the job to a race that still goes on. *)
ListenerSkips_WhileRacing(j) ==
  /\ TakeAnnouncement(j)
  /\ ~ClaimFree(j) \/ pc[j] = "racing"
  /\ UNCHANGED <<apiVars, queueVars, resultVars, lockTTL, missed, faults>>

ListenerSkips(j) ==
  /\ TakeAnnouncement(j)
  /\ ~ClaimFree(j)
  /\ UNCHANGED <<apiVars, queueVars, resultVars, lockTTL, missed, faults>>

ListenerGets(j) ==
  /\ lis[j] = "claimed"
  /\ lis' = [lis EXCEPT ![j] = IF HasResult(j) THEN "sending" ELSE "idle"]
  /\ UNCHANGED <<pc, sent, notice, redisVars>>

(* _deliver has the claim and the result, and returns: the result has no   *)
(* address or no text, or names a channel the API does not have.           *)
ListenerDrops(j) ==
  /\ Fault("malformed")
  /\ lis[j] = "claimed" /\ HasResult(j)
  /\ lis' = [lis EXCEPT ![j] = "idle"]
  /\ missed' = missed \cup {j}
  /\ UNCHANGED <<pc, sent, notice, queueVars, resultVars, lockTTL,
                 link, inbox, published>>

ListenerSends(j) ==
  /\ lis[j] = "sending"
  /\ lis' = [lis EXCEPT ![j] = "idle"]
  /\ sent' = [sent EXCEPT ![j] = @ + 1]
  /\ UNCHANGED <<pc, notice, redisVars>>

ListenerSendFails(j) ==
  /\ Fault("send")
  /\ lis[j] = "sending"
  /\ lis' = [lis EXCEPT ![j] = "idle"]
  /\ missed' = missed \cup {j}
  /\ UNCHANGED <<pc, sent, notice, queueVars, resultVars, lockTTL,
                 link, inbox, published>>

(* The claim or the GET of _deliver raises: start() logs it and goes on.   *)
ListenerFails(j) ==
  /\ Fault("redis")
  /\ \/ /\ TakeAnnouncement(j)
        /\ UNCHANGED lockTTL \/ (ClaimFree(j) /\ Claim(j))
        /\ UNCHANGED lis
     \/ /\ lis[j] = "claimed"
        /\ lis' = [lis EXCEPT ![j] = "idle"]
        /\ UNCHANGED <<lockTTL, link, inbox, published>>
  /\ missed' = missed \cup {j}
  /\ UNCHANGED <<pc, sent, notice, queueVars, resultVars>>

------------------------------------------------------------------------------
(* The process crashes or is redeployed: every background task is gone,    *)
(* with whatever it had claimed.                                           *)
ApiCrash ==
  /\ Fault("api crash")
  /\ pc' = [j \in Job |-> IF pc[j] = "idle" THEN "idle" ELSE "done"]
  /\ lis' = [j \in Job |-> "idle"]
  /\ link' = "down"
  /\ inbox' = <<>>
  /\ missed' = missed \cup Unheard
                     \cup {j \in Job : pc[j] = "sending" \/ lis[j] # "idle"}
  /\ UNCHANGED <<sent, notice, queueVars, resultVars, lockTTL, published>>

Push == \E j \in Job : PushMessage(j) \/ PushOther(j)

PipelineStep(j) ==
  \/ RaceSeesResult(j) \/ RaceTimesOut(j)
  \/ RaceWins(j) \/ RaceLosesClaim(j)
  \/ RaceSends(j) \/ SendAck(j)

ListenerStep ==
  \E j \in Job :
    \/ ListenerClaims(j) \/ ListenerSkips(j)
    \/ ListenerGets(j) \/ ListenerSends(j)

ApiFault ==
  \/ Disconnect \/ ApiCrash
  \/ \E j \in Job : \/ RaceFails(j) \/ RaceSendFails(j) \/ RaceDrops(j)
                    \/ ListenerFails(j) \/ ListenerSendFails(j) \/ ListenerDrops(j)

ApiNext ==
  \/ Push
  \/ \E j \in Job : PipelineStep(j)
  \/ Subscribe
  \/ ListenerStep
  \/ ApiFault

(* No claim is being turned into a message.  The race lasts 8 s, the ACK   *)
(* 0.9 s, a delivery one HTTP call: against a tick of half a TTL (150 s)   *)
(* the clock does not move during any of them.                             *)
Prompt ==
  /\ ListenerIdle
  /\ \A j \in Job : pc[j] \in {"idle", "done"}
==============================================================================
