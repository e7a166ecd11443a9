------------------------- MODULE JobDelivery_proofs -------------------------
(***************************************************************************)
(* Theorems about JobDelivery, for every set of jobs, every TTL, every     *)
(* concurrency limit and every bound on faults.                            *)
(***************************************************************************)
EXTENDS JobDelivery, TLAPS

USE TTLAssumption, MaxFaultsAssumption
    DEF TTLAssumption, MaxFaultsAssumption, Kinds, TaskStates, PipelineStates

------------------------------------------------------------------------------
(* What a step of the worker does to the variables the delivery depends on.*)

(* The lock keys are not the worker's, and a result is written by SETEX.   *)
LEMMA WorkerFrame ==
  ASSUME WorkerNext
  PROVE  /\ lockTTL' = lockTTL
         /\ resultVars' = resultVars \/ \E j \in Job : Setex(j)
<1> USE DEF redisVars, queueVars, resultVars, pubsubVars
<1>1. CASE WorkerStart
  BY <1>1 DEF WorkerStart
<1>2. CASE LoopStep
  BY <1>2 DEF LoopStep, DrainRead, DrainDone, ReadNew, DrainNext
<1>3. ASSUME NEW j \in Job, TaskStep(j)
      PROVE  /\ lockTTL' = lockTTL
             /\ resultVars' = resultVars \/ \E k \in Job : Setex(k)
  BY <1>3 DEF TaskStep, StartJob, HandlerResponds, HandlerSilent, StoreResult,
              Announce, Acknowledge
<1>4. CASE WorkerFault
  <2>1. CASE WorkerCrash
    BY <2>1 DEF WorkerCrash
  <2>2. CASE ReadLost
    BY <2>2 DEF ReadLost
  <2>3. ASSUME NEW j \in Job, JobTimeout(j) \/ PublishFails(j) \/ AckFails(j)
        PROVE  /\ lockTTL' = lockTTL
               /\ resultVars' = resultVars \/ \E k \in Job : Setex(k)
    BY <2>3 DEF JobTimeout, PublishFails, AckFails
  <2> QED BY <1>4, <2>1, <2>2, <2>3 DEF WorkerFault
<1> QED BY <1>1, <1>2, <1>3, <1>4 DEF WorkerNext

------------------------------------------------------------------------------
(* Type correctness. *)

LEMMA InitTypeOK == Init => TypeOK
BY DEF Init, RedisInit, ApiInit, WorkerInit, TypeOK, RedisTypeOK, ApiTypeOK,
       WorkerTypeOK

(* What XREADGROUP returns is a job. *)
LEMMA ReadType ==
  ASSUME TypeOK, XReadNew
  PROVE  /\ Head(stream) \in Job
         /\ stream' \in Seq(Job)
         /\ pel' \subseteq Job
BY DEF TypeOK, RedisTypeOK, XReadNew

LEMMA FaultType ==
  ASSUME faults \in 0..MaxFaults, NEW k, Fault(k)
  PROVE  faults' \in 0..MaxFaults
BY DEF Fault

(* What the listener's connection holds are announcements of jobs.         *)
LEMMA UnheardType ==
  ASSUME inbox \in Seq(Job)
  PROVE  Unheard \subseteq Job
BY DEF Unheard

LEMMA WorkerTypes ==
  ASSUME TypeOK, WorkerNext, UNCHANGED apiVars
  PROVE  TypeOK'
<1> USE DEF TypeOK, RedisTypeOK, ApiTypeOK, WorkerTypeOK, redisVars, queueVars,
        resultVars, pubsubVars, apiVars
<1>1. CASE WorkerStart
  BY <1>1 DEF WorkerStart
<1>2. CASE LoopStep
  <2>1. CASE DrainRead
    BY <2>1 DEF DrainRead
  <2>2. CASE DrainDone
    BY <2>2 DEF DrainDone
  <2>3. CASE ReadNew
    BY <2>3, ReadType DEF ReadNew, XReadNew, Move
  <2>4. ASSUME NEW j \in Job, DrainNext(j) PROVE TypeOK'
    BY <2>4 DEF DrainNext, Move
  <2> QED BY <1>2, <2>1, <2>2, <2>3, <2>4 DEF LoopStep
<1>3. ASSUME NEW j \in Job, TaskStep(j) PROVE TypeOK'
  <2>1. CASE StartJob(j)
    <3>1. task' \in [Job -> TaskStates]
      BY <2>1 DEF StartJob, Move
    <3>2. attempt' \in [Job -> 1..2]
      BY <2>1 DEF StartJob
    <3>3. runs' \in [Job -> Nat]
      BY <2>1 DEF StartJob
    <3>4. silent' \subseteq Job /\ UNCHANGED <<phase, batch, runReads, redisVars>>
      BY <2>1 DEF StartJob
    <3> QED BY <3>1, <3>2, <3>3, <3>4
  <2>2. CASE HandlerResponds(j)
    BY <2>2 DEF HandlerResponds, Move
  <2>3. CASE HandlerSilent(j)
    BY <2>3 DEF HandlerSilent, Move
  <2>4. CASE StoreResult(j)
    <3>1. task' \in [Job -> TaskStates]
      BY <2>4 DEF StoreResult, Move
    <3>2. resultTTL' \in [Job -> 0..TTL]
      BY <2>4 DEF StoreResult, Setex
    <3>3. stored' \in [Job -> Nat]
      BY <2>4 DEF StoreResult, Setex
    <3> QED BY <2>4, <3>1, <3>2, <3>3 DEF StoreResult
  <2>5. CASE Announce(j)
    <3>1. task' \in [Job -> TaskStates]
      BY <2>5 DEF Announce, Move
    <3>2. /\ link' = link /\ inbox' \in Seq(Job)
          /\ published' \subseteq Job /\ missed' \subseteq Job
      BY <2>5 DEF Announce, Publish
    <3> QED BY <2>5, <3>1, <3>2 DEF Announce
  <2>6. CASE Acknowledge(j)
    BY <2>6 DEF Acknowledge, Move, XAck
  <2> QED BY <1>3, <2>1, <2>2, <2>3, <2>4, <2>5, <2>6 DEF TaskStep
<1>4. CASE WorkerFault
  <2>1. CASE WorkerCrash
    BY <2>1, FaultType DEF WorkerCrash, Die
  <2>2. CASE ReadLost
    BY <2>2, ReadType, FaultType DEF ReadLost, XReadNew
  <2>3. ASSUME NEW j \in Job, JobTimeout(j) PROVE TypeOK'
    <3>1. faults' \in 0..MaxFaults
      BY <2>3, FaultType DEF JobTimeout
    <3>2. task' \in [Job -> TaskStates]
      BY <2>3 DEF JobTimeout, Move
    <3>3. attempt' \in [Job -> 1..2]
      BY <2>3 DEF JobTimeout
    <3> QED BY <2>3, <3>1, <3>2, <3>3 DEF JobTimeout
  <2>4. ASSUME NEW j \in Job, PublishFails(j) PROVE TypeOK'
    <3>1. faults' \in 0..MaxFaults
      BY <2>4, FaultType DEF PublishFails
    <3>2. /\ resultTTL' \in [Job -> 0..TTL]
          /\ stored' \in [Job -> Nat]
      <4>1. CASE Setex(j)
        BY <4>1 DEF Setex
      <4> QED BY <2>4, <4>1 DEF PublishFails
    <3>3. /\ link' \in {"up", "down"}
          /\ inbox' \in Seq(Job)
          /\ published' \subseteq Job
          /\ missed' \subseteq Job
      <4>1. CASE Publish(j)
        BY <4>1 DEF Publish
      <4> QED BY <2>4, <4>1 DEF PublishFails
    <3>4. task' \in [Job -> TaskStates]
      <4>1. PICK to \in TaskStates : task' = [task EXCEPT ![j] = to]
        BY <2>4 DEF PublishFails
      <4> QED BY <4>1
    <3>5. attempt' \in [Job -> 1..2]
      BY <2>4 DEF PublishFails
    <3> QED BY <2>4, <3>1, <3>2, <3>3, <3>4, <3>5 DEF PublishFails
  <2>5. ASSUME NEW j \in Job, AckFails(j) PROVE TypeOK'
    <3>1. faults' \in 0..MaxFaults
      BY <2>5, FaultType DEF AckFails
    <3>2. kind' = kind /\ stream' = stream /\ pel' \subseteq Job
      <4>1. XAck(j) \/ UNCHANGED queueVars
        BY <2>5 DEF AckFails
      <4> QED BY <4>1 DEF XAck
    <3>3. WorkerTypeOK'
      <4>1. task' \in [Job -> TaskStates]
        <5>1. CASE Die
          BY <5>1 DEF Die
        <5>2. CASE task' = [task EXCEPT ![j] = "none"]
          BY <5>2
        <5> QED BY <2>5, <5>1, <5>2 DEF AckFails
      <4>2. phase' \in {"down", "drain", "consume"} /\ batch' \subseteq Job
        BY <2>5 DEF AckFails, Die
      <4>3. runReads' \subseteq Job /\ UNCHANGED <<attempt, runs, silent>>
        BY <2>5 DEF AckFails, Die
      <4> QED BY <4>1, <4>2, <4>3
    <3> QED BY <2>5, <3>1, <3>2, <3>3 DEF AckFails
  <2> QED BY <1>4, <2>1, <2>2, <2>3, <2>4, <2>5 DEF WorkerFault
<1> QED BY <1>1, <1>2, <1>3, <1>4 DEF WorkerNext

LEMMA ApiTypes ==
  ASSUME TypeOK, ApiNext, UNCHANGED workerVars
  PROVE  TypeOK'
<1> USE DEF TypeOK, RedisTypeOK, ApiTypeOK, WorkerTypeOK, redisVars, queueVars,
        resultVars, pubsubVars, apiVars, workerVars
<1>1. ASSUME NEW j \in Job, PushMessage(j) PROVE TypeOK'
  <2>1. kind' \in [Job -> Kinds \cup {"none"}] /\ stream' \in Seq(Job)
    BY <1>1 DEF PushMessage, XAdd
  <2>2. pc' \in [Job -> PipelineStates]
    BY <1>1 DEF PushMessage, Goto
  <2> QED BY <1>1, <2>1, <2>2 DEF PushMessage, XAdd
<1>2. ASSUME NEW j \in Job, PushOther(j) PROVE TypeOK'
  <2>1. kind' \in [Job -> Kinds \cup {"none"}] /\ stream' \in Seq(Job)
    BY <1>2 DEF PushOther, XAdd
  <2> QED BY <1>2, <2>1 DEF PushOther, XAdd
<1>3. ASSUME NEW j \in Job, PipelineStep(j) PROVE TypeOK'
  <2>1. CASE RaceSeesResult(j) \/ RaceTimesOut(j) \/ RaceLosesClaim(j)
    <3>1. /\ \E to \in PipelineStates : pc' = [pc EXCEPT ![j] = to]
          /\ UNCHANGED <<lis, sent, notice, redisVars>>
      BY <2>1 DEF RaceSeesResult, RaceTimesOut, RaceLosesClaim, Goto
    <3>2. pc' \in [Job -> PipelineStates]
      BY <3>1
    <3> QED BY <3>1, <3>2
  <2>2. CASE RaceWins(j)
    <3>1. pc' \in [Job -> PipelineStates]
      BY <2>2 DEF RaceWins, Goto
    <3>2. lockTTL' \in [Job -> 0..TTL]
      BY <2>2 DEF RaceWins, Claim
    <3> QED BY <2>2, <3>1, <3>2 DEF RaceWins
  <2>3. CASE RaceSends(j)
    <3>1. pc' \in [Job -> PipelineStates]
      BY <2>3 DEF RaceSends, Goto
    <3>2. sent' \in [Job -> Nat]
      BY <2>3 DEF RaceSends
    <3> QED BY <2>3, <3>1, <3>2 DEF RaceSends
  <2>4. CASE SendAck(j)
    BY <2>4 DEF SendAck, Goto
  <2> QED BY <1>3, <2>1, <2>2, <2>3, <2>4 DEF PipelineStep
<1>4. CASE Subscribe
  BY <1>4 DEF Subscribe
<1>5. ASSUME NEW j \in Job, TakeAnnouncement(j) PROVE inbox' \in Seq(Job)
  BY <1>5 DEF TakeAnnouncement
<1>6. ASSUME NEW j \in Job,
             ListenerClaims(j) \/ ListenerSkips(j) \/ ListenerGets(j) \/ ListenerSends(j)
      PROVE TypeOK'
  <2>1. CASE ListenerClaims(j)
    <3>1. lis' \in [Job -> {"idle", "claimed", "sending"}]
      BY <2>1 DEF ListenerClaims
    <3>2. lockTTL' \in [Job -> 0..TTL]
      BY <2>1 DEF ListenerClaims, Claim
    <3> QED BY <1>5, <2>1, <3>1, <3>2 DEF ListenerClaims, TakeAnnouncement
  <2>2. CASE ListenerSkips(j)
    BY <1>5, <2>2 DEF ListenerSkips, TakeAnnouncement
  <2>3. CASE ListenerGets(j)
    BY <2>3 DEF ListenerGets
  <2>4. CASE ListenerSends(j)
    <3>1. lis' \in [Job -> {"idle", "claimed", "sending"}]
      BY <2>4 DEF ListenerSends
    <3>2. sent' \in [Job -> Nat]
      BY <2>4 DEF ListenerSends
    <3> QED BY <2>4, <3>1, <3>2 DEF ListenerSends
  <2> QED BY <1>6, <2>1, <2>2, <2>3, <2>4
<1>7. CASE Disconnect
  BY <1>7, FaultType, UnheardType DEF Disconnect
<1>8. CASE ApiCrash
  <2>1. faults' \in 0..MaxFaults
    BY <1>8, FaultType DEF ApiCrash
  <2>2. pc' \in [Job -> PipelineStates]
    BY <1>8 DEF ApiCrash
  <2>3. lis' \in [Job -> {"idle", "claimed", "sending"}]
    BY <1>8 DEF ApiCrash
  <2>4. /\ link' = "down" /\ inbox' = <<>>
        /\ UNCHANGED <<sent, notice, queueVars, resultVars, lockTTL, published>>
    BY <1>8 DEF ApiCrash
  <2>5. missed' \subseteq Job
    BY <1>8, UnheardType DEF ApiCrash
  <2> QED BY <2>1, <2>2, <2>3, <2>4, <2>5
<1>9. ASSUME NEW j \in Job,
             RaceFails(j) \/ RaceSendFails(j) \/ RaceDrops(j)
             \/ ListenerFails(j) \/ ListenerSendFails(j) \/ ListenerDrops(j)
      PROVE TypeOK'
  <2>0. faults' \in 0..MaxFaults
    BY <1>9, FaultType DEF RaceFails, RaceSendFails, RaceDrops, ListenerFails, ListenerSendFails, ListenerDrops
  <2>1. CASE RaceFails(j)
    <3>1. lockTTL' \in [Job -> 0..TTL]
      <4>1. CASE Claim(j)
        BY <4>1 DEF Claim
      <4> QED BY <2>1, <4>1 DEF RaceFails
    <3> QED BY <2>0, <2>1, <3>1 DEF RaceFails
  <2>2. CASE RaceSendFails(j) \/ RaceDrops(j)
    BY <2>0, <2>2 DEF RaceSendFails, RaceDrops, Goto
  <2>3. CASE ListenerFails(j)
    <3>1. lockTTL' \in [Job -> 0..TTL]
      <4>1. CASE Claim(j)
        BY <4>1 DEF Claim
      <4> QED BY <2>3, <4>1 DEF ListenerFails
    <3>2. lis' \in [Job -> {"idle", "claimed", "sending"}]
      <4>1. lis' = lis \/ lis' = [lis EXCEPT ![j] = "idle"]
        BY <2>3 DEF ListenerFails
      <4> QED BY <4>1
    <3>3. inbox' \in Seq(Job) /\ link' = link /\ published' = published
      BY <2>3, <1>5 DEF ListenerFails, TakeAnnouncement
    <3> QED BY <2>0, <2>3, <3>1, <3>2, <3>3 DEF ListenerFails
  <2>4. CASE ListenerSendFails(j) \/ ListenerDrops(j)
    BY <2>0, <2>4 DEF ListenerSendFails, ListenerDrops
  <2> QED BY <1>9, <2>1, <2>2, <2>3, <2>4
<1> QED
  BY <1>1, <1>2, <1>3, <1>4, <1>6, <1>7, <1>8, <1>9
     DEF ApiNext, Push, ListenerStep, ApiFault

LEMMA TickTypes == ASSUME TypeOK, Tick PROVE TypeOK'
<1>1. \A n \in 0..TTL : n > 0 => n - 1 \in 0..TTL
  OBVIOUS
<1>2. 0 \in 0..TTL
  OBVIOUS
<1> QED
  BY <1>1, <1>2
     DEF Tick, ExpireKeys, Older, TypeOK, RedisTypeOK, ApiTypeOK, WorkerTypeOK,
         queueVars, pubsubVars, apiVars, workerVars

(* TypeOK: every variable keeps its type. *)
THEOREM TypeCorrect == Spec => []TypeOK
<1>1. TypeOK /\ [Next]_vars => TypeOK'
  <2> SUFFICES ASSUME TypeOK, [Next]_vars PROVE TypeOK'
    OBVIOUS
  <2>1. CASE ApiNext /\ UNCHANGED workerVars
    BY <2>1, ApiTypes
  <2>2. CASE WorkerNext /\ UNCHANGED apiVars
    BY <2>2, WorkerTypes
  <2>3. CASE Tick
    BY <2>3, TickTypes
  <2>4. CASE UNCHANGED vars
    BY <2>4 DEF vars, redisVars, queueVars, resultVars, pubsubVars, apiVars,
                workerVars, TypeOK, RedisTypeOK, ApiTypeOK, WorkerTypeOK
  <2> QED BY <2>1, <2>2, <2>3, <2>4 DEF Next
<1> QED BY <1>1, InitTypeOK, PTL DEF Spec

------------------------------------------------------------------------------
(* Delivery. *)

(* DeliveryOf(j) looks at six variables, each at j only. *)
LEMMA DeliveryFrame ==
  ASSUME NEW j \in Job, DeliveryOf(j),
         pc'[j] = pc[j], lis'[j] = lis[j], sent'[j] = sent[j],
         resultTTL'[j] = resultTTL[j], lockTTL'[j] = lockTTL[j],
         stored'[j] = stored[j]
  PROVE  DeliveryOf(j)'
BY DEF DeliveryOf, InFlight, OpenClaim, Claimable, HasResult

LEMMA InitDelivery == Init => DeliveryInv
BY DEF Init, RedisInit, ApiInit, DeliveryInv, DeliveryOf, InFlight, OpenClaim,
       Claimable, HasResult

(* A new result is claimable, or for the listener that holds the claim.    *)
LEMMA WorkerDelivery ==
  ASSUME TypeOK, DeliveryInv, WorkerNext, UNCHANGED apiVars
  PROVE  DeliveryInv'
<1> SUFFICES ASSUME NEW j \in Job PROVE DeliveryOf(j)'
  BY DEF DeliveryInv
<1>1. /\ DeliveryOf(j)
      /\ pc' = pc /\ lis' = lis /\ sent' = sent /\ lockTTL' = lockTTL
  BY WorkerFrame DEF DeliveryInv, apiVars
<1>2. CASE resultVars' = resultVars
  BY <1>1, <1>2, DeliveryFrame DEF resultVars
<1>3. ASSUME NEW k \in Job, Setex(k) PROVE DeliveryOf(j)'
  <2>1. CASE k # j
    <3>1. resultTTL'[j] = resultTTL[j] /\ stored'[j] = stored[j]
      BY <1>3, <2>1 DEF Setex, TypeOK, RedisTypeOK
    <3> QED BY <1>1, <3>1, DeliveryFrame
  <2>2. CASE k = j
    <3>1. resultTTL'[j] = TTL /\ stored'[j] = stored[j] + 1
      BY <1>3, <2>2 DEF Setex, TypeOK, RedisTypeOK
    <3>2. /\ lockTTL[j] \in 0..TTL /\ resultTTL[j] \in 0..TTL
          /\ sent[j] \in Nat /\ stored[j] \in Nat
      BY DEF TypeOK, RedisTypeOK, ApiTypeOK
    <3> QED
      BY <1>1, <3>1, <3>2
         DEF DeliveryOf, InFlight, OpenClaim, Claimable, HasResult
  <2> QED BY <2>1, <2>2
<1> QED BY <1>2, <1>3, WorkerFrame

(* The API's steps change the delivery of one job, and leave the others.   *)
LEMMA ApiDelivery ==
  ASSUME TypeOK, DeliveryInv, ApiNext
  PROVE  DeliveryInv'
<1> SUFFICES ASSUME NEW j \in Job PROVE DeliveryOf(j)'
  BY DEF DeliveryInv
<1>a. DeliveryOf(j)
  BY DEF DeliveryInv
<1>b. /\ lockTTL[j] \in 0..TTL /\ resultTTL[j] \in 0..TTL
      /\ sent[j] \in Nat /\ stored[j] \in Nat
      /\ pc[j] \in PipelineStates
  BY DEF TypeOK, RedisTypeOK, ApiTypeOK
<1>c. /\ pc \in [Job -> PipelineStates]
      /\ lis \in [Job -> {"idle", "claimed", "sending"}]
      /\ sent \in [Job -> Nat] /\ lockTTL \in [Job -> 0..TTL]
  BY DEF TypeOK, RedisTypeOK, ApiTypeOK
<1> USE DEF redisVars, queueVars, resultVars, pubsubVars, apiVars
<1>1. ASSUME NEW k \in Job, PushMessage(k) \/ PushOther(k)
      PROVE DeliveryOf(j)'
  <2>1. /\ pc' = pc \/ (pc[k] = "idle" /\ pc' = [pc EXCEPT ![k] = "racing"])
        /\ UNCHANGED <<lis, sent, resultTTL, lockTTL, stored>>
    BY <1>1 DEF PushMessage, PushOther, Goto
  <2> QED
    BY <1>a, <1>b, <1>c, <2>1 DEF DeliveryOf, InFlight, OpenClaim, Claimable, HasResult
<1>2. ASSUME NEW k \in Job, PipelineStep(k) PROVE DeliveryOf(j)'
  <2>1. CASE RaceSeesResult(k) \/ RaceTimesOut(k) \/ RaceLosesClaim(k) \/ SendAck(k)
    <3>1. /\ UNCHANGED <<lis, sent, resultTTL, lockTTL, stored>>
          /\ \E to \in {"claiming", "acknowledging", "done"} :
               /\ pc' = [pc EXCEPT ![k] = to]
               /\ to = "claiming" => HasResult(k)
          /\ pc[k] # "sending"
      BY <2>1 DEF RaceSeesResult, RaceTimesOut, RaceLosesClaim, SendAck, Goto
    <3> QED
      BY <1>a, <1>b, <1>c, <3>1 DEF DeliveryOf, InFlight, OpenClaim, Claimable, HasResult
  <2>2. CASE RaceWins(k)
    <3>1. /\ UNCHANGED <<lis, sent, resultTTL, stored>>
          /\ lockTTL[k] = 0 /\ lockTTL' = [lockTTL EXCEPT ![k] = TTL]
          /\ pc[k] = "claiming" /\ pc' = [pc EXCEPT ![k] = "sending"]
      BY <2>2 DEF RaceWins, ClaimFree, Claim, Goto
    <3>2. CASE k # j
      BY <1>a, <1>c, <3>1, <3>2, DeliveryFrame
    <3>3. CASE k = j
      BY <1>a, <1>b, <1>c, <3>1, <3>3
         DEF DeliveryOf, InFlight, OpenClaim, Claimable, HasResult
    <3> QED BY <3>2, <3>3
  <2>3. CASE RaceSends(k)
    <3>1. /\ UNCHANGED <<lis, resultTTL, lockTTL, stored>>
          /\ pc[k] = "sending" /\ pc' = [pc EXCEPT ![k] = "done"]
          /\ sent' = [sent EXCEPT ![k] = @ + 1]
      BY <2>3 DEF RaceSends, Goto
    <3>2. CASE k # j
      BY <1>a, <1>c, <3>1, <3>2, DeliveryFrame
    <3>3. CASE k = j
      BY <1>a, <1>b, <1>c, <3>1, <3>3
         DEF DeliveryOf, InFlight, OpenClaim, Claimable, HasResult
    <3> QED BY <3>2, <3>3
  <2> QED BY <1>2, <2>1, <2>2, <2>3 DEF PipelineStep
<1>3. CASE Subscribe \/ Disconnect
  BY <1>3, <1>a, DeliveryFrame DEF Subscribe, Disconnect
<1>4. ASSUME NEW k \in Job,
             ListenerClaims(k) \/ ListenerSkips(k) \/ ListenerGets(k) \/ ListenerSends(k)
      PROVE DeliveryOf(j)'
  <2>1. CASE ListenerClaims(k)
    <3>1. /\ UNCHANGED <<pc, sent, resultTTL, stored>>
          /\ lis[j] = "idle" /\ lis' = [lis EXCEPT ![k] = "claimed"]
          /\ lockTTL[k] = 0 /\ lockTTL' = [lockTTL EXCEPT ![k] = TTL]
      BY <2>1 DEF ListenerClaims, TakeAnnouncement, ListenerIdle, ClaimFree, Claim
    <3>2. CASE k # j
      BY <1>a, <1>c, <3>1, <3>2, DeliveryFrame
    <3>3. CASE k = j
      BY <1>a, <1>b, <1>c, <3>1, <3>3
         DEF DeliveryOf, InFlight, OpenClaim, Claimable, HasResult
    <3> QED BY <3>2, <3>3
  <2>2. CASE ListenerSkips(k)
    BY <2>2, <1>a, DeliveryFrame DEF ListenerSkips
  <2>3. CASE ListenerGets(k)
    <3>1. /\ UNCHANGED <<pc, sent, resultTTL, lockTTL, stored>>
          /\ lis[k] = "claimed"
          /\ \/ HasResult(k) /\ lis' = [lis EXCEPT ![k] = "sending"]
             \/ ~HasResult(k) /\ lis' = [lis EXCEPT ![k] = "idle"]
      BY <2>3 DEF ListenerGets
    <3>2. CASE k # j
      BY <1>a, <1>c, <3>1, <3>2, DeliveryFrame
    <3>3. CASE k = j
      BY <1>a, <1>b, <1>c, <3>1, <3>3
         DEF DeliveryOf, InFlight, OpenClaim, Claimable, HasResult
    <3> QED BY <3>2, <3>3
  <2>4. CASE ListenerSends(k)
    <3>1. /\ UNCHANGED <<pc, resultTTL, lockTTL, stored>>
          /\ lis[k] = "sending" /\ lis' = [lis EXCEPT ![k] = "idle"]
          /\ sent' = [sent EXCEPT ![k] = @ + 1]
      BY <2>4 DEF ListenerSends
    <3>2. CASE k # j
      BY <1>a, <1>c, <3>1, <3>2, DeliveryFrame
    <3>3. CASE k = j
      BY <1>a, <1>b, <1>c, <3>1, <3>3
         DEF DeliveryOf, InFlight, OpenClaim, Claimable, HasResult
    <3> QED BY <3>2, <3>3
  <2> QED BY <1>4, <2>1, <2>2, <2>3, <2>4
<1>5. CASE ApiCrash
  <2>1. /\ UNCHANGED <<sent, resultTTL, lockTTL, stored>>
        /\ pc'[j] \in {"idle", "done"} /\ lis'[j] = "idle"
    BY <1>5 DEF ApiCrash
  <2> QED
    BY <1>a, <1>b, <2>1 DEF DeliveryOf, InFlight, OpenClaim, Claimable, HasResult
<1>6. ASSUME NEW k \in Job, RaceFails(k) \/ RaceSendFails(k) \/ RaceDrops(k) PROVE DeliveryOf(j)'
  <2>1. /\ UNCHANGED <<lis, sent, resultTTL, stored>>
        /\ pc' = [pc EXCEPT ![k] = "done"]
        /\ \/ lockTTL' = lockTTL
           \/ /\ lockTTL[k] = 0 /\ pc[k] = "claiming"
              /\ lockTTL' = [lockTTL EXCEPT ![k] = TTL]
    BY <1>6 DEF RaceFails, RaceSendFails, RaceDrops, ClaimFree, Claim, Goto
  <2>2. CASE k # j
    BY <1>a, <1>c, <2>1, <2>2, DeliveryFrame
  <2>3. CASE k = j
    BY <1>a, <1>b, <1>c, <2>1, <2>3
       DEF DeliveryOf, InFlight, OpenClaim, Claimable, HasResult
  <2> QED BY <2>2, <2>3
<1>7. ASSUME NEW k \in Job, ListenerFails(k) \/ ListenerSendFails(k) \/ ListenerDrops(k)
      PROVE DeliveryOf(j)'
  <2>1. CASE lis[k] # "idle" /\ lis' = [lis EXCEPT ![k] = "idle"]
             /\ UNCHANGED <<pc, sent, resultTTL, lockTTL, stored>>
    <3>1. CASE k # j
      BY <1>a, <1>c, <2>1, <3>1, DeliveryFrame
    <3>2. CASE k = j
      BY <1>a, <1>b, <1>c, <2>1, <3>2
         DEF DeliveryOf, InFlight, OpenClaim, Claimable, HasResult
    <3> QED BY <3>1, <3>2
  <2>2. CASE UNCHANGED <<pc, lis, sent, resultTTL, lockTTL, stored>>
    BY <1>a, <2>2, DeliveryFrame
  <2>3. CASE lockTTL[k] = 0 /\ lis[j] = "idle" /\ lockTTL' = [lockTTL EXCEPT ![k] = TTL]
             /\ UNCHANGED <<pc, lis, sent, resultTTL, stored>>
    <3>1. CASE k # j
      BY <1>a, <1>c, <2>3, <3>1, DeliveryFrame
    <3>2. CASE k = j
      BY <1>a, <1>b, <1>c, <2>3, <3>2
         DEF DeliveryOf, InFlight, OpenClaim, Claimable, HasResult
    <3> QED BY <3>1, <3>2
  <2> QED
    BY <1>7, <2>1, <2>2, <2>3
       DEF ListenerFails, ListenerSendFails, ListenerDrops, TakeAnnouncement, ListenerIdle,
           ClaimFree, Claim
<1> QED
  BY <1>1, <1>2, <1>3, <1>4, <1>5, <1>6, <1>7
     DEF ApiNext, Push, ListenerStep, ApiFault

(* No claim is on its way to a message when the clock moves, and a result  *)
(* that is older than its lock stays so.                                   *)
LEMMA TickDelivery ==
  ASSUME TypeOK, DeliveryInv, Tick
  PROVE  DeliveryInv'
<1> SUFFICES ASSUME NEW j \in Job PROVE DeliveryOf(j)'
  BY DEF DeliveryInv
<1>1. DeliveryOf(j)
  BY DEF DeliveryInv
<1>2. /\ pc[j] \in {"idle", "done"} /\ lis[j] = "idle"
      /\ UNCHANGED <<pc, lis, sent, stored>>
  BY DEF Tick, Prompt, ListenerIdle, ExpireKeys, apiVars
<1>3. /\ resultTTL'[j] = IF resultTTL[j] > 0 THEN resultTTL[j] - 1 ELSE 0
      /\ lockTTL'[j] = IF lockTTL[j] > 0 THEN lockTTL[j] - 1 ELSE 0
  BY DEF Tick, ExpireKeys, Older
<1>4. resultTTL[j] \in Nat /\ lockTTL[j] \in Nat /\ sent[j] \in Nat /\ stored[j] \in Nat
  BY DEF TypeOK, RedisTypeOK, ApiTypeOK
<1> QED
  BY <1>1, <1>2, <1>3, <1>4 DEF DeliveryOf, InFlight, OpenClaim, Claimable, HasResult

(* DeliveryInv: the claims, the locks and the results always match.        *)
THEOREM DeliveryHolds == Spec => []DeliveryInv
<1>1. TypeOK /\ DeliveryInv /\ [Next]_vars => DeliveryInv'
  <2> SUFFICES ASSUME TypeOK, DeliveryInv, [Next]_vars PROVE DeliveryInv'
    OBVIOUS
  <2>1. CASE UNCHANGED vars
    <3> SUFFICES ASSUME NEW j \in Job PROVE DeliveryOf(j)'
      BY DEF DeliveryInv
    <3> QED
      BY <2>1, DeliveryFrame DEF DeliveryInv, vars, redisVars, resultVars, apiVars
  <2> QED BY <2>1, WorkerDelivery, ApiDelivery, TickDelivery DEF Next
<1> QED BY <1>1, InitDelivery, TypeCorrect, PTL DEF Spec

(* OneAnswerPerResult: no final response without a stored result of its    *)
(* own, whatever fails and however late.                                   *)
THEOREM AnswersAreBacked == Spec => []OneAnswerPerResult
<1>1. TypeOK /\ DeliveryInv => OneAnswerPerResult
  <2> SUFFICES ASSUME TypeOK, DeliveryInv, NEW j \in Job PROVE sent[j] <= stored[j]
    BY DEF OneAnswerPerResult
  <2>1. DeliveryOf(j) /\ sent[j] \in Nat /\ stored[j] \in Nat
    BY DEF DeliveryInv, TypeOK, RedisTypeOK, ApiTypeOK
  <2> QED BY <2>1 DEF DeliveryOf, InFlight, OpenClaim, Claimable
<1> QED BY <1>1, TypeCorrect, DeliveryHolds, PTL

------------------------------------------------------------------------------
(* The stream. *)

NoRepeat == \A i, k \in 1..Len(stream) : stream[i] = stream[k] => i = k

(* Reading takes the oldest entry out of the queue and nothing else.       *)
LEMMA QueueAfterRead ==
  ASSUME TypeOK, NoRepeat, XReadNew
  PROVE  /\ NoRepeat'
         /\ Head(stream) \in Job /\ Queued(Head(stream))
         /\ \A j \in Job : Queued(j)' <=> (Queued(j) /\ j # Head(stream))
<1>1. /\ stream \in Seq(Job) /\ stream # <<>> /\ stream' = Tail(stream)
      /\ Len(stream) \in Nat /\ Len(stream) > 0
      /\ Head(stream) = stream[1] /\ Head(stream) \in Job
  BY DEF TypeOK, RedisTypeOK, XReadNew
<1>2. /\ Len(stream') = Len(stream) - 1
      /\ \A i \in 1..Len(stream') : stream'[i] = stream[i + 1]
  BY <1>1
<1>3. NoRepeat'
  BY <1>1, <1>2 DEF NoRepeat
<1>4. Queued(Head(stream))
  BY <1>1 DEF Queued
<1>5. ASSUME NEW j \in Job PROVE Queued(j)' <=> (Queued(j) /\ j # Head(stream))
  <2>1. ASSUME Queued(j), j # Head(stream) PROVE Queued(j)'
    <3>1. PICK i \in 1..Len(stream) : stream[i] = j
      BY <2>1 DEF Queued
    <3>2. i - 1 \in 1..Len(stream') /\ stream'[i - 1] = j
      BY <1>1, <1>2, <2>1, <3>1
    <3> QED BY <3>2 DEF Queued
  <2>2. ASSUME Queued(j)' PROVE Queued(j) /\ j # Head(stream)
    <3>1. PICK i \in 1..Len(stream') : stream'[i] = j
      BY <2>2 DEF Queued
    <3>2. /\ i + 1 \in 1..Len(stream) /\ 1 \in 1..Len(stream) /\ i + 1 # 1
          /\ stream[i + 1] = j
      BY <1>1, <1>2, <3>1
    <3>3. j # stream[1]
      BY <3>2 DEF NoRepeat
    <3> QED BY <1>1, <3>2, <3>3 DEF Queued
  <2> QED BY <2>1, <2>2
<1> QED BY <1>1, <1>3, <1>4, <1>5

(* Adding a job that is not queued makes just that one queued.             *)
LEMMA QueueAfterAdd ==
  ASSUME TypeOK, NoRepeat, NEW j \in Job, NEW k, XAdd(j, k), ~Queued(j)
  PROVE  /\ NoRepeat'
         /\ \A i \in Job : Queued(i)' <=> (Queued(i) \/ i = j)
<1>1. /\ stream \in Seq(Job) /\ Len(stream) \in Nat
      /\ Len(stream') = Len(stream) + 1
      /\ \A i \in 1..Len(stream) : stream'[i] = stream[i]
      /\ stream'[Len(stream) + 1] = j
  BY DEF TypeOK, RedisTypeOK, XAdd
<1>2. NoRepeat'
  BY <1>1 DEF NoRepeat, Queued
<1>3. ASSUME NEW i \in Job PROVE Queued(i)' <=> (Queued(i) \/ i = j)
  <2>1. ASSUME Queued(i)' PROVE Queued(i) \/ i = j
    <3>1. PICK n \in 1..Len(stream') : stream'[n] = i
      BY <2>1 DEF Queued
    <3> QED BY <1>1, <3>1 DEF Queued
  <2>2. ASSUME Queued(i) PROVE Queued(i)'
    <3>1. PICK n \in 1..Len(stream) : stream[n] = i
      BY <2>2 DEF Queued
    <3>2. n \in 1..Len(stream') /\ stream'[n] = i
      BY <1>1, <3>1
    <3> QED BY <3>2 DEF Queued
  <2>3. Queued(j)'
    <3>1. Len(stream) + 1 \in 1..Len(stream')
      BY <1>1
    <3> QED BY <1>1, <3>1 DEF Queued
  <2> QED BY <2>1, <2>2, <2>3
<1> QED BY <1>2, <1>3

(* The invariant of the stream, together with what XACK may forget.        *)
EntryOf(j) == StreamOf(j) /\ (kind[j] = "none" \/ Queued(j) \/ j \in pel \/ Served(j))

EntryInv == StreamInv /\ AckedWasPublished

(* EntryOf(j) looks at these values only, and at phase for a waiting task. *)
LEMMA EntryFrame ==
  ASSUME NEW j \in Job, EntryOf(j),
         Queued(j)' <=> Queued(j), j \in pel' <=> j \in pel,
         kind'[j] = kind[j], runs'[j] = runs[j], task'[j] = task[j],
         j \in batch' <=> j \in batch, j \in silent => j \in silent',
         j \in published => j \in published',
         phase' = phase \/ phase' # "consume" \/ task[j] # "waiting"
  PROVE  EntryOf(j)'
BY DEF EntryOf, StreamOf, Served

LEMMA EntryParts ==
  EntryInv <=> /\ batch \subseteq pel
               /\ phase # "drain" => batch = {}
               /\ phase = "down" => NoTask
               /\ NoRepeat
               /\ \A j \in Job : EntryOf(j)
BY DEF EntryInv, StreamInv, AckedWasPublished, EntryOf, NoRepeat

LEMMA InitEntry == Init => EntryInv
<1> SUFFICES ASSUME Init PROVE EntryInv
  OBVIOUS
<1>1. /\ batch = {} /\ NoTask /\ NoRepeat
      /\ \A j \in Job : ~Queued(j) /\ kind[j] = "none" /\ runs[j] = 0 /\ task[j] = "none"
      /\ pel = {}
  BY DEF Init, RedisInit, WorkerInit, NoTask, NoRepeat, Queued
<1>2. \A j \in Job : EntryOf(j)
  BY <1>1 DEF EntryOf, StreamOf
<1> QED BY <1>1, <1>2, EntryParts

(* The API and the clock touch the queue only by adding a new job.         *)
LEMMA QuietEntry ==
  ASSUME EntryInv, UNCHANGED <<queueVars, published, workerVars>>
  PROVE  EntryInv'
<1>1. /\ UNCHANGED <<stream, kind, pel, published>>
      /\ UNCHANGED <<phase, task, batch, runs, silent>>
  BY DEF queueVars, workerVars
<1>2. \A j \in Job : (Queued(j)' <=> Queued(j)) /\ (EntryOf(j) => EntryOf(j)')
  BY <1>1 DEF Queued, EntryOf, StreamOf, Served
<1> QED BY <1>1, <1>2, EntryParts DEF NoRepeat, NoTask, EntryInv, StreamInv, AckedWasPublished, EntryOf

LEMMA ApiEntry ==
  ASSUME TypeOK, EntryInv, ApiNext, UNCHANGED workerVars
  PROVE  EntryInv'
<1> USE DEF redisVars, queueVars, resultVars, pubsubVars, apiVars
<1>1. ASSUME NEW j \in Job, PushMessage(j) \/ PushOther(j) PROVE EntryInv'
  <2>1. PICK k : XAdd(j, k) /\ k \in Kinds
    BY <1>1 DEF PushMessage, PushOther
  <2>2. /\ NoRepeat /\ EntryOf(j) /\ kind[j] = "none"
        /\ \A i \in Job : EntryOf(i)
    BY <2>1, EntryParts DEF XAdd
  <2>3. ~Queued(j) /\ j \notin pel /\ runs[j] = 0 /\ task[j] = "none"
    BY <2>2 DEF EntryOf, StreamOf
  <2>4. /\ NoRepeat'
        /\ \A i \in Job : Queued(i)' <=> (Queued(i) \/ i = j)
    BY <2>1, <2>2, <2>3, QueueAfterAdd
  <2>5. /\ UNCHANGED <<pel, published, phase, task, batch, runs, silent>>
        /\ kind' = [kind EXCEPT ![j] = k]
        /\ kind \in [Job -> Kinds \cup {"none"}]
    BY <1>1, <2>1 DEF PushMessage, PushOther, XAdd, workerVars, TypeOK, RedisTypeOK
  <2>6. ASSUME NEW i \in Job PROVE EntryOf(i)'
    <3>1. CASE i = j
      BY <2>1, <2>2, <2>3, <2>4, <2>5, <3>1 DEF EntryOf, StreamOf
    <3>2. CASE i # j
      BY <2>2, <2>4, <2>5, <3>2, EntryFrame
    <3> QED BY <3>1, <3>2
  <2> QED BY <2>4, <2>5, <2>6, EntryParts DEF NoTask, EntryInv, StreamInv, AckedWasPublished, EntryOf, NoRepeat
<1>2. CASE UNCHANGED <<queueVars, published>>
  BY <1>2, QuietEntry
<1>3. ASSUME NEW j \in Job, PipelineStep(j) PROVE UNCHANGED <<queueVars, published>>
  BY <1>3 DEF PipelineStep, RaceSeesResult, RaceTimesOut, RaceWins,
              RaceLosesClaim, RaceSends, SendAck
<1>4. ASSUME ListenerStep \/ Subscribe PROVE UNCHANGED <<queueVars, published>>
  BY <1>4 DEF ListenerStep, ListenerClaims, ListenerSkips, ListenerGets,
              ListenerSends, TakeAnnouncement, Subscribe
<1>5. ASSUME ApiFault PROVE UNCHANGED <<queueVars, published>>
  BY <1>5 DEF ApiFault, Disconnect, ApiCrash, RaceFails, RaceSendFails, RaceDrops,
              ListenerFails, ListenerSendFails, ListenerDrops, TakeAnnouncement
<1> QED BY <1>1, <1>2, <1>3, <1>4, <1>5 DEF ApiNext, Push

(* An entry leaves the pending list only when it was served.               *)
LEMMA WorkerEntry ==
  ASSUME TypeOK, EntryInv, WorkerNext
  PROVE  EntryInv'
<1> USE DEF redisVars, queueVars, resultVars, pubsubVars
<1>a. /\ batch \subseteq pel /\ (phase # "drain" => batch = {})
      /\ (phase = "down" => NoTask) /\ NoRepeat
      /\ \A j \in Job : EntryOf(j)
  BY EntryParts
<1>b. /\ task \in [Job -> TaskStates] /\ runs \in [Job -> Nat]
      /\ phase \in {"down", "drain", "consume"}
      /\ pel \subseteq Job /\ published \subseteq Job
  BY DEF TypeOK, RedisTypeOK, WorkerTypeOK
<1>c. ASSUME batch' \subseteq pel',
             phase' # "drain" => batch' = {},
             phase' = "down" => \A j \in Job : task'[j] = "none",
             NoRepeat',
             \A j \in Job : EntryOf(j)'
      PROVE EntryInv'
  BY <1>c DEF EntryInv, StreamInv, AckedWasPublished, EntryOf, NoRepeat, NoTask
<1>q. ASSUME UNCHANGED stream
      PROVE  NoRepeat' /\ \A j \in Job : Queued(j)' <=> Queued(j)
  BY <1>a, <1>q DEF NoRepeat, Queued
<1>1. CASE WorkerStart \/ DrainRead \/ DrainDone
  <2>1. /\ UNCHANGED <<stream, kind, pel, published, task, runs, silent>>
        /\ NoTask /\ batch' \subseteq pel /\ phase' # "down"
        /\ phase' # "drain" => batch' = {}
    BY <1>1, <1>a DEF WorkerStart, DrainRead, DrainDone
  <2>2. ASSUME NEW j \in Job PROVE EntryOf(j)'
    BY <1>a, <1>q, <2>1 DEF EntryOf, StreamOf, Served, NoTask
  <2> QED BY <1>c, <1>q, <2>1, <2>2 DEF NoTask
<1>2. ASSUME NEW j \in Job, DrainNext(j) PROVE EntryInv'
  <2>1. /\ UNCHANGED <<stream, kind, pel, published, runs, silent, phase>>
        /\ phase = "drain" /\ j \in batch /\ batch' = batch \ {j}
        /\ task' = [task EXCEPT ![j] = "waiting"]
    BY <1>2 DEF DrainNext, Move
  <2>2. ASSUME NEW i \in Job PROVE EntryOf(i)'
    BY <1>a, <1>b, <1>q, <2>1 DEF EntryOf, StreamOf, Served
  <2> QED BY <1>a, <1>c, <1>q, <2>1, <2>2
<1>3. CASE ReadNew \/ ReadLost
  <2>1. /\ UNCHANGED <<kind, published, phase, batch, runs, silent>>
        /\ phase = "consume" /\ XReadNew
        /\ \/ task' = [task EXCEPT ![Head(stream)] = "waiting"]
           \/ task' = task
    <3>1. CASE ReadNew
      BY <3>1 DEF ReadNew, XReadNew, Move
    <3>2. CASE ReadLost
      BY <3>2 DEF ReadLost, XReadNew
    <3> QED BY <1>3, <3>1, <3>2
  <2>2. /\ NoRepeat' /\ Head(stream) \in Job /\ Queued(Head(stream))
        /\ \A j \in Job : Queued(j)' <=> (Queued(j) /\ j # Head(stream))
    BY <1>a, <2>1, QueueAfterRead
  <2>3. pel' = pel \cup {Head(stream)}
    BY <2>1 DEF XReadNew
  <2>4. ASSUME NEW i \in Job PROVE EntryOf(i)'
    BY <1>a, <1>b, <2>1, <2>2, <2>3 DEF EntryOf, StreamOf, Served
  <2> QED BY <1>a, <1>c, <2>1, <2>2, <2>3, <2>4
<1>4. ASSUME NEW j \in Job, StartJob(j) PROVE EntryInv'
  <2>1. /\ UNCHANGED <<stream, kind, pel, published, phase, batch>>
        /\ task[j] = "waiting" /\ task' = [task EXCEPT ![j] = "running"]
        /\ runs' = [runs EXCEPT ![j] = @ + 1] /\ silent' = silent \ {j}
    BY <1>4 DEF StartJob, Move
  <2>2. ASSUME NEW i \in Job PROVE EntryOf(i)'
    <3>1. CASE i = j
      BY <1>a, <1>b, <1>q, <2>1, <3>1 DEF EntryOf, StreamOf, Served
    <3>2. CASE i # j
      BY <1>a, <1>b, <1>q, <2>1, <3>2, EntryFrame
    <3> QED BY <3>1, <3>2
  <2> QED BY <1>a, <1>c, <1>q, <2>1, <2>2 DEF NoTask
(* The steps between start and XACK: the task stays a task.                *)
<1>5. ASSUME NEW j \in Job,
             \/ HandlerResponds(j) \/ HandlerSilent(j) \/ StoreResult(j)
             \/ Announce(j) \/ JobTimeout(j) \/ PublishFails(j)
      PROVE EntryInv'
  <2>1. /\ UNCHANGED <<stream, kind, pel, phase, batch, runs>>
        /\ published \subseteq published' /\ silent \subseteq silent'
        /\ task[j] # "none" /\ task[j] # "waiting"
        /\ \E to \in TaskStates \ {"waiting"} :
             /\ task' = [task EXCEPT ![j] = to]
             /\ to = "acking" => Served(j)'
    BY <1>5 DEF HandlerResponds, HandlerSilent, StoreResult, Announce, JobTimeout,
                PublishFails, Move, Publish, Setex, Served
  <2>2. ASSUME NEW i \in Job PROVE EntryOf(i)'
    <3>1. CASE i = j
      BY <1>a, <1>b, <1>q, <2>1, <3>1 DEF EntryOf, StreamOf, Served
    <3>2. CASE i # j
      BY <1>a, <1>b, <1>q, <2>1, <3>2, EntryFrame
    <3> QED BY <3>1, <3>2
  <2> QED BY <1>a, <1>c, <1>q, <2>1, <2>2 DEF NoTask
<1>6. ASSUME NEW j \in Job, Acknowledge(j) \/ AckFails(j) PROVE EntryInv'
  <2>1. /\ UNCHANGED <<stream, kind, published, runs, silent>>
        /\ pel' = pel \/ pel' = pel \ {j}
        /\ task[j] = "acking"
        /\ \/ task' = [task EXCEPT ![j] = "none"] /\ phase' = phase /\ batch' = batch
           \/ phase' = "down" /\ batch' = {} /\ task' = [i \in Job |-> "none"]
    BY <1>6 DEF Acknowledge, AckFails, XAck, Die, Move
  <2>2. ASSUME NEW i \in Job PROVE EntryOf(i)'
    BY <1>a, <1>b, <1>q, <2>1 DEF EntryOf, StreamOf, Served
  <2>3. batch' \subseteq pel'
    BY <1>a, <2>1 DEF EntryOf, StreamOf
  <2> QED BY <1>a, <1>c, <1>q, <2>1, <2>2, <2>3 DEF NoTask
<1>7. CASE WorkerCrash
  <2>1. /\ UNCHANGED <<stream, kind, pel, published, runs, silent>>
        /\ phase' = "down" /\ batch' = {} /\ task' = [j \in Job |-> "none"]
    BY <1>7 DEF WorkerCrash, Die
  <2>2. ASSUME NEW i \in Job PROVE EntryOf(i)'
    BY <1>a, <1>q, <2>1 DEF EntryOf, StreamOf, Served
  <2> QED BY <1>c, <1>q, <2>1, <2>2 DEF NoTask
<1> QED
  BY <1>1, <1>2, <1>3, <1>4, <1>5, <1>6, <1>7
     DEF WorkerNext, LoopStep, TaskStep, WorkerFault

THEOREM EntryHolds == Spec => []EntryInv
<1>1. TypeOK /\ EntryInv /\ [Next]_vars => EntryInv'
  <2> SUFFICES ASSUME TypeOK, EntryInv, [Next]_vars PROVE EntryInv'
    OBVIOUS
  <2>1. CASE UNCHANGED vars
    BY <2>1, QuietEntry DEF vars, redisVars, pubsubVars
  <2>2. CASE Tick
    BY <2>2, QuietEntry DEF Tick, ExpireKeys, pubsubVars
  <2> QED BY <2>1, <2>2, WorkerEntry, ApiEntry DEF Next
<1> QED BY <1>1, InitEntry, TypeCorrect, PTL DEF Spec

(* StreamInv: an entry is in one place, and is XACKed only when served.    *)
THEOREM StreamHolds == Spec => []StreamInv
BY EntryHolds, PTL DEF EntryInv

(* AckedWasPublished: no job is forgotten before it was served, whatever   *)
(* crashes or fails between its steps.                                     *)
THEOREM NoJobForgotten == Spec => []AckedWasPublished
BY EntryHolds, PTL DEF EntryInv

------------------------------------------------------------------------------
(* The drain. *)

(* DrainLeavesNothing: a consuming worker has read all that is pending.    *)
THEOREM DrainIsComplete == Spec => []DrainLeavesNothing
<1> USE DEF redisVars, queueVars, resultVars, pubsubVars, workerVars
<1>1. Init => DrainLeavesNothing
  BY DEF Init, WorkerInit, DrainLeavesNothing
<1>2. DrainLeavesNothing /\ [Next]_vars => DrainLeavesNothing'
  <2> SUFFICES ASSUME DrainLeavesNothing, [Next]_vars, phase' = "consume"
               PROVE  pel' \subseteq runReads'
    BY DEF DrainLeavesNothing
  <2>1. ASSUME pel' = pel, runReads' = runReads, phase' = phase
        PROVE  pel' \subseteq runReads'
    BY <2>1 DEF DrainLeavesNothing
  <2>2. CASE UNCHANGED vars
    BY <2>1, <2>2 DEF vars
  <2>3. CASE Tick
    BY <2>1, <2>3 DEF Tick, ExpireKeys
  <2>4. CASE ApiNext /\ UNCHANGED workerVars
    <3>1. pel' = pel
      <4>1. ASSUME NEW j \in Job, PushMessage(j) \/ PushOther(j) PROVE pel' = pel
        BY <4>1 DEF PushMessage, PushOther, XAdd
      <4>2. ASSUME NEW j \in Job, PipelineStep(j) PROVE pel' = pel
        BY <4>2 DEF PipelineStep, RaceSeesResult, RaceTimesOut, RaceWins,
                    RaceLosesClaim, RaceSends, SendAck
      <4>3. ASSUME ListenerStep \/ Subscribe PROVE pel' = pel
        BY <4>3 DEF ListenerStep, ListenerClaims, ListenerSkips, ListenerGets,
                    ListenerSends, Subscribe
      <4>4. ASSUME ApiFault PROVE pel' = pel
        BY <4>4 DEF ApiFault, Disconnect, ApiCrash, RaceFails, RaceSendFails, RaceDrops,
                    ListenerFails, ListenerSendFails, ListenerDrops
      <4> QED BY <2>4, <4>1, <4>2, <4>3, <4>4 DEF ApiNext, Push
    <3> QED BY <2>1, <2>4, <3>1
  <2>5. CASE WorkerNext
    <3>1. CASE WorkerStart \/ LoopStep
      <4>1. CASE DrainDone
        BY <4>1 DEF DrainDone
      <4>2. CASE ReadNew
        BY <4>2 DEF ReadNew, XReadNew, DrainLeavesNothing
      <4> QED BY <3>1, <4>1, <4>2 DEF WorkerStart, LoopStep, DrainRead, DrainNext
    <3>2. ASSUME NEW j \in Job, TaskStep(j) PROVE pel' \subseteq runReads'
      <4>1. phase = "consume" /\ runReads' = runReads /\ pel' \subseteq pel
        BY <3>2 DEF TaskStep, StartJob, HandlerResponds, HandlerSilent, StoreResult,
                    Announce, Acknowledge, XAck
      <4> QED BY <4>1 DEF DrainLeavesNothing
    <3>3. CASE WorkerFault
      <4>1. CASE WorkerCrash
        BY <4>1 DEF WorkerCrash, Die
      <4>2. CASE ReadLost
        BY <4>2 DEF ReadLost, XReadNew, DrainLeavesNothing
      <4>3. ASSUME NEW j \in Job, JobTimeout(j) \/ PublishFails(j) \/ AckFails(j)
            PROVE  pel' \subseteq runReads'
        <5>1. phase = "consume" /\ runReads' = runReads /\ pel' \subseteq pel
          BY <4>3 DEF JobTimeout, PublishFails, AckFails, XAck, Die
        <5> QED BY <5>1 DEF DrainLeavesNothing
      <4> QED BY <3>3, <4>1, <4>2, <4>3 DEF WorkerFault
    <3> QED BY <2>5, <3>1, <3>2, <3>3 DEF WorkerNext
  <2> QED BY <2>2, <2>3, <2>4, <2>5 DEF Next
<1> QED BY <1>1, <1>2, PTL DEF Spec

(* RerunOnlyInDrain: only a restarted worker starts a handler again.       *)
THEOREM RerunsAreDrained == Spec => RerunOnlyInDrain
<1> DEFINE Step == \A j \in Job : runs[j] > 0 /\ runs'[j] > runs[j] => phase = "drain"
<1>1. TypeOK /\ EntryInv /\ [Next]_vars => Step
  <2> SUFFICES ASSUME TypeOK, EntryInv, [Next]_vars,
                      NEW j \in Job, runs[j] > 0, runs'[j] > runs[j]
               PROVE  phase = "drain"
    OBVIOUS
  <2>1. runs[j] \in Nat /\ phase \in {"down", "drain", "consume"} /\ runs \in [Job -> Nat]
    BY DEF TypeOK, WorkerTypeOK
  <2>2. \E k \in Job : StartJob(k)
    <3> SUFFICES ASSUME ~\E k \in Job : StartJob(k) PROVE runs' = runs
      BY <2>1
    <3>1. ASSUME WorkerNext PROVE runs' = runs
      BY <3>1 DEF WorkerNext, WorkerStart, LoopStep, DrainRead, DrainDone, ReadNew,
                  DrainNext, TaskStep, HandlerResponds, HandlerSilent, StoreResult,
                  Announce, Acknowledge, WorkerFault, WorkerCrash, ReadLost, JobTimeout,
                  PublishFails, AckFails, Die
    <3> QED BY <3>1 DEF Next, Tick, vars, workerVars
  <2>3. PICK k \in Job : StartJob(k)
    BY <2>2
  <2>4. task[k] = "waiting" /\ k = j
    BY <2>1, <2>3 DEF StartJob, Move
  <2>5. StreamOf(j) /\ (phase = "down" => NoTask)
    BY DEF EntryInv, StreamInv
  <2> QED BY <2>1, <2>4, <2>5 DEF StreamOf, NoTask
<1>2. Spec => [][Step]_vars
  BY <1>1, TypeCorrect, EntryHolds, PTL DEF Spec
<1> QED BY <1>2 DEF RerunOnlyInDrain

------------------------------------------------------------------------------
(* Announcements. *)

(* PUBLISH adds one announcement, the listener takes the oldest one.       *)
LEMMA UnheardAfterPublish ==
  ASSUME TypeOK, NEW k \in Job, Publish(k)
  PROVE  Unheard' = IF link = "up" THEN Unheard \cup {k} ELSE Unheard
<1>1. CASE link = "up"
  <2>1. /\ inbox \in Seq(Job) /\ Len(inbox) \in Nat
        /\ Len(inbox') = Len(inbox) + 1
        /\ \A i \in 1..Len(inbox) : inbox'[i] = inbox[i]
        /\ inbox'[Len(inbox) + 1] = k
    BY <1>1 DEF TypeOK, RedisTypeOK, Publish
  <2>2. Unheard' \subseteq Unheard \cup {k}
    BY <2>1 DEF Unheard
  <2>3. k \in Unheard'
    <3>1. Len(inbox) + 1 \in 1..Len(inbox')
      BY <2>1
    <3> QED BY <2>1, <3>1 DEF Unheard
  <2>4. ASSUME NEW i \in 1..Len(inbox) PROVE inbox[i] \in Unheard'
    <3>1. i \in 1..Len(inbox') /\ inbox'[i] = inbox[i]
      BY <2>1
    <3> QED BY <3>1 DEF Unheard
  <2>5. Unheard \subseteq Unheard'
    BY <2>4 DEF Unheard
  <2> QED BY <1>1, <2>2, <2>3, <2>5
<1>2. CASE link # "up"
  BY <1>2 DEF Publish, Unheard
<1> QED BY <1>1, <1>2

LEMMA UnheardAfterTake ==
  ASSUME TypeOK, NEW k \in Job, TakeAnnouncement(k)
  PROVE  /\ k \in Unheard
         /\ \A j \in Job : j # k => (j \in Unheard' <=> j \in Unheard)
         /\ Unheard' \subseteq Unheard
<1>1. /\ inbox \in Seq(Job) /\ inbox # <<>> /\ inbox' = Tail(inbox)
      /\ Len(inbox) \in Nat /\ Len(inbox) > 0 /\ k = inbox[1]
  BY DEF TypeOK, RedisTypeOK, TakeAnnouncement
<1>2. /\ Len(inbox') = Len(inbox) - 1
      /\ \A i \in 1..Len(inbox') : inbox'[i] = inbox[i + 1]
  BY <1>1
<1>3. k \in Unheard
  BY <1>1 DEF Unheard
<1>4. Unheard' \subseteq Unheard
  <2>1. ASSUME NEW i \in 1..Len(inbox') PROVE inbox'[i] \in Unheard
    <3>1. i + 1 \in 1..Len(inbox) /\ inbox'[i] = inbox[i + 1]
      BY <1>1, <1>2
    <3> QED BY <3>1 DEF Unheard
  <2> QED BY <2>1 DEF Unheard
<1>5. ASSUME NEW j \in Unheard, j # k PROVE j \in Unheard'
  <2>1. PICK i \in 1..Len(inbox) : inbox[i] = j
    BY DEF Unheard
  <2>2. i - 1 \in 1..Len(inbox') /\ inbox'[i - 1] = j
    BY <1>1, <1>2, <1>5, <2>1
  <2> QED BY <2>2 DEF Unheard
<1> QED BY <1>3, <1>4, <1>5

(* What makes AnnouncedIsAnswered inductive: a lock that is taken stands   *)
(* for a message, sent or on its way, and neither the listener nor the     *)
(* channel nor the task about to announce works on a job without a result, *)
(* unless something was wasted on the way.                                 *)
Excused(j) == sent[j] > 0 \/ j \in missed

AnswerOf(j) ==
  /\ j \in published => Excused(j) \/ Coming(j)
  /\ lockTTL[j] > 0 => Excused(j) \/ pc[j] = "sending" \/ lis[j] # "idle"
  /\ lis[j] = "claimed" \/ j \in Unheard \/ task[j] = "announcing"
       => HasResult(j) \/ Excused(j)

AnswerInv == \A j \in Job : AnswerOf(j)

(* AnswerOf(j) looks at these values only; some may only move one way.     *)
LEMMA AnswerFrame ==
  ASSUME NEW j \in Job, AnswerOf(j),
         pc'[j] = "sending" <=> pc[j] = "sending",
         lis'[j] = lis[j], sent'[j] = sent[j], lockTTL'[j] = lockTTL[j],
         HasResult(j) => HasResult(j)',
         j \in Unheard' <=> j \in Unheard,
         j \in published' => j \in published,
         j \in missed => j \in missed',
         task'[j] = "announcing" => task[j] = "announcing"
  PROVE  AnswerOf(j)'
BY DEF AnswerOf, Coming, Excused, ClaimFree

(* Whatever a step does to an excused job, it stays excused.               *)
LEMMA ExcusedAnswer ==
  ASSUME NEW j \in Job, Excused(j)'
  PROVE  AnswerOf(j)'
BY DEF AnswerOf

LEMMA InitAnswer == Init => AnswerInv
<1> SUFFICES ASSUME Init, NEW j \in Job PROVE AnswerOf(j)
  BY DEF AnswerInv
<1>1. /\ published = {} /\ lockTTL[j] = 0 /\ lis[j] = "idle"
      /\ inbox = <<>> /\ task[j] = "none"
  BY DEF Init, RedisInit, ApiInit, WorkerInit
<1>2. j \notin Unheard
  BY <1>1 DEF Unheard
<1> QED BY <1>1, <1>2 DEF AnswerOf

(* A task announces what it has just stored; the announcement finds the    *)
(* lock free, or somebody who holds it for a message.                      *)
LEMMA WorkerAnswer ==
  ASSUME TypeOK, AnswerInv, WorkerNext, UNCHANGED apiVars
  PROVE  AnswerInv'
<1> SUFFICES ASSUME NEW j \in Job PROVE AnswerOf(j)'
  BY DEF AnswerInv
<1>a. /\ AnswerOf(j)
      /\ pc' = pc /\ lis' = lis /\ sent' = sent /\ lockTTL' = lockTTL
  BY WorkerFrame DEF AnswerInv, apiVars
<1>b. /\ task \in [Job -> TaskStates] /\ resultTTL \in [Job -> 0..TTL]
      /\ lis \in [Job -> {"idle", "claimed", "sending"}]
      /\ sent[j] \in Nat /\ lockTTL[j] \in Nat
  BY DEF TypeOK, RedisTypeOK, ApiTypeOK, WorkerTypeOK
<1> DEFINE Kept == /\ resultTTL' = resultTTL
                   /\ link' = link /\ inbox' = inbox
                   /\ published' = published /\ missed' = missed
           NoNew == \A i \in Job : task'[i] = "announcing" => task[i] = "announcing"
           Stores(k) == /\ Setex(k)
                        /\ link' = link /\ inbox' = inbox
                        /\ published' = published /\ missed' = missed
                        /\ \A i \in Job :
                             task'[i] = "announcing" => task[i] = "announcing" \/ i = k
           Announces(k) == /\ task[k] = "announcing"
                           /\ resultTTL' = resultTTL
                           /\ Publish(k)
<1>1. CASE Kept /\ NoNew
  BY <1>a, <1>1, AnswerFrame DEF Unheard, HasResult
<1>2. ASSUME NEW k \in Job, Stores(k) PROVE AnswerOf(j)'
  <2>1. CASE k # j
    <3>1. resultTTL'[j] = resultTTL[j]
      BY <1>2, <1>b, <2>1 DEF Setex
    <3>2. task'[j] = "announcing" => task[j] = "announcing"
      BY <1>2, <2>1
    <3>3. UNCHANGED <<inbox, published, missed>>
      BY <1>2
    <3> QED BY <1>a, <3>1, <3>2, <3>3, AnswerFrame DEF HasResult, Unheard
  <2>2. CASE k = j
    <3>1. HasResult(j)'
      BY <1>2, <1>b, <2>2 DEF Setex, HasResult
    <3>2. UNCHANGED <<inbox, published, missed>>
      BY <1>2
    <3> QED BY <1>a, <3>1, <3>2 DEF AnswerOf, Coming, Excused, ClaimFree, Unheard
  <2> QED BY <2>1, <2>2
<1>3. ASSUME NEW k \in Job, Announces(k), NoNew PROVE AnswerOf(j)'
  <2>1. /\ Unheard' = IF link = "up" THEN Unheard \cup {k} ELSE Unheard
        /\ published' = published \cup {k}
        /\ missed' = IF link = "up" THEN missed ELSE missed \cup {k}
        /\ resultTTL' = resultTTL
        /\ task'[j] = "announcing" => task[j] = "announcing"
    BY <1>3, UnheardAfterPublish DEF Publish
  <2>2. CASE k # j
    BY <1>a, <2>1, <2>2, AnswerFrame DEF HasResult
  <2>3. CASE k = j /\ link # "up"
    BY <2>1, <2>3, ExcusedAnswer DEF Excused
  <2>4. CASE k = j /\ link = "up"
    <3>1. task[j] = "announcing"
      BY <1>3, <2>4
    <3>2. HasResult(j)' <=> HasResult(j)
      BY <2>1 DEF HasResult
    <3>3. CASE Excused(j)
      BY <1>a, <2>1, <2>4, <3>3, ExcusedAnswer DEF Excused
    <3>4. CASE HasResult(j) /\ ~Excused(j)
      <4>1. Coming(j)'
        BY <1>a, <1>b, <2>1, <2>4, <3>2, <3>4 DEF AnswerOf, Coming, ClaimFree
      <4>2. lockTTL[j] > 0 => pc[j] = "sending" \/ lis[j] # "idle"
        BY <1>a, <3>4 DEF AnswerOf
      <4> QED BY <1>a, <3>2, <3>4, <4>1, <4>2 DEF AnswerOf
    <3> QED BY <1>a, <3>1, <3>3, <3>4 DEF AnswerOf
  <2> QED BY <2>2, <2>3, <2>4
<1>4. ASSUME WorkerNext
      PROVE  \/ Kept /\ NoNew
             \/ \E k \in Job : Stores(k)
             \/ \E k \in Job : Announces(k) /\ NoNew
  <2> USE DEF redisVars, queueVars, resultVars, pubsubVars
  <2>1. CASE WorkerStart
    BY <2>1 DEF WorkerStart
  <2>2. CASE LoopStep
    <3>1. /\ Kept
          /\ \/ task' = task
             \/ \E k : task' = [task EXCEPT ![k] = "waiting"]
      BY <2>2 DEF LoopStep, DrainRead, DrainDone, ReadNew, DrainNext, Move
    <3> QED BY <1>b, <3>1
  <2>3. ASSUME NEW k \in Job,
               \/ StartJob(k) \/ HandlerResponds(k) \/ HandlerSilent(k)
               \/ Acknowledge(k) \/ JobTimeout(k)
        PROVE  Kept /\ NoNew
    <3>1. /\ Kept
          /\ \E to \in TaskStates \ {"announcing"} : task' = [task EXCEPT ![k] = to]
      BY <2>3 DEF StartJob, HandlerResponds, HandlerSilent, Acknowledge, JobTimeout, Move
    <3> QED BY <1>b, <3>1
  <2>4. ASSUME NEW k \in Job, StoreResult(k) PROVE Stores(k)
    <3>1. /\ Setex(k) /\ link' = link /\ inbox' = inbox
          /\ published' = published /\ missed' = missed
          /\ task' = [task EXCEPT ![k] = "announcing"]
      BY <2>4 DEF StoreResult, Move
    <3> QED BY <1>b, <3>1
  <2>5. ASSUME NEW k \in Job, Announce(k) PROVE Announces(k) /\ NoNew
    <3>1. /\ task[k] = "announcing" /\ resultTTL' = resultTTL /\ Publish(k)
          /\ task' = [task EXCEPT ![k] = "acking"]
      BY <2>5 DEF Announce, Move
    <3> QED BY <1>b, <3>1
  <2>6. ASSUME NEW k \in Job, PublishFails(k)
        PROVE  (Kept /\ NoNew) \/ Stores(k) \/ (Announces(k) /\ NoNew)
    <3>1. NoNew
      <4>1. \E to \in {"storing", "none"} : task' = [task EXCEPT ![k] = to]
        BY <2>6 DEF PublishFails
      <4> QED BY <1>b, <4>1
    <3>2. \/ Kept
          \/ Setex(k) /\ link' = link /\ inbox' = inbox
             /\ published' = published /\ missed' = missed
          \/ task[k] = "announcing" /\ resultTTL' = resultTTL /\ Publish(k)
      BY <2>6 DEF PublishFails
    <3> QED BY <3>1, <3>2
  <2>7. ASSUME NEW k \in Job, AckFails(k) PROVE Kept /\ NoNew
    <3>1. /\ Kept
          /\ \/ task' = [task EXCEPT ![k] = "none"]
             \/ task' = [i \in Job |-> "none"]
      BY <2>7 DEF AckFails, Die
    <3> QED BY <1>b, <3>1
  <2>8. CASE WorkerCrash
    <3>1. Kept /\ task' = [i \in Job |-> "none"]
      BY <2>8 DEF WorkerCrash, Die
    <3> QED BY <3>1
  <2>9. CASE ReadLost
    BY <2>9 DEF ReadLost
  <2> QED
    BY <1>4, <2>1, <2>2, <2>3, <2>4, <2>5, <2>6, <2>7, <2>8, <2>9
       DEF WorkerNext, TaskStep, WorkerFault
<1> QED BY <1>1, <1>2, <1>3, <1>4

(* Each claim of the API is turned into a message, or seen to be wasted.   *)
LEMMA ApiAnswer ==
  ASSUME TypeOK, AnswerInv, ApiNext, UNCHANGED workerVars
  PROVE  AnswerInv'
<1> SUFFICES ASSUME NEW j \in Job PROVE AnswerOf(j)'
  BY DEF AnswerInv
<1>a. AnswerOf(j) /\ task' = task
  BY DEF AnswerInv, workerVars
<1>b. /\ pc \in [Job -> PipelineStates]
      /\ lis \in [Job -> {"idle", "claimed", "sending"}]
      /\ sent \in [Job -> Nat] /\ lockTTL \in [Job -> 0..TTL]
      /\ resultTTL \in [Job -> 0..TTL]
  BY DEF TypeOK, RedisTypeOK, ApiTypeOK
<1> USE DEF redisVars, queueVars, resultVars, pubsubVars, apiVars
(* The cases: nothing of j moves; j becomes excused; j's lock is taken.    *)
<1>1. ASSUME UNCHANGED <<resultTTL, published>>,
             lis'[j] = lis[j], sent'[j] = sent[j], lockTTL'[j] = lockTTL[j],
             pc'[j] = "sending" <=> pc[j] = "sending",
             j \in Unheard' <=> j \in Unheard, j \in missed => j \in missed'
      PROVE  AnswerOf(j)'
  BY <1>a, <1>1, AnswerFrame DEF HasResult
<1>2. ASSUME NEW k \in Job, PushMessage(k) \/ PushOther(k) PROVE AnswerOf(j)'
  <2>1. /\ UNCHANGED <<lis, sent, lockTTL, resultTTL, inbox, published, missed>>
        /\ pc' = pc \/ (pc[k] = "idle" /\ pc' = [pc EXCEPT ![k] = "racing"])
    BY <1>2 DEF PushMessage, PushOther, Goto
  <2> QED BY <1>1, <1>b, <2>1 DEF Unheard
<1>3. ASSUME NEW k \in Job, PipelineStep(k) PROVE AnswerOf(j)'
  <2>1. CASE RaceSeesResult(k) \/ RaceTimesOut(k) \/ RaceLosesClaim(k) \/ SendAck(k)
    <3>1. /\ UNCHANGED <<lis, sent, lockTTL, resultTTL, inbox, published, missed>>
          /\ \E to \in {"claiming", "acknowledging", "done"} :
               pc' = [pc EXCEPT ![k] = to]
          /\ pc[k] # "sending"
      BY <2>1 DEF RaceSeesResult, RaceTimesOut, RaceLosesClaim, SendAck, Goto
    <3> QED BY <1>1, <1>b, <3>1 DEF Unheard
  <2>2. CASE RaceWins(k)
    <3>1. /\ UNCHANGED <<lis, sent, resultTTL, inbox, published, missed>>
          /\ lockTTL' = [lockTTL EXCEPT ![k] = TTL]
          /\ pc' = [pc EXCEPT ![k] = "sending"]
      BY <2>2 DEF RaceWins, Claim, Goto
    <3>2. CASE k # j
      BY <1>1, <1>b, <3>1, <3>2 DEF Unheard
    <3>3. CASE k = j
      BY <1>a, <1>b, <3>1, <3>3 DEF AnswerOf, Coming, Excused, HasResult, Unheard
    <3> QED BY <3>2, <3>3
  <2>3. CASE RaceSends(k)
    <3>1. /\ UNCHANGED <<lis, lockTTL, resultTTL, inbox, published, missed>>
          /\ pc' = [pc EXCEPT ![k] = "done"]
          /\ sent' = [sent EXCEPT ![k] = @ + 1]
      BY <2>3 DEF RaceSends, Goto
    <3>2. CASE k # j
      BY <1>1, <1>b, <3>1, <3>2 DEF Unheard
    <3>3. CASE k = j
      BY <1>b, <3>1, <3>3, ExcusedAnswer DEF Excused
    <3> QED BY <3>2, <3>3
  <2> QED BY <1>3, <2>1, <2>2, <2>3 DEF PipelineStep
<1>4. CASE Subscribe
  BY <1>1, <1>4 DEF Subscribe, Unheard
<1>5. CASE Disconnect
  <2>1. /\ UNCHANGED <<pc, lis, sent, lockTTL, resultTTL, published>>
        /\ inbox' = <<>> /\ missed' = missed \cup Unheard
    BY <1>5 DEF Disconnect
  <2>2. CASE j \in Unheard
    BY <2>1, <2>2, ExcusedAnswer DEF Excused
  <2>3. CASE j \notin Unheard
    <3>1. j \notin Unheard'
      BY <2>1 DEF Unheard
    <3> QED BY <1>1, <2>1, <2>3, <3>1
  <2> QED BY <2>2, <2>3
<1>6. ASSUME NEW k \in Job,
             ListenerClaims(k) \/ ListenerSkips(k) \/ ListenerGets(k) \/ ListenerSends(k)
      PROVE AnswerOf(j)'
  <2>1. CASE ListenerClaims(k)
    <3>1. /\ UNCHANGED <<pc, sent, resultTTL, published, missed>>
          /\ TakeAnnouncement(k)
          /\ lis' = [lis EXCEPT ![k] = "claimed"]
          /\ lockTTL' = [lockTTL EXCEPT ![k] = TTL]
      BY <2>1 DEF ListenerClaims, TakeAnnouncement, Claim
    <3>2. k \in Unheard /\ \A i \in Job : i # k => (i \in Unheard' <=> i \in Unheard)
      BY <3>1, UnheardAfterTake
    <3>3. CASE k # j
      BY <1>1, <1>b, <3>1, <3>2, <3>3
    <3>4. CASE k = j
      BY <1>a, <1>b, <3>1, <3>2, <3>4 DEF AnswerOf, Coming, Excused, HasResult
    <3> QED BY <3>3, <3>4
  <2>2. CASE ListenerSkips(k)
    <3>1. /\ UNCHANGED <<pc, lis, sent, lockTTL, resultTTL, published, missed>>
          /\ TakeAnnouncement(k) /\ lis[k] = "idle" /\ lockTTL[k] # 0
      BY <2>2 DEF ListenerSkips, TakeAnnouncement, ListenerIdle, ClaimFree
    <3>2. k \in Unheard /\ \A i \in Job : i # k => (i \in Unheard' <=> i \in Unheard)
      BY <3>1, UnheardAfterTake
    <3>3. CASE k # j
      BY <1>1, <3>1, <3>2, <3>3
    <3>4. CASE k = j
      BY <1>a, <1>b, <3>1, <3>2, <3>4 DEF AnswerOf, Coming, Excused, HasResult, ClaimFree
    <3> QED BY <3>3, <3>4
  <2>3. CASE ListenerGets(k)
    <3>1. /\ UNCHANGED <<pc, sent, lockTTL, resultTTL, inbox, published, missed>>
          /\ lis[k] = "claimed"
          /\ \/ HasResult(k) /\ lis' = [lis EXCEPT ![k] = "sending"]
             \/ ~HasResult(k) /\ lis' = [lis EXCEPT ![k] = "idle"]
      BY <2>3 DEF ListenerGets
    <3>2. CASE k # j
      BY <1>1, <1>b, <3>1, <3>2 DEF Unheard
    <3>3. CASE k = j
      BY <1>a, <1>b, <3>1, <3>3
         DEF AnswerOf, Coming, Excused, HasResult, ClaimFree, Unheard
    <3> QED BY <3>2, <3>3
  <2>4. CASE ListenerSends(k)
    <3>1. /\ UNCHANGED <<pc, lockTTL, resultTTL, inbox, published, missed>>
          /\ lis' = [lis EXCEPT ![k] = "idle"]
          /\ sent' = [sent EXCEPT ![k] = @ + 1]
      BY <2>4 DEF ListenerSends
    <3>2. CASE k # j
      BY <1>1, <1>b, <3>1, <3>2 DEF Unheard
    <3>3. CASE k = j
      BY <1>b, <3>1, <3>3, ExcusedAnswer DEF Excused
    <3> QED BY <3>2, <3>3
  <2> QED BY <1>6, <2>1, <2>2, <2>3, <2>4
<1>7. CASE ApiCrash
  <2>1. /\ UNCHANGED <<sent, lockTTL, resultTTL, published>>
        /\ inbox' = <<>> /\ lis'[j] = "idle" /\ pc'[j] # "sending"
        /\ missed \subseteq missed'
        /\ j \in Unheard \/ pc[j] = "sending" \/ lis[j] # "idle" => j \in missed'
    BY <1>7 DEF ApiCrash
  <2>2. CASE j \in Unheard \/ pc[j] = "sending" \/ lis[j] # "idle"
    BY <2>1, <2>2, ExcusedAnswer DEF Excused
  <2>3. CASE ~(j \in Unheard \/ pc[j] = "sending" \/ lis[j] # "idle")
    <3>1. j \notin Unheard'
      BY <2>1 DEF Unheard
    <3> QED BY <1>1, <2>1, <2>3, <3>1
  <2> QED BY <2>2, <2>3
<1>8. ASSUME NEW k \in Job, RaceFails(k) \/ RaceSendFails(k) \/ RaceDrops(k) PROVE AnswerOf(j)'
  <2>1. /\ UNCHANGED <<lis, sent, resultTTL, inbox, published>>
        /\ pc' = [pc EXCEPT ![k] = "done"]
        /\ \/ missed' = missed \cup {k} /\ lockTTL' \in {lockTTL, [lockTTL EXCEPT ![k] = TTL]}
           \/ pc[k] # "sending" /\ UNCHANGED <<missed, lockTTL>>
    BY <1>8 DEF RaceFails, RaceSendFails, RaceDrops, Claim, Goto
  <2>2. CASE k # j
    BY <1>1, <1>b, <2>1, <2>2 DEF Unheard
  <2>3. CASE k = j /\ j \in missed'
    BY <2>3, ExcusedAnswer DEF Excused
  <2>4. CASE k = j /\ j \notin missed'
    BY <1>1, <1>b, <2>1, <2>4 DEF Unheard
  <2> QED BY <2>2, <2>3, <2>4
<1>9. ASSUME NEW k \in Job, ListenerFails(k) \/ ListenerSendFails(k) \/ ListenerDrops(k)
      PROVE AnswerOf(j)'
  <2>1. /\ UNCHANGED <<pc, sent, resultTTL, published>>
        /\ missed' = missed \cup {k}
        /\ lis' = lis \/ lis' = [lis EXCEPT ![k] = "idle"]
        /\ lockTTL' = lockTTL \/ lockTTL' = [lockTTL EXCEPT ![k] = TTL]
        /\ TakeAnnouncement(k) \/ inbox' = inbox
    BY <1>9 DEF ListenerFails, ListenerSendFails, ListenerDrops, TakeAnnouncement, Claim
  <2>2. CASE k = j
    BY <2>1, <2>2, ExcusedAnswer DEF Excused
  <2>3. CASE k # j
    <3>1. j \in Unheard' <=> j \in Unheard
      BY <2>1, <2>3, UnheardAfterTake DEF Unheard
    <3> QED BY <1>1, <1>b, <2>1, <2>3, <3>1
  <2> QED BY <2>2, <2>3
<1> QED
  BY <1>2, <1>3, <1>4, <1>5, <1>6, <1>7, <1>8, <1>9
     DEF ApiNext, Push, ListenerStep, ApiFault

(* A result that expires unread is a wasted one; the clock frees only locks*)
(* that are spent.                                                         *)
LEMMA TickAnswer ==
  ASSUME TypeOK, AnswerInv, Tick
  PROVE  AnswerInv'
<1> SUFFICES ASSUME NEW j \in Job PROVE AnswerOf(j)'
  BY DEF AnswerInv
<1>1. /\ AnswerOf(j)
      /\ UNCHANGED <<pc, lis, sent, inbox, published, task>>
      /\ missed' = missed \cup {i \in Job : resultTTL[i] = 1}
      /\ resultTTL'[j] = IF resultTTL[j] > 0 THEN resultTTL[j] - 1 ELSE 0
      /\ lockTTL'[j] = IF lockTTL[j] > 0 THEN lockTTL[j] - 1 ELSE 0
      /\ resultTTL[j] \in Nat /\ lockTTL[j] \in Nat
  BY DEF AnswerInv, Tick, ExpireKeys, Older, apiVars, workerVars, TypeOK, RedisTypeOK
<1>2. CASE resultTTL[j] = 1
  BY <1>1, <1>2, ExcusedAnswer DEF Excused
<1>3. CASE resultTTL[j] # 1
  <2>1. HasResult(j)' <=> HasResult(j)
    BY <1>1, <1>3 DEF HasResult
  <2> QED BY <1>1, <2>1 DEF AnswerOf, Coming, Excused, ClaimFree, Unheard
<1> QED BY <1>2, <1>3

(* AnnouncedIsAnswered: the race and the listener never both leave an      *)
(* announced job to the other.                                             *)
THEOREM AnnouncedJobsAreAnswered == Spec => []AnnouncedIsAnswered
<1>1. TypeOK /\ AnswerInv /\ [Next]_vars => AnswerInv'
  <2> SUFFICES ASSUME TypeOK, AnswerInv, [Next]_vars PROVE AnswerInv'
    OBVIOUS
  <2>1. CASE UNCHANGED vars
    <3> SUFFICES ASSUME NEW j \in Job PROVE AnswerOf(j)'
      BY DEF AnswerInv
    <3> QED
      BY <2>1, AnswerFrame
         DEF AnswerInv, vars, redisVars, resultVars, pubsubVars, apiVars, workerVars,
             HasResult, Unheard
  <2> QED BY <2>1, WorkerAnswer, ApiAnswer, TickAnswer DEF Next
<1>2. TypeOK /\ AnswerInv => AnnouncedIsAnswered
  <2> SUFFICES ASSUME AnswerInv, NEW j \in published \ missed, j \in Job
               PROVE  sent[j] > 0 \/ Coming(j)
    BY DEF AnnouncedIsAnswered, TypeOK, RedisTypeOK
  <2> QED BY DEF AnswerInv, AnswerOf, Excused
<1> QED BY <1>1, <1>2, InitAnswer, TypeCorrect, PTL DEF Spec

(* A message is on the stream or pending, so that a run of the worker will *)
(* take it; or it is answered, or its answer is coming; or an announcement *)
(* or a claim of it was seen to be wasted. Nothing is lost without that.   *)
NoMessageForgotten ==
  \A j \in Job :
    kind[j] = "message" =>
      Queued(j) \/ j \in pel \/ sent[j] > 0 \/ Coming(j) \/ j \in missed

(* NoMessageForgotten: what _process pushes is not lost on the way, from   *)
(* the stream to channel.send, whatever fails.                             *)
THEOREM MessagesAreNotForgotten == Spec => []NoMessageForgotten
<1>1. AckedWasPublished /\ AnnouncedIsAnswered => NoMessageForgotten
  BY DEF AckedWasPublished, AnnouncedIsAnswered, NoMessageForgotten, Served
<1> QED BY <1>1, NoJobForgotten, AnnouncedJobsAreAnswered, PTL

------------------------------------------------------------------------------
(* The job path implements AnswerWindow. *)

(* A claim that is spent without an answer is a lost one.                  *)
LEMMA LoseOne ==
  ASSUME NEW k \in Job, stored' = stored, sent' = sent,
         Quiet[k] = 0, Quiet' = [Quiet EXCEPT ![k] = TTL]
  PROVE  Promise!Next
<1>1. Quiet = [j \in Job |-> Quiet[j]]
  BY DEF Quiet
<1>2. Quiet' = [j \in Job |-> IF j \in {k} THEN TTL ELSE Quiet[j]]
  BY <1>1
<1>3. Promise!Lose({k})
  BY <1>2 DEF Promise!Lose
<1> QED BY <1>3 DEF Promise!Next

(* A delivery that keeps locks, claims and counts is a stutter.            *)
LEMMA QuietFrame ==
  ASSUME \A j \in Job : Quiet'[j] = Quiet[j]
  PROVE  Quiet' = Quiet
BY DEF Quiet

LEMMA WorkerImplements ==
  ASSUME WorkerNext, UNCHANGED apiVars
  PROVE  [Promise!Next]_<<stored, sent, Quiet>>
<1>1. sent' = sent /\ Quiet' = Quiet
  BY WorkerFrame DEF apiVars, Quiet, Spent
<1>2. CASE resultVars' = resultVars
  BY <1>1, <1>2 DEF resultVars
<1>3. ASSUME NEW k \in Job, Setex(k) PROVE Promise!Next
  BY <1>1, <1>3 DEF Setex, Promise!Result, Promise!Next
<1> QED BY <1>2, <1>3, WorkerFrame

LEMMA TickImplements ==
  ASSUME Tick
  PROVE  Promise!Next
<1>1. /\ \A j \in Job : Spent(j) /\ Spent(j)'
      /\ sent' = sent /\ stored' = stored
      /\ lockTTL' = Older(lockTTL)
  BY DEF Tick, Prompt, ListenerIdle, ExpireKeys, Spent, apiVars
<1>2. \A j \in Job : Quiet[j] = lockTTL[j] /\ Quiet'[j] = lockTTL'[j]
  BY <1>1 DEF Quiet
<1>3. Quiet' = [j \in Job |-> IF Quiet[j] > 0 THEN Quiet[j] - 1 ELSE 0]
  BY <1>1, <1>2 DEF Quiet, Older
<1>4. Promise!Tick
  BY <1>1, <1>3 DEF Promise!Tick
<1> QED BY <1>4 DEF Promise!Next

(* What each claim of j stands for.                                        *)
LEMMA QuietFacts ==
  ASSUME TypeOK, DeliveryInv, NEW j \in Job
  PROVE  /\ Quiet[j] = IF Spent(j) THEN lockTTL[j] ELSE 0
         /\ ~Spent(j) => lockTTL[j] = TTL
         /\ pc[j] = "sending" => lis[j] = "idle"
         /\ pc[j] = "sending" \/ lis[j] = "sending" => sent[j] < stored[j]
         /\ lockTTL[j] = 0 => Spent(j)
         /\ sent[j] \in Nat /\ stored[j] \in Nat /\ lockTTL[j] \in Nat
<1>1. DeliveryOf(j) /\ sent[j] \in Nat /\ stored[j] \in Nat /\ lockTTL[j] \in Nat
  BY DEF DeliveryInv, TypeOK, RedisTypeOK, ApiTypeOK
<1> QED
  BY <1>1 DEF DeliveryOf, Quiet, Spent, InFlight, OpenClaim, Claimable

(* An answer of the race or of the listener spends its claim.              *)
LEMMA AnswerImplements ==
  ASSUME TypeOK, DeliveryInv, NEW k \in Job, RaceSends(k) \/ ListenerSends(k)
  PROVE  Promise!Next
<1> USE DEF redisVars, resultVars
<1>1. /\ stored' = stored /\ lockTTL' = lockTTL
      /\ sent' = [sent EXCEPT ![k] = @ + 1]
      /\ \/ pc[k] = "sending" /\ pc' = [pc EXCEPT ![k] = "done"] /\ lis' = lis
         \/ lis[k] = "sending" /\ lis' = [lis EXCEPT ![k] = "idle"] /\ pc' = pc
  BY DEF RaceSends, ListenerSends, Goto
<1>2. /\ pc \in [Job -> PipelineStates]
      /\ lis \in [Job -> {"idle", "claimed", "sending"}]
  BY DEF TypeOK, ApiTypeOK
<1>3. sent[k] < stored[k] /\ ~Spent(k) /\ Spent(k)' /\ lockTTL[k] = TTL /\ Quiet[k] = 0
  BY <1>1, <1>2, QuietFacts DEF Spent
<1>4. \A j \in Job : j # k => (Spent(j)' <=> Spent(j))
  BY <1>1, <1>2 DEF Spent
<1>5. Quiet' = [Quiet EXCEPT ![k] = TTL]
  BY <1>1, <1>3, <1>4 DEF Quiet
<1>6. Promise!Answer(k)
  BY <1>1, <1>3, <1>5 DEF Promise!Answer
<1> QED BY <1>6 DEF Promise!Next

(* Everything else of one job: its claim is kept, taken or lost.           *)
LEMMA ClaimImplements ==
  ASSUME TypeOK, DeliveryInv, NEW k \in Job,
         stored' = stored, sent' = sent,
         lockTTL' = lockTTL \/ (lockTTL[k] = 0 /\ lockTTL' = [lockTTL EXCEPT ![k] = TTL]),
         \A j \in Job : j # k => (Spent(j)' <=> Spent(j)),
         Spent(k) /\ ~Spent(k)' => lockTTL[k] = 0
  PROVE  [Promise!Next]_<<stored, sent, Quiet>>
<1>1. /\ Quiet[k] = IF Spent(k) THEN lockTTL[k] ELSE 0
      /\ ~Spent(k) => lockTTL[k] = TTL
      /\ lockTTL[k] = 0 => Spent(k)
  BY QuietFacts
<1>2. lockTTL \in [Job -> 0..TTL]
  BY DEF TypeOK, RedisTypeOK
<1>3. CASE Quiet'[k] = Quiet[k]
  <2>1. \A j \in Job : Quiet'[j] = Quiet[j]
    BY <1>2, <1>3 DEF Quiet
  <2> QED BY <2>1, QuietFrame
<1>4. CASE Quiet[k] = 0 /\ Quiet'[k] = TTL
  <2>1. Quiet' = [Quiet EXCEPT ![k] = TTL]
    BY <1>2, <1>4 DEF Quiet
  <2> QED BY <1>4, <2>1, LoseOne
<1>5. Quiet'[k] = Quiet[k] \/ (Quiet[k] = 0 /\ Quiet'[k] = TTL)
  <2>1. Quiet'[k] = IF Spent(k)' THEN lockTTL'[k] ELSE 0
    BY DEF Quiet
  <2> QED BY <1>1, <1>2, <2>1
<1> QED BY <1>3, <1>4, <1>5

LEMMA ApiImplements ==
  ASSUME TypeOK, DeliveryInv, ApiNext
  PROVE  [Promise!Next]_<<stored, sent, Quiet>>
<1> USE DEF redisVars, queueVars, resultVars, pubsubVars, apiVars
<1>a. /\ pc \in [Job -> PipelineStates]
      /\ lis \in [Job -> {"idle", "claimed", "sending"}]
      /\ lockTTL \in [Job -> 0..TTL]
  BY DEF TypeOK, RedisTypeOK, ApiTypeOK
<1>b. \A j \in Job : /\ pc[j] = "sending" => lis[j] = "idle"
                     /\ lockTTL[j] = 0 => Spent(j)
  BY QuietFacts
<1>1. ASSUME NEW k \in Job, PushMessage(k) \/ PushOther(k)
      PROVE [Promise!Next]_<<stored, sent, Quiet>>
  <2>1. /\ UNCHANGED <<stored, sent, lockTTL>>
        /\ \A j \in Job : Spent(j)' <=> Spent(j)
    BY <1>1, <1>a DEF PushMessage, PushOther, Goto, Spent
  <2> QED BY <2>1, ClaimImplements
<1>2. ASSUME NEW k \in Job, PipelineStep(k)
      PROVE [Promise!Next]_<<stored, sent, Quiet>>
  <2>1. CASE RaceSends(k)
    BY <2>1, AnswerImplements
  <2>2. CASE RaceWins(k)
    <3>1. /\ UNCHANGED <<stored, sent, lis>>
          /\ lockTTL[k] = 0 /\ lockTTL' = [lockTTL EXCEPT ![k] = TTL]
          /\ pc' = [pc EXCEPT ![k] = "sending"]
      BY <2>2 DEF RaceWins, ClaimFree, Claim, Goto
    <3>2. \A j \in Job : j # k => (Spent(j)' <=> Spent(j))
      BY <1>a, <3>1 DEF Spent
    <3> QED BY <3>1, <3>2, ClaimImplements
  <2>3. CASE RaceSeesResult(k) \/ RaceTimesOut(k) \/ RaceLosesClaim(k) \/ SendAck(k)
    <3>1. /\ UNCHANGED <<stored, sent, lis, lockTTL>>
          /\ \A j \in Job : Spent(j)' <=> Spent(j)
      BY <2>3, <1>a DEF RaceSeesResult, RaceTimesOut, RaceLosesClaim, SendAck, Goto, Spent
    <3> QED BY <3>1, ClaimImplements
  <2> QED BY <1>2, <2>1, <2>2, <2>3 DEF PipelineStep
<1>3. CASE Subscribe \/ Disconnect
  <2>1. UNCHANGED <<stored, sent, lis, pc, lockTTL>>
    BY <1>3 DEF Subscribe, Disconnect
  <2>2. \A j \in Job : Quiet'[j] = Quiet[j]
    BY <2>1 DEF Quiet, Spent
  <2> QED BY <2>1, <2>2, QuietFrame
<1>4. ASSUME NEW k \in Job,
             ListenerClaims(k) \/ ListenerSkips(k) \/ ListenerGets(k) \/ ListenerSends(k)
      PROVE [Promise!Next]_<<stored, sent, Quiet>>
  <2>1. CASE ListenerSends(k)
    BY <2>1, AnswerImplements
  <2>2. CASE ListenerClaims(k)
    <3>1. /\ UNCHANGED <<stored, sent, pc>>
          /\ lockTTL[k] = 0 /\ lockTTL' = [lockTTL EXCEPT ![k] = TTL]
          /\ lis' = [lis EXCEPT ![k] = "claimed"]
      BY <2>2 DEF ListenerClaims, ClaimFree, Claim
    <3>2. \A j \in Job : j # k => (Spent(j)' <=> Spent(j))
      BY <1>a, <3>1 DEF Spent
    <3> QED BY <3>1, <3>2, ClaimImplements
  <2>3. CASE ListenerSkips(k)
    <3>1. /\ UNCHANGED <<stored, sent, lockTTL>>
          /\ \A j \in Job : Spent(j)' <=> Spent(j)
      BY <2>3 DEF ListenerSkips, Spent
    <3> QED BY <3>1, ClaimImplements
  <2>4. CASE ListenerGets(k)
    <3>1. /\ UNCHANGED <<stored, sent, pc, lockTTL>>
          /\ lis[k] = "claimed"
          /\ lis' = [lis EXCEPT ![k] = IF HasResult(k) THEN "sending" ELSE "idle"]
      BY <2>4 DEF ListenerGets
    <3>2. /\ \A j \in Job : j # k => (Spent(j)' <=> Spent(j))
          /\ ~Spent(k)
      BY <1>a, <3>1 DEF Spent
    <3> QED BY <3>1, <3>2, ClaimImplements
  <2> QED BY <1>4, <2>1, <2>2, <2>3, <2>4
<1>5. CASE ApiCrash
  <2>1. /\ UNCHANGED <<stored, sent, lockTTL>>
        /\ \A j \in Job : Spent(j)'
    BY <1>5 DEF ApiCrash, Spent
  <2> DEFINE S == {j \in Job : ~Spent(j)}
  <2>2. \A j \in Job : /\ Quiet[j] = IF Spent(j) THEN lockTTL[j] ELSE 0
                       /\ ~Spent(j) => lockTTL[j] = TTL
    BY QuietFacts
  <2>3. Quiet' = [j \in Job |-> lockTTL[j]]
    BY <2>1 DEF Quiet
  <2>4. Quiet' = [j \in Job |-> IF j \in S THEN TTL ELSE Quiet[j]]
    BY <2>2, <2>3
  <2>5. Promise!Lose(S)
    BY <2>1, <2>2, <2>4 DEF Promise!Lose
  <2> QED BY <2>5 DEF Promise!Next
<1>6. ASSUME NEW k \in Job, RaceFails(k) \/ RaceSendFails(k) \/ RaceDrops(k)
      PROVE [Promise!Next]_<<stored, sent, Quiet>>
  <2>1. /\ UNCHANGED <<stored, sent, lis>>
        /\ pc' = [pc EXCEPT ![k] = "done"]
        /\ \/ lockTTL' = lockTTL
           \/ lockTTL[k] = 0 /\ lockTTL' = [lockTTL EXCEPT ![k] = TTL]
    BY <1>6 DEF RaceFails, RaceSendFails, RaceDrops, ClaimFree, Claim, Goto
  <2>2. /\ \A j \in Job : j # k => (Spent(j)' <=> Spent(j))
        /\ Spent(k) => Spent(k)'
    BY <1>a, <2>1 DEF Spent
  <2> QED BY <2>1, <2>2, ClaimImplements
<1>7. ASSUME NEW k \in Job, ListenerFails(k) \/ ListenerSendFails(k) \/ ListenerDrops(k)
      PROVE [Promise!Next]_<<stored, sent, Quiet>>
  <2>1. /\ UNCHANGED <<stored, sent, pc>>
        /\ lis' = lis \/ lis' = [lis EXCEPT ![k] = "idle"]
        /\ \/ lockTTL' = lockTTL
           \/ lockTTL[k] = 0 /\ lockTTL' = [lockTTL EXCEPT ![k] = TTL]
    BY <1>7 DEF ListenerFails, ListenerSendFails, ListenerDrops, ClaimFree, Claim
  <2>2. /\ \A j \in Job : j # k => (Spent(j)' <=> Spent(j))
        /\ Spent(k) => Spent(k)'
    BY <1>a, <2>1 DEF Spent
  <2> QED BY <2>1, <2>2, ClaimImplements
<1> QED
  BY <1>1, <1>2, <1>3, <1>4, <1>5, <1>6, <1>7
     DEF ApiNext, Push, ListenerStep, ApiFault

LEMMA InitImplements == Init => Promise!Init
<1> SUFFICES ASSUME Init PROVE Promise!Init
  OBVIOUS
<1>1. /\ stored = [j \in Job |-> 0] /\ sent = [j \in Job |-> 0]
      /\ \A j \in Job : lockTTL[j] = 0
  BY DEF Init, RedisInit, ApiInit
<1>2. Quiet = [j \in Job |-> 0]
  BY <1>1 DEF Quiet
<1> QED BY <1>1, <1>2 DEF Promise!Init

(* AnswersSpaced: every behaviour of the job path is one of AnswerWindow:  *)
(* answers are spaced by a window and each has a result of its own.        *)
THEOREM ImplementsAnswerWindow == Spec => AnswersSpaced
<1>1. TypeOK /\ DeliveryInv /\ [Next]_vars => [Promise!Next]_<<stored, sent, Quiet>>
  <2> SUFFICES ASSUME TypeOK, DeliveryInv, [Next]_vars
               PROVE  [Promise!Next]_<<stored, sent, Quiet>>
    OBVIOUS
  <2>1. CASE UNCHANGED vars
    <3>1. UNCHANGED <<stored, sent, lis, pc, lockTTL>>
      BY <2>1 DEF vars, redisVars, resultVars, apiVars
    <3>2. \A j \in Job : Quiet'[j] = Quiet[j]
      BY <3>1 DEF Quiet, Spent
    <3> QED BY <3>1, <3>2, QuietFrame
  <2> QED BY <2>1, WorkerImplements, ApiImplements, TickImplements DEF Next
<1> QED
  BY <1>1, InitImplements, TypeCorrect, DeliveryHolds, PTL
     DEF Spec, AnswersSpaced, Promise!Spec, Promise!absVars
==============================================================================
