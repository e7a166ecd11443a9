-------------------------- MODULE Proactive_proofs ---------------------------
(***************************************************************************)
(* Theorems about Proactive, for every calendar, every set of categories   *)
(* and reminders, all limits and all disturbances.                         *)
(***************************************************************************)
EXTENDS Proactive, Integers, FiniteSetTheorems, TLAPS

USE ClockAssumption, LimitAssumption, CategoryAssumption, PlanAssumption,
    BatchAssumption, JobAssumption, ReminderAssumption, RequeuedAssumption
    DEF ClockAssumption, LimitAssumption, CategoryAssumption, PlanAssumption,
        BatchAssumption, JobAssumption, ReminderAssumption, RequeuedAssumption,
        Job, throttleVars, schedulerVars, planVars, dispatchVars, taskVars

------------------------------------------------------------------------------
(* Type correctness. *)

LEMMA InitTypeOK == Init => TypeOK
BY DEF Init, ThrottleInit, SchedulerInit, TaskInit, TypeOK, ThrottleTypeOK,
       SchedulerTypeOK, TaskTypeOK

LEMMA StrikeType ==
  ASSUME NEW K, struck \subseteq Disturbances, Strike(K)
  PROVE  struck' \subseteq Disturbances
BY DEF Strike

LEMMA ProductGap ==
  ASSUME NEW d \in Nat, NEW x \in Nat, NEW y \in Nat, x >= y + 1
  PROVE  d * x >= d * y + d
<1>1. PICK w \in Nat : x = y + 1 + w
  BY x - y - 1 \in Nat
<1>2. d * x = d * y + d + d * w
  BY <1>1
<1>3. d * w \in Nat
  OBVIOUS
<1> QED BY <1>2, <1>3

LEMMA DivMonotone ==
  ASSUME NEW a \in Nat, NEW b \in Nat, NEW d \in Nat, d > 0, a <= b
  PROVE  a \div d <= b \div d
<1>1. a = d * (a \div d) + (a % d) /\ a % d >= 0
  OBVIOUS
<1>2. b = d * (b \div d) + (b % d) /\ b % d < d
  OBVIOUS
<1>3. a \div d \in Nat /\ b \div d \in Nat
  OBVIOUS
<1>4. SUFFICES ASSUME a \div d >= (b \div d) + 1
               PROVE  FALSE
  BY <1>3
<1>5. \A x, y \in Nat : x >= y + 1 => d * x >= d * y + d
  BY ProductGap
<1>6. d * (a \div d) >= d * (b \div d) + d
  BY <1>3, <1>4, <1>5
<1> QED BY <1>1, <1>2, <1>3, <1>6

LEMMA DateType ==
  ASSUME now \in Nat
  PROVE  LocalDate \in Nat
<1>1. now + Zone \in Nat
  OBVIOUS
<1>2. Day \in Nat /\ Day > 0
  OBVIOUS
<1>3. \A a, d \in Nat : d > 0 => a \div d \in Nat
  OBVIOUS
<1> QED BY <1>1, <1>2, <1>3 DEF LocalDate

LEMMA DateInRange ==
  ASSUME now \in 0..Horizon
  PROVE  LocalDate \in Date
<1>1. now + Zone \in Nat /\ Horizon + Zone \in Nat /\ now + Zone <= Horizon + Zone
  OBVIOUS
<1>2. Day \in Nat /\ Day > 0
  OBVIOUS
<1>3. LocalDate <= (Horizon + Zone) \div Day
  BY <1>1, <1>2, DivMonotone DEF LocalDate
<1>4. LocalDate \in Nat /\ (Horizon + Zone) \div Day \in Int
  BY <1>1, <1>2, DateType
<1> QED BY <1>3, <1>4 DEF Date

(* A time plan_day draws, and each shift of it, is a time. *)
LEMMA SlotType ==
  ASSUME now \in Nat, NEW c \in Category, NEW t \in JitterTimes(c), NEW k \in 0..3
  PROVE  t + k * Shift \in Nat
<1>1. PICK h \in LocalHour..WindowEnd[c] : t = now + h - LocalHour
  BY DEF JitterTimes
<1>2. LocalHour \in Int
  BY DEF LocalHour
<1>3. h \in Int /\ h >= LocalHour
  BY <1>1, <1>2
<1>4. t \in Nat
  BY <1>1, <1>2, <1>3
<1>5. k * Shift \in Nat
  <2>1. k = 0 \/ k = 1 \/ k = 2 \/ k = 3
    OBVIOUS
  <2> QED BY <2>1
<1> QED BY <1>4, <1>5

LEMMA PlanTypes ==
  ASSUME TypeOK, PlanStep \/ PlanFails, UNCHANGED taskVars
  PROVE  TypeOK'
<1> USE DEF TypeOK, ThrottleTypeOK, SchedulerTypeOK, TaskTypeOK
<1>1. CASE PlanStart
  <2>1. planned' \subseteq Nat
    BY <1>1, DateType DEF PlanStart, Draws
  <2>2. toPlan' \subseteq Category
    BY <1>1 DEF PlanStart, Draws
  <2>3. pc' \in {"plan", "fetch"}
    BY <1>1 DEF PlanStart, Draws
  <2> QED BY <1>1, <2>1, <2>2, <2>3 DEF PlanStart, Draws
<1>2. ASSUME NEW c \in Category, PlanSkips(c)
      PROVE  TypeOK'
  BY <1>2 DEF PlanSkips, AfterPlanning
<1>3. ASSUME NEW c \in Category, PlanPlaces(c)
      PROVE  TypeOK'
  <2>1. PICK t \in JitterTimes(c), k \in 0..3 :
          score' = [score EXCEPT ![<<c, LocalDate>>] = t + k * Shift]
    BY <1>3 DEF PlanPlaces, Places
  <2>2. score' \in [Job -> Nat]
    BY <2>1, SlotType
  <2>3. plannedAt' \in [PoolJob -> Nat]
    BY <1>3 DEF PlanPlaces, Places
  <2>4. pc' \in {"plan", "fetch"} /\ toPlan' \subseteq Category
    BY <1>3 DEF PlanPlaces, Places, AfterPlanning
  <2> QED BY <1>3, <2>2, <2>3, <2>4 DEF PlanPlaces, Places
<1>4. CASE PlanFails
  <2>1. struck' \subseteq Disturbances
    BY <1>4, StrikeType DEF PlanFails, Disturb
  <2> QED BY <1>4, <2>1 DEF PlanFails
<1> QED BY <1>1, <1>2, <1>3, <1>4 DEF PlanStep

LEMMA BatchTypes ==
  ASSUME TypeOK, Fetch \/ ClaimStep \/ PollFails, UNCHANGED taskVars
  PROVE  TypeOK'
<1> USE DEF TypeOK, ThrottleTypeOK, SchedulerTypeOK, TaskTypeOK
<1>1. CASE Fetch
  <2>1. batch' \subseteq [job : Job, at : Nat]
    BY <1>1 DEF Fetch
  <2>2. pc' \in {"poll", "next"}
    BY <1>1 DEF Fetch
  <2> QED BY <1>1, <2>1, <2>2 DEF Fetch
<1>2. ASSUME NEW e \in batch, ClaimLost(e)
      PROVE  TypeOK'
  BY <1>2 DEF ClaimLost, TakesNext, NextInBatch
<1>3. ASSUME NEW e \in batch, Claim(e)
      PROVE  TypeOK'
  <2>1. score' \in [Job -> Nat]
    BY <1>3 DEF Claim
  <2>2. pc' \in {"poll", "next", "safety"} /\ hand' \subseteq Job
    BY <1>3 DEF Claim, Judges, NextInBatch
  <2>3. batch' \subseteq [job : Job, at : Nat]
    BY <1>3 DEF Claim, TakesNext
  <2> QED BY <1>3, <2>1, <2>2, <2>3 DEF Claim, TakesNext
<1>4. CASE PollFails
  <2>1. struck' \subseteq Disturbances
    BY <1>4, StrikeType DEF PollFails, Disturb
  <2>2. fate' \in [Reminder -> {"none", "limited", "duplicate", "failed"}]
    BY <1>4 DEF PollFails
  <2> QED BY <1>4, <2>1, <2>2 DEF PollFails
<1> QED BY <1>1, <1>2, <1>3, <1>4 DEF ClaimStep

(* A job that is dropped leaves every variable with its type. *)
LEMMA DropTypes ==
  ASSUME TypeOK, UNCHANGED taskVars, ThrottleTypeOK', NEW j \in Job, NEW from,
         NEW why \in {"limited", "duplicate"}, Drops(j, from, why)
  PROVE  TypeOK'
<1> USE DEF TypeOK, SchedulerTypeOK, TaskTypeOK
<1>1. fate' \in [Reminder -> {"none", "limited", "duplicate", "failed"}]
  BY DEF Drops
<1>2. pc' \in {"poll", "next"} /\ hand' = {}
  BY DEF Drops, NextInBatch
<1> QED BY <1>1, <1>2 DEF Drops

LEMMA HandTypes ==
  ASSUME TypeOK, UNCHANGED taskVars, NEW j \in Job,
         \/ DeadManTrips(j) \/ StillDisabled(j) \/ IsSafe(j)
         \/ RateLimited(j) \/ RateAllowed(j) \/ QuietDefers(j) \/ Duplicate(j)
         \/ IsNew(j) \/ Dispatch(j) \/ RecordCooldown(j)
  PROVE  TypeOK'
<1> USE DEF TypeOK, ThrottleTypeOK
<1>1. CASE DeadManTrips(j)
  <2>1. ThrottleTypeOK'
    BY <1>1 DEF DeadManTrips
  <2> QED BY <1>1, <2>1, DropTypes DEF DeadManTrips
<1>2. CASE StillDisabled(j) \/ RateLimited(j) \/ Duplicate(j)
  <2>1. ThrottleTypeOK'
    BY <1>2 DEF StillDisabled, RateLimited, Duplicate
  <2> QED BY <1>2, <2>1, DropTypes DEF StillDisabled, RateLimited, Duplicate
<1> USE DEF SchedulerTypeOK, TaskTypeOK
<1>3. CASE IsSafe(j) \/ RateAllowed(j)
  BY <1>3 DEF IsSafe, RateAllowed, Passes
<1>4. CASE QuietDefers(j)
  <2>1. score' \in [Job -> Nat]
    BY <1>4 DEF QuietDefers
  <2>2. pc' \in {"poll", "next"}
    BY <1>4 DEF QuietDefers, NextInBatch
  <2> QED BY <1>4, <2>1, <2>2 DEF QuietDefers
<1>5. CASE IsNew(j)
  <2>1. IdemKey(j) \in Category \cup Reminder
    BY DEF IdemKey, PoolJob
  <2> QED BY <1>5, <2>1 DEF IsNew, TakesKey, Passes
<1>6. CASE Dispatch(j)
  <2>1. queued' \in [Job -> Nat]
    BY <1>6 DEF Dispatch
  <2>2. CASE j \in PoolJob
    <3>1. j[1] \in Category
      BY <2>2 DEF PoolJob
    <3>2. dispatches' \in [PoolJob -> Nat]
      BY <1>6, <2>2 DEF Dispatch
    <3>3. lastSent' \in [Category -> Nat]
      BY <1>6, <2>2 DEF Dispatch
    <3>4. plannedAt' \in [PoolJob -> Nat]
      BY <1>6, <2>2 DEF Dispatch
    <3>5. sentToday' \subseteq Category
      BY <1>6, <2>2, <3>1 DEF Dispatch
    <3> QED BY <1>6, <2>1, <3>2, <3>3, <3>4, <3>5 DEF Dispatch
  <2>3. CASE j \notin PoolJob
    BY <1>6, <2>1, <2>3 DEF Dispatch
  <2> QED BY <2>2, <2>3
<1>7. CASE RecordCooldown(j)
  <2>1. cooldownTil' \in [Category -> Nat]
    <3>1. CASE j \in PoolJob
      <4>1. j[1] \in Category
        BY <3>1 DEF PoolJob
      <4>2. now + Cooldown[j[1]] \in Nat
        BY <4>1
      <4> QED BY <1>7, <3>1, <4>2 DEF RecordCooldown
    <3>2. CASE j \notin PoolJob
      BY <1>7, <3>2 DEF RecordCooldown
    <3> QED BY <3>1, <3>2
  <2>2. pc' \in {"poll", "next"} /\ hand' = {}
    BY <1>7 DEF RecordCooldown, NextInBatch
  <2> QED BY <1>7, <2>1, <2>2 DEF RecordCooldown
<1> QED BY <1>1, <1>2, <1>3, <1>4, <1>5, <1>6, <1>7

LEMMA ScheduleTypes ==
  ASSUME TypeOK, NEW t \in Reminder, NEW due \in Nat, NEW K, Schedules(t, due, K)
  PROVE  /\ score' \in [Job -> Nat]
         /\ fate' \in [Reminder -> {"none", "limited", "duplicate", "failed"}]
BY DEF Schedules, TypeOK, SchedulerTypeOK

LEMMA UserTypes ==
  ASSUME TypeOK, UserNext
  PROVE  TypeOK'
<1> USE DEF TypeOK, ThrottleTypeOK, SchedulerTypeOK, TaskTypeOK
<1>1. ASSUME NEW t \in Reminder, NEW K, SetsDue(t, K)
      PROVE  /\ dueAt' \in [Recurring -> Nat]
             /\ score' \in [Job -> Nat]
             /\ fate' \in [Reminder -> {"none", "limited", "duplicate", "failed"}]
  <2>1. PICK due \in now..(now + MaxLead) :
          /\ dueAt' = [u \in Recurring |-> IF u = t THEN due ELSE dueAt[u]]
          /\ Schedules(t, due, K)
    BY <1>1 DEF SetsDue
  <2>2. due \in Nat
    OBVIOUS
  <2>3. dueAt' \in [Recurring -> Nat]
    BY <2>1, <2>2
  <2> QED BY <2>1, <2>2, <2>3, ScheduleTypes
<1>2. ASSUME NEW t \in Reminder, CreateReminder(t)
      PROVE  TypeOK'
  <2>1. PICK K : Strike(K) /\ SetsDue(t, K)
    BY <1>2 DEF CreateReminder
  <2>2. struck' \subseteq Disturbances
    BY <2>1, StrikeType
  <2> QED BY <1>1, <1>2, <2>1, <2>2 DEF CreateReminder
<1>3. ASSUME NEW t \in Reminder, UpdateReminder(t)
      PROVE  TypeOK'
  <2>1. PICK K : Strike(K) /\ SetsDue(t, K)
    BY <1>3 DEF UpdateReminder
  <2>2. struck' \subseteq Disturbances
    BY <2>1, StrikeType
  <2> QED BY <1>1, <1>3, <2>1, <2>2 DEF UpdateReminder
<1>4. ASSUME NEW t \in Reminder, SetStatus(t)
      PROVE  TypeOK'
  <2>1. task' \in [Reminder -> {"none", "active", "completed", "deleted"}]
    BY <1>4 DEF SetStatus
  <2> QED BY <1>4, <2>1 DEF SetStatus
<1> QED BY <1>2, <1>3, <1>4 DEF UserNext

LEMMA HandlerTypes ==
  ASSUME TypeOK, NEW j \in Job, Handles(j)
  PROVE  TypeOK'
<1> USE DEF TypeOK, ThrottleTypeOK, SchedulerTypeOK, TaskTypeOK, HandlerFrame
<1>1. ASSUME NEW K, queued[j] > 0, TakesEntry(j, K)
      PROVE  queued' \in [Job -> Nat]
  BY <1>1 DEF TakesEntry
<1>2. ASSUME RecordProactiveSend
      PROVE  hourCount' \in Nat /\ dayCount' \in Nat
  BY <1>2 DEF RecordProactiveSend
<1>3. CASE HandlerSilent(j)
  BY <1>3 DEF HandlerSilent
<1>4. CASE HandlerRaises(j)
  <2>1. struck' \subseteq Disturbances
    BY <1>4, StrikeType DEF HandlerRaises, Disturb
  <2>2. fate' \in [Reminder -> {"none", "limited", "duplicate", "failed"}]
    BY <1>4 DEF HandlerRaises
  <2> QED BY <1>4, <2>1, <2>2 DEF HandlerRaises
<1>5. CASE PoolHandlerSends(j)
  <2>1. PICK K : Strike(K) /\ TakesEntry(j, K)
    BY <1>5 DEF PoolHandlerSends
  <2>2. struck' \subseteq Disturbances /\ queued' \in [Job -> Nat]
    BY <1>1, <1>5, <2>1, StrikeType DEF PoolHandlerSends
  <2>3. j[1] \in Category
    BY <1>5 DEF PoolHandlerSends, PoolJob
  <2>4. now + Cooldown[j[1]] \in Nat
    BY <2>3
  <2>5. cooldownTil' \in [Category -> Nat]
    BY <1>5, <2>4 DEF PoolHandlerSends
  <2> QED BY <1>2, <1>5, <2>2, <2>5 DEF PoolHandlerSends
<1>6. CASE j \in Reminder /\ ReminderFires(j)
  <2>1. PICK K : Strike(K) /\ TakesEntry(j, K)
    BY <1>6 DEF ReminderFires
  <2>2. struck' \subseteq Disturbances /\ queued' \in [Job -> Nat]
    BY <1>1, <1>6, <2>1, StrikeType DEF ReminderFires
  <2> QED BY <1>2, <1>6, <2>2 DEF ReminderFires
<1>7. CASE j \in Reminder /\ RecurringFires(j)
  <2>1. PICK n \in now..(now + dueAt[j] + Day), K \in SUBSET {"worker", "backend"} :
          /\ dueAt' = [dueAt EXCEPT ![j] = n]
          /\ Strike(K) /\ Schedules(j, n, K) /\ TakesEntry(j, K)
    BY <1>7 DEF RecurringFires
  <2>2. dueAt[j] \in Nat
    BY <1>7 DEF RecurringFires
  <2>3. n \in Nat
    BY <2>2
  <2>4. dueAt' \in [Recurring -> Nat]
    BY <2>1, <2>3
  <2>5. struck' \subseteq Disturbances /\ queued' \in [Job -> Nat]
    BY <1>1, <1>7, <2>1, StrikeType DEF RecurringFires
  <2>6. /\ score' \in [Job -> Nat]
        /\ fate' \in [Reminder -> {"none", "limited", "duplicate", "failed"}]
    BY <1>7, <2>1, <2>3, ScheduleTypes
  <2> QED BY <1>2, <1>7, <2>4, <2>5, <2>6 DEF RecurringFires
<1> QED BY <1>3, <1>4, <1>5, <1>6, <1>7 DEF Handles

LEMMA TickTypes ==
  ASSUME TypeOK, Tick
  PROVE  TypeOK'
<1> USE DEF TypeOK, ThrottleTypeOK, SchedulerTypeOK, TaskTypeOK, Tick
<1>1. \A h \in Nat : Living(h) \in Nat
  BY DEF Living
<1>2. ThrottleTypeOK'
  BY <1>1 DEF NextHour
<1>3. cooldownTil' \in [Category -> Nat]
  BY <1>1 DEF KeysAge
<1>4. idem' \subseteq Category \cup Reminder /\ sentToday' \subseteq Category
  BY DEF KeysAge
<1> QED BY <1>2, <1>3, <1>4 DEF KeysAge

LEMMA NextTypes ==
  ASSUME TypeOK, [Next]_vars
  PROVE  TypeOK'
<1>1. CASE SchedulerNext /\ UNCHANGED taskVars
  <2>1. CASE HandStep
    BY <1>1, <2>1, HandTypes DEF HandStep
  <2>2. CASE PlanStep \/ PlanFails
    BY <1>1, <2>2, PlanTypes
  <2>3. CASE Fetch \/ ClaimStep \/ PollFails
    BY <1>1, <2>3, BatchTypes
  <2> QED BY <1>1, <2>1, <2>2, <2>3 DEF SchedulerNext, PollStep
<1>2. CASE HandlerNext
  BY <1>2, HandlerTypes DEF HandlerNext
<1>3. CASE UserNext
  BY <1>3, UserTypes
<1>4. CASE Tick
  BY <1>4, TickTypes
<1>5. CASE UNCHANGED vars
  BY <1>5 DEF vars, TypeOK, ThrottleTypeOK, SchedulerTypeOK, TaskTypeOK
<1> QED BY <1>1, <1>2, <1>3, <1>4, <1>5 DEF Next

(* Every variable keeps its type, whatever strikes. *)
THEOREM TypeCorrect == Spec => []TypeOK
<1>1. Init => TypeOK
  BY InitTypeOK
<1>2. TypeOK /\ [Next]_vars => TypeOK'
  BY NextTypes
<1> QED BY <1>1, <1>2, PTL DEF Spec

------------------------------------------------------------------------------
(* No job of a plan goes out twice: a job is in one place at a time, and   *)
(* what was placed once is not among what the plan has still to place.     *)

OnePlace ==
  /\ hand # {} => pc \in {"safety", "rate", "idem", "xadd", "cool"}
  /\ \A i, j \in hand : i = j
  /\ \A j \in PoolJob : score[j] > 0 => j \notin hand /\ dispatches[j] = 0
  /\ \A j \in PoolJob : j \in hand => dispatches[j] = 0 \/ pc = "cool"

PlacedOnce ==
  /\ toPlan # {} => pc = "plan"
  /\ pc = "plan" => LocalDate \in planned
  /\ \A c \in Category, d \in Date :
       score[<<c, d>>] > 0 \/ <<c, d>> \in hand \/ dispatches[<<c, d>>] > 0
         => d \in planned /\ ~(c \in toPlan /\ d = LocalDate)

PlaceInv == OnePlace /\ PlacedOnce /\ PoolJobOnce

LEMMA InitPlaceInv == Init => PlaceInv
<1>1. \A c \in Category, d \in Date : <<c, d>> \in PoolJob /\ <<c, d>> \in Job
  BY DEF PoolJob
<1> QED BY <1>1 DEF Init, SchedulerInit, PlaceInv, OnePlace, PlacedOnce, PoolJobOnce

(* What the user and the handlers do concerns reminders only. *)
LEMMA PlaceFrame ==
  ASSUME PlaceInv, UNCHANGED <<hand, dispatches, toPlan, planned, pc, now>>,
         \A j \in PoolJob : score'[j] = score[j]
  PROVE  PlaceInv'
<1>1. \A c \in Category, d \in Date : <<c, d>> \in PoolJob
  BY DEF PoolJob
<1>2. LocalDate' = LocalDate
  BY DEF LocalDate
<1>3. OnePlace' /\ PoolJobOnce'
  BY DEF PlaceInv, OnePlace, PoolJobOnce
<1>4. PlacedOnce'
  BY <1>1, <1>2 DEF PlaceInv, PlacedOnce
<1> QED BY <1>3, <1>4 DEF PlaceInv

(* Giving up what is in hand leaves less to be careful about. *)
LEMMA PlaceLess ==
  ASSUME PlaceInv, UNCHANGED <<score, dispatches, planned, now>>, hand' = {},
         toPlan' = {} \/ (toPlan' = toPlan /\ pc # "plan"), pc' # "plan"
  PROVE  PlaceInv'
<1>1. LocalDate' = LocalDate
  BY DEF LocalDate
<1>2. toPlan' = {}
  BY DEF PlaceInv, PlacedOnce
<1>3. OnePlace' /\ PoolJobOnce'
  BY DEF PlaceInv, OnePlace, PoolJobOnce
<1>4. PlacedOnce'
  BY <1>1, <1>2 DEF PlaceInv, PlacedOnce
<1> QED BY <1>3, <1>4 DEF PlaceInv

LEMMA PlanPlace ==
  ASSUME TypeOK, PlaceInv, PlanStep \/ PlanFails
  PROVE  PlaceInv'
<1> USE DEF PlaceInv
<1>1. hand = {} \/ ~(pc = "poll" \/ pc = "plan")
  BY DEF OnePlace
<1>2. \A c \in Category, d \in Date : <<c, d>> \in PoolJob /\ <<c, d>> \in Job
  BY DEF PoolJob
<1>3. CASE PlanStart
  <2>1. hand' = {} /\ LocalDate' = LocalDate
    BY <1>1, <1>3 DEF PlanStart, Draws, LocalDate
  <2>2. OnePlace' /\ PoolJobOnce'
    BY <1>3, <2>1 DEF PlanStart, Draws, OnePlace, PoolJobOnce
  <2>3. planned' = planned \cup {LocalDate} /\ LocalDate \notin planned
    BY <1>3 DEF PlanStart, Draws
  <2>4. (pc' = "plan" => LocalDate \in planned') /\ (toPlan' # {} => pc' = "plan")
    BY <1>3, <2>3 DEF PlanStart, Draws
  <2>5. PlacedOnce'
    BY <1>3, <2>1, <2>3, <2>4 DEF PlanStart, Draws, PlacedOnce
  <2> QED BY <2>2, <2>5
<1>4. ASSUME NEW c \in Category, PlanSkips(c)
      PROVE  PlaceInv'
  <2>1. hand' = {} /\ LocalDate' = LocalDate
    BY <1>1, <1>4 DEF PlanSkips, LocalDate
  <2>2. OnePlace' /\ PoolJobOnce'
    BY <1>4, <2>1 DEF PlanSkips, OnePlace, PoolJobOnce
  <2>3. toPlan' # {} => pc' = "plan"
    BY <1>4 DEF PlanSkips, AfterPlanning
  <2>4. PlacedOnce'
    BY <1>4, <2>1, <2>3 DEF PlanSkips, PlacedOnce
  <2> QED BY <2>2, <2>4
<1>5. ASSUME NEW c \in Category, PlanPlaces(c)
      PROVE  PlaceInv'
  <2> USE DEF PlanPlaces, Places
  <2>1. hand = {} /\ hand' = {} /\ LocalDate' = LocalDate
    BY <1>1, <1>5 DEF LocalDate
  <2>2. PICK n : score' = [score EXCEPT ![<<c, LocalDate>>] = n]
    BY <1>5
  <2>3. \A j \in Job : j # <<c, LocalDate>> => score'[j] = score[j]
    BY <2>2 DEF TypeOK, SchedulerTypeOK
  <2>4. LocalDate \in planned /\ c \in toPlan /\ toPlan' = toPlan \ {c}
    BY <1>5 DEF PlacedOnce
  <2>5. LocalDate \in Date => ~(dispatches[<<c, LocalDate>>] > 0)
    BY <2>4 DEF PlacedOnce
  <2>6. LocalDate \in Date => dispatches[<<c, LocalDate>>] = 0
    BY <1>2, <2>5 DEF TypeOK, SchedulerTypeOK
  <2>7. \A j \in PoolJob : score'[j] > 0 => dispatches[j] = 0
    <3> SUFFICES ASSUME NEW a \in Category, NEW d \in Date, score'[<<a, d>>] > 0
                 PROVE  dispatches[<<a, d>>] = 0
      BY DEF PoolJob
    <3>1. CASE <<a, d>> = <<c, LocalDate>>
      BY <2>6, <3>1
    <3>2. CASE <<a, d>> # <<c, LocalDate>>
      BY <1>2, <2>3, <3>2 DEF OnePlace
    <3> QED BY <3>1, <3>2
  <2>8. OnePlace' /\ PoolJobOnce'
    BY <1>5, <2>1, <2>7 DEF OnePlace, PoolJobOnce
  <2>9. toPlan' # {} => pc' = "plan"
    BY <1>5 DEF AfterPlanning
  <2>10. ASSUME NEW a \in Category, NEW d \in Date,
                score'[<<a, d>>] > 0 \/ dispatches'[<<a, d>>] > 0
         PROVE  d \in planned /\ ~(a \in toPlan' /\ d = LocalDate)
    <3>1. CASE <<a, d>> = <<c, LocalDate>>
      BY <2>4, <3>1
    <3>2. CASE <<a, d>> # <<c, LocalDate>>
      BY <1>2, <1>5, <2>3, <2>4, <2>10, <3>2 DEF PlacedOnce
    <3> QED BY <3>1, <3>2
  <2>11. PlacedOnce'
    BY <1>5, <2>1, <2>4, <2>9, <2>10 DEF PlacedOnce
  <2> QED BY <2>8, <2>11
<1>6. CASE PlanFails
  <2>1. hand' = {}
    BY <1>1, <1>6 DEF PlanFails
  <2> QED BY <1>6, <2>1, PlaceLess DEF PlanFails
<1> QED BY <1>3, <1>4, <1>5, <1>6 DEF PlanStep

LEMMA BatchPlace ==
  ASSUME TypeOK, PlaceInv, Fetch \/ ClaimStep \/ PollFails
  PROVE  PlaceInv'
<1> USE DEF PlaceInv
<1>1. CASE Fetch
  <2>1. hand' = {} /\ toPlan = {} /\ pc # "plan" /\ pc' # "plan"
    BY <1>1 DEF Fetch, OnePlace, PlacedOnce
  <2> QED BY <1>1, <2>1, PlaceLess DEF Fetch
<1>2. ASSUME NEW e \in batch, ClaimLost(e)
      PROVE  PlaceInv'
  <2>1. hand' = {} /\ pc # "plan" /\ pc' # "plan"
    BY <1>2 DEF ClaimLost, TakesNext, NextInBatch, OnePlace
  <2> QED BY <1>2, <2>1, PlaceLess DEF ClaimLost, TakesNext
<1>3. ASSUME NEW e \in batch, Claim(e)
      PROVE  PlaceInv'
  <2> USE DEF Claim, TakesNext
  <2>1. hand = {} /\ toPlan = {} /\ toPlan' = {} /\ LocalDate' = LocalDate
    BY <1>3 DEF OnePlace, PlacedOnce, LocalDate
  <2>2. e.job \in Job /\ score[e.job] > 0
    BY <1>3 DEF TypeOK, SchedulerTypeOK
  <2>3. score'[e.job] = 0 /\ \A j \in Job : j # e.job => score'[j] = score[j]
    BY <1>3, <2>2 DEF TypeOK, SchedulerTypeOK
  <2>4. \/ hand' = {} /\ pc' \in {"poll", "next"}
        \/ hand' = {e.job} /\ pc' = "safety"
    BY <1>3, <2>1 DEF Judges, NextInBatch
  <2>5. OnePlace'
    BY <1>3, <2>1, <2>2, <2>3, <2>4 DEF OnePlace
  <2>6. PoolJobOnce'
    BY <1>3 DEF PoolJobOnce
  <2>7. ASSUME NEW a \in Category, NEW d \in Date,
               score'[<<a, d>>] > 0 \/ <<a, d>> \in hand' \/ dispatches'[<<a, d>>] > 0
        PROVE  d \in planned
    <3>1. <<a, d>> \in Job
      BY DEF PoolJob
    <3> QED BY <1>3, <2>1, <2>2, <2>3, <2>4, <2>7, <3>1 DEF PlacedOnce
  <2>8. PlacedOnce'
    BY <1>3, <2>1, <2>4, <2>7 DEF PlacedOnce
  <2> QED BY <2>5, <2>6, <2>8
<1>4. CASE PollFails
  BY <1>4, PlaceLess DEF PollFails
<1> QED BY <1>1, <1>2, <1>3, <1>4 DEF ClaimStep

LEMMA HandPlace ==
  ASSUME TypeOK, PlaceInv, HandStep
  PROVE  PlaceInv'
<1>1. PICK j \in Job :
        \/ DeadManTrips(j) \/ StillDisabled(j) \/ IsSafe(j)
        \/ RateLimited(j) \/ RateAllowed(j) \/ QuietDefers(j) \/ Duplicate(j)
        \/ IsNew(j) \/ Dispatch(j) \/ RecordCooldown(j)
  BY DEF HandStep
<1> USE DEF PlaceInv, Holds
<1>2. CASE DeadManTrips(j) \/ StillDisabled(j) \/ RateLimited(j) \/ Duplicate(j)
  <2>1. PICK from \in {"safety", "rate", "idem"}, why \in {"limited", "duplicate"} :
          Drops(j, from, why)
    BY <1>2 DEF DeadManTrips, StillDisabled, RateLimited, Duplicate
  <2>2. now' = now
    BY <1>2 DEF DeadManTrips, StillDisabled, RateLimited, Duplicate
  <2>3. pc # "plan" /\ pc' # "plan"
    BY <2>1 DEF Drops, NextInBatch
  <2> QED BY <2>1, <2>2, <2>3, PlaceLess DEF Drops
<1>3. CASE IsSafe(j) \/ RateAllowed(j) \/ IsNew(j)
  <2>1. PICK from \in {"safety", "rate", "idem"}, to \in {"rate", "idem", "xadd"} :
          Passes(j, from, to)
    BY <1>3 DEF IsSafe, RateAllowed, IsNew, TakesKey
  <2>2. now' = now /\ dispatches' = dispatches
    BY <1>3 DEF IsSafe, RateAllowed, IsNew, TakesKey
  <2>3. OnePlace' /\ PoolJobOnce'
    BY <2>1, <2>2 DEF Passes, OnePlace, PoolJobOnce
  <2>4. toPlan' = {} /\ pc' # "plan" /\ LocalDate' = LocalDate
    BY <2>1, <2>2 DEF Passes, PlacedOnce, LocalDate
  <2>5. PlacedOnce'
    BY <2>1, <2>2, <2>4 DEF Passes, PlacedOnce
  <2> QED BY <2>3, <2>5
<1>4. CASE QuietDefers(j)
  <2> USE DEF QuietDefers
  <2>1. \A i \in Job : i # j => score'[i] = score[i]
    BY <1>4 DEF TypeOK, SchedulerTypeOK
  <2>2. hand' = {} /\ toPlan' = {} /\ pc' # "plan" /\ LocalDate' = LocalDate
    BY <1>4 DEF NextInBatch, PlacedOnce, LocalDate
  <2>3. dispatches[j] = 0 /\ j \in hand /\ dispatches' = dispatches
    BY <1>4 DEF OnePlace
  <2>4. \A i \in PoolJob : score'[i] > 0 => dispatches[i] = 0
    BY <2>1, <2>3 DEF OnePlace
  <2>5. OnePlace' /\ PoolJobOnce'
    BY <1>4, <2>2, <2>4 DEF OnePlace, PoolJobOnce
  <2>6. \A a \in Category, d \in Date : <<a, d>> \in Job
    BY DEF PoolJob
  <2>7. PlacedOnce'
    BY <1>4, <2>1, <2>2, <2>3, <2>6 DEF PlacedOnce
  <2> QED BY <2>5, <2>7
<1>5. CASE Dispatch(j)
  <2> USE DEF Dispatch
  <2>1. toPlan' = {} /\ LocalDate' = LocalDate /\ pc' = "cool" /\ j \in hand
    BY <1>5 DEF PlacedOnce, LocalDate
  <2>2. \A i \in PoolJob : i # j => dispatches'[i] = dispatches[i]
    BY <1>5 DEF TypeOK, SchedulerTypeOK
  <2>3. j \in PoolJob => dispatches'[j] = 1
    BY <1>5 DEF OnePlace, TypeOK, SchedulerTypeOK
  <2>4. OnePlace'
    BY <1>5, <2>1, <2>2 DEF OnePlace
  <2>5. PoolJobOnce'
    BY <2>2, <2>3 DEF PoolJobOnce
  <2>6. \A a \in Category, d \in Date : <<a, d>> \in PoolJob
    BY DEF PoolJob
  <2>7. PlacedOnce'
    BY <1>5, <2>1, <2>2, <2>6 DEF PlacedOnce
  <2> QED BY <2>4, <2>5, <2>7
<1>6. CASE RecordCooldown(j)
  <2>1. pc # "plan" /\ pc' # "plan"
    BY <1>6 DEF RecordCooldown, NextInBatch
  <2> QED BY <1>6, <2>1, PlaceLess DEF RecordCooldown
<1> QED BY <1>1, <1>2, <1>3, <1>4, <1>5, <1>6

LEMMA HandlerKeepsPoolScores ==
  ASSUME TypeOK, NEW i \in Job, Handles(i), NEW j \in PoolJob
  PROVE  score'[j] = score[j]
<1>1. j \in Job /\ j \notin Reminder
  OBVIOUS
<1>2. CASE i \in Reminder /\ RecurringFires(i)
  <2>1. PICK n, K : Schedules(i, n, K)
    BY <1>2 DEF RecurringFires
  <2> QED BY <1>1, <1>2, <2>1 DEF Schedules, TypeOK, SchedulerTypeOK
<1>3. CASE ~(i \in Reminder /\ RecurringFires(i))
  BY <1>3 DEF Handles, HandlerSilent, HandlerRaises, PoolHandlerSends, ReminderFires
<1> QED BY <1>2, <1>3

LEMMA UserKeepsPoolScores ==
  ASSUME TypeOK, UserNext, NEW j \in PoolJob
  PROVE  score'[j] = score[j]
<1>1. j \in Job /\ j \notin Reminder
  OBVIOUS
<1>2. PICK t \in Reminder : CreateReminder(t) \/ UpdateReminder(t) \/ SetStatus(t)
  BY DEF UserNext
<1>3. CASE CreateReminder(t) \/ UpdateReminder(t)
  <2>1. PICK n, K : Schedules(t, n, K)
    BY <1>3 DEF CreateReminder, UpdateReminder, SetsDue
  <2> QED BY <1>1, <2>1 DEF Schedules, TypeOK, SchedulerTypeOK
<1> QED BY <1>2, <1>3 DEF SetStatus

LEMMA NextPlace ==
  ASSUME TypeOK, PlaceInv, [Next]_vars
  PROVE  PlaceInv'
<1>1. CASE SchedulerNext
  BY <1>1, PlanPlace, BatchPlace, HandPlace DEF SchedulerNext, PollStep
<1>2. CASE HandlerNext
  <2>1. PICK i \in Job : Handles(i)
    BY <1>2 DEF HandlerNext
  <2>2. UNCHANGED <<hand, dispatches, toPlan, planned, pc, now>>
    BY <2>1 DEF Handles, HandlerFrame, HandlerSilent, HandlerRaises,
                PoolHandlerSends, ReminderFires, RecurringFires
  <2> QED BY <2>1, <2>2, HandlerKeepsPoolScores, PlaceFrame
<1>3. CASE UserNext
  <2>1. UNCHANGED <<hand, dispatches, toPlan, planned, pc, now>>
    BY <1>3 DEF UserNext, CreateReminder, UpdateReminder, SetStatus
  <2> QED BY <1>3, <2>1, UserKeepsPoolScores, PlaceFrame
<1>4. CASE Tick
  <2>1. hand = {} /\ toPlan = {} /\ pc' = "poll"
    BY <1>4 DEF Tick, KeysAge, PlaceInv, OnePlace, PlacedOnce
  <2>2. UNCHANGED <<score, hand, dispatches, toPlan, planned, pc>>
    BY <1>4 DEF Tick, KeysAge
  <2>3. OnePlace' /\ PoolJobOnce'
    BY <2>1, <2>2 DEF PlaceInv, OnePlace, PoolJobOnce
  <2>4. PlacedOnce'
    BY <2>1, <2>2 DEF PlaceInv, PlacedOnce
  <2> QED BY <2>3, <2>4 DEF PlaceInv
<1>5. CASE UNCHANGED vars
  BY <1>5, PlaceFrame DEF vars
<1> QED BY <1>1, <1>2, <1>3, <1>4, <1>5 DEF Next

(* A job of the plan is put on the stream at most once: whatever is        *)
(* deferred, whoever fails, and however many categories, dates and         *)
(* reminders there are.                                                    *)
THEOREM PlannedOnceSentOnce == Spec => []PoolJobOnce
<1>1. Init => TypeOK /\ PlaceInv
  BY InitTypeOK, InitPlaceInv
<1>2. TypeOK /\ PlaceInv /\ [Next]_vars => TypeOK' /\ PlaceInv'
  BY NextTypes, NextPlace
<1>3. PlaceInv => PoolJobOnce
  BY DEF PlaceInv
<1> QED BY <1>1, <1>2, <1>3, PTL DEF Spec

------------------------------------------------------------------------------
(* One message of a category per UTC day: the key is taken before the XADD *)
(* and outlives the day it names.                                          *)

DayInv ==
  /\ sentToday \subseteq idem
  /\ pc = "xadd" => \A j \in hand \cap PoolJob : j[1] \in idem /\ j[1] \notin sentToday

LEMMA NextDay ==
  ASSUME TypeOK, PlaceInv, DayInv, [Next]_vars
  PROVE  DayInv'
<1>1. CASE UNCHANGED <<idem, sentToday, hand>> /\ (pc' = pc \/ pc' # "xadd")
  BY <1>1 DEF DayInv
<1>2. ASSUME UNCHANGED <<idem, sentToday>>, pc' # "xadd"
      PROVE  DayInv'
  BY <1>2 DEF DayInv
<1>3. CASE PlanStep \/ PlanFails \/ Fetch \/ PollFails
  <2>1. UNCHANGED <<idem, sentToday>>
    BY <1>3 DEF PlanStep, PlanStart, Draws, PlanSkips, PlanPlaces, Places, PlanFails, Fetch,
                PollFails
  <2>2. pc' # "xadd"
    BY <1>3 DEF PlanStep, PlanStart, Draws, PlanSkips, PlanPlaces, Places, PlanFails, Fetch,
                PollFails, AfterPlanning
  <2> QED BY <1>2, <2>1, <2>2
<1>4. CASE ClaimStep
  <2>1. PICK e \in batch : ClaimLost(e) \/ Claim(e)
    BY <1>4 DEF ClaimStep
  <2>2. UNCHANGED <<idem, sentToday>> /\ pc' # "xadd"
    BY <2>1 DEF ClaimLost, Claim, TakesNext, Judges, NextInBatch
  <2> QED BY <1>2, <2>2
<1>5. CASE HandStep
  <2>1. PICK j \in Job :
          \/ DeadManTrips(j) \/ StillDisabled(j) \/ IsSafe(j)
          \/ RateLimited(j) \/ RateAllowed(j) \/ QuietDefers(j) \/ Duplicate(j)
          \/ IsNew(j) \/ Dispatch(j) \/ RecordCooldown(j)
    BY <1>5 DEF HandStep
  <2>2. CASE DeadManTrips(j) \/ StillDisabled(j) \/ RateLimited(j) \/ Duplicate(j)
    <3>1. PICK from, why : Drops(j, from, why)
      BY <2>2 DEF DeadManTrips, StillDisabled, RateLimited, Duplicate
    <3>2. UNCHANGED <<idem, sentToday>> /\ pc' # "xadd"
      BY <3>1 DEF Drops, NextInBatch
    <3> QED BY <1>2, <3>2
  <2>3. CASE IsSafe(j) \/ RateAllowed(j) \/ QuietDefers(j) \/ RecordCooldown(j)
    <3>1. UNCHANGED <<idem, sentToday>> /\ pc' # "xadd"
      BY <2>3 DEF IsSafe, RateAllowed, QuietDefers, RecordCooldown, Passes, NextInBatch
    <3> QED BY <1>2, <3>1
  <2>4. CASE IsNew(j)
    <3>1. hand' = hand /\ j \in hand /\ IdemKey(j) \notin idem
      BY <2>4 DEF IsNew, TakesKey, Passes, Holds
    <3>2. idem' = idem \cup {IdemKey(j)} /\ sentToday' = sentToday
      BY <2>4 DEF IsNew, TakesKey
    <3>3. \A i \in hand : i = j
      BY <3>1 DEF PlaceInv, OnePlace
    <3>4. j \in PoolJob => IdemKey(j) = j[1]
      BY DEF IdemKey
    <3> QED BY <3>1, <3>2, <3>3, <3>4 DEF DayInv
  <2>5. CASE Dispatch(j)
    <3>1. pc' = "cool" /\ idem' = idem /\ pc = "xadd" /\ j \in hand
      BY <2>5 DEF Dispatch, Holds
    <3>2. sentToday' = sentToday \/ (j \in PoolJob /\ sentToday' = sentToday \cup {j[1]})
      BY <2>5 DEF Dispatch
    <3> QED BY <3>1, <3>2 DEF DayInv
  <2> QED BY <2>1, <2>2, <2>3, <2>4, <2>5
<1>6. CASE HandlerNext \/ UserNext \/ UNCHANGED vars
  <2>1. UNCHANGED <<idem, sentToday, hand, pc>>
    BY <1>6 DEF HandlerNext, Handles, HandlerFrame, HandlerSilent, HandlerRaises,
                PoolHandlerSends, ReminderFires, RecurringFires,
                UserNext, CreateReminder, UpdateReminder, SetStatus, vars
  <2> QED BY <1>1, <2>1
<1>7. CASE Tick
  <2>1. pc' # "xadd"
    BY <1>7 DEF Tick, KeysAge
  <2>2. sentToday' \subseteq idem'
    BY <1>7 DEF Tick, KeysAge, DayInv
  <2> QED BY <2>1, <2>2 DEF DayInv
<1> QED BY <1>3, <1>4, <1>5, <1>6, <1>7 DEF Next, SchedulerNext, PollStep

(* Only Dispatch touches the count of a job. *)
LEMMA OnlyDispatchCounts ==
  ASSUME TypeOK, [Next]_vars, NEW j \in PoolJob, dispatches'[j] # dispatches[j]
  PROVE  Dispatch(j)
<1>1. PICK i \in Job : Dispatch(i)
  <2>1. dispatches' # dispatches
    OBVIOUS
  <2>2. ~(HandlerNext \/ UserNext \/ Tick \/ UNCHANGED vars)
    BY <2>1 DEF HandlerNext, Handles, HandlerFrame, HandlerSilent, HandlerRaises,
                PoolHandlerSends, ReminderFires, RecurringFires,
                UserNext, CreateReminder, UpdateReminder, SetStatus,
                Tick, KeysAge, vars
  <2>3. ~(PlanStep \/ PlanFails \/ Fetch \/ ClaimStep \/ PollFails)
    BY <2>1 DEF PlanStep, PlanStart, Draws, PlanSkips, PlanPlaces, Places, PlanFails, Fetch,
                ClaimStep, ClaimLost, Claim, TakesNext, PollFails
  <2>4. PICK i \in Job :
          \/ DeadManTrips(i) \/ StillDisabled(i) \/ IsSafe(i)
          \/ RateLimited(i) \/ RateAllowed(i) \/ QuietDefers(i) \/ Duplicate(i)
          \/ IsNew(i) \/ Dispatch(i) \/ RecordCooldown(i)
    BY <2>2, <2>3 DEF Next, SchedulerNext, PollStep, HandStep
  <2> QED BY <2>1, <2>4 DEF DeadManTrips, StillDisabled, IsSafe, RateLimited,
          RateAllowed, QuietDefers, Duplicate, IsNew, TakesKey, RecordCooldown,
          Drops, Passes
<1>2. i = j
  BY <1>1 DEF Dispatch, TypeOK, SchedulerTypeOK
<1> QED BY <1>1, <1>2

(* A category goes out at most once per UTC day, however many of its jobs  *)
(* are waiting and whatever fails.                                         *)
THEOREM CategoryOncePerDay == Spec => OncePerDay
<1> DEFINE Inv == TypeOK /\ PlaceInv /\ DayInv
<1>1. Init => Inv
  BY InitTypeOK, InitPlaceInv DEF DayInv, Init, SchedulerInit
<1>2. Inv /\ [Next]_vars => Inv'
  BY NextTypes, NextPlace, NextDay
<1>3. ASSUME Inv, [Next]_vars, NEW j \in PoolJob, dispatches'[j] # dispatches[j]
      PROVE  j[1] \notin sentToday
  <2>1. pc = "xadd" /\ j \in hand
    BY <1>3, OnlyDispatchCounts DEF Dispatch, Holds
  <2> QED BY <1>3, <2>1 DEF DayInv
<1>4. Inv /\ [Next]_vars
        => [\A j \in PoolJob : dispatches'[j] # dispatches[j] => j[1] \notin sentToday]_vars
  BY <1>3
<1> QED BY <1>1, <1>2, <1>4, PTL DEF Spec, OncePerDay

------------------------------------------------------------------------------
(* Planner and scheduler implement DayPlan. A job that waits belongs to a  *)
(* plan that was made, and is none the plan has still to place.            *)

ClockInv == now \in 1..Horizon

LEMMA NextClock ==
  ASSUME ClockInv, [Next]_vars
  PROVE  ClockInv'
<1>1. CASE Tick
  <2>1. now < Horizon /\ now' = now + 1
    BY <1>1 DEF Tick, NextHour
  <2> QED BY <2>1 DEF ClockInv
<1>2. CASE ~Tick
  <2>1. now' = now
    BY <1>2 DEF Next, SchedulerNext, PollStep, PlanStep, PlanStart, Draws, PlanSkips,
                PlanPlaces, Places, PlanFails, Fetch, ClaimStep, ClaimLost, Claim,
                TakesNext, HandStep, DeadManTrips, StillDisabled, IsSafe, RateLimited,
                RateAllowed, QuietDefers, Duplicate, IsNew, TakesKey, Dispatch,
                RecordCooldown, Drops, Passes, PollFails,
                HandlerNext, Handles, HandlerFrame, HandlerSilent, HandlerRaises,
                PoolHandlerSends, ReminderFires, RecurringFires,
                UserNext, CreateReminder, UpdateReminder, SetStatus, vars
  <2> QED BY <2>1 DEF ClockInv
<1> QED BY <1>1, <1>2

(* A time plan_day draws, and each shift of it, is not before now.         *)
LEMMA SlotIsLater ==
  ASSUME now \in Nat, NEW c \in Category, NEW t \in JitterTimes(c), NEW k \in 0..3
  PROVE  t + k * Shift >= now
<1>1. PICK h \in LocalHour..WindowEnd[c] : t = now + h - LocalHour
  BY DEF JitterTimes
<1>2. LocalHour \in Int
  BY DEF LocalHour
<1>3. t >= now /\ t \in Int
  BY <1>1, <1>2
<1>4. k * Shift \in Nat
  <2>1. k = 0 \/ k = 1 \/ k = 2 \/ k = 3
    OBVIOUS
  <2> QED BY <2>1
<1> QED BY <1>3, <1>4

LEMMA WaitingWasPlanned ==
  ASSUME PlaceInv, NEW j \in PoolJob, score[j] > 0 \/ j \in hand
  PROVE  j[2] \in planned /\ ~(j[2] = LocalDate /\ j[1] \in toPlan)
<1>1. PICK c \in Category, d \in Date : j = <<c, d>>
  BY DEF PoolJob
<1> QED BY <1>1 DEF PlaceInv, PlacedOnce

LEMMA SameStage ==
  ASSUME UNCHANGED <<dispatches, sentToday>>,
         \A j \in PoolJob : Stage'[j] = Stage[j]
  PROVE  [Plans!Next]_<<Stage, dispatches, sentToday>>
BY DEF Stage

LEMMA StagesGivenUp ==
  ASSUME UNCHANGED <<dispatches, sentToday>>, NEW S \in SUBSET PoolJob,
         \A j \in S : Stage[j] \in {"chosen", "waiting"} /\ Stage'[j] = "over",
         \A j \in PoolJob : j \notin S => Stage'[j] = Stage[j]
  PROVE  Plans!Next
<1>1. Stage' = [j \in PoolJob |-> IF j \in S THEN "over" ELSE Stage[j]]
  BY DEF Stage
<1>2. Plans!GiveUp
  BY <1>1 DEF Plans!GiveUp, Plans!Job, PoolJob
<1> QED BY <1>2 DEF Plans!Next

(* Drawing, placing and passing over, and a planning that fails.           *)
LEMMA PlanImplements ==
  ASSUME TypeOK, ClockInv, PlaceInv, PlanStep \/ PlanFails
  PROVE  [Plans!Next]_<<Stage, dispatches, sentToday>>
<1> DEFINE Slot(c) == <<c, LocalDate>>
<1>1. /\ hand = {} /\ hand' = {}
      /\ UNCHANGED <<dispatches, sentToday, now>> /\ LocalDate' = LocalDate
  BY DEF PlanStep, PlanStart, Draws, PlanSkips, PlanPlaces, Places, PlanFails,
         PlaceInv, OnePlace, LocalDate
<1>2. LocalDate \in Date /\ \A c \in Category : Slot(c) \in PoolJob
  BY DateInRange DEF ClockInv, PoolJob
<1>3. \A j \in PoolJob : /\ j[1] \in Category /\ j[2] \in Date /\ j = <<j[1], j[2]>>
                         /\ j[2] = LocalDate => j = Slot(j[1])
  BY DEF PoolJob
<1>4. \A c \in Category : score[Slot(c)] > 0 => LocalDate \in planned /\ c \notin toPlan
  BY <1>2, WaitingWasPlanned
<1>5. toPlan # {} => LocalDate \in planned
  BY DEF PlaceInv, PlacedOnce
<1>6. CASE PlanStart
  <2>1. PICK S \in SUBSET Category : Cardinality(S) <= MaxCategories /\ toPlan' = S
    BY <1>6 DEF PlanStart, Draws
  <2>2. /\ LocalDate \notin planned /\ planned' = planned \cup {LocalDate}
        /\ score' = score /\ toPlan = {}
    BY <1>5, <1>6 DEF PlanStart, Draws
  <2>3. \A c \in Category : Stage[Slot(c)] = "ahead"
    BY <1>1, <1>2, <1>4, <2>2 DEF Stage
  <2>4. ASSUME NEW j \in PoolJob
        PROVE  Stage'[j] = IF j[2] = LocalDate
                           THEN IF j[1] \in S THEN "chosen" ELSE "over"
                           ELSE Stage[j]
    <3>1. CASE j[2] = LocalDate
      <4>1. ~(score'[j] > 0)
        BY <1>3, <1>4, <2>2, <3>1
      <4> QED BY <1>1, <2>1, <2>2, <3>1, <4>1 DEF Stage
    <3>2. CASE j[2] # LocalDate
      BY <1>1, <2>2, <3>2 DEF Stage
    <3> QED BY <3>1, <3>2
  <2>5. Stage' = [j \in PoolJob |-> IF j[2] = LocalDate
                                    THEN IF j[1] \in S THEN "chosen" ELSE "over"
                                    ELSE Stage[j]]
    BY <2>4 DEF Stage
  <2>6. Plans!Draw(LocalDate)
    BY <1>1, <2>1, <2>3, <2>5 DEF Plans!Draw, Plans!Job, PoolJob
  <2> QED BY <1>2, <2>6 DEF Plans!Next
<1>7. ASSUME NEW c \in Category, PlanSkips(c)
      PROVE  Plans!Next
  <2>1. c \in toPlan /\ toPlan' = toPlan \ {c} /\ UNCHANGED <<score, planned>>
    BY <1>7 DEF PlanSkips
  <2>2. Stage[Slot(c)] = "chosen" /\ Stage'[Slot(c)] = "over"
    BY <1>1, <1>2, <1>4, <1>5, <2>1 DEF Stage
  <2>3. \A j \in PoolJob : j # Slot(c) => Stage'[j] = Stage[j]
    BY <1>1, <1>3, <2>1 DEF Stage
  <2>4. {Slot(c)} \in SUBSET PoolJob
    BY <1>2
  <2> HIDE DEF Slot
  <2> QED BY <1>1, <2>2, <2>3, <2>4, StagesGivenUp
<1>8. ASSUME NEW c \in Category, PlanPlaces(c)
      PROVE  Plans!Next
  <2> USE DEF PlanPlaces, Places
  <2>1. c \in toPlan /\ toPlan' = toPlan \ {c} /\ planned' = planned
    BY <1>8
  <2>2. PICK t \in JitterTimes(c), k \in 0..3 :
          score' = [score EXCEPT ![Slot(c)] = t + k * Shift]
    BY <1>8
  <2>3. t + k * Shift > 0
    <3>1. now \in Nat /\ now > 0
      BY DEF ClockInv
    <3>2. t + k * Shift \in Nat /\ t + k * Shift >= now
      BY <3>1, SlotIsLater, SlotType
    <3> QED BY <3>1, <3>2
  <2>4. score'[Slot(c)] > 0 /\ \A j \in PoolJob : j # Slot(c) => score'[j] = score[j]
    BY <1>2, <2>2, <2>3 DEF TypeOK, SchedulerTypeOK
  <2>5. Stage[Slot(c)] = "chosen" /\ Stage'[Slot(c)] = "waiting"
    BY <1>1, <1>2, <1>4, <1>5, <2>1, <2>4 DEF Stage
  <2>6. \A j \in PoolJob : j # Slot(c) => Stage'[j] = Stage[j]
    BY <1>1, <1>3, <2>1, <2>4 DEF Stage
  <2>7. Stage' = [Stage EXCEPT ![Slot(c)] = "waiting"]
    BY <1>2, <2>5, <2>6 DEF Stage
  <2>8. Plans!Place(Slot(c))
    BY <1>1, <2>5, <2>7 DEF Plans!Place
  <2> QED BY <1>2, <2>8 DEF Plans!Next, Plans!Job, PoolJob
<1>9. CASE PlanFails
  <2> DEFINE S == {j \in PoolJob : j[2] = LocalDate /\ j[1] \in toPlan}
  <2>1. toPlan' = {} /\ UNCHANGED <<score, planned>>
    BY <1>9 DEF PlanFails
  <2>2. \A j \in S : Stage[j] = "chosen" /\ Stage'[j] = "over"
    BY <1>1, <1>3, <1>4, <1>5, <2>1 DEF Stage
  <2>3. \A j \in PoolJob : j \notin S => Stage'[j] = Stage[j]
    BY <1>1, <2>1 DEF Stage
  <2>4. S \in SUBSET PoolJob
    OBVIOUS
  <2> HIDE DEF S
  <2> QED BY <1>1, <2>2, <2>3, <2>4, StagesGivenUp
<1> QED BY <1>6, <1>7, <1>8, <1>9 DEF PlanStep

(* Reading the batch, claiming, and a poll that fails.                     *)
LEMMA BatchImplements ==
  ASSUME TypeOK, PlaceInv, Fetch \/ ClaimStep \/ PollFails
  PROVE  [Plans!Next]_<<Stage, dispatches, sentToday>>
<1>1. UNCHANGED <<dispatches, sentToday, planned, now>> /\ LocalDate' = LocalDate
  BY DEF Fetch, ClaimStep, ClaimLost, Claim, TakesNext, PollFails, LocalDate
<1>2. \A j \in PoolJob : score[j] > 0 \/ j \in hand
                           => j[2] \in planned /\ ~(j[2] = LocalDate /\ j[1] \in toPlan)
  BY WaitingWasPlanned
<1>3. (Fetch \/ ClaimStep) => hand = {}
  BY DEF Fetch, ClaimStep, ClaimLost, Claim, TakesNext, PlaceInv, OnePlace
<1>4. CASE Fetch
  <2>1. UNCHANGED <<score, hand, toPlan>>
    BY <1>4 DEF Fetch
  <2>2. \A j \in PoolJob : Stage'[j] = Stage[j]
    BY <1>1, <1>3, <1>4, <2>1 DEF Stage
  <2> QED BY <1>1, <2>2, SameStage
<1>5. ASSUME NEW e \in batch, ClaimLost(e)
      PROVE  [Plans!Next]_<<Stage, dispatches, sentToday>>
  <2>1. UNCHANGED <<score, hand, toPlan>> /\ hand = {}
    BY <1>3, <1>5 DEF ClaimLost, TakesNext, ClaimStep
  <2>2. \A j \in PoolJob : Stage'[j] = Stage[j]
    BY <1>1, <2>1 DEF Stage
  <2> QED BY <1>1, <2>2, SameStage
<1>6. ASSUME NEW e \in batch, Claim(e)
      PROVE  [Plans!Next]_<<Stage, dispatches, sentToday>>
  <2>1. /\ hand = {} /\ toPlan' = toPlan /\ score[e.job] > 0
        /\ score' = [score EXCEPT ![e.job] = 0]
    BY <1>3, <1>6 DEF Claim, TakesNext, ClaimStep
  <2>2. \A j \in PoolJob : j # e.job => score'[j] = score[j]
    BY <2>1 DEF TypeOK, SchedulerTypeOK
  <2>3. e.job \in PoolJob => score'[e.job] = 0
    BY <2>1 DEF TypeOK, SchedulerTypeOK
  <2>4. \A j \in PoolJob : j # e.job /\ j \notin hand' => Stage'[j] = Stage[j]
    BY <1>1, <2>1, <2>2 DEF Stage
  <2>5. CASE IsStale(e)
    <3>1. hand' = {} /\ e.job \in PoolJob
      BY <1>6, <2>1, <2>5 DEF Claim, Judges, IsStale
    <3>2. Stage[e.job] = "waiting" /\ Stage'[e.job] = "over"
      BY <1>1, <1>2, <2>1, <2>3, <3>1 DEF Stage
    <3>3. {e.job} \in SUBSET PoolJob
      BY <3>1
    <3> QED BY <1>1, <2>4, <3>1, <3>2, <3>3, StagesGivenUp
  <2>6. CASE ~IsStale(e)
    <3>1. hand' = {e.job} /\ pc' = "safety"
      BY <1>6, <2>6 DEF Claim, Judges
    <3>2. e.job \in PoolJob => Stage[e.job] = "waiting" /\ Stage'[e.job] = "waiting"
      BY <2>1, <3>1 DEF Stage
    <3>3. \A j \in PoolJob : Stage'[j] = Stage[j]
      BY <2>4, <3>1, <3>2
    <3> QED BY <1>1, <3>3, SameStage
  <2> QED BY <2>5, <2>6
<1>7. CASE PollFails
  <2> DEFINE S == {j \in PoolJob : \/ j \in hand /\ pc # "cool"
                                   \/ j[2] = LocalDate /\ j[1] \in toPlan}
  <2>1. toPlan' = {} /\ hand' = {} /\ score' = score
    BY <1>7 DEF PollFails
  <2>2. toPlan # {} => LocalDate \in planned
    BY DEF PlaceInv, PlacedOnce
  <2>3. \A j \in PoolJob : j \in hand /\ pc # "cool" => ~(score[j] > 0)
    BY DEF PlaceInv, OnePlace
  <2>4. \A j \in S : Stage[j] \in {"chosen", "waiting"} /\ Stage'[j] = "over"
    BY <1>1, <1>2, <2>1, <2>2, <2>3 DEF Stage
  <2>5. \A j \in PoolJob : j \notin S => Stage'[j] = Stage[j]
    BY <1>1, <2>1 DEF Stage
  <2>6. S \in SUBSET PoolJob
    OBVIOUS
  <2> HIDE DEF S
  <2> QED BY <1>1, <2>4, <2>5, <2>6, StagesGivenUp
<1> QED BY <1>4, <1>5, <1>6, <1>7 DEF ClaimStep

(* The checks keep the job in hand, put it back, give it up or send it.    *)
LEMMA HandImplements ==
  ASSUME TypeOK, PlaceInv, DayInv, HandStep
  PROVE  [Plans!Next]_<<Stage, dispatches, sentToday>>
<1>1. PICK j \in Job :
        \/ DeadManTrips(j) \/ StillDisabled(j) \/ IsSafe(j)
        \/ RateLimited(j) \/ RateAllowed(j) \/ QuietDefers(j) \/ Duplicate(j)
        \/ IsNew(j) \/ Dispatch(j) \/ RecordCooldown(j)
  BY DEF HandStep
<1>2. UNCHANGED <<planned, toPlan, now>> /\ LocalDate' = LocalDate
  BY <1>1 DEF DeadManTrips, StillDisabled, IsSafe, RateLimited, RateAllowed,
              QuietDefers, Duplicate, IsNew, TakesKey, Dispatch, RecordCooldown,
              Drops, Passes, LocalDate
<1>3. hand = {j}
  <2>1. j \in hand
    BY <1>1 DEF DeadManTrips, StillDisabled, IsSafe, RateLimited, RateAllowed,
                QuietDefers, Duplicate, IsNew, TakesKey, Dispatch, RecordCooldown,
                Drops, Passes, Holds
  <2> QED BY <2>1 DEF PlaceInv, OnePlace
<1>4. j \in PoolJob => /\ ~(score[j] > 0) /\ j[2] \in planned
                       /\ ~(j[2] = LocalDate /\ j[1] \in toPlan)
  BY <1>3, WaitingWasPlanned DEF PlaceInv, OnePlace
<1>5. CASE DeadManTrips(j) \/ StillDisabled(j) \/ RateLimited(j) \/ Duplicate(j)
  <2>1. /\ pc # "cool" /\ hand' = {} /\ score' = score
        /\ UNCHANGED <<dispatches, sentToday>>
    BY <1>5 DEF DeadManTrips, StillDisabled, RateLimited, Duplicate, Drops, Holds
  <2>2. \A i \in PoolJob : i # j => Stage'[i] = Stage[i]
    BY <1>2, <1>3, <2>1 DEF Stage
  <2>3. CASE j \in PoolJob
    <3>1. Stage[j] = "waiting" /\ Stage'[j] = "over"
      BY <1>2, <1>3, <1>4, <2>1, <2>3 DEF Stage
    <3>2. {j} \in SUBSET PoolJob
      BY <2>3
    <3> QED BY <2>1, <2>2, <3>1, <3>2, StagesGivenUp
  <2>4. CASE j \notin PoolJob
    BY <2>1, <2>2, <2>4, SameStage
  <2> QED BY <2>3, <2>4
<1>6. CASE IsSafe(j) \/ RateAllowed(j) \/ IsNew(j)
  <2>1. /\ pc # "cool" /\ pc' # "cool" /\ hand' = hand /\ score' = score
        /\ UNCHANGED <<dispatches, sentToday>>
    BY <1>6 DEF IsSafe, RateAllowed, IsNew, TakesKey, Passes, Holds
  <2>2. \A i \in PoolJob : Stage'[i] = Stage[i]
    BY <1>2, <2>1 DEF Stage
  <2> QED BY <2>1, <2>2, SameStage
<1>7. CASE QuietDefers(j)
  <2>1. /\ pc # "cool" /\ hand' = {} /\ j \in PoolJob
        /\ score' = [score EXCEPT ![j] = now + 1]
        /\ UNCHANGED <<dispatches, sentToday>>
    BY <1>7 DEF QuietDefers, Holds
  <2>2. \A i \in PoolJob : i # j => score'[i] = score[i]
    BY <2>1 DEF TypeOK, SchedulerTypeOK
  <2>3. score'[j] = now + 1 /\ now + 1 > 0
    BY <2>1 DEF TypeOK, SchedulerTypeOK, ThrottleTypeOK
  <2>4. \A i \in PoolJob : Stage'[i] = Stage[i]
    BY <1>2, <1>3, <2>1, <2>2, <2>3 DEF Stage
  <2> QED BY <2>1, <2>4, SameStage
<1>8. CASE Dispatch(j)
  <2>1. pc = "xadd" /\ pc' = "cool" /\ hand' = hand /\ score' = score
    BY <1>8 DEF Dispatch, Holds
  <2>2. \A i \in PoolJob : i # j => Stage'[i] = Stage[i]
    BY <1>2, <1>3, <2>1 DEF Stage
  <2>3. CASE j \in PoolJob
    <3>1. Stage[j] = "waiting" /\ Stage'[j] = "over"
      BY <1>2, <1>3, <1>4, <2>1, <2>3 DEF Stage
    <3>2. Stage' = [Stage EXCEPT ![j] = "over"]
      BY <2>2, <2>3, <3>1 DEF Stage
    <3>3. /\ dispatches' = [dispatches EXCEPT ![j] = @ + 1]
          /\ sentToday' = sentToday \cup {j[1]}
      BY <1>8, <2>3 DEF Dispatch
    <3>4. j[1] \notin sentToday
      BY <1>3, <2>1, <2>3 DEF DayInv
    <3>5. Plans!Send(j)
      BY <3>1, <3>2, <3>3, <3>4 DEF Plans!Send
    <3> QED BY <2>3, <3>5 DEF Plans!Next, Plans!Job, PoolJob
  <2>4. CASE j \notin PoolJob
    <3>1. UNCHANGED <<dispatches, sentToday>>
      BY <1>8, <2>4 DEF Dispatch
    <3> QED BY <2>2, <2>4, <3>1, SameStage
  <2> QED BY <2>3, <2>4
<1>9. CASE RecordCooldown(j)
  <2>1. /\ pc = "cool" /\ hand' = {} /\ score' = score
        /\ UNCHANGED <<dispatches, sentToday>>
    BY <1>9 DEF RecordCooldown, Holds
  <2>2. \A i \in PoolJob : Stage'[i] = Stage[i]
    BY <1>2, <2>1 DEF Stage
  <2> QED BY <2>1, <2>2, SameStage
<1> QED BY <1>1, <1>5, <1>6, <1>7, <1>8, <1>9

LEMMA TickImplements ==
  ASSUME PlaceInv, Tick
  PROVE  [Plans!Next]_<<Stage, dispatches, sentToday>>
<1>1. /\ hand = {} /\ toPlan = {}
      /\ UNCHANGED <<score, hand, dispatches, toPlan, planned, pc>>
      /\ sentToday' = {} \/ sentToday' = sentToday
  BY DEF Tick, KeysAge, PlaceInv, OnePlace, PlacedOnce
<1>2. \A j \in PoolJob : Stage'[j] = Stage[j]
  BY <1>1 DEF Stage
<1>3. Stage' = Stage
  BY <1>2 DEF Stage
<1>4. CASE sentToday' = {}
  BY <1>1, <1>3, <1>4 DEF Plans!Midnight, Plans!Next
<1> QED BY <1>1, <1>3, <1>4

(* PlannedOnce: every behaviour of planner, scheduler, worker and user is  *)
(* one of DayPlan: a date is planned once, within its limit, and its jobs  *)
(* go out once or are over for good.                                       *)
THEOREM ImplementsDayPlan == Spec => PlannedOnce
<1> DEFINE Inv == TypeOK /\ ClockInv /\ PlaceInv /\ DayInv
<1>1. Init => Inv
  BY InitTypeOK, InitPlaceInv DEF DayInv, ClockInv, Init, SchedulerInit, ThrottleInit
<1>2. Inv /\ [Next]_vars => Inv'
  BY NextTypes, NextClock, NextPlace, NextDay
<1>3. Init => Plans!Init
  BY DEF Init, SchedulerInit, Plans!Init, Plans!Job, PoolJob, Stage
<1>4. Inv /\ [Next]_vars => [Plans!Next]_<<Stage, dispatches, sentToday>>
  <2> SUFFICES ASSUME Inv, [Next]_vars
               PROVE  [Plans!Next]_<<Stage, dispatches, sentToday>>
    OBVIOUS
  <2>1. CASE SchedulerNext
    BY <2>1, PlanImplements, BatchImplements, HandImplements DEF SchedulerNext, PollStep
  <2>2. CASE HandlerNext \/ UserNext \/ UNCHANGED vars
    <3>1. UNCHANGED <<hand, dispatches, sentToday, toPlan, planned, pc, now>>
      BY <2>2 DEF HandlerNext, Handles, HandlerFrame, HandlerSilent, HandlerRaises,
                  PoolHandlerSends, ReminderFires, RecurringFires,
                  UserNext, CreateReminder, UpdateReminder, SetStatus, vars
    <3>2. \A j \in PoolJob : score'[j] = score[j]
      BY <2>2, HandlerKeepsPoolScores, UserKeepsPoolScores DEF HandlerNext, vars
    <3>3. \A j \in PoolJob : Stage'[j] = Stage[j]
      BY <3>1, <3>2 DEF Stage, LocalDate
    <3> QED BY <3>1, <3>3, SameStage
  <2>3. CASE Tick
    BY <2>3, TickImplements
  <2> QED BY <2>1, <2>2, <2>3 DEF Next
<1> QED
  BY <1>1, <1>2, <1>3, <1>4, PTL
     DEF Spec, PlannedOnce, Plans!Spec, Plans!dayVars

(* What DayPlan keeps by itself: the categories of a date's plan that wait *)
(* or went out are among those some draw chose.                            *)
Untouched(d) ==
  \A c \in Category : Stage[<<c, d>>] = "ahead" /\ dispatches[<<c, d>>] = 0

WithinChoice(d, S) ==
  \A c \in Category :
    Stage[<<c, d>>] # "over" \/ dispatches[<<c, d>>] > 0 => c \in S

DrawInv ==
  \A d \in Date :
    Untouched(d) \/ \E S \in SUBSET Category : /\ Cardinality(S) <= MaxCategories
                                               /\ WithinChoice(d, S)

LEMMA NextDraw ==
  ASSUME TypeOK, DrawInv, [Plans!Next]_<<Stage, dispatches, sentToday>>
  PROVE  DrawInv'
<1>1. \A c \in Category, d \in Date : <<c, d>> \in PoolJob
  BY DEF PoolJob
<1>2. \A j \in PoolJob : j[1] \in Category /\ j[2] \in Date /\ j = <<j[1], j[2]>>
  BY DEF PoolJob
<1>3. dispatches \in [PoolJob -> Nat]
  BY DEF TypeOK, SchedulerTypeOK
<1>4. SUFFICES ASSUME NEW d \in Date
               PROVE  Untouched(d)' \/ \E S \in SUBSET Category :
                        Cardinality(S) <= MaxCategories /\ WithinChoice(d, S)'
  BY DEF DrawInv
<1>5. ASSUME NEW e \in Date, Plans!Draw(e)
      PROVE  Untouched(d)' \/ \E S \in SUBSET Category :
               Cardinality(S) <= MaxCategories /\ WithinChoice(d, S)'
  <2>1. PICK S \in SUBSET Category :
          /\ Cardinality(S) <= MaxCategories
          /\ Stage' = [j \in PoolJob |->
                         IF j[2] = e THEN IF j[1] \in S THEN "chosen" ELSE "over"
                         ELSE Stage[j]]
    BY <1>5 DEF Plans!Draw, Plans!Job, PoolJob
  <2>2. dispatches' = dispatches /\ \A c \in Category : Stage[<<c, e>>] = "ahead"
    BY <1>5 DEF Plans!Draw
  <2>3. CASE d = e
    <3>1. \A c \in Category : dispatches[<<c, d>>] > 0 => ~Untouched(d)
      BY <1>1, <1>3 DEF Untouched
    <3>2. CASE Untouched(d)
      <4>1. \A c \in Category : c \notin S => Stage'[<<c, d>>] = "over"
        BY <1>1, <2>1, <2>3
      <4>2. WithinChoice(d, S)'
        BY <2>2, <3>1, <3>2, <4>1 DEF WithinChoice
      <4> QED BY <2>1, <4>2
    <3>3. CASE ~Untouched(d)
      <4>1. PICK T \in SUBSET Category :
              Cardinality(T) <= MaxCategories /\ WithinChoice(d, T)
        BY <3>3 DEF DrawInv
      <4>2. T = Category
        BY <2>2, <2>3, <4>1 DEF WithinChoice
      <4>3. WithinChoice(d, T)'
        BY <4>2 DEF WithinChoice
      <4> QED BY <4>1, <4>3
    <3> QED BY <3>2, <3>3
  <2>4. CASE d # e
    <3>1. \A c \in Category : Stage'[<<c, d>>] = Stage[<<c, d>>]
      BY <1>1, <2>1, <2>4
    <3> QED BY <2>2, <3>1 DEF DrawInv, Untouched, WithinChoice
  <2> QED BY <2>3, <2>4
<1>6. ASSUME \A c \in Category :
               /\ Stage'[<<c, d>>] = "ahead" <=> Stage[<<c, d>>] = "ahead"
               /\ Stage'[<<c, d>>] # "over" => Stage[<<c, d>>] # "over"
               /\ dispatches'[<<c, d>>] # dispatches[<<c, d>>]
                    => Stage[<<c, d>>] = "waiting"
      PROVE  Untouched(d)' \/ \E S \in SUBSET Category :
               Cardinality(S) <= MaxCategories /\ WithinChoice(d, S)'
  <2>1. CASE Untouched(d)
    <3>1. \A c \in Category : /\ Stage'[<<c, d>>] = "ahead"
                              /\ dispatches'[<<c, d>>] = dispatches[<<c, d>>]
      BY <1>6, <2>1 DEF Untouched
    <3>2. Untouched(d)'
      BY <2>1, <3>1 DEF Untouched
    <3> QED BY <3>2
  <2>2. CASE ~Untouched(d)
    <3>1. PICK T \in SUBSET Category :
            Cardinality(T) <= MaxCategories /\ WithinChoice(d, T)
      BY <2>2 DEF DrawInv
    <3>2. WithinChoice(d, T)'
      BY <1>6, <3>1 DEF WithinChoice
    <3> QED BY <3>1, <3>2
  <2> QED BY <2>1, <2>2
<1>7. ASSUME NEW j \in PoolJob, Plans!Place(j) \/ Plans!Send(j)
      PROVE  \A c \in Category :
               /\ Stage'[<<c, d>>] = "ahead" <=> Stage[<<c, d>>] = "ahead"
               /\ Stage'[<<c, d>>] # "over" => Stage[<<c, d>>] # "over"
               /\ dispatches'[<<c, d>>] # dispatches[<<c, d>>]
                    => Stage[<<c, d>>] = "waiting"
  <2>1. \E x \in {"waiting", "over"} : Stage' = [Stage EXCEPT ![j] = x]
    BY <1>7 DEF Plans!Place, Plans!Send
  <2>2. /\ Stage'[j] \in {"waiting", "over"}
        /\ \A i \in PoolJob : i # j => Stage'[i] = Stage[i]
    BY <2>1 DEF Stage
  <2>3. Stage[j] \in {"chosen", "waiting"}
    BY <1>7 DEF Plans!Place, Plans!Send
  <2>4. /\ \A i \in PoolJob : i # j => dispatches'[i] = dispatches[i]
        /\ dispatches'[j] # dispatches[j] => Stage[j] = "waiting"
    BY <1>3, <1>7 DEF Plans!Place, Plans!Send
  <2> QED BY <1>1, <2>2, <2>3, <2>4
<1>8. CASE Plans!GiveUp
  <2>1. PICK S \in SUBSET {j \in PoolJob : Stage[j] \in {"chosen", "waiting"}} :
          Stage' = [j \in PoolJob |-> IF j \in S THEN "over" ELSE Stage[j]]
    BY <1>8 DEF Plans!GiveUp, Plans!Job, PoolJob
  <2>2. dispatches' = dispatches
    BY <1>8 DEF Plans!GiveUp
  <2> QED BY <1>1, <1>6, <2>1, <2>2
<1>9. CASE Plans!Midnight \/ UNCHANGED <<Stage, dispatches, sentToday>>
  BY <1>6, <1>9 DEF Plans!Midnight
<1> QED BY <1>5, <1>6, <1>7, <1>8, <1>9 DEF Plans!Next, Plans!Job, PoolJob

(* No more than MaxCategories messages of a date's plan ever go out,       *)
(* however many polls see the date, and whatever is deferred into others.  *)
(* (proactive_max_categories_per_day.)                                     *)
PlanLimitKept ==
  \A d \in Date : Cardinality({c \in Category : dispatches[<<c, d>>] > 0}) <= MaxCategories

THEOREM PlansKeepTheirLimit == Spec => []PlanLimitKept
<1>1. Init => DrawInv
  BY DEF Init, SchedulerInit, DrawInv, Untouched, Stage, PoolJob
<1>2. TypeOK /\ DrawInv /\ [Plans!Next]_<<Stage, dispatches, sentToday>> => DrawInv'
  BY NextDraw
<1>3. TypeOK /\ DrawInv => PlanLimitKept
  <2> SUFFICES ASSUME TypeOK, DrawInv, NEW d \in Date
               PROVE  Cardinality({c \in Category : dispatches[<<c, d>>] > 0})
                        <= MaxCategories
    BY DEF PlanLimitKept
  <2> DEFINE Out == {c \in Category : dispatches[<<c, d>>] > 0}
  <2>1. CASE Untouched(d)
    <3>1. Out = {}
      BY <2>1 DEF Untouched
    <3>2. Cardinality({}) = 0
      BY FS_EmptySet
    <3>3. Cardinality(Out) = 0
      <4> HIDE DEF Out
      <4> QED BY <3>1, <3>2
    <3> QED BY <3>3
  <2>2. CASE ~Untouched(d)
    <3>1. PICK S \in SUBSET Category :
            Cardinality(S) <= MaxCategories /\ WithinChoice(d, S)
      BY <2>2 DEF DrawInv
    <3>2. Out \subseteq S /\ IsFiniteSet(S)
      BY <3>1, FS_Subset DEF WithinChoice
    <3>3. Cardinality(Out) <= Cardinality(S) /\ Cardinality(Out) \in Nat /\ Cardinality(S) \in Nat
      <4> HIDE DEF Out
      <4> QED BY <3>2, FS_Subset, FS_CardinalityType
    <3> QED BY <3>1, <3>3
  <2> QED BY <2>1, <2>2
<1> QED
  BY <1>1, <1>2, <1>3, TypeCorrect, ImplementsDayPlan, PTL
     DEF Spec, PlannedOnce, Plans!Spec, Plans!dayVars

------------------------------------------------------------------------------
(* A reminder the user waits for has an active row, and is on its way or   *)
(* its loss is on record.                                                  *)

OnItsWay(t) ==
  score[t] > 0 \/ (t \in hand /\ pc # "cool") \/ queued[t] > 0 \/ fate[t] # "none"

RemInv ==
  /\ now \in 1..Horizon
  /\ \A t \in awaited : task[t] = "active" /\ OnItsWay(t)

(* A step that leaves user and clock alone keeps each reminder on its way. *)
LEMMA RemFrame ==
  ASSUME RemInv, UNCHANGED <<now, task, awaited>>,
         \A t \in awaited : OnItsWay(t) => OnItsWay(t)'
  PROVE  RemInv'
BY DEF RemInv

LEMMA ScheduledIsOnItsWay ==
  ASSUME TypeOK, NEW t \in Reminder, NEW due \in Nat, due > 0, NEW K,
         Schedules(t, due, K)
  PROVE  /\ score'[t] > 0 \/ fate'[t] # "none"
         /\ \A u \in Reminder : u # t => score'[u] = score[u] /\ fate'[u] = fate[u]
<1>1. CASE "backend" \in K
  BY <1>1 DEF Schedules, TypeOK, SchedulerTypeOK
<1>2. CASE "backend" \notin K
  <2>1. score'[t] = due
    BY <1>2 DEF Schedules, TypeOK, SchedulerTypeOK
  <2>2. \A u \in Reminder : u # t => score'[u] = score[u] /\ fate'[u] = fate[u]
    BY <1>2 DEF Schedules, TypeOK, SchedulerTypeOK
  <2> QED BY <2>1, <2>2
<1> QED BY <1>1, <1>2

LEMMA SchedulerRem ==
  ASSUME TypeOK, PlaceInv, RemInv, SchedulerNext, UNCHANGED taskVars
  PROVE  RemInv'
<1>1. now' = now
  BY DEF SchedulerNext, PollStep, PlanStep, PlanStart, Draws, PlanSkips, PlanPlaces, Places,
         PlanFails, Fetch, ClaimStep, ClaimLost, Claim, TakesNext, PollFails, HandStep,
         DeadManTrips, StillDisabled, IsSafe, RateLimited, RateAllowed, QuietDefers,
         Duplicate, IsNew, TakesKey, Dispatch, RecordCooldown
<1> SUFFICES ASSUME NEW t \in awaited, OnItsWay(t)
             PROVE  OnItsWay(t)'
  BY <1>1, RemFrame
<1>2. t \in Reminder /\ t \in Job /\ t \notin PoolJob
  BY DEF TypeOK, TaskTypeOK
<1>3. hand # {} => pc \notin {"poll", "plan", "fetch", "next"}
  BY DEF PlaceInv, OnePlace
<1>4. CASE PlanStart \/ PlanFails \/ Fetch
  BY <1>3, <1>4 DEF PlanStart, Draws, PlanFails, Fetch, OnItsWay
<1>5. ASSUME NEW c \in Category, PlanSkips(c) \/ PlanPlaces(c)
      PROVE  OnItsWay(t)'
  <2>1. score'[t] = score[t]
    <3>1. PICK n : score' = [score EXCEPT ![<<c, LocalDate>>] = n] \/ score' = score
      BY <1>5 DEF PlanSkips, PlanPlaces, Places
    <3>2. <<c, LocalDate>> # t
      <4>1. now \in 0..Horizon
        BY DEF RemInv
      <4>2. <<c, LocalDate>> \in PoolJob
        BY <4>1, DateInRange DEF PoolJob
      <4> QED BY <1>2, <4>2
    <3> QED BY <1>2, <3>1, <3>2 DEF TypeOK, SchedulerTypeOK
  <2>2. UNCHANGED <<hand, fate, queued>> /\ hand = {}
    BY <1>3, <1>5 DEF PlanSkips, PlanPlaces, Places
  <2> QED BY <2>1, <2>2 DEF OnItsWay
<1>6. ASSUME NEW e \in batch, ClaimLost(e) \/ Claim(e)
      PROVE  OnItsWay(t)'
  <2>1. hand = {} /\ UNCHANGED <<fate, queued>>
    BY <1>3, <1>6 DEF ClaimLost, Claim, TakesNext
  <2>2. CASE ClaimLost(e)
    BY <2>1, <2>2 DEF ClaimLost, OnItsWay
  <2>3. CASE Claim(e) /\ e.job # t
    <3>1. score'[t] = score[t]
      BY <1>2, <2>3 DEF Claim, TypeOK, SchedulerTypeOK
    <3> QED BY <2>1, <3>1 DEF OnItsWay
  <2>4. CASE Claim(e) /\ e.job = t
    BY <1>2, <2>4 DEF Claim, Judges, IsStale, OnItsWay
  <2> QED BY <1>6, <2>2, <2>3, <2>4
<1>7. ASSUME NEW j \in Job, NEW from, from # "cool", NEW why \in {"limited", "duplicate"},
             Drops(j, from, why), queued' = queued
      PROVE  OnItsWay(t)'
  <2>1. \A i \in hand : i = j
    BY <1>7 DEF Drops, Holds, PlaceInv, OnePlace
  <2>2. UNCHANGED <<score, queued>>
    BY <1>7 DEF Drops
  <2>3. CASE t = j
    <3>1. fate'[t] = why
      BY <1>2, <1>7, <2>3 DEF Drops
    <3> QED BY <3>1 DEF OnItsWay
  <2>4. CASE t # j
    <3>1. fate'[t] = fate[t]
      BY <1>2, <1>7, <2>4 DEF Drops
    <3> QED BY <2>1, <2>2, <2>4, <3>1 DEF OnItsWay
  <2> QED BY <2>3, <2>4
<1>8. ASSUME NEW j \in Job,
             DeadManTrips(j) \/ StillDisabled(j) \/ RateLimited(j) \/ Duplicate(j)
      PROVE  OnItsWay(t)'
  <2>1. PICK from \in {"safety", "rate", "idem"}, why \in {"limited", "duplicate"} :
          Drops(j, from, why)
    BY <1>8 DEF DeadManTrips, StillDisabled, RateLimited, Duplicate
  <2>2. queued' = queued
    BY <2>1 DEF Drops
  <2> QED BY <1>7, <2>1, <2>2
<1>9. ASSUME NEW j \in Job, IsSafe(j) \/ RateAllowed(j) \/ IsNew(j)
      PROVE  OnItsWay(t)'
  <2>1. UNCHANGED <<score, hand, fate, queued>> /\ pc' # "cool"
    BY <1>9 DEF IsSafe, RateAllowed, IsNew, TakesKey, Passes
  <2> QED BY <2>1 DEF OnItsWay
<1>10. ASSUME NEW j \in Job, QuietDefers(j)
       PROVE  OnItsWay(t)'
  <2>1. t # j /\ t \notin hand
    BY <1>2, <1>10 DEF QuietDefers, Holds, PlaceInv, OnePlace
  <2>2. score'[t] = score[t] /\ UNCHANGED <<fate, queued>>
    BY <1>2, <1>10, <2>1 DEF QuietDefers, TypeOK, SchedulerTypeOK
  <2> QED BY <2>1, <2>2 DEF OnItsWay
<1>11. ASSUME NEW j \in Job, Dispatch(j)
       PROVE  OnItsWay(t)'
  <2>1. UNCHANGED <<score, fate>> /\ (t \in hand => t = j)
    BY <1>11 DEF Dispatch, Holds, PlaceInv, OnePlace
  <2>2. queued'[t] = queued[t] \/ (t = j /\ queued'[t] = queued[t] + 1)
    BY <1>2, <1>11 DEF Dispatch, TypeOK, SchedulerTypeOK
  <2>3. t = j => queued'[t] = queued[t] + 1
    BY <1>2, <1>11 DEF Dispatch, TypeOK, SchedulerTypeOK
  <2>4. queued[t] \in Nat
    BY <1>2 DEF TypeOK, SchedulerTypeOK
  <2> QED BY <2>1, <2>2, <2>3, <2>4 DEF OnItsWay
<1>12. ASSUME NEW j \in Job, RecordCooldown(j)
       PROVE  OnItsWay(t)'
  <2>1. pc = "cool" /\ UNCHANGED <<score, fate, queued>>
    BY <1>12 DEF RecordCooldown, Holds
  <2> QED BY <2>1 DEF OnItsWay
<1>13. CASE PollFails
  <2>1. UNCHANGED <<score, queued>>
    BY <1>13 DEF PollFails
  <2>2. (t \in hand /\ pc # "cool" /\ fate'[t] = "failed") \/ fate'[t] = fate[t]
    BY <1>2, <1>13 DEF PollFails
  <2>3. t \in hand /\ pc # "cool" => fate'[t] = "failed"
    BY <1>2, <1>13 DEF PollFails
  <2> QED BY <2>1, <2>2, <2>3 DEF OnItsWay
<1> QED BY <1>4, <1>5, <1>6, <1>8, <1>9, <1>10, <1>11, <1>12, <1>13
        DEF SchedulerNext, PollStep, PlanStep, ClaimStep, HandStep

LEMMA HandlerRem ==
  ASSUME TypeOK, RemInv, NEW j \in Job, Handles(j)
  PROVE  RemInv'
<1>1. UNCHANGED <<now, task, hand, pc>> /\ awaited' \subseteq awaited
  BY DEF Handles, HandlerFrame, HandlerSilent, HandlerRaises, PoolHandlerSends,
         ReminderFires, RecurringFires
<1> SUFFICES ASSUME NEW t \in awaited', t \in awaited, task[t] = "active", OnItsWay(t)
             PROVE  OnItsWay(t)'
  BY <1>1 DEF RemInv
<1>2. t \in Reminder /\ t \in Job /\ t \notin PoolJob
  BY DEF TypeOK, TaskTypeOK
<1>3. ASSUME NEW i \in Job, NEW K, t # i, TakesEntry(i, K) \/ queued' = [queued EXCEPT ![i] = @ - 1]
      PROVE  queued'[t] = queued[t]
  BY <1>2, <1>3 DEF TakesEntry, TypeOK, SchedulerTypeOK
<1>4. CASE HandlerSilent(j)
  <2>1. t # j
    BY <1>2, <1>4 DEF HandlerSilent
  <2>2. queued'[t] = queued[t]
    BY <1>3, <1>4, <2>1 DEF HandlerSilent
  <2> QED BY <1>1, <1>4, <2>2 DEF HandlerSilent, OnItsWay
<1>5. CASE HandlerRaises(j)
  <2>1. CASE t = j
    <3>1. fate'[t] = "failed"
      BY <1>2, <1>5, <2>1 DEF HandlerRaises
    <3> QED BY <3>1 DEF OnItsWay
  <2>2. CASE t # j
    <3>1. fate'[t] = fate[t] /\ queued'[t] = queued[t]
      BY <1>2, <1>3, <1>5, <2>2 DEF HandlerRaises
    <3> QED BY <1>1, <1>5, <3>1 DEF HandlerRaises, OnItsWay
  <2> QED BY <2>1, <2>2
<1>6. CASE PoolHandlerSends(j)
  <2>1. PICK K : TakesEntry(j, K)
    BY <1>6 DEF PoolHandlerSends
  <2>2. t # j
    BY <1>2, <1>6 DEF PoolHandlerSends
  <2>3. queued'[t] = queued[t]
    BY <1>3, <2>1, <2>2
  <2> QED BY <1>1, <1>6, <2>3 DEF PoolHandlerSends, OnItsWay
<1>7. CASE j \in Reminder /\ ReminderFires(j)
  <2>1. PICK K : TakesEntry(j, K)
    BY <1>7 DEF ReminderFires
  <2>2. t # j
    BY <1>7 DEF ReminderFires
  <2>3. queued'[t] = queued[t]
    BY <1>3, <2>1, <2>2
  <2> QED BY <1>1, <1>7, <2>3 DEF ReminderFires, OnItsWay
<1>8. CASE j \in Reminder /\ RecurringFires(j)
  <2>1. PICK n \in now..(now + dueAt[j] + Day), K \in SUBSET {"worker", "backend"} :
          IsNextOccurrence(dueAt[j], n) /\ Schedules(j, n, K) /\ TakesEntry(j, K)
    BY <1>8 DEF RecurringFires
  <2>2. dueAt[j] \in Nat /\ now \in Nat
    BY <1>8 DEF RecurringFires, TypeOK, ThrottleTypeOK, TaskTypeOK
  <2>3. n \in Nat /\ n > 0
    BY <2>1, <2>2 DEF IsNextOccurrence
  <2>4. CASE t = j
    <3>1. score'[t] > 0 \/ fate'[t] # "none"
      BY <1>2, <2>1, <2>3, <2>4, ScheduledIsOnItsWay
    <3> QED BY <3>1 DEF OnItsWay
  <2>5. CASE t # j
    <3>1. score'[t] = score[t] /\ fate'[t] = fate[t]
      BY <1>2, <1>8, <2>1, <2>3, <2>5, ScheduledIsOnItsWay
    <3>2. queued'[t] = queued[t]
      BY <1>3, <2>1, <2>5
    <3> QED BY <1>1, <3>1, <3>2 DEF OnItsWay
  <2> QED BY <2>4, <2>5
<1> QED BY <1>4, <1>5, <1>6, <1>7, <1>8 DEF Handles

LEMMA UserRem ==
  ASSUME TypeOK, RemInv, UserNext
  PROVE  RemInv'
<1>1. PICK u \in Reminder : CreateReminder(u) \/ UpdateReminder(u) \/ SetStatus(u)
  BY DEF UserNext
<1>2. CASE SetStatus(u)
  <2>1. PICK s \in {"active", "completed", "deleted"} :
          /\ task' = [task EXCEPT ![u] = s]
          /\ awaited' = IF s = "active" THEN awaited ELSE awaited \ {u}
    BY <1>2 DEF SetStatus
  <2>2. UNCHANGED <<now, score, hand, pc, queued, fate>>
    BY <1>2 DEF SetStatus
  <2>3. \A t \in awaited' : t \in awaited /\ task'[t] = "active"
    BY <2>1 DEF RemInv, TypeOK, TaskTypeOK
  <2> QED BY <2>2, <2>3 DEF RemInv, OnItsWay
<1>3. CASE CreateReminder(u) \/ UpdateReminder(u)
  <2>1. UNCHANGED <<now, hand, pc, queued>> /\ awaited' \subseteq awaited \cup {u}
    BY <1>3 DEF CreateReminder, UpdateReminder
  <2>2. \A t \in awaited' : task'[t] = "active"
    BY <1>3 DEF CreateReminder, UpdateReminder, RemInv, TypeOK, TaskTypeOK
  <2>3. PICK due \in now..(now + MaxLead), K \in {{}, {"backend"}, {"edit"}, {"edit", "backend"}} :
          Schedules(u, due, K)
    BY <1>3 DEF CreateReminder, UpdateReminder, SetsDue
  <2>4. due \in Nat /\ due > 0
    BY DEF RemInv, TypeOK, ThrottleTypeOK
  <2>5. /\ score'[u] > 0 \/ fate'[u] # "none"
        /\ \A t \in Reminder : t # u => score'[t] = score[t] /\ fate'[t] = fate[t]
    BY <2>3, <2>4, ScheduledIsOnItsWay
  <2>6. ASSUME NEW t \in awaited'
        PROVE  task'[t] = "active" /\ OnItsWay(t)'
    <3>1. CASE t = u
      BY <2>2, <2>5, <3>1 DEF OnItsWay
    <3>2. CASE t # u
      <4>1. t \in awaited /\ t \in Reminder
        BY <2>1, <3>2 DEF TypeOK, TaskTypeOK
      <4> QED BY <2>1, <2>2, <2>5, <3>2, <4>1 DEF RemInv, OnItsWay
    <3> QED BY <3>1, <3>2
  <2> QED BY <2>1, <2>6 DEF RemInv
<1> QED BY <1>1, <1>2, <1>3

LEMMA NextRem ==
  ASSUME TypeOK, PlaceInv, RemInv, [Next]_vars
  PROVE  RemInv'
<1>1. CASE Tick
  <2>1. now' \in 1..Horizon /\ pc' = "poll" /\ UNCHANGED <<score, hand, queued, fate, task, awaited>>
    BY <1>1 DEF Tick, NextHour, KeysAge, RemInv, TypeOK, ThrottleTypeOK
  <2> QED BY <1>1, <2>1 DEF RemInv, OnItsWay
<1>2. CASE UNCHANGED vars
  BY <1>2 DEF vars, RemInv, OnItsWay
<1> QED BY <1>1, <1>2, SchedulerRem, HandlerRem, UserRem DEF Next, HandlerNext

(* A reminder the user waits for never falls between its row, the sorted   *)
(* set, the scheduler and the stream without a trace.                      *)
THEOREM NoReminderForgotten == Spec => []ReminderAccounted
<1> DEFINE Inv == TypeOK /\ PlaceInv /\ RemInv
<1>1. Init => Inv
  BY InitTypeOK, InitPlaceInv DEF RemInv, Init, ThrottleInit, TaskInit
<1>2. Inv /\ [Next]_vars => Inv'
  BY NextTypes, NextPlace, NextRem
<1>3. Inv => ReminderAccounted
  BY DEF RemInv, OnItsWay, ReminderAccounted
<1> QED BY <1>1, <1>2, <1>3, PTL DEF Spec

------------------------------------------------------------------------------
(* Occurrences. *)

(* An occurrence of a recurring reminder is in one place, and one that is  *)
(* off the set is one that has come.  While the scheduler sets the cooldown*)
(* the worker may be done with the entry already.                          *)
OccursAt(t) ==
  /\ task[t] = "none" => score[t] = 0 /\ queued[t] = 0 /\ t \notin hand
  /\ score[t] > 0 => score[t] = dueAt[t] /\ queued[t] = 0
  /\ queued[t] > 0 => queued[t] = 1 /\ dueAt[t] <= now
  /\ t \in hand /\ pc # "cool" => score[t] = 0 /\ queued[t] = 0 /\ dueAt[t] <= now
  /\ \A e \in batch : e.job = t => Due(t)
  /\ \A e, f \in batch : e.job = t /\ f.job = t => e = f

Undisturbed == struck \cap {"worker", "edit"} = {}

OccursInv == Undisturbed => \A t \in Recurring : OccursAt(t)

(* OccursAt(t) looks at these values only; the clock may go on, the hand   *)
(* and the batch may be emptied.                                           *)
LEMMA OccursFrame ==
  ASSUME TypeOK, NEW t \in Recurring, OccursAt(t),
         task'[t] = "none" => task[t] = "none",
         score'[t] = score[t], queued'[t] = queued[t], dueAt'[t] = dueAt[t],
         now' \in Nat, now <= now',
         t \in hand' => t \in hand /\ (pc # "cool" \/ pc' = "cool"),
         batch' \subseteq batch
  PROVE  OccursAt(t)'
<1>1. t \in Job /\ now \in Nat /\ score[t] \in Nat /\ dueAt[t] \in Nat
  BY ReminderAssumption DEF TypeOK, ThrottleTypeOK, SchedulerTypeOK, TaskTypeOK, Job
<1>2. Due(t) => Due(t)'
  BY <1>1 DEF Due
<1> QED BY <1>1, <1>2 DEF OccursAt

LEMMA RecurringType ==
  ASSUME NEW t \in Recurring
  PROVE  t \in Reminder /\ t \in Job /\ t \notin PoolJob
BY ReminderAssumption, JobAssumption DEF Job

(* The scheduler takes an occurrence that is due, and puts it on the stream*)
(* once.                                                                   *)
LEMMA SchedulerOccurs ==
  ASSUME TypeOK, RemInv, NEW t \in Recurring, OccursAt(t),
         SchedulerNext, UNCHANGED taskVars
  PROVE  OccursAt(t)'
<1>a. t \in Reminder /\ t \in Job /\ t \notin PoolJob
  BY RecurringType
<1>b. now' = now /\ task' = task /\ dueAt' = dueAt
  BY DEF SchedulerNext, PollStep, PlanStep, PlanStart, Draws, PlanSkips, PlanPlaces, Places,
         PlanFails, Fetch, ClaimStep, ClaimLost, Claim, TakesNext, PollFails, HandStep,
         DeadManTrips, StillDisabled, IsSafe, RateLimited, RateAllowed, QuietDefers,
         Duplicate, IsNew, TakesKey, Dispatch, RecordCooldown, taskVars
<1>c. /\ now \in Nat /\ score \in [Job -> Nat] /\ queued \in [Job -> Nat]
      /\ dueAt[t] \in Nat /\ batch \subseteq [job : Job, at : Nat]
  BY DEF TypeOK, ThrottleTypeOK, SchedulerTypeOK, TaskTypeOK
<1>d. ASSUME score'[t] = score[t], queued'[t] = queued[t],
             t \in hand' => t \in hand /\ (pc # "cool" \/ pc' = "cool"),
             batch' \subseteq batch
      PROVE  OccursAt(t)'
  BY <1>b, <1>c, <1>d, OccursFrame
<1>1. CASE PlanStart \/ PlanFails
  BY <1>1, <1>d DEF PlanStart, Draws, PlanFails, dispatchVars
<1>2. ASSUME NEW c \in Category, PlanSkips(c) \/ PlanPlaces(c)
      PROVE  OccursAt(t)'
  <2>1. score'[t] = score[t]
    <3>1. PICK n : score' = [score EXCEPT ![<<c, LocalDate>>] = n] \/ score' = score
      BY <1>2 DEF PlanSkips, PlanPlaces, Places
    <3>2. <<c, LocalDate>> # t
      <4>1. now \in 0..Horizon
        BY DEF RemInv
      <4>2. <<c, LocalDate>> \in PoolJob
        BY <4>1, DateInRange DEF PoolJob
      <4> QED BY <1>a, <4>2
    <3> QED BY <1>a, <1>c, <3>1, <3>2
  <2>2. UNCHANGED <<hand, queued, batch>> /\ pc = "plan"
    BY <1>2 DEF PlanSkips, PlanPlaces, Places, dispatchVars
  <2> QED BY <1>d, <2>1, <2>2
<1>3. CASE Fetch
  <2>1. PICK b \in SUBSET {j \in Job : Due(j)} :
          batch' = {[job |-> j, at |-> score[j]] : j \in b}
    BY <1>3 DEF Fetch
  <2>2. UNCHANGED <<score, queued, hand>> /\ pc # "cool"
    BY <1>3 DEF Fetch, dispatchVars
  <2>3. \A e \in batch' : e.job = t => Due(t)'
    BY <1>b, <2>1, <2>2 DEF Due
  <2>4. \A e, f \in batch' : e.job = t /\ f.job = t => e = f
    BY <2>1
  <2> QED BY <1>b, <2>2, <2>3, <2>4 DEF OccursAt
<1>4. ASSUME NEW e \in batch, ClaimLost(e) PROVE OccursAt(t)'
  BY <1>4, <1>d DEF ClaimLost, TakesNext, dispatchVars
<1>5. ASSUME NEW e \in batch, Claim(e) PROVE OccursAt(t)'
  <2>1. /\ score[e.job] > 0 /\ score' = [score EXCEPT ![e.job] = 0]
        /\ batch' = batch \ {e} /\ queued' = queued /\ pc = "next" /\ pc' # "cool"
        /\ hand' = {e.job} \/ (e.job \in PoolJob /\ hand' = hand)
    BY <1>5 DEF Claim, TakesNext, Judges, IsStale, NextInBatch, dispatchVars
  <2>2. CASE e.job # t
    <3>1. score'[t] = score[t]
      BY <1>a, <1>c, <2>1, <2>2
    <3> QED BY <1>d, <2>1, <2>2, <3>1
  <2>3. CASE e.job = t
    <3>1. /\ Due(t) /\ score[t] > 0 /\ score[t] = dueAt[t] /\ queued[t] = 0
          /\ task[t] # "none"
      BY <1>c, <2>1, <2>3 DEF OccursAt
    <3>2. score'[t] = 0 /\ dueAt[t] <= now
      BY <1>a, <1>c, <2>1, <2>3, <3>1 DEF Due
    <3>3. \A f \in batch' : f.job # t
      BY <2>1, <2>3 DEF OccursAt
    <3> QED BY <1>b, <1>c, <2>1, <3>1, <3>2, <3>3 DEF OccursAt
  <2> QED BY <2>2, <2>3
<1>6. ASSUME NEW j \in Job,
             DeadManTrips(j) \/ StillDisabled(j) \/ RateLimited(j) \/ Duplicate(j)
      PROVE  OccursAt(t)'
  <2>1. hand' = {} /\ UNCHANGED <<score, queued, batch>>
    BY <1>6 DEF DeadManTrips, StillDisabled, RateLimited, Duplicate, Drops, dispatchVars
  <2> QED BY <1>d, <2>1
<1>7. ASSUME NEW j \in Job, IsSafe(j) \/ RateAllowed(j) \/ IsNew(j)
      PROVE  OccursAt(t)'
  <2>1. UNCHANGED <<score, hand, queued, batch>> /\ pc # "cool"
    BY <1>7 DEF IsSafe, RateAllowed, IsNew, TakesKey, Passes, Holds, dispatchVars
  <2> QED BY <1>d, <2>1
<1>8. ASSUME NEW j \in Job, QuietDefers(j) PROVE OccursAt(t)'
  <2>1. hand' = {} /\ UNCHANGED <<queued, batch>>
    BY <1>8 DEF QuietDefers, dispatchVars
  <2>2. score'[t] = score[t]
    BY <1>a, <1>c, <1>8 DEF QuietDefers
  <2> QED BY <1>d, <2>1, <2>2
<1>9. ASSUME NEW j \in Job, Dispatch(j) PROVE OccursAt(t)'
  <2>1. /\ UNCHANGED <<score, hand, batch>> /\ pc = "xadd" /\ pc' = "cool" /\ j \in hand
        /\ queued' = [queued EXCEPT ![j] = @ + 1]
    BY <1>9 DEF Dispatch, Holds
  <2>2. CASE j # t
    <3>1. queued'[t] = queued[t]
      BY <1>a, <1>c, <2>1, <2>2
    <3> QED BY <1>d, <2>1, <3>1
  <2>3. CASE j = t
    <3>1. score[t] = 0 /\ queued[t] = 0 /\ dueAt[t] <= now /\ task[t] # "none"
      BY <2>1, <2>3 DEF OccursAt
    <3>2. queued'[t] = 1
      BY <1>a, <1>c, <2>1, <2>3, <3>1
    <3>3. ~Due(t)
      BY <3>1 DEF Due
    <3> QED BY <1>b, <2>1, <3>1, <3>2, <3>3 DEF OccursAt
  <2> QED BY <2>2, <2>3
<1>10. CASE PollFails \/ \E j \in Job : RecordCooldown(j)
  <2>1. hand' = {} /\ batch' \subseteq batch /\ UNCHANGED <<score, queued>>
    BY <1>10 DEF PollFails, RecordCooldown, dispatchVars
  <2> QED BY <1>d, <2>1
<1> QED BY <1>1, <1>2, <1>3, <1>4, <1>5, <1>6, <1>7, <1>8, <1>9, <1>10
        DEF SchedulerNext, PollStep, PlanStep, ClaimStep, HandStep

(* A fired occurrence is replaced by the next one, in the row and the set. *)
LEMMA HandlerOccurs ==
  ASSUME TypeOK, NEW t \in Recurring, OccursAt(t), NEW j \in Job, Handles(j),
         "worker" \notin struck'
  PROVE  OccursAt(t)'
<1>a. t \in Reminder /\ t \in Job /\ t \notin PoolJob
  BY RecurringType
<1>b. UNCHANGED <<now, task, hand, pc, batch>>
  BY DEF Handles, HandlerFrame, HandlerSilent, HandlerRaises, PoolHandlerSends,
         ReminderFires, RecurringFires
<1>c. /\ now \in Nat /\ score \in [Job -> Nat] /\ queued \in [Job -> Nat]
      /\ dueAt \in [Recurring -> Nat]
  BY DEF TypeOK, ThrottleTypeOK, SchedulerTypeOK, TaskTypeOK
(* The entry is taken off the stream: the worker did not die.              *)
<1>1. queued[j] > 0 /\ queued' = [queued EXCEPT ![j] = @ - 1]
  <2>1. ASSUME NEW K, Strike(K), TakesEntry(j, K)
        PROVE  queued' = [queued EXCEPT ![j] = @ - 1]
    BY <2>1 DEF Strike, TakesEntry
  <2> QED
    BY <2>1 DEF Handles, HandlerSilent, HandlerRaises, PoolHandlerSends, ReminderFires,
                RecurringFires
<1>2. CASE j # t
  <2>1. queued'[t] = queued[t]
    BY <1>a, <1>c, <1>1, <1>2
  <2>2. score'[t] = score[t] /\ dueAt'[t] = dueAt[t]
    <3>1. CASE j \in Reminder /\ RecurringFires(j)
      <4>1. PICK n \in now..(now + dueAt[j] + Day), K \in SUBSET {"worker", "backend"} :
              Schedules(j, n, K) /\ dueAt' = [dueAt EXCEPT ![j] = n]
        BY <3>1 DEF RecurringFires
      <4> QED BY <1>a, <1>c, <1>2, <4>1 DEF Schedules
    <3> QED
      BY <3>1 DEF Handles, HandlerSilent, HandlerRaises, PoolHandlerSends, ReminderFires
  <2> QED BY <1>b, <1>c, <2>1, <2>2, OccursFrame
<1>3. CASE j = t
  <2>1. queued[t] = 1 /\ queued'[t] = 0 /\ score[t] = 0 /\ task[t] # "none"
    BY <1>a, <1>c, <1>1, <1>3 DEF OccursAt
  <2>2. t \in hand => pc = "cool"
    BY <2>1 DEF OccursAt
  <2>3. \A e \in batch : e.job # t
    BY <2>1 DEF OccursAt, Due
  <2>4. score'[t] > 0 => score'[t] = dueAt'[t]
    <3>1. CASE RecurringFires(t)
      <4>1. PICK n \in now..(now + dueAt[t] + Day), K \in SUBSET {"worker", "backend"} :
              Schedules(t, n, K) /\ dueAt' = [dueAt EXCEPT ![t] = n]
        BY <3>1 DEF RecurringFires
      <4> QED BY <1>a, <1>c, <2>1, <4>1 DEF Schedules
    <3> QED
      BY <1>a, <1>3, <2>1, <3>1
         DEF Handles, HandlerSilent, HandlerRaises, PoolHandlerSends, ReminderFires
  <2> QED BY <1>b, <2>1, <2>2, <2>3, <2>4 DEF OccursAt
<1> QED BY <1>2, <1>3

LEMMA UserOccurs ==
  ASSUME TypeOK, NEW t \in Recurring, OccursAt(t), UserNext, "edit" \notin struck'
  PROVE  OccursAt(t)'
<1>a. t \in Reminder /\ t \in Job
  BY RecurringType
<1>b. UNCHANGED <<now, hand, pc, batch, queued>>
  BY DEF UserNext, CreateReminder, UpdateReminder, SetStatus, schedulerVars, dispatchVars,
         throttleVars
<1>c. /\ now \in Nat /\ score \in [Job -> Nat] /\ dueAt \in [Recurring -> Nat]
      /\ task \in [Reminder -> {"none", "active", "completed", "deleted"}]
  BY DEF TypeOK, ThrottleTypeOK, SchedulerTypeOK, TaskTypeOK
<1>1. PICK u \in Reminder : CreateReminder(u) \/ SetStatus(u)
  BY DEF UserNext, UpdateReminder, Strike
<1>2. CASE SetStatus(u)
  <2>1. UNCHANGED <<score, dueAt>> /\ (task'[t] = "none" => task[t] = "none")
    BY <1>a, <1>c, <1>2 DEF SetStatus, schedulerVars
  <2> QED BY <1>b, <1>c, <2>1, OccursFrame
<1>3. CASE CreateReminder(u)
  <2>1. PICK due \in now..(now + MaxLead), K \in {{}, {"backend"}} :
          /\ dueAt' = [v \in Recurring |-> IF v = u THEN due ELSE dueAt[v]]
          /\ Schedules(u, due, K)
    BY <1>3 DEF CreateReminder, SetsDue
  <2>2. task[u] = "none" /\ task' = [task EXCEPT ![u] = "active"]
    BY <1>3 DEF CreateReminder
  <2>3. CASE u # t
    <3>1. score'[t] = score[t] /\ dueAt'[t] = dueAt[t] /\ task'[t] = task[t]
      BY <1>a, <1>c, <2>1, <2>2, <2>3 DEF Schedules
    <3> QED BY <1>b, <1>c, <3>1, OccursFrame
  <2>4. CASE u = t
    <3>1. score[t] = 0 /\ queued[t] = 0 /\ t \notin hand
      BY <2>2, <2>4 DEF OccursAt
    <3>2. score'[t] > 0 => score'[t] = dueAt'[t]
      BY <1>a, <1>c, <2>1, <2>4, <3>1 DEF Schedules
    <3>3. \A e \in batch : e.job # t
      BY <3>1 DEF OccursAt, Due
    <3>4. task'[t] = "active"
      BY <1>a, <1>c, <2>2, <2>4
    <3> QED BY <1>b, <3>1, <3>2, <3>3, <3>4 DEF OccursAt
  <2> QED BY <2>3, <2>4
<1> QED BY <1>1, <1>2, <1>3

LEMMA NextOccurs ==
  ASSUME TypeOK, RemInv, OccursInv, [Next]_vars
  PROVE  OccursInv'
<1>1. struck \subseteq struck'
  BY DEF Next, SchedulerNext, PollStep, PlanStep, PlanStart, Draws, PlanSkips, PlanPlaces, Places,
         PlanFails, Fetch, ClaimStep, ClaimLost, Claim, TakesNext, PollFails, HandStep,
         DeadManTrips, StillDisabled, IsSafe, RateLimited, RateAllowed, QuietDefers,
         Duplicate, IsNew, TakesKey, Dispatch, RecordCooldown, Disturb, Strike,
         HandlerNext, Handles, HandlerFrame, HandlerSilent, HandlerRaises,
         PoolHandlerSends, ReminderFires, RecurringFires, UserNext, CreateReminder,
         UpdateReminder, SetStatus, Tick, NextHour, throttleVars, vars
<1> SUFFICES ASSUME Undisturbed', NEW t \in Recurring, OccursAt(t)
             PROVE  OccursAt(t)'
  BY <1>1 DEF OccursInv, Undisturbed
<1>2. CASE SchedulerNext /\ UNCHANGED taskVars
  BY <1>2, SchedulerOccurs
<1>3. CASE HandlerNext
  BY <1>3, HandlerOccurs DEF HandlerNext, Undisturbed
<1>4. CASE UserNext
  BY <1>4, UserOccurs DEF Undisturbed
<1>5. CASE Tick
  <2>1. /\ UNCHANGED <<score, queued, dueAt, task, batch, hand, pc>>
        /\ now' \in Nat /\ now <= now'
    BY <1>5 DEF Tick, NextHour, KeysAge, taskVars, TypeOK, ThrottleTypeOK
  <2> QED BY <1>5, <2>1, OccursFrame DEF Tick
<1>6. CASE UNCHANGED vars
  <2>1. UNCHANGED <<score, queued, dueAt, task, batch, hand, pc, now>>
    BY <1>6 DEF vars, throttleVars, schedulerVars, dispatchVars, taskVars
  <2> QED BY <2>1, OccursFrame DEF TypeOK, ThrottleTypeOK
<1> QED BY <1>2, <1>3, <1>4, <1>5, <1>6 DEF Next

LEMMA InitOccurs == Init => OccursInv
<1> SUFFICES ASSUME Init, NEW t \in Recurring PROVE OccursAt(t)
  BY DEF OccursInv
<1>1. t \in Job
  BY RecurringType
<1>2. score[t] = 0 /\ queued[t] = 0 /\ hand = {} /\ batch = {}
  BY <1>1 DEF Init, SchedulerInit
<1> QED BY <1>2 DEF OccursAt

(* OccurrenceKept: unless the user edits it or the worker dies, a recurring*)
(* reminder never goes past an occurrence that has not come.               *)
THEOREM NoOccurrenceSkipped == Spec => OccurrenceKept
<1> DEFINE Inv == TypeOK /\ PlaceInv /\ RemInv /\ OccursInv
           Step == \A t \in Recurring :
         (dueAt'[t] # dueAt[t] /\ task[t] # "none" /\ struck' \cap {"worker", "edit"} = {})
           => dueAt[t] <= now
<1>1. Init => Inv
  BY InitTypeOK, InitPlaceInv, InitOccurs DEF RemInv, Init, ThrottleInit, TaskInit
<1>2. Inv /\ [Next]_vars => Inv'
  BY NextTypes, NextPlace, NextRem, NextOccurs
<1>3. Inv /\ [Next]_vars => Step
  <2> SUFFICES ASSUME TypeOK, OccursInv, [Next]_vars, NEW t \in Recurring,
                      dueAt'[t] # dueAt[t], task[t] # "none",
                      struck' \cap {"worker", "edit"} = {}
               PROVE  dueAt[t] <= now
    OBVIOUS
  <2>a. dueAt \in [Recurring -> Nat] /\ queued \in [Job -> Nat] /\ t \in Job
    BY RecurringType DEF TypeOK, TaskTypeOK, SchedulerTypeOK
  <2>1. ~UserNext
    <3>1. ASSUME NEW u \in Reminder, CreateReminder(u) PROVE FALSE
      <4>1. PICK due : dueAt' = [v \in Recurring |-> IF v = u THEN due ELSE dueAt[v]]
        BY <3>1 DEF CreateReminder, SetsDue
      <4> QED BY <2>a, <3>1, <4>1 DEF CreateReminder
    <3> QED BY <3>1 DEF UserNext, UpdateReminder, SetStatus, Strike
  <2>2. PICK j \in Reminder : RecurringFires(j)
    BY <2>1 DEF Next, Tick, taskVars, vars, HandlerNext, Handles, HandlerSilent,
                HandlerRaises, PoolHandlerSends, ReminderFires
  <2>3. j = t /\ queued[t] > 0 /\ struck \subseteq struck'
    BY <2>a, <2>2 DEF RecurringFires, Strike
  <2>4. OccursAt(t)
    BY <2>3 DEF OccursInv, Undisturbed
  <2> QED BY <2>3, <2>4 DEF OccursAt
<1>4. Spec => [][Step]_vars
  BY <1>1, <1>2, <1>3, PTL DEF Spec
<1> QED BY <1>4 DEF OccurrenceKept

------------------------------------------------------------------------------
(* The daily cap. *)

LEMMA CapStep ==
  ASSUME TypeOK, [Next]_vars, dayCount >= MaxPerDay, NEW j \in Job, PastCheck(j)'
  PROVE  PastCheck(j)
<1> USE DEF PastCheck
<1>1. CASE UNCHANGED <<hand, pc, queued>>
  BY <1>1
<1>2. ASSUME hand' \subseteq hand, pc' \notin {"idem", "xadd", "cool"} \/ hand' = {},
             queued' = queued
      PROVE  PastCheck(j)
  BY <1>2
<1>3. CASE SchedulerNext
  <2>1. CASE PlanStep \/ PlanFails \/ Fetch \/ PollFails
    <3>1. queued' = queued /\ hand' \subseteq hand
      BY <2>1 DEF PlanStep, PlanStart, Draws, PlanSkips, PlanPlaces, Places, PlanFails,
                  Fetch, PollFails
    <3>2. pc' \in {"poll", "plan", "fetch", "next"}
      BY <2>1 DEF PlanStep, PlanStart, Draws, PlanSkips, PlanPlaces, Places, PlanFails,
                  Fetch, PollFails, AfterPlanning
    <3> QED BY <1>2, <3>1, <3>2
  <2>2. CASE ClaimStep
    <3>1. queued' = queued /\ pc' \in {"poll", "next", "safety"}
      BY <2>2 DEF ClaimStep, ClaimLost, Claim, TakesNext, Judges, NextInBatch
    <3> QED BY <3>1
  <2>3. CASE HandStep
    <3>1. PICK i \in Job :
            \/ DeadManTrips(i) \/ StillDisabled(i) \/ IsSafe(i)
            \/ RateLimited(i) \/ RateAllowed(i) \/ QuietDefers(i) \/ Duplicate(i)
            \/ IsNew(i) \/ Dispatch(i) \/ RecordCooldown(i)
      BY <2>3 DEF HandStep
    <3>2. CASE DeadManTrips(i) \/ StillDisabled(i) \/ RateLimited(i) \/ Duplicate(i)
               \/ QuietDefers(i) \/ RecordCooldown(i)
      <4>1. hand' = {} /\ queued' = queued
        BY <3>2 DEF DeadManTrips, StillDisabled, RateLimited, Duplicate, QuietDefers,
                    RecordCooldown, Drops
      <4> QED BY <1>2, <4>1
    <3>3. CASE IsSafe(i)
      <4>1. hand' = hand /\ pc' = "rate" /\ queued' = queued
        BY <3>3 DEF IsSafe, Passes
      <4> QED BY <1>2, <4>1
    <3>4. CASE RateAllowed(i)
      <4>1. dayCount < MaxPerDay
        BY <3>4 DEF RateAllowed, RateAllows
      <4> QED BY <4>1 DEF TypeOK, ThrottleTypeOK
    <3>5. CASE IsNew(i)
      <4>1. hand' = hand /\ pc = "idem" /\ queued' = queued
        BY <3>5 DEF IsNew, TakesKey, Passes, Holds
      <4> QED BY <4>1
    <3>6. CASE Dispatch(i)
      <4>1. hand' = hand /\ pc = "xadd" /\ i \in hand
        BY <3>6 DEF Dispatch, Holds
      <4>2. j # i => queued'[j] = queued[j]
        BY <3>6 DEF Dispatch, TypeOK, SchedulerTypeOK
      <4> QED BY <4>1, <4>2
    <3> QED BY <3>1, <3>2, <3>3, <3>4, <3>5, <3>6
  <2> QED BY <1>3, <2>1, <2>2, <2>3 DEF SchedulerNext, PollStep
<1>4. CASE HandlerNext
  <2>1. PICK i \in Job : Handles(i)
    BY <1>4 DEF HandlerNext
  <2>2. UNCHANGED <<hand, pc>>
    BY <2>1 DEF Handles, HandlerFrame, HandlerSilent, HandlerRaises, PoolHandlerSends,
                ReminderFires, RecurringFires
  <2>3. queued' = queued \/ queued' = [queued EXCEPT ![i] = @ - 1]
    BY <2>1 DEF Handles, HandlerSilent, HandlerRaises, PoolHandlerSends,
                ReminderFires, RecurringFires, TakesEntry
  <2>4. queued[j] \in Nat
    BY DEF TypeOK, SchedulerTypeOK
  <2>5. queued'[j] > 0 => queued[j] > 0
    BY <2>3, <2>4 DEF TypeOK, SchedulerTypeOK
  <2> QED BY <2>2, <2>5
<1>5. CASE UserNext \/ UNCHANGED vars
  <2>1. UNCHANGED <<hand, pc, queued>>
    BY <1>5 DEF UserNext, CreateReminder, UpdateReminder, SetStatus, vars
  <2> QED BY <1>1, <2>1
<1>6. CASE Tick
  <2>1. UNCHANGED <<hand, pc, queued>>
    BY <1>6 DEF Tick, KeysAge
  <2> QED BY <1>1, <2>1
<1> QED BY <1>3, <1>4, <1>5, <1>6 DEF Next

(* While the day's cap is reached the scheduler lets nothing more through. *)
THEOREM CapIsAWall == Spec => CapCloses
<1>1. TypeOK /\ [Next]_vars
        => [dayCount >= MaxPerDay /\ dayCount' >= MaxPerDay
              => \A j \in Job : PastCheck(j)' => PastCheck(j)]_vars
  BY CapStep
<1> QED BY <1>1, TypeCorrect, PTL DEF Spec, CapCloses
------------------------------------------------------------------------------
(* Cooldowns: read when a job is planned, written after another was sent.  *)

(* A category that was sent is cooling down, or has cooled down, or the    *)
(* scheduler is about to set its key.                                      *)
Cools(c) ==
  \/ lastSent[c] = 0
  \/ pc = "cool" /\ \E j \in hand \cap PoolJob : j[1] = c
  \/ cooldownTil[c] >= lastSent[c] + Cooldown[c]
  \/ now >= lastSent[c] + Cooldown[c]

Waiting(j) == score[j] > 0 \/ (j \in hand /\ pc # "cool")

(* The job was not planned while its category was cooling down. *)
PlannedCool(j) ==
  \/ lastSent[j[1]] = 0
  \/ plannedAt[j] <= lastSent[j[1]]
  \/ plannedAt[j] >= lastSent[j[1]] + Cooldown[j[1]]

CoolInv ==
  /\ \A c \in Category : lastSent[c] <= now
  /\ \A j \in PoolJob : Waiting(j) => plannedAt[j] <= now
  /\ "scheduler" \notin struck =>
       /\ \A c \in Category : Cools(c)
       /\ \A j \in PoolJob : Waiting(j) => PlannedCool(j)

LEMMA InitCool == Init => CoolInv
<1>1. SUFFICES ASSUME Init PROVE CoolInv
  OBVIOUS
<1>2. \A c \in Category : lastSent[c] = 0
  BY <1>1 DEF Init, SchedulerInit
<1>3. \A j \in PoolJob : j \in Job /\ ~Waiting(j)
  BY <1>1 DEF Init, SchedulerInit, Waiting
<1>4. now = 1
  BY <1>1 DEF Init, ThrottleInit
<1> QED BY <1>2, <1>3, <1>4 DEF CoolInv, Cools

(* A step that sends and plans nothing, and takes no job in. *)
LEMMA CoolFrame ==
  ASSUME CoolInv, UNCHANGED <<now, lastSent, plannedAt, cooldownTil>>,
         struck \subseteq struck',
         pc # "cool" \/ UNCHANGED <<pc, hand>>,
         \A j \in PoolJob : Waiting(j)' => Waiting(j)
  PROVE  CoolInv'
<1>1. \A c \in Category : Cools(c) => Cools(c)'
  BY DEF Cools
<1>2. \A j \in PoolJob : PlannedCool(j) => PlannedCool(j)'
  BY DEF PlannedCool
<1> QED BY <1>1, <1>2 DEF CoolInv

LEMMA PlanCool ==
  ASSUME TypeOK, PlaceInv, now \in 0..Horizon, CoolInv, PlanStep \/ PlanFails
  PROVE  CoolInv'
<1>1. hand = {} /\ pc # "cool"
  BY DEF PlanStep, PlanStart, Draws, PlanSkips, PlanPlaces, Places, PlanFails, PlaceInv, OnePlace
<1>2. CASE PlanStart \/ PlanFails
  <2>1. struck \subseteq struck'
    BY <1>2 DEF PlanStart, Draws, PlanFails, Disturb, Strike
  <2> QED BY <1>1, <1>2, <2>1, CoolFrame DEF PlanStart, Draws, PlanFails, Waiting
<1>3. ASSUME NEW c \in Category, PlanSkips(c)
      PROVE  CoolInv'
  BY <1>1, <1>3, CoolFrame DEF PlanSkips, Waiting
<1>4. ASSUME NEW c \in Category, PlanPlaces(c)
      PROVE  CoolInv'
  <2> DEFINE p == <<c, LocalDate>>
  <2>1. UNCHANGED <<now, lastSent, cooldownTil, hand, struck>> /\ now >= cooldownTil[c]
    BY <1>4 DEF PlanPlaces, Places
  <2>2. p \in PoolJob /\ p \in Job
    BY DateInRange DEF PoolJob
  <2>3. plannedAt'[p] = now /\ \A j \in PoolJob : j # p => plannedAt'[j] = plannedAt[j]
    BY <1>4, <2>2 DEF PlanPlaces, Places, TypeOK, SchedulerTypeOK
  <2>4. \A j \in PoolJob : j # p => score'[j] = score[j]
    <3>1. PICK n : score' = [score EXCEPT ![p] = n]
      BY <1>4 DEF PlanPlaces, Places
    <3> QED BY <3>1 DEF TypeOK, SchedulerTypeOK
  <2>5. \A j \in PoolJob : j # p /\ Waiting(j)' => Waiting(j)
    BY <1>1, <2>1, <2>4 DEF Waiting
  <2>6. now \in Nat /\ \A j \in PoolJob : j \in Job
    BY DEF TypeOK, ThrottleTypeOK
  <2>7. \A j \in PoolJob : Waiting(j)' => plannedAt'[j] <= now'
    BY <2>1, <2>3, <2>5, <2>6 DEF CoolInv
  <2>8. ASSUME "scheduler" \notin struck'
        PROVE  /\ \A a \in Category : Cools(a)'
               /\ \A j \in PoolJob : Waiting(j)' => PlannedCool(j)'
    <3>1. \A a \in Category : Cools(a)
      BY <2>1, <2>8 DEF CoolInv
    <3>2. \A a \in Category : Cools(a)'
      BY <1>1, <2>1, <3>1 DEF Cools
    <3>3. ASSUME NEW j \in PoolJob, j = p
          PROVE  PlannedCool(j)'
      <4>1. lastSent[c] = 0 \/ now >= lastSent[c] + Cooldown[c]
        <5>1. cooldownTil[c] \in Nat /\ lastSent[c] \in Nat /\ Cooldown[c] \in Nat
          BY DEF TypeOK, SchedulerTypeOK
        <5>2. lastSent[c] = 0 \/ cooldownTil[c] >= lastSent[c] + Cooldown[c]
                \/ now >= lastSent[c] + Cooldown[c]
          BY <1>1, <3>1 DEF Cools
        <5> QED BY <2>1, <2>6, <5>1, <5>2
      <4>2. j[1] = c /\ plannedAt'[j] = now
        BY <2>3, <3>3
      <4> QED BY <2>1, <4>1, <4>2 DEF PlannedCool
    <3>4. ASSUME NEW j \in PoolJob, j # p, Waiting(j)'
          PROVE  PlannedCool(j)'
      <4>1. PlannedCool(j)
        BY <2>1, <2>5, <2>8, <3>4 DEF CoolInv
      <4> QED BY <2>1, <2>3, <3>4, <4>1 DEF PlannedCool
    <3> QED BY <3>2, <3>3, <3>4
  <2> QED BY <2>1, <2>7, <2>8 DEF CoolInv
<1> QED BY <1>2, <1>3, <1>4 DEF PlanStep

LEMMA BatchCool ==
  ASSUME TypeOK, PlaceInv, CoolInv, Fetch \/ ClaimStep \/ PollFails
  PROVE  CoolInv'
<1>1. CASE Fetch
  BY <1>1, CoolFrame DEF Fetch, Waiting
<1>2. ASSUME NEW e \in batch, ClaimLost(e) \/ Claim(e)
      PROVE  CoolInv'
  <2>1. pc = "next" /\ hand = {}
          /\ UNCHANGED <<now, lastSent, plannedAt, cooldownTil, struck>>
    BY <1>2 DEF ClaimLost, Claim, TakesNext, PlaceInv, OnePlace
  <2>2. hand' \subseteq {e.job} /\ (hand' # {} => score[e.job] > 0)
    BY <1>2, <2>1 DEF ClaimLost, Claim, Judges
  <2>3. \A j \in PoolJob : score'[j] > 0 => score[j] > 0
    BY <1>2 DEF ClaimLost, Claim, TypeOK, SchedulerTypeOK
  <2>4. \A j \in PoolJob : Waiting(j)' => Waiting(j)
    BY <2>2, <2>3 DEF Waiting
  <2> QED BY <2>1, <2>4, CoolFrame
<1>3. CASE PollFails
  <2>1. "scheduler" \in struck'
    BY <1>3 DEF PollFails, Disturb, Strike
  <2>2. UNCHANGED <<now, lastSent, plannedAt, score>> /\ hand' = {}
    BY <1>3 DEF PollFails
  <2> QED BY <2>1, <2>2 DEF CoolInv, Waiting
<1> QED BY <1>1, <1>2, <1>3 DEF ClaimStep

LEMMA HandCool ==
  ASSUME TypeOK, PlaceInv, CoolInv, HandStep
  PROVE  CoolInv'
<1>1. PICK j \in Job :
        \/ DeadManTrips(j) \/ StillDisabled(j) \/ IsSafe(j)
        \/ RateLimited(j) \/ RateAllowed(j) \/ QuietDefers(j) \/ Duplicate(j)
        \/ IsNew(j) \/ Dispatch(j) \/ RecordCooldown(j)
  BY DEF HandStep
<1>2. CASE DeadManTrips(j) \/ StillDisabled(j) \/ RateLimited(j) \/ Duplicate(j)
  <2>1. PICK from \in {"safety", "rate", "idem"}, why \in {"limited", "duplicate"} :
          Drops(j, from, why)
    BY <1>2 DEF DeadManTrips, StillDisabled, RateLimited, Duplicate
  <2>2. now' = now /\ struck' = struck
    BY <1>2 DEF DeadManTrips, StillDisabled, RateLimited, Duplicate
  <2>3. pc # "cool" /\ hand' = {}
          /\ UNCHANGED <<score, lastSent, plannedAt, cooldownTil>>
    BY <2>1 DEF Drops, Holds
  <2> QED BY <2>2, <2>3, CoolFrame DEF Waiting
<1>3. CASE IsSafe(j) \/ RateAllowed(j) \/ IsNew(j)
  <2>1. PICK from \in {"safety", "rate", "idem"}, to \in {"rate", "idem", "xadd"} :
          Passes(j, from, to)
    BY <1>3 DEF IsSafe, RateAllowed, IsNew, TakesKey
  <2>2. UNCHANGED <<now, struck, lastSent>>
    BY <1>3 DEF IsSafe, RateAllowed, IsNew, TakesKey
  <2>3. pc # "cool" /\ UNCHANGED <<score, hand, plannedAt, cooldownTil>>
    BY <2>1 DEF Passes, Holds
  <2> QED BY <2>2, <2>3, CoolFrame DEF Waiting
<1>4. CASE QuietDefers(j)
  <2>1. pc = "idem" /\ j \in hand /\ hand' = {}
          /\ UNCHANGED <<now, struck, lastSent, plannedAt, cooldownTil>>
    BY <1>4 DEF QuietDefers, Holds
  <2>2. \A i \in PoolJob : i # j => score'[i] = score[i]
    BY <1>4 DEF QuietDefers, TypeOK, SchedulerTypeOK
  <2>3. \A i \in PoolJob : Waiting(i)' => Waiting(i)
    BY <2>1, <2>2 DEF Waiting
  <2> QED BY <2>1, <2>3, CoolFrame
<1>5. CASE Dispatch(j)
  <2>1. pc = "xadd" /\ pc' = "cool" /\ j \in hand
          /\ UNCHANGED <<now, struck, score, hand, cooldownTil>>
    BY <1>5 DEF Dispatch, Holds
  <2>2. now \in Nat
    BY DEF TypeOK, ThrottleTypeOK
  <2>3. CASE j \notin PoolJob
    <3>1. UNCHANGED <<lastSent, plannedAt>>
      BY <1>5, <2>3 DEF Dispatch
    <3> QED BY <2>1, <3>1, CoolFrame DEF Waiting
  <2>4. CASE j \in PoolJob
    <3>1. j[1] \in Category
      BY <2>4 DEF PoolJob
    <3>2. lastSent'[j[1]] = now
            /\ \A c \in Category : c # j[1] => lastSent'[c] = lastSent[c]
      BY <1>5, <2>4, <3>1 DEF Dispatch, TypeOK, SchedulerTypeOK
    <3>3. \A i \in PoolJob : i # j => plannedAt'[i] = plannedAt[i]
      BY <1>5, <2>4 DEF Dispatch, TypeOK, SchedulerTypeOK
    <3>4. \A i \in PoolJob : Waiting(i)' => i # j /\ Waiting(i)
      BY <2>1, <2>4 DEF Waiting, PlaceInv, OnePlace
    <3>5. \A c \in Category : lastSent'[c] <= now'
      BY <2>1, <2>2, <3>2 DEF CoolInv
    <3>6. \A i \in PoolJob : Waiting(i)' => plannedAt'[i] <= now'
      BY <2>1, <3>3, <3>4 DEF CoolInv
    <3>7. ASSUME "scheduler" \notin struck', NEW c \in Category
          PROVE  Cools(c)'
      <4>1. CASE c = j[1]
        BY <2>1, <2>4, <4>1 DEF Cools
      <4>2. CASE c # j[1]
        <5>1. Cools(c)
          BY <2>1, <3>7 DEF CoolInv
        <5> QED BY <2>1, <3>2, <4>2, <5>1 DEF Cools
      <4> QED BY <4>1, <4>2
    <3>8. ASSUME "scheduler" \notin struck', NEW i \in PoolJob, Waiting(i)'
          PROVE  PlannedCool(i)'
      <4>1. PlannedCool(i) /\ plannedAt[i] <= now /\ plannedAt'[i] = plannedAt[i]
        BY <2>1, <3>3, <3>4, <3>8 DEF CoolInv
      <4>2. CASE i[1] = j[1]
        BY <3>2, <4>1, <4>2 DEF PlannedCool
      <4>3. CASE i[1] # j[1]
        <5>1. i[1] \in Category
          BY DEF PoolJob
        <5> QED BY <3>2, <4>1, <4>3, <5>1 DEF PlannedCool
      <4> QED BY <4>2, <4>3
    <3> QED BY <3>5, <3>6, <3>7, <3>8 DEF CoolInv
  <2> QED BY <2>3, <2>4
<1>6. CASE RecordCooldown(j)
  <2>1. /\ pc = "cool" /\ pc' # "cool" /\ hand' = {}
        /\ \A i \in hand : i = j
        /\ UNCHANGED <<now, struck, score, lastSent, plannedAt>>
    BY <1>6 DEF RecordCooldown, Holds, NextInBatch, PlaceInv, OnePlace
  <2>2. \A i \in PoolJob : Waiting(i)' => Waiting(i)
    BY <2>1 DEF Waiting
  <2>3. ASSUME "scheduler" \notin struck, NEW c \in Category
        PROVE  Cools(c)'
    <3>1. Cools(c) /\ lastSent[c] <= now
      BY <2>3 DEF CoolInv
    <3>2. CASE j \in PoolJob /\ j[1] = c
      <4>1. cooldownTil'[c] = now + Cooldown[c]
        BY <1>6, <3>2 DEF RecordCooldown, TypeOK, SchedulerTypeOK
      <4>2. now \in Nat /\ lastSent[c] \in Nat /\ Cooldown[c] \in Nat
        BY DEF TypeOK, ThrottleTypeOK, SchedulerTypeOK
      <4>3. cooldownTil'[c] >= lastSent'[c] + Cooldown[c]
        BY <2>1, <3>1, <4>1, <4>2
      <4> QED BY <4>3 DEF Cools
    <3>3. CASE ~(j \in PoolJob /\ j[1] = c)
      <4>1. cooldownTil'[c] = cooldownTil[c]
        BY <1>6, <3>3 DEF RecordCooldown, TypeOK, SchedulerTypeOK
      <4> QED BY <2>1, <3>1, <3>3, <4>1 DEF Cools
    <3> QED BY <3>2, <3>3
  <2>4. \A i \in PoolJob : PlannedCool(i) => PlannedCool(i)'
    BY <2>1 DEF PlannedCool
  <2> QED BY <2>1, <2>2, <2>3, <2>4 DEF CoolInv
<1> QED BY <1>1, <1>2, <1>3, <1>4, <1>5, <1>6

LEMMA HandlerCool ==
  ASSUME TypeOK, CoolInv, NEW i \in Job, Handles(i)
  PROVE  CoolInv'
<1>1. UNCHANGED <<pc, hand, now, lastSent, plannedAt>>
  BY DEF Handles, HandlerFrame, HandlerSilent, HandlerRaises, PoolHandlerSends,
         ReminderFires, RecurringFires
<1>2. struck \subseteq struck'
  BY DEF Handles, HandlerSilent, HandlerRaises, PoolHandlerSends,
         ReminderFires, RecurringFires, Disturb, Strike
<1>3. \A j \in PoolJob : Waiting(j)' => Waiting(j)
  BY <1>1, HandlerKeepsPoolScores DEF Waiting
<1>4. CASE PoolHandlerSends(i)
  <2>1. ASSUME NEW c \in Category, Cools(c), lastSent[c] <= now
        PROVE  Cools(c)'
    <3>1. CASE cooldownTil'[c] = cooldownTil[c]
      BY <1>1, <2>1, <3>1 DEF Cools
    <3>2. CASE cooldownTil'[c] # cooldownTil[c]
      <4>1. cooldownTil'[c] = now + Cooldown[c]
        BY <1>4, <3>2 DEF PoolHandlerSends, TypeOK, SchedulerTypeOK
      <4>2. now \in Nat /\ lastSent[c] \in Nat /\ Cooldown[c] \in Nat
        BY DEF TypeOK, ThrottleTypeOK, SchedulerTypeOK
      <4> QED BY <1>1, <2>1, <4>1, <4>2 DEF Cools
    <3> QED BY <3>1, <3>2
  <2>2. \A j \in PoolJob : PlannedCool(j) => PlannedCool(j)'
    BY <1>1 DEF PlannedCool
  <2> QED BY <1>1, <1>2, <1>3, <2>1, <2>2 DEF CoolInv
<1>5. CASE ~PoolHandlerSends(i)
  <2>1. cooldownTil' = cooldownTil
    BY <1>5 DEF Handles, HandlerSilent, HandlerRaises, ReminderFires, RecurringFires
  <2> QED BY <1>1, <1>2, <1>3, <2>1, CoolFrame
<1> QED BY <1>4, <1>5

LEMMA TickCool ==
  ASSUME TypeOK, CoolInv, Tick
  PROVE  CoolInv'
<1>1. pc = "poll" /\ now' = now + 1 /\ now \in Nat
        /\ UNCHANGED <<pc, hand, score, lastSent, plannedAt, struck>>
  BY DEF Tick, NextHour, KeysAge, TypeOK, ThrottleTypeOK
<1>2. ASSUME NEW c \in Category, Cools(c)
      PROVE  Cools(c)'
  <2>1. cooldownTil'[c] = Living(cooldownTil[c])
    BY DEF Tick, KeysAge
  <2>2. cooldownTil[c] \in Nat /\ lastSent[c] \in Nat /\ Cooldown[c] \in Nat
    BY DEF TypeOK, SchedulerTypeOK
  <2> QED BY <1>1, <1>2, <2>1, <2>2 DEF Cools, Living
<1>3. \A j \in PoolJob : /\ Waiting(j)' => Waiting(j)
                         /\ PlannedCool(j) => PlannedCool(j)'
  BY <1>1 DEF Waiting, PlannedCool
<1>4. /\ \A c \in Category : lastSent[c] \in Nat
      /\ \A j \in PoolJob : plannedAt[j] \in Nat
  BY DEF TypeOK, SchedulerTypeOK
<1>5. /\ \A c \in Category : lastSent'[c] <= now'
      /\ \A j \in PoolJob : Waiting(j)' => plannedAt'[j] <= now'
  BY <1>1, <1>3, <1>4 DEF CoolInv
<1> QED BY <1>1, <1>2, <1>3, <1>5 DEF CoolInv

LEMMA NextCool ==
  ASSUME TypeOK, PlaceInv, RemInv, CoolInv, [Next]_vars
  PROVE  CoolInv'
<1>1. CASE SchedulerNext
  <2>1. now \in 0..Horizon
    BY DEF RemInv
  <2> QED BY <1>1, <2>1, PlanCool, BatchCool, HandCool DEF SchedulerNext, PollStep
<1>2. CASE HandlerNext
  BY <1>2, HandlerCool DEF HandlerNext
<1>3. CASE UserNext
  <2>1. UNCHANGED <<pc, hand, now, lastSent, plannedAt, cooldownTil>>
    BY <1>3 DEF UserNext, CreateReminder, UpdateReminder, SetStatus
  <2>2. struck \subseteq struck'
    BY <1>3 DEF UserNext, CreateReminder, UpdateReminder, SetStatus, Strike
  <2>3. \A j \in PoolJob : Waiting(j)' => Waiting(j)
    BY <1>3, <2>1, UserKeepsPoolScores DEF Waiting
  <2> QED BY <2>1, <2>2, <2>3, CoolFrame
<1>4. CASE Tick
  BY <1>4, TickCool
<1>5. CASE UNCHANGED vars
  BY <1>5, CoolFrame DEF vars, Waiting
<1> QED BY <1>1, <1>2, <1>3, <1>4, <1>5 DEF Next

(* A category never goes out while it cools down, unless the job was in the*)
(* plan before the message that started the cooldown or the scheduler      *)
(* failed: for every calendar, every cooldown of at least an hour, and     *)
(* however many jobs of a category wait and are deferred.                  *)
THEOREM CooldownHoldsAtPlan == Spec => CooldownAtPlan
<1> DEFINE Inv == TypeOK /\ PlaceInv /\ RemInv /\ CoolInv
<1>1. Init => Inv
  BY InitTypeOK, InitPlaceInv, InitCool DEF RemInv, Init, ThrottleInit, TaskInit
<1>2. Inv /\ [Next]_vars => Inv'
  BY NextTypes, NextPlace, NextRem, NextCool
<1>3. ASSUME Inv, [Next]_vars, NEW j \in PoolJob, dispatches'[j] # dispatches[j],
             "scheduler" \notin struck
      PROVE  \/ lastSent[j[1]] = 0
             \/ now >= lastSent[j[1]] + Cooldown[j[1]]
             \/ plannedAt[j] <= lastSent[j[1]]
  <2>1. Waiting(j)
    BY <1>3, OnlyDispatchCounts DEF Dispatch, Holds, Waiting
  <2>2. PlannedCool(j) /\ plannedAt[j] <= now
    BY <1>3, <2>1 DEF CoolInv
  <2>3. j[1] \in Category /\ j \in PoolJob
    BY DEF PoolJob
  <2>4. /\ lastSent[j[1]] \in Nat /\ plannedAt[j] \in Nat /\ now \in Nat
        /\ Cooldown[j[1]] \in Nat
    BY <1>3, <2>3 DEF TypeOK, ThrottleTypeOK, SchedulerTypeOK
  <2> QED BY <2>2, <2>4 DEF PlannedCool
<1>4. Inv /\ [Next]_vars
        => [\A j \in PoolJob :
              (dispatches'[j] # dispatches[j] /\ "scheduler" \notin struck)
                => \/ lastSent[j[1]] = 0
                   \/ now >= lastSent[j[1]] + Cooldown[j[1]]
                   \/ plannedAt[j] <= lastSent[j[1]]]_vars
  BY <1>3
<1> QED BY <1>1, <1>2, <1>4, PTL DEF Spec, CooldownAtPlan

------------------------------------------------------------------------------
(* Freshness: a job is due in its window, or an hour after a quiet hour    *)
(* put it off, and is judged by the time it was due.                       *)

(* The window of the category, three shifts and StaleAfter fit into the day*)
(* and meet no quiet hour.                                                 *)
LastHour(c) == WindowEnd[c] + 3 * Shift + StaleAfter

FitsTheDay(c) ==
  LastHour(c) < Day /\ \A h \in WindowStart[c]..LastHour(c) : h \notin QuietHours

InSlot(j, t) ==
  /\ j[2] * Day + WindowStart[j[1]] <= t + Zone
  /\ t + Zone <= LastSlot(j)

DueInTime(j, t) == InSlot(j, t) \/ (~FitsTheDay(j[1]) /\ t > 1 /\ QuietAt(t - 1))

FreshInv ==
  /\ \A j \in PoolJob : score[j] > 0 => DueInTime(j, score[j])
  /\ \A e \in batch : e.job \in PoolJob => DueInTime(e.job, e.at) /\ e.at <= now
  /\ \A j \in hand \cap PoolJob :
       \E t \in 0..now : DueInTime(j, t) /\ now <= t + StaleAfter

LEMMA InitFresh == Init => FreshInv
<1>1. SUFFICES ASSUME Init PROVE FreshInv
  OBVIOUS
<1>2. \A j \in PoolJob : j \in Job /\ ~(score[j] > 0)
  BY <1>1 DEF Init, SchedulerInit
<1> QED BY <1>1, <1>2 DEF Init, SchedulerInit, FreshInv

LEMMA FreshFrame ==
  ASSUME FreshInv, batch' \subseteq batch, hand' \subseteq hand, now' = now,
         \A j \in PoolJob : score'[j] > 0 => score'[j] = score[j]
  PROVE  FreshInv'
<1>1. \A j \in PoolJob : \A t : DueInTime(j, t)' <=> DueInTime(j, t)
  BY DEF DueInTime, InSlot, LastSlot, QuietAt
<1> QED BY <1>1 DEF FreshInv

(* What plan_day draws, shifted, is in the job's slot. *)
LEMMA SlotInTime ==
  ASSUME now \in Nat, NEW c \in Category, NEW t \in JitterTimes(c), NEW k \in 0..3
  PROVE  InSlot(<<c, LocalDate>>, t + k * Shift)
<1> DEFINE z == now + Zone
<1>1. PICK h \in {x \in LocalHour..WindowEnd[c] : x >= WindowStart[c]} :
        t = now + h - LocalHour
  BY DEF JitterTimes
<1>2. z \in Nat /\ Day \in Nat /\ Day > 0
  OBVIOUS
<1>3. LocalHour \in Nat /\ LocalDate \in Nat
  <2> HIDE DEF z
  <2>1. z % Day \in Nat /\ z \div Day \in Nat
    BY <1>2
  <2> QED BY <2>1 DEF LocalHour, LocalDate, z
<1>4. z = Day * LocalDate + LocalHour
  <2> HIDE DEF z
  <2>1. z = Day * (z \div Day) + (z % Day)
    BY <1>2
  <2> QED BY <2>1 DEF LocalHour, LocalDate, z
<1>5. Day * LocalDate = LocalDate * Day /\ LocalDate * Day \in Nat
  BY <1>3
<1>6. h \in Nat /\ h <= WindowEnd[c] /\ WindowStart[c] <= h
  <2>1. h >= WindowStart[c]
    BY <1>1 DEF JitterTimes
  <2> QED BY <1>1, <1>3, <2>1
<1>7. k * Shift <= 3 * Shift /\ k * Shift \in Nat /\ 3 * Shift \in Nat
  <2>1. k = 0 \/ k = 1 \/ k = 2 \/ k = 3
    OBVIOUS
  <2> QED BY <2>1
<1>8. t + Zone = LocalDate * Day + h
  BY <1>1, <1>3, <1>4, <1>5, <1>6
<1>9. t \in Int
  BY <1>1, <1>3, <1>6
<1>10. LastSlot(<<c, LocalDate>>) = LocalDate * Day + WindowEnd[c] + 3 * Shift
  BY DEF LastSlot
<1>11. WindowStart[c] \in Nat /\ WindowEnd[c] \in Nat
  OBVIOUS
<1> QED BY <1>5, <1>6, <1>7, <1>8, <1>9, <1>10, <1>11 DEF InSlot

(* A day and an hour of it are found again in their sum. *)
LEMMA DayAndHour ==
  ASSUME NEW d \in Nat, NEW h \in Nat, h < Day, NEW z, z = d * Day + h
  PROVE  z \div Day = d /\ z % Day = h
<1> DEFINE q == z \div Day  r == z % Day
<1>1. d * Day \in Nat /\ z \in Nat
  OBVIOUS
<1>2. q \in Nat /\ r \in Nat /\ r < Day /\ z = Day * q + r
  <2> HIDE DEF q, r
  <2>1. z \in Nat /\ Day \in Nat /\ Day > 0
    BY <1>1
  <2>2. z \div Day \in Nat /\ z % Day \in Nat /\ z % Day < Day
    BY <2>1
  <2>3. z = Day * (z \div Day) + (z % Day)
    BY <2>1
  <2> QED BY <2>2, <2>3 DEF q, r
<1> HIDE DEF q, r
<1>3. \A x, y \in Nat : x >= y + 1 => Day * x >= Day * y + Day
  BY ProductGap
<1>4. d * Day = Day * d /\ Day * q \in Nat
  BY <1>2
<1>5. ~(q >= d + 1) /\ ~(d >= q + 1)
  BY <1>1, <1>2, <1>3, <1>4
<1>6. q = d
  BY <1>2, <1>5
<1>7. r = h
  BY <1>1, <1>2, <1>4, <1>6
<1> QED BY <1>6, <1>7 DEF q, r

(* A job of a category that fits the day meets no quiet hour and no other  *)
(* date, from its slot until it would be stale.                            *)
LEMMA FitsItsDay ==
  ASSUME now \in Nat, NEW j \in PoolJob, FitsTheDay(j[1]), NEW t \in 0..now,
         InSlot(j, t), now <= t + StaleAfter
  PROVE  LocalDate = j[2] /\ ~IsQuietHours
<1>1. PICK c \in Category, d \in Date : j = <<c, d>>
  BY DEF PoolJob
<1>2. j[1] = c /\ j[2] = d /\ d \in Nat
  BY <1>1 DEF Date
<1>3. d * Day \in Nat /\ 3 * Shift \in Nat
        /\ WindowStart[c] \in Nat /\ WindowEnd[c] \in Nat
  BY <1>2
<1> DEFINE h == now + Zone - d * Day
<1>4. h \in Nat /\ WindowStart[c] <= h /\ h <= LastHour(c)
  BY <1>2, <1>3 DEF InSlot, LastSlot, LastHour
<1>5. LastHour(c) \in Nat
  BY <1>3 DEF LastHour
<1>6. h < Day /\ h \notin QuietHours
  BY <1>2, <1>3, <1>4, <1>5 DEF FitsTheDay
<1>7. now + Zone = d * Day + h
  BY <1>3
<1> HIDE DEF h
<1> QED BY <1>2, <1>4, <1>6, <1>7, DayAndHour DEF LocalDate, LocalHour, IsQuietHours

LEMMA PlanFresh ==
  ASSUME TypeOK, PlaceInv, FreshInv, now \in 0..Horizon, PlanStep \/ PlanFails
  PROVE  FreshInv'
<1>1. CASE PlanStart \/ PlanFails \/ \E c \in Category : PlanSkips(c)
  <2>1. UNCHANGED <<score, batch, hand, now>>
    BY <1>1 DEF PlanStart, Draws, PlanFails, PlanSkips
  <2> QED BY <2>1, FreshFrame
<1>2. ASSUME NEW c \in Category, PlanPlaces(c)
      PROVE  FreshInv'
  <2>1. UNCHANGED <<batch, hand, now>>
    BY <1>2 DEF PlanPlaces, Places
  <2>2. PICK t \in JitterTimes(c), k \in 0..3 :
          score' = [score EXCEPT ![<<c, LocalDate>>] = t + k * Shift]
    BY <1>2 DEF PlanPlaces, Places
  <2>3. <<c, LocalDate>> \in PoolJob
    BY DateInRange DEF PoolJob
  <2>4. \A j \in PoolJob : \A n : DueInTime(j, n)' <=> DueInTime(j, n)
    BY DEF DueInTime, InSlot, LastSlot, QuietAt
  <2>5. ASSUME NEW j \in PoolJob, score'[j] > 0
        PROVE  DueInTime(j, score'[j])
    <3>1. CASE j = <<c, LocalDate>>
      <4>1. score'[j] = t + k * Shift
        BY <2>2, <3>1 DEF TypeOK, SchedulerTypeOK
      <4>2. InSlot(j, t + k * Shift)
        BY <3>1, SlotInTime
      <4> QED BY <4>1, <4>2 DEF DueInTime
    <3>2. CASE j # <<c, LocalDate>>
      BY <2>2, <2>5, <3>2 DEF FreshInv, TypeOK, SchedulerTypeOK
    <3> QED BY <3>1, <3>2
  <2>6. \A j \in PoolJob : score'[j] > 0 => DueInTime(j, score[j])'
    BY <2>4, <2>5
  <2> QED BY <2>1, <2>4, <2>6 DEF FreshInv
<1> QED BY <1>1, <1>2 DEF PlanStep

LEMMA BatchFresh ==
  ASSUME TypeOK, PlaceInv, FreshInv, Fetch \/ ClaimStep \/ PollFails
  PROVE  FreshInv'
<1>1. \A j \in PoolJob : \A n : DueInTime(j, n)' <=> DueInTime(j, n)
  BY DEF DueInTime, InSlot, LastSlot, QuietAt
<1>2. now \in Nat
  BY DEF TypeOK, ThrottleTypeOK
<1>3. CASE Fetch
  <2>1. UNCHANGED <<score, hand, now>>
    BY <1>3 DEF Fetch
  <2>2. \A e \in batch' : score[e.job] > 0 /\ e.at = score[e.job] /\ e.at <= now
    BY <1>3 DEF Fetch, Due
  <2> QED BY <1>1, <2>1, <2>2 DEF FreshInv
<1>4. CASE PollFails
  BY <1>4, FreshFrame DEF PollFails
<1>5. ASSUME NEW e \in batch, ClaimLost(e)
      PROVE  FreshInv'
  BY <1>5, FreshFrame DEF ClaimLost, TakesNext
<1>6. ASSUME NEW e \in batch, Claim(e)
      PROVE  FreshInv'
  <2>1. batch' \subseteq batch /\ now' = now /\ hand = {}
    BY <1>6 DEF Claim, TakesNext, PlaceInv, OnePlace
  <2>2. \A j \in PoolJob : score'[j] > 0 => score'[j] = score[j]
    BY <1>6 DEF Claim, TypeOK, SchedulerTypeOK
  <2>3. CASE IsStale(e)
    <3>1. hand' = hand
      BY <1>6, <2>3 DEF Claim, Judges
    <3> QED BY <2>1, <2>2, <3>1, FreshFrame
  <2>4. CASE ~IsStale(e)
    <3>1. hand' = {e.job}
      BY <1>6, <2>4 DEF Claim, Judges
    <3>2. e.at \in Nat
      BY DEF TypeOK, SchedulerTypeOK
    <3>3. e.job \in PoolJob
            => DueInTime(e.job, e.at) /\ e.at \in 0..now /\ now <= e.at + StaleAfter
      BY <1>2, <2>4, <3>2 DEF IsStale, FreshInv
    <3>4. \A j \in hand' \cap PoolJob :
            \E t \in 0..now : DueInTime(j, t) /\ now <= t + StaleAfter
      BY <3>1, <3>3
    <3> QED BY <1>1, <2>1, <2>2, <3>4 DEF FreshInv
  <2> QED BY <2>3, <2>4
<1> QED BY <1>3, <1>4, <1>5, <1>6 DEF ClaimStep

LEMMA HandFresh ==
  ASSUME TypeOK, PlaceInv, FreshInv, now \in 1..Horizon, HandStep
  PROVE  FreshInv'
<1>1. PICK j \in Job :
        \/ DeadManTrips(j) \/ StillDisabled(j) \/ IsSafe(j)
        \/ RateLimited(j) \/ RateAllowed(j) \/ QuietDefers(j) \/ Duplicate(j)
        \/ IsNew(j) \/ Dispatch(j) \/ RecordCooldown(j)
  BY DEF HandStep
<1>2. batch' = batch /\ hand' \subseteq hand /\ now' = now
  BY <1>1 DEF DeadManTrips, StillDisabled, IsSafe, RateLimited, RateAllowed,
         QuietDefers, Duplicate, IsNew, TakesKey, Dispatch, RecordCooldown, Drops, Passes
<1>3. CASE QuietDefers(j)
  <2>1. \A i \in PoolJob : \A n : DueInTime(i, n)' <=> DueInTime(i, n)
    BY DEF DueInTime, InSlot, LastSlot, QuietAt
  <2>2. DueInTime(j, now + 1)
    <3>1. j \in hand /\ j \in PoolJob /\ IsQuietHours
      BY <1>3 DEF QuietDefers, Holds
    <3>2. ~FitsTheDay(j[1])
      BY <3>1, FitsItsDay DEF FreshInv, DueInTime
    <3>3. QuietAt(now)
      BY <3>1 DEF IsQuietHours, LocalHour, QuietAt
    <3> QED BY <3>2, <3>3 DEF DueInTime
  <2>3. \A i \in PoolJob : score'[i] = IF i = j THEN now + 1 ELSE score[i]
    BY <1>3 DEF QuietDefers, TypeOK, SchedulerTypeOK
  <2>4. \A i \in PoolJob : score'[i] > 0 => DueInTime(i, score'[i])
    BY <2>2, <2>3 DEF FreshInv
  <2> QED BY <1>2, <2>1, <2>4 DEF FreshInv
<1>4. CASE ~QuietDefers(j)
  <2>1. score' = score
    BY <1>1, <1>4 DEF DeadManTrips, StillDisabled, IsSafe, RateLimited, RateAllowed,
         Duplicate, IsNew, TakesKey, Dispatch, RecordCooldown, Drops, Passes
  <2> QED BY <1>2, <2>1, FreshFrame
<1> QED BY <1>3, <1>4

LEMMA NextFresh ==
  ASSUME TypeOK, PlaceInv, RemInv, FreshInv, [Next]_vars
  PROVE  FreshInv'
<1>1. now \in 1..Horizon /\ now \in 0..Horizon
  BY DEF RemInv
<1>2. CASE SchedulerNext
  BY <1>1, <1>2, PlanFresh, BatchFresh, HandFresh DEF SchedulerNext, PollStep
<1>3. CASE HandlerNext
  <2>1. UNCHANGED <<batch, hand, now>>
    BY <1>3 DEF HandlerNext, Handles, HandlerFrame, HandlerSilent, HandlerRaises,
                PoolHandlerSends, ReminderFires, RecurringFires
  <2> QED BY <1>3, <2>1, HandlerKeepsPoolScores, FreshFrame DEF HandlerNext
<1>4. CASE UserNext
  <2>1. UNCHANGED <<batch, hand, now>>
    BY <1>4 DEF UserNext, CreateReminder, UpdateReminder, SetStatus
  <2> QED BY <1>4, <2>1, UserKeepsPoolScores, FreshFrame
<1>5. CASE Tick
  <2>1. UNCHANGED <<score, batch, hand>> /\ now' = now + 1 /\ hand = {}
    BY <1>5 DEF Tick, NextHour, KeysAge, PlaceInv, OnePlace
  <2>2. \A j \in PoolJob : \A n : DueInTime(j, n)' <=> DueInTime(j, n)
    BY DEF DueInTime, InSlot, LastSlot, QuietAt
  <2>3. \A e \in batch : e.at \in Nat
    BY DEF TypeOK, SchedulerTypeOK
  <2> QED BY <1>1, <2>1, <2>2, <2>3 DEF FreshInv
<1>6. CASE UNCHANGED vars
  BY <1>6, FreshFrame DEF vars
<1> QED BY <1>2, <1>3, <1>4, <1>5, <1>6 DEF Next

(* A planned job goes out within StaleAfter of its window, or of a quiet   *)
(* hour that put it off: for every calendar, zone and set of quiet hours,  *)
(* whatever the scheduler slept through.                                   *)
THEOREM PlannedJobsAreFresh == Spec => SentWhileFresh
<1> DEFINE Inv == TypeOK /\ PlaceInv /\ RemInv /\ FreshInv
<1>1. Init => Inv
  BY InitTypeOK, InitPlaceInv, InitFresh DEF RemInv, Init, ThrottleInit, TaskInit
<1>2. Inv /\ [Next]_vars => Inv'
  BY NextTypes, NextPlace, NextRem, NextFresh
<1>3. ASSUME Inv, [Next]_vars, NEW j \in PoolJob, dispatches'[j] # dispatches[j]
      PROVE  \/ now + Zone <= LastSlot(j) + StaleAfter
             \/ \E q \in 1..now : QuietAt(q) /\ now <= q + 1 + StaleAfter
  <2>1. j \in hand
    BY <1>3, OnlyDispatchCounts DEF Dispatch, Holds
  <2>2. PICK t \in 0..now : DueInTime(j, t) /\ now <= t + StaleAfter
    BY <1>3, <2>1 DEF FreshInv
  <2>3. now \in Nat
    BY <1>3 DEF TypeOK, ThrottleTypeOK
  <2>4. CASE InSlot(j, t)
    <3>1. LastSlot(j) \in Nat
      <4>1. PICK c \in Category, d \in Date : j = <<c, d>>
        BY DEF PoolJob
      <4>2. j[1] = c /\ j[2] = d
        BY <4>1
      <4>3. d \in Nat
        BY DEF Date
      <4>4. d * Day \in Nat /\ 3 * Shift \in Nat
        BY <4>3
      <4> QED BY <4>2, <4>4 DEF LastSlot
    <3> QED BY <2>2, <2>3, <2>4, <3>1 DEF InSlot
  <2>5. CASE t > 1 /\ QuietAt(t - 1)
    <3>1. t - 1 \in 1..now /\ now <= (t - 1) + 1 + StaleAfter
      BY <2>2, <2>3, <2>5
    <3> QED BY <2>5, <3>1
  <2> QED BY <2>2, <2>4, <2>5 DEF DueInTime
<1>4. Inv /\ [Next]_vars
        => [\A j \in PoolJob :
              dispatches'[j] # dispatches[j]
                => \/ now + Zone <= LastSlot(j) + StaleAfter
                   \/ \E q \in 1..now : QuietAt(q) /\ now <= q + 1 + StaleAfter]_vars
  BY <1>3
<1> QED BY <1>1, <1>2, <1>4, PTL DEF Spec, SentWhileFresh

(* Where the promise that the run evening refutes does hold: if each       *)
(* category's window, its three shifts and StaleAfter fit into the day and *)
(* meet no quiet hour, a job goes out on the date it was planned for.      *)
THEOREM JobsThatFitKeepTheirDate ==
  ASSUME \A c \in Category : FitsTheDay(c)
  PROVE  Spec => NoEveningInTheMorning
<1> DEFINE Inv == TypeOK /\ PlaceInv /\ RemInv /\ FreshInv
<1>1. Init => Inv
  BY InitTypeOK, InitPlaceInv, InitFresh DEF RemInv, Init, ThrottleInit, TaskInit
<1>2. Inv /\ [Next]_vars => Inv'
  BY NextTypes, NextPlace, NextRem, NextFresh
<1>3. ASSUME Inv, [Next]_vars, NEW j \in PoolJob, dispatches'[j] # dispatches[j]
      PROVE  LocalDate = j[2]
  <2>1. j \in hand /\ j[1] \in Category
    BY <1>3, OnlyDispatchCounts DEF Dispatch, Holds, PoolJob
  <2>2. PICK t \in 0..now : DueInTime(j, t) /\ now <= t + StaleAfter
    BY <1>3, <2>1 DEF FreshInv
  <2>3. InSlot(j, t)
    BY <2>1, <2>2 DEF DueInTime
  <2>4. now \in Nat
    BY <1>3 DEF TypeOK, ThrottleTypeOK
  <2> QED BY <2>1, <2>2, <2>3, <2>4, FitsItsDay
<1>4. Inv /\ [Next]_vars
        => [\A j \in PoolJob : dispatches'[j] # dispatches[j] => LocalDate = j[2]]_vars
  BY <1>3
<1> QED BY <1>1, <1>2, <1>4, PTL DEF Spec, NoEveningInTheMorning
==============================================================================
