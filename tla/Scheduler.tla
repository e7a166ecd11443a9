------------------------------ MODULE Scheduler -------------------------------
(***************************************************************************)
(* The scheduler process (scripts/run_scheduler.py) and the day planner it *)
(* calls (app/core/proactive_pool.py).  Every poll first plans the user's  *)
(* day, once per local date, by putting pool jobs at random times into the *)
(* sorted set scheduled_jobs; then it claims the jobs that are due, one by *)
(* one, and drops, defers or dispatches each.  Reminders sit in the same   *)
(* set and take the same way.                                              *)
(***************************************************************************)
EXTENDS Throttle

CONSTANTS
  Category,       \* the categories of the pool
  Reminder,       \* the user's tasks of type reminder
  WindowStart,    \* local hours of a category's window
  WindowEnd,
  Cooldown,       \* cooldown_hours of a category
  MaxCategories,  \* proactive_max_categories_per_day, or 1 if that is less
  MinGap,         \* min_gap of check_spacing, in hours
  Shift,          \* its shift per retry, in hours
  StaleAfter,     \* STALE_JOB_THRESHOLD, in hours
  BatchSize       \* BATCH_SIZE

Date == 0..((Horizon + Zone) \div Day)

(* The category's job of one local date's plan. *)
PoolJob == Category \X Date
Job == PoolJob \cup Reminder

ASSUME CategoryAssumption ==
  /\ IsFiniteSet(Category)
  /\ WindowStart \in [Category -> Nat]
  /\ WindowEnd \in [Category -> Nat]
  /\ Cooldown \in [Category -> Nat \ {0}]
ASSUME PlanAssumption ==
  MaxCategories \in Nat \ {0} /\ MinGap \in Nat /\ Shift \in Nat /\ StaleAfter \in Nat
ASSUME BatchAssumption == BatchSize \in Nat \ {0}
ASSUME JobAssumption == Reminder \cap PoolJob = {} /\ Reminder \cap Category = {}

VARIABLES
  score,        \* ZSET scheduled_jobs: when the job is due, 0 if not a member
  planned,      \* local dates whose proactive:plan:{user}:{date} was set
  cooldownTil,  \* hour in which proactive:cooldown:{user}:{category} dies
  idem,         \* categories and reminders with an idempotency key of this UTC day
  queued,       \* how many entries of the job the job stream holds
  pc,           \* where the scheduler is in its poll
  toPlan,       \* selected categories plan_day has still to place
  batch,        \* due jobs of this poll with the score read, not yet claimed
  hand,         \* the job that was claimed, if any
  fate,         \* history: how the reminder last left the set without a dispatch
  dispatches,   \* history: how often the pool job was put on the stream
  plannedAt,    \* history: when the waiting pool job was put into the set
  lastSent,     \* history: when the category was last dispatched
  sentToday     \* history: the categories dispatched on this UTC day

planVars == <<planned, toPlan, plannedAt>>
dispatchVars == <<idem, queued, dispatches, lastSent, sentToday>>
schedulerVars ==
  <<score, cooldownTil, pc, batch, hand, fate, planVars, dispatchVars>>

Due(j) == score[j] > 0 /\ score[j] <= now

SchedulerTypeOK ==
  /\ score \in [Job -> Nat]
  /\ planned \subseteq Nat
  /\ cooldownTil \in [Category -> Nat]
  /\ idem \subseteq Category \cup Reminder
  /\ queued \in [Job -> Nat]
  /\ pc \in {"poll", "plan", "fetch", "next", "safety", "rate", "idem",
             "xadd", "cool"}
  /\ toPlan \subseteq Category
  /\ batch \subseteq [job : Job, at : Nat]
  /\ hand \subseteq Job
  /\ fate \in [Reminder -> {"none", "limited", "duplicate", "failed"}]
  /\ dispatches \in [PoolJob -> Nat]
  /\ plannedAt \in [PoolJob -> Nat]
  /\ lastSent \in [Category -> Nat]
  /\ sentToday \subseteq Category

SchedulerInit ==
  /\ score = [j \in Job |-> 0]
  /\ planned = {}
  /\ cooldownTil = [c \in Category |-> 0]
  /\ idem = {}
  /\ queued = [j \in Job |-> 0]
  /\ pc = "poll"
  /\ toPlan = {}
  /\ batch = {}
  /\ hand = {}
  /\ fate = [t \in Reminder |-> "none"]
  /\ dispatches = [j \in PoolJob |-> 0]
  /\ plannedAt = [j \in PoolJob |-> 0]
  /\ lastSent = [c \in Category |-> 0]
  /\ sentToday = {}

------------------------------------------------------------------------------
(* Phase 1: plan_day. *)

(* The date's key is set, then select_categories: which categories are     *)
(* eligible depends on the user, and the draw is random.                   *)
Draws ==
  /\ pc = "poll"
  /\ planned' = planned \cup {LocalDate}
  /\ \E S \in SUBSET Category :
       /\ Cardinality(S) <= MaxCategories
       /\ toPlan' = S
       /\ pc' = IF S = {} THEN "fetch" ELSE "plan"
  /\ UNCHANGED <<score, cooldownTil, batch, hand, fate, plannedAt,
                 dispatchVars, throttleVars>>

(* Mutant: the key is set without NX. *)
PlanStart_NoKey == Draws

(* SET NX of the key: a date is planned once. *)
PlanStart == LocalDate \notin planned /\ Draws

(* The database fails before the key is set, or after it: POOL_PLAN_ERROR. *)
PlanFails ==
  /\ pc = "poll" \/ pc = "plan"
  /\ Disturb("backend")
  /\ toPlan' = {}
  /\ pc' = "fetch"
  /\ UNCHANGED <<score, cooldownTil, batch, hand, fate, planned, plannedAt,
                 dispatchVars, now, hourCount, dayCount, disabledTil>>

(* The times compute_jitter_time may draw in what is left of the window.   *)
JitterTimes(c) ==
  {now + h - LocalHour :
     h \in {x \in LocalHour..WindowEnd[c] : x >= WindowStart[c]}}

(* check_spacing: the first of the four shifted times with no scheduled job*)
(* of the user, reminders included, within MinGap of it.                   *)
Conflict(t) ==
  \E j \in Job : score[j] > 0 /\ score[j] <= t + MinGap /\ t <= score[j] + MinGap

FirstFree(t, k) ==
  /\ ~Conflict(t + k * Shift)
  /\ \A i \in 0..3 : i < k => Conflict(t + i * Shift)

PastWindow(c) == WindowEnd[c] <= LocalHour

AfterPlanning(c) == IF toPlan = {c} THEN "fetch" ELSE "plan"

PlanSkips(c) ==
  /\ pc = "plan" /\ c \in toPlan
  /\ \/ PastWindow(c)
     \/ now <= cooldownTil[c]
     \/ \E t \in JitterTimes(c) : \A k \in 0..3 : Conflict(t + k * Shift)
  /\ toPlan' = toPlan \ {c}
  /\ pc' = AfterPlanning(c)
  /\ UNCHANGED <<score, cooldownTil, batch, hand, fate, planned, plannedAt,
                 dispatchVars, throttleVars>>

(* ZADD at the first free time. *)
Places(c) ==
  /\ pc = "plan" /\ c \in toPlan
  /\ ~PastWindow(c)
  /\ \E t \in JitterTimes(c), k \in 0..3 :
       /\ FirstFree(t, k)
       /\ score' = [score EXCEPT ![<<c, LocalDate>>] = t + k * Shift]
  /\ plannedAt' = [plannedAt EXCEPT ![<<c, LocalDate>>] = now]
  /\ toPlan' = toPlan \ {c}
  /\ pc' = AfterPlanning(c)
  /\ UNCHANGED <<cooldownTil, batch, hand, fate, planned, dispatchVars, throttleVars>>

(* Mutant: cooldown_hours is dead metadata. *)
PlanPlaces_NoCooldown(c) == Places(c)

PlanPlaces(c) == now >= cooldownTil[c] /\ Places(c)

------------------------------------------------------------------------------
(* Phase 2: dispatch. *)

(* The oldest BatchSize due jobs, with the scores they had when read.      *)
Fetch ==
  /\ pc = "fetch" \/ (pc = "poll" /\ LocalDate \in planned)
  /\ \E b \in SUBSET {j \in Job : Due(j)} :
       /\ Cardinality(b) <= BatchSize
       /\ Cardinality(b) < BatchSize => \A j \in Job : Due(j) => j \in b
       /\ \A j \in b, i \in Job : Due(i) /\ i \notin b => score[j] <= score[i]
       /\ batch' = {[job |-> j, at |-> score[j]] : j \in b}
       /\ pc' = IF b = {} THEN "poll" ELSE "next"
  /\ UNCHANGED <<score, cooldownTil, hand, fate, planVars, dispatchVars, throttleVars>>

(* The job in hand is done with: go on with the batch, or sleep. *)
NextInBatch(b) == IF b = {} THEN "poll" ELSE "next"

Holds(j, where) == pc = where /\ j \in hand

(* The next check, with the job still in hand. *)
Passes(j, from, to) ==
  /\ Holds(j, from)
  /\ pc' = to
  /\ UNCHANGED <<score, cooldownTil, batch, hand, fate, planVars>>

(* The job is dropped: it is in no place any more. *)
Drops(j, from, why) ==
  /\ Holds(j, from)
  /\ hand' = {}
  /\ fate' = [t \in Reminder |-> IF t = j THEN why ELSE fate[t]]
  /\ pc' = NextInBatch(batch)
  /\ UNCHANGED <<score, cooldownTil, batch, planVars, dispatchVars>>

(* Mutant: reminders go stale too. *)
IsStale_AnyJob(e) == now > e.at + StaleAfter

IsStale(e) == e.job \in PoolJob /\ now > e.at + StaleAfter

(* The oldest job of the batch is next. *)
TakesNext(e) ==
  /\ pc = "next" /\ e \in batch
  /\ \A f \in batch : e.at <= f.at
  /\ batch' = batch \ {e}
  /\ UNCHANGED <<cooldownTil, fate, planVars, dispatchVars, throttleVars>>

(* ZREM found nothing: somebody else took the job. *)
ClaimLost(e) ==
  /\ TakesNext(e)
  /\ score[e.job] = 0
  /\ pc' = NextInBatch(batch \ {e})
  /\ UNCHANGED <<score, hand>>

(* Mutant: a stale job is logged, and goes on all the same. *)
Judges_LogsOnly(e) == pc' = "safety" /\ hand' = {e.job}

(* A stale pool job is discarded, by the score that was read. *)
Judges(e) ==
  IF IsStale(e)
  THEN pc' = NextInBatch(batch \ {e}) /\ hand' = hand
  ELSE pc' = "safety" /\ hand' = {e.job}

(* Mutant: the job stays in the set. *)
Claim_NotRemoved(e) ==
  TakesNext(e) /\ score[e.job] > 0 /\ Judges(e) /\ score' = score

(* ZREM took the job, whatever its score is by now. *)
Claim(e) ==
  /\ TakesNext(e)
  /\ score[e.job] > 0
  /\ score' = [score EXCEPT ![e.job] = 0]
  /\ Judges(e)

(* check_dead_man_switch *)
DeadManTrips(j) ==
  /\ hourCount >= DeadMan
  /\ disabledTil' = now + 1
  /\ Drops(j, "safety", "limited")
  /\ UNCHANGED <<now, hourCount, dayCount, struck>>

StillDisabled(j) ==
  /\ hourCount < DeadMan /\ now <= disabledTil
  /\ Drops(j, "safety", "limited")
  /\ UNCHANGED throttleVars

IsSafe(j) ==
  /\ hourCount < DeadMan /\ now >= disabledTil
  /\ Passes(j, "safety", "rate")
  /\ UNCHANGED <<dispatchVars, throttleVars>>

RateLimited(j) ==
  /\ ~RateAllows
  /\ Drops(j, "rate", "limited")
  /\ UNCHANGED throttleVars

(* Mutant: only the hourly limit is looked at. *)
RateAllowed_HourOnly(j) ==
  /\ hourCount < MaxPerHour
  /\ Passes(j, "rate", "idem")
  /\ UNCHANGED <<dispatchVars, throttleVars>>

RateAllowed(j) ==
  /\ RateAllows
  /\ Passes(j, "rate", "idem")
  /\ UNCHANGED <<dispatchVars, throttleVars>>

(* Mutant: the deferred job is dispatched all the same. *)
QuietDefers_FallsThrough(j) ==
  /\ Holds(j, "idem")
  /\ j \in PoolJob /\ IsQuietHours
  /\ score' = [score EXCEPT ![j] = now + 1]
  /\ pc' = "xadd"
  /\ UNCHANGED <<cooldownTil, batch, hand, fate, planVars, dispatchVars, throttleVars>>

(* Quiet hours defer a pool job by an hour: back into the set. *)
QuietDefers(j) ==
  /\ Holds(j, "idem")
  /\ j \in PoolJob /\ IsQuietHours
  /\ score' = [score EXCEPT ![j] = now + 1]
  /\ hand' = {}
  /\ pc' = NextInBatch(batch)
  /\ UNCHANGED <<cooldownTil, batch, fate, planVars, dispatchVars, throttleVars>>

(* A reminder takes no notice of quiet hours. *)
MayGoNow(j) == j \in PoolJob => ~IsQuietHours

(* Mutant: the key names the job. *)
IdemKey_PerJob(j) == j

IdemKey(j) == IF j \in PoolJob THEN j[1] ELSE j

Duplicate(j) ==
  /\ MayGoNow(j)
  /\ IdemKey(j) \in idem
  /\ Drops(j, "idem", "duplicate")
  /\ UNCHANGED throttleVars

(* SET NX of the key succeeds. *)
TakesKey(j) ==
  /\ idem' = idem \cup {IdemKey(j)}
  /\ Passes(j, "idem", "xadd")
  /\ UNCHANGED <<queued, dispatches, lastSent, sentToday, throttleVars>>

(* Mutant: SET without NX. *)
IsNew_NoCheck(j) == MayGoNow(j) /\ TakesKey(j)

IsNew(j) == MayGoNow(j) /\ IdemKey(j) \notin idem /\ TakesKey(j)

(* XADD to the job stream. *)
Dispatch(j) ==
  /\ Holds(j, "xadd")
  /\ queued' = [queued EXCEPT ![j] = @ + 1]
  /\ IF j \in PoolJob
       THEN /\ dispatches' = [dispatches EXCEPT ![j] = @ + 1]
            /\ lastSent' = [lastSent EXCEPT ![j[1]] = now]
            /\ sentToday' = sentToday \cup {j[1]}
            /\ plannedAt' = [plannedAt EXCEPT ![j] = 0]
       ELSE UNCHANGED <<dispatches, lastSent, sentToday, plannedAt>>
  /\ pc' = "cool"
  /\ UNCHANGED <<score, cooldownTil, batch, hand, fate, planned, toPlan, idem,
                 throttleVars>>

(* record_category_cooldown; for a reminder the key it sets is never read. *)
RecordCooldown(j) ==
  /\ Holds(j, "cool")
  /\ cooldownTil' =
       IF j \in PoolJob
       THEN [cooldownTil EXCEPT ![j[1]] = now + Cooldown[j[1]]]
       ELSE cooldownTil
  /\ hand' = {}
  /\ pc' = NextInBatch(batch)
  /\ UNCHANGED <<score, batch, fate, planVars, dispatchVars, throttleVars>>

(* The process dies, or a Redis call raises and the whole poll is given up:*)
(* a job in hand that is not on the stream yet is in no place any more.    *)
PollFails ==
  /\ pc # "poll"
  /\ Disturb("scheduler")
  /\ pc' = "poll"
  /\ toPlan' = {}
  /\ batch' = {}
  /\ hand' = {}
  /\ fate' = [t \in Reminder |->
                IF t \in hand /\ pc # "cool" THEN "failed" ELSE fate[t]]
  /\ UNCHANGED <<score, cooldownTil, planned, plannedAt, dispatchVars,
                 now, hourCount, dayCount, disabledTil>>

------------------------------------------------------------------------------
(* The keys an hour leaves behind: cooldowns, and the idempotency keys of  *)
(* the UTC day, whose name is never asked for again.                       *)
KeysAge ==
  /\ cooldownTil' = [c \in Category |-> Living(cooldownTil[c])]
  /\ idem' = IF NewDay THEN {} ELSE idem
  /\ sentToday' = IF NewDay THEN {} ELSE sentToday
  /\ UNCHANGED <<score, pc, batch, hand, fate, planVars, queued, dispatches, lastSent>>

PlanStep == PlanStart \/ \E c \in Category : PlanSkips(c) \/ PlanPlaces(c)

ClaimStep == \E e \in batch : ClaimLost(e) \/ Claim(e)

HandStep ==
  \E j \in Job :
    \/ DeadManTrips(j) \/ StillDisabled(j) \/ IsSafe(j)
    \/ RateLimited(j) \/ RateAllowed(j)
    \/ QuietDefers(j) \/ Duplicate(j) \/ IsNew(j)
    \/ Dispatch(j) \/ RecordCooldown(j)

(* What the loop does next, if nothing goes wrong. *)
PollStep == PlanStep \/ Fetch \/ ClaimStep \/ HandStep

SchedulerNext == PollStep \/ PlanFails \/ PollFails
==============================================================================
