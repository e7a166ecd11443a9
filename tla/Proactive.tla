------------------------------ MODULE Proactive -------------------------------
(***************************************************************************)
(* Proactive messaging end to end, for one user: scheduler, worker handlers*)
(* and the user's own reminders, joined by Redis and the clock.            *)
(***************************************************************************)
EXTENDS Reminders

vars == <<throttleVars, schedulerVars, taskVars>>

Init == ThrottleInit /\ SchedulerInit /\ TaskInit

(* A poll is a matter of seconds, and reads the clock once: no hour passes *)
(* in the middle of one.  Hours may pass without a poll (the process was   *)
(* down) and with entries the worker has not come to.                      *)
Tick ==
  /\ pc = "poll"
  /\ NextHour
  /\ KeysAge
  /\ UNCHANGED taskVars

Next ==
  \/ SchedulerNext /\ UNCHANGED taskVars
  \/ HandlerNext
  \/ UserNext
  \/ Tick

Spec == Init /\ [][Next]_vars

(* The scheduler loops for ever and its container is always restarted; the *)
(* worker handles what is queued.  Nothing forces the clock or the user.   *)
Fairness ==
  /\ WF_vars(PollStep /\ UNCHANGED taskVars)
  /\ \A j \in Job : WF_vars(Handles(j))

FairSpec == Spec /\ Fairness

TypeOK == ThrottleTypeOK /\ SchedulerTypeOK /\ TaskTypeOK

------------------------------------------------------------------------------
(* A job of the plan is put on the stream at most once, however often it   *)
(* is deferred and whatever fails. (ZREM before anything else.)            *)
PoolJobOnce == \A j \in PoolJob : dispatches[j] <= 1

(* A category goes out at most once per UTC day, although yesterday's      *)
(* deferred job and today's may both be waiting.                           *)
OncePerDay ==
  [][\A j \in PoolJob : dispatches'[j] # dispatches[j] => j[1] \notin sentToday]_vars

(* Planner and scheduler implement DayPlan: a date is planned once, with   *)
(* MaxCategories at most; its jobs are placed once, and go out once or are *)
(* over for good, whatever was deferred, dropped or lost.                  *)
Stage == [j \in PoolJob |->
  IF score[j] > 0 \/ (j \in hand /\ pc # "cool") THEN "waiting"
  ELSE IF j[2] \notin planned THEN "ahead"
  ELSE IF j[2] = LocalDate /\ j[1] \in toPlan THEN "chosen"
  ELSE "over"]

Plans == INSTANCE DayPlan WITH
  Choices <- {S \in SUBSET Category : Cardinality(S) <= MaxCategories},
  stage <- Stage, sent <- dispatches, today <- sentToday

PlannedOnce == Plans!Spec

(* A job that goes out while its category cools down was planned before the*)
(* message that started the cooldown. The cooldown is checked by plan_day, *)
(* hours before the dispatch; only a scheduler that fails between XADD and *)
(* the cooldown key breaks this.                                           *)
CooldownAtPlan ==
  [][\A j \in PoolJob :
       (dispatches'[j] # dispatches[j] /\ "scheduler" \notin struck)
         => \/ lastSent[j[1]] = 0
            \/ now >= lastSent[j[1]] + Cooldown[j[1]]
            \/ plannedAt[j] <= lastSent[j[1]]]_vars

(* A job of the plan goes out while it is fresh: within StaleAfter of the  *)
(* last time its window, shifted at most three times, can give it, or of   *)
(* the end of a quiet hour that deferred it. (STALE_JOB_THRESHOLD, checked *)
(* against the score, which a deferral renews.)                            *)
LastSlot(j) == j[2] * Day + WindowEnd[j[1]] + 3 * Shift

QuietAt(h) == (h + Zone) % Day \in QuietHours

SentWhileFresh ==
  [][\A j \in PoolJob :
       dispatches'[j] # dispatches[j]
         => \/ now + Zone <= LastSlot(j) + StaleAfter
            \/ \E q \in 1..now : QuietAt(q) /\ now <= q + 1 + StaleAfter]_vars

(* Once the day's cap is reached nothing more is let through until the UTC *)
(* day ends: what still goes out was past the check already.               *)
PastCheck(j) == (j \in hand /\ pc \in {"idem", "xadd", "cool"}) \/ queued[j] > 0

CapCloses ==
  [][dayCount >= MaxPerDay /\ dayCount' >= MaxPerDay
       => \A j \in Job : PastCheck(j)' => PastCheck(j)]_vars

(* A reminder the user waits for is scheduled, on its way, or was dropped  *)
(* for a reason that is on record: it never falls between the row, the     *)
(* sorted set, the scheduler and the stream.                               *)
ReminderAccounted ==
  \A t \in awaited :
    score[t] > 0 \/ t \in hand \/ queued[t] > 0 \/ fate[t] # "none"

(* A recurring reminder moves on only from an occurrence that has come: the*)
(* row, the sorted set and the stream agree which one is next, so none is  *)
(* skipped. Only an edit, which may meet an entry on its way, and a worker *)
(* that dies before its XACK, whose entry fires again, break that.         *)
(* (handle_task_reminder advances due_at before it sends.)                 *)
OccurrenceKept ==
  [][\A t \in Recurring :
       (dueAt'[t] # dueAt[t] /\ task[t] # "none" /\ struck' \cap {"worker", "edit"} = {})
         => dueAt[t] <= now]_vars

(* A job that is due leaves the set, or is deferred, while the scheduler   *)
(* polls: dropped and deferred jobs never starve it. (BATCH_SIZE.)         *)
DueIsTaken == \A j \in Job : Due(j) ~> ~Due(j)

(* A due reminder is fired, if nothing is recorded against it. *)
DueReminderFires ==
  \A t \in Reminder :
    (t \in awaited /\ Due(t)) ~> (t \notin awaited \/ score[t] > now \/ fate[t] # "none")

------------------------------------------------------------------------------
(* Statements of the repository's text that the code does not keep.        *)

(* run_scheduler.py:13: task reminders "are NOT part of the pool and       *)
(* continue to work independently": no rate limit eats a reminder.         *)
RemindersIndependent == \A t \in awaited : fate[t] # "limited"

(* run_scheduler.py:116: the stale check "prevents morning dispatch of     *)
(* evening jobs that accumulated during scheduler downtime": a planned job *)
(* goes out on the local date it was planned for, or not at all.           *)
NoEveningInTheMorning ==
  [][\A j \in PoolJob : dispatches'[j] # dispatches[j] => LocalDate = j[2]]_vars
==============================================================================
