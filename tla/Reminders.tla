------------------------------ MODULE Reminders ------------------------------
(***************************************************************************)
(* The user's reminders and the worker's proactive handlers                *)
(* (app/tasks/reminder.py, app/tasks/proactive.py).  A reminder is a task  *)
(* row with a due time and, if all went well, a job in scheduled_jobs.  A  *)
(* handler runs when the worker gets to the entry the scheduler queued;    *)
(* how the worker retries entries is the business of JobDelivery, here a   *)
(* worker that dies leaves the entry where it is.                          *)
(***************************************************************************)
EXTENDS Scheduler

CONSTANTS
  Recurring,  \* the reminders with recurrence "daily"
  Requeued,   \* categories answered by a manager job (_requeue_via_manager)
  MaxLead     \* how far ahead, in hours, a due time may lie

ASSUME ReminderAssumption == Recurring \subseteq Reminder /\ MaxLead \in Nat
ASSUME RequeuedAssumption == Requeued \subseteq Category

VARIABLES
  task,    \* the task row of the reminder
  dueAt,   \* due_at of a recurring one; nothing reads it of another
  awaited  \* history: the user still waits for this reminder

taskVars == <<task, dueAt, awaited>>

TaskTypeOK ==
  /\ task \in [Reminder -> {"none", "active", "completed", "deleted"}]
  /\ dueAt \in [Recurring -> Nat]
  /\ awaited \subseteq Reminder

TaskInit ==
  /\ task = [t \in Reminder |-> "none"]
  /\ dueAt = [t \in Recurring |-> 0]
  /\ awaited = {}

(* Mutant: ZADD is left out. *)
Schedules_RowOnly(t, due, K) ==
  /\ fate' = [fate EXCEPT ![t] = IF "backend" \in K THEN "failed" ELSE "none"]
  /\ score' = score

(* _schedule_task_reminder: the payload of a task is always the same, so   *)
(* ZADD moves the job if it is already there.  An error is logged, and     *)
(* nobody is told.                                                         *)
Schedules(t, due, K) ==
  IF "backend" \in K
  THEN /\ fate' = [fate EXCEPT ![t] = "failed"]
       /\ score' = score
  ELSE /\ fate' = [fate EXCEPT ![t] = "none"]
       /\ score' = [score EXCEPT ![t] = due]

(* The due time is saved in the row, then the job is scheduled. *)
SetsDue(t, K) ==
  \E due \in now..(now + MaxLead) :
    /\ dueAt' = [u \in Recurring |-> IF u = t THEN due ELSE dueAt[u]]
    /\ Schedules(t, due, K)

(* handle_reminder, or POST /tasks. *)
CreateReminder(t) ==
  /\ task[t] = "none"
  /\ task' = [task EXCEPT ![t] = "active"]
  /\ awaited' = awaited \cup {t}
  /\ \E K \in {{}, {"backend"}} : Strike(K) /\ SetsDue(t, K)
  /\ UNCHANGED <<cooldownTil, pc, batch, hand, planVars, dispatchVars,
                 now, hourCount, dayCount, disabledTil>>

(* PATCH /tasks/{id} with a new due_at; a completed task stays completed.  *)
UpdateReminder(t) ==
  /\ task[t] \in {"active", "completed"}
  /\ awaited' = IF task[t] = "active" THEN awaited \cup {t} ELSE awaited
  /\ \E K \in {{"edit"}, {"edit", "backend"}} : Strike(K) /\ SetsDue(t, K)
  /\ UNCHANGED <<task, cooldownTil, pc, batch, hand, planVars, dispatchVars,
                 now, hourCount, dayCount, disabledTil>>

(* complete_task, delete_task and a PATCH of completed, which may also open*)
(* the task again: none of them touches the sorted set.                    *)
SetStatus(t) ==
  /\ task[t] \in {"active", "completed"}
  /\ \E s \in {"active", "completed", "deleted"} :
       /\ task' = [task EXCEPT ![t] = s]
       /\ awaited' = IF s = "active" THEN awaited ELSE awaited \ {t}
  /\ UNCHANGED <<dueAt, schedulerVars, throttleVars>>

------------------------------------------------------------------------------
(* The worker's proactive handlers. *)

(* The entry is done with, unless the worker died before its XACK. *)
TakesEntry(j, K) ==
  queued' = IF "worker" \in K THEN queued ELSE [queued EXCEPT ![j] = @ - 1]

(* What no handler touches. *)
HandlerFrame ==
  UNCHANGED <<pc, batch, hand, planVars, idem, dispatches, lastSent, sentToday,
              now, disabledTil, task>>

(* Nothing to say: nothing new, no such user, the handler lock is held, or *)
(* the reminder's task is completed.                                       *)
HandlerSilent(j) ==
  /\ queued[j] > 0
  /\ j \in Reminder => task[j] = "completed"
  /\ queued' = [queued EXCEPT ![j] = @ - 1]
  /\ HandlerFrame
  /\ UNCHANGED <<score, cooldownTil, fate, hourCount, dayCount, struck, dueAt, awaited>>

(* The handler raises before it did anything: _process takes that for a    *)
(* job with no response, and the entry is XACKed.                          *)
HandlerRaises(j) ==
  /\ queued[j] > 0
  /\ Disturb("backend")
  /\ queued' = [queued EXCEPT ![j] = @ - 1]
  /\ fate' = [t \in Reminder |-> IF t = j THEN "failed" ELSE fate[t]]
  /\ HandlerFrame
  /\ UNCHANGED <<score, cooldownTil, hourCount, dayCount, dueAt, awaited>>

(* The handler has something to say and _record_send notes it, with the    *)
(* cooldown of the category.  A handler that requeues through the manager  *)
(* names its action type instead, which no plan ever looks up.             *)
PoolHandlerSends(j) ==
  /\ j \in PoolJob /\ queued[j] > 0
  /\ \E K \in {{}, {"worker"}} : Strike(K) /\ TakesEntry(j, K)
  /\ RecordProactiveSend
  /\ cooldownTil' =
       IF j[1] \in Requeued THEN cooldownTil
       ELSE [cooldownTil EXCEPT ![j[1]] = now + Cooldown[j[1]]]
  /\ HandlerFrame
  /\ UNCHANGED <<score, fate, dueAt, awaited>>

(* A one-shot reminder, or one whose row is gone: the title of the payload *)
(* is sent.                                                                *)
ReminderFires(t) ==
  /\ queued[t] > 0
  /\ task[t] = "deleted" \/ (task[t] = "active" /\ t \notin Recurring)
  /\ \E K \in {{}, {"worker"}} : Strike(K) /\ TakesEntry(t, K)
  /\ RecordProactiveSend
  /\ awaited' = awaited \ {t}
  /\ HandlerFrame
  /\ UNCHANGED <<score, cooldownTil, fate, dueAt>>

(* _compute_next_occurrence: the first later occurrence in the future. *)
IsNextOccurrence(due, n) ==
  /\ n > due /\ n > now
  /\ (n - due) % Day = 0
  /\ n = due + Day \/ n - Day <= now

(* A recurring reminder first saves and schedules its next occurrence. *)
RecurringFires(t) ==
  /\ queued[t] > 0
  /\ task[t] = "active" /\ t \in Recurring
  /\ \E n \in now..(now + dueAt[t] + Day), K \in SUBSET {"worker", "backend"} :
       /\ IsNextOccurrence(dueAt[t], n)
       /\ dueAt' = [dueAt EXCEPT ![t] = n]
       /\ Strike(K) /\ Schedules(t, n, K) /\ TakesEntry(t, K)
  /\ RecordProactiveSend
  /\ HandlerFrame
  /\ UNCHANGED <<cooldownTil, awaited>>

------------------------------------------------------------------------------
UserNext ==
  \E t \in Reminder : CreateReminder(t) \/ UpdateReminder(t) \/ SetStatus(t)

Handles(j) ==
  \/ HandlerSilent(j) \/ HandlerRaises(j) \/ PoolHandlerSends(j)
  \/ j \in Reminder /\ (ReminderFires(j) \/ RecurringFires(j))

HandlerNext == \E j \in Job : Handles(j)
==============================================================================
