------------------------------ MODULE Dialogue ------------------------------
(***************************************************************************)
(* The API's side of a conversation: each inbound message is a task of its *)
(* own, from the webhook to the queued job (MessagePipeline._process).     *)
(***************************************************************************)
EXTENDS PendingActions

CONSTANTS Msg,        \* inbound messages and requeued reminders
          Words,      \* Words[m]: what m may say, or which scheduled job it is
          MaxStrikes  \* crashes, failures, timeouts and long pauses that are looked at

(* Proactive jobs that go back on the stream for the manager, by their     *)
(* source: scheduled_execute and scheduled_coaching.                       *)
Requeued == {"scheduled", "coaching"}

ASSUME StrikesAssumption == MaxStrikes \in Nat
ASSUME WordsAssumption == Words \in [Msg -> SUBSET ({"yes", "no", "say"} \cup Requeued)]

VARIABLES
  text,     \* text[m]: "yes" or "no" (the words of pipeline.py:188), "say" (any other)
  owner,    \* owner[m]: who wrote it
  step,     \* step[m]: how far its task in the API is
  target,   \* target[m]: the pending action it was matched with, 0 without
  job,      \* job[m]: its job
  welcomed, \* users whose welcome_sms_sent is set
  strikes   \* disturbances so far

dialogueVars == <<text, owner, step, target, job, welcomed, strikes>>

Steps == {"idle", "stored", "resolve", "push", "gone", "lost"}
Jobs == {"none", "queued", "looked", "thinking", "calling", "answered", "done"}

DialogueInit ==
  /\ text = [m \in Msg |-> "none"]
  /\ owner \in [Msg -> User]
  /\ step = [m \in Msg |-> "idle"]
  /\ target = [m \in Msg |-> 0]
  /\ job = [m \in Msg |-> "none"]
  /\ welcomed \in SUBSET User
  /\ strikes = 0

DialogueTypeOK ==
  /\ text \in [Msg -> {"none", "yes", "no", "say"} \cup Requeued]
  /\ owner \in [Msg -> User]
  /\ step \in [Msg -> Steps]
  /\ target \in [Msg -> Nat]
  /\ \A m \in Msg : target[m] \in 0..Len(rows)
  /\ job \in [Msg -> Jobs]
  /\ welcomed \subseteq User
  /\ strikes \in 0..MaxStrikes

To(m, s) == step' = [step EXCEPT ![m] = s]
JobTo(m, j) == job' = [job EXCEPT ![m] = j]

Strike == strikes < MaxStrikes /\ strikes' = strikes + 1

(* store_message: the row is there before anything is decided.             *)
Receive(m) ==
  /\ step[m] = "idle"
  /\ \E w \in Words[m] \ Requeued : text' = [text EXCEPT ![m] = w]
  /\ To(m, "stored")
  /\ UNCHANGED <<owner, target, job, welcomed, strikes>>

Inbound(u) == {m \in Msg : owner[m] = u /\ text[m] \in {"yes", "no", "say"}}

(* Decided before the words are looked at, by the count of what is stored. *)
IsFirst(m) == owner[m] \notin welcomed /\ Inbound(owner[m]) = {m}

(* The first greeting; an identity question or a greeting; or a question   *)
(* which persona is meant: answered here, without a job.                   *)
AnswerDirectly(m) ==
  /\ step[m] = "stored"
  /\ IsFirst(m) \/ text[m] = "say" \/ Candidates(owner[m]) = {}
  /\ To(m, "gone")
  /\ UNCHANGED <<text, owner, target, job, welcomed, strikes>>

FindPending(m) ==
  /\ step[m] = "stored"
  /\ ~ IsFirst(m)
  /\ text[m] \in {"yes", "no"}
  /\ \E r \in Candidates(owner[m]) :
       /\ IsPendingAction(owner[m], r)
       /\ target' = [target EXCEPT ![m] = r]
  /\ To(m, "resolve")
  /\ UNCHANGED <<text, owner, job, welcomed, strikes>>

(* A yes or a no that finds nothing pending is a message like any other.   *)
QueueJob(m) ==
  /\ step[m] = "stored"
  /\ ~ IsFirst(m)
  /\ text[m] = "say" \/ Candidates(owner[m]) = {}
  /\ To(m, "gone")
  /\ JobTo(m, "queued")
  /\ UNCHANGED <<text, owner, target, welcomed, strikes>>

(* Mutant: the job of a confirmed action is not queued. *)
Confirm_NoJob(m) ==
  /\ step[m] = "resolve" /\ text[m] = "yes"
  /\ ResolvePendingAction(target[m], "confirmed")
  /\ To(m, "gone")
  /\ UNCHANGED <<text, owner, target, job, welcomed, strikes>>

Confirm(m) ==
  /\ step[m] = "resolve" /\ text[m] = "yes"
  /\ ResolvePendingAction(target[m], "confirmed")
  /\ To(m, "push")
  /\ UNCHANGED <<text, owner, target, job, welcomed, strikes>>

Reject(m) ==
  /\ step[m] = "resolve" /\ text[m] = "no"
  /\ ResolvePendingAction(target[m], "rejected")
  /\ To(m, "gone")
  /\ UNCHANGED <<text, owner, target, job, welcomed, strikes>>

(* The context is assembled (get_context_full) before the job is queued.   *)
PushConfirmed(m) ==
  /\ step[m] = "push"
  /\ To(m, "gone")
  /\ JobTo(m, "queued")
  /\ UNCHANGED <<text, owner, target, welcomed, strikes>>

(* The row is committed as confirmed; its stored parameters, the context   *)
(* or XADD may still raise.  At any await before that, too, the task ends  *)
(* with an error reply.  "lost" is a yes that was recorded and not queued. *)
TaskFails(m) ==
  /\ Strike
  /\ step[m] \in {"stored", "resolve", "push"}
  /\ To(m, IF step[m] = "push" THEN "lost" ELSE "gone")
  /\ UNCHANGED <<text, owner, target, job, welcomed>>

(* A scheduled job of the worker that needs the manager goes back on the   *)
(* stream (handle_task_reminder, handle_goal_coaching).                    *)
Requeue(m) ==
  /\ step[m] = "idle"
  /\ \E w \in Words[m] \cap Requeued : text' = [text EXCEPT ![m] = w]
  /\ To(m, "gone")
  /\ JobTo(m, "queued")
  /\ UNCHANGED <<owner, target, welcomed, strikes>>

(* Tasks of the API live in its memory.                                    *)
ApiDies ==
  /\ Strike
  /\ step' = [m \in Msg |-> IF step[m] \in {"stored", "resolve"} THEN "gone"
                           ELSE IF step[m] = "push" THEN "lost" ELSE step[m]]
  /\ UNCHANGED <<text, owner, target, job, welcomed>>

(* Nobody answers in time, or the answer is late.                          *)
HalfAnHour ==
  /\ Strike
  /\ \E r \in DOMAIN rows : Expires(r)
  /\ UNCHANGED <<risk, text, owner, step, target, job, welcomed>>

Answering(m) == Confirm(m) \/ Reject(m)

DialogueNext ==
  \/ \E m \in Msg :
       \/ (Receive(m) \/ AnswerDirectly(m) \/ FindPending(m) \/ QueueJob(m)
             \/ PushConfirmed(m) \/ Requeue(m)) /\ UNCHANGED pendingVars
       \/ Answering(m) /\ UNCHANGED risk
  \/ (ApiDies \/ \E m \in Msg : TaskFails(m)) /\ UNCHANGED pendingVars
  \/ HalfAnHour
=============================================================================
