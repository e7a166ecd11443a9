------------------------------- MODULE Manager ------------------------------
(***************************************************************************)
(* The worker's side of a conversation: route_job executes what the user   *)
(* has confirmed, manager_dispatch lets the language model call tools in   *)
(* rounds.  Jobs run side by side in one process.                          *)
(***************************************************************************)
EXTENDS Dialogue, Sessions

CONSTANTS
  MAX_TOOL_ROUNDS,
  MaxCalls,          \* tool calls in one answer of the model that are looked at
  DeflectionTools    \* create_reminder and list_tasks

ASSUME RoundsAssumption == MAX_TOOL_ROUNDS \in Nat \ {0} /\ MaxCalls \in Nat \ {0}
ASSUME OwnerAssumption == Owner = User

VARIABLES
  turn,        \* turn[m]: the locals of m's dispatch
  ran,         \* ran[m]: executions of the action m confirmed
  unconfirmed, \* whose tools were executed without a confirmation (history)
  overlapped   \* users of whom two dispatches have run at once (history)

dispatchVars == <<turn, ran, unconfirmed, overlapped>>
managerVars == <<dispatchVars, sessionVars>>

(* session: the session it goes on from, 0 without; round: rounds of tool  *)
(* calls begun; calls: calls of this round still to be made; tools: what   *)
(* the model is offered; used: whether any tool was called.                *)
NoTurn == [session |-> 0, round |-> 0, calls |-> <<>>, tools |-> {}, used |-> FALSE]

ManagerInit ==
  /\ SessionsInit
  /\ turn = [m \in Msg |-> NoTurn]
  /\ ran = [m \in Msg |-> 0]
  /\ unconfirmed = {}
  /\ overlapped = {}

ManagerTypeOK ==
  /\ SessionsTypeOK
  /\ turn \in [Msg -> [session : Nat, round : 0..MAX_TOOL_ROUNDS, calls : Seq(Tool),
                       tools : SUBSET Tool, used : BOOLEAN]]
  /\ \A m \in Msg : turn[m].session \in 0..Len(sess)
  /\ ran \in [Msg -> Nat]
  /\ unconfirmed \subseteq User \X Tool
  /\ overlapped \subseteq User

InDispatch(m) == job[m] \in {"looked", "thinking", "calling"}

dialogueRest == <<text, owner, step, target, welcomed, strikes>>

(* route_job, confirmed_action: whatever has become of the row.  The tool  *)
(* may be missing, refuse, or not answer within the job's time.            *)
ServeConfirmed(m) ==
  /\ job[m] = "queued" /\ target[m] # 0
  /\ ran' \in {ran, [ran EXCEPT ![m] = @ + 1]}
  /\ JobTo(m, "answered")
  /\ UNCHANGED <<dialogueRest, pendingVars, sessionVars, turn, unconfirmed, overlapped>>

(* The handlers of the other intents touch nothing that is modelled here.  *)
OtherHandler(m) ==
  /\ job[m] = "queued" /\ target[m] = 0 /\ text[m] \notin Requeued
  /\ JobTo(m, "answered")
  /\ UNCHANGED <<dialogueRest, pendingVars, managerVars>>

LookUpSession(m) ==
  /\ job[m] = "queued" /\ target[m] = 0
  /\ AbandonStale(owner[m])
  /\ \E s \in 0..Len(sess) :
       /\ IsActiveSession(owner[m], s)
       /\ turn' = [turn EXCEPT ![m] = [NoTurn EXCEPT !.session = s]]
  /\ overlapped' = overlapped \cup
       {u \in {owner[m]} : \E n \in Msg \ {m} : owner[n] = u /\ InDispatch(n)}
  /\ JobTo(m, "looked")
  /\ UNCHANGED <<dialogueRest, pendingVars, ran, unconfirmed>>

(* A reminder that fires must not create another; goal coaching may.       *)
Offered(m) ==
  (Builtin \cup DOMAIN AgentRisk[owner[m]])
    \ (IF text[m] = "scheduled" THEN {"create_reminder"} ELSE {})

(* The message goes on from the session, or counts as a new intent and     *)
(* completes it (continues_active_session: by age and by its words).  Then *)
(* the tools are collected.                                                *)
Prepare(m) ==
  /\ job[m] = "looked"
  /\ \/ /\ turn' = [turn EXCEPT ![m].tools = Offered(m)]
        /\ UNCHANGED sessionVars
     \/ /\ turn[m].session # 0
        /\ CompleteSession(turn[m].session)
        /\ turn' = [turn EXCEPT ![m].tools = Offered(m), ![m].session = 0]
  /\ RegisterAgents(owner[m])
  /\ JobTo(m, "thinking")
  /\ UNCHANGED <<dialogueRest, rows, ran, unconfirmed, overlapped>>

(* Mutant: no limit on the rounds. *)
ModelCalls_Unlimited(m) ==
  /\ job[m] = "thinking"
  /\ \E n \in 1..MaxCalls : \E cs \in [1..n -> turn[m].tools] :
       turn' = [turn EXCEPT ![m].calls = cs, ![m].round = @ + 1, ![m].used = TRUE]
  /\ JobTo(m, "calling")
  /\ UNCHANGED <<dialogueRest, pendingVars, sessionVars, ran, unconfirmed, overlapped>>

(* llm_tools: the model calls tools it was offered.                        *)
ModelCalls(m) ==
  /\ job[m] = "thinking" /\ turn[m].round < MAX_TOOL_ROUNDS
  /\ \E n \in 1..MaxCalls : \E cs \in [1..n -> turn[m].tools] :
       turn' = [turn EXCEPT ![m].calls = cs, ![m].round = @ + 1, ![m].used = TRUE]
  /\ JobTo(m, "calling")
  /\ UNCHANGED <<dialogueRest, pendingVars, sessionVars, ran, unconfirmed, overlapped>>

(* The dispatch returns and its locals are gone.                           *)
Return(m) == JobTo(m, "answered") /\ turn' = [turn EXCEPT ![m] = NoTurn]

(* A tool of medium or high risk: the dispatch ends with the question to   *)
(* the user.  What it has done before is not kept in any session.          *)
Propose(m) ==
  /\ job[m] = "calling" /\ NeedsConfirmation(Head(turn[m].calls))
  /\ CreatePendingAction(owner[m], Head(turn[m].calls))
  /\ Return(m)
  /\ UNCHANGED <<dialogueRest, risk, sessionVars, ran, unconfirmed, overlapped>>

(* A tool that failed is taken away, unless the failure is one the model   *)
(* can mend by better input; with a primary tool, the deflection tools go. *)
Remaining(T, t, outcome) ==
  IF outcome # "unavailable" THEN T
  ELSE T \ ({t} \cup (IF t \in DeflectionTools THEN {} ELSE DeflectionTools))

CallTool(m) ==
  /\ job[m] = "calling" /\ ~ NeedsConfirmation(Head(turn[m].calls))
  /\ \E outcome \in {"ok", "retryable", "unavailable"} :
       turn' = [turn EXCEPT ![m].tools = Remaining(@, Head(turn[m].calls), outcome),
                            ![m].calls = Tail(@)]
  /\ unconfirmed' = unconfirmed \cup {<<owner[m], Head(turn[m].calls)>>}
  /\ JobTo(m, IF Len(turn[m].calls) = 1 THEN "thinking" ELSE "calling")
  /\ UNCHANGED <<dialogueRest, pendingVars, sessionVars, ran, overlapped>>

(* The model answers with text; after the last round it is asked for text  *)
(* alone.  Then the session's life.                                        *)
Answer(m) ==
  /\ job[m] = "thinking"
  /\ \/ turn[m].used /\ UpsertSession(owner[m], turn[m].session)
     \/ ~ turn[m].used /\ turn[m].session # 0 /\ CompleteSession(turn[m].session)
     \/ ~ turn[m].used /\ turn[m].session = 0 /\ UNCHANGED sessionVars
  /\ Return(m)
  /\ UNCHANGED <<dialogueRest, pendingVars, ran, unconfirmed, overlapped>>

(* The job's time is up, or its handler raises: an apology is published.   *)
GiveUp(m) ==
  /\ InDispatch(m)
  /\ Strike
  /\ Return(m)
  /\ UNCHANGED <<text, owner, step, target, welcomed, pendingVars, sessionVars, ran, unconfirmed, overlapped>>

Acknowledge(m) ==
  /\ job[m] = "answered"
  /\ JobTo(m, "done")
  /\ UNCHANGED <<dialogueRest, pendingVars, managerVars>>

(* Mutant: acknowledged jobs are read again, too. *)
WorkerDies_AllAgain ==
  /\ Strike
  /\ job' = [m \in Msg |-> IF job[m] = "none" THEN "none" ELSE "queued"]
  /\ turn' = [m \in Msg |-> NoTurn]
  /\ risk' = InitialRisk
  /\ UNCHANGED <<text, owner, step, target, welcomed, rows, sessionVars, ran, unconfirmed, overlapped>>

(* What was not acknowledged is run again; TOOL_RISK is loaded anew.       *)
WorkerDies ==
  /\ Strike
  /\ job' = [m \in Msg |-> IF job[m] \in {"none", "done"} THEN job[m] ELSE "queued"]
  /\ turn' = [m \in Msg |-> NoTurn]
  /\ risk' = InitialRisk
  /\ UNCHANGED <<text, owner, step, target, welcomed, rows, sessionVars, ran, unconfirmed, overlapped>>

JobStep(m) ==
  \/ ServeConfirmed(m) \/ OtherHandler(m) \/ LookUpSession(m) \/ Prepare(m)
  \/ ModelCalls(m) \/ Propose(m) \/ CallTool(m)
  \/ Answer(m) \/ GiveUp(m) \/ Acknowledge(m)

(* No dispatch lasts a day. *)
Overnight ==
  /\ \A m \in Msg : ~ InDispatch(m)
  /\ Strike
  /\ DayPasses
  /\ UNCHANGED <<text, owner, step, target, job, welcomed, pendingVars, dispatchVars>>

ManagerNext == (\E m \in Msg : JobStep(m)) \/ WorkerDies \/ Overnight
=============================================================================
