------------------------- MODULE Conversation_proofs ------------------------
(***************************************************************************)
(* Theorems about Conversation, for any users, messages, tools, agents and *)
(* limits, and any number of disturbances.                                 *)
(***************************************************************************)
EXTENDS Conversation, TLAPS

USE ToolAssumption, WordsAssumption, StrikesAssumption, RoundsAssumption, OwnerAssumption
    DEF ToolAssumption, WordsAssumption, StrikesAssumption, RoundsAssumption, OwnerAssumption,
        pendingVars, sessionVars, dialogueVars, dispatchVars, managerVars, dialogueRest

------------------------------------------------------------------------------
(* Type correctness. *)

LEMMA RiskTypes == InitialRisk \in [Tool -> Risk]
BY DEF InitialRisk, Risk, Tool

LEMMA InitTypeOK == Init => TypeOK
<1> SUFFICES ASSUME Init PROVE TypeOK
  OBVIOUS
<1>1. PendingTypeOK
  BY RiskTypes DEF Init, PendingInit, PendingTypeOK
<1>2. DialogueTypeOK
  BY DEF Init, PendingInit, DialogueInit, DialogueTypeOK, Steps, Jobs
<1>3. ManagerTypeOK
  BY DEF Init, ManagerInit, SessionsInit, ManagerTypeOK, SessionsTypeOK, NoTurn
<1> QED BY <1>1, <1>2, <1>3 DEF TypeOK

(* A field of a row that is set leaves a sequence of rows. *)
LEMMA RowSet ==
  ASSUME NEW S, NEW s \in Seq(S), NEW i \in DOMAIN s, NEW e \in S
  PROVE  /\ [s EXCEPT ![i] = e] \in Seq(S)
         /\ Len([s EXCEPT ![i] = e]) = Len(s)
         /\ DOMAIN [s EXCEPT ![i] = e] = DOMAIN s
OBVIOUS

LEMMA RowOf ==
  ASSUME NEW S, NEW s \in Seq(S), NEW i \in DOMAIN s
  PROVE  s[i] \in S
OBVIOUS

LEMMA RowsMapped ==
  ASSUME NEW S, NEW s \in Seq(S), NEW t, DOMAIN t = DOMAIN s, \A i \in DOMAIN s : t[i] \in S,
         t = [i \in DOMAIN s |-> t[i]]
  PROVE  t \in Seq(S) /\ Len(t) = Len(s)
<1>1. DOMAIN s = 1..Len(s) /\ Len(s) \in Nat
  OBVIOUS
<1>2. t \in [1..Len(s) -> S]
  BY <1>1
<1> QED BY <1>1, <1>2

LEMMA StrikeType ==
  ASSUME strikes \in 0..MaxStrikes, Strike
  PROVE  strikes' \in 0..MaxStrikes
BY DEF Strike

LEMMA CandidateType ==
  ASSUME PendingTypeOK, NEW u, NEW r \in Candidates(u)
  PROVE  r \in 1..Len(rows) /\ r \in Nat
BY DEF Candidates, PendingTypeOK

LEMMA RegisterType ==
  ASSUME PendingTypeOK, NEW u \in User, RegisterAgents(u)
  PROVE  risk' \in [Tool -> Risk]
BY DEF PendingTypeOK, RegisterAgents

LEMMA ResolveType ==
  ASSUME PendingTypeOK, NEW r \in Nat, NEW s \in {"confirmed", "rejected"},
         ResolvePendingAction(r, s)
  PROVE  rows' \in Seq(Row) /\ Len(rows') = Len(rows)
<1> USE DEF PendingTypeOK, ResolvePendingAction
<1>1. CASE r \in DOMAIN rows
  <2>1. rows[r] \in Row
    BY <1>1
  <2>2. [rows[r] EXCEPT !.status = s] \in Row
    BY <2>1 DEF Row
  <2>3. rows' = [rows EXCEPT ![r] = [rows[r] EXCEPT !.status = s]]
    OBVIOUS
  <2> QED BY <1>1, <2>2, <2>3, RowSet
<1>2. CASE r \notin DOMAIN rows
  <2>1. rows' = rows
    BY <1>2
  <2> QED BY <2>1
<1> QED BY <1>1, <1>2

LEMMA ExpiryType ==
  ASSUME PendingTypeOK, NEW r \in DOMAIN rows, Expires(r)
  PROVE  rows' \in Seq(Row) /\ Len(rows') = Len(rows)
<1> USE DEF PendingTypeOK, Expires
<1>1. DOMAIN rows' = DOMAIN rows /\ rows' = [q \in DOMAIN rows |-> rows'[q]]
  OBVIOUS
<1>2. ASSUME NEW q \in DOMAIN rows PROVE rows'[q] \in Row
  <2>1. rows[q] \in Row
    OBVIOUS
  <2>2. [rows[q] EXCEPT !.status = "lapsed"] \in Row
    BY <2>1 DEF Row
  <2> QED BY <2>1, <2>2
<1>3. \A q \in DOMAIN rows : rows'[q] \in Row
  BY <1>2
<1> QED BY <1>1, <1>3, RowsMapped

LEMMA DialogueTypes ==
  ASSUME TypeOK, DialogueNext, UNCHANGED managerVars
  PROVE  TypeOK'
<1> USE DEF TypeOK
<1>1. ManagerTypeOK'
  BY DEF ManagerTypeOK, SessionsTypeOK
<1>2. ASSUME NEW m \in Msg, UNCHANGED pendingVars,
             \/ Receive(m) \/ AnswerDirectly(m) \/ QueueJob(m) \/ PushConfirmed(m) \/ Requeue(m)
      PROVE  PendingTypeOK' /\ DialogueTypeOK'
  <2> USE DEF PendingTypeOK, DialogueTypeOK, To, JobTo, Steps, Jobs, Requeued
  <2>1. CASE Receive(m)
    BY <1>2, <2>1 DEF Receive
  <2>2. CASE AnswerDirectly(m)
    BY <1>2, <2>2 DEF AnswerDirectly
  <2>3. CASE QueueJob(m)
    BY <1>2, <2>3 DEF QueueJob
  <2>4. CASE PushConfirmed(m)
    BY <1>2, <2>4 DEF PushConfirmed
  <2>5. CASE Requeue(m)
    BY <1>2, <2>5 DEF Requeue
  <2> QED BY <1>2, <2>1, <2>2, <2>3, <2>4, <2>5
<1>3. ASSUME NEW m \in Msg, UNCHANGED pendingVars, FindPending(m)
      PROVE  PendingTypeOK' /\ DialogueTypeOK'
  <2>1. PICK r \in Candidates(owner[m]) : target' = [target EXCEPT ![m] = r]
    BY <1>3 DEF FindPending
  <2>2. r \in Nat /\ r \in 0..Len(rows)
    BY CandidateType
  <2> QED BY <1>3, <2>1, <2>2 DEF PendingTypeOK, DialogueTypeOK, FindPending, To, Steps
<1>4. ASSUME NEW m \in Msg, Confirm(m) \/ Reject(m), UNCHANGED risk
      PROVE  PendingTypeOK' /\ DialogueTypeOK'
  <2>1. rows' \in Seq(Row) /\ Len(rows') = Len(rows)
    BY <1>4, ResolveType DEF Confirm, Reject, DialogueTypeOK
  <2>2. step' \in [Msg -> Steps]
    BY <1>4 DEF Confirm, Reject, To, DialogueTypeOK, Steps
  <2> QED BY <1>4, <2>1, <2>2 DEF PendingTypeOK, DialogueTypeOK, Confirm, Reject
<1>5. CASE ApiDies /\ UNCHANGED pendingVars
  <2>1. strikes' \in 0..MaxStrikes
    BY <1>5, StrikeType DEF ApiDies, DialogueTypeOK
  <2> QED BY <1>1, <1>5, <2>1 DEF PendingTypeOK, DialogueTypeOK, ApiDies, Steps
<1>6. CASE HalfAnHour
  <2>1. strikes' \in 0..MaxStrikes
    BY <1>6, StrikeType DEF HalfAnHour, DialogueTypeOK
  <2>2. rows' \in Seq(Row) /\ Len(rows') = Len(rows)
    BY <1>6, ExpiryType DEF HalfAnHour
  <2> QED BY <1>1, <1>6, <2>1, <2>2 DEF PendingTypeOK, DialogueTypeOK, HalfAnHour
<1>7. ASSUME NEW m \in Msg, TaskFails(m), UNCHANGED pendingVars
      PROVE  PendingTypeOK' /\ DialogueTypeOK'
  <2>1. strikes' \in 0..MaxStrikes
    BY <1>7, StrikeType DEF TaskFails, DialogueTypeOK
  <2> QED BY <1>7, <2>1 DEF PendingTypeOK, DialogueTypeOK, TaskFails, To, Steps
<1> QED BY <1>1, <1>2, <1>3, <1>4, <1>5, <1>6, <1>7 DEF DialogueNext, Answering

(* Sequences of calls: the first is taken, the others remain. *)
LEMMA TailType ==
  ASSUME NEW S, NEW s \in Seq(S), Len(s) # 0
  PROVE  Head(s) \in S /\ Tail(s) \in Seq(S) /\ Len(Tail(s)) = Len(s) - 1
OBVIOUS

(* A dispatch that is at a call has one to make, and is offered what is    *)
(* there and what its user's agents add.                                   *)
Mine(m) == Builtin \cup DOMAIN AgentRisk[owner[m]]

TurnInv ==
  \A m \in Msg : /\ turn[m].tools \subseteq Mine(m)
                 /\ turn[m].calls \in Seq(Mine(m))
                 /\ job[m] = "calling" => Len(turn[m].calls) # 0

SessionRow == [user : Owner, open : BOOLEAN, last : Nat]

LEMMA SessionTypes ==
  ASSUME SessionsTypeOK, NEW u \in User, NEW s \in 0..Len(sess),
         AbandonStale(u) \/ UpsertSession(u, s) \/ (s # 0 /\ CompleteSession(s))
  PROVE  SessionsTypeOK' /\ Len(sess) <= Len(sess')
<1>0. sess \in Seq(SessionRow) /\ Len(sess) \in Nat /\ DOMAIN sess = 1..Len(sess)
  BY DEF SessionsTypeOK, SessionRow
<1>1. CASE AbandonStale(u)
  <2>1. DOMAIN sess' = DOMAIN sess /\ sess' = [q \in DOMAIN sess |-> sess'[q]]
    BY <1>1 DEF AbandonStale
  <2>2. ASSUME NEW q \in DOMAIN sess PROVE sess'[q] \in SessionRow
    <3>1. sess[q] \in SessionRow
      BY <1>0, RowOf
    <3>2. [sess[q] EXCEPT !.open = FALSE] \in SessionRow
      BY <3>1 DEF SessionRow
    <3> QED BY <1>1, <3>1, <3>2 DEF AbandonStale
  <2>3. \A q \in DOMAIN sess : sess'[q] \in SessionRow
    BY <2>2
  <2>4. sess' \in Seq(SessionRow) /\ Len(sess') = Len(sess)
    BY <1>0, <2>1, <2>3, RowsMapped
  <2> QED BY <1>0, <1>1, <2>4 DEF AbandonStale, SessionsTypeOK, SessionRow
<1>2. CASE UpsertSession(u, s)
  <2> DEFINE row == [user |-> u, open |-> TRUE, last |-> now + 1]
  <2>1. row \in SessionRow
    BY DEF SessionsTypeOK, SessionRow
  <2>2. CASE s = 0
    <3>1. sess' = Append(sess, row)
      BY <1>2, <2>2 DEF UpsertSession
    <3>2. sess' \in Seq(SessionRow) /\ Len(sess') = Len(sess) + 1
      BY <1>0, <2>1, <3>1
    <3>3. now' \in Nat /\ horizon' \in Nat
      BY <1>2 DEF UpsertSession, SessionsTypeOK
    <3> QED BY <1>0, <3>2, <3>3 DEF SessionsTypeOK, SessionRow
  <2>3. CASE s # 0
    <3>1. sess' = [sess EXCEPT ![s] = row] /\ s \in DOMAIN sess
      BY <1>0, <1>2, <2>3 DEF UpsertSession
    <3>2. sess' \in Seq(SessionRow) /\ Len(sess') = Len(sess)
      BY <1>0, <2>1, <3>1, RowSet
    <3>3. now' \in Nat /\ horizon' \in Nat
      BY <1>2 DEF UpsertSession, SessionsTypeOK
    <3> QED BY <1>0, <3>2, <3>3 DEF SessionsTypeOK, SessionRow
  <2> QED BY <2>2, <2>3
<1>3. CASE s # 0 /\ CompleteSession(s)
  <2>0. s \in DOMAIN sess
    BY <1>0, <1>3
  <2>1. s \in DOMAIN sess /\ sess[s] \in SessionRow
    BY <1>0, <2>0, RowOf
  <2>2. [sess[s] EXCEPT !.open = FALSE] \in SessionRow
    BY <2>1 DEF SessionRow
  <2>3. sess' = [sess EXCEPT ![s] = [sess[s] EXCEPT !.open = FALSE]]
    BY <1>3 DEF CompleteSession
  <2>4. sess' \in Seq(SessionRow) /\ Len(sess') = Len(sess)
    BY <1>0, <2>1, <2>2, <2>3, RowSet
  <2> QED BY <1>0, <1>3, <2>4 DEF CompleteSession, SessionsTypeOK, SessionRow
<1> QED BY <1>1, <1>2, <1>3

LEMMA CreateType ==
  ASSUME PendingTypeOK, NEW u \in User, NEW t \in Tool, CreatePendingAction(u, t)
  PROVE  /\ rows' \in Seq(Row)
         /\ Len(rows') = Len(rows) + 1
         /\ \A r \in DOMAIN rows : r \in DOMAIN rows' /\ rows'[r] = rows[r]
         /\ \A r \in DOMAIN rows' : rows'[r].status # "pending" => r \in DOMAIN rows
<1> DEFINE row == [user |-> u, tool |-> t, status |-> "pending"]
<1>1. row \in Row /\ row.status = "pending"
  BY DEF Row
<1>2. rows \in Seq(Row) /\ rows' = Append(rows, row)
  BY DEF PendingTypeOK, CreatePendingAction
<1> QED BY <1>1, <1>2

(* Mine is what the tool type allows. *)
LEMMA MineType ==
  ASSUME TypeOK, NEW m \in Msg
  PROVE  /\ Mine(m) \subseteq Tool
         /\ Offered(m) \subseteq Mine(m)
         /\ \A s : s \in Seq(Mine(m)) => s \in Seq(Tool)
<1>1. owner[m] \in User
  BY DEF TypeOK, DialogueTypeOK
<1>2. Mine(m) \subseteq Tool
  BY <1>1 DEF Mine, Tool, Custom
<1>3. Offered(m) \subseteq Mine(m)
  BY DEF Mine, Offered
<1> QED BY <1>2, <1>3

Turn == [session : Nat, round : 0..MAX_TOOL_ROUNDS, calls : Seq(Tool),
         tools : SUBSET Tool, used : BOOLEAN]

TurnTypes == turn \in [Msg -> Turn] /\ \A m \in Msg : turn[m].session \in 0..Len(sess)

(* Only m's dispatch changes, and the table of sessions does not shrink. *)
LEMMA OneTurn ==
  ASSUME TypeOK, NEW m \in Msg, Len(sess) <= Len(sess'), SessionsTypeOK',
         NEW e \in Turn, e.session \in 0..Len(sess'), turn' = [turn EXCEPT ![m] = e]
  PROVE  TurnTypes'
<1>1. turn \in [Msg -> Turn] /\ Len(sess) \in Nat /\ Len(sess') \in Nat
  BY DEF TypeOK, ManagerTypeOK, Turn, SessionsTypeOK
<1>2. turn' \in [Msg -> Turn]
  BY <1>1
<1>3. ASSUME NEW n \in Msg PROVE turn'[n].session \in 0..Len(sess')
  <2>1. turn[n].session \in 0..Len(sess)
    BY DEF TypeOK, ManagerTypeOK
  <2> QED BY <1>1, <2>1
<1> QED BY <1>2, <1>3 DEF TurnTypes

LEMMA NoTurnType == NoTurn \in Turn /\ NoTurn.session = 0 /\ NoTurn.calls = <<>> /\ NoTurn.tools = {}
BY DEF NoTurn, Turn

(* What a step of m does to its turn. *)
LEMMA TurnAfter ==
  ASSUME TypeOK, TurnInv, NEW m \in Msg, JobStep(m)
  PROVE  /\ SessionsTypeOK' /\ Len(sess) <= Len(sess')
         /\ TurnTypes'
         /\ turn'[m].tools \subseteq Mine(m) /\ turn'[m].calls \in Seq(Mine(m))
         /\ job'[m] = "calling" => Len(turn'[m].calls) # 0
         /\ \A n \in Msg : n # m => turn'[n] = turn[n] /\ job'[n] = job[n]
         /\ job' \in [Msg -> Jobs]
<1>0. /\ turn \in [Msg -> Turn] /\ turn[m] \in Turn /\ turn[m].session \in 0..Len(sess)
      /\ SessionsTypeOK /\ Len(sess) \in Nat /\ owner[m] \in User /\ job \in [Msg -> Jobs]
      /\ turn[m].tools \subseteq Mine(m) /\ turn[m].calls \in Seq(Mine(m))
      /\ turn[m].tools \subseteq Tool /\ turn[m].calls \in Seq(Tool)
      /\ turn[m].round \in 0..MAX_TOOL_ROUNDS
      /\ job[m] = "calling" => Len(turn[m].calls) # 0
  BY DEF TypeOK, ManagerTypeOK, DialogueTypeOK, SessionsTypeOK, Turn, TurnInv
<1>1. CASE ServeConfirmed(m) \/ OtherHandler(m) \/ Acknowledge(m)
  <2>1. UNCHANGED <<sess, now, horizon, turn>> /\ job'[m] # "calling"
    BY <1>0, <1>1 DEF ServeConfirmed, OtherHandler, Acknowledge, JobTo
  <2>2. SessionsTypeOK' /\ TurnTypes'
    BY <1>0, <2>1 DEF SessionsTypeOK, TurnTypes, TypeOK, ManagerTypeOK, Turn
  <2>3. job' \in [Msg -> Jobs] /\ \A n \in Msg : n # m => job'[n] = job[n]
    BY <1>0, <1>1 DEF ServeConfirmed, OtherHandler, Acknowledge, JobTo, Jobs
  <2> QED BY <1>0, <2>1, <2>2, <2>3
<1>2. CASE LookUpSession(m)
  <2>1. PICK s \in 0..Len(sess) : turn' = [turn EXCEPT ![m] = [NoTurn EXCEPT !.session = s]]
    BY <1>2 DEF LookUpSession
  <2>2. SessionsTypeOK' /\ Len(sess) <= Len(sess')
    BY <1>0, <1>2, SessionTypes, 0 \in 0..Len(sess) DEF LookUpSession
  <2> DEFINE e == [NoTurn EXCEPT !.session = s]
  <2>3. e \in Turn /\ e.session = s /\ e.calls = <<>> /\ e.tools = {}
    <3>1. s \in Nat
      BY <1>0
    <3>2. NoTurn \in Turn /\ NoTurn.calls = <<>> /\ NoTurn.tools = {}
      BY NoTurnType
    <3> QED BY <3>1, <3>2 DEF Turn
  <2>4. s \in 0..Len(sess')
    BY <1>0, <2>2 DEF SessionsTypeOK
  <2> HIDE DEF e
  <2>5. TurnTypes'
    BY <2>1, <2>2, <2>3, <2>4, OneTurn DEF e
  <2>6. job' \in [Msg -> Jobs] /\ job'[m] = "looked" /\ \A n \in Msg : n # m => job'[n] = job[n]
    BY <1>0, <1>2 DEF LookUpSession, JobTo, Jobs
  <2>7. turn'[m] = e /\ \A n \in Msg : n # m => turn'[n] = turn[n]
    BY <1>0, <2>1 DEF e
  <2>8. <<>> \in Seq(Mine(m))
    OBVIOUS
  <2> QED BY <2>2, <2>3, <2>5, <2>6, <2>7, <2>8
<1>3. CASE Prepare(m)
  <2>1. PICK s \in {turn[m].session, 0} :
             turn' = [turn EXCEPT ![m] = [turn[m] EXCEPT !.tools = Offered(m), !.session = s]]
    BY <1>0, <1>3 DEF Prepare, Turn
  <2>2. SessionsTypeOK' /\ Len(sess) <= Len(sess')
    <3>1. CASE UNCHANGED sessionVars
      BY <1>0, <3>1 DEF SessionsTypeOK
    <3>2. CASE turn[m].session # 0 /\ CompleteSession(turn[m].session)
      BY <1>0, <3>2, SessionTypes
    <3> QED BY <1>3, <3>1, <3>2 DEF Prepare
  <2> DEFINE e == [turn[m] EXCEPT !.tools = Offered(m), !.session = s]
  <2>3. e \in Turn /\ e.session = s /\ e.calls = turn[m].calls /\ e.tools = Offered(m)
    <3>1. s \in Nat /\ Offered(m) \subseteq Tool
      BY <1>0, MineType DEF Turn
    <3> QED BY <1>0, <3>1 DEF Turn
  <2>4. s \in 0..Len(sess')
    BY <1>0, <2>2 DEF SessionsTypeOK
  <2> HIDE DEF e
  <2>5. TurnTypes'
    BY <2>1, <2>2, <2>3, <2>4, OneTurn DEF e
  <2>6. job' \in [Msg -> Jobs] /\ job'[m] = "thinking" /\ \A n \in Msg : n # m => job'[n] = job[n]
    BY <1>0, <1>3 DEF Prepare, JobTo, Jobs
  <2>7. turn'[m] = e /\ \A n \in Msg : n # m => turn'[n] = turn[n]
    BY <1>0, <2>1 DEF e
  <2> QED BY <1>0, <2>2, <2>3, <2>5, <2>6, <2>7, MineType
<1>4. CASE ModelCalls(m)
  <2>0. PICK n \in 1..MaxCalls : \E cs \in [1..n -> turn[m].tools] :
             turn' = [turn EXCEPT ![m].calls = cs, ![m].round = @ + 1, ![m].used = TRUE]
    BY <1>4 DEF ModelCalls
  <2>1. PICK cs \in [1..n -> turn[m].tools] :
             turn' = [turn EXCEPT ![m].calls = cs, ![m].round = @ + 1, ![m].used = TRUE]
    BY <2>0
  <2> DEFINE e == [turn[m] EXCEPT !.calls = cs, !.round = turn[m].round + 1, !.used = TRUE]
  <2>2. turn' = [turn EXCEPT ![m] = e]
    BY <1>0, <2>1 DEF Turn
  <2>3. cs \in Seq(turn[m].tools) /\ Len(cs) = n /\ n # 0
    OBVIOUS
  <2>4. cs \in Seq(Tool) /\ cs \in Seq(Mine(m))
    BY <1>0, <2>3
  <2>5. turn[m].round + 1 \in 0..MAX_TOOL_ROUNDS
    BY <1>0, <1>4 DEF ModelCalls
  <2>6. e \in Turn /\ e.session = turn[m].session /\ e.calls = cs /\ e.tools = turn[m].tools
    BY <1>0, <2>4, <2>5 DEF Turn
  <2> HIDE DEF e
  <2>7. UNCHANGED sessionVars
    BY <1>4 DEF ModelCalls
  <2>8. SessionsTypeOK' /\ Len(sess) <= Len(sess') /\ e.session \in 0..Len(sess')
    BY <1>0, <2>6, <2>7 DEF SessionsTypeOK
  <2>9. TurnTypes'
    BY <2>2, <2>6, <2>8, OneTurn
  <2>10. job' \in [Msg -> Jobs] /\ \A k \in Msg : k # m => job'[k] = job[k]
    BY <1>0, <1>4 DEF ModelCalls, JobTo, Jobs
  <2>11. turn'[m] = e /\ \A k \in Msg : k # m => turn'[k] = turn[k]
    BY <1>0, <2>2
  <2> QED BY <1>0, <2>3, <2>4, <2>6, <2>8, <2>9, <2>10, <2>11
<1>5. CASE CallTool(m)
  <2>1. PICK T \in SUBSET turn[m].tools :
             turn' = [turn EXCEPT ![m] = [turn[m] EXCEPT !.tools = T, !.calls = Tail(turn[m].calls)]]
    <3>1. PICK outcome \in {"ok", "retryable", "unavailable"} :
             turn' = [turn EXCEPT ![m].tools = Remaining(@, Head(turn[m].calls), outcome),
                                  ![m].calls = Tail(@)]
      BY <1>5 DEF CallTool
    <3>2. Remaining(turn[m].tools, Head(turn[m].calls), outcome) \subseteq turn[m].tools
      BY DEF Remaining
    <3> QED BY <1>0, <3>1, <3>2 DEF Turn
  <2> DEFINE e == [turn[m] EXCEPT !.tools = T, !.calls = Tail(turn[m].calls)]
  <2>2. Len(turn[m].calls) # 0
    BY <1>0, <1>5 DEF CallTool
  <2>3. /\ Tail(turn[m].calls) \in Seq(Tool) /\ Tail(turn[m].calls) \in Seq(Mine(m))
        /\ Len(turn[m].calls) # 1 => Len(Tail(turn[m].calls)) # 0
    BY <1>0, <2>2, TailType
  <2>4. e \in Turn /\ e.session = turn[m].session /\ e.calls = Tail(turn[m].calls) /\ e.tools = T
    BY <1>0, <2>3 DEF Turn
  <2> HIDE DEF e
  <2>5. UNCHANGED sessionVars
    BY <1>5 DEF CallTool
  <2>6. SessionsTypeOK' /\ Len(sess) <= Len(sess') /\ e.session \in 0..Len(sess')
    BY <1>0, <2>4, <2>5 DEF SessionsTypeOK
  <2>7. TurnTypes'
    BY <2>1, <2>4, <2>6, OneTurn DEF e
  <2>8. /\ job' \in [Msg -> Jobs] /\ \A k \in Msg : k # m => job'[k] = job[k]
        /\ job'[m] = "calling" => Len(turn[m].calls) # 1
    BY <1>0, <1>5 DEF CallTool, JobTo, Jobs
  <2>9. turn'[m] = e /\ \A k \in Msg : k # m => turn'[k] = turn[k]
    BY <1>0, <2>1 DEF e
  <2> QED BY <1>0, <2>3, <2>4, <2>6, <2>7, <2>8, <2>9
<1>6. CASE Propose(m) \/ Answer(m) \/ GiveUp(m)
  <2>1. turn' = [turn EXCEPT ![m] = NoTurn] /\ job' = [job EXCEPT ![m] = "answered"]
    BY <1>6 DEF Propose, Answer, GiveUp, Return, JobTo
  <2>2. SessionsTypeOK' /\ Len(sess) <= Len(sess')
    <3>1. CASE UNCHANGED sessionVars
      BY <1>0, <3>1 DEF SessionsTypeOK
    <3>2. CASE turn[m].session # 0 /\ CompleteSession(turn[m].session)
      BY <1>0, <3>2, SessionTypes
    <3>3. CASE UpsertSession(owner[m], turn[m].session)
      BY <1>0, <3>3, SessionTypes
    <3> QED BY <1>6, <3>1, <3>2, <3>3 DEF Propose, Answer, GiveUp
  <2>3. NoTurn.session \in 0..Len(sess')
    BY <2>2, NoTurnType DEF SessionsTypeOK
  <2>4. TurnTypes'
    BY <2>1, <2>2, <2>3, OneTurn, NoTurnType
  <2>5. job' \in [Msg -> Jobs] /\ job'[m] # "calling" /\ \A k \in Msg : k # m => job'[k] = job[k]
    BY <1>0, <2>1 DEF Jobs
  <2>6. turn'[m] = NoTurn /\ \A k \in Msg : k # m => turn'[k] = turn[k]
    BY <1>0, <2>1
  <2>7. <<>> \in Seq(Mine(m))
    OBVIOUS
  <2> QED BY <2>2, <2>4, <2>5, <2>6, <2>7, NoTurnType
<1> QED BY <1>1, <1>2, <1>3, <1>4, <1>5, <1>6 DEF JobStep

(* Executions are counted, tools executed are recorded with their user. *)
LEMMA HistoryTypes ==
  ASSUME TypeOK, TurnInv, NEW m \in Msg, JobStep(m)
  PROVE  /\ ran' \in [Msg -> Nat]
         /\ unconfirmed' \subseteq User \X Tool
         /\ overlapped' \subseteq User
         /\ strikes' \in 0..MaxStrikes
         /\ UNCHANGED <<text, owner, step, target, welcomed>>
<1>0. owner[m] \in User /\ ran \in [Msg -> Nat] /\ overlapped \subseteq User
      /\ unconfirmed \subseteq User \X Tool /\ strikes \in 0..MaxStrikes
  BY DEF TypeOK, ManagerTypeOK, DialogueTypeOK
<1>1. CASE ServeConfirmed(m)
  BY <1>0, <1>1 DEF ServeConfirmed
<1>2. CASE OtherHandler(m) \/ Prepare(m) \/ ModelCalls(m) \/ Propose(m) \/ Answer(m) \/ Acknowledge(m)
  BY <1>0, <1>2 DEF OtherHandler, Prepare, ModelCalls, Propose, Answer, Acknowledge
<1>3. CASE LookUpSession(m)
  BY <1>0, <1>3 DEF LookUpSession
<1>4. CASE CallTool(m)
  <2>1. Head(turn[m].calls) \in Mine(m)
    BY <1>4, TailType DEF CallTool, TurnInv
  <2>2. Head(turn[m].calls) \in Tool
    BY <2>1, MineType
  <2> QED BY <1>0, <1>4, <2>2 DEF CallTool
<1>5. CASE GiveUp(m)
  BY <1>0, <1>5, StrikeType DEF GiveUp
<1> QED BY <1>1, <1>2, <1>3, <1>4, <1>5 DEF JobStep

LEMMA PendingTypes ==
  ASSUME TypeOK, TurnInv, NEW m \in Msg, JobStep(m)
  PROVE  /\ PendingTypeOK' /\ Len(rows) <= Len(rows')
<1>0. owner[m] \in User /\ PendingTypeOK /\ Len(rows) \in Nat
  BY DEF TypeOK, DialogueTypeOK, PendingTypeOK
<1>1. CASE Propose(m)
  <2>1. Head(turn[m].calls) \in Mine(m)
    BY <1>1, TailType DEF Propose, TurnInv
  <2>2. Head(turn[m].calls) \in Tool
    BY <2>1, MineType
  <2>3. rows' \in Seq(Row) /\ Len(rows') = Len(rows) + 1
    BY <1>0, <1>1, <2>2, CreateType DEF Propose
  <2> QED BY <1>0, <1>1, <2>3 DEF Propose, PendingTypeOK
<1>2. CASE Prepare(m)
  <2>1. risk' \in [Tool -> Risk]
    BY <1>0, <1>2, RegisterType DEF Prepare
  <2> QED BY <1>0, <1>2, <2>1 DEF Prepare, PendingTypeOK
<1>3. CASE \/ ServeConfirmed(m) \/ OtherHandler(m) \/ LookUpSession(m) \/ ModelCalls(m)
           \/ CallTool(m) \/ Answer(m) \/ GiveUp(m) \/ Acknowledge(m)
  <2>1. UNCHANGED pendingVars
    BY <1>3 DEF ServeConfirmed, OtherHandler, LookUpSession, ModelCalls, CallTool, Answer, GiveUp, Acknowledge
  <2> QED BY <1>0, <2>1 DEF PendingTypeOK
<1> QED BY <1>1, <1>2, <1>3 DEF JobStep

TypeInv == TypeOK /\ TurnInv

LEMMA JobTypes ==
  ASSUME TypeInv, NEW m \in Msg, JobStep(m)
  PROVE  TypeInv'
<1> USE DEF TypeInv
<1>1. PendingTypeOK' /\ Len(rows) <= Len(rows') /\ Len(rows) \in Nat /\ Len(rows') \in Nat
  BY PendingTypes DEF TypeOK, PendingTypeOK
<1>2. DialogueTypeOK'
  BY <1>1, HistoryTypes, TurnAfter DEF TypeOK, DialogueTypeOK
<1>3. ManagerTypeOK'
  BY HistoryTypes, TurnAfter DEF ManagerTypeOK, TurnTypes, Turn
<1>4. ASSUME NEW n \in Msg
      PROVE  /\ turn'[n].tools \subseteq Mine(n)' /\ turn'[n].calls \in Seq(Mine(n)')
             /\ job'[n] = "calling" => Len(turn'[n].calls) # 0
  <2>1. Mine(n)' = Mine(n)
    BY HistoryTypes DEF Mine
  <2> QED BY <2>1, TurnAfter DEF TurnInv
<1> QED BY <1>1, <1>2, <1>3, <1>4 DEF TypeOK, TurnInv

LEMMA ManagerTypes ==
  ASSUME TypeInv, ManagerNext
  PROVE  TypeInv'
<1>1. CASE WorkerDies
  <2>1. PendingTypeOK'
    BY <1>1, RiskTypes DEF WorkerDies, TypeInv, TypeOK, PendingTypeOK
  <2>2. DialogueTypeOK'
    <3>1. strikes' \in 0..MaxStrikes
      BY <1>1, StrikeType DEF WorkerDies, TypeInv, TypeOK, DialogueTypeOK
    <3> QED BY <1>1, <3>1 DEF WorkerDies, TypeInv, TypeOK, DialogueTypeOK, Jobs
  <2>3. ManagerTypeOK'
    BY <1>1, NoTurnType DEF WorkerDies, TypeInv, TypeOK, ManagerTypeOK, SessionsTypeOK, Turn
  <2>4. TurnInv'
    <3>1. ASSUME NEW n \in Msg
          PROVE  turn'[n] = NoTurn /\ job'[n] # "calling" /\ <<>> \in Seq(Mine(n)')
      BY <1>1 DEF WorkerDies, TypeInv, TypeOK, DialogueTypeOK, Jobs
    <3> QED BY <3>1, NoTurnType DEF TurnInv
  <2> QED BY <2>1, <2>2, <2>3, <2>4 DEF TypeInv, TypeOK
<1>2. CASE Overnight
  <2>1. strikes' \in 0..MaxStrikes
    BY <1>2, StrikeType DEF Overnight, TypeInv, TypeOK, DialogueTypeOK
  <2>2. TypeOK'
    BY <1>2, <2>1 DEF Overnight, DayPasses, TypeInv, TypeOK, PendingTypeOK, DialogueTypeOK,
                      ManagerTypeOK, SessionsTypeOK
  <2>3. TurnInv'
    BY <1>2 DEF Overnight, TypeInv, TurnInv, Mine
  <2> QED BY <2>2, <2>3 DEF TypeInv
<1> QED BY <1>1, <1>2, JobTypes DEF ManagerNext

LEMMA InitTurnInv == Init => TurnInv
<1> SUFFICES ASSUME Init, NEW m \in Msg
             PROVE  turn[m] = NoTurn /\ job[m] # "calling" /\ <<>> \in Seq(Mine(m))
  BY NoTurnType DEF TurnInv
<1> QED BY DEF Init, DialogueInit, ManagerInit

LEMMA DialogueTurns ==
  ASSUME TypeInv, DialogueNext, UNCHANGED managerVars
  PROVE  TurnInv'
<1>1. \A m \in Msg : job'[m] = "calling" => job[m] = "calling"
  BY DEF TypeInv, TypeOK, DialogueTypeOK, DialogueNext, Answering, Receive, AnswerDirectly, FindPending,
         QueueJob, PushConfirmed, Requeue, Confirm, Reject, ApiDies, TaskFails, HalfAnHour, JobTo
<1>2. UNCHANGED <<owner, turn>>
  BY DEF DialogueNext, Answering, Receive, AnswerDirectly, FindPending,
         QueueJob, PushConfirmed, Requeue, Confirm, Reject, ApiDies, TaskFails, HalfAnHour
<1> QED BY <1>1, <1>2 DEF TypeInv, TurnInv, Mine

LEMMA NextTypes == TypeInv /\ [Next]_vars => TypeInv'
<1> SUFFICES ASSUME TypeInv, [Next]_vars PROVE TypeInv'
  OBVIOUS
<1>1. CASE DialogueNext /\ UNCHANGED managerVars
  BY <1>1, DialogueTypes, DialogueTurns DEF TypeInv
<1>2. CASE ManagerNext
  BY <1>2, ManagerTypes
<1>3. CASE UNCHANGED vars
  BY <1>3 DEF vars, TypeInv, TypeOK, PendingTypeOK, DialogueTypeOK, ManagerTypeOK, SessionsTypeOK, TurnInv, Mine
<1> QED BY <1>1, <1>2, <1>3 DEF Next

LEMMA TypeInvariant == Spec => []TypeInv
<1>1. Init => TypeInv
  BY InitTypeOK, InitTurnInv DEF TypeInv
<1> QED BY <1>1, NextTypes, PTL DEF Spec

(* Every variable keeps to its type: targets and sessions are rows of      *)
(* their tables, and the rounds of tool calls never pass their limit.      *)
(* (manager_dispatch and the pipeline.)                                    *)
THEOREM TypeCorrect == Spec => []TypeOK
BY TypeInvariant, PTL DEF TypeInv

------------------------------------------------------------------------------
(* The course of an answer: matched with a row once, and queued once, with *)
(* a yes; a job with a target is never a dispatch.                         *)

Course ==
  \A m \in Msg :
    /\ step[m] \in {"idle", "stored"} => target[m] = 0 /\ job[m] = "none"
    /\ step[m] \in {"resolve", "push", "lost"} => target[m] # 0 /\ job[m] = "none"
    /\ step[m] \in {"push", "lost"} => text[m] = "yes"
    /\ target[m] # 0 /\ job[m] # "none" => text[m] = "yes" /\ ~ InDispatch(m)

LEMMA InitCourse == Init => Course
BY DEF Init, DialogueInit, Course

LEMMA DialogueCourse ==
  ASSUME TypeInv, Course, DialogueNext
  PROVE  Course'
<1>0. /\ step \in [Msg -> Steps] /\ job \in [Msg -> Jobs] /\ target \in [Msg -> Nat]
      /\ text \in [Msg -> {"none", "yes", "no", "say", "scheduled", "coaching"}]
  BY DEF TypeInv, TypeOK, DialogueTypeOK, Requeued
<1> USE DEF Course, To, JobTo, InDispatch
<1>1. ASSUME NEW m \in Msg, Receive(m) PROVE Course'
  BY <1>0, <1>1 DEF Receive
<1>2. ASSUME NEW m \in Msg, AnswerDirectly(m) PROVE Course'
  BY <1>0, <1>2 DEF AnswerDirectly
<1>3. ASSUME NEW m \in Msg, FindPending(m) PROVE Course'
  <2>1. PICK r \in Candidates(owner[m]) : target' = [target EXCEPT ![m] = r]
    BY <1>3 DEF FindPending
  <2>2. r # 0
    BY CandidateType DEF TypeInv, TypeOK
  <2> QED BY <1>0, <1>3, <2>1, <2>2 DEF FindPending
<1>4. ASSUME NEW m \in Msg, QueueJob(m) PROVE Course'
  BY <1>0, <1>4 DEF QueueJob
<1>5. ASSUME NEW m \in Msg, PushConfirmed(m) PROVE Course'
  BY <1>0, <1>5 DEF PushConfirmed
<1>6. ASSUME NEW m \in Msg, Requeue(m) PROVE Course'
  BY <1>0, <1>6 DEF Requeue
<1>7. ASSUME NEW m \in Msg, Confirm(m) PROVE Course'
  BY <1>0, <1>7 DEF Confirm
<1>8. ASSUME NEW m \in Msg, Reject(m) PROVE Course'
  BY <1>0, <1>8 DEF Reject
<1>9. CASE ApiDies
  BY <1>0, <1>9 DEF ApiDies
<1>10. CASE HalfAnHour
  BY <1>0, <1>10 DEF HalfAnHour
<1>11. ASSUME NEW m \in Msg, TaskFails(m) PROVE Course'
  BY <1>0, <1>11 DEF TaskFails
<1> QED
  BY <1>1, <1>2, <1>3, <1>4, <1>5, <1>6, <1>7, <1>8, <1>9, <1>10, <1>11 DEF DialogueNext, Answering

(* What a step of a job can do to its own phase; with a target there are   *)
(* only two such steps.                                                    *)
LEMMA JobPhases ==
  ASSUME TypeInv, Course, NEW m \in Msg, JobStep(m)
  PROVE  /\ job[m] # "none" /\ job'[m] # "none"
         /\ \A n \in Msg : n # m => job'[n] = job[n]
         /\ target[m] # 0 => \/ job[m] = "queued" /\ job'[m] = "answered" /\ ServeConfirmed(m)
                             \/ job[m] = "answered" /\ job'[m] = "done" /\ ran' = ran
         /\ target[m] = 0 => ran' = ran
         /\ UNCHANGED <<text, owner, step, target, welcomed>>
<1>0. job \in [Msg -> Jobs] /\ (target[m] # 0 /\ job[m] # "none" => ~ InDispatch(m))
  BY DEF TypeInv, TypeOK, DialogueTypeOK, Course
<1>1. UNCHANGED <<text, owner, step, target, welcomed>>
  BY HistoryTypes DEF TypeInv
<1> USE DEF JobTo, InDispatch, Jobs
<1>2. CASE ServeConfirmed(m) \/ OtherHandler(m) \/ Acknowledge(m)
  BY <1>0, <1>1, <1>2 DEF ServeConfirmed, OtherHandler, Acknowledge
<1>3. CASE LookUpSession(m) \/ Prepare(m) \/ ModelCalls(m)
  BY <1>0, <1>1, <1>3 DEF LookUpSession, Prepare, ModelCalls
<1>4. CASE CallTool(m)
  BY <1>0, <1>1, <1>4 DEF CallTool
<1>5. CASE Propose(m) \/ Answer(m) \/ GiveUp(m)
  BY <1>0, <1>1, <1>5 DEF Propose, Answer, GiveUp, Return
<1> QED BY <1>2, <1>3, <1>4, <1>5 DEF JobStep

LEMMA ManagerCourse ==
  ASSUME TypeInv, Course, ManagerNext
  PROVE  Course'
<1>0. step \in [Msg -> Steps] /\ job \in [Msg -> Jobs]
  BY DEF TypeInv, TypeOK, DialogueTypeOK, Requeued
<1>1. ASSUME NEW m \in Msg, JobStep(m) PROVE Course'
  BY <1>0, <1>1, JobPhases DEF Course, InDispatch
<1>2. CASE WorkerDies
  BY <1>0, <1>2 DEF WorkerDies, Course, InDispatch
<1>3. CASE Overnight
  BY <1>3 DEF Overnight, Course, InDispatch
<1> QED BY <1>1, <1>2, <1>3 DEF ManagerNext

LEMMA NextCourse == TypeInv /\ Course /\ [Next]_vars => Course'
<1> SUFFICES ASSUME TypeInv, Course, [Next]_vars PROVE Course'
  OBVIOUS
<1>1. CASE UNCHANGED vars
  BY <1>1 DEF vars, Course, InDispatch
<1> QED BY <1>1, DialogueCourse, ManagerCourse DEF Next

LEMMA CourseInvariant == Spec => [](TypeInv /\ Course)
<1>1. Init => TypeInv /\ Course
  BY InitTypeOK, InitTurnInv, InitCourse DEF TypeInv
<1>2. TypeInv /\ Course /\ [Next]_vars => (TypeInv /\ Course)'
  BY NextTypes, NextCourse
<1> QED BY <1>1, <1>2, PTL DEF Spec

(* The worker only adds rows, and adds them pending. *)
RowsGrow ==
  /\ \A r \in DOMAIN rows : r \in DOMAIN rows' /\ rows'[r] = rows[r]
  /\ \A r \in DOMAIN rows' : rows'[r].status # "pending" => r \in DOMAIN rows

LEMMA ManagerRows ==
  ASSUME TypeInv, ManagerNext
  PROVE  RowsGrow
<1>1. ASSUME NEW m \in Msg, Propose(m) PROVE RowsGrow
  <2>1. Head(turn[m].calls) \in Mine(m)
    BY <1>1, TailType DEF Propose, TypeInv, TurnInv
  <2>2. Head(turn[m].calls) \in Tool /\ owner[m] \in User /\ PendingTypeOK
    BY <2>1, MineType DEF TypeInv, TypeOK, DialogueTypeOK
  <2> QED BY <1>1, <2>2, CreateType DEF Propose, RowsGrow
<1>2. ASSUME NEW m \in Msg, JobStep(m), ~ Propose(m) PROVE RowsGrow
  <2>1. rows' = rows
    BY <1>2 DEF JobStep, ServeConfirmed, OtherHandler, LookUpSession, Prepare, ModelCalls, CallTool,
                Answer, GiveUp, Acknowledge
  <2> QED BY <2>1 DEF RowsGrow
<1>3. CASE WorkerDies \/ Overnight
  BY <1>3 DEF WorkerDies, Overnight, RowsGrow
<1> QED BY <1>1, <1>2, <1>3 DEF ManagerNext

(* The API's steps: an answer changes the row it was matched with.         *)
LEMMA AnswerRow ==
  ASSUME TypeInv, Course, NEW m \in Msg, Confirm(m) \/ Reject(m)
  PROVE  /\ DOMAIN rows' = DOMAIN rows
         /\ \A r \in DOMAIN rows :
              /\ r # target[m] => rows'[r] = rows[r]
              /\ r = target[m] /\ Confirm(m) => rows'[r].status = "confirmed"
              /\ r = target[m] /\ Reject(m) => rows'[r].status = "rejected"
<1>1. \A r \in DOMAIN rows : rows[r] \in Row
  BY RowOf DEF TypeInv, TypeOK, PendingTypeOK
<1>2. ASSUME NEW s, ResolvePendingAction(target[m], s)
      PROVE  /\ DOMAIN rows' = DOMAIN rows
             /\ \A r \in DOMAIN rows : /\ r # target[m] => rows'[r] = rows[r]
                                       /\ r = target[m] => rows'[r].status = s
  BY <1>1, <1>2 DEF ResolvePendingAction, Row
<1>3. ~ (Confirm(m) /\ Reject(m))
  BY DEF Confirm, Reject
<1>4. CASE Confirm(m)
  BY <1>2, <1>3, <1>4 DEF Confirm
<1>5. CASE Reject(m)
  BY <1>2, <1>3, <1>5 DEF Reject
<1> QED BY <1>4, <1>5

(* Any other of its steps, or the clock, leaves rows that are settled.     *)
LEMMA OtherRow ==
  ASSUME TypeInv, DialogueNext, \A m \in Msg : ~ Confirm(m) /\ ~ Reject(m)
  PROVE  /\ DOMAIN rows' = DOMAIN rows
         /\ \A r \in DOMAIN rows :
              \/ rows'[r] = rows[r]
              \/ rows[r].status = "pending" /\ rows'[r].status = "lapsed"
<1>1. CASE UNCHANGED rows
  BY <1>1
<1>2. CASE HalfAnHour
  <2>1. PICK e \in DOMAIN rows : Expires(e)
    BY <1>2 DEF HalfAnHour
  <2>2. \A r \in DOMAIN rows : rows[r] \in Row
    BY RowOf DEF TypeInv, TypeOK, PendingTypeOK
  <2> QED BY <2>1, <2>2 DEF Expires, Row
<1> QED BY <1>1, <1>2 DEF DialogueNext, Answering

------------------------------------------------------------------------------
(* A confirmed action is served. *)

LEMMA DialogueServed ==
  ASSUME TypeInv, Course, ConfirmedIsServed, DialogueNext
  PROVE  ConfirmedIsServed'
<1>0. /\ step \in [Msg -> Steps] /\ job \in [Msg -> Jobs] /\ target \in [Msg -> Nat]
      /\ text \in [Msg -> {"none", "yes", "no", "say", "scheduled", "coaching"}]
  BY DEF TypeInv, TypeOK, DialogueTypeOK, Requeued
<1> DEFINE Served(m, r) == /\ text[m] = "yes" /\ target[m] = r
                           /\ step[m] \in {"push", "lost"} \/ job[m] # "none"
<1>1. ASSUME NEW m \in Msg, NEW r, Served(m, r), r # 0
      PROVE  Served(m, r)'
  <2>1. step[m] \in {"push", "lost"} \/ (step[m] = "gone" /\ job[m] # "none")
    BY <1>0, <1>1 DEF Course, Steps
  <2> USE DEF To, JobTo
  <2>2. ASSUME NEW n \in Msg, \/ Receive(n) \/ AnswerDirectly(n) \/ FindPending(n) \/ QueueJob(n)
                              \/ PushConfirmed(n)
        PROVE  Served(m, r)'
    BY <1>0, <1>1, <2>1, <2>2 DEF Receive, AnswerDirectly, FindPending, QueueJob, PushConfirmed
  <2>3. ASSUME NEW n \in Msg, Requeue(n) \/ Confirm(n) \/ Reject(n)
        PROVE  Served(m, r)'
    BY <1>0, <1>1, <2>1, <2>3 DEF Requeue, Confirm, Reject
  <2>4. CASE ApiDies \/ HalfAnHour \/ \E n \in Msg : TaskFails(n)
    BY <1>0, <1>1, <2>1, <2>4 DEF ApiDies, HalfAnHour, TaskFails
  <2> QED BY <2>2, <2>3, <2>4 DEF DialogueNext, Answering
<1> SUFFICES ASSUME NEW r \in DOMAIN rows', rows'[r].status = "confirmed"
             PROVE  \E m \in Msg : Served(m, r)'
  BY DEF ConfirmedIsServed
<1>2. DOMAIN rows \subseteq Nat \ {0}
  BY DEF TypeInv, TypeOK, PendingTypeOK
<1>3. ASSUME r \in DOMAIN rows, rows[r].status = "confirmed"
      PROVE  \E m \in Msg : Served(m, r)'
  BY <1>1, <1>2, <1>3 DEF ConfirmedIsServed
<1>4. CASE \E m \in Msg : Confirm(m) \/ Reject(m)
  <2>1. PICK m \in Msg : Confirm(m) \/ Reject(m)
    BY <1>4
  <2>2. r \in DOMAIN rows
    BY <2>1, AnswerRow
  <2>3. CASE r = target[m] /\ Confirm(m)
    <3>1. Served(m, r)'
      BY <1>0, <2>3 DEF Confirm, To
    <3> QED BY <3>1
  <2>4. CASE ~ (r = target[m] /\ Confirm(m))
    <3>1. rows[r].status = "confirmed"
      BY <2>1, <2>2, <2>4, AnswerRow
    <3> QED BY <1>3, <2>2, <3>1
  <2> QED BY <2>3, <2>4
<1>5. CASE \A m \in Msg : ~ Confirm(m) /\ ~ Reject(m)
  <2>1. r \in DOMAIN rows /\ rows[r].status = "confirmed"
    BY <1>5, OtherRow
  <2> QED BY <1>3, <2>1
<1> QED BY <1>4, <1>5

LEMMA ManagerServed ==
  ASSUME TypeInv, Course, ConfirmedIsServed, ManagerNext
  PROVE  ConfirmedIsServed'
<1>1. UNCHANGED <<text, target, step>> /\ \A m \in Msg : job[m] # "none" => job'[m] # "none"
  <2>1. ASSUME NEW m \in Msg, JobStep(m)
        PROVE  UNCHANGED <<text, target, step>> /\ \A n \in Msg : job[n] # "none" => job'[n] # "none"
    BY <2>1, JobPhases
  <2>2. CASE WorkerDies \/ Overnight
    BY <2>2 DEF WorkerDies, Overnight
  <2> QED BY <2>1, <2>2 DEF ManagerNext
<1>2. ASSUME NEW r \in DOMAIN rows', rows'[r].status = "confirmed"
      PROVE  r \in DOMAIN rows /\ rows[r].status = "confirmed"
  BY <1>2, ManagerRows DEF RowsGrow
<1> QED BY <1>1, <1>2 DEF ConfirmedIsServed

(* A recorded yes has a job, or the API still means to queue one, or died  *)
(* or failed after the commit and before the push: however answers,        *)
(* expiries, deaths and reruns interleave.  (pipeline.py:189-197.)         *)
THEOREM YesIsNotLost == Spec => []ConfirmedIsServed
<1>1. Init => ConfirmedIsServed
  BY DEF Init, PendingInit, ConfirmedIsServed
<1>2. TypeInv /\ Course /\ ConfirmedIsServed /\ [Next]_vars => ConfirmedIsServed'
  <2> SUFFICES ASSUME TypeInv, Course, ConfirmedIsServed, [Next]_vars PROVE ConfirmedIsServed'
    OBVIOUS
  <2>1. CASE UNCHANGED vars
    BY <2>1 DEF vars, ConfirmedIsServed
  <2> QED BY <2>1, DialogueServed, ManagerServed DEF Next
<1> QED BY <1>1, <1>2, CourseInvariant, PTL DEF Spec

------------------------------------------------------------------------------
(* A rejection stays. *)

Stuck(r) ==
  /\ rows'[r].status = "rejected"
  /\ ~ YesUnderWay(r)'
  /\ \A m \in Msg : target'[m] = r => ran'[m] = ran[m]

LEMMA RejectedInDialogue ==
  ASSUME TypeInv, Course, DialogueNext, UNCHANGED managerVars,
         NEW r \in DOMAIN rows, rows[r].status = "rejected", ~ YesUnderWay(r)
  PROVE  Stuck(r)
<1>0. /\ step \in [Msg -> Steps] /\ job \in [Msg -> Jobs] /\ target \in [Msg -> Nat]
      /\ text \in [Msg -> {"none", "yes", "no", "say", "scheduled", "coaching"}]
      /\ r # 0
  BY DEF TypeInv, TypeOK, DialogueTypeOK, PendingTypeOK, Requeued
<1>1. rows'[r].status = "rejected"
  <2>1. CASE \E m \in Msg : Confirm(m) \/ Reject(m)
    <3>1. PICK m \in Msg : Confirm(m) \/ Reject(m)
      BY <2>1
    <3>2. ~ (r = target[m] /\ Confirm(m))
      BY DEF YesUnderWay, Confirm
    <3> QED BY <3>1, <3>2, AnswerRow
  <2>2. CASE \A m \in Msg : ~ Confirm(m) /\ ~ Reject(m)
    BY <2>2, OtherRow
  <2> QED BY <2>1, <2>2
<1>2. ~ YesUnderWay(r)'
  <2> USE DEF To, JobTo, YesUnderWay
  <2>1. ASSUME NEW n \in Msg, \/ Receive(n) \/ AnswerDirectly(n) \/ QueueJob(n)
                              \/ PushConfirmed(n)
        PROVE  ~ YesUnderWay(r)'
    BY <1>0, <2>1 DEF Receive, AnswerDirectly, QueueJob, PushConfirmed, Course
  <2>2. ASSUME NEW n \in Msg, FindPending(n) PROVE ~ YesUnderWay(r)'
    <3>1. PICK q \in Candidates(owner[n]) : target' = [target EXCEPT ![n] = q]
      BY <2>2 DEF FindPending
    <3>2. q # r
      BY DEF Candidates
    <3> QED BY <1>0, <2>2, <3>1, <3>2 DEF FindPending, Course
  <2>3. ASSUME NEW n \in Msg, Requeue(n) \/ Confirm(n) \/ Reject(n)
        PROVE  ~ YesUnderWay(r)'
    BY <1>0, <2>3 DEF Requeue, Confirm, Reject, Course
  <2>4. CASE ApiDies \/ HalfAnHour \/ \E n \in Msg : TaskFails(n)
    BY <1>0, <2>4 DEF ApiDies, HalfAnHour, TaskFails
  <2> QED BY <2>1, <2>2, <2>3, <2>4 DEF DialogueNext, Answering
<1> QED BY <1>1, <1>2 DEF Stuck

LEMMA RejectedInManager ==
  ASSUME TypeInv, Course, ManagerNext,
         NEW r \in DOMAIN rows, rows[r].status = "rejected", ~ YesUnderWay(r)
  PROVE  Stuck(r)
<1>0. r # 0 /\ job \in [Msg -> Jobs]
  BY DEF TypeInv, TypeOK, PendingTypeOK, DialogueTypeOK
<1>1. rows'[r].status = "rejected"
  BY ManagerRows DEF RowsGrow
<1>2. \A m \in Msg : target[m] = r /\ job[m] # "none" => text[m] = "yes"
  BY <1>0 DEF Course
<1>3. ASSUME NEW m \in Msg, JobStep(m) PROVE Stuck(r)
  <2>1. target[m] # r
    BY <1>0, <1>2, <1>3, JobPhases DEF YesUnderWay
  <2>2. ~ YesUnderWay(r)'
    BY <1>3, <2>1, JobPhases DEF YesUnderWay
  <2>3. ASSUME NEW n \in Msg, target'[n] = r PROVE ran'[n] = ran[n]
    <3>1. n # m /\ target' = target
      BY <1>3, <2>1, <2>3, JobPhases
    <3>2. CASE ran' = ran
      BY <3>2
    <3>3. CASE ServeConfirmed(m)
      BY <3>1, <3>3 DEF ServeConfirmed, TypeInv, TypeOK, ManagerTypeOK
    <3> QED BY <1>3, <3>2, <3>3, JobPhases
  <2> QED BY <1>1, <2>2, <2>3 DEF Stuck
<1>4. CASE WorkerDies
  BY <1>0, <1>1, <1>4 DEF WorkerDies, Stuck, YesUnderWay, Course, InDispatch, Jobs
<1>5. CASE Overnight
  BY <1>1, <1>5 DEF Overnight, Stuck, YesUnderWay
<1> QED BY <1>3, <1>4, <1>5 DEF ManagerNext

(* A rejected action with no yes under way is never executed and never     *)
(* revived, by any answer, expiry or rerun.  (get_pending_action against   *)
(* resolve_pending_action and the queue.)                                  *)
THEOREM RejectionIsFinal == Spec => RejectionSticks
<1>1. TypeInv /\ Course /\ [Next]_vars =>
        [\A r \in DOMAIN rows : rows[r].status = "rejected" /\ ~ YesUnderWay(r) => Stuck(r)]_vars
  BY RejectedInDialogue, RejectedInManager DEF Next
<1>2. TypeInv /\ Course /\ [Next]_vars =>
        [\A r \in DOMAIN rows :
           rows[r].status = "rejected" /\ ~ YesUnderWay(r) =>
             /\ rows'[r].status = "rejected"
             /\ ~ YesUnderWay(r)'
             /\ \A m \in Msg : target'[m] = r => ran'[m] = ran[m]]_vars
  BY <1>1 DEF Stuck
<1> QED BY <1>2, CourseInvariant, PTL DEF Spec, RejectionSticks

------------------------------------------------------------------------------
(* The conversation implements Approval. *)

LEMMA InitApproval == Init => A!Init
BY DEF Init, DialogueInit, ManagerInit, A!Init, Grant

(* What became of other yeses is left alone. *)
LEMMA GrantFrame ==
  ASSUME NEW m \in Msg, text'[m] = text[m], target'[m] = target[m], step'[m] = step[m],
         job'[m] = job[m]
  PROVE  Grant(m)' = Grant(m)
BY DEF Grant

LEMMA DialogueApproval ==
  ASSUME TypeInv, Course, DialogueNext, UNCHANGED managerVars
  PROVE  [A!Next]_A!vars
<1>0. /\ step \in [Msg -> Steps] /\ job \in [Msg -> Jobs] /\ target \in [Msg -> Nat]
      /\ text \in [Msg -> {"none", "yes", "no", "say", "scheduled", "coaching"}]
  BY DEF TypeInv, TypeOK, DialogueTypeOK, Requeued
<1>1. UNCHANGED ran
  OBVIOUS
<1>2. ASSUME UNCHANGED target, \A m \in Msg : Grant(m)' = Grant(m)
      PROVE  [A!Next]_A!vars
  BY <1>1, <1>2 DEF A!vars
<1> USE DEF To, JobTo
<1>3. ASSUME NEW n \in Msg, \/ Receive(n) \/ AnswerDirectly(n) \/ QueueJob(n)
                            \/ PushConfirmed(n) \/ Requeue(n) \/ Reject(n)
      PROVE  [A!Next]_A!vars
  <2>1. UNCHANGED target
    BY <1>3 DEF Receive, AnswerDirectly, QueueJob, PushConfirmed, Requeue, Reject
  <2>2. ASSUME NEW m \in Msg, m # n PROVE Grant(m)' = Grant(m)
    BY <1>0, <1>3, <2>2, GrantFrame
       DEF Receive, AnswerDirectly, QueueJob, PushConfirmed, Requeue, Reject
  <2>3. Grant(n)' = Grant(n)
    <3>1. CASE Receive(n) \/ AnswerDirectly(n) \/ QueueJob(n) \/ Requeue(n)
      BY <1>0, <3>1 DEF Receive, AnswerDirectly, QueueJob, Requeue, Course, Grant
    <3>2. CASE PushConfirmed(n)
      BY <1>0, <3>2 DEF PushConfirmed, Course, Grant
    <3>3. CASE Reject(n)
      BY <1>0, <3>3 DEF Reject, Course, Grant
    <3> QED BY <1>3, <3>1, <3>2, <3>3
  <2> QED BY <1>2, <2>1, <2>2, <2>3
<1>4. ASSUME NEW n \in Msg, FindPending(n) PROVE [A!Next]_A!vars
  <2>1. PICK q \in Candidates(owner[n]) : target' = [target EXCEPT ![n] = q]
    BY <1>4 DEF FindPending
  <2>2. target'[n] \in Nat /\ target' = [target EXCEPT ![n] = target'[n]]
    BY <1>0, <2>1, CandidateType DEF TypeInv, TypeOK
  <2>3. \A m \in Msg : Grant(m)' = Grant(m)
    BY <1>0, <1>4, <2>1 DEF FindPending, Course, Grant
  <2>4. Grant(n) = "none"
    BY <1>4 DEF FindPending, Course, Grant
  <2>5. A!Match(n)
    BY <1>1, <2>2, <2>3, <2>4 DEF A!Match
  <2> QED BY <2>5 DEF A!Next
<1>5. ASSUME NEW n \in Msg, Confirm(n) PROVE [A!Next]_A!vars
  <2>1. Grant(n) = "none" /\ Grant(n)' = "fresh" /\ target[n] # 0 /\ target' = target
    BY <1>0, <1>5 DEF Confirm, Course, Grant
  <2>2. \A m \in Msg : m # n => Grant(m)' = Grant(m)
    BY <1>0, <1>5 DEF Confirm, Grant
  <2>3. A!Approve(n)
    BY <1>1, <2>1, <2>2 DEF A!Approve
  <2> QED BY <2>3 DEF A!Next
<1>6. CASE ApiDies
  <2> DEFINE M == {m \in Msg : step[m] = "push"}
  <2>1. \A m \in Msg : IF m \in M THEN Grant(m) = "fresh" /\ Grant(m)' = "closed"
                                  ELSE Grant(m)' = Grant(m)
    BY <1>0, <1>6 DEF ApiDies, Course, Grant
  <2>2. M \in SUBSET {m \in Msg : Grant(m) = "fresh"}
    BY <2>1
  <2>3. [m \in Msg |-> Grant(m)'] = [m \in Msg |-> IF m \in M THEN "closed" ELSE Grant(m)]
    BY <2>1
  <2>4. UNCHANGED target
    BY <1>6 DEF ApiDies
  <2> HIDE DEF M
  <2>5. A!Forget
    BY <1>1, <2>2, <2>3, <2>4 DEF A!Forget
  <2> QED BY <2>5 DEF A!Next
<1>7. CASE HalfAnHour
  BY <1>2, <1>7, GrantFrame DEF HalfAnHour
<1>8. ASSUME NEW n \in Msg, TaskFails(n) PROVE [A!Next]_A!vars
  <2>1. UNCHANGED <<target, job, text>> /\ step' = [step EXCEPT ![n] = IF @ = "push" THEN "lost" ELSE "gone"]
    BY <1>0, <1>8 DEF TaskFails
  <2>2. \A m \in Msg : m # n => Grant(m)' = Grant(m)
    BY <1>0, <2>1 DEF Grant
  <2>3. CASE step[n] = "push"
    <3>1. Grant(n) = "fresh" /\ Grant(n)' = "closed"
      BY <1>0, <2>1, <2>3 DEF Course, Grant
    <3>2. A!Close(n)
      BY <1>1, <2>1, <2>2, <3>1 DEF A!Close
    <3> QED BY <3>2 DEF A!Next
  <2>4. CASE step[n] # "push"
    <3>1. Grant(n)' = Grant(n)
      BY <1>0, <1>8, <2>1, <2>4 DEF TaskFails, Course, Grant
    <3> QED BY <1>2, <2>1, <2>2, <3>1
  <2> QED BY <2>3, <2>4
<1> QED BY <1>3, <1>4, <1>5, <1>6, <1>7, <1>8 DEF DialogueNext, Answering

LEMMA ManagerApproval ==
  ASSUME TypeInv, Course, ManagerNext
  PROVE  [A!Next]_A!vars
<1>0. job \in [Msg -> Jobs] /\ ran \in [Msg -> Nat] /\ target \in [Msg -> Nat]
  BY DEF TypeInv, TypeOK, DialogueTypeOK, ManagerTypeOK
<1>1. ASSUME NEW n \in Msg, JobStep(n) PROVE [A!Next]_A!vars
  <2>1. UNCHANGED target /\ \A m \in Msg : m # n => Grant(m)' = Grant(m)
    BY <1>1, JobPhases, GrantFrame
  <2>2. CASE target[n] = 0
    <3>1. Grant(n)' = Grant(n) /\ ran' = ran
      BY <1>1, <2>2, JobPhases DEF Grant
    <3> QED BY <2>1, <3>1 DEF A!vars
  <2>3. CASE target[n] # 0 /\ job[n] = "queued" /\ job'[n] = "answered" /\ ServeConfirmed(n)
    <3>1. Grant(n) = "fresh" /\ Grant(n)' = "used"
      <4>1. text[n] = "yes" /\ text' = text /\ step' = step /\ step[n] # "lost"
        BY <1>1, <2>3, JobPhases DEF Course
      <4> QED BY <2>1, <2>3, <4>1 DEF Grant
    <3>2. ran' \in {ran, [ran EXCEPT ![n] = @ + 1]}
      BY <2>3 DEF ServeConfirmed
    <3>3. A!Use(n)
      BY <2>1, <3>1, <3>2 DEF A!Use
    <3> QED BY <3>3 DEF A!Next
  <2>4. CASE target[n] # 0 /\ job[n] = "answered" /\ job'[n] = "done" /\ ran' = ran
    <3>1. Grant(n) = "used" /\ Grant(n)' = "closed"
      <4>1. text[n] = "yes" /\ text' = text /\ step' = step /\ step[n] # "lost"
        BY <1>1, <2>4, JobPhases DEF Course
      <4> QED BY <2>1, <2>4, <4>1 DEF Grant
    <3>2. A!Close(n)
      BY <2>1, <2>4, <3>1 DEF A!Close
    <3> QED BY <3>2 DEF A!Next
  <2> QED BY <1>1, <2>2, <2>3, <2>4, JobPhases
<1>2. CASE WorkerDies
  <2>1. \A m \in Msg : Grant(m)' = IF Grant(m) = "used" THEN "fresh" ELSE Grant(m)
    BY <1>0, <1>2 DEF WorkerDies, Course, Grant, InDispatch, Jobs
  <2>2. UNCHANGED <<target, ran>>
    BY <1>2 DEF WorkerDies
  <2>3. A!GiveBack
    BY <2>1, <2>2 DEF A!GiveBack
  <2> QED BY <2>3 DEF A!Next
<1>3. CASE Overnight
  BY <1>3, GrantFrame DEF Overnight, A!vars
<1> QED BY <1>1, <1>2, <1>3 DEF ManagerNext

(* The API, the queue and the worker together implement Approval: what     *)
(* needs the user's word is executed in reply to a matched yes, once for   *)
(* each time it is taken up, and taken up again only when a worker died.   *)
(* (pipeline.py:187 to route_job.)                                         *)
THEOREM ImplementsApproval == Spec => Approvals
<1>1. TypeInv /\ Course /\ [Next]_vars => [A!Next]_A!vars
  <2> SUFFICES ASSUME TypeInv, Course, [Next]_vars PROVE [A!Next]_A!vars
    OBVIOUS
  <2>1. CASE UNCHANGED vars
    <3>1. UNCHANGED <<target, ran>> /\ \A m \in Msg : Grant(m)' = Grant(m)
      BY <2>1, GrantFrame DEF vars
    <3> QED BY <3>1 DEF A!vars
  <2> QED BY <2>1, DialogueApproval, ManagerApproval DEF Next
<1> QED BY <1>1, InitApproval, CourseInvariant, PTL DEF Spec, Approvals, A!Spec

------------------------------------------------------------------------------
(* Tools that were not confirmed. *)

(* The agents of all users rate a tool they share alike. *)
OneRating ==
  \A u, v \in User : \A t \in DOMAIN AgentRisk[u] \cap DOMAIN AgentRisk[v] :
    AgentRisk[u][t] = AgentRisk[v][t]

(* The dict of risk levels: a custom tool has a level its owners gave it,  *)
(* or counts as high.                                                      *)
RiskInv ==
  /\ \A t \in Builtin : risk[t] = BuiltinRisk[t]
  /\ \A t \in Tool \ Builtin :
       risk[t] = "high" \/ \E u \in User : t \in DOMAIN AgentRisk[u] /\ risk[t] = AgentRisk[u][t]

LEMMA InitialRiskInv == risk = InitialRisk => RiskInv
BY DEF InitialRisk, RiskInv, Tool

LEMMA RegisterRiskInv ==
  ASSUME RiskInv, NEW u \in User, RegisterAgents(u)
  PROVE  RiskInv'
<1>1. \A t \in Builtin : t \in Tool /\ t \notin DOMAIN AgentRisk[u]
  BY DEF Tool, Custom
<1>2. \A t \in Builtin : risk'[t] = BuiltinRisk[t]
  BY <1>1 DEF RegisterAgents, RiskInv
<1>3. ASSUME NEW t \in Tool \ Builtin
      PROVE  risk'[t] = "high" \/ \E v \in User : t \in DOMAIN AgentRisk[v] /\ risk'[t] = AgentRisk[v][t]
  <2>1. risk'[t] = IF t \in DOMAIN AgentRisk[u] THEN AgentRisk[u][t] ELSE risk[t]
    BY DEF RegisterAgents
  <2> QED BY <2>1 DEF RiskInv
<1> QED BY <1>2, <1>3 DEF RiskInv

LEMMA LowIsOwn ==
  ASSUME TypeInv, OneRating, RiskInv, NEW m \in Msg, NEW t \in Mine(m), ~ NeedsConfirmation(t)
  PROVE  OwnRisk(owner[m], t) = "low"
<1>1. t \in Tool /\ owner[m] \in User
  BY MineType DEF TypeInv, TypeOK, DialogueTypeOK
<1>2. risk[t] = "low"
  BY <1>1 DEF NeedsConfirmation, TypeInv, TypeOK, PendingTypeOK, Risk
<1>3. CASE t \in Builtin
  BY <1>2, <1>3 DEF RiskInv, OwnRisk
<1>4. CASE t \notin Builtin
  <2>1. t \in DOMAIN AgentRisk[owner[m]]
    BY <1>4 DEF Mine
  <2>2. PICK u \in User : t \in DOMAIN AgentRisk[u] /\ risk[t] = AgentRisk[u][t]
    BY <1>1, <1>2, <1>4 DEF RiskInv
  <2> QED BY <1>1, <1>2, <1>4, <2>1, <2>2 DEF OneRating, OwnRisk
<1> QED BY <1>3, <1>4

LEMMA NextRisk ==
  ASSUME TypeInv, OneRating, RiskInv, RiskyIsConfirmed, [Next]_vars
  PROVE  RiskInv' /\ RiskyIsConfirmed'
<1>1. ASSUME UNCHANGED <<risk, unconfirmed>> PROVE RiskInv' /\ RiskyIsConfirmed'
  BY <1>1 DEF RiskInv, RiskyIsConfirmed
<1>2. CASE DialogueNext /\ UNCHANGED managerVars
  BY <1>1, <1>2 DEF DialogueNext, Answering, HalfAnHour
<1>3. ASSUME NEW m \in Msg, CallTool(m) PROVE RiskInv' /\ RiskyIsConfirmed'
  <2> DEFINE t == Head(turn[m].calls)
  <2>1. t \in Mine(m) /\ ~ NeedsConfirmation(t)
    BY <1>3, TailType DEF CallTool, TypeInv, TurnInv
  <2>2. OwnRisk(owner[m], t) = "low"
    BY <2>1, LowIsOwn
  <2>3. unconfirmed' = unconfirmed \cup {<<owner[m], t>>} /\ risk' = risk
    BY <1>3 DEF CallTool
  <2> QED BY <2>2, <2>3 DEF RiskInv, RiskyIsConfirmed
<1>4. ASSUME NEW m \in Msg, Prepare(m) PROVE RiskInv' /\ RiskyIsConfirmed'
  <2>1. owner[m] \in User
    BY DEF TypeInv, TypeOK, DialogueTypeOK, Requeued
  <2>2. RiskInv'
    BY <1>4, <2>1, RegisterRiskInv DEF Prepare
  <2> QED BY <1>4, <2>2 DEF Prepare, RiskyIsConfirmed
<1>5. ASSUME NEW m \in Msg, JobStep(m), ~ CallTool(m), ~ Prepare(m)
      PROVE  UNCHANGED <<risk, unconfirmed>>
  BY <1>5 DEF JobStep, ServeConfirmed, OtherHandler, LookUpSession, ModelCalls, Propose,
              Answer, GiveUp, Acknowledge
<1>6. CASE WorkerDies
  <2>1. RiskInv'
    BY <1>6 DEF WorkerDies, InitialRisk, RiskInv, Tool
  <2> QED BY <1>6, <2>1 DEF WorkerDies, RiskyIsConfirmed
<1>7. CASE Overnight
  BY <1>1, <1>7 DEF Overnight
<1>8. CASE UNCHANGED vars
  BY <1>1, <1>8 DEF vars
<1>9. CASE ManagerNext
  BY <1>1, <1>3, <1>4, <1>5, <1>6, <1>7, <1>9 DEF ManagerNext
<1> QED BY <1>2, <1>8, <1>9 DEF Next

(* As long as users who have an agent of the same name rate it alike, what *)
(* is executed without asking is rated low by its own user; without that   *)
(* it is not (the run "unconfirmed").  (get_tool_risk, TOOL_RISK.)         *)
THEOREM RiskyToolsAreConfirmed == OneRating => (Spec => []RiskyIsConfirmed)
<1> SUFFICES ASSUME OneRating PROVE Spec => []RiskyIsConfirmed
  OBVIOUS
<1>1. Init => RiskInv /\ RiskyIsConfirmed
  BY InitialRiskInv DEF Init, PendingInit, ManagerInit, RiskyIsConfirmed
<1>2. TypeInv /\ (RiskInv /\ RiskyIsConfirmed) /\ [Next]_vars => (RiskInv /\ RiskyIsConfirmed)'
  BY NextRisk
<1> QED BY <1>1, <1>2, TypeInvariant, PTL DEF Spec

------------------------------------------------------------------------------
(* Sessions. *)

(* A dispatch holds a session of its own user; a user whose dispatches     *)
(* never met has one dispatch at most, and while it is under way no other  *)
(* session than the one it holds.                                          *)
HeldIsOwn ==
  \A m \in Msg : turn[m].session # 0 => sess[turn[m].session].user = owner[m]

Alone(u) ==
  /\ \A m, n \in Msg : owner[m] = u /\ owner[n] = u /\ InDispatch(m) /\ InDispatch(n) => m = n
  /\ \A m \in Msg : owner[m] = u /\ InDispatch(m) => InProgress(u) \subseteq {turn[m].session}
  /\ \A s, q \in InProgress(u) : s = q

SessionInv == HeldIsOwn /\ \A u \in User : u \notin overlapped => Alone(u)

(* What the four operations do to the sessions in progress. *)
UsersKept == \A s \in DOMAIN sess : s \in DOMAIN sess' /\ sess'[s].user = sess[s].user

LEMMA SessionOf ==
  ASSUME SessionsTypeOK
  PROVE  /\ \A s \in DOMAIN sess : sess[s] \in SessionRow
         /\ DOMAIN sess = 1..Len(sess) /\ Len(sess) \in Nat /\ sess \in Seq(SessionRow)
<1>1. sess \in Seq(SessionRow)
  BY DEF SessionsTypeOK, SessionRow
<1> QED BY <1>1, RowOf

LEMMA AbandonEffect ==
  ASSUME SessionsTypeOK, NEW u, AbandonStale(u)
  PROVE  /\ UsersKept
         /\ InProgress(u)' = {s \in InProgress(u) : sess[s].last > horizon}
         /\ \A v : v # u => InProgress(v)' = InProgress(v)
<1>1. /\ DOMAIN sess' = DOMAIN sess
      /\ \A s \in DOMAIN sess : sess[s] \in SessionRow
      /\ \A s \in DOMAIN sess :
           sess'[s] = IF s \in InProgress(u) /\ sess[s].last <= horizon
                        THEN [sess[s] EXCEPT !.open = FALSE] ELSE sess[s]
  BY SessionOf DEF AbandonStale
<1>2. \A s \in DOMAIN sess :
        /\ sess'[s].user = sess[s].user
        /\ sess'[s].open = IF s \in InProgress(u) /\ sess[s].last <= horizon THEN FALSE ELSE sess[s].open
  BY <1>1 DEF SessionRow
<1>3. horizon \in Nat /\ \A s \in DOMAIN sess : sess[s].last \in Nat
  BY <1>1 DEF SessionsTypeOK, SessionRow
<1>4. \A s \in DOMAIN sess : ~ (sess[s].last <= horizon) <=> sess[s].last > horizon
  BY <1>3
<1>5. ASSUME NEW s \in DOMAIN sess
      PROVE  sess'[s].open <=> sess[s].open /\ (s \notin InProgress(u) \/ sess[s].last > horizon)
  <2>1. sess[s].open \in BOOLEAN
    BY <1>1 DEF SessionRow
  <2> QED BY <1>2, <1>4, <2>1
<1>6. InProgress(u)' = {s \in InProgress(u) : sess[s].last > horizon}
  BY <1>1, <1>2, <1>5 DEF InProgress
<1>7. \A v : v # u => InProgress(v)' = InProgress(v)
  BY <1>1, <1>2, <1>5 DEF InProgress
<1> QED BY <1>1, <1>2, <1>6, <1>7 DEF UsersKept

LEMMA CompleteEffect ==
  ASSUME SessionsTypeOK, NEW s \in DOMAIN sess, NEW u, sess[s].user = u, CompleteSession(s)
  PROVE  /\ UsersKept
         /\ InProgress(u)' = InProgress(u) \ {s}
         /\ \A v : v # u => InProgress(v)' = InProgress(v)
<1>1. /\ DOMAIN sess' = DOMAIN sess
      /\ \A q \in DOMAIN sess : q # s => sess'[q] = sess[q]
      /\ sess[s] \in SessionRow /\ sess'[s] = [sess[s] EXCEPT !.open = FALSE]
  BY SessionOf DEF CompleteSession
<1>2. sess'[s].user = sess[s].user /\ sess'[s].open = FALSE
  BY <1>1 DEF SessionRow
<1> QED BY <1>1, <1>2 DEF InProgress, UsersKept

LEMMA UpsertEffect ==
  ASSUME SessionsTypeOK, NEW u \in User, NEW s \in 0..Len(sess), UpsertSession(u, s),
         s # 0 => sess[s].user = u
  PROVE  /\ UsersKept
         /\ InProgress(u)' = InProgress(u) \cup {IF s = 0 THEN Len(sess) + 1 ELSE s}
         /\ \A v : v # u => InProgress(v)' = InProgress(v)
<1> DEFINE row == [user |-> u, open |-> TRUE, last |-> now + 1]
<1>0. row.user = u /\ row.open = TRUE
  OBVIOUS
<1>1. CASE s = 0
  <2>1. sess' = Append(sess, row)
    BY <1>1 DEF UpsertSession
  <2> HIDE DEF row
  <2>2. /\ DOMAIN sess' = DOMAIN sess \cup {Len(sess) + 1} /\ Len(sess) + 1 \notin DOMAIN sess
        /\ sess'[Len(sess) + 1] = row
        /\ \A q \in DOMAIN sess : sess'[q] = sess[q]
    BY <2>1, SessionOf
  <2> QED BY <1>0, <1>1, <2>2 DEF InProgress, UsersKept
<1>2. CASE s # 0
  <2>1. sess' = [sess EXCEPT ![s] = row] /\ s \in DOMAIN sess
    BY <1>2, SessionOf DEF UpsertSession
  <2> HIDE DEF row
  <2>2. /\ DOMAIN sess' = DOMAIN sess /\ sess'[s] = row
        /\ \A q \in DOMAIN sess : q # s => sess'[q] = sess[q]
    BY <2>1
  <2> QED BY <1>0, <1>2, <2>1, <2>2 DEF InProgress, UsersKept
<1> QED BY <1>1, <1>2

(* A step of m leaves other users alone. *)
LEMMA OthersAlone ==
  ASSUME TypeInv, NEW m \in Msg, JobStep(m), NEW v \in User, v # owner[m], Alone(v),
         InProgress(v)' = InProgress(v)
  PROVE  Alone(v)'
<1>1. \A n \in Msg : owner[n] = v => n # m
  OBVIOUS
<1>2. owner' = owner /\ \A n \in Msg : n # m => turn'[n] = turn[n] /\ job'[n] = job[n]
  BY TurnAfter, HistoryTypes DEF TypeInv
<1>3. \A n \in Msg : owner[n] = v => (InDispatch(n)' <=> InDispatch(n)) /\ turn'[n] = turn[n]
  BY <1>1, <1>2 DEF InDispatch
<1> QED BY <1>2, <1>3 DEF Alone

LEMMA HeldKept ==
  ASSUME TypeInv, HeldIsOwn, UsersKept, NEW m \in Msg, JobStep(m),
         turn'[m].session # 0 => sess'[turn'[m].session].user = owner[m]
  PROVE  HeldIsOwn'
<1>1. owner' = owner /\ \A n \in Msg : n # m => turn'[n] = turn[n]
  BY TurnAfter, HistoryTypes DEF TypeInv
<1>2. ASSUME NEW n \in Msg, n # m, turn[n].session # 0
      PROVE  sess'[turn[n].session].user = owner[n]
  <2>1. turn[n].session \in DOMAIN sess
    BY <1>2, SessionOf DEF TypeInv, TypeOK, ManagerTypeOK
  <2> QED BY <1>2, <2>1 DEF HeldIsOwn, UsersKept
<1> QED BY <1>1, <1>2 DEF HeldIsOwn

(* Of m's own user: the sessions m's step leaves in progress. *)
LEMMA OwnerAlone ==
  ASSUME TypeInv, NEW m \in Msg, JobStep(m), NEW U, InProgress(owner[m])' = U,
         \A s, q \in U : s = q,
         InDispatch(m)' => U \subseteq {turn'[m].session},
         \A n \in Msg : owner[n] = owner[m] /\ InDispatch(n) => n = m
  PROVE  Alone(owner[m])'
<1>1. owner' = owner /\ \A n \in Msg : n # m => turn'[n] = turn[n] /\ job'[n] = job[n]
  BY TurnAfter, HistoryTypes DEF TypeInv
<1>2. \A n \in Msg : owner[n] = owner[m] /\ InDispatch(n)' => n = m
  BY <1>1 DEF InDispatch
<1> QED BY <1>1, <1>2 DEF Alone

LEMMA LookUpAlone ==
  ASSUME TypeInv, SessionInv, NEW m \in Msg, LookUpSession(m)
  PROVE  SessionInv'
<1> DEFINE u == owner[m]
<1>0. /\ u \in User /\ JobStep(m) /\ SessionsTypeOK /\ owner' = owner
      /\ turn \in [Msg -> Turn] /\ job \in [Msg -> Jobs]
  BY HistoryTypes DEF TypeInv, TypeOK, DialogueTypeOK, ManagerTypeOK, JobStep, Turn
<1>1. PICK s \in 0..Len(sess) :
           /\ IsActiveSession(u, s)
           /\ turn' = [turn EXCEPT ![m] = [NoTurn EXCEPT !.session = s]]
  BY DEF LookUpSession
<1>2. turn'[m].session = s /\ job[m] = "queued" /\ AbandonStale(u)
  BY <1>0, <1>1 DEF LookUpSession, NoTurn
<1>3. /\ UsersKept
      /\ InProgress(u)' = {q \in InProgress(u) : sess[q].last > horizon}
      /\ \A v : v # u => InProgress(v)' = InProgress(v)
  BY <1>0, <1>2, AbandonEffect
<1>4. HeldIsOwn'
  <2>1. s # 0 => s \in DOMAIN sess /\ sess[s].user = u
    BY <1>1 DEF IsActiveSession, InProgress
  <2>2. s # 0 => sess'[s].user = u
    BY <1>3, <2>1 DEF UsersKept
  <2> QED BY <1>0, <1>2, <1>3, <2>2, HeldKept DEF SessionInv
<1>5. overlapped \subseteq overlapped'
      /\ (u \notin overlapped' => \A n \in Msg : owner[n] = u /\ InDispatch(n) => n = m)
  BY DEF LookUpSession
<1>6. ASSUME u \notin overlapped' PROVE Alone(u)'
  <2>1. Alone(u)
    BY <1>0, <1>5, <1>6 DEF SessionInv
  <2>2. {q \in InProgress(u) : sess[q].last > horizon} \subseteq {s}
    BY <1>1, <2>1 DEF IsActiveSession, Alone
  <2> QED BY <1>0, <1>2, <1>3, <1>5, <1>6, <2>2, OwnerAlone
<1>7. ASSUME NEW v \in User, v # u, v \notin overlapped' PROVE Alone(v)'
  BY <1>0, <1>3, <1>5, <1>7, OthersAlone DEF SessionInv
<1> QED BY <1>0, <1>4, <1>6, <1>7 DEF SessionInv

(* A step of a dispatch: what it leaves in progress is what was, without   *)
(* the session it held when it gives that up, with the one it ends on.     *)
LEMMA DispatchAlone ==
  ASSUME TypeInv, SessionInv, NEW m \in Msg, JobStep(m), InDispatch(m), overlapped' = overlapped,
         UsersKept, \A v : v # owner[m] => InProgress(v)' = InProgress(v),
         turn'[m].session # 0 => sess'[turn'[m].session].user = owner[m],
         Alone(owner[m]) => /\ \A s, q \in InProgress(owner[m])' : s = q
                            /\ InDispatch(m)' => InProgress(owner[m])' \subseteq {turn'[m].session}
  PROVE  SessionInv'
<1>0. owner[m] \in User /\ owner' = owner
  BY HistoryTypes DEF TypeInv, TypeOK, DialogueTypeOK
<1>1. HeldIsOwn'
  BY HeldKept DEF SessionInv
<1>2. ASSUME owner[m] \notin overlapped PROVE Alone(owner[m])'
  <2>1. Alone(owner[m])
    BY <1>0, <1>2 DEF SessionInv
  <2>2. \A n \in Msg : owner[n] = owner[m] /\ InDispatch(n) => n = m
    BY <2>1 DEF Alone
  <2> QED BY <2>1, <2>2, OwnerAlone
<1>3. ASSUME NEW v \in User, v # owner[m], v \notin overlapped PROVE Alone(v)'
  BY <1>3, OthersAlone DEF SessionInv
<1> QED BY <1>0, <1>1, <1>2, <1>3 DEF SessionInv

LEMMA HoldAlone ==
  ASSUME TypeInv, SessionInv, NEW m \in Msg,
         Prepare(m) \/ ModelCalls(m) \/ CallTool(m) \/ Propose(m) \/ Answer(m) \/ GiveUp(m)
  PROVE  SessionInv'
<1> DEFINE u == owner[m]
           h == turn[m].session
<1>0. /\ u \in User /\ JobStep(m) /\ SessionsTypeOK /\ owner' = owner
      /\ turn \in [Msg -> Turn] /\ job \in [Msg -> Jobs] /\ h \in 0..Len(sess)
      /\ InDispatch(m) /\ overlapped' = overlapped
      /\ h # 0 => h \in DOMAIN sess /\ sess[h].user = u
  <2>1. u \in User /\ JobStep(m) /\ SessionsTypeOK /\ turn \in [Msg -> Turn] /\ job \in [Msg -> Jobs]
        /\ h \in 0..Len(sess)
    BY DEF TypeInv, TypeOK, DialogueTypeOK, ManagerTypeOK, JobStep, Turn
  <2>2. InDispatch(m) /\ overlapped' = overlapped
    BY DEF Prepare, ModelCalls, CallTool, Propose, Answer, GiveUp, InDispatch
  <2>3. h # 0 => h \in DOMAIN sess /\ sess[h].user = u
    BY <2>1, SessionOf DEF SessionInv, HeldIsOwn
  <2>4. owner' = owner
    BY <2>1, HistoryTypes DEF TypeInv
  <2> QED BY <2>1, <2>2, <2>3, <2>4
<1>1. Alone(u) => InProgress(u) \subseteq {h} /\ \A s, q \in InProgress(u) : s = q
  BY <1>0 DEF Alone
<1>2. CASE /\ UNCHANGED sessionVars
           /\ turn'[m].session = h \/ (turn'[m].session = 0 /\ ~ InDispatch(m)')
  <2>1. UsersKept /\ \A v : InProgress(v)' = InProgress(v)
    BY <1>2 DEF UsersKept, InProgress
  <2>2. turn'[m].session # 0 => sess'[turn'[m].session].user = u
    BY <1>0, <1>2
  <2> QED BY <1>0, <1>1, <1>2, <2>1, <2>2, DispatchAlone
<1>3. CASE h # 0 /\ CompleteSession(h) /\ turn'[m].session = 0
  <2>1. h \in DOMAIN sess /\ sess[h].user = u
    BY <1>0, <1>3
  <2>2. /\ UsersKept /\ InProgress(owner[m])' = InProgress(owner[m]) \ {h}
        /\ \A v : v # owner[m] => InProgress(v)' = InProgress(v)
    BY <1>0, <1>3, <2>1, CompleteEffect
  <2>3. Alone(u) => InProgress(u)' = {}
    BY <1>1, <2>2
  <2> QED BY <1>0, <1>3, <2>2, <2>3, DispatchAlone
<1>4. CASE UpsertSession(u, h) /\ turn'[m].session = 0 /\ ~ InDispatch(m)'
  <2>1. /\ UsersKept /\ InProgress(u)' = InProgress(u) \cup {IF h = 0 THEN Len(sess) + 1 ELSE h}
        /\ \A v : v # u => InProgress(v)' = InProgress(v)
    BY <1>0, <1>4, UpsertEffect
  <2>2. 0 \notin InProgress(u)
    BY <1>0, SessionOf DEF InProgress
  <2>3. Alone(u) => \A s, q \in InProgress(u)' : s = q
    BY <1>1, <2>1, <2>2
  <2> QED BY <1>0, <1>4, <2>1, <2>3, DispatchAlone
<1>5. CASE Prepare(m)
  <2>1. CASE turn' = [turn EXCEPT ![m].tools = Offered(m)] /\ UNCHANGED sessionVars
    <3>1. turn'[m].session = h
      BY <1>0, <2>1 DEF Turn
    <3> QED BY <1>2, <2>1, <3>1
  <2>2. CASE /\ h # 0 /\ CompleteSession(h)
             /\ turn' = [turn EXCEPT ![m].tools = Offered(m), ![m].session = 0]
    <3>1. turn'[m].session = 0
      BY <1>0, <2>2 DEF Turn
    <3> QED BY <1>3, <2>2, <3>1
  <2> QED BY <1>5, <2>1, <2>2 DEF Prepare
<1>6. CASE ModelCalls(m)
  <2>1. turn'[m].session = h
    <3>1. PICK n \in 1..MaxCalls : \E cs \in [1..n -> turn[m].tools] :
             turn' = [turn EXCEPT ![m].calls = cs, ![m].round = @ + 1, ![m].used = TRUE]
      BY <1>6 DEF ModelCalls
    <3> QED BY <1>0, <3>1 DEF Turn
  <2> QED BY <1>2, <1>6, <2>1 DEF ModelCalls
<1>7. CASE CallTool(m)
  <2>1. turn'[m].session = h
    <3>1. PICK outcome \in {"ok", "retryable", "unavailable"} :
             turn' = [turn EXCEPT ![m].tools = Remaining(@, Head(turn[m].calls), outcome),
                                  ![m].calls = Tail(@)]
      BY <1>7 DEF CallTool
    <3> QED BY <1>0, <3>1 DEF Turn
  <2> QED BY <1>2, <1>7, <2>1 DEF CallTool
<1>8. CASE Propose(m) \/ Answer(m) \/ GiveUp(m)
  <2>1. turn'[m].session = 0 /\ ~ InDispatch(m)'
    BY <1>0, <1>8, NoTurnType DEF Propose, Answer, GiveUp, Return, JobTo, InDispatch
  <2> QED BY <1>2, <1>3, <1>4, <1>8, <2>1 DEF Propose, Answer, GiveUp
<1> QED BY <1>5, <1>6, <1>7, <1>8

LEMMA SessionFrame ==
  ASSUME SessionInv, UNCHANGED <<sess, turn, owner, overlapped>>,
         \A m \in Msg : InDispatch(m)' => InDispatch(m)
  PROVE  SessionInv'
BY DEF SessionInv, HeldIsOwn, Alone, InProgress

LEMMA NextSessions ==
  ASSUME TypeInv, SessionInv, [Next]_vars
  PROVE  SessionInv'
<1>0. job \in [Msg -> Jobs]
  BY DEF TypeInv, TypeOK, DialogueTypeOK, Requeued
<1>1. CASE DialogueNext /\ UNCHANGED managerVars
  <2>1. owner' = owner
    BY <1>1 DEF DialogueNext, Answering, Receive, AnswerDirectly, FindPending, QueueJob, PushConfirmed,
                Requeue, Confirm, Reject, ApiDies, TaskFails, HalfAnHour
  <2>2. \A m \in Msg : job'[m] # "queued" => job'[m] = job[m]
    BY <1>0, <1>1 DEF DialogueNext, Answering, Receive, AnswerDirectly, FindPending, QueueJob, PushConfirmed,
                Requeue, Confirm, Reject, ApiDies, TaskFails, HalfAnHour, JobTo
  <2> QED BY <1>1, <2>1, <2>2, SessionFrame DEF InDispatch
<1>2. ASSUME NEW m \in Msg, ServeConfirmed(m) \/ OtherHandler(m) \/ Acknowledge(m)
      PROVE  SessionInv'
  BY <1>0, <1>2, SessionFrame DEF ServeConfirmed, OtherHandler, Acknowledge, JobTo, InDispatch
<1>3. CASE WorkerDies
  <2>1. \A m \in Msg : turn'[m].session = 0 /\ ~ InDispatch(m)'
    BY <1>0, <1>3, NoTurnType DEF WorkerDies, InDispatch, Jobs
  <2> QED BY <1>3, <2>1 DEF WorkerDies, SessionInv, HeldIsOwn, Alone, InProgress
<1>4. CASE Overnight
  BY <1>4, SessionFrame DEF Overnight, DayPasses, InDispatch
<1>5. CASE UNCHANGED vars
  BY <1>5, SessionFrame DEF vars, InDispatch
<1>6. CASE ManagerNext
  BY <1>2, <1>3, <1>4, <1>6, LookUpAlone, HoldAlone DEF ManagerNext, JobStep
<1> QED BY <1>1, <1>5, <1>6 DEF Next

(* A user has two sessions in progress only after two of their dispatches  *)
(* ran at once: the one who looks first goes on from the one there is, or  *)
(* completes it, or abandons it.  (get_active_session to upsert_session.)  *)
THEOREM SessionsMeetOnlyInDispatches == Spec => []OneSession
<1>1. Init => SessionInv
  BY NoTurnType DEF Init, DialogueInit, ManagerInit, SessionsInit, SessionInv, HeldIsOwn, Alone,
                    InProgress, InDispatch
<1>2. SessionInv => OneSession
  BY DEF SessionInv, Alone, OneSession
<1> QED BY <1>1, <1>2, NextSessions, TypeInvariant, PTL DEF Spec
=============================================================================
