--------------------------- MODULE Handlers_proofs --------------------------
(***************************************************************************)
(* Theorems about Handlers, for any jobs, tasks, goals, features and       *)
(* limits, and any number of deaths, failures and edits.                   *)
(***************************************************************************)
EXTENDS Handlers, FiniteSetTheorems, TLAPS

USE LimitsAssumption, SetsAssumption
    DEF LimitsAssumption, rowVars, redisVars, boundVars, historyVars, readOnly, Slip, Edit, Goto

------------------------------------------------------------------------------
(* Type correctness. *)

Loc == [holds : BOOLEAN, old : SUBSET Task, listed : SUBSET Task, marks : SUBSET Task,
        about : Goal \cup Feature \cup {None}, stage : Stages]
At == Running \cup {"idle", "queued", "over", "done"}
Row == [overdue : BOOLEAN, marked : BOOLEAN, completed : BOOLEAN, archived : BOOLEAN]
Entry == [type : Kinds \cup {"action"}, about : Goal \cup Feature \cup {None}]

LEMMA NoLocType == NoLoc \in Loc
BY DEF NoLoc, Loc, Stages

LocTypeOK == loc \in [Job -> Loc]

(* One job's locals, or one row, is set. *)
LEMMA LocSet ==
  ASSUME LocTypeOK, NEW j \in Job,
         \/ loc' = loc
         \/ loc' = [loc EXCEPT ![j].holds = TRUE]
         \/ \E S \in SUBSET Task : loc' = [loc EXCEPT ![j].old = S] \/ loc' = [loc EXCEPT ![j].marks = S]
         \/ \E x \in Goal \cup Feature : loc' = [loc EXCEPT ![j].about = x]
         \/ \E s \in Stages : loc' = [loc EXCEPT ![j].stage = s]
  PROVE  LocTypeOK'
<1>1. CASE loc' = loc
  BY <1>1 DEF LocTypeOK
<1>2. CASE loc' = [loc EXCEPT ![j].holds = TRUE]
  <2>1. loc[j] \in Loc
    BY DEF LocTypeOK
  <2>2. [loc[j] EXCEPT !.holds = TRUE] \in Loc
    BY <2>1 DEF Loc
  <2> QED BY <1>2, <2>2 DEF LocTypeOK
<1>3. ASSUME NEW S \in SUBSET Task, loc' = [loc EXCEPT ![j].old = S] PROVE LocTypeOK'
  <2>1. loc[j] \in Loc
    BY DEF LocTypeOK
  <2>2. [loc[j] EXCEPT !.old = S] \in Loc
    BY <2>1 DEF Loc
  <2> QED BY <1>3, <2>2 DEF LocTypeOK
<1>4. ASSUME NEW S \in SUBSET Task, loc' = [loc EXCEPT ![j].marks = S] PROVE LocTypeOK'
  <2>1. loc[j] \in Loc
    BY DEF LocTypeOK
  <2>2. [loc[j] EXCEPT !.marks = S] \in Loc
    BY <2>1 DEF Loc
  <2> QED BY <1>4, <2>2 DEF LocTypeOK
<1>5. ASSUME NEW x \in Goal \cup Feature, loc' = [loc EXCEPT ![j].about = x] PROVE LocTypeOK'
  <2>1. loc[j] \in Loc
    BY DEF LocTypeOK
  <2>2. [loc[j] EXCEPT !.about = x] \in Loc
    BY <2>1 DEF Loc
  <2> QED BY <1>5, <2>2 DEF LocTypeOK
<1>6. ASSUME NEW s \in Stages, loc' = [loc EXCEPT ![j].stage = s] PROVE LocTypeOK'
  <2>1. loc[j] \in Loc
    BY DEF LocTypeOK
  <2>2. [loc[j] EXCEPT !.stage = s] \in Loc
    BY <2>1 DEF Loc
  <2> QED BY <1>6, <2>2 DEF LocTypeOK
<1> QED BY <1>1, <1>2, <1>3, <1>4, <1>5, <1>6

LEMMA LocPair ==
  ASSUME LocTypeOK, NEW j \in Job, NEW g \in Goal, NEW s \in Stages
  PROVE  [loc EXCEPT ![j].about = g, ![j].stage = s] \in [Job -> Loc]
<1>1. loc[j] \in Loc
  BY DEF LocTypeOK
<1>2. [loc[j] EXCEPT !.about = g, !.stage = s] \in Loc
  BY <1>1 DEF Loc
<1>3. [loc EXCEPT ![j].about = g, ![j].stage = s] = [loc EXCEPT ![j] = [loc[j] EXCEPT !.about = g, !.stage = s]]
  BY <1>1 DEF Loc
<1> QED BY <1>2, <1>3 DEF LocTypeOK

LEMMA LocTriple ==
  ASSUME LocTypeOK, NEW j \in Job, NEW O \in SUBSET Task, NEW L \in SUBSET Task
  PROVE  [loc EXCEPT ![j].old = O, ![j].listed = L, ![j].marks = L] \in [Job -> Loc]
<1>1. loc[j] \in Loc
  BY DEF LocTypeOK
<1>2. [loc[j] EXCEPT !.old = O, !.listed = L, !.marks = L] \in Loc
  BY <1>1 DEF Loc
<1>3. [loc EXCEPT ![j].old = O, ![j].listed = L, ![j].marks = L]
        = [loc EXCEPT ![j] = [loc[j] EXCEPT !.old = O, !.listed = L, !.marks = L]]
  BY <1>1 DEF Loc
<1> QED BY <1>2, <1>3 DEF LocTypeOK

LEMMA TaskSet ==
  ASSUME task \in [Task -> Row], NEW t \in Task,
         \/ \E b \in BOOLEAN : task' = [task EXCEPT ![t].overdue = b]
         \/ task' = [task EXCEPT ![t].marked = TRUE] \/ task' = [task EXCEPT ![t].archived = TRUE]
         \/ task' = [task EXCEPT ![t].completed = ~ @]
  PROVE  task' \in [Task -> Row]
<1>1. ASSUME NEW b \in BOOLEAN, task' = [task EXCEPT ![t].overdue = b] PROVE task' \in [Task -> Row]
  BY <1>1 DEF Row
<1>2. CASE task' = [task EXCEPT ![t].marked = TRUE]
  BY <1>2 DEF Row
<1>3. CASE task' = [task EXCEPT ![t].archived = TRUE]
  BY <1>3 DEF Row
<1>4. CASE task' = [task EXCEPT ![t].completed = ~ @]
  BY <1>4 DEF Row
<1> QED BY <1>1, <1>2, <1>3, <1>4

(* The log keeps its newest rows. *)
LogTypeOK == log \in Seq(Entry) /\ Len(log) <= LogLimit

LEMMA LogType ==
  ASSUME LogTypeOK, NEW c \in Kinds \cup {"action"}, NEW x \in Goal \cup Feature \cup {None},
         LogAction(c, x)
  PROVE  LogTypeOK'
<1> DEFINE e == [type |-> c, about |-> x]
           l == Append(log, e)
<1>1. e \in Entry
  BY DEF Entry
<1>2. l \in Seq(Entry) /\ Len(l) = Len(log) + 1 /\ Len(log) \in Nat
  BY <1>1 DEF LogTypeOK
<1>3. log' = Newest(l)
  BY DEF LogAction
<1> HIDE DEF l
<1>4. CASE Len(l) > LogLimit
  <2>1. l # <<>>
    BY <1>2
  <2>2. Tail(l) \in Seq(Entry) /\ Len(Tail(l)) = Len(l) - 1
    BY <1>2, <2>1
  <2> QED BY <1>2, <1>3, <1>4, <2>2 DEF Newest, LogTypeOK
<1>5. CASE ~ Len(l) > LogLimit
  BY <1>2, <1>3, <1>5 DEF Newest, LogTypeOK
<1> QED BY <1>4, <1>5

(* What the rest of TypeOK says. *)
RestTypeOK ==
  /\ kind \in [Job -> Kinds] /\ at \in [Job -> At]
  /\ locked \subseteq Locked
  /\ task \in [Task -> Row]
  /\ goal \in [Goal -> [stage : Stages, active : BOOLEAN]]
  /\ milestones \subseteq Feature
  /\ tooSoon \subseteq Feature \cup {"profile_nudge"}
  /\ slips \in 0..MaxSlips /\ edits \in 0..MaxEdits

HistoryTypeOK ==
  /\ opened \subseteq Locked
  /\ told \subseteq Task /\ lapsed \subseteq Task
  /\ asked \in [Goal -> Seq(Stages)] /\ shaken \subseteq Goal
  /\ nudged \in [Feature -> Nat] /\ forgotten \subseteq Feature
  /\ sent \in [Job -> Nat] /\ renewed \subseteq Job

LEMMA TypeParts == TypeOK <=> RestTypeOK /\ HistoryTypeOK /\ LogTypeOK /\ LocTypeOK
BY DEF TypeOK, RestTypeOK, HistoryTypeOK, LogTypeOK, LocTypeOK, Loc, At, Row, Entry

LEMMA PartsNext == RestTypeOK' /\ HistoryTypeOK' /\ LogTypeOK' /\ LocTypeOK' => TypeOK'
BY DEF TypeOK, RestTypeOK, HistoryTypeOK, LogTypeOK, LocTypeOK, Loc, At, Row, Entry

LEMMA InitTypeOK == Init => TypeOK
<1> SUFFICES ASSUME Init PROVE TypeOK
  OBVIOUS
<1>1. RestTypeOK
  BY DEF Init, RestTypeOK, At, Row, NewTask, Stages
<1>2. HistoryTypeOK
  BY DEF Init, HistoryTypeOK
<1>3. LogTypeOK
  BY DEF Init, LogTypeOK
<1>4. LocTypeOK
  BY NoLocType DEF Init, LocTypeOK
<1> QED BY <1>1, <1>2, <1>3, <1>4, TypeParts

------------------------------------------------------------------------------
(* The four handlers that gather and write. *)
Gathers(j) ==
  /\ kind[j] \in {"evening_recap", "goal_checkin", "weekly_digest", "insight_observation"}
  /\ at[j] = "read"
  /\ Goto(j, "over") \/ Goto(j, "write")
  /\ UNCHANGED <<loc, readOnly, shaken, forgotten>>

JobStep(j) ==
  \/ Dispatch(j) \/ Start(j) \/ Suppress(j)
  \/ kind[j] = "morning_briefing" /\ (ReadTasks(j) \/ Archive(j) \/ MarkFollowUp(j) \/ Tidied(j))
  \/ Gathers(j)
  \/ kind[j] = "profile_nudge" /\ (ReadNudges(j) \/ CountNudge(j))
  \/ kind[j] = "feature_discovery" /\ PickFeature(j)
  \/ kind[j] = "smart_checkin" /\ CheckIn(j)
  \/ kind[j] = "goal_coaching" /\ (PickGoal(j) \/ RereadGoal(j) \/ AdvanceGoal(j))
  \/ RequeueViaManager(j) \/ LogRequeue(j) \/ WriteText(j) \/ SendText(j)
  \/ Acknowledge(j) \/ GiveUp(j)

OtherStep ==
  \/ WorkerDies
  \/ \E c \in Locked : LockExpires(c)
  \/ WeeksPass
  \/ UserStep

LEMMA Steps == Next => (\E j \in Job : JobStep(j)) \/ OtherStep
BY DEF Next, HandlerStep, MorningBriefing, EveningRecap, GoalCheckin, WeeklyDigest, InsightObservation,
       ProfileNudge, FeatureDiscovery, SmartCheckin, GoalCoaching, Gather, Gathers, JobStep, OtherStep

LEMMA JobTypes ==
  ASSUME TypeOK, NEW j \in Job, JobStep(j)
  PROVE  TypeOK'
<1>0. RestTypeOK /\ HistoryTypeOK /\ LogTypeOK /\ LocTypeOK /\ loc[j] \in Loc
  BY TypeParts DEF LocTypeOK
<1>a. loc[j].about \in Goal \cup Feature \cup {None} /\ loc[j].stage \in Stages
      /\ loc[j].old \subseteq Task /\ loc[j].listed \subseteq Task /\ loc[j].marks \subseteq Task
      /\ kind[j] \in Kinds
  BY <1>0 DEF Loc, RestTypeOK
<1> USE DEF Running, At
<1>1. ASSUME Dispatch(j) \/ Suppress(j) \/ Tidied(j) \/ Gathers(j) \/ CheckIn(j)
      PROVE  TypeOK'
  <2>1. RestTypeOK'
    BY <1>0, <1>1 DEF RestTypeOK, Dispatch, Suppress, Tidied, Gathers, CheckIn
  <2>2. UNCHANGED <<loc, log, historyVars>>
    BY <1>1 DEF Dispatch, Suppress, Tidied, Gathers, CheckIn
  <2> QED BY <1>0, <2>1, <2>2, PartsNext DEF HistoryTypeOK, LogTypeOK, LocTypeOK
<1>2. ASSUME Start(j) PROVE TypeOK'
  <2>1. RestTypeOK' /\ HistoryTypeOK'
    BY <1>0, <1>2 DEF RestTypeOK, HistoryTypeOK, Start, Claim
  <2>2. LocTypeOK'
    <3>1. UNCHANGED loc \/ loc' = [loc EXCEPT ![j].holds = TRUE]
      BY <1>2 DEF Start, Claim
    <3> QED BY <1>0, <3>1, LocSet
  <2> QED BY <1>0, <1>2, <2>1, <2>2, PartsNext DEF LogTypeOK, Start
<1>3. ASSUME ReadTasks(j) PROVE TypeOK'
  <2>1. PICK O \in SUBSET Task, L \in SUBSET Task :
          loc' = [loc EXCEPT ![j].old = O, ![j].listed = L, ![j].marks = L]
    BY <1>3 DEF ReadTasks
  <2>2. LocTypeOK'
    BY <1>0, <2>1, LocTriple DEF LocTypeOK
  <2>3. RestTypeOK' /\ HistoryTypeOK' /\ LogTypeOK'
    BY <1>0, <1>3 DEF RestTypeOK, HistoryTypeOK, LogTypeOK, ReadTasks
  <2> QED BY <2>2, <2>3, PartsNext
<1>4. ASSUME Archive(j) \/ MarkFollowUp(j) PROVE TypeOK'
  <2>1. PICK t \in Task : task' = [task EXCEPT ![t].archived = TRUE] \/ task' = [task EXCEPT ![t].marked = TRUE]
    BY <1>4, <1>a DEF Archive, MarkFollowUp
  <2>2. task' \in [Task -> Row]
    <3>1. task \in [Task -> Row]
      BY <1>0 DEF RestTypeOK
    <3> QED BY <2>1, <3>1, TaskSet
  <2>3. PICK S \in SUBSET Task : loc' = [loc EXCEPT ![j].old = S] \/ loc' = [loc EXCEPT ![j].marks = S]
    <3>1. CASE Archive(j)
      <4>1. PICK x \in loc[j].old : loc' = [loc EXCEPT ![j].old = @ \ {x}]
        BY <3>1 DEF Archive
      <4>2. loc[j].old \ {x} \in SUBSET Task
        BY <1>a
      <4> QED BY <4>1, <4>2
    <3>2. CASE MarkFollowUp(j)
      <4>1. PICK x \in loc[j].marks : loc' = [loc EXCEPT ![j].marks = @ \ {x}]
        BY <3>2 DEF MarkFollowUp
      <4>2. loc[j].marks \ {x} \in SUBSET Task
        BY <1>a
      <4> QED BY <4>1, <4>2
    <3> QED BY <1>4, <3>1, <3>2
  <2>4. LocTypeOK'
    BY <1>0, <2>3, LocSet
  <2>5. RestTypeOK' /\ HistoryTypeOK' /\ LogTypeOK'
    BY <1>0, <1>4, <2>2 DEF RestTypeOK, HistoryTypeOK, LogTypeOK, Archive, MarkFollowUp
  <2> QED BY <2>4, <2>5, PartsNext
<1>5. ASSUME ReadNudges(j) \/ CountNudge(j) PROVE TypeOK'
  <2>1. RestTypeOK'
    <3>1. CASE ReadNudges(j)
      BY <1>0, <3>1 DEF RestTypeOK, ReadNudges
    <3>2. CASE CountNudge(j)
      BY <1>0, <3>2 DEF RestTypeOK, CountNudge
    <3> QED BY <1>5, <3>1, <3>2
  <2>2. LogTypeOK' /\ LocTypeOK' /\ HistoryTypeOK'
    BY <1>0, <1>5 DEF LogTypeOK, LocTypeOK, HistoryTypeOK, ReadNudges, CountNudge
  <2> QED BY <2>1, <2>2, PartsNext
<1>6. ASSUME PickFeature(j) PROVE TypeOK'
  <2>1. RestTypeOK' /\ HistoryTypeOK' /\ LogTypeOK'
    BY <1>0, <1>6 DEF RestTypeOK, HistoryTypeOK, LogTypeOK, PickFeature
  <2>2. LocTypeOK'
    <3>1. UNCHANGED loc \/ \E f \in Goal \cup Feature : loc' = [loc EXCEPT ![j].about = f]
      BY <1>6 DEF PickFeature
    <3> QED BY <1>0, <3>1, LocSet
  <2> QED BY <2>1, <2>2, PartsNext
<1>7. ASSUME PickGoal(j) PROVE TypeOK'
  <2>1. RestTypeOK' /\ HistoryTypeOK' /\ LogTypeOK'
    BY <1>0, <1>7 DEF RestTypeOK, HistoryTypeOK, LogTypeOK, PickGoal
  <2>2. \A g \in Goal : goal[g].stage \in Stages
    BY <1>0 DEF RestTypeOK
  <2>3. LocTypeOK'
    <3>1. UNCHANGED loc \/ \E g \in Goal : loc' = [loc EXCEPT ![j].about = g, ![j].stage = goal[g].stage]
      BY <1>7 DEF PickGoal
    <3>2. ASSUME NEW g \in Goal, loc' = [loc EXCEPT ![j].about = g, ![j].stage = goal[g].stage]
          PROVE  LocTypeOK'
      BY <1>0, <2>2, <3>2, LocPair DEF LocTypeOK
    <3> QED BY <1>0, <3>1, <3>2 DEF LocTypeOK
  <2> QED BY <2>1, <2>3, PartsNext
<1>8. ASSUME RereadGoal(j) PROVE TypeOK'
  <2>1. RestTypeOK' /\ HistoryTypeOK' /\ LogTypeOK'
    BY <1>0, <1>8 DEF RestTypeOK, HistoryTypeOK, LogTypeOK, RereadGoal
  <2>2. \A g \in Goal : goal[g].stage \in Stages
    BY <1>0 DEF RestTypeOK
  <2>3. LocTypeOK'
    <3>1. \E s \in Stages : loc' = [loc EXCEPT ![j].stage = s]
      BY <1>8, <2>2 DEF RereadGoal, Coached
    <3> QED BY <1>0, <3>1, LocSet
  <2> QED BY <2>1, <2>3, PartsNext
<1>9. ASSUME AdvanceGoal(j) PROVE TypeOK'
  <2>1. goal' \in [Goal -> [stage : Stages, active : BOOLEAN]]
    <3>1. NextStage(loc[j].stage) \in Stages
      BY <1>a DEF NextStage, Stages
    <3>2. ASSUME NEW g \in Goal
          PROVE  [goal[g] EXCEPT !.stage = NextStage(loc[j].stage)] \in [stage : Stages, active : BOOLEAN]
      <4>1. goal[g] \in [stage : Stages, active : BOOLEAN]
        BY <1>0 DEF RestTypeOK
      <4> QED BY <3>1, <4>1
    <3> QED BY <1>0, <1>9, <3>2 DEF AdvanceGoal, RestTypeOK
  <2>2. RestTypeOK' /\ HistoryTypeOK' /\ LogTypeOK' /\ LocTypeOK'
    BY <1>0, <1>9, <2>1 DEF RestTypeOK, HistoryTypeOK, LogTypeOK, LocTypeOK, AdvanceGoal
  <2> QED BY <2>2, PartsNext
<1>10. ASSUME RequeueViaManager(j) PROVE TypeOK'
  <2>1. asked' \in [Goal -> Seq(Stages)]
    <3>1. \A g \in Goal : asked[g] \in Seq(Stages) /\ Append(asked[g], loc[j].stage) \in Seq(Stages)
      BY <1>0, <1>a DEF HistoryTypeOK
    <3> QED BY <1>0, <1>10, <3>1 DEF RequeueViaManager, HistoryTypeOK
  <2>2. RestTypeOK'
    BY <1>0, <1>10 DEF RestTypeOK, RequeueViaManager
  <2>3. HistoryTypeOK'
    BY <1>0, <1>10, <2>1 DEF HistoryTypeOK, RequeueViaManager, Coached
  <2>4. LogTypeOK' /\ LocTypeOK'
    BY <1>0, <1>10 DEF LogTypeOK, LocTypeOK, RequeueViaManager
  <2> QED BY <2>2, <2>3, <2>4, PartsNext
<1>11. ASSUME LogRequeue(j) PROVE TypeOK'
  <2>1. RestTypeOK' /\ HistoryTypeOK' /\ LocTypeOK'
    BY <1>0, <1>11 DEF RestTypeOK, HistoryTypeOK, LocTypeOK, LogRequeue
  <2>2. LogTypeOK'
    BY <1>0, <1>a, <1>11, LogType DEF LogRequeue, LogTypeOK
  <2> QED BY <2>1, <2>2, PartsNext
<1>12. ASSUME WriteText(j) PROVE TypeOK'
  <2>1. RestTypeOK' /\ HistoryTypeOK' /\ LocTypeOK'
    BY <1>0, <1>12 DEF RestTypeOK, HistoryTypeOK, LocTypeOK, WriteText
  <2>2. LogTypeOK'
    BY <1>0, <1>a, <1>12, LogType DEF WriteText
  <2> QED BY <2>1, <2>2, PartsNext
<1>13. ASSUME SendText(j) PROVE TypeOK'
  <2>1. RestTypeOK' /\ LogTypeOK' /\ LocTypeOK'
    BY <1>0, <1>13 DEF RestTypeOK, LogTypeOK, LocTypeOK, SendText
  <2>2. HistoryTypeOK'
    BY <1>0, <1>a, <1>13 DEF HistoryTypeOK, SendText
  <2> QED BY <2>1, <2>2, PartsNext
<1>14. ASSUME Acknowledge(j) \/ GiveUp(j) PROVE TypeOK'
  <2>1. RestTypeOK' /\ LogTypeOK'
    <3>1. CASE Acknowledge(j)
      BY <1>0, <3>1 DEF RestTypeOK, LogTypeOK, Acknowledge
    <3>2. CASE GiveUp(j)
      BY <1>0, <3>2 DEF RestTypeOK, LogTypeOK, GiveUp
    <3> QED BY <1>14, <3>1, <3>2
  <2>2. HistoryTypeOK' /\ LocTypeOK'
    BY <1>0, <1>14, NoLocType DEF HistoryTypeOK, LocTypeOK, Acknowledge, GiveUp, Abandon
  <2> QED BY <2>1, <2>2, PartsNext
<1> QED BY <1>1, <1>2, <1>3, <1>4, <1>5, <1>6, <1>7, <1>8, <1>9, <1>10, <1>11, <1>12, <1>13, <1>14
        DEF JobStep

LEMMA OtherTypes ==
  ASSUME TypeOK, OtherStep
  PROVE  TypeOK'
<1>0. RestTypeOK /\ HistoryTypeOK /\ LogTypeOK /\ LocTypeOK
  BY TypeParts
<1> USE DEF Running, At
<1>1. ASSUME WorkerDies PROVE TypeOK'
  BY <1>0, <1>1, NoLocType, PartsNext
     DEF WorkerDies, Abandon, RestTypeOK, HistoryTypeOK, LogTypeOK, LocTypeOK
<1>2. ASSUME WeeksPass PROVE TypeOK'
  BY <1>0, <1>2, PartsNext DEF WeeksPass, RestTypeOK, HistoryTypeOK, LogTypeOK, LocTypeOK
<1>a. ASSUME NEW c \in Locked, LockExpires(c) PROVE TypeOK'
  BY <1>0, <1>a, PartsNext DEF LockExpires, RestTypeOK, HistoryTypeOK, LogTypeOK, LocTypeOK
<1>b. ASSUME NEW f \in Feature, Discovers(f) PROVE TypeOK'
  BY <1>0, <1>b, PartsNext DEF Discovers, RestTypeOK, HistoryTypeOK, LogTypeOK, LocTypeOK
<1>3. ASSUME NEW t \in Task, ComesDue(t) \/ MoveTask(t) \/ SetCompleted(t) PROVE TypeOK'
  <2>1. task' \in [Task -> Row]
    <3>1. task \in [Task -> Row]
      BY <1>0 DEF RestTypeOK
    <3> QED BY <1>3, <3>1, TaskSet DEF ComesDue, MoveTask, SetCompleted
  <2>2. RestTypeOK' /\ LogTypeOK' /\ LocTypeOK'
    BY <1>0, <1>3, <2>1 DEF RestTypeOK, LogTypeOK, LocTypeOK, ComesDue, MoveTask, SetCompleted
  <2>3. HistoryTypeOK'
    BY <1>0, <1>3 DEF HistoryTypeOK, ComesDue, MoveTask, SetCompleted
  <2> QED BY <2>2, <2>3, PartsNext
<1>4. ASSUME NEW g \in Goal, SetActive(g) PROVE TypeOK'
  <2>1. goal' \in [Goal -> [stage : Stages, active : BOOLEAN]]
    <3>1. goal \in [Goal -> [stage : Stages, active : BOOLEAN]]
      BY <1>0 DEF RestTypeOK
    <3>2. goal' = [goal EXCEPT ![g].active = ~ goal[g].active]
      BY <1>4 DEF SetActive
    <3> QED BY <3>1, <3>2
  <2>a. RestTypeOK'
    BY <1>0, <1>4, <2>1 DEF RestTypeOK, SetActive
  <2>2. HistoryTypeOK' /\ LogTypeOK' /\ LocTypeOK'
    BY <1>0, <1>4 DEF HistoryTypeOK, LogTypeOK, LocTypeOK, SetActive
  <2> QED BY <2>a, <2>2, PartsNext
<1>5. ASSUME UserActs PROVE TypeOK'
  <2>1. RestTypeOK' /\ HistoryTypeOK' /\ LocTypeOK'
    BY <1>0, <1>5 DEF RestTypeOK, HistoryTypeOK, LocTypeOK, UserActs
  <2>2. LogTypeOK'
    BY <1>0, <1>5, LogType DEF UserActs
  <2> QED BY <2>1, <2>2, PartsNext
<1>6. ASSUME UserStep PROVE TypeOK'
  <2>1. CASE \E t \in Task : ComesDue(t) \/ MoveTask(t) \/ SetCompleted(t)
    BY <1>3, <2>1
  <2>2. CASE \E g \in Goal : SetActive(g)
    BY <1>4, <2>2
  <2>3. CASE (\E f \in Feature : Discovers(f)) \/ UserActs
    BY <1>5, <1>b, <2>3
  <2> QED BY <1>6, <2>1, <2>2, <2>3 DEF UserStep
<1> QED BY <1>1, <1>2, <1>6, <1>a DEF OtherStep

LEMMA NextTypes == TypeOK /\ [Next]_vars => TypeOK'
<1>1. ASSUME TypeOK, UNCHANGED vars PROVE TypeOK'
  BY <1>1 DEF TypeOK, vars
<1> QED BY <1>1, Steps, JobTypes, OtherTypes

(* Every variable keeps its type; the log never holds more rows than are   *)
(* read of it.                                                             *)
THEOREM TypeCorrect == Spec => []TypeOK
<1> QED BY InitTypeOK, NextTypes, PTL DEF Spec

------------------------------------------------------------------------------
(* A job leaves the others' places and locals alone. *)
LEMMA JobFrame ==
  ASSUME TypeOK, NEW j \in Job, JobStep(j)
  PROVE  kind' = kind /\ \A k \in Job : k # j => at'[k] = at[k] /\ loc'[k] = loc[k]
<1>0. at \in [Job -> At] /\ loc \in [Job -> Loc]
  BY TypeParts DEF RestTypeOK, LocTypeOK
<1>1. kind' = kind
  BY DEF JobStep, Dispatch, Start, Suppress, ReadTasks, Archive, MarkFollowUp, Tidied, Gathers, ReadNudges,
         CountNudge, PickFeature, CheckIn, PickGoal, RereadGoal, AdvanceGoal, RequeueViaManager, LogRequeue,
         WriteText, SendText, Acknowledge, GiveUp
<1>2. ASSUME NEW k \in Job, k # j PROVE at'[k] = at[k]
  BY <1>0, <1>2
     DEF JobStep, Dispatch, Start, Claim, Suppress, ReadTasks, Archive, MarkFollowUp, Tidied, Gathers, ReadNudges,
         CountNudge, PickFeature, CheckIn, PickGoal, RereadGoal, AdvanceGoal, RequeueViaManager, LogRequeue,
         WriteText, SendText, Acknowledge, GiveUp
<1>3. ASSUME NEW k \in Job, k # j PROVE loc'[k] = loc[k]
  BY <1>0, <1>3
     DEF JobStep, Dispatch, Start, Claim, Suppress, ReadTasks, Archive, MarkFollowUp, Tidied, Gathers, ReadNudges,
         CountNudge, PickFeature, CheckIn, PickGoal, RereadGoal, AdvanceGoal, RequeueViaManager, LogRequeue,
         WriteText, SendText, Acknowledge, GiveUp
<1> QED BY <1>1, <1>2, <1>3

(* What a job carries where: nothing before it runs, a goal or a feature   *)
(* in the handler it belongs to, tasks to follow up on until it has sent.  *)
Carries(j) ==
  /\ at[j] \in {"idle", "queued", "done"} => loc[j] = NoLoc
  /\ at[j] \in {"read", "count", "requeue", "asked", "reread", "advance"} => loc[j].listed = {}
  /\ at[j] = "read" => loc[j].about = None
  /\ at[j] \in Running /\ loc[j].about \in Goal =>
       kind[j] = "goal_coaching" /\ at[j] \in {"requeue", "asked", "reread", "advance"}
  /\ at[j] \in Running /\ loc[j].about \in Feature =>
       kind[j] = "feature_discovery" /\ at[j] \in {"write", "logged"}
  /\ at[j] \in Running /\ kind[j] = "profile_nudge" => at[j] \in {"read", "count", "write", "logged"}

CarryInv == \A j \in Job : Carries(j)

LEMMA JobCarries ==
  ASSUME TypeOK, CarryInv, NEW j \in Job, JobStep(j)
  PROVE  Carries(j)'
<1>0. /\ at \in [Job -> At] /\ loc \in [Job -> Loc] /\ loc[j] \in Loc
      /\ Carries(j) /\ kind' = kind
  BY TypeParts, JobFrame DEF RestTypeOK, LocTypeOK, CarryInv
<1> USE DEF Carries, Running
<1>1. CASE Dispatch(j) \/ Suppress(j) \/ Tidied(j) \/ Gathers(j) \/ (CheckIn(j) /\ kind[j] = "smart_checkin")
  BY <1>0, <1>1 DEF Dispatch, Suppress, Tidied, Gathers, CheckIn, Loc
<1>2. CASE Start(j)
  BY <1>0, <1>2 DEF Start, Claim, NoLoc, Loc
<1>3. CASE ReadTasks(j) /\ kind[j] = "morning_briefing"
  <2>1. PICK O \in SUBSET Task, L \in SUBSET Task :
          loc' = [loc EXCEPT ![j].old = O, ![j].listed = L, ![j].marks = L]
    BY <1>3 DEF ReadTasks
  <2>2. loc'[j].about = loc[j].about
    BY <1>0, <2>1 DEF Loc
  <2>3. at[j] = "read" /\ at'[j] = "tidy"
    BY <1>0, <1>3 DEF ReadTasks
  <2> QED BY <1>0, <1>3, <2>2, <2>3
<1>4. CASE (Archive(j) \/ MarkFollowUp(j)) /\ kind[j] = "morning_briefing"
  BY <1>0, <1>4 DEF Archive, MarkFollowUp, Loc
<1>5. CASE (ReadNudges(j) \/ CountNudge(j)) /\ kind[j] = "profile_nudge"
  BY <1>0, <1>5 DEF ReadNudges, CountNudge, Loc
<1>6. CASE PickFeature(j) /\ kind[j] = "feature_discovery"
  BY <1>0, <1>6 DEF PickFeature, Loc
<1>7. CASE PickGoal(j) /\ kind[j] = "goal_coaching"
  <2>1. CASE UNCHANGED loc
    BY <1>0, <1>7, <2>1 DEF PickGoal
  <2>2. ASSUME NEW g \in Goal, loc' = [loc EXCEPT ![j].about = g, ![j].stage = goal[g].stage], at'[j] = "requeue"
        PROVE  Carries(j)'
    <3>1. loc'[j].about = g /\ loc'[j].listed = loc[j].listed
      BY <1>0, <2>2 DEF Loc
    <3>2. at[j] = "read" /\ g \notin Feature
      BY <1>7 DEF PickGoal, SetsAssumption
    <3> QED BY <1>0, <1>7, <2>2, <3>1, <3>2
  <2> QED BY <1>0, <1>7, <2>1, <2>2 DEF PickGoal
<1>8. CASE RereadGoal(j) /\ kind[j] = "goal_coaching"
  BY <1>0, <1>8 DEF RereadGoal, Coached, Loc
<1>9. CASE AdvanceGoal(j) /\ kind[j] = "goal_coaching"
  BY <1>0, <1>9 DEF AdvanceGoal, Loc
<1>10. CASE RequeueViaManager(j) \/ LogRequeue(j)
  BY <1>0, <1>10 DEF RequeueViaManager, LogRequeue, Coached, Loc
<1>11. CASE WriteText(j) \/ SendText(j)
  BY <1>0, <1>11 DEF WriteText, SendText, Loc
<1>12. CASE Acknowledge(j) \/ GiveUp(j)
  BY <1>0, <1>12 DEF Acknowledge, GiveUp
<1>13. JobStep(j)
  OBVIOUS
<1> HIDE DEF Carries
<1> QED BY <1>1, <1>2, <1>3, <1>4, <1>5, <1>6, <1>7, <1>8, <1>9, <1>10, <1>11, <1>12, <1>13 DEF JobStep

LEMMA InitCarry == Init => CarryInv
BY DEF Init, CarryInv, Carries, NoLoc, Running

LEMMA NextCarry == TypeOK /\ CarryInv /\ [Next]_vars => CarryInv'
<1> SUFFICES ASSUME TypeOK, CarryInv, [Next]_vars PROVE CarryInv'
  OBVIOUS
<1>1. ASSUME NEW j \in Job, JobStep(j) PROVE CarryInv'
  <2>1. \A k \in Job : k # j => Carries(k)'
    BY <1>1, JobFrame DEF CarryInv, Carries
  <2> QED BY <1>1, <2>1, JobCarries DEF CarryInv
<1>2. ASSUME UNCHANGED <<kind, at, loc>> PROVE CarryInv'
  BY <1>2 DEF CarryInv, Carries
<1>3. CASE WorkerDies
  <2>1. \A k \in Job : loc'[k] = NoLoc /\ (at'[k] \notin Running)
    BY <1>3, TypeParts DEF WorkerDies, RestTypeOK, Running, At
  <2> QED BY <2>1 DEF CarryInv, Carries, NoLoc, Running
<1>4. CASE OtherStep /\ ~ WorkerDies
  BY <1>2, <1>4 DEF OtherStep, UserStep, LockExpires, WeeksPass, ComesDue, MoveTask, SetCompleted, SetActive,
                    Discovers, UserActs
<1> QED BY <1>1, <1>2, <1>3, <1>4, Steps DEF vars

------------------------------------------------------------------------------
(* Who runs without its category being open holds the lock, which is set,  *)
(* and one job at a time holds it.                                         *)
LockInv ==
  \A j \in Job : at[j] \in Running =>
    /\ kind[j] \in Locked \ opened => loc[j].holds
    /\ loc[j].holds => /\ kind[j] \in locked
                       /\ \A k \in Job : at[k] \in Running /\ loc[k].holds /\ kind[k] = kind[j] => k = j

(* After its start a handler keeps its lock while it runs. *)
LEMMA LockKept ==
  ASSUME TypeOK, NEW j \in Job, JobStep(j), ~ Start(j)
  PROVE  /\ UNCHANGED <<locked, opened>>
         /\ at'[j] \in Running => at[j] \in Running /\ loc'[j].holds = loc[j].holds
<1>0. at \in [Job -> At] /\ loc \in [Job -> Loc] /\ loc[j] \in Loc
  BY TypeParts DEF RestTypeOK, LocTypeOK
<1>1. UNCHANGED <<locked, opened>>
  BY DEF JobStep, Dispatch, Suppress, ReadTasks, Archive, MarkFollowUp, Tidied, Gathers, ReadNudges,
         CountNudge, PickFeature, CheckIn, PickGoal, RereadGoal, AdvanceGoal, RequeueViaManager, LogRequeue,
         WriteText, SendText, Acknowledge, GiveUp
<1>2. at'[j] \in Running => at[j] \in Running
  BY <1>0
     DEF JobStep, Dispatch, Suppress, ReadTasks, Archive, MarkFollowUp, Tidied, Gathers, ReadNudges,
         CountNudge, PickFeature, CheckIn, PickGoal, RereadGoal, AdvanceGoal, RequeueViaManager, LogRequeue,
         WriteText, SendText, Acknowledge, GiveUp, Running
<1>3. ASSUME at'[j] \in Running PROVE loc'[j].holds = loc[j].holds
  <2>1. CASE ReadTasks(j)
    <3>1. PICK O \in SUBSET Task, L \in SUBSET Task :
            loc' = [loc EXCEPT ![j].old = O, ![j].listed = L, ![j].marks = L]
      BY <2>1 DEF ReadTasks
    <3> QED BY <1>0, <3>1 DEF Loc
  <2>2. CASE Archive(j) \/ MarkFollowUp(j)
    BY <1>0, <2>2 DEF Archive, MarkFollowUp, Loc
  <2>3. CASE PickFeature(j)
    BY <1>0, <2>3 DEF PickFeature, Loc
  <2>4. CASE PickGoal(j)
    <3>1. UNCHANGED loc \/ \E g \in Goal : loc' = [loc EXCEPT ![j].about = g, ![j].stage = goal[g].stage]
      BY <2>4 DEF PickGoal
    <3>2. ASSUME NEW g \in Goal, loc' = [loc EXCEPT ![j].about = g, ![j].stage = goal[g].stage]
          PROVE  loc'[j].holds = loc[j].holds
      BY <1>0, <3>2 DEF Loc
    <3> QED BY <3>1, <3>2
  <2>5. CASE RereadGoal(j)
    BY <1>0, <2>5 DEF RereadGoal, Loc
  <2>6. CASE Acknowledge(j)
    BY <1>0, <1>3, <2>6 DEF Acknowledge, Running
  <2>7. CASE UNCHANGED loc
    BY <2>7
  <2>8. JobStep(j) /\ ~ Start(j)
    OBVIOUS
  <2> QED BY <2>1, <2>2, <2>3, <2>4, <2>5, <2>6, <2>7, <2>8
          DEF JobStep, Dispatch, Suppress, Tidied, Gathers, ReadNudges, CountNudge, CheckIn, AdvanceGoal,
              RequeueViaManager, LogRequeue, WriteText, SendText, GiveUp
<1> QED BY <1>1, <1>2, <1>3

LEMMA InitLock == Init => LockInv
BY DEF Init, LockInv, Running

LEMMA NextLock == TypeOK /\ CarryInv /\ LockInv /\ [Next]_vars => LockInv'
<1> SUFFICES ASSUME TypeOK, CarryInv, LockInv, [Next]_vars PROVE LockInv'
  OBVIOUS
<1>0. at \in [Job -> At] /\ loc \in [Job -> Loc] /\ kind \in [Job -> Kinds]
  BY TypeParts DEF RestTypeOK, LocTypeOK
<1>1. ASSUME NEW j \in Job, Start(j) PROVE LockInv'
  <2>1. /\ kind' = kind
        /\ \A k \in Job : k # j => at'[k] = at[k] /\ loc'[k] = loc[k]
    BY <1>1, JobFrame DEF JobStep
  <2>2. at[j] = "queued" /\ ~ loc[j].holds
    BY <1>1 DEF Start, CarryInv, Carries, NoLoc
  <2>3. CASE /\ kind[j] \in Locked \ locked /\ opened' = opened
             /\ locked' = locked \cup {kind[j]} /\ loc' = [loc EXCEPT ![j].holds = TRUE]
    <3>1. loc'[j].holds /\ kind[j] \in locked'
      BY <1>0, <2>3 DEF Loc
    <3>2. ASSUME NEW k \in Job, k # j, at[k] \in Running, loc[k].holds PROVE kind[k] # kind[j]
      BY <2>3, <3>2 DEF LockInv
    <3> QED BY <2>1, <2>3, <3>1, <3>2 DEF LockInv
  <2>4. CASE locked' = locked /\ opened' = opened /\ loc' = loc /\ (kind[j] \notin Locked \/ at'[j] = "over")
    BY <2>1, <2>2, <2>4 DEF LockInv, Running
  <2>5. CASE locked' = locked /\ opened' = opened \cup {kind[j]} /\ loc' = loc
    BY <2>1, <2>2, <2>5 DEF LockInv
  <2>6. Start(j) /\ at'[j] \in {"read", "over"}
    BY <1>0, <1>1 DEF Start, Claim
  <2> QED BY <1>0, <2>3, <2>4, <2>5, <2>6 DEF Start, Claim
<1>2. ASSUME NEW j \in Job, JobStep(j), ~ Start(j) PROVE LockInv'
  BY <1>2, JobFrame, LockKept DEF LockInv
<1>3. ASSUME NEW c \in Locked, LockExpires(c) PROVE LockInv'
  BY <1>3 DEF LockExpires, LockInv
<1>4. CASE WorkerDies
  <2>1. \A k \in Job : at'[k] \notin Running
    BY <1>0, <1>4 DEF WorkerDies, Running, At
  <2> QED BY <2>1 DEF LockInv
<1>5. ASSUME UNCHANGED <<kind, at, loc, locked, opened>> PROVE LockInv'
  BY <1>5 DEF LockInv
<1>6. CASE WeeksPass \/ UserStep
  BY <1>5, <1>6 DEF UserStep, WeeksPass, ComesDue, MoveTask, SetCompleted, SetActive, Discovers, UserActs
<1> QED BY <1>1, <1>2, <1>3, <1>4, <1>5, <1>6, Steps DEF vars, OtherStep

(* Handlers of a locked category do not overlap: whoever runs holds the    *)
(* lock, and no lock is given to two, whatever dies and is run again.      *)
THEOREM HandlersTakeTurns == Spec => []OneAtATime
<1>1. LockInv => OneAtATime
  BY DEF LockInv, OneAtATime
<1> QED BY InitTypeOK, InitCarry, InitLock, NextTypes, NextCarry, NextLock, <1>1, PTL DEF Spec

------------------------------------------------------------------------------
(* A profile nudge that is not to be repeated has not been sent twice: the *)
(* time of the last one is kept before the text is written, and no interval*)
(* passes for a job that is not done.                                      *)
Nudges(j) ==
  kind[j] = "profile_nudge" /\ j \notin renewed =>
    /\ sent[j] <= 1
    /\ sent[j] = 1 /\ at[j] # "done" => "profile_nudge" \in tooSoon
    /\ at[j] \in {"count", "write", "logged"} => sent[j] = 0
    /\ at[j] \in {"write", "logged"} => "profile_nudge" \in tooSoon

NudgeInv == \A j \in Job : Nudges(j)

LEMMA InitNudge == Init => NudgeInv
BY DEF Init, NudgeInv, Nudges

(* What a step does to the job that takes it. *)
LEMMA OwnNudge ==
  ASSUME TypeOK, CarryInv, NudgeInv, NEW j \in Job, JobStep(j)
  PROVE  Nudges(j)'
<1> SUFFICES ASSUME kind'[j] = "profile_nudge", j \notin renewed' PROVE Nudges(j)'
  BY DEF Nudges
<1>0. /\ at \in [Job -> At] /\ sent \in [Job -> Nat] /\ kind[j] = "profile_nudge"
      /\ at[j] \in Running => at[j] \in {"read", "count", "write", "logged"}
  BY TypeParts, JobFrame DEF RestTypeOK, HistoryTypeOK, CarryInv, Carries
<1>1. renewed \subseteq renewed' /\ tooSoon \subseteq tooSoon'
  BY DEF JobStep, Dispatch, Start, Suppress, ReadTasks, Archive, MarkFollowUp, Tidied, Gathers, ReadNudges,
         CountNudge, PickFeature, CheckIn, PickGoal, RereadGoal, AdvanceGoal, RequeueViaManager, LogRequeue,
         WriteText, SendText, Acknowledge, GiveUp
<1>2. Nudges(j) /\ j \notin renewed
  BY <1>1 DEF NudgeInv
<1> USE DEF Nudges, Running
<1>3. CASE Dispatch(j) \/ Start(j) \/ Suppress(j) \/ Acknowledge(j) \/ GiveUp(j)
  BY <1>0, <1>1, <1>2, <1>3 DEF Dispatch, Start, Claim, Suppress, Acknowledge, GiveUp, Locked
<1>4. CASE ReadNudges(j)
  BY <1>0, <1>1, <1>2, <1>4 DEF ReadNudges
<1>5. CASE CountNudge(j)
  BY <1>0, <1>1, <1>2, <1>5 DEF CountNudge
<1>6. CASE WriteText(j)
  BY <1>0, <1>1, <1>2, <1>6 DEF WriteText
<1>7. CASE SendText(j)
  BY <1>0, <1>1, <1>2, <1>7 DEF SendText
<1>8. JobStep(j)
  OBVIOUS
<1> HIDE DEF Nudges
<1> QED BY <1>0, <1>3, <1>4, <1>5, <1>6, <1>7, <1>8 DEF JobStep, Gathers, RequeueViaManager, LogRequeue

LEMMA NextNudge == TypeOK /\ CarryInv /\ NudgeInv /\ [Next]_vars => NudgeInv'
<1> SUFFICES ASSUME TypeOK, CarryInv, NudgeInv, [Next]_vars PROVE NudgeInv'
  OBVIOUS
<1>0. at \in [Job -> At] /\ sent \in [Job -> Nat]
  BY TypeParts DEF RestTypeOK, HistoryTypeOK
<1>1. ASSUME NEW j \in Job, JobStep(j) PROVE NudgeInv'
  <2>1. ASSUME NEW k \in Job, k # j PROVE Nudges(k)'
    <3>1. kind' = kind /\ at'[k] = at[k]
      BY <1>1, <2>1, JobFrame
    <3>2. renewed \subseteq renewed' /\ tooSoon \subseteq tooSoon'
      BY <1>1
         DEF JobStep, Dispatch, Start, Suppress, ReadTasks, Archive, MarkFollowUp, Tidied, Gathers, ReadNudges,
             CountNudge, PickFeature, CheckIn, PickGoal, RereadGoal, AdvanceGoal, RequeueViaManager, LogRequeue,
             WriteText, SendText, Acknowledge, GiveUp
    <3>3. sent'[k] = sent[k]
      BY <1>0, <1>1, <2>1
         DEF JobStep, Dispatch, Start, Suppress, ReadTasks, Archive, MarkFollowUp, Tidied, Gathers, ReadNudges,
             CountNudge, PickFeature, CheckIn, PickGoal, RereadGoal, AdvanceGoal, RequeueViaManager, LogRequeue,
             WriteText, SendText, Acknowledge, GiveUp
    <3> QED BY <3>1, <3>2, <3>3 DEF NudgeInv, Nudges
  <2> QED BY <1>1, <2>1, OwnNudge DEF NudgeInv
<1>2. ASSUME UNCHANGED <<kind, at, tooSoon, sent, renewed>> PROVE NudgeInv'
  BY <1>2 DEF NudgeInv, Nudges
<1>3. CASE WorkerDies
  <2>1. ASSUME NEW k \in Job
        PROVE  (at'[k] = "queued" /\ at[k] # "done") \/ at'[k] = at[k]
    BY <1>0, <1>3 DEF WorkerDies, Running
  <2>2. UNCHANGED <<kind, tooSoon, sent, renewed>>
    BY <1>3 DEF WorkerDies
  <2> QED BY <2>1, <2>2 DEF NudgeInv, Nudges
<1>4. CASE WeeksPass
  BY <1>0, <1>4 DEF WeeksPass, NudgeInv, Nudges, Running
<1>5. ASSUME NEW c \in Locked, LockExpires(c) PROVE NudgeInv'
  BY <1>2, <1>5 DEF LockExpires
<1>6. CASE UserStep
  BY <1>2, <1>6 DEF UserStep, ComesDue, MoveTask, SetCompleted, SetActive, Discovers, UserActs
<1> QED BY <1>1, <1>2, <1>3, <1>4, <1>5, <1>6, Steps DEF vars, OtherStep

(* A profile nudge is sent once, however often its job is run again,       *)
(* unless the counters were out of reach or its interval has passed since. *)
THEOREM NudgedAtMostOnce == Spec => []NudgedOnce
<1>1. TypeOK /\ NudgeInv => NudgedOnce
  BY TypeParts DEF HistoryTypeOK, NudgeInv, Nudges, NudgedOnce
<1> QED BY InitTypeOK, InitCarry, InitNudge, NextTypes, NextCarry, NextNudge, <1>1, PTL DEF Spec

------------------------------------------------------------------------------
(* A task is archived only when it was marked; who marked it has sent the  *)
(* text that follows up on it, is about to, or was stopped.                *)
Followed(t) ==
  \/ t \in told \cup lapsed
  \/ \E j \in Job : at[j] \in Running /\ t \in loc[j].listed

FollowUpInv ==
  /\ \A t \in Task : task[t].marked => Followed(t)
  /\ \A t \in Task : task[t].archived => task[t].marked
  /\ \A j \in Job : at[j] = "tidy" =>
       loc[j].marks \subseteq loc[j].listed /\ \A t \in loc[j].old : task[t].marked

LEMMA InitFollowUp == Init => FollowUpInv
BY DEF Init, FollowUpInv, NewTask

(* A step of a job other than these two neither marks nor archives, and    *)
(* goes on carrying the tasks it follows up on until it has sent its text. *)
LEMMA Keeps ==
  ASSUME TypeOK, CarryInv, NEW j \in Job, JobStep(j),
         ~ ReadTasks(j), ~ Archive(j), ~ MarkFollowUp(j)
  PROVE  /\ task' = task /\ lapsed \subseteq lapsed' /\ told \subseteq told'
         /\ at'[j] # "tidy" \/ (at[j] = "tidy" /\ loc'[j] = loc[j])
         /\ \A t \in Task : at[j] \in Running /\ t \in loc[j].listed /\ task[t].marked =>
              (at'[j] \in Running /\ t \in loc'[j].listed) \/ t \in told' \cup lapsed'
<1>0. at \in [Job -> At] /\ loc \in [Job -> Loc] /\ loc[j] \in Loc /\ Carries(j) /\ LocTypeOK
  BY TypeParts DEF RestTypeOK, LocTypeOK, CarryInv
<1>1. task' = task /\ lapsed \subseteq lapsed' /\ told \subseteq told'
  BY DEF JobStep, Dispatch, Start, Suppress, Tidied, Gathers, ReadNudges,
         CountNudge, PickFeature, CheckIn, PickGoal, RereadGoal, AdvanceGoal, RequeueViaManager, LogRequeue,
         WriteText, SendText, Acknowledge, GiveUp, Abandon
<1>2. at'[j] # "tidy" \/ (at[j] = "tidy" /\ loc'[j] = loc[j])
  BY <1>0
     DEF JobStep, Dispatch, Start, Claim, Suppress, Tidied, Gathers, ReadNudges,
         CountNudge, PickFeature, CheckIn, PickGoal, RereadGoal, AdvanceGoal, RequeueViaManager, LogRequeue,
         WriteText, SendText, Acknowledge, GiveUp
<1>3. ASSUME NEW t \in Task, at[j] \in Running, t \in loc[j].listed, task[t].marked
      PROVE  (at'[j] \in Running /\ t \in loc'[j].listed) \/ t \in told' \cup lapsed'
  <2>1. at[j] \in {"tidy", "write", "logged"}
    BY <1>0, <1>3 DEF Carries, Running
  <2>2. CASE Tidied(j) \/ WriteText(j)
    BY <1>0, <1>3, <2>2 DEF Tidied, WriteText, Running
  <2>3. CASE SendText(j)
    BY <1>3, <2>3 DEF SendText
  <2>4. CASE GiveUp(j)
    BY <1>3, <2>4 DEF GiveUp, Abandon
  <2>5. JobStep(j) /\ ~ ReadTasks(j) /\ ~ Archive(j) /\ ~ MarkFollowUp(j)
    OBVIOUS
  <2> QED BY <2>1, <2>2, <2>3, <2>4, <2>5
          DEF JobStep, Dispatch, Start, Suppress, Gathers, ReadNudges, CountNudge, PickFeature, CheckIn,
              PickGoal, RereadGoal, AdvanceGoal, RequeueViaManager, LogRequeue, Acknowledge
<1> QED BY <1>1, <1>2, <1>3

LEMMA NextFollowUp == TypeOK /\ CarryInv /\ FollowUpInv /\ [Next]_vars => FollowUpInv'
<1> SUFFICES ASSUME TypeOK, CarryInv, FollowUpInv, [Next]_vars PROVE FollowUpInv'
  OBVIOUS
<1>0. at \in [Job -> At] /\ loc \in [Job -> Loc] /\ task \in [Task -> Row] /\ LocTypeOK
  BY TypeParts DEF RestTypeOK, LocTypeOK
<1>1. ASSUME NEW j \in Job, ReadTasks(j), JobStep(j) PROVE FollowUpInv'
  <2>1. PICK L \in SUBSET Task :
          loc' = [loc EXCEPT ![j].old = {t \in Task : Active(t) /\ task[t].overdue}
                                          \ {t \in {s \in Task : Active(s) /\ task[s].overdue} : ~ task[t].marked},
                             ![j].listed = L, ![j].marks = L]
    BY <1>1 DEF ReadTasks
  <2>2. loc'[j].marks = loc'[j].listed /\ \A t \in loc'[j].old : t \in Task /\ task[t].marked
    BY <1>0, <2>1 DEF Loc
  <2>3. UNCHANGED <<task, told, lapsed>> /\ at[j] = "read" /\ loc[j].listed = {} /\ at'[j] = "tidy"
    BY <1>0, <1>1 DEF ReadTasks, CarryInv, Carries
  <2>4. \A k \in Job : k # j => at'[k] = at[k] /\ loc'[k] = loc[k]
    BY <1>1, JobFrame
  <2>5. \A t \in Task : Followed(t) => Followed(t)'
    BY <2>3, <2>4 DEF Followed
  <2> QED BY <2>2, <2>3, <2>4, <2>5 DEF FollowUpInv
<1>2. ASSUME NEW j \in Job, Archive(j), JobStep(j) PROVE FollowUpInv'
  <2>1. PICK x \in loc[j].old : task' = [task EXCEPT ![x].archived = TRUE] /\ loc' = [loc EXCEPT ![j].old = @ \ {x}]
    BY <1>2 DEF Archive
  <2>2. /\ at' = at /\ at[j] = "tidy" /\ UNCHANGED <<told, lapsed>>
        /\ loc'[j].listed = loc[j].listed /\ loc'[j].marks = loc[j].marks /\ loc'[j].old \subseteq loc[j].old
    BY <1>0, <1>2, <2>1 DEF Archive, Loc
  <2>3. \A k \in Job : k # j => loc'[k] = loc[k]
    BY <1>2, JobFrame
  <2>4. \A t \in Task : Followed(t) => Followed(t)'
    BY <2>2, <2>3 DEF Followed
  <2>5. x \in Task /\ task[x].marked
    <3>1. x \in Task
      BY <1>0 DEF Loc
    <3> QED BY <2>2, <3>1 DEF FollowUpInv
  <2>6. \A t \in Task : task'[t].marked = task[t].marked /\ (t # x => task'[t].archived = task[t].archived)
    BY <1>0, <2>1 DEF Row
  <2>7. \A k \in Job : \A t \in loc[k].old : t \in Task
    BY <1>0 DEF Loc
  <2> QED BY <2>2, <2>3, <2>4, <2>5, <2>6, <2>7 DEF FollowUpInv
<1>3. ASSUME NEW j \in Job, MarkFollowUp(j), JobStep(j) PROVE FollowUpInv'
  <2>1. PICK x \in loc[j].marks : task' = [task EXCEPT ![x].marked = TRUE] /\ loc' = [loc EXCEPT ![j].marks = @ \ {x}]
    BY <1>3 DEF MarkFollowUp
  <2>2. /\ at' = at /\ at[j] = "tidy" /\ UNCHANGED <<told, lapsed>>
        /\ loc'[j].listed = loc[j].listed /\ loc'[j].old = loc[j].old /\ loc'[j].marks \subseteq loc[j].marks
    BY <1>0, <1>3, <2>1 DEF MarkFollowUp, Loc
  <2>3. \A k \in Job : k # j => loc'[k] = loc[k]
    BY <1>3, JobFrame
  <2>4. \A t \in Task : Followed(t) => Followed(t)'
    BY <2>2, <2>3 DEF Followed
  <2>5. x \in Task /\ x \in loc[j].listed
    <3>1. x \in Task
      BY <1>0 DEF Loc
    <3> QED BY <2>2, <3>1 DEF FollowUpInv
  <2>6. Followed(x)'
    BY <2>2, <2>5 DEF Followed, Running
  <2>7. \A t \in Task : /\ task'[t].archived = task[t].archived /\ (t # x => task'[t].marked = task[t].marked)
                        /\ task[t].marked => task'[t].marked
    BY <1>0, <2>1 DEF Row
  <2>8. task'[x].marked
    BY <1>0, <2>1, <2>5 DEF Row
  <2>9. \A k \in Job : \A t \in loc[k].old : t \in Task
    BY <1>0 DEF Loc
  <2> QED BY <2>2, <2>3, <2>4, <2>6, <2>7, <2>8, <2>9 DEF FollowUpInv
<1>4. ASSUME NEW j \in Job, JobStep(j), ~ ReadTasks(j), ~ Archive(j), ~ MarkFollowUp(j) PROVE FollowUpInv'
  <2>1. \A k \in Job : k # j => at'[k] = at[k] /\ loc'[k] = loc[k]
    BY <1>4, JobFrame
  <2>2. \A t \in Task : Followed(t) /\ task[t].marked => Followed(t)'
    BY <1>4, <2>1, Keeps DEF Followed
  <2> QED BY <1>4, <2>1, <2>2, Keeps DEF FollowUpInv
<1>5. CASE WorkerDies
  <2>1. task' = task /\ told' = told /\ \A k \in Job : at'[k] \notin Running
    BY <1>0, <1>5 DEF WorkerDies, Running, At
  <2>2. \A t \in Task : Followed(t) /\ task[t].marked => t \in told' \cup lapsed'
    BY <1>5 DEF Followed, WorkerDies, Abandon
  <2> QED BY <2>1, <2>2 DEF FollowUpInv, Followed, Running
<1>6. ASSUME NEW x \in Task, MoveTask(x) PROVE FollowUpInv'
  <2>1. UNCHANGED <<at, loc>> /\ \A t \in Task : task'[t].marked = task[t].marked /\ task'[t].archived = task[t].archived
    BY <1>0, <1>6 DEF MoveTask, Row
  <2>2. \A t \in Task : task[t].marked /\ Followed(t) => Followed(t)'
    BY <1>6 DEF MoveTask, Followed
  <2>3. \A k \in Job : \A t \in loc[k].old : t \in Task
    BY <1>0 DEF Loc
  <2> QED BY <2>1, <2>2, <2>3 DEF FollowUpInv
<1>7. ASSUME UNCHANGED <<at, loc, told, lapsed>>,
             \A t \in Task : task'[t].marked = task[t].marked /\ task'[t].archived = task[t].archived
      PROVE  FollowUpInv'
  <2>1. \A k \in Job : \A t \in loc[k].old : t \in Task
    BY <1>0 DEF Loc
  <2> QED BY <1>7, <2>1 DEF FollowUpInv, Followed
<1>8. ASSUME NEW x \in Task, ComesDue(x) \/ SetCompleted(x) PROVE FollowUpInv'
  <2>1. \A t \in Task : task'[t].marked = task[t].marked /\ task'[t].archived = task[t].archived
    BY <1>0, <1>8 DEF ComesDue, SetCompleted, Row
  <2>2. UNCHANGED <<at, loc, told, lapsed>>
    BY <1>8 DEF ComesDue, SetCompleted
  <2> QED BY <1>7, <2>1, <2>2
<1>9. ASSUME UNCHANGED <<at, loc, told, lapsed, task>> PROVE FollowUpInv'
  BY <1>7, <1>9
<1>10. ASSUME NEW c \in Locked, LockExpires(c) PROVE FollowUpInv'
  BY <1>9, <1>10 DEF LockExpires
<1>11. CASE WeeksPass
  BY <1>9, <1>11 DEF WeeksPass
<1>12. CASE UserStep
  BY <1>6, <1>8, <1>9, <1>12 DEF UserStep, SetActive, Discovers, UserActs
<1> QED BY <1>1, <1>2, <1>3, <1>4, <1>5, <1>9, <1>10, <1>11, <1>12, Steps DEF vars, OtherStep

(* No reminder leaves the list before a briefing has followed up on it, or *)
(* is about to: the archive takes marked ones only.                        *)
THEOREM FollowedUpFirst == Spec => []ArchivedWasFollowedUp
<1>1. FollowUpInv => ArchivedWasFollowedUp
  BY DEF FollowUpInv, Followed, ArchivedWasFollowedUp
<1> QED BY InitTypeOK, InitCarry, InitFollowUp, NextTypes, NextCarry, NextFollowUp, <1>1, PTL DEF Spec

------------------------------------------------------------------------------
(* Of a feature that was not forgotten, whose nudges the log still counts, *)
(* one job is suggesting it at a time, and only while it may be.           *)
Suggests(j, f) == at[j] \in Running /\ loc[j].about = f

FeatureInv ==
  \A f \in Feature \ forgotten :
    /\ nudged[f] <= MaxNudges
    /\ \A j \in Job : Suggests(j, f) => nudged[f] < MaxNudges /\ \A k \in Job : Suggests(k, f) => k = j

LEMMA InitFeature == Init => FeatureInv
BY DEF Init, FeatureInv, Suggests, Running

LEMMA RowsCount ==
  ASSUME LogTypeOK, NEW f \in Feature
  PROVE  NudgeRows(f) \in Nat
<1> DEFINE S == {i \in DOMAIN log : log[i] = [type |-> "feature_discovery", about |-> f]}
<1>1. Len(log) \in Nat /\ DOMAIN log = 1..Len(log)
  BY DEF LogTypeOK
<1>2. IsFiniteSet(1..Len(log))
  BY <1>1, FS_Interval
<1>3. S \subseteq 1..Len(log)
  BY <1>1
<1> HIDE DEF S
<1>4. IsFiniteSet(S)
  BY <1>2, <1>3, FS_Subset
<1>5. Cardinality(S) \in Nat
  BY <1>4, FS_CardinalityType
<1> QED BY <1>5 DEF NudgeRows, S

(* Only PickFeature takes up a feature, and only SendText counts one. *)
LEMMA FeaturesKept ==
  ASSUME TypeOK, CarryInv, NEW j \in Job, JobStep(j), ~ (kind[j] = "feature_discovery" /\ PickFeature(j))
  PROVE  /\ forgotten' = forgotten
         /\ ~ SendText(j) => nudged' = nudged
         /\ \A f \in Feature : Suggests(j, f)' => Suggests(j, f)
<1>0. at \in [Job -> At] /\ loc \in [Job -> Loc] /\ loc[j] \in Loc /\ Carries(j)
  BY TypeParts DEF RestTypeOK, LocTypeOK, CarryInv
<1>1. forgotten' = forgotten /\ (~ SendText(j) => nudged' = nudged)
  BY DEF JobStep, Dispatch, Start, Suppress, ReadTasks, Archive, MarkFollowUp, Tidied, Gathers, ReadNudges,
         CountNudge, CheckIn, PickGoal, RereadGoal, AdvanceGoal, RequeueViaManager, LogRequeue,
         WriteText, SendText, Acknowledge, GiveUp
<1>2. ASSUME NEW f \in Feature, at'[j] \in Running, loc'[j].about = f PROVE Suggests(j, f)
  <2>0. None # f /\ f \notin Goal
    BY DEF SetsAssumption
  <2>1. CASE Start(j)
    <3>1. loc'[j].about = None
      BY <1>0, <2>1 DEF Start, Claim, Carries, NoLoc, Loc
    <3> QED BY <1>2, <2>0, <3>1
  <2>2. CASE PickGoal(j)
    <3>1. at[j] = "read" /\ (UNCHANGED loc \/ \E g \in Goal : loc' = [loc EXCEPT ![j].about = g, ![j].stage = goal[g].stage])
      BY <2>2 DEF PickGoal
    <3>2. ASSUME NEW g \in Goal, loc' = [loc EXCEPT ![j].about = g, ![j].stage = goal[g].stage] PROVE FALSE
      <4>1. loc'[j].about = g
        BY <1>0, <3>2 DEF Loc
      <4> QED BY <1>2, <2>0, <4>1
    <3> QED BY <1>2, <3>1, <3>2 DEF Suggests, Running
  <2>3. CASE ReadTasks(j)
    <3>1. PICK O \in SUBSET Task, L \in SUBSET Task :
            loc' = [loc EXCEPT ![j].old = O, ![j].listed = L, ![j].marks = L]
      BY <2>3 DEF ReadTasks
    <3>2. loc'[j].about = loc[j].about /\ at[j] = "read"
      BY <1>0, <2>3, <3>1 DEF Loc, ReadTasks
    <3> QED BY <1>2, <3>2 DEF Suggests, Running
  <2>4. CASE Archive(j) \/ MarkFollowUp(j) \/ RereadGoal(j)
    BY <1>0, <1>2, <2>4 DEF Archive, MarkFollowUp, RereadGoal, Loc, Suggests, Running
  <2>5. CASE Acknowledge(j) \/ Dispatch(j) \/ GiveUp(j) \/ SendText(j)
    BY <1>0, <1>2, <2>5 DEF Acknowledge, Dispatch, GiveUp, SendText, Running
  <2>6. CASE UNCHANGED loc /\ at[j] \in Running
    BY <1>2, <2>6 DEF Suggests
  <2>7. JobStep(j) /\ ~ (kind[j] = "feature_discovery" /\ PickFeature(j))
    OBVIOUS
  <2> QED BY <2>1, <2>2, <2>3, <2>4, <2>5, <2>6, <2>7
          DEF JobStep, Suppress, Tidied, Gathers, ReadNudges, CountNudge, CheckIn, AdvanceGoal,
              RequeueViaManager, LogRequeue, WriteText, Running
<1> QED BY <1>1, <1>2 DEF Suggests

LEMMA NextFeature == TypeOK /\ CarryInv /\ FeatureInv /\ [Next]_vars => FeatureInv'
<1> SUFFICES ASSUME TypeOK, CarryInv, FeatureInv, [Next]_vars PROVE FeatureInv'
  OBVIOUS
<1>0. at \in [Job -> At] /\ loc \in [Job -> Loc] /\ nudged \in [Feature -> Nat] /\ LogTypeOK /\ MaxNudges \in Nat
  BY TypeParts DEF RestTypeOK, LocTypeOK, HistoryTypeOK
<1>1. ASSUME NEW j \in Job, PickFeature(j), JobStep(j), kind[j] = "feature_discovery" PROVE FeatureInv'
  <2>1. nudged' = nudged /\ forgotten \subseteq forgotten' /\ at[j] = "read"
    BY <1>1 DEF PickFeature
  <2>2. \A k \in Job, f \in Feature : k # j => (Suggests(k, f)' <=> Suggests(k, f))
    BY <1>1, JobFrame DEF Suggests
  <2>3. CASE at'[j] = "over"
    BY <2>1, <2>2, <2>3 DEF FeatureInv, Suggests, Running
  <2>4. ASSUME NEW f \in Feature, Eligible(f), loc' = [loc EXCEPT ![j].about = f], at' = [at EXCEPT ![j] = "write"],
               forgotten' = IF nudged[f] > NudgeRows(f) \/ \E k \in Beside(j) : loc[k].about = f
                              THEN forgotten \cup {f} ELSE forgotten
        PROVE  FeatureInv'
    <3>1. \A x \in Feature : Suggests(j, x)' => x = f
      BY <1>0, <2>4 DEF Suggests, Loc
    <3>2. ASSUME f \notin forgotten' PROVE nudged[f] < MaxNudges /\ \A k \in Job : Suggests(k, f) => k = j
      <4>1. nudged[f] <= NudgeRows(f) /\ ~ \E k \in Beside(j) : loc[k].about = f
        BY <1>0, <2>4, <3>2, RowsCount
      <4>2. NudgeRows(f) < MaxNudges
        BY <2>4 DEF Eligible
      <4>3. ASSUME NEW k \in Job, Suggests(k, f), k # j PROVE FALSE
        <5>1. kind[k] = "feature_discovery"
          BY <4>3 DEF CarryInv, Carries, Suggests
        <5> QED BY <1>1, <4>1, <4>3, <5>1 DEF Beside, Suggests
      <4> QED BY <1>0, <4>1, <4>2, <4>3, RowsCount
    <3> QED BY <2>1, <2>2, <3>1, <3>2 DEF FeatureInv
  <2>5. at'[j] = "over" \/ \E f \in Feature :
          /\ Eligible(f) /\ loc' = [loc EXCEPT ![j].about = f] /\ at' = [at EXCEPT ![j] = "write"]
          /\ forgotten' = IF nudged[f] > NudgeRows(f) \/ \E k \in Beside(j) : loc[k].about = f
                            THEN forgotten \cup {f} ELSE forgotten
    BY <1>0, <1>1 DEF PickFeature
  <2> QED BY <2>3, <2>4, <2>5
<1>2. ASSUME NEW j \in Job, SendText(j), JobStep(j) PROVE FeatureInv'
  <2>1. /\ forgotten' = forgotten /\ at[j] \in Running /\ at'[j] \notin Running /\ loc' = loc
        /\ nudged' = [f \in Feature |-> IF loc[j].about = f THEN nudged[f] + 1 ELSE nudged[f]]
    BY <1>0, <1>2 DEF SendText, Running
  <2>2. \A k \in Job, f \in Feature : Suggests(k, f)' => Suggests(k, f) /\ k # j
    BY <1>2, <2>1, JobFrame DEF Suggests
  <2>3. ASSUME NEW f \in Feature \ forgotten, loc[j].about = f
        PROVE  nudged'[f] <= MaxNudges /\ \A k \in Job : ~ Suggests(k, f)'
    <3>1. Suggests(j, f)
      BY <2>1, <2>3 DEF Suggests
    <3>2. nudged[f] < MaxNudges /\ \A k \in Job : Suggests(k, f) => k = j
      BY <3>1 DEF FeatureInv
    <3>3. nudged'[f] = nudged[f] + 1
      BY <2>1, <2>3
    <3> QED BY <1>0, <2>2, <3>2, <3>3
  <2>4. ASSUME NEW f \in Feature \ forgotten, loc[j].about # f
        PROVE  nudged'[f] = nudged[f]
    BY <2>1, <2>4
  <2> QED BY <2>1, <2>2, <2>3, <2>4 DEF FeatureInv
<1>3. ASSUME NEW j \in Job, JobStep(j), ~ (kind[j] = "feature_discovery" /\ PickFeature(j)), ~ SendText(j)
      PROVE  FeatureInv'
  <2>1. \A k \in Job, f \in Feature : Suggests(k, f)' => Suggests(k, f)
    BY <1>3, JobFrame, FeaturesKept DEF Suggests
  <2> QED BY <1>3, <2>1, FeaturesKept DEF FeatureInv
<1>4. CASE WorkerDies
  <2>1. nudged' = nudged /\ forgotten' = forgotten /\ \A k \in Job : at'[k] \notin Running
    BY <1>0, <1>4 DEF WorkerDies, Running, At
  <2> QED BY <2>1 DEF FeatureInv, Suggests
<1>5. ASSUME UNCHANGED <<at, loc, nudged, forgotten>> PROVE FeatureInv'
  BY <1>5 DEF FeatureInv, Suggests
<1>6. ASSUME NEW c \in Locked, LockExpires(c) PROVE FeatureInv'
  BY <1>5, <1>6 DEF LockExpires
<1>7. CASE WeeksPass \/ UserStep
  BY <1>5, <1>7 DEF WeeksPass, UserStep, ComesDue, MoveTask, SetCompleted, SetActive, Discovers, UserActs
<1> QED BY <1>1, <1>2, <1>3, <1>4, <1>5, <1>6, <1>7, Steps DEF vars, OtherStep

(* No feature is suggested more than MaxNudges times while the log still   *)
(* holds the rows that count its nudges.                                   *)
THEOREM NudgesStop == Spec => []NudgesEnd
<1>1. FeatureInv => NudgesEnd
  BY DEF FeatureInv, NudgesEnd
<1> QED BY InitTypeOK, InitCarry, InitFeature, NextTypes, NextCarry, NextFeature, <1>1, PTL DEF Spec

------------------------------------------------------------------------------
(* A goal whose coaching was not disturbed is in the hands of one job at   *)
(* most, which knows its stage; the stage follows the number of times that *)
(* the manager was asked, and lags by one while that job has asked.        *)
Coaches(j, g) == loc[j].about = g /\ at[j] \in {"requeue", "asked", "reread", "advance"}
Advances(j, g) == Coaches(j, g) /\ at[j] # "requeue"

InTurn(g) == \A i \in DOMAIN asked[g] : asked[g][i] = (i - 1) % 4
OneCoach(g) == \A j, k \in Job : Coaches(j, g) /\ Coaches(k, g) => j = k
KnowsStage(g) == \A j \in Job : Coaches(j, g) /\ at[j] \in {"requeue", "advance"} => loc[j].stage = goal[g].stage
Follows(g) ==
  /\ (\A j \in Job : ~ Advances(j, g)) => goal[g].stage = Len(asked[g]) % 4
  /\ (\E j \in Job : Advances(j, g)) => Len(asked[g]) >= 1 /\ goal[g].stage = (Len(asked[g]) - 1) % 4

Undisturbed(g) == InTurn(g) /\ OneCoach(g) /\ KnowsStage(g) /\ Follows(g)

CoachInv == \A g \in Goal \ shaken : Undisturbed(g)

LEMMA InitCoach == Init => CoachInv
BY DEF Init, CoachInv, Undisturbed, InTurn, OneCoach, KnowsStage, Follows, Coaches, Advances

(* The steps that a coached goal has no part in. *)
LEMMA CoachFrame ==
  ASSUME TypeOK, CarryInv, NEW j \in Job, JobStep(j),
         ~ (kind[j] = "goal_coaching" /\ (PickGoal(j) \/ RereadGoal(j) \/ AdvanceGoal(j))),
         ~ RequeueViaManager(j), ~ LogRequeue(j), ~ GiveUp(j)
  PROVE  /\ UNCHANGED <<goal, asked, shaken>>
         /\ \A g \in Goal : ~ Coaches(j, g) /\ ~ Coaches(j, g)'
<1>0. /\ at \in [Job -> At] /\ loc \in [Job -> Loc] /\ loc[j] \in Loc /\ None \notin Goal
      /\ Carries(j)
  BY TypeParts DEF RestTypeOK, LocTypeOK, CarryInv, SetsAssumption
<1>1. UNCHANGED <<goal, asked, shaken>>
  BY DEF JobStep, Dispatch, Start, Suppress, ReadTasks, Archive, MarkFollowUp, Tidied, Gathers, ReadNudges,
         CountNudge, PickFeature, CheckIn, WriteText, SendText, Acknowledge
<1>2. at[j] \notin {"requeue", "asked", "reread", "advance"}
  BY <1>0
     DEF JobStep, Dispatch, Start, Suppress, ReadTasks, Archive, MarkFollowUp, Tidied, Gathers, ReadNudges,
         CountNudge, PickFeature, CheckIn, WriteText, SendText, Acknowledge
<1>3. at'[j] \notin {"requeue", "asked", "reread", "advance"} \/ (at[j] = "read" /\ loc' = loc)
  BY <1>0
     DEF JobStep, Dispatch, Start, Claim, Suppress, ReadTasks, Archive, MarkFollowUp, Tidied, Gathers, ReadNudges,
         CountNudge, PickFeature, CheckIn, WriteText, SendText, Acknowledge
<1> QED BY <1>0, <1>1, <1>2, <1>3 DEF Coaches, Carries

(* The next stage is the one after. *)
LEMMA StageAfter ==
  ASSUME NEW n \in Nat, n >= 1
  PROVE  NextStage((n - 1) % 4) = n % 4
BY DEF NextStage

(* Asking for the stage whose turn it is. *)
LEMMA AskInTurn ==
  ASSUME NEW s \in Seq(Stages), NEW x \in Stages, x = Len(s) % 4,
         \A i \in DOMAIN s : s[i] = (i - 1) % 4
  PROVE  /\ \A i \in DOMAIN Append(s, x) : Append(s, x)[i] = (i - 1) % 4
         /\ Len(Append(s, x)) = Len(s) + 1
<1>1. Len(s) \in Nat /\ DOMAIN s = 1..Len(s)
  OBVIOUS
<1>2. Append(s, x) \in Seq(Stages) /\ Len(Append(s, x)) = Len(s) + 1
  OBVIOUS
<1>3. ASSUME NEW i \in 1..(Len(s) + 1) PROVE Append(s, x)[i] = (i - 1) % 4
  <2>1. CASE i = Len(s) + 1
    BY <1>1, <2>1
  <2>2. CASE i \in 1..Len(s)
    BY <1>1, <2>2
  <2> QED BY <1>1, <2>1, <2>2
<1> QED BY <1>2, <1>3

LEMMA JobCoaches ==
  ASSUME TypeOK, CarryInv, CoachInv, NEW j \in Job, JobStep(j)
  PROVE  CoachInv'
<1>0. /\ at \in [Job -> At] /\ loc \in [Job -> Loc] /\ loc[j] \in Loc
      /\ goal \in [Goal -> [stage : Stages, active : BOOLEAN]]
      /\ asked \in [Goal -> Seq(Stages)] /\ None \notin Goal
      /\ Carries(j)
  BY TypeParts DEF RestTypeOK, HistoryTypeOK, LocTypeOK, CarryInv, SetsAssumption
<1>1. \A k \in Job : k # j => at'[k] = at[k] /\ loc'[k] = loc[k]
  BY JobFrame
<1>2. \A k \in Job, g \in Goal : k # j => (Coaches(k, g)' <=> Coaches(k, g)) /\ (Advances(k, g)' <=> Advances(k, g))
  BY <1>1 DEF Coaches, Advances
(* A goal that the step is not about stays as it was. *)
<1>3. ASSUME NEW g \in Goal \ shaken, ~ Coaches(j, g), ~ Coaches(j, g)',
             goal'[g].stage = goal[g].stage, asked'[g] = asked[g]
      PROVE  Undisturbed(g)'
  <2>1. ~ Advances(j, g) /\ ~ Advances(j, g)'
    BY <1>3 DEF Advances
  <2>2. Undisturbed(g)
    BY DEF CoachInv
  <2>3. (\E k \in Job : Advances(k, g)') <=> (\E k \in Job : Advances(k, g))
    BY <1>2, <2>1
  <2>4. KnowsStage(g)'
    BY <1>1, <1>2, <1>3, <2>2 DEF Undisturbed, KnowsStage
  <2>5. OneCoach(g)'
    BY <1>2, <1>3, <2>2 DEF Undisturbed, OneCoach
  <2>6. Follows(g)'
    BY <1>2, <1>3, <2>1, <2>2, <2>3 DEF Undisturbed, Follows
  <2>7. InTurn(g)'
    BY <1>3, <2>2 DEF Undisturbed, InTurn
  <2> QED BY <2>4, <2>5, <2>6, <2>7 DEF Undisturbed
<1>4. CASE PickGoal(j) /\ kind[j] = "goal_coaching"
  <2>1. UNCHANGED <<goal, asked>> /\ at[j] = "read" /\ loc[j].about \notin Goal /\ shaken \subseteq shaken'
    BY <1>0, <1>4 DEF PickGoal, Carries
  <2>2. CASE at'[j] = "over"
    BY <1>3, <2>1, <2>2 DEF CoachInv, Coaches
  <2>3. ASSUME NEW g \in Goal, loc' = [loc EXCEPT ![j].about = g, ![j].stage = goal[g].stage], at'[j] = "requeue",
               shaken' = IF \E k \in Beside(j) : loc[k].about = g THEN shaken \cup {g} ELSE shaken
        PROVE  CoachInv'
    <3>1. loc'[j].about = g /\ loc'[j].stage = goal[g].stage
      <4>1. loc' = [loc EXCEPT ![j] = [loc[j] EXCEPT !.about = g, !.stage = goal[g].stage]]
        BY <1>0, <2>3 DEF Loc
      <4>2. loc'[j] = [loc[j] EXCEPT !.about = g, !.stage = goal[g].stage]
        BY <1>0, <4>1
      <4> QED BY <1>0, <4>2 DEF Loc
    <3>2. ASSUME NEW x \in Goal \ shaken', x # g PROVE Undisturbed(x)'
      <4>1. ~ Coaches(j, x) /\ ~ Coaches(j, x)'
        BY <2>1, <3>1, <3>2 DEF Coaches
      <4> QED BY <1>3, <2>1, <3>2, <4>1
    <3>3. ASSUME g \notin shaken' PROVE Undisturbed(g)'
      <4>1. Undisturbed(g)
        BY <2>1, <3>3 DEF CoachInv
      <4>2. ASSUME NEW k \in Job, k # j, Coaches(k, g) PROVE FALSE
        <5>1. at[k] \in Running /\ kind[k] = "goal_coaching"
          BY <4>2 DEF Coaches, Running, CarryInv, Carries
        <5> QED BY <1>4, <2>3, <3>3, <4>2, <5>1 DEF Beside, Coaches
      <4>3. ~ Coaches(j, g) /\ ~ Advances(j, g)'
        BY <2>1, <2>3 DEF Coaches, Advances
      <4>4. \A k \in Job : ~ Advances(k, g) /\ ~ Advances(k, g)'
        BY <1>2, <4>2, <4>3 DEF Advances
      <4>5. KnowsStage(g)' /\ OneCoach(g)'
        BY <1>2, <2>1, <3>1, <4>2 DEF KnowsStage, OneCoach
      <4>6. InTurn(g)' /\ Follows(g)'
        BY <2>1, <4>1, <4>4 DEF Undisturbed, InTurn, Follows
      <4> QED BY <4>5, <4>6 DEF Undisturbed
    <3> QED BY <3>2, <3>3 DEF CoachInv
  <2>4. at'[j] = "over" \/ \E g \in Goal :
          /\ loc' = [loc EXCEPT ![j].about = g, ![j].stage = goal[g].stage] /\ at'[j] = "requeue"
          /\ shaken' = IF \E k \in Beside(j) : loc[k].about = g THEN shaken \cup {g} ELSE shaken
    BY <1>0, <1>4 DEF PickGoal
  <2> QED BY <2>2, <2>3, <2>4
<1>5. CASE RequeueViaManager(j)
  <2>1. UNCHANGED <<goal, loc>> /\ at[j] = "requeue" /\ shaken \subseteq shaken'
    BY <1>5 DEF RequeueViaManager
  <2>2. ASSUME NEW g \in Goal \ shaken', loc[j].about # g PROVE Undisturbed(g)'
    <3>1. asked'[g] = asked[g]
      BY <1>0, <1>5, <2>2 DEF RequeueViaManager, Coached
    <3> QED BY <1>3, <2>1, <2>2, <3>1 DEF Coaches
  <2>3. ASSUME NEW g \in Goal \ shaken', loc[j].about = g PROVE Undisturbed(g)'
    <3>1. Undisturbed(g)
      BY <2>1 DEF CoachInv
    <3>2. at'[j] = "asked" /\ asked'[g] = Append(asked[g], loc[j].stage)
      BY <1>0, <1>5, <2>3 DEF RequeueViaManager, Coached
    <3>3. Coaches(j, g) /\ ~ Advances(j, g) /\ Coaches(j, g)' /\ Advances(j, g)'
      BY <2>1, <2>3, <3>2 DEF Coaches, Advances
    <3>4. \A k \in Job : ~ Advances(k, g)
      BY <3>1, <3>3 DEF Undisturbed, OneCoach, Advances
    <3>5. loc[j].stage = Len(asked[g]) % 4 /\ goal[g].stage = Len(asked[g]) % 4
      BY <2>1, <3>1, <3>3, <3>4 DEF Undisturbed, KnowsStage, Follows
    <3>6. InTurn(g)' /\ Len(asked'[g]) = Len(asked[g]) + 1
      <4>1. asked[g] \in Seq(Stages) /\ loc[j].stage \in Stages
        BY <1>0 DEF Loc
      <4>2. \A i \in DOMAIN asked[g] : asked[g][i] = (i - 1) % 4
        BY <3>1 DEF Undisturbed, InTurn
      <4>3. /\ \A i \in DOMAIN Append(asked[g], loc[j].stage) : Append(asked[g], loc[j].stage)[i] = (i - 1) % 4
            /\ Len(Append(asked[g], loc[j].stage)) = Len(asked[g]) + 1
        BY <3>5, <4>1, <4>2, AskInTurn
      <4> QED BY <3>2, <4>3 DEF InTurn
    <3>7. OneCoach(g)'
      BY <1>2, <3>1, <3>3 DEF Undisturbed, OneCoach
    <3>8. KnowsStage(g)'
      BY <3>2, <3>3, <3>7 DEF KnowsStage, OneCoach
    <3>9. Follows(g)'
      <4>1. Len(asked[g]) \in Nat
        BY <1>0
      <4>2. Len(asked'[g]) >= 1 /\ Len(asked'[g]) - 1 = Len(asked[g])
        BY <3>6, <4>1
      <4>3. goal'[g].stage = (Len(asked'[g]) - 1) % 4
        BY <2>1, <3>5, <4>2
      <4> QED BY <3>3, <4>2, <4>3 DEF Follows
    <3> QED BY <3>6, <3>7, <3>8, <3>9 DEF Undisturbed
  <2> QED BY <2>2, <2>3 DEF CoachInv
<1>6. CASE LogRequeue(j)
  <2>1. UNCHANGED <<goal, loc, asked, shaken>> /\ at[j] = "asked"
    BY <1>6 DEF LogRequeue
  <2>2. ASSUME NEW g \in Goal \ shaken, loc[j].about # g PROVE Undisturbed(g)'
    BY <1>3, <2>1, <2>2 DEF Coaches
  <2>3. ASSUME NEW g \in Goal \ shaken, loc[j].about = g PROVE Undisturbed(g)'
    <3>1. at'[j] = "reread"
      BY <1>0, <1>6, <2>3 DEF LogRequeue, Coached
    <3>2. \A k \in Job : (Coaches(k, g)' <=> Coaches(k, g)) /\ (Advances(k, g)' <=> Advances(k, g))
      BY <1>2, <2>1, <2>3, <3>1 DEF Coaches, Advances
    <3>3. Undisturbed(g)
      BY DEF CoachInv
    <3>4. KnowsStage(g)'
      BY <1>1, <2>1, <3>1, <3>2, <3>3 DEF Undisturbed, KnowsStage
    <3> QED BY <2>1, <3>2, <3>3, <3>4 DEF Undisturbed, InTurn, OneCoach, Follows
  <2> QED BY <2>1, <2>2, <2>3 DEF CoachInv
<1>7. CASE RereadGoal(j)
  <2>1. UNCHANGED <<goal, asked, shaken>> /\ at[j] = "reread" /\ at'[j] = "advance"
    BY <1>0, <1>7 DEF RereadGoal
  <2>2. PICK x \in Goal : loc[j].about = x /\ loc' = [loc EXCEPT ![j].stage = goal[x].stage]
    BY <1>7 DEF RereadGoal, Coached
  <2>3. loc'[j].about = x /\ loc'[j].stage = goal[x].stage
    BY <1>0, <2>2 DEF Loc
  <2>4. ASSUME NEW g \in Goal \ shaken, g # x PROVE Undisturbed(g)'
    BY <1>3, <2>1, <2>2, <2>3, <2>4 DEF Coaches
  <2>5. ASSUME x \notin shaken PROVE Undisturbed(x)'
    <3>1. \A k \in Job : (Coaches(k, x)' <=> Coaches(k, x)) /\ (Advances(k, x)' <=> Advances(k, x))
      BY <1>2, <2>1, <2>2, <2>3 DEF Coaches, Advances
    <3>2. Undisturbed(x)
      BY <2>5 DEF CoachInv
    <3>3. KnowsStage(x)'
      BY <1>1, <2>1, <2>3, <3>1, <3>2 DEF Undisturbed, KnowsStage
    <3> QED BY <2>1, <3>1, <3>2, <3>3 DEF Undisturbed, InTurn, OneCoach, Follows
  <2> QED BY <2>1, <2>4, <2>5 DEF CoachInv
<1>8. CASE AdvanceGoal(j)
  <2>1. UNCHANGED <<loc, asked, shaken>> /\ at[j] = "advance" /\ at'[j] = "over"
    BY <1>0, <1>8 DEF AdvanceGoal
  <2>2. ASSUME NEW g \in Goal \ shaken, loc[j].about # g PROVE Undisturbed(g)'
    <3>1. goal'[g].stage = goal[g].stage
      BY <1>0, <1>8, <2>2 DEF AdvanceGoal, Coached
    <3> QED BY <1>3, <2>1, <2>2, <3>1 DEF Coaches
  <2>3. ASSUME NEW g \in Goal \ shaken, loc[j].about = g PROVE Undisturbed(g)'
    <3>1. Undisturbed(g)
      BY DEF CoachInv
    <3>2. Coaches(j, g) /\ Advances(j, g) /\ ~ Coaches(j, g)' /\ ~ Advances(j, g)'
      BY <2>1, <2>3 DEF Coaches, Advances
    <3>3. goal'[g].stage = NextStage(loc[j].stage)
      BY <1>0, <1>8, <2>3 DEF AdvanceGoal, Coached
    <3>4. /\ loc[j].stage = (Len(asked[g]) - 1) % 4 /\ Len(asked[g]) >= 1 /\ Len(asked[g]) \in Nat
      BY <1>0, <2>1, <3>1, <3>2 DEF Undisturbed, KnowsStage, Follows
    <3>5. goal'[g].stage = Len(asked'[g]) % 4
      BY <2>1, <3>3, <3>4, StageAfter
    <3>6. \A k \in Job : ~ Coaches(k, g)' /\ ~ Advances(k, g)'
      BY <1>2, <3>1, <3>2 DEF Undisturbed, OneCoach, Advances
    <3>7. InTurn(g)'
      BY <2>1, <3>1 DEF Undisturbed, InTurn
    <3> QED BY <3>5, <3>6, <3>7 DEF Undisturbed, OneCoach, KnowsStage, Follows
  <2> QED BY <2>1, <2>2, <2>3 DEF CoachInv
<1>9. CASE GiveUp(j)
  <2>1. UNCHANGED <<goal, asked>> /\ shaken \subseteq shaken' /\ at[j] \in Running /\ at'[j] = "over" /\ loc' = loc
    BY <1>0, <1>9 DEF GiveUp, Abandon
  <2>2. ASSUME NEW g \in Goal \ shaken', Coaches(j, g) PROVE Undisturbed(g)'
    <3>1. at[j] = "requeue"
      BY <1>0, <1>9, <2>1, <2>2 DEF GiveUp, Abandon, Coaches
    <3>2. Undisturbed(g)
      BY <2>1 DEF CoachInv
    <3>3. ~ Advances(j, g) /\ ~ Coaches(j, g)' /\ ~ Advances(j, g)'
      BY <2>1, <3>1 DEF Advances, Coaches
    <3>4. \A k \in Job : ~ Coaches(k, g)' /\ ~ Advances(k, g)' /\ ~ Advances(k, g)
      BY <1>2, <2>2, <3>2, <3>3 DEF Undisturbed, OneCoach, Advances
    <3>5. Follows(g)' /\ InTurn(g)'
      BY <2>1, <3>2, <3>4 DEF Undisturbed, Follows, InTurn
    <3> QED BY <3>4, <3>5 DEF Undisturbed, OneCoach, KnowsStage
  <2>3. ASSUME NEW g \in Goal \ shaken', ~ Coaches(j, g) PROVE Undisturbed(g)'
    BY <1>3, <2>1, <2>3 DEF Coaches
  <2> QED BY <2>2, <2>3 DEF CoachInv
<1>10. ASSUME ~ (kind[j] = "goal_coaching" /\ (PickGoal(j) \/ RereadGoal(j) \/ AdvanceGoal(j))),
              ~ RequeueViaManager(j), ~ LogRequeue(j), ~ GiveUp(j)
       PROVE  CoachInv'
  BY <1>3, <1>10, CoachFrame DEF CoachInv
<1> QED BY <1>4, <1>5, <1>6, <1>7, <1>8, <1>9, <1>10

LEMMA NextCoach == TypeOK /\ CarryInv /\ CoachInv /\ [Next]_vars => CoachInv'
<1> SUFFICES ASSUME TypeOK, CarryInv, CoachInv, [Next]_vars PROVE CoachInv'
  OBVIOUS
<1>0. at \in [Job -> At] /\ goal \in [Goal -> [stage : Stages, active : BOOLEAN]]
  BY TypeParts DEF RestTypeOK
<1>1. ASSUME UNCHANGED <<at, loc, asked, shaken>>, \A g \in Goal : goal'[g].stage = goal[g].stage PROVE CoachInv'
  <2>1. ASSUME NEW g \in Goal \ shaken PROVE Undisturbed(g)'
    <3>1. Undisturbed(g)
      BY DEF CoachInv
    <3>2. \A k \in Job : (Coaches(k, g)' <=> Coaches(k, g)) /\ (Advances(k, g)' <=> Advances(k, g))
      BY <1>1 DEF Coaches, Advances
    <3>3. Follows(g)'
      BY <1>1, <3>1, <3>2 DEF Undisturbed, Follows
    <3>4. KnowsStage(g)'
      BY <1>1, <3>1, <3>2 DEF Undisturbed, KnowsStage
    <3> QED BY <1>1, <3>1, <3>2, <3>3, <3>4 DEF Undisturbed, InTurn, OneCoach
  <2> QED BY <1>1, <2>1 DEF CoachInv
<1> USE DEF CoachInv, Undisturbed, InTurn, OneCoach, KnowsStage, Follows, Coaches, Advances
<1>2. CASE WorkerDies
  <2>1. /\ UNCHANGED <<goal, asked>> /\ shaken \subseteq shaken'
        /\ \A k \in Job : at'[k] \notin Running
    BY <1>0, <1>2 DEF WorkerDies, Abandon, Running, At
  <2>2. \A g \in Goal \ shaken', k \in Job : ~ Coaches(k, g)' /\ ~ Advances(k, g)'
    BY <2>1 DEF Running
  <2>3. \A g \in Goal \ shaken', k \in Job : ~ Advances(k, g)
    BY <1>2 DEF WorkerDies, Abandon, Running
  <2>4. ASSUME NEW g \in Goal \ shaken' PROVE Undisturbed(g)'
    <3>1. g \in Goal \ shaken
      BY <2>1
    <3>2. Follows(g)' /\ InTurn(g)'
      BY <2>1, <2>2, <2>3, <3>1
    <3>3. OneCoach(g)' /\ KnowsStage(g)'
      BY <2>2
    <3> QED BY <3>2, <3>3
  <2> QED BY <2>4
<1>3. ASSUME NEW x \in Goal, SetActive(x) PROVE CoachInv'
  <2>1. goal' = [goal EXCEPT ![x].active = ~ goal[x].active] /\ UNCHANGED <<at, loc, asked, shaken>>
    BY <1>3 DEF SetActive
  <2>2. \A g \in Goal : goal'[g].stage = goal[g].stage
    BY <1>0, <2>1
  <2> HIDE DEF CoachInv
  <2> QED BY <1>1, <2>1, <2>2
<1> HIDE DEF CoachInv
<1>4. ASSUME UNCHANGED <<at, loc, asked, shaken, goal>> PROVE CoachInv'
  BY <1>1, <1>4
<1>5. ASSUME NEW c \in Locked, LockExpires(c) PROVE CoachInv'
  BY <1>4, <1>5 DEF LockExpires
<1>6. CASE WeeksPass
  BY <1>4, <1>6 DEF WeeksPass
<1>7. CASE UserStep
  BY <1>3, <1>4, <1>7 DEF UserStep, ComesDue, MoveTask, SetCompleted, Discovers, UserActs
<1> QED BY <1>2, <1>4, <1>5, <1>6, <1>7, JobCoaches, Steps DEF vars, OtherStep

(* A goal is coached stage by stage, as often as the manager was asked,    *)
(* whatever else the handlers, the user and the worker do meanwhile.       *)
THEOREM CoachingInOrder == Spec => []CoachedInOrder
<1>1. TypeOK /\ CoachInv => CoachedInOrder
  <2> SUFFICES ASSUME TypeOK, CoachInv, NEW g \in Goal \ shaken
               PROVE  InTurn(g) /\ goal[g].stage = (Len(asked[g]) - Cardinality(Advancing(g))) % 4
    BY DEF CoachedInOrder, InTurn
  <2>1. Undisturbed(g) /\ Len(asked[g]) \in Nat
    BY TypeParts DEF HistoryTypeOK, CoachInv
  <2>2. \A j \in Job : j \in Advancing(g) <=> Advances(j, g)
    BY DEF Advancing, Advances, Coaches
  <2>3. CASE \A j \in Job : ~ Advances(j, g)
    <3>1. Advancing(g) = {}
      BY <2>2, <2>3 DEF Advancing
    <3>2. Cardinality(Advancing(g)) = 0
      BY <3>1, FS_EmptySet
    <3>3. Len(asked[g]) - Cardinality(Advancing(g)) = Len(asked[g])
      BY <2>1, <3>2
    <3> QED BY <2>1, <2>3, <3>3 DEF Undisturbed, Follows
  <2>4. CASE \E j \in Job : Advances(j, g)
    <3>1. PICK j \in Job : Advances(j, g)
      BY <2>4
    <3>2. Advancing(g) = {j}
      BY <2>1, <2>2, <3>1 DEF Undisturbed, OneCoach, Advances, Advancing
    <3>3. Cardinality(Advancing(g)) = 1
      BY <3>2, FS_Singleton
    <3> QED BY <2>1, <2>4, <3>3 DEF Undisturbed, Follows
  <2> QED BY <2>1, <2>3, <2>4 DEF Undisturbed
<1> QED BY InitTypeOK, InitCarry, InitCoach, NextTypes, NextCarry, NextCoach, <1>1, PTL DEF Spec
=============================================================================
