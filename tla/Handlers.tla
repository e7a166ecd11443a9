------------------------------ MODULE Handlers ------------------------------
(***************************************************************************)
(* The handlers of the proactive categories, for one user: what each reads *)
(* and writes between taking its job and handing back its text.  They run  *)
(* side by side in the worker, which may die or run out of time at any     *)
(* await, and runs an unacknowledged job again.                            *)
(***************************************************************************)
EXTENDS Naturals, Sequences, FiniteSets

CONSTANTS
  Job,
  Task,        \* "remind" tasks
  Goal,
  Feature,     \* the keys of FEATURE_NUDGES
  None,
  FollowUps,   \* overdue tasks a briefing follows up on
  MaxNudges,   \* Len(_NUDGE_INTERVALS_DAYS)
  LogLimit,    \* the newest rows of the action log that anyone reads
  RecapLimit,  \* and those that the recap reads
  MaxSlips,    \* deaths, timeouts and failing calls that are looked at
  MaxEdits     \* edits of the user and long pauses that are looked at

ASSUME LimitsAssumption ==
  /\ FollowUps \in Nat \ {0} /\ MaxNudges \in Nat \ {0}
  /\ RecapLimit \in Nat /\ LogLimit \in Nat
  /\ MaxSlips \in Nat /\ MaxEdits \in Nat
ASSUME SetsAssumption ==
  /\ IsFiniteSet(Task) /\ IsFiniteSet(Job)
  /\ None \notin Goal \cup Feature /\ Goal \cap Feature = {}

VARIABLES
  kind,       \* kind[j]: the job's category
  at,         \* at[j]: the await its handler is at
  loc,        \* loc[j]: the locals of its handler
  locked,     \* categories whose handler_lock is set
  task, goal, milestones,
  log,        \* the newest LogLimit rows of the action log, oldest first
  tooSoon,    \* nudges whose interval has not passed
  slips, edits,
  opened,     \* categories that went on without their lock (history)
  told,       \* tasks a sent briefing followed up on, by their present date (history)
  lapsed,     \* tasks whose follow-up mark stands for no such briefing (history)
  asked,      \* asked[g]: the stages the manager was asked to coach (history)
  shaken,     \* goals whose coaching was disturbed (history)
  nudged,     \* nudged[f]: nudges sent (history)
  forgotten,  \* features whose nudges could not be counted (history)
  sent,       \* sent[j]: texts handed back (history)
  renewed     \* jobs that had a reason to send again (history)

rowVars == <<task, goal, milestones>>
redisVars == <<locked, tooSoon>>
boundVars == <<slips, edits>>
historyVars == <<opened, told, lapsed, asked, shaken, nudged, forgotten, sent, renewed>>
vars == <<kind, at, loc, log, rowVars, redisVars, boundVars, historyVars>>

Locked == {"morning_briefing", "evening_recap"}

Kinds == Locked \cup {"goal_checkin", "weekly_digest", "smart_checkin", "insight_observation",
                      "goal_coaching", "profile_nudge", "feature_discovery"}

Running == {"read", "tidy", "count", "write", "logged", "requeue", "asked", "reread", "advance"}

(* _INTERNAL_ACTION_TYPES: recaps and digests do not mention them.         *)
Internal == Kinds \ {"goal_checkin"}

Stages == 0..3   \* research, plan, check_in, follow_up

(* holds: it has set its lock; old: marked tasks to be archived; listed:   *)
(* tasks to be followed up on; marks: those of them not marked yet; about: *)
(* the goal or the feature; stage: the goal's, when it was last read.      *)
NoLoc == [holds |-> FALSE, old |-> {}, listed |-> {}, marks |-> {}, about |-> None, stage |-> 0]

NewTask == [overdue |-> FALSE, marked |-> FALSE, completed |-> FALSE, archived |-> FALSE]

Init ==
  /\ kind \in [Job -> Kinds]
  /\ at = [j \in Job |-> "idle"]
  /\ loc = [j \in Job |-> NoLoc]
  /\ locked = {}
  /\ task = [t \in Task |-> NewTask]
  /\ goal = [g \in Goal |-> [stage |-> 0, active |-> TRUE]]
  /\ milestones = {}
  /\ log = <<>>
  /\ tooSoon = {}
  /\ slips = 0 /\ edits = 0
  /\ opened = {} /\ told = {} /\ lapsed = {} /\ shaken = {} /\ forgotten = {} /\ renewed = {}
  /\ asked = [g \in Goal |-> <<>>]
  /\ nudged = [f \in Feature |-> 0]
  /\ sent = [j \in Job |-> 0]

TypeOK ==
  /\ kind \in [Job -> Kinds]
  /\ at \in [Job -> Running \cup {"idle", "queued", "over", "done"}]
  /\ loc \in [Job -> [holds : BOOLEAN, old : SUBSET Task, listed : SUBSET Task, marks : SUBSET Task,
                      about : Goal \cup Feature \cup {None}, stage : Stages]]
  /\ locked \subseteq Locked
  /\ task \in [Task -> [overdue : BOOLEAN, marked : BOOLEAN, completed : BOOLEAN, archived : BOOLEAN]]
  /\ goal \in [Goal -> [stage : Stages, active : BOOLEAN]]
  /\ milestones \subseteq Feature
  /\ log \in Seq([type : Kinds \cup {"action"}, about : Goal \cup Feature \cup {None}])
  /\ Len(log) <= LogLimit
  /\ tooSoon \subseteq Feature \cup {"profile_nudge"}
  /\ slips \in 0..MaxSlips /\ edits \in 0..MaxEdits
  /\ opened \subseteq Locked
  /\ told \subseteq Task /\ lapsed \subseteq Task
  /\ asked \in [Goal -> Seq(Stages)] /\ shaken \subseteq Goal
  /\ nudged \in [Feature -> Nat] /\ forgotten \subseteq Feature
  /\ sent \in [Job -> Nat] /\ renewed \subseteq Job

Goto(j, s) == at' = [at EXCEPT ![j] = s]
Slip == slips < MaxSlips /\ slips' = slips + 1
Edit == edits < MaxEdits /\ edits' = edits + 1

(* Other jobs of j's category that are at work. *)
Beside(j) == {k \in Job \ {j} : kind[k] = kind[j] /\ at[k] \in Running}

Active(t) == ~ task[t].completed /\ ~ task[t].archived

(* Mutant: the log is read without a limit. *)
Newest_All(rows) == rows

Newest(rows) == IF Len(rows) > LogLimit THEN Tail(rows) ELSE rows

LogAction(type, about) == log' = Newest(Append(log, [type |-> type, about |-> about]))

Logged(c) == \E i \in DOMAIN log : log[i].type = c

(* User-facing rows among the newest n. *)
Facing(n) == \E i \in DOMAIN log : i + n > Len(log) /\ log[i].type \notin Internal

NudgeRows(f) == Cardinality({i \in DOMAIN log : log[i] = [type |-> "feature_discovery", about |-> f]})

------------------------------------------------------------------------------
(* The scheduler puts the job on the stream.                               *)
Dispatch(j) ==
  /\ at[j] = "idle"
  /\ Goto(j, "queued")
  /\ UNCHANGED <<kind, loc, log, rowVars, redisVars, boundVars, historyVars>>

(* Mutant: SET without nx. *)
Claim_Overwrites(j) ==
  /\ locked' = locked \cup {kind[j]}
  /\ loc' = [loc EXCEPT ![j].holds = TRUE]
  /\ Goto(j, "read")
  /\ UNCHANGED <<slips, opened>>

(* _claim_handler_lock; with Redis out of reach the handler goes on.       *)
Claim(j) ==
  \/ /\ kind[j] \notin locked
     /\ locked' = locked \cup {kind[j]}
     /\ loc' = [loc EXCEPT ![j].holds = TRUE]
     /\ Goto(j, "read")
     /\ UNCHANGED <<slips, opened>>
  \/ /\ kind[j] \in locked
     /\ Goto(j, "over")
     /\ UNCHANGED <<loc, locked, slips, opened>>
  \/ /\ Slip
     /\ opened' = opened \cup {kind[j]}
     /\ Goto(j, "read")
     /\ UNCHANGED <<loc, locked>>

Start(j) ==
  /\ at[j] = "queued"
  /\ \/ kind[j] \in Locked /\ Claim(j)
     \/ kind[j] \notin Locked /\ Goto(j, "read") /\ UNCHANGED <<loc, locked, slips, opened>>
  /\ UNCHANGED <<kind, log, rowVars, tooSoon, edits, told, lapsed, asked, shaken, nudged, forgotten, sent, renewed>>

(* _has_content_delta compares dates of rows with the last send's, or asks *)
(* the calendar: either may come out, but a category that no row names has *)
(* news.  The profile's counts as its completeness.                        *)
MayBeStale(j) ==
  \/ kind[j] \in {"morning_briefing", "evening_recap", "goal_checkin", "weekly_digest",
                  "insight_observation", "goal_coaching"} /\ Logged(kind[j])
  \/ kind[j] = "profile_nudge"

Suppress(j) ==
  /\ at[j] = "read" /\ MayBeStale(j)
  /\ Goto(j, "over")
  /\ UNCHANGED <<kind, loc, log, rowVars, redisVars, boundVars, historyVars>>

readOnly == <<kind, log, rowVars, redisVars, boundVars, opened, told, lapsed, asked, nudged, sent, renewed>>

(* Mutant: the tasks that are not mentioned are marked too. *)
ReadTasks_MarksAll(j) ==
  LET due == {t \in Task : Active(t) /\ task[t].overdue}
      new == {t \in due : ~ task[t].marked} IN
  /\ at[j] = "read"
  /\ \E L \in SUBSET new :
       /\ IF Cardinality(new) <= FollowUps THEN L = new ELSE Cardinality(L) = FollowUps
       /\ loc' = [loc EXCEPT ![j].old = due \ new, ![j].listed = L, ![j].marks = new]
  /\ Goto(j, "tidy")
  /\ UNCHANGED <<readOnly, shaken, forgotten>>

(* The tasks as they are now; what happens to them later is not seen.  The *)
(* first of the overdue ones, by due date, are followed up on.             *)
ReadTasks(j) ==
  LET due == {t \in Task : Active(t) /\ task[t].overdue}
      new == {t \in due : ~ task[t].marked} IN
  /\ at[j] = "read"
  /\ \E L \in SUBSET new :
       /\ IF Cardinality(new) <= FollowUps THEN L = new ELSE Cardinality(L) = FollowUps
       /\ loc' = [loc EXCEPT ![j].old = due \ new, ![j].listed = L, ![j].marks = L]
  /\ Goto(j, "tidy")
  /\ UNCHANGED <<readOnly, shaken, forgotten>>

(* archive_task and mark_follow_up_sent look at the row again, but not at  *)
(* its due date or its completion.                                         *)
Archive(j) ==
  /\ at[j] = "tidy"
  /\ \E t \in loc[j].old :
       /\ task' = [task EXCEPT ![t].archived = TRUE]
       /\ loc' = [loc EXCEPT ![j].old = @ \ {t}]
  /\ UNCHANGED <<kind, at, log, goal, milestones, redisVars, boundVars, historyVars>>

MarkFollowUp(j) ==
  /\ at[j] = "tidy" /\ loc[j].old = {}
  /\ \E t \in loc[j].marks :
       /\ task' = [task EXCEPT ![t].marked = TRUE]
       /\ loc' = [loc EXCEPT ![j].marks = @ \ {t}]
  /\ UNCHANGED <<kind, at, log, goal, milestones, redisVars, boundVars, historyVars>>

Tidied(j) ==
  /\ at[j] = "tidy" /\ loc[j].old = {} /\ loc[j].marks = {}
  /\ Goto(j, "write")
  /\ UNCHANGED <<kind, loc, log, rowVars, redisVars, boundVars, historyVars>>

(* What a recap, a digest, a check-in or an insight is made of, or nothing *)
(* today, this week, or not enough memories.                               *)
Gather(j, has) ==
  /\ at[j] = "read"
  /\ Goto(j, "over") \/ (has /\ Goto(j, "write"))
  /\ UNCHANGED <<loc, readOnly, shaken, forgotten>>

(* The model writes the text, then the action is logged; the send counter  *)
(* and the cooldown are Throttle's and the planner's.                      *)
WriteText(j) ==
  /\ at[j] = "write"
  /\ Goto(j, "logged")
  /\ LogAction(kind[j], loc[j].about)
  /\ tooSoon' = IF loc[j].about \in Feature THEN tooSoon \cup {loc[j].about} ELSE tooSoon
  /\ UNCHANGED <<kind, loc, rowVars, locked, boundVars, historyVars>>

(* The handler returns and the worker publishes the text.                  *)
SendText(j) ==
  /\ at[j] = "logged"
  /\ Goto(j, "over")
  /\ told' = told \cup (loc[j].listed \ lapsed)
  /\ nudged' = [f \in Feature |-> IF loc[j].about = f THEN nudged[f] + 1 ELSE nudged[f]]
  /\ sent' = [sent EXCEPT ![j] = @ + 1]
  /\ UNCHANGED <<kind, loc, log, rowVars, redisVars, boundVars, opened, lapsed, asked, shaken, forgotten, renewed>>
------------------------------------------------------------------------------
(* The counters of profile nudges are read, then written; with Redis out   *)
(* of reach the nudge goes out uncounted.                                  *)
ReadNudges(j) ==
  /\ at[j] = "read"
  /\ \/ /\ Goto(j, IF "profile_nudge" \in tooSoon THEN "over" ELSE "count")
        /\ UNCHANGED <<slips, renewed>>
     \/ Slip /\ Goto(j, "write") /\ renewed' = renewed \cup {j}
  /\ UNCHANGED <<kind, loc, log, rowVars, redisVars, edits, opened, told, lapsed, asked, shaken,
                 nudged, forgotten, sent>>

(* Mutant: the time of the nudge is not kept. *)
CountNudge_NoTime(j) ==
  /\ at[j] = "count"
  /\ Goto(j, "write")
  /\ UNCHANGED <<kind, loc, log, rowVars, redisVars, boundVars, historyVars>>

CountNudge(j) ==
  /\ at[j] = "count"
  /\ Goto(j, "write")
  /\ \/ tooSoon' = tooSoon \cup {"profile_nudge"} /\ UNCHANGED <<slips, renewed>>
     \/ Slip /\ renewed' = renewed \cup {j} /\ UNCHANGED tooSoon
  /\ UNCHANGED <<kind, loc, log, rowVars, locked, edits, opened, told, lapsed, asked, shaken,
                 nudged, forgotten, sent>>

(* Mutant: one nudge too many. *)
Eligible_OneMore(f) ==
  /\ f \notin milestones
  /\ NudgeRows(f) <= MaxNudges
  /\ NudgeRows(f) > 0 => f \notin tooSoon

(* Neither discovered nor dismissed, and nudged less than MaxNudges times  *)
(* as far as the newest rows of the log tell.                              *)
Eligible(f) ==
  /\ f \notin milestones
  /\ NudgeRows(f) < MaxNudges
  /\ NudgeRows(f) > 0 => f \notin tooSoon

PickFeature(j) ==
  /\ at[j] = "read"
  /\ \/ /\ \A f \in Feature : ~ Eligible(f)
        /\ Goto(j, "over")
        /\ UNCHANGED <<loc, forgotten>>
     \/ \E f \in Feature :
          /\ Eligible(f)
          /\ loc' = [loc EXCEPT ![j].about = f]
          /\ Goto(j, "write")
          /\ forgotten' = IF nudged[f] > NudgeRows(f) \/ \E k \in Beside(j) : loc[k].about = f
                            THEN forgotten \cup {f} ELSE forgotten
  /\ UNCHANGED <<readOnly, shaken>>

------------------------------------------------------------------------------
(* The goal whose date is near, or the latest that was touched; its stage  *)
(* decides what the manager is asked.                                      *)
PickGoal(j) ==
  /\ at[j] = "read"
  /\ \/ /\ \A g \in Goal : ~ goal[g].active
        /\ Goto(j, "over")
        /\ UNCHANGED <<loc, shaken>>
     \/ \E g \in Goal :
          /\ goal[g].active
          /\ loc' = [loc EXCEPT ![j].about = g, ![j].stage = goal[g].stage]
          /\ Goto(j, "requeue")
          /\ shaken' = IF \E k \in Beside(j) : loc[k].about = g THEN shaken \cup {g} ELSE shaken
  /\ UNCHANGED <<readOnly, forgotten>>

CheckIn(j) ==
  /\ at[j] = "read"
  /\ Goto(j, "requeue")
  /\ UNCHANGED <<kind, loc, log, rowVars, redisVars, boundVars, historyVars>>

Coached(j) == {g \in Goal : loc[j].about = g}

(* XADD; when it fails the handler goes on without the manager, and a      *)
(* coached goal is advanced all the same.                                  *)
RequeueViaManager(j) ==
  /\ at[j] = "requeue"
  /\ \/ /\ Goto(j, "asked")
        /\ asked' = [g \in Goal |-> IF g \in Coached(j) THEN Append(asked[g], loc[j].stage) ELSE asked[g]]
        /\ UNCHANGED <<slips, shaken>>
     \/ /\ Slip
        /\ Goto(j, IF Coached(j) = {} THEN "over" ELSE "reread")
        /\ shaken' = shaken \cup Coached(j)
        /\ UNCHANGED asked
  /\ UNCHANGED <<kind, loc, log, rowVars, redisVars, edits, opened, told, lapsed, nudged, forgotten, sent, renewed>>

(* Mutant: a failure of the log ends the handler. *)
LogRequeue_Raises(j) ==
  /\ at[j] = "asked"
  /\ \/ /\ LogAction(kind[j], None)
        /\ Goto(j, IF Coached(j) = {} THEN "over" ELSE "reread")
        /\ UNCHANGED slips
     \/ Slip /\ Goto(j, "over") /\ UNCHANGED log
  /\ UNCHANGED <<kind, loc, rowVars, redisVars, edits, historyVars>>

(* A failure of the log is swallowed. *)
LogRequeue(j) ==
  /\ at[j] = "asked"
  /\ Goto(j, IF Coached(j) = {} THEN "over" ELSE "reread")
  /\ \/ LogAction(kind[j], None) /\ UNCHANGED slips
     \/ Slip /\ UNCHANGED log
  /\ UNCHANGED <<kind, loc, rowVars, redisVars, edits, historyVars>>

RereadGoal(j) ==
  /\ at[j] = "reread"
  /\ Goto(j, "advance")
  /\ \E g \in Coached(j) : loc' = [loc EXCEPT ![j].stage = goal[g].stage]
  /\ UNCHANGED <<kind, log, rowVars, redisVars, boundVars, historyVars>>

NextStage(s) == (s + 1) % 4

AdvanceGoal(j) ==
  /\ at[j] = "advance"
  /\ Goto(j, "over")
  /\ goal' = [g \in Goal |-> IF g \in Coached(j) THEN [goal[g] EXCEPT !.stage = NextStage(loc[j].stage)]
                              ELSE goal[g]]
  /\ UNCHANGED <<kind, loc, log, task, milestones, redisVars, boundVars, historyVars>>

------------------------------------------------------------------------------
(* The handlers. *)
MorningBriefing(j) ==
  /\ kind[j] = "morning_briefing"
  /\ ReadTasks(j) \/ Archive(j) \/ MarkFollowUp(j) \/ Tidied(j)

EveningRecap(j) == kind[j] = "evening_recap" /\ Gather(j, Facing(RecapLimit))

GoalCheckin(j) == kind[j] = "goal_checkin" /\ Gather(j, \E g \in Goal : goal[g].active)

WeeklyDigest(j) == kind[j] = "weekly_digest" /\ Gather(j, Facing(LogLimit))

InsightObservation(j) == kind[j] = "insight_observation" /\ Gather(j, TRUE)

ProfileNudge(j) == kind[j] = "profile_nudge" /\ (ReadNudges(j) \/ CountNudge(j))

FeatureDiscovery(j) == kind[j] = "feature_discovery" /\ PickFeature(j)

SmartCheckin(j) == kind[j] = "smart_checkin" /\ CheckIn(j)

GoalCoaching(j) == kind[j] = "goal_coaching" /\ (PickGoal(j) \/ RereadGoal(j) \/ AdvanceGoal(j))

HandlerStep(j) ==
  \/ Start(j) \/ Suppress(j)
  \/ MorningBriefing(j) \/ EveningRecap(j) \/ GoalCheckin(j) \/ WeeklyDigest(j)
  \/ InsightObservation(j) \/ ProfileNudge(j) \/ FeatureDiscovery(j) \/ SmartCheckin(j)
  \/ GoalCoaching(j)
  \/ RequeueViaManager(j) \/ LogRequeue(j) \/ WriteText(j) \/ SendText(j)

------------------------------------------------------------------------------
Acknowledge(j) ==
  /\ at[j] = "over"
  /\ Goto(j, "done")
  /\ loc' = [loc EXCEPT ![j] = NoLoc]
  /\ UNCHANGED <<kind, log, rowVars, redisVars, boundVars, historyVars>>

(* What the handlers J leave behind that they did not finish. *)
Abandon(J) ==
  LET stopped == {j \in J : at[j] \in Running} IN
  /\ lapsed' = lapsed \cup {t \in Task : task[t].marked /\ \E j \in stopped : t \in loc[j].listed}
  /\ shaken' = shaken \cup {g \in Goal : \E j \in stopped :
                   loc[j].about = g /\ at[j] \in {"asked", "reread", "advance"}}

(* The job's 120 seconds are over, and an apology goes out; or the handler *)
(* raises, and nothing does.                                               *)
GiveUp(j) ==
  /\ at[j] \in Running
  /\ Slip
  /\ Goto(j, "over")
  /\ Abandon({j})
  /\ UNCHANGED <<kind, loc, log, rowVars, redisVars, edits, opened, told, asked, nudged, forgotten, sent, renewed>>

WorkerDies ==
  /\ Slip
  /\ Abandon(Job)
  /\ at' = [j \in Job |-> IF at[j] \in Running \cup {"over"} THEN "queued" ELSE at[j]]
  /\ loc' = [j \in Job |-> NoLoc]
  /\ UNCHANGED <<kind, log, rowVars, redisVars, edits, opened, told, asked, nudged, forgotten, sent, renewed>>

(* Ten minutes: a handler has two.                                         *)
LockExpires(c) ==
  /\ c \in locked
  /\ \A j \in Job : kind[j] = c /\ loc[j].holds => at[j] \notin Running
  /\ locked' = locked \ {c}
  /\ UNCHANGED <<kind, at, loc, log, rowVars, tooSoon, boundVars, historyVars>>

(* The intervals between nudges, three days and more.                      *)
WeeksPass ==
  /\ Edit
  /\ \A j \in Job : at[j] \notin Running
  /\ tooSoon # {}
  /\ tooSoon' = {}
  /\ renewed' = renewed \cup {j \in Job : at[j] # "done"}
  /\ UNCHANGED <<kind, at, loc, log, rowVars, locked, slips, opened, told, lapsed, asked, shaken,
                 nudged, forgotten, sent>>

------------------------------------------------------------------------------
(* A reminder comes due and the user does nothing.                         *)
ComesDue(t) ==
  /\ ~ task[t].overdue
  /\ task' = [task EXCEPT ![t].overdue = TRUE]
  /\ UNCHANGED <<kind, at, loc, log, goal, milestones, redisVars, boundVars, historyVars>>

(* update_task with a new date, or the next date of a recurring reminder:  *)
(* the mark stays.                                                         *)
MoveTask(t) ==
  /\ Edit
  /\ task[t].overdue
  /\ task' = [task EXCEPT ![t].overdue = FALSE]
  /\ told' = told \ {t}
  /\ lapsed' = IF task[t].marked \/ \E j \in Job : at[j] \in Running /\ t \in loc[j].listed
                 THEN lapsed \cup {t} ELSE lapsed
  /\ UNCHANGED <<kind, at, loc, log, goal, milestones, redisVars, slips, opened, asked, shaken, nudged,
                 forgotten, sent, renewed>>

SetCompleted(t) ==
  /\ Edit
  /\ task' = [task EXCEPT ![t].completed = ~ @]
  /\ UNCHANGED <<kind, at, loc, log, goal, milestones, redisVars, slips, historyVars>>

(* complete, pause, resume; a deleted goal counts as one that is not active*)
SetActive(g) ==
  /\ Edit
  /\ goal' = [goal EXCEPT ![g].active = ~ @]
  /\ UNCHANGED <<kind, at, loc, log, task, milestones, redisVars, slips, historyVars>>

(* record_milestone, or the user dismisses the nudge.                      *)
Discovers(f) ==
  /\ Edit
  /\ milestones' = milestones \cup {f}
  /\ UNCHANGED <<kind, at, loc, log, task, goal, redisVars, slips, historyVars>>

(* The user has something done: a row that recaps mention.                 *)
UserActs ==
  /\ Edit
  /\ LogAction("action", None)
  /\ UNCHANGED <<kind, at, loc, rowVars, redisVars, slips, historyVars>>

UserStep ==
  \/ \E t \in Task : ComesDue(t) \/ MoveTask(t) \/ SetCompleted(t)
  \/ \E g \in Goal : SetActive(g)
  \/ \E f \in Feature : Discovers(f)
  \/ UserActs

Next ==
  \/ \E j \in Job : Dispatch(j) \/ HandlerStep(j) \/ Acknowledge(j) \/ GiveUp(j)
  \/ WorkerDies
  \/ \E c \in Locked : LockExpires(c)
  \/ WeeksPass
  \/ UserStep

Spec == Init /\ [][Next]_vars

------------------------------------------------------------------------------
(* Two handlers of a category that takes the lock do not run at once,      *)
(* whatever dies and is run again, unless Redis did not answer.            *)
(* (_claim_handler_lock against the job's time limit.)                     *)
OneAtATime ==
  \A j, k \in Job :
    /\ at[j] \in Running /\ at[k] \in Running
    /\ kind[j] = kind[k] /\ kind[j] \in Locked \ opened
    => j = k

(* A reminder is archived only after a briefing that followed up on it was *)
(* sent, or is about to be; or the mark is one of a briefing that never    *)
(* went out, or of a date the user has moved since.                        *)
(* (handle_morning_briefing in two runs, a day apart.)                     *)
ArchivedWasFollowedUp ==
  \A t \in Task : task[t].archived =>
    \/ t \in told \cup lapsed
    \/ \E j \in Job : at[j] \in Running /\ t \in loc[j].listed

(* Jobs that have asked the manager, or were refused, and are about to     *)
(* advance g.                                                              *)
Advancing(g) == {j \in Job : loc[j].about = g /\ at[j] \in {"asked", "reread", "advance"}}

(* A goal is coached stage by stage: the manager is asked for each in its  *)
(* turn, and the stage advances once for each time it was asked, unless    *)
(* two handlers coached the goal at once, the queue refused, or a handler  *)
(* was stopped in between.  (handle_goal_coaching, _requeue_via_manager.)  *)
CoachedInOrder ==
  \A g \in Goal \ shaken :
    /\ \A i \in DOMAIN asked[g] : asked[g][i] = (i - 1) % 4
    /\ goal[g].stage = (Len(asked[g]) - Cardinality(Advancing(g))) % 4

(* A feature is suggested MaxNudges times at most, unless the log has been *)
(* overwritten by newer rows or two handlers suggested it at once.         *)
(* (handle_feature_discovery: "after 3 nudges for a feature".)             *)
NudgesEnd == \A f \in Feature \ forgotten : nudged[f] <= MaxNudges

(* A nudge that is run again after it went out stays silent.               *)
(* (handle_profile_nudge against the redelivery of its job.)               *)
NudgedOnce ==
  \A j \in Job : kind[j] = "profile_nudge" /\ sent[j] > 1 => j \in renewed
=============================================================================
