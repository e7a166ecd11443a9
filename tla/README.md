# A model of FortyOne

TLA+ modules about the assistant in `src/`: what they model, what TLC checks of
them on small instances, and what TLAPS proves of them for every instance.

## The system

FortyOne answers a user's text messages (SMS or Slack) and writes to the user
unasked. Four processes run side by side and share Redis and an SQL database:

| Part | Source | State it keeps | Operations |
|---|---|---|---|
| API process: routes, message pipeline, response listener | `app/main.py`, `app/routes`, `app/channels`, `app/core/pipeline.py` | none but the listener's pub/sub connection | takes a message, pushes a job, races the worker for the answer, sends an acknowledgement, delivers announced results, resolves confirmations |
| Job queue | `app/queue/client.py` and Redis | stream `message_queue` with consumer group and pending list, `result:{job_id}`, `delivered:{job_id}`, a pub/sub channel | push, get and wait for a result, claim a delivery |
| Worker process | `app/queue/worker.py`, `scripts/run_worker.py` | running tasks, at most `max_concurrency` at a time | drain of the pending list, consume loop, handler, publish with fallback, XACK |
| Task handlers | `app/tasks` | rows of the database | the manager (LLM with tools), reminders, recall, settings, the proactive handlers |
| Scheduler process | `scripts/run_scheduler.py` | a cache of users | plans each user's day, claims due jobs of the sorted set `scheduled_jobs`, drops, defers or dispatches them |
| Day planner | `app/core/proactive_pool.py` | `proactive:plan:*`, `proactive:cooldown:*` | plan a day, check spacing, record a cooldown |
| Rate limits | `app/core/throttle.py` | hour and day counters, `proactive:disabled:*`, idempotency keys | check the limit, record a send, dead-man switch, quiet hours |
| Reminders | `app/tasks/reminder.py`, task routes of `app/routes/dashboard.py`, `handle_task_reminder` | task rows, entries of `scheduled_jobs` | create, move, complete, reopen, delete, fire, recur |
| Proactive handlers | `app/tasks/proactive.py` | `handler_lock:*`, `proactive:nudge_count:*`, task, goal and milestone rows, the action log | gather, write, log and hand back a text; archive; requeue through the manager; advance a goal's coaching |
| Pending actions | `pipeline.py`, `memory/store.py`, `tasks/manager.py` | `pending_actions` rows | propose, confirm, reject, expire |
| Manager and router | `tasks/manager.py`, `tasks/router.py`, `core/tools.py` | `TOOL_RISK`, the table of risks; the locals of a dispatch | execute what was confirmed, let the model call tools in rounds, propose, answer |
| Memory store, task sessions | `app/memory` | SQL rows | CRUD, session of the last 24 h |
| Capabilities cache, personas | `core/capabilities.py`, `core/persona.py` | `capabilities:*` for 30 min, a process-wide table | fetch, invalidate, detect |
| Accounts | `routes/auth.py`, `routes/admin.py`, `routes/slack.py` | users, sessions, one-time and linking codes | register, log in, refresh, link, reset, suspend, purge |
| Connections service | `connections/app` | OAuth and MCP connections, tokens, OAuth states | initiate, callback, connect, move, delete, refresh tokens, call tools |
| Dashboard front end | `dashboard/` | none the system relies on | a client of the routes |

They interact in three ways. The API and the scheduler put entries on the
stream and the worker reads them; the worker stores a result and announces it on
pub/sub, and two places in the API, the race of the request and the listener,
may deliver it; everything proactive goes through the sorted set, which
planner, reminders, dashboard and handlers write and the scheduler alone takes
from. Nothing is transactional across these steps. The dashboard's routes talk to
the connections service over HTTP and clear the capabilities cache themselves.

What is hard about it, and what makes each part right:

- **Job path.** Two deliverers, key lifetimes, a worker that dies between any two
  steps, a listener that is deaf between two subscriptions. Right means: no
  answer twice, no entry lost from the pending list or acknowledged unanswered,
  every message answered.
- **Proactive messaging.** Check and effect are hours and processes apart (the
  cooldown is read when the day is planned, the counter is raised when the
  handler runs), a job is removed before it is dispatched, plans are per local
  date and idempotency keys per UTC day. Right means: nothing twice, caps and
  cooldowns kept, no reminder lost without a trace, nothing starved.
- **Proactive handlers.** They mark, count and advance before the text is out, in
  transactions of their own; a rerun sees half of it. Right means: one handler of
  a locked category at a time, follow-up before archiving, one stage of coaching
  at a time, nudges that end.
- **Conversation.** Looking up, resolving and queueing a pending action are three
  steps, and redelivery runs a confirmed one again; two dispatches of a user see
  each other's sessions; one table of risks serves all users. Right means: what
  is risky runs only after a yes, a yes is served, a no is final.
- **Accounts.** Every route looks, awaits and then writes. Right means: a person
  has one account, and a password reset ends what went before.
- **Connections and their cache.** Authorizations return whenever the browser
  does; providers rotate refresh tokens; a cached view of the connections is
  cleared by some of those who change them. Right means: one connection a slot,
  none lost, no false "reconnect", no stale view without a reason.

`PROJECT.json` lists the places where each of these bites ("hazards") with the
properties that watch them; a hazard without one says why.

## Modules

    Redis <- Api, Worker <- JobDelivery <- MCJobDelivery, JobDelivery_proofs
    AnswerWindow                (instantiated by JobDelivery)
    Announcements <- MCAnnouncements, Announcements_proofs
    Throttle <- Scheduler <- Reminders <- Proactive <- MCProactive, Proactive_proofs
    DayPlan                     (instantiated by Proactive)
    Handlers <- MCHandlers, Handlers_proofs
    PendingActions <- Dialogue \
                      Sessions -> Manager <- Conversation <- MCConversation,
                                                             Conversation_proofs
    Approval                    (instantiated by Conversation)
    Requests <- Accounts \
    Requests <- Connections <- Capabilities -> Integrations <- MCIntegrations,
                                                   Accounts_proofs <- Connections_proofs

### The job path

- `Redis`: the stream, its pending list, the two kinds of key with a coarse
  clock, the subscription and what its connection has not consumed. One
  operator per Redis command. `kind[j]` says who queued the job; `missed` remembers
  the jobs of which something was wasted: an announcement nobody heard or that was
  forgotten with its connection, a result that expired, a claim that came to nothing
  because its call failed, its process died, or its result could not be sent.
- `Api`: per job a program counter for the request that races the worker
  (`pc`) and one for the listener (`lis`), the notice the user got, and `sent`,
  the final responses that reached the user. The listener handles one
  announcement at a time, as `ResponseListener.start` does. Actions follow
  `MessagePipeline._process`, `ResponseListener.start` and `_deliver`; each
  Redis call is a step of its own, and each may fail. A result that cannot be sent is
  dropped after the claim (`RaceDrops`, `ListenerDrops`: no address, no text or no
  such channel). A reminder of an account registered with an empty phone has no
  address (`dashboard.py:631`), the text of a stored preference is what the LLM
  returns, empty or not (`reminder.py:453`); the model lets it happen to any job, as
  the fault `malformed`.
- `Worker`: `phase` (down, drain, consume), the drain's batch and cursor, a task
  per job with the states of `_process_and_ack`. The semaphore bounds the tasks
  that run, not those that wait for it.
- `JobDelivery`: composition, clock, fairness and properties.
- `AnswerWindow`: the promise of the path with no machinery: an answer uses up a
  result of its own, and after an answer a job is quiet for a lock's life.
  `JobDelivery` implements it under the mapping `Quiet`, which counts a lock as
  quiet time only once its claim is spent.
- `Announcements`: the same way from worker to user for entries that may share an
  id. In `JobDelivery` ids are distinct; a reminder's payload has none, and all
  reminders are filed, announced and claimed under "unknown". Here `Id(e)` is the key
  that the worker uses, `result[i]` the entry whose text is under it. There is no
  race, which proactive jobs do not take part in. `excused` remembers entries that a
  death, a failing call, a lost announcement or a text that cannot be sent met, so that the properties are
  about the others.

### Proactive messaging

- `Throttle`: the clock and one user's limits. Every key is named after a user,
  so one user is the whole system. A tick is an hour of a day of `Day` hours;
  a flag set for n hours dies at some moment of the n-th hour after it, in which
  it may be seen or not.
- `Scheduler`: the poll as a program (`pc`): plan, fetch, claim, the checks in
  the code's order, XADD, cooldown. `score[j]` is the job's place in the sorted
  set (0: not a member), `hand` the job that was claimed. A pool job is a
  category and the local date of its plan. `fate` records how a reminder was
  lost, and the other histories when and how often things went out.
- `Reminders`: task rows, the dashboard and the handlers. The order in which
  `handle_task_reminder` saves, schedules and sends is one action, with every
  prefix of it that a dying worker or a failing Redis leaves behind.
- `Proactive`: composition, fairness and properties.
- `DayPlan`: the promise of planner and scheduler with no sorted set, poll, limits or
  quiet hours. The plan of a date is drawn once and chooses some categories; the job
  of a chosen one is placed once, and goes out once or is given up for good; a
  category goes out once between two midnights. `Proactive` implements it under the
  mapping `Stage`, by which a job that is in the set or in hand waits.

### Proactive handlers

- `Handlers`: the nine category handlers of one user, each job at one of the
  awaits of its handler (`at`), with the locals it carries from one to the next
  (`loc`). Rows that others may change in between (tasks, goals, the action log)
  are state; a text is nothing but the fact that it was written. The log keeps
  its newest `LogLimit` rows, all that anyone reads. A job may be stopped at any
  await (`GiveUp`), or all of them with the worker, whose drain runs what was not
  acknowledged again from the start. The handler lock is set and never released;
  that it lives ten minutes and a handler two is the guard of `LockExpires`.
  Whether there is news since the last send (`_has_content_delta` compares dates
  and asks the calendar) is a choice, save that a first send is always news.
  Caps, cooldowns and the plan that brings the jobs are in `Scheduler`; reminders
  are in `Reminders`.

### Conversation

- `PendingActions`: the tools, the table of their risks, and the rows of pending
  actions; a row past its half hour is "lapsed".
- `Dialogue`: the pipeline's branches for a message in their order: greeting of
  a first message, the pending action and its resolution, queueing; each await of
  `_process` is a step. A death of the API forgets what was not queued.
- `Sessions`: task sessions of a user, their abandonment after 24 hours included.
- `Manager`: `route_job` for a confirmed action and `manager_dispatch`: look-up of
  the session, registration of the user's agents, the model's answer with up to
  `MaxCalls` tool calls, each proposed or called, up to `MAX_TOOL_ROUNDS` rounds,
  the answer and the session's update. Jobs run side by side in one process.
- `Conversation`: composition and properties. It implements `Approval`, which
  knows only yeses: matched with an action, used by one job, given back when a
  worker dies.

### Accounts and connections

- `Requests`: requests as coroutines: a handler waits at an await, and any other
  may run before it goes on.
- `Accounts`: users, sessions, codes for linking Slack; the routes of `auth.py`,
  the admin's marks and purge, the first SMS and the Slack onboarding. A person is
  a phone, an email address and a Slack id in one; passwords are counted by
  `era[u]`, so that a session remembers the password it began with.
- `Connections`: authorizations from initiate to insert, API keys, replacement,
  deletion and moving to another persona; the dashboard's proxy, which gives up
  after ten seconds while the service goes on; failures of the insertion, which come
  after the old connection is gone for good; restarts of the service. `caller` is
  the account whose dashboard waits for the answer, which need not be the account the
  request is about: nobody asks whose connection is deleted or whose authorization
  comes back, and a move is checked only when the question for the owner is answered.
  A refresh token is its number in the row of rotations (`held`, `grant`); a provider
  may give none.
- `Capabilities`: the cache, and the tool calls that read it and refresh tokens:
  under a lock for Slack, without one for MCP, without rotation for Google.
- `Integrations`: composition of the two and their properties.

Operators named `X_Something` directly before `X` are the plausible mistakes the
properties are tested with: each property fails when `X` is replaced by it.

## What is checked

| Run | Instance | Shows |
|---|---|---|
| `faults` | 1 job, up to 4 faults of 8 kinds and delays; 380,000 states | `TypeOK`; no more answers than results; XACK never discards an unanswered job; what is announced is answered, or its answer is coming, unless something of it was wasted; nothing is rerun outside the drain; `DeliveryInv` and `StreamInv`; the path implements `AnswerWindow` |
| `live` | 2 jobs, 1 slot, drain batch 1, fair scheduling, a worker crash or a timeout at any step; 160,000 states | a message queued while the listener listens is answered; the drain clears what was pending and leaves nothing |
| `pool` | 2 categories, 12 hours of 6-hour days, zone +3, 1 disturbance; 790,000 states | `OncePerDay`, `CooldownAtPlan`, `SentWhileFresh`, `CapCloses`; planner and scheduler implement `DayPlan`, so that also `PoolJobOnce` |
| `reminders` | 1 recurring reminder, 1 category, batch 1, 1 backend failure or edit; 160,000 states | `ReminderAccounted`, `OccurrenceKept`; every due job is taken; a due reminder fires |
| `handlers` | 2 jobs of any categories, 2 tasks, 1 goal, 1 feature, a log of 2 rows, 2 deaths, timeouts or failing calls, 2 edits; 890,000 states | `OneAtATime`, `ArchivedWasFollowedUp`, `CoachedInOrder`, `NudgesEnd`, `NudgedOnce` |
| `conversation` | 1 user, 3 messages (a request, a yes, and a yes, a no or a reminder), 1 round of 1 call, 1 death, failure, timeout or expiry; 1,900,000 states | `OneSession`, `ConfirmedIsServed`, `RejectionSticks`; the conversation implements `Approval` |
| `integrations` | 3 requests, 2 user rows and persons, a Slack, an MCP and two Google slots, 1 older session or connection, 2 troubles; 90,000 states | `OneAccount`, `ResetSticks`, `OneConnection`, `SlotKept`, `ReauthIsTrue`, `StaleIsExplained` |
| `ack_answered` | violation | an answer announced while the listener reconnects is lost |
| `limited` | violation | a rate limit eats a reminder |
| `evening` | violation | a job deferred through the night is never stale and goes out the next morning |
| `unconfirmed` | violation | with two users who rate an agent of the same name differently, a risky tool runs unasked |
| `unknown_id` | violation | of two reminders that come due together one is never sent |

Each violation is a sentence of the repository that the code does not keep; the
findings in `PROJECT.json` quote both.

Why the bounds are enough:

- `live` has one slot and two jobs, so that a job waits behind another, and drain
  batches of one, so that a drain takes several batches. `faults` has one job: its
  properties speak of each job by itself, and are proved for any number of them. A
  key lives two ticks, the least that tells a young key from an old one. Four faults
  cover chains such as a crash after a failed XACK after a timeout.
- `pool` spans two plans, a UTC midnight between them (the zone is half a day)
  and cooldowns longer than a day. Quiet hours at both ends of the local day
  let an evening job be deferred across it. The cap is 2 of 3 an hour, the
  dead-man switch at 2, so all three limits come into play. Both categories may be
  chosen, so that they meet; that a plan keeps to fewer is proved.
- `reminders` has a two-hour day, the shortest with a quiet and a loud hour: a
  daily reminder fires in hour 1 and again in hour 3. With a batch of one the
  reminder and the pool job stand in each other's way.
- `handlers`: two jobs are two deliveries of one category, or two days of it, or a
  category and another that fills the log. One follow-up per briefing with two
  tasks leaves one unmentioned. With `MaxNudges` 1 and two log rows a second nudge
  is one too many, and rows are pushed out. Two slips make a death after a failing
  call. `Subject` keeps behaviours in which a change touches what no handler of
  them reads out of the search; jobs and tasks are symmetric.
- `conversation`: the three messages make every pair that matters meet: request and
  yes, two yeses, yes and no, a reminder beside them. More than one round repeats
  the same steps; the tools are one that is rated low and one that is not.
- `integrations`: three requests are two that race and a third that observes or
  cleans up. `Subject` checks accounts and connections apart: they share user rows
  only, and once a row is registered no step of connections asks for more. Accounts
  are about one person, whose requests are those that meet; connections are about
  two registered accounts, where the second one only asks for connections and
  authorizations of the first, which is all one account can do to another. A
  behaviour has connections of one kind: nothing relates those of different kinds
  but the cached answer, which takes them one by one. Two Google slots are two
  personas, for moving from one to the other. Requests and these two slots are
  symmetric. What a finished connections handler leaves in its locals is nothing a
  step reads, and `Seen` leaves it out of states.
- `unknown_id`: a pool job beside two reminders, the fewest that get in each other's
  way; no trouble is needed.
- An instance with deadlock checking off is one where the system may rest: its
  bounds on clock, faults or jobs are used up.

### Fairness

`FairSpec` of `JobDelivery` assumes that both processes run again some time
after a crash, that tasks go on, and that the listener reconnects (`start()`
loops with a pause). Docker Compose restarts the scheduler and the connections
service by itself (`restart: unless-stopped`); for api and worker
`docs/setup-docker.md` recommends the same policy, and without it the liveness
properties hold only until the first crash. `FairSpec` of `Proactive` assumes
that the scheduler polls and the worker handles what is queued. Nowhere does
fairness force a user to write, the clock to move or a fault to strike. The other
parts have safety properties alone: what must happen in them happens because the
worker finishes its jobs, which is `FairSpec`'s subject.

## What is proved

All for every value of the constants under the named assumptions in the modules
(positive key life, batch sizes and day length, finite sets of disturbances,
reminders distinct from pool jobs); tlapm checks every leaf.

`JobDelivery_proofs`:

- `TypeCorrect`, type correctness.
- `DeliveryHolds`: `DeliveryInv`, and from it `AnswersAreBacked`
  (`OneAnswerPerResult`). That answers never exceed results is not inductive: a
  claim on its way, an open claim and a result that outlives its lock are each a
  future answer. `DeliveryInv` counts them all against the results, and says why
  the two deliverers exclude each other (a claim holder's lock is as young as it
  can be, so no second claim succeeds and no older result survives it).
- `StreamHolds`: `StreamInv`; `EntryHolds`, `NoJobForgotten`
  (`AckedWasPublished`), `DrainIsComplete` (`DrainLeavesNothing`) and
  `RerunsAreDrained` (`RerunOnlyInDrain`) follow. It keeps an entry in exactly
  one of stream, pending list and history, and ties tasks to pending entries.
- `AnnouncedJobsAreAnswered` (`AnnouncedIsAnswered`), from `AnswerInv`. Race and
  listener compete, and the one that comes second gives up. A lock that is taken
  therefore has to stand for a message that was sent or will be, and neither the
  listener nor the channel nor the task about to announce may be at work on a job
  without a result; each holds unless the job is in `missed`. With `NoJobForgotten`
  it gives `MessagesAreNotForgotten`: from XADD to `channel.send` a message is in
  the stream, pending, answered or about to be, whatever fails, or something of it
  was wasted. The excuse is wide where the code is: an announcement nobody heard, a
  result that expired unread, a claim that failed, died with its process or was spent
  on a result without address, text or channel.
- `ImplementsAnswerWindow`: initial states and steps map to those of
  `AnswerWindow`. A crash maps to `Lose` of every claim the process held.

`Proactive_proofs`:

- `TypeCorrect`.
- `PlannedOnceSentOnce` (`PoolJobOnce`), from `PlaceInv`: a job is in the set, in
  hand or dispatched, never two of these, hand holds one job, and a category
  the current plan has still to place has no job of today anywhere. The last
  part is why the plan key is set before the planning: after a failed plan
  nothing is placed again.
- `CategoryOncePerDay` (`OncePerDay`), from `DayInv`: what went out today has its
  key, and the job between key and XADD has its key without having gone out.
- `ImplementsDayPlan` (`PlannedOnce`), from `PlaceInv` and `DayInv`: a job that waits
  belongs to a plan that was made and is none of those to be placed. A failed planning
  or poll maps to `GiveUp` of all it had chosen and had in hand.
- `PlansKeepTheirLimit`: no more than `MaxCategories` messages of a date's plan go
  out. It is proved of the steps of `DayPlan` alone (`DrawInv`) and carried over by
  the refinement.
- `NoReminderForgotten` (`ReminderAccounted`), from `RemInv`: an awaited reminder
  has an active row. Without that the worker could swallow the entry of a
  completed task the user still waits for.
- `NoOccurrenceSkipped` (`OccurrenceKept`), from `OccursInv`: the next occurrence of
  a recurring reminder is in one place, and off the set only when it has come. A
  worker that dies before its XACK fires the entry again, and an edit may meet an
  entry on its way; either skips an occurrence, and TLC shows that neither excuse
  can be dropped.
- `CapIsAWall` (`CapCloses`), from type correctness alone.
- `CooldownHoldsAtPlan` (`CooldownAtPlan`), from `CoolInv`: a waiting job was
  planned either before the last message of its category or after that one's
  cooldown, as long as the scheduler did not die between XADD and the cooldown's
  key.
- `PlannedJobsAreFresh` (`SentWhileFresh`), from `FreshInv`: a job is due within its
  window and three shifts, or an hour after a quiet hour that deferred it, and it is
  judged by that time.
- `JobsThatFitKeepTheirDate`: where the promise that the run `evening` refutes does
  hold. If each window, its three shifts and the stale threshold end within the day
  and meet no quiet hour (`FitsTheDay`), jobs go out on the date they were planned
  for. By the defaults (quiet from 22 to 7, stale after 6 hours, three shifts of
  half an hour) the window of the morning briefing fits, and that of the evening
  recap does not.

`Conversation_proofs`:

- `TypeCorrect`, from `TypeInv`, which adds that a dispatch's session exists and the
  tools it was offered are its user's.
- `YesIsNotLost` (`ConfirmedIsServed`), from `Course`: a message that resolved an
  action has been matched with it. The commit of the yes (`pipeline.py:189`) comes
  before its parameters are parsed, the context is read and the job is pushed; a
  task that fails there, or an API that dies there, leaves a confirmed action that
  nobody executes (`step = "lost"`), and that is the only way to lose one.
- `RejectionIsFinal` (`RejectionSticks`), step by step: with no yes under way for a
  row, none can get under way, since only pending rows are matched.
- `ImplementsApproval` (`Approvals`): each step maps to a step of `Approval` or to
  none. A death of the API maps to `Forget`, a task that
  fails with a recorded yes to `Close`, a death of the worker to `GiveBack`.
- `RiskyToolsAreConfirmed` (`RiskyIsConfirmed`) under `OneRating`: users with an
  agent of the same name rate it alike. The run `unconfirmed` shows that it does
  not hold without. `RiskInv` says that the table then shows every user their own
  ratings or the cautious default.
- `SessionsMeetOnlyInDispatches` (`OneSession`), from `SessionInv`: a user whose
  dispatches never overlapped has one session at most, and the dispatch at work
  holds it if there is one.

`Accounts_proofs`, of the whole of `Integrations`:

- `PersonsHaveOneAccount` (`OneAccount`), from `AccountInv`: what a handler learned
  before an await is still true after it. Rows of persons are added by handlers
  that found none, or fail on the unique columns.
- `ResetEndsSessions` (`ResetSticks`), from `EraInv`: a request that is about to open
  a session knows the password that holds now, or is marked as overtaken.

`Connections_proofs`, of the whole of `Integrations` too. All of it rests on `Base`:
types; `PhaseInv`, what a handler's locals are at which await; and `RenewInv`, that a
connection being renewed was inserted for good and is the user's.

- `TypeCorrect`, types of all three parts.
- `SlotsHaveOneConnection` (`OneConnection`), from `OneInv`: in a slot that was never
  crowded, whoever is about to insert is alone and the slot is empty.
- `WantedConnectionsStay` (`SlotKept`), inductive as it stands, given `Base`: an
  insertion takes a new name, so that it overwrites no other row. `dropped` has the
  exceptions: a handler that failed or died past the removal, and a deletion or a
  move at another account's request.
- `StaleAnswersAreExplained` (`StaleIsExplained`), user by user (`StaleAt`): what the
  assistant can see of a user changes only by steps about that user, and each of them
  either has a request of that user behind it that clears the cache later, or puts
  the user in `drift`: when the caller is another account or the provider's redirect,
  when the request failed or lost its proxy, or when a refused refresh is the reason.
- `ReauthHasAReason` (`ReauthIsTrue`), from `ReauthInv`: as long as nothing excuses a
  connection, whoever renews it holds the refresh token the provider takes, alone
  unless the token lasts, and the row holds it too unless somebody is about to store
  the next one. Slack's part needs the second read under the lock, Google's that the
  token stays.

`Handlers_proofs`, all of them with the help of `CarryInv`, which says what a job
carries from which await to which:

- `TypeCorrect`; the log never exceeds its limit.
- `HandlersTakeTurns` (`OneAtATime`), from `LockInv`: whoever runs in a locked category
  that was not opened holds the lock, it is set, and one job holds it.
- `FollowedUpFirst` (`ArchivedWasFollowedUp`), from `FollowUpInv`: the archive takes
  marked tasks only, and for a marked one a text was sent, is about to be, or was
  lost with its job.
- `NudgesStop` (`NudgesEnd`), from `FeatureInv`: one job at a time suggests a feature,
  and only while its nudges are fewer than `MaxNudges`.
- `NudgedAtMostOnce` (`NudgedOnce`), from `NudgeInv`: the time of a nudge is kept before
  its text is written, and stays until the job is done.
- `CoachingInOrder` (`CoachedInOrder`), from `CoachInv`: one job coaches a goal, what it
  knows of its stage is true, and the stage lags by one while it has asked.

`Announcements_proofs`:

- `TypeCorrect`.
- `OwnTextsArrive` (`OwnIdIsSent`), from `FiledInv` (a text is filed under the id of
  its entry) and `OwnInv`: as long as an entry is owed its delivery its text is
  stored from SETEX on, nobody but the listener that is at work on it holds its
  lock, and its announcement is on its way. No listed run has it: TLC found it to
  hold of one such entry beside two reminders, with two troubles (a million states).
  It is about ids that tell entries apart; the run `unknown_id` shows that it does
  not hold of the others.
- `OneReminderArrives` (`EveryoneIsSent`): if no two reminders share the default id, the
  promise that `unknown_id` refutes holds, whatever else is queued.

Only model-checked: the liveness properties (`MessageAnswered`, `DrainClears`,
`DueIsTaken`, `DueReminderFires`), which are out of the prover's reach. Every other
property of a passing run is a theorem. Of the refuted ones `RiskyIsConfirmed`,
`NoEveningInTheMorning` and `EveryoneIsSent` are proved under the assumption that their
counterexamples break; `RemindersIndependent` fails as soon as a limit is reached, and
`AckedIsAnswered` speaks of what must happen in the end.

## What is left out of these modules

- Job path: LEARN signals (a failure there comes after the answer). The drain takes
  any `DrainBatch` pending entries, not the oldest. Job ids are distinct in
  `JobDelivery`; `Announcements` is about shared ones, without the race. That the
  acknowledgement may follow the answer is in `Api`, and nothing in the code
  prevents it.
- Planner: which categories are eligible, the weights of the draw and a missing
  channel are one choice of any set of at most `MaxCategories`. A plan's key lives 24
  hours, which is at least its date in the model, where all days are of one length.
- Scheduler: its five-minute cache of users and settings. No hour passes within
  a poll, which takes seconds.
- Reminders: parsing of times; a title that changes together with the due time
  (the old payload then stays in the set beside the new one); reminders of type
  execute, which go out through a manager job.
- Handlers: texts, the calendar, memories and profile entries; the goal that the
  coaching prefers (any active one may be it). Deleted goals are inactive ones.
- How the worker retries a proactive entry is in `Worker`; `Reminders` only lets
  an entry survive the worker, and `Handlers` runs it again.
- Conversation: intents, personas, contexts and learned signals; what a tool does.
  Slack's events, which are not deduplicated, are messages of their own.
- Accounts: how a one-time code is checked, access tokens (valid for a quarter of an
  hour whatever happens to the session), the throttling of codes.
- Connections: the wire formats of OAuth and MCP, retries of a call with another
  session id, the rediscovery of an MCP server's tools, the variants of a cached
  answer by persona. `DELETE /me` asks the service to delete a user's connections by a
  route it does not have, so that they stay; no step of `Accounts` touches
  connections.

## Not modelled

- Intent rules, acknowledgement and greeting texts, recall, web search, the parsing
  of dates and settings: they keep no state, and what they come out as is a choice
  in the modules above.
- Memories, profile entries, embeddings, statistics and the debug routes: single
  reads and writes of rows nothing else depends on.
- The front end and the scripts.

## Plan

Done: the job path, proactive messaging, the handlers, the conversation, accounts
and connections. Then:

1. The table of persona tools that all users share, and the scheduler's cache of
   settings.
2. Pure algorithms: `_compute_next_occurrence` against a reference definition,
   `check_spacing`, `is_quiet_hours` around midnight.
