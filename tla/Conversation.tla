---------------------------- MODULE Conversation ----------------------------
(***************************************************************************)
(* Users, the API process and the worker process around one table of       *)
(* pending actions, one table of sessions and one dict of risk levels.     *)
(***************************************************************************)
EXTENDS Manager

vars == <<dialogueVars, pendingVars, managerVars>>

Init == PendingInit /\ DialogueInit /\ ManagerInit

Next ==
  \/ DialogueNext /\ UNCHANGED managerVars
  \/ ManagerNext

Spec == Init /\ [][Next]_vars

TypeOK == PendingTypeOK /\ DialogueTypeOK /\ ManagerTypeOK

------------------------------------------------------------------------------
(* What has become of the yes m gave. *)
Grant(m) ==
  IF text[m] # "yes" \/ target[m] = 0 \/ (step[m] \notin {"push", "lost"} /\ job[m] = "none")
    THEN "none"
  ELSE IF step[m] = "lost" \/ job[m] = "done" THEN "closed"
  ELSE IF job[m] = "answered" THEN "used"
  ELSE "fresh"

A == INSTANCE Approval WITH
       Reply <- Msg,
       grant <- [m \in Msg |-> Grant(m)],
       subject <- target,
       runs <- ran

(* A confirmed action is executed only in reply to a yes that was matched  *)
(* with it, a yes by one job, and again only after the worker died.        *)
(* (pipeline.py:187 to route_job, across the queue.)                       *)
Approvals == A!Spec

(* Some yes was matched with r and has not been served yet. *)
YesUnderWay(r) ==
  \E m \in Msg : /\ text[m] = "yes" /\ target[m] = r
                 /\ step[m] \in {"resolve", "push"} \/ job[m] \in {"queued", "answered"}

(* A rejected action with no yes under way is never revived: it stays      *)
(* rejected and no job of any message executes it, whatever the user       *)
(* answers later and whatever is rerun.  (get_pending_action against       *)
(* resolve_pending_action and the queue.)                                  *)
RejectionSticks ==
  [][\A r \in DOMAIN rows :
       rows[r].status = "rejected" /\ ~ YesUnderWay(r) =>
         /\ rows'[r].status = "rejected"
         /\ ~ YesUnderWay(r)'
         /\ \A m \in Msg : target'[m] = r => ran'[m] = ran[m]]_vars

(* Whatever was executed without asking is a tool that its user's own      *)
(* settings rate as low risk.  (blog.md:177; get_tool_risk.)               *)
RiskyIsConfirmed == \A x \in unconfirmed : OwnRisk(x[1], x[2]) = "low"

(* A user has two sessions in progress only after two dispatches of theirs *)
(* ran at once: whoever looks first completes or goes on from the one      *)
(* there is.  (get_active_session to upsert_session in manager_dispatch.)  *)
OneSession ==
  \A u \in User : u \notin overlapped =>
    \A s, q \in InProgress(u) : s = q

(* A recorded yes is on its way to the queue or has a job, which at least  *)
(* one execution or refusal follows.  Only what befalls the task between   *)
(* the commit of the yes and XADD leaves a confirmed action that nobody    *)
(* will execute: the API dies, or the parameters, the context or the push  *)
(* raise.  (pipeline.py:189-197.)                                          *)
ConfirmedIsServed ==
  \A r \in DOMAIN rows : rows[r].status = "confirmed" =>
    \E m \in Msg : /\ text[m] = "yes" /\ target[m] = r
                   /\ step[m] \in {"push", "lost"} \/ job[m] # "none"
=============================================================================
