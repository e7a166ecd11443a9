--------------------------- MODULE MCConversation ---------------------------
(* Instances of Conversation. *)
EXTENDS Conversation

CONSTANTS m1, m2, m3, u1, u2

Messages2 == {m1, m2}
Messages3 == {m1, m2, m3}

(* A request, a yes, and another answer or a reminder that fires.  Goal    *)
(* coaching is offered the tools a request is, so that it is left out.     *)
Script == [m \in Msg |->
  IF m = m1 THEN {"say"} ELSE IF m = m2 THEN {"yes"} ELSE {"yes", "no", "scheduled"}]

(* Two requests. *)
Requests == [m \in Msg |-> {"say"}]

OneUser == {u1}
TwoUsers == {u1, u2}

Levels == [web_search |-> "low", create_reminder |-> "low", send_email |-> "high"]
BuiltinTools == DOMAIN Levels
FewLevels == [create_reminder |-> "low", create_event |-> "medium"]
FewTools == DOMAIN FewLevels

NoAgents == [u \in User |-> <<>>]

(* Two users have an agent of the same name, and rate it differently. *)
SameSlug == [u \in User |-> [custom_deploy |-> IF u = u1 THEN "high" ELSE "low"]]
=============================================================================
