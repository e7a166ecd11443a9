------------------------------- MODULE DayPlan --------------------------------
(***************************************************************************)
(* What planner and scheduler promise about the pool, with no sorted set,  *)
(* no poll, no quiet hours and no limits: the plan of a date is drawn once *)
(* and chooses a few categories; a chosen job is placed at most once, and  *)
(* a placed job either goes out, once, or is given up for good; a category *)
(* goes out at most once between two midnights.                            *)
(***************************************************************************)
EXTENDS Naturals

CONSTANTS
  Category,  \* what the messages of the pool are about
  Date,      \* the local dates
  Choices    \* the sets of categories that a plan may choose

VARIABLES
  stage,   \* where the job of a category and a date is
  sent,    \* how often the job went out
  today    \* the categories that went out since midnight

dayVars == <<stage, sent, today>>

Job == Category \X Date

Init ==
  /\ stage = [j \in Job |-> "ahead"]
  /\ sent = [j \in Job |-> 0]
  /\ today = {}

(* The plan of a date is drawn: what it does not choose is over. *)
Draw(d) ==
  /\ \A c \in Category : stage[<<c, d>>] = "ahead"
  /\ \E S \in Choices :
       stage' = [j \in Job |->
                   IF j[2] = d THEN IF j[1] \in S THEN "chosen" ELSE "over"
                   ELSE stage[j]]
  /\ UNCHANGED <<sent, today>>

Place(j) ==
  /\ stage[j] = "chosen"
  /\ stage' = [stage EXCEPT ![j] = "waiting"]
  /\ UNCHANGED <<sent, today>>

(* Jobs that will not go out: past their window, too close to others,      *)
(* stale, limited, sent already today, or met by a failure.                *)
GiveUp ==
  /\ \E S \in SUBSET {j \in Job : stage[j] \in {"chosen", "waiting"}} :
       stage' = [j \in Job |-> IF j \in S THEN "over" ELSE stage[j]]
  /\ UNCHANGED <<sent, today>>

Send(j) ==
  /\ stage[j] = "waiting"
  /\ j[1] \notin today
  /\ stage' = [stage EXCEPT ![j] = "over"]
  /\ sent' = [sent EXCEPT ![j] = @ + 1]
  /\ today' = today \cup {j[1]}

Midnight ==
  /\ today' = {}
  /\ UNCHANGED <<stage, sent>>

Next ==
  \/ \E d \in Date : Draw(d)
  \/ \E j \in Job : Place(j) \/ Send(j)
  \/ GiveUp \/ Midnight

Spec == Init /\ [][Next]_dayVars
===============================================================================
