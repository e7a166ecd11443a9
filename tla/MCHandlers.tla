----------------------------- MODULE MCHandlers -----------------------------
(* An instance of Handlers. *)
EXTENDS Handlers, TLC

CONSTANTS j1, j2, t1, t2

Jobs == {j1, j2}
Tasks == {t1, t2}
Symmetry == {f @@ g : f \in Permutations(Jobs), g \in Permutations(Tasks)}

(* Two jobs of a category, or nudges and another category that adds to the *)
(* log; and what no handler of a behaviour looks at stays as it is.        *)
Among(K) == \E j \in Job : kind[j] \in K
Subject ==
  /\ \/ Cardinality({kind[j] : j \in Job}) = 1
     \/ Among({"feature_discovery"}) /\ ~ Among({"morning_briefing"})
  /\ Among({"morning_briefing"}) \/ task = [t \in Task |-> NewTask]
  /\ Among({"goal_checkin", "goal_coaching"}) \/ \A g \in Goal : goal[g].active
  /\ Among({"feature_discovery"}) \/ milestones = {}
  /\ Among({"evening_recap", "weekly_digest", "feature_discovery"})
       \/ \A i \in DOMAIN log : log[i].type # "action"
=============================================================================
