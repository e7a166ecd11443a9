----------------------------- MODULE AnswerWindow -----------------------------
(***************************************************************************)
(* What the job path promises about the answers a user gets for a job,     *)
(* with no stream, no worker, no race and no listener: an answer needs a   *)
(* result nobody has used yet, and after an answer (or after one that was  *)
(* claimed and lost) the job stays quiet for a window of TTL ticks.        *)
(***************************************************************************)
EXTENDS Naturals

CONSTANTS Job, TTL

VARIABLES
  results,   \* results stored for the job
  answers,   \* answers that reached the user
  quiet      \* ticks for which no answer may be sent

absVars == <<results, answers, quiet>>

Init ==
  /\ results = [j \in Job |-> 0]
  /\ answers = [j \in Job |-> 0]
  /\ quiet = [j \in Job |-> 0]

Result(j) ==
  /\ results' = [results EXCEPT ![j] = @ + 1]
  /\ UNCHANGED <<answers, quiet>>

Answer(j) ==
  /\ quiet[j] = 0
  /\ answers[j] < results[j]
  /\ answers' = [answers EXCEPT ![j] = @ + 1]
  /\ quiet' = [quiet EXCEPT ![j] = TTL]
  /\ UNCHANGED results

(* Claims that come to nothing: the claimed result was gone, the send      *)
(* failed, or the claiming process died, with every job it was serving.    *)
Lose(S) ==
  /\ \A j \in S : quiet[j] = 0
  /\ quiet' = [j \in Job |-> IF j \in S THEN TTL ELSE quiet[j]]
  /\ UNCHANGED <<results, answers>>

Tick ==
  /\ quiet' = [j \in Job |-> IF quiet[j] > 0 THEN quiet[j] - 1 ELSE 0]
  /\ UNCHANGED <<results, answers>>

Next ==
  \/ \E j \in Job : Result(j) \/ Answer(j)
  \/ \E S \in SUBSET Job : Lose(S)
  \/ Tick

Spec == Init /\ [][Next]_absVars
===============================================================================
