------------------------------ MODULE Approval ------------------------------
(***************************************************************************)
(* What confirmation promises: an action that needs the user's word is     *)
(* executed only in reply to a yes, and a yes is used by one execution at  *)
(* a time.  Only a worker that dies gives a used yes back.                 *)
(***************************************************************************)
EXTENDS Naturals

CONSTANTS Reply   \* the users' messages

VARIABLES
  grant,   \* grant[m]: "none", "fresh" (a yes that was not used yet), "used", "closed"
  subject, \* subject[m]: the pending action a yes was matched with, 0 without
  runs     \* runs[m]: executions backed by m

vars == <<grant, subject, runs>>

Init ==
  /\ grant = [m \in Reply |-> "none"]
  /\ subject = [m \in Reply |-> 0]
  /\ runs = [m \in Reply |-> 0]

Match(m) ==
  /\ grant[m] = "none"
  /\ subject'[m] \in Nat
  /\ subject' = [subject EXCEPT ![m] = subject'[m]]
  /\ UNCHANGED <<grant, runs>>

Approve(m) ==
  /\ grant[m] = "none"
  /\ subject[m] # 0
  /\ grant' = [grant EXCEPT ![m] = "fresh"]
  /\ UNCHANGED <<subject, runs>>

Use(m) ==
  /\ grant[m] = "fresh"
  /\ grant' = [grant EXCEPT ![m] = "used"]
  /\ runs' \in {runs, [runs EXCEPT ![m] = @ + 1]}
  /\ UNCHANGED subject

Close(m) ==
  /\ grant[m] \in {"fresh", "used"}
  /\ grant' = [grant EXCEPT ![m] = "closed"]
  /\ UNCHANGED <<subject, runs>>

(* A worker dies: what it had in hand will be done once more. *)
GiveBack ==
  /\ grant' = [m \in Reply |-> IF grant[m] = "used" THEN "fresh" ELSE grant[m]]
  /\ UNCHANGED <<subject, runs>>

(* The API dies, or a call of it fails: a yes on its way to the queue may  *)
(* be forgotten.                                                           *)
Forget ==
  /\ \E M \in SUBSET {m \in Reply : grant[m] = "fresh"} :
       grant' = [m \in Reply |-> IF m \in M THEN "closed" ELSE grant[m]]
  /\ UNCHANGED <<subject, runs>>

Next ==
  \/ \E m \in Reply : Match(m) \/ Approve(m) \/ Use(m) \/ Close(m)
  \/ GiveBack
  \/ Forget

Spec == Init /\ [][Next]_vars
=============================================================================
