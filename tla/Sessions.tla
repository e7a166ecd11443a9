------------------------------ MODULE Sessions ------------------------------
(***************************************************************************)
(* Task sessions of one channel: what the user is busy with, for the next  *)
(* message to go on from.                                                  *)
(***************************************************************************)
EXTENDS Naturals, Sequences

CONSTANTS Owner   \* the users

VARIABLES
  sess,    \* the table TaskSession; a row's last is the rank of its last_active
  now,     \* the rank of the latest activity
  horizon  \* activity up to this rank is more than 24 hours ago

sessionVars == <<sess, now, horizon>>

SessionsInit == sess = <<>> /\ now = 0 /\ horizon = 0

(* Whether a closed session was completed or abandoned makes no difference *)
(* to any reader. *)
SessionsTypeOK ==
  /\ sess \in Seq([user : Owner, open : BOOLEAN, last : Nat])
  /\ now \in Nat
  /\ horizon \in Nat

InProgress(u) == {s \in DOMAIN sess : sess[s].user = u /\ sess[s].open}

(* get_active_session, its first half: sessions of more than 24 hours ago  *)
(* are abandoned when somebody looks.                                      *)
AbandonStale(u) ==
  /\ sess' = [s \in DOMAIN sess |->
       IF s \in InProgress(u) /\ sess[s].last <= horizon
         THEN [sess[s] EXCEPT !.open = FALSE] ELSE sess[s]]
  /\ UNCHANGED <<now, horizon>>

(* Its second half: the most recently active one that is left, 0 if none.  *)
IsActiveSession(u, s) ==
  LET live == {q \in InProgress(u) : sess[q].last > horizon}
  IN  \/ live = {} /\ s = 0
      \/ s \in live /\ \A q \in live : sess[q].last <= sess[s].last

(* Mutant: the status is not changed. *)
CompleteSession_KeepsIt(s) == s \in DOMAIN sess /\ UNCHANGED sessionVars

CompleteSession(s) ==
  /\ sess' = [sess EXCEPT ![s].open = FALSE]
  /\ UNCHANGED <<now, horizon>>

(* upsert_session: the session the dispatch holds is in progress again,    *)
(* even if another dispatch has completed it; with none, a new row.        *)
UpsertSession(u, s) ==
  LET row == [user |-> u, open |-> TRUE, last |-> now + 1]
  IN  /\ sess' = IF s = 0 THEN Append(sess, row) ELSE [sess EXCEPT ![s] = row]
      /\ now' = now + 1
      /\ UNCHANGED horizon

DayPasses ==
  /\ horizon # now
  /\ horizon' = now
  /\ UNCHANGED <<sess, now>>
=============================================================================
