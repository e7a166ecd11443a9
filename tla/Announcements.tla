---------------------------- MODULE Announcements ----------------------------
(***************************************************************************)
(* How the text of a proactive job gets from the worker to the user.  The  *)
(* worker files it under the job_id of the entry's payload and announces   *)
(* that id; the listener claims, reads and sends what it finds under it.   *)
(* A pool job has an id of its own, a reminder's payload has none: its     *)
(* text is filed under the default, "unknown".  JobDelivery takes ids to   *)
(* be distinct; this module is about entries that may share one.           *)
(***************************************************************************)
EXTENDS Naturals, Sequences, FiniteSets

CONSTANTS
  Entry,       \* entries of the stream
  Unknown,     \* the default id
  Reminders,   \* the entries without an id
  None,
  TTL,         \* life of result: and delivered: keys, in clock ticks
  Slots,       \* _MAX_CONCURRENCY
  MaxTrouble   \* deaths, failing calls and lost announcements looked at

(* What the theorems suppose of the constants. *)
Parameters ==
  /\ Reminders \subseteq Entry /\ Unknown \notin Entry
  /\ None \notin Entry \cup {Unknown}
  /\ TTL \in Nat \ {0} /\ Slots \in Nat \ {0} /\ MaxTrouble \in Nat

VARIABLES
  at,      \* at[e]: where e is
  result,  \* result[i]: whose text result:i holds, or None
  life,    \* life[i]: remaining life of result:i
  lock,    \* lock[i]: remaining life of delivered:i
  inbox,   \* ids announced to the listener, oldest first
  lis,     \* the listener: the id it has claimed, and the entry whose text it read
  sent,    \* entries whose text reached the user (history)
  excused, \* entries met by a trouble (history)
  trouble  \* troubles so far

vars == <<at, result, life, lock, inbox, lis, sent, excused, trouble>>

JobId == Entry \cup {Unknown}

(* payload.get("job_id", "unknown") *)
Id(e) == IF e \in Reminders THEN Unknown ELSE e

Idle == [id |-> None, of |-> None]
Working == {"running", "stored", "announced"}
Stages == {"away", "queued", "silent", "left", "done"} \cup Working

Init ==
  /\ at = [e \in Entry |-> "away"]
  /\ result = [i \in JobId |-> None]
  /\ life = [i \in JobId |-> 0]
  /\ lock = [i \in JobId |-> 0]
  /\ inbox = <<>>
  /\ lis = Idle
  /\ sent = {} /\ excused = {}
  /\ trouble = 0

TypeOK ==
  /\ at \in [Entry -> Stages]
  /\ result \in [JobId -> Entry \cup {None}]
  /\ life \in [JobId -> 0..TTL]
  /\ lock \in [JobId -> 0..TTL]
  /\ inbox \in Seq(JobId)
  /\ lis \in [id : JobId \cup {None}, of : Entry \cup {None}]
  /\ sent \subseteq Entry /\ excused \subseteq Entry
  /\ trouble \in 0..MaxTrouble

Moves(e, from, to) == at[e] = from /\ at' = [at EXCEPT ![e] = to]

Trouble == trouble < MaxTrouble /\ trouble' = trouble + 1

------------------------------------------------------------------------------
(* Scheduler and worker. *)

Dispatch(e) ==
  /\ Moves(e, "away", "queued")
  /\ UNCHANGED <<result, life, lock, inbox, lis, sent, excused, trouble>>

Start(e) ==
  /\ Cardinality({d \in Entry : at[d] \in Working}) < Slots
  /\ Moves(e, "queued", "running")
  /\ UNCHANGED <<result, life, lock, inbox, lis, sent, excused, trouble>>

(* Nothing to say: nothing is published, and the entry is XACKed. *)
Silent(e) ==
  /\ Moves(e, "running", "silent")
  /\ UNCHANGED <<result, life, lock, inbox, lis, sent, excused, trouble>>

(* SETEX, over whatever is there. *)
Store(e) ==
  /\ Moves(e, "running", "stored")
  /\ result' = [result EXCEPT ![Id(e)] = e]
  /\ life' = [life EXCEPT ![Id(e)] = TTL]
  /\ UNCHANGED <<lock, inbox, lis, sent, excused, trouble>>

(* PUBLISH; an announcement while nobody is subscribed is lost. *)
Announce(e) ==
  /\ Moves(e, "stored", "announced")
  /\ \/ inbox' = Append(inbox, Id(e)) /\ UNCHANGED <<excused, trouble>>
     \/ Trouble /\ excused' = excused \cup {e} /\ UNCHANGED inbox
  /\ UNCHANGED <<result, life, lock, lis, sent>>

Acknowledge(e) ==
  /\ Moves(e, "announced", "done")
  /\ UNCHANGED <<result, life, lock, inbox, lis, sent, excused, trouble>>

(* The job or a call of _publish_result fails or takes too long: an        *)
(* apology is stored under the same id ...                                 *)
Fallback(e) ==
  /\ Trouble
  /\ at[e] \in {"running", "stored"} /\ at' = [at EXCEPT ![e] = "stored"]
  /\ result' = [result EXCEPT ![Id(e)] = e]
  /\ life' = [life EXCEPT ![Id(e)] = TTL]
  /\ excused' = excused \cup {e}
  /\ UNCHANGED <<lock, inbox, lis, sent>>

(* ... and if that fails, too, the entry stays pending. *)
Unpublished(e) ==
  /\ Trouble
  /\ at[e] \in {"running", "stored"} /\ at' = [at EXCEPT ![e] = "left"]
  /\ UNCHANGED <<result, life, lock, inbox, lis, sent, excused>>

(* The worker dies; its next run drains what it had not acknowledged. *)
WorkerDies ==
  /\ Trouble
  /\ at' = [e \in Entry |-> IF at[e] \in Working \cup {"left"} THEN "queued" ELSE at[e]]
  /\ UNCHANGED <<result, life, lock, inbox, lis, sent, excused>>

------------------------------------------------------------------------------
(* The listener, one announcement at a time. *)

(* SET delivered:{job_id} NX: whoever comes second skips. *)
Listen ==
  LET i == Head(inbox) IN
  /\ lis = Idle /\ inbox # <<>>
  /\ inbox' = Tail(inbox)
  /\ IF lock[i] = 0
       THEN lock' = [lock EXCEPT ![i] = TTL] /\ lis' = [id |-> i, of |-> None]
       ELSE UNCHANGED <<lock, lis>>
  /\ UNCHANGED <<at, result, life, sent, excused, trouble>>

Get ==
  LET i == lis.id IN
  /\ i # None /\ lis.of = None
  /\ lis' = IF life[i] > 0 THEN [lis EXCEPT !.of = result[i]] ELSE Idle
  /\ UNCHANGED <<at, result, life, lock, inbox, sent, excused, trouble>>

Send ==
  /\ lis.of # None
  /\ lis' = Idle
  /\ sent' = sent \cup {lis.of}
  /\ UNCHANGED <<at, result, life, lock, inbox, excused, trouble>>

Named(i) == {e \in Entry : Id(e) = i}

(* A call of the listener fails: start() logs it and goes on, the claim    *)
(* stays; or _deliver drops a text that has no address or channel.  Or its *)
(* connection drops, with what has not been handed over.                   *)
ListenFails ==
  /\ Trouble
  /\ \/ /\ lis # Idle /\ lis' = Idle
        /\ excused' = excused \cup Named(lis.id)
        /\ UNCHANGED inbox
     \/ /\ inbox # <<>> /\ inbox' = <<>>
        /\ excused' = excused \cup {e \in Entry : \E k \in 1..Len(inbox) : inbox[k] = Id(e)}
        /\ UNCHANGED lis
  /\ UNCHANGED <<at, result, life, lock, sent>>

Older(ttl) == [i \in JobId |-> IF ttl[i] > 0 THEN ttl[i] - 1 ELSE 0]

(* Keys live for 300 s; a delivery and an announcement take seconds.       *)
Tick ==
  /\ lis = Idle /\ inbox = <<>>
  /\ \A e \in Entry : at[e] # "stored"
  /\ life' = Older(life) /\ lock' = Older(lock)
  /\ UNCHANGED <<at, result, inbox, lis, sent, excused, trouble>>

Next ==
  \/ \E e \in Entry : \/ Dispatch(e) \/ Start(e) \/ Silent(e)
                      \/ Store(e) \/ Announce(e) \/ Acknowledge(e)
                      \/ Fallback(e) \/ Unpublished(e)
  \/ WorkerDies
  \/ Listen \/ Get \/ Send \/ ListenFails
  \/ Tick

Spec == Init /\ [][Next]_vars

------------------------------------------------------------------------------
Spoken(e) == at[e] \in {"announced", "done"} /\ e \notin excused

(* The listener still has to do with id i. *)
OnItsWay(i) == lis.id = i \/ \E k \in 1..Len(inbox) : inbox[k] = i

(* The text of an entry with an id of its own reaches the user, or is on   *)
(* its way, whatever else is announced, rerun or expires meanwhile.        *)
(* (_publish_result against _deliver and its lock.)                        *)
OwnIdIsSent == \A e \in Entry \ Reminders : Spoken(e) => e \in sent \/ OnItsWay(Id(e))

(* What the schedulers' comments promise, for reminders as well.           *)
EveryoneIsSent == \A e \in Entry : Spoken(e) => e \in sent \/ OnItsWay(Id(e))
=============================================================================
