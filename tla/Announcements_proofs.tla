------------------------ MODULE Announcements_proofs ------------------------
(* Proofs about Announcements.  What ties an entry to its text is its id:  *)
(* from the entry to the id (Id) and back, if nobody else has it.          *)
EXTENDS Announcements, TLAPS

(* The entries that share their id with none: all that have one of their   *)
(* own, and a reminder that is the only one.                               *)
Own == {e \in Entry : \A f \in Entry : Id(f) = Id(e) => f = e}

(* Entries that still have their announcement to be answered for. *)
Open(e) == e \notin sent /\ e \notin excused

(* A text is filed under the id of its entry, and the listener has read    *)
(* the text of the id it claimed.                                          *)
FiledInv ==
  /\ \A i \in JobId : result[i] # None => Id(result[i]) = i
  /\ lis.of # None => lis.id # None /\ Id(lis.of) = lis.id

(* The text of an open entry is there from its storing until it is sent,   *)
(* its claim is the listener's, and once announced it is on its way.       *)
OwnInv ==
  \A e \in Own : Open(e) =>
    /\ at[e] = "stored" \/ OnItsWay(Id(e)) => result[Id(e)] = e /\ life[Id(e)] > 0
    /\ lock[Id(e)] > 0 => lis.id = Id(e)
    /\ at[e] \in {"announced", "done"} => OnItsWay(Id(e))

IInv == TypeOK /\ FiledInv /\ OwnInv

LEMMA OwnIds == ASSUME Parameters PROVE
  /\ \A e \in Entry : Id(e) \in JobId /\ Id(e) # None
  /\ \A e \in Entry \ Reminders : e \in Own
BY DEF Parameters, Id, JobId, Own

LEMMA TypeStep == ASSUME Parameters PROVE TypeOK /\ [Next]_vars => TypeOK'
<1> USE DEF Parameters
<1> SUFFICES ASSUME TypeOK, [Next]_vars PROVE TypeOK'
  OBVIOUS
<1> USE DEF TypeOK, Stages, Working, JobId, Trouble, Moves
<1>1. ASSUME NEW e \in Entry, Dispatch(e) \/ Start(e) \/ Silent(e) \/ Acknowledge(e) PROVE TypeOK'
  <2>1. at' \in [Entry -> Stages]
    BY <1>1 DEF Dispatch, Start, Silent, Acknowledge
  <2>2. UNCHANGED <<result, life, lock, inbox, lis, sent, excused, trouble>>
    BY <1>1 DEF Dispatch, Start, Silent, Acknowledge
  <2> QED BY <2>1, <2>2
<1>2. ASSUME NEW e \in Entry, Store(e) \/ Fallback(e) \/ Unpublished(e) PROVE TypeOK'
  <2>0. Id(e) \in JobId /\ TTL \in 0..TTL
    BY OwnIds
  <2>1. at' \in [Entry -> Stages] /\ UNCHANGED <<lock, inbox, lis, sent>>
    <3>1. CASE Store(e)
      BY <3>1 DEF Store
    <3>2. CASE Fallback(e)
      BY <3>2 DEF Fallback
    <3>3. CASE Unpublished(e)
      BY <3>3 DEF Unpublished
    <3> QED BY <1>2, <3>1, <3>2, <3>3
  <2>2. result' \in [JobId -> Entry \cup {None}] /\ life' \in [JobId -> 0..TTL]
    <3>1. CASE Store(e)
      BY <3>1, <2>0 DEF Store
    <3>2. CASE Fallback(e)
      BY <3>2, <2>0 DEF Fallback
    <3>3. CASE Unpublished(e)
      BY <3>3 DEF Unpublished
    <3> QED BY <1>2, <3>1, <3>2, <3>3
  <2>3. excused' \subseteq Entry /\ trouble' \in 0..MaxTrouble
    BY <1>2 DEF Store, Fallback, Unpublished
  <2> QED BY <2>1, <2>2, <2>3
<1>3. ASSUME NEW e \in Entry, Announce(e) PROVE TypeOK'
  <2>1. at' \in [Entry -> Stages] /\ UNCHANGED <<result, life, lock, lis, sent>>
    BY <1>3 DEF Announce
  <2>2. inbox' \in Seq(JobId)
    <3>1. Append(inbox, Id(e)) \in Seq(JobId)
      BY OwnIds
    <3> QED BY <1>3, <3>1 DEF Announce
  <2>3. excused' \subseteq Entry /\ trouble' \in 0..MaxTrouble
    BY <1>3 DEF Announce
  <2> QED BY <2>1, <2>2, <2>3
<1>4. CASE WorkerDies
  BY <1>4 DEF WorkerDies
<1>5. CASE Listen
  <2>1. Head(inbox) \in JobId /\ inbox' \in Seq(JobId)
    BY <1>5 DEF Listen
  <2> QED BY <1>5, <2>1 DEF Listen, Idle
<1>6. CASE Get \/ Send
  BY <1>6 DEF Get, Send, Idle
<1>7. CASE ListenFails
  <2>1. UNCHANGED <<at, result, life, lock, sent>> /\ trouble' \in 0..MaxTrouble
    BY <1>7 DEF ListenFails
  <2>2. inbox' \in Seq(JobId)
    <3>1. <<>> \in Seq(JobId)
      OBVIOUS
    <3> QED BY <1>7, <3>1 DEF ListenFails
  <2>3. lis' \in [id : JobId \cup {None}, of : Entry \cup {None}]
    BY <1>7 DEF ListenFails, Idle
  <2>4. excused' \subseteq Entry
    BY <1>7 DEF ListenFails, Named
  <2> QED BY <2>1, <2>2, <2>3, <2>4
<1>8. CASE Tick
  BY <1>8 DEF Tick, Older
<1>9. CASE UNCHANGED vars
  BY <1>9 DEF vars
<1> QED BY <1>1, <1>2, <1>3, <1>4, <1>5, <1>6, <1>7, <1>8, <1>9 DEF Next

LEMMA FiledStep == ASSUME Parameters PROVE TypeOK /\ FiledInv /\ [Next]_vars => FiledInv'
<1> USE DEF Parameters
<1> SUFFICES ASSUME TypeOK, FiledInv, [Next]_vars PROVE FiledInv'
  OBVIOUS
<1> USE DEF FiledInv
<1>1. ASSUME NEW e \in Entry, Dispatch(e) \/ Start(e) \/ Silent(e) \/ Acknowledge(e)
                              \/ Unpublished(e) \/ Announce(e)
      PROVE FiledInv'
  <2>1. UNCHANGED <<result, lis>>
    BY <1>1 DEF Dispatch, Start, Silent, Acknowledge, Unpublished, Announce
  <2> QED BY <2>1 DEF Id
<1>2. ASSUME NEW e \in Entry, Store(e) \/ Fallback(e) PROVE FiledInv'
  <2>1. lis' = lis /\ result' = [result EXCEPT ![Id(e)] = e] /\ Id(e) \in JobId
    BY <1>2, OwnIds DEF Store, Fallback
  <2> QED BY <2>1 DEF Id, TypeOK
<1>3. CASE WorkerDies \/ Tick \/ UNCHANGED vars
  <2>1. UNCHANGED <<result, lis>>
    BY <1>3 DEF WorkerDies, Tick, vars
  <2> QED BY <2>1 DEF Id
<1>4. CASE Listen
  BY <1>4 DEF Listen, Id, Idle
<1>5. CASE Get
  BY <1>5 DEF Get, Id, Idle, TypeOK
<1>6. CASE Send
  BY <1>6 DEF Send, Id, Idle
<1>7. CASE ListenFails
  BY <1>7 DEF ListenFails, Id, Idle
<1> QED BY <1>1, <1>2, <1>3, <1>4, <1>5, <1>6, <1>7 DEF Next

LEMMA OwnStep == ASSUME Parameters PROVE IInv /\ [Next]_vars => OwnInv'
<1> USE DEF Parameters
<1> SUFFICES ASSUME IInv, [Next]_vars, NEW e \in Own, Open(e)', NEW i \in JobId, i = Id(e) PROVE
      /\ at'[e] = "stored" \/ OnItsWay(i)' => result'[i] = e /\ life'[i] > 0
      /\ lock'[i] > 0 => lis'.id = i
      /\ at'[e] \in {"announced", "done"} => OnItsWay(i)'
  BY OwnIds DEF OwnInv, Own
<1> USE DEF IInv, Open
<1>0. e \in Entry /\ i # None /\ \A f \in Entry : Id(f) = i => f = e
  BY OwnIds DEF Own
<1>1. Open(e)
  <2>1. sent \subseteq sent'
    BY DEF Next, Dispatch, Start, Silent, Acknowledge, Unpublished, Store, Fallback, Announce,
           WorkerDies, Listen, Get, Send, ListenFails, Tick, vars
  <2>2. excused \subseteq excused'
    BY DEF Next, Dispatch, Start, Silent, Acknowledge, Unpublished, Store, Fallback, Announce,
           WorkerDies, Listen, Get, Send, ListenFails, Tick, vars
  <2> QED BY <2>1, <2>2
<1>2. /\ at[e] = "stored" \/ OnItsWay(i) => result[i] = e /\ life[i] > 0
      /\ lock[i] > 0 => lis.id = i
      /\ at[e] \in {"announced", "done"} => OnItsWay(i)
  BY <1>0, <1>1 DEF OwnInv
<1> DEFINE Goal ==
      /\ at'[e] = "stored" \/ OnItsWay(i)' => result'[i] = e /\ life'[i] > 0
      /\ lock'[i] > 0 => lis'.id = i
      /\ at'[e] \in {"announced", "done"} => OnItsWay(i)'
(* Steps that touch neither keys nor announcements. *)
<1>3. ASSUME NEW f \in Entry, Dispatch(f) \/ Start(f) \/ Silent(f) \/ Acknowledge(f) \/ Unpublished(f)
      PROVE Goal
  <2>1. UNCHANGED <<result, life, lock, inbox, lis>>
    BY <1>3 DEF Dispatch, Start, Silent, Acknowledge, Unpublished
  <2>2. /\ at'[e] = "stored" => at[e] = "stored"
        /\ at'[e] \in {"announced", "done"} => at[e] \in {"announced", "done"}
    BY <1>0, <1>3 DEF Dispatch, Start, Silent, Acknowledge, Unpublished, Moves, TypeOK
  <2> QED BY <1>2, <2>1, <2>2 DEF OnItsWay
<1>4. CASE WorkerDies \/ UNCHANGED vars
  <2>1. UNCHANGED <<result, life, lock, inbox, lis>>
    BY <1>4 DEF WorkerDies, vars
  <2>2. /\ at'[e] = "stored" => at[e] = "stored"
        /\ at'[e] \in {"announced", "done"} => at[e] \in {"announced", "done"}
    BY <1>0, <1>4 DEF WorkerDies, TypeOK, vars
  <2> QED BY <1>2, <2>1, <2>2 DEF OnItsWay
(* Another entry stores its text under another id. *)
<1>5. ASSUME NEW f \in Entry, Store(f) \/ Fallback(f) PROVE Goal
  <2>1. /\ UNCHANGED <<lock, inbox, lis>> /\ Id(f) \in JobId
        /\ result' = [result EXCEPT ![Id(f)] = f] /\ life' = [life EXCEPT ![Id(f)] = TTL]
        /\ at' = [at EXCEPT ![f] = "stored"]
    BY <1>5, OwnIds DEF Store, Fallback, Moves
  <2>2. CASE f = e
    <3>1. result'[i] = e /\ life'[i] > 0 /\ at'[e] = "stored"
      BY <1>0, <2>1, <2>2 DEF TypeOK
    <3> QED BY <1>2, <2>1, <3>1
  <2>3. CASE f # e
    <3>1. result'[i] = result[i] /\ life'[i] = life[i] /\ at'[e] = at[e]
      BY <1>0, <2>1, <2>3 DEF TypeOK
    <3> QED BY <1>2, <2>1, <3>1 DEF OnItsWay
  <2> QED BY <2>2, <2>3
<1>6. ASSUME NEW f \in Entry, Announce(f) PROVE Goal
  <2>1. /\ UNCHANGED <<result, life, lock, lis>> /\ Id(f) \in JobId
        /\ at[f] = "stored" /\ at' = [at EXCEPT ![f] = "announced"]
    BY <1>6, OwnIds DEF Announce, Moves
  <2>2. CASE inbox' = Append(inbox, Id(f))
    <3>1. /\ Len(inbox') = Len(inbox) + 1 /\ inbox'[Len(inbox) + 1] = Id(f)
          /\ \A k \in 1..Len(inbox) : inbox'[k] = inbox[k]
          /\ Len(inbox) \in Nat
      BY <2>1, <2>2 DEF TypeOK
    <3>2. OnItsWay(i)' <=> OnItsWay(i) \/ f = e
      <4>1. ASSUME OnItsWay(i)' PROVE OnItsWay(i) \/ f = e
        BY <1>0, <2>1, <3>1, <4>1 DEF OnItsWay
      <4>2. ASSUME OnItsWay(i) \/ f = e PROVE OnItsWay(i)'
        BY <1>0, <2>1, <3>1, <4>2 DEF OnItsWay
      <4> QED BY <4>1, <4>2
    <3>3. at'[e] = IF f = e THEN "announced" ELSE at[e]
      BY <1>0, <2>1 DEF TypeOK
    <3> QED BY <1>2, <2>1, <3>2, <3>3
  <2>3. CASE UNCHANGED inbox /\ excused' = excused \cup {f}
    <3>1. at'[e] = at[e]
      BY <1>0, <2>1, <2>3 DEF TypeOK
    <3> QED BY <1>2, <2>1, <2>3, <3>1 DEF OnItsWay
  <2> QED BY <1>6, <2>2, <2>3 DEF Announce
(* An open id is free when its announcement is heard, so it is claimed. *)
<1>7. CASE Listen
  <2>1. /\ UNCHANGED <<at, result, life>> /\ lis.id = None
        /\ inbox # <<>> /\ inbox' = Tail(inbox) /\ Head(inbox) \in JobId
    BY <1>7 DEF Listen, Idle, TypeOK
  <2>2. /\ Len(inbox) \in Nat /\ Len(inbox) >= 1 /\ Len(inbox') = Len(inbox) - 1
        /\ Head(inbox) = inbox[1]
        /\ \A k \in 1..Len(inbox') : inbox'[k] = inbox[k + 1]
    BY <2>1 DEF TypeOK
  <2>3. lock[i] = 0
    BY <1>0, <1>2, <2>1 DEF TypeOK
  <2>4. CASE Head(inbox) = i
    <3>1. lis'.id = i /\ OnItsWay(i)
      BY <1>0, <1>7, <2>2, <2>3, <2>4 DEF Listen, OnItsWay
    <3> QED BY <1>2, <2>1, <3>1 DEF OnItsWay
  <2>5. CASE Head(inbox) # i
    <3>1. lis'.id # i /\ lock'[i] = lock[i]
      BY <1>0, <1>7, <2>1, <2>5 DEF Listen, TypeOK
    <3>2. OnItsWay(i)' <=> OnItsWay(i)
      <4>1. ASSUME NEW k \in 1..Len(inbox), inbox[k] = i PROVE OnItsWay(i)'
        <5>1. k # 1 /\ k - 1 \in 1..Len(inbox')
          BY <2>2, <2>5, <4>1
        <5>2. inbox'[k - 1] = inbox[(k - 1) + 1] /\ (k - 1) + 1 = k
          BY <2>2, <5>1
        <5> QED BY <4>1, <5>1, <5>2 DEF OnItsWay
      <4>2. ASSUME OnItsWay(i)' PROVE OnItsWay(i)
        BY <2>2, <3>1, <4>2 DEF OnItsWay
      <4> QED BY <1>0, <2>1, <4>1, <4>2 DEF OnItsWay
    <3> QED BY <1>2, <2>1, <2>3, <3>1, <3>2
  <2> QED BY <2>4, <2>5
(* What it then reads is the entry's text. *)
<1>8. CASE Get
  <2>1. UNCHANGED <<at, result, life, lock, inbox>> /\ lis.id # None
    BY <1>8 DEF Get
  <2>2. lis'.id = lis.id \/ (lis'.id = None /\ life[lis.id] <= 0)
    BY <1>8 DEF Get, Idle, TypeOK
  <2>3. lis'.id = i <=> lis.id = i
    BY <1>0, <1>2, <2>2 DEF OnItsWay, TypeOK
  <2> QED BY <1>2, <2>1, <2>3 DEF OnItsWay
<1>9. CASE Send
  <2>1. UNCHANGED <<at, result, life, lock, inbox>> /\ lis'.id = None /\ lis.id # i
    <3>1. lis.of \in Entry /\ Id(lis.of) = lis.id /\ lis.of # e
      BY <1>9 DEF Send, TypeOK, FiledInv
    <3> QED BY <1>0, <1>9, <3>1 DEF Send, Idle
  <2> QED BY <1>0, <1>2, <2>1 DEF OnItsWay
<1>10. CASE ListenFails
  <2>1. UNCHANGED <<at, result, life, lock>>
    BY <1>10 DEF ListenFails
  <2>2. OnItsWay(i)' <=> OnItsWay(i)
    BY <1>0, <1>10 DEF ListenFails, OnItsWay, Named, Idle
  <2>3. lis.id = i => lis'.id = i
    BY <1>0, <1>10 DEF ListenFails, Named, Idle
  <2> QED BY <1>2, <2>1, <2>2, <2>3
(* Keys age while nothing is on its way. *)
<1>11. CASE Tick
  <2>1. /\ ~ OnItsWay(i) /\ lis.id # i /\ at[e] # "stored"
        /\ UNCHANGED <<at, inbox, lis>> /\ lock' = Older(lock)
    BY <1>0, <1>11 DEF Tick, OnItsWay, Idle
  <2>2. lock[i] = 0 /\ lock'[i] = 0
    BY <1>0, <1>2, <2>1 DEF Older, TypeOK
  <2> QED BY <1>2, <2>1, <2>2 DEF OnItsWay
<1> QED BY <1>3, <1>4, <1>5, <1>6, <1>7, <1>8, <1>9, <1>10, <1>11 DEF Next

LEMMA InitHolds == ASSUME Parameters PROVE Init => IInv
<1> USE DEF Parameters
<1> SUFFICES ASSUME Init PROVE IInv
  OBVIOUS
<1>1. TypeOK
  BY DEF Init, TypeOK, Idle, Stages
<1>2. FiledInv
  BY DEF Init, FiledInv, Idle
<1>3. OwnInv
  BY OwnIds DEF Init, OwnInv, Own, Open, OnItsWay, Idle, JobId
<1> QED BY <1>1, <1>2, <1>3 DEF IInv

LEMMA Inductive == ASSUME Parameters PROVE Spec => []IInv
<1> USE DEF Parameters
<1>1. IInv /\ [Next]_vars => IInv'
  BY TypeStep, FiledStep, OwnStep DEF IInv
<1> QED BY InitHolds, <1>1, PTL DEF Spec

(* Every variable keeps its type, for any entries, limits and troubles. *)
(* (Worker, keys and listener.)                                         *)
THEOREM TypeCorrect == ASSUME Parameters PROVE Spec => []TypeOK
<1>1. IInv => TypeOK
  BY DEF IInv
<1> QED BY Inductive, <1>1, PTL

(* The text of an entry with an id of its own reaches the user, however    *)
(* many others share an id, whatever is rerun and whenever keys expire.    *)
(* (_publish_result against _deliver and its lock.)                        *)
THEOREM OwnTextsArrive == ASSUME Parameters PROVE Spec => []OwnIdIsSent
<1>1. IInv => OwnIdIsSent
  BY OwnIds DEF IInv, OwnInv, OwnIdIsSent, Spoken, Open
<1> QED BY Inductive, <1>1, PTL

(* Where the promise that the run unknown_id refutes does hold: a reminder *)
(* that shares the default id with none is sent like any other entry.  It  *)
(* takes two of them, and no trouble, to lose one.                         *)
THEOREM OneReminderArrives ==
  ASSUME Parameters, \A q, r \in Reminders : q = r
  PROVE  Spec => []EveryoneIsSent
<1>1. Own = Entry
  BY DEF Own, Id, Parameters
<1>2. IInv => EveryoneIsSent
  BY <1>1 DEF IInv, OwnInv, EveryoneIsSent, Spoken, Open
<1> QED BY Inductive, <1>2, PTL
=============================================================================
