-------------------------- MODULE Connections_proofs -------------------------
(***************************************************************************)
(* Theorems about the connections and the cache of Integrations, for any   *)
(* slots, user rows and requests.                                          *)
(***************************************************************************)
EXTENDS Accounts_proofs, FiniteSetTheorems

USE NamesAssumption, PersonAssumption, KindAssumption, TroubleAssumption
    DEF NamesAssumption, PersonAssumption, KindAssumption, TroubleAssumption,
        Id, accountVars, connectionVars, connectionHistory, integrationVars

------------------------------------------------------------------------------
(* Types. *)

Con == [user : Uid \cup {None}, slot : Slot \cup {None}, ref : Id \cup {None},
        gen : Nat, caller : Uid \cup {None}, key : BOOLEAN, saw : View]
StateRow == [user : Uid, slot : Slot]

RowTypes ==
  /\ conn \in [Id -> {NoConn} \cup Conn]
  /\ state \in [Req -> {NoState} \cup StateRow]
  /\ grant \in [Id -> Nat]
LocalTypes == con \in [Req -> Con]
CountTypes == spent \subseteq Req /\ trouble \in 0..MaxTrouble
HistoryTypes ==
  /\ excused \subseteq Id /\ drift \subseteq Uid
  /\ crowded \subseteq Place /\ wanted \subseteq Place /\ dropped \subseteq Place
CacheTypes == cache \in [Uid -> SUBSET View] /\ \A u \in Uid : \A v, w \in cache[u] : v = w

Typed == RequestsTypeOK /\ RowTypes /\ LocalTypes /\ CountTypes /\ HistoryTypes /\ CacheTypes

LEMMA TypedParts == RequestsTypeOK /\ ConnectionsTypeOK /\ CapabilitiesTypeOK <=> Typed
BY DEF ConnectionsTypeOK, CapabilitiesTypeOK, Typed, RowTypes, LocalTypes, CountTypes, HistoryTypes,
       CacheTypes, Con, StateRow

(* What a handler knows at which await. *)
Making == {"exchange", "discover", "replace", "insert"}
Renewing == {"lock", "refresh", "refreshed", "refused"}

Phase(r) ==
  /\ at[r] = "idle" => con[r] = NoCon
  /\ at[r] \in ConnectionWaits => con[r].user \in Uid
  /\ at[r] \in Making \cup Renewing => con[r].slot \in Slot
  /\ at[r] = "exchange" => con[r].ref \in Req
  /\ at[r] \in Renewing => con[r].ref \in Id
  /\ conn[r] # NoConn => at[r] \in {"invalidate", "done"}

PhaseInv == \A r \in Req : Phase(r)

(* A connection that is being renewed was inserted for good, and is the    *)
(* user's.                                                                 *)
Renews(r) ==
  at[r] \in Renewing =>
    /\ con[r].ref \in Req => at[con[r].ref] \in {"invalidate", "done"}
    /\ conn[con[r].ref] # NoConn => /\ conn[con[r].ref].user = con[r].user
                                    /\ Kind[conn[con[r].ref].slot] = Kind[con[r].slot]

RenewInv == \A r \in Req : Renews(r)

Base == Typed /\ PhaseInv /\ RenewInv

LEMMA NoValues ==
  /\ NoConn.user = None /\ NoConn \notin Conn
  /\ NoState \notin StateRow
  /\ NoCon \in Con /\ NoCon.user = None /\ NoCon.slot = None
  /\ NoCon.key = FALSE /\ NoCon.caller = None /\ NoCon.saw = {} /\ NoCon.gen = 0
BY DEF NoConn, Conn, NoState, StateRow, NoCon, Con, View, Statuses

LEMMA InitBase == Init => Base
<1> SUFFICES ASSUME Init PROVE Base
  OBVIOUS
<1>1. RequestsTypeOK /\ \A r \in Req : at[r] = "idle"
  BY DEF Init, RequestsInit, RequestsTypeOK
<1>2. conn \in [Id -> {NoConn} \cup Conn]
  <2>1. [user : Uid, slot : Slot, status : {"connected"}, held : {1}, fresh : {TRUE}] \subseteq Conn
    <3>1. {"connected"} \subseteq Statuses /\ {1} \subseteq Nat /\ {TRUE} \subseteq BOOLEAN
      BY DEF Statuses
    <3> QED BY <3>1 DEF Conn
  <2>2. conn \in [Id -> {NoConn} \cup [user : Uid, slot : Slot, status : {"connected"}, held : {1}, fresh : {TRUE}]]
    BY DEF Init, ConnectionsInit
  <2> HIDE DEF Conn
  <2> QED BY <2>1, <2>2
<1>3. RowTypes
  BY <1>2 DEF Init, ConnectionsInit, RowTypes
<1>4. LocalTypes
  BY NoValues DEF Init, ConnectionsInit, LocalTypes
<1>5. CountTypes
  BY DEF Init, ConnectionsInit, CountTypes
<1>6. HistoryTypes
  <2>1. \A c \in Id : conn[c] # NoConn => conn[c].user \in Uid /\ conn[c].slot \in Slot
    BY <1>2 DEF Conn
  <2> QED BY <2>1 DEF Init, ConnectionsInit, HistoryTypes, Place
<1>7. CacheTypes
  BY DEF Init, CapabilitiesInit, CacheTypes
<1>8. PhaseInv
  BY <1>1 DEF Init, ConnectionsInit, PhaseInv, Phase, ConnectionWaits, Making, Renewing
<1>9. RenewInv
  BY <1>1 DEF RenewInv, Renews, Renewing
<1> QED BY <1>1, <1>3, <1>4, <1>5, <1>6, <1>7, <1>8, <1>9 DEF Base, Typed

(* The ways locals change. *)
LEMMA ConSets ==
  ASSUME LocalTypes, NEW r \in Req
  PROVE  /\ con[r] \in Con
         /\ \A e \in Con : [con EXCEPT ![r] = e] \in [Req -> Con]
         /\ \A u : [con EXCEPT ![r].user = u] = [con EXCEPT ![r] = [con[r] EXCEPT !.user = u]]
         /\ \A v : [con EXCEPT ![r].saw = v] = [con EXCEPT ![r] = [con[r] EXCEPT !.saw = v]]
         /\ \A n : [con EXCEPT ![r].gen = n] = [con EXCEPT ![r] = [con[r] EXCEPT !.gen = n]]
         /\ [con EXCEPT ![r].caller = None] = [con EXCEPT ![r] = [con[r] EXCEPT !.caller = None]]
         /\ \A u, v : [con EXCEPT ![r].user = u, ![r].saw = v]
                        = [con EXCEPT ![r] = [con[r] EXCEPT !.user = u, !.saw = v]]
         /\ \A c, s, n : [con EXCEPT ![r].ref = c, ![r].slot = s, ![r].gen = n]
                           = [con EXCEPT ![r] = [con[r] EXCEPT !.ref = c, !.slot = s, !.gen = n]]
         /\ \A u, s : [con EXCEPT ![r].user = u, ![r].slot = s, ![r].caller = u, ![r].key = TRUE]
                        = [con EXCEPT ![r] = [con[r] EXCEPT !.user = u, !.slot = s, !.caller = u, !.key = TRUE]]
         /\ \A u, s, a, v : [con EXCEPT ![r].user = u, ![r].slot = s, ![r].ref = a, ![r].caller = v]
                              = [con EXCEPT ![r] = [con[r] EXCEPT !.user = u, !.slot = s, !.ref = a, !.caller = v]]
<1>0. con \in [Req -> Con] /\ con[r] \in Con
  BY DEF LocalTypes
<1> USE <1>0 DEF Con
<1>1. \A e \in Con : [con EXCEPT ![r] = e] \in [Req -> Con]
  OBVIOUS
<1>2. \A u : [con EXCEPT ![r].user = u] = [con EXCEPT ![r] = [con[r] EXCEPT !.user = u]]
  OBVIOUS
<1>3. \A v : [con EXCEPT ![r].saw = v] = [con EXCEPT ![r] = [con[r] EXCEPT !.saw = v]]
  OBVIOUS
<1>4. \A n : [con EXCEPT ![r].gen = n] = [con EXCEPT ![r] = [con[r] EXCEPT !.gen = n]]
  OBVIOUS
<1>5. [con EXCEPT ![r].caller = None] = [con EXCEPT ![r] = [con[r] EXCEPT !.caller = None]]
  OBVIOUS
<1>6. ASSUME NEW u, NEW v
      PROVE  [con EXCEPT ![r].user = u, ![r].saw = v] = [con EXCEPT ![r] = [con[r] EXCEPT !.user = u, !.saw = v]]
  OBVIOUS
<1>7. ASSUME NEW c, NEW s, NEW n
      PROVE  [con EXCEPT ![r].ref = c, ![r].slot = s, ![r].gen = n]
               = [con EXCEPT ![r] = [con[r] EXCEPT !.ref = c, !.slot = s, !.gen = n]]
  OBVIOUS
<1>8. ASSUME NEW u, NEW s
      PROVE  [con EXCEPT ![r].user = u, ![r].slot = s, ![r].caller = u, ![r].key = TRUE]
               = [con EXCEPT ![r] = [con[r] EXCEPT !.user = u, !.slot = s, !.caller = u, !.key = TRUE]]
  OBVIOUS
<1>9. ASSUME NEW u, NEW s, NEW a, NEW v
      PROVE  [con EXCEPT ![r].user = u, ![r].slot = s, ![r].ref = a, ![r].caller = v]
               = [con EXCEPT ![r] = [con[r] EXCEPT !.user = u, !.slot = s, !.ref = a, !.caller = v]]
  OBVIOUS
<1> HIDE DEF Con
<1> QED BY <1>0, <1>1, <1>2, <1>3, <1>4, <1>5, <1>6, <1>7, <1>8, <1>9

------------------------------------------------------------------------------
(* What a step of request r leaves alone. *)
LEMMA StepShape ==
  ASSUME Base, NEW r \in Req, ConnectionStep(r)
  PROVE  /\ \A q \in Req : q # r => at'[q] = at[q] /\ con'[q] = con[q]
         /\ at[r] # "done" /\ (at[r] = "invalidate" => at'[r] = "done")
         /\ at'[r] # "idle" /\ at'[r] \in ConnectionWaits \cup {"done"}
<1>0. at \in [Req -> Waiting \cup {"idle", "done"}] /\ con \in [Req -> Con]
  BY DEF Base, Typed, RequestsTypeOK, LocalTypes
<1>1. ASSUME NEW q \in Req, q # r PROVE con'[q] = con[q]
  BY <1>0, <1>1
     DEF ConnectionStep, ByDashboard, ByService, ByWorker, Initiate, Connect, DeleteConnection, MoveConnection,
         Callback, Exchange, Discover, Replace, InsertConnection, InsertFails, Answered, ProxyGivesUp,
         GetCapabilities, FetchCapabilities, FillCache, Invalidate, CallTool, Begins, AcquireLock, AskProvider, StoreToken,
         NeedsReauth
<1>2. ASSUME NEW s \in ConnectionWaits \cup {"done"}, Begin(r, s)
      PROVE  /\ \A q \in Req : q # r => at'[q] = at[q]
             /\ at[r] # "done" /\ (at[r] = "invalidate" => at'[r] = "done")
             /\ at'[r] # "idle" /\ at'[r] \in ConnectionWaits \cup {"done"}
  BY <1>0, <1>2 DEF Begin, Goto, ConnectionWaits
<1>3. ASSUME NEW f \in ConnectionWaits, NEW s \in ConnectionWaits \cup {"done"}, Resume(r, f, s)
      PROVE  /\ \A q \in Req : q # r => at'[q] = at[q]
             /\ at[r] # "done" /\ at'[r] # "idle" /\ at'[r] \in ConnectionWaits \cup {"done"}
  BY <1>0, <1>3 DEF Resume, Goto, ConnectionWaits
<1>4. ASSUME at[r] = "invalidate" PROVE at'[r] = "done"
  BY <1>0, <1>4
     DEF ConnectionStep, ByDashboard, ByService, ByWorker, Initiate, Connect, DeleteConnection, MoveConnection,
         Callback, Exchange, Discover, Replace, InsertConnection, InsertFails, ProxyGivesUp, GetCapabilities, Answered,
         FetchCapabilities, FillCache, Invalidate, CallTool, Begins, AcquireLock, AskProvider, StoreToken,
         NeedsReauth, Begin, Resume, Finish, Goto
<1>5. CASE UNCHANGED at
  <2>1. at[r] \in ConnectionWaits
    BY <1>0, <1>5
       DEF ConnectionStep, ByDashboard, ByService, ByWorker, Initiate, Connect, DeleteConnection, MoveConnection,
           Callback, Exchange, Discover, Replace, InsertConnection, InsertFails, ProxyGivesUp, GetCapabilities, Answered,
           FetchCapabilities, FillCache, Invalidate, CallTool, Begins, AcquireLock, AskProvider, StoreToken,
           NeedsReauth, Begin, Resume, Finish, Goto, ConnectionWaits
  <2> QED BY <1>1, <1>4, <1>5, <2>1 DEF ConnectionWaits
<1>6. RequestsTypeOK /\ ConnectionStep(r)
  BY DEF Base, Typed
<1> QED BY <1>1, <1>2, <1>3, <1>4, <1>5, <1>6, ConnectionStepAt

(* A row changes neither its user nor its kind, and is inserted once. *)
RowsKept(r) ==
  \A c \in Id : conn'[c] # NoConn =>
    \/ conn[c] # NoConn /\ conn'[c].user = conn[c].user /\ Kind[conn'[c].slot] = Kind[conn[c].slot]
    \/ c = r /\ at[r] = "insert"

LEMMA PhasesKept ==
  ASSUME Base, NEW r \in Req, ConnectionStep(r), RowsKept(r), Phase(r)', Renews(r)'
  PROVE  PhaseInv' /\ RenewInv'
<1>1. /\ \A q \in Req : q # r => at'[q] = at[q] /\ con'[q] = con[q]
      /\ at[r] # "done" /\ (at[r] = "invalidate" => at'[r] = "done")
  BY StepShape
<1>2. ASSUME NEW q \in Req, q # r PROVE Phase(q)'
  <2>1. Phase(q) /\ (conn'[q] # NoConn => conn[q] # NoConn)
    BY <1>2 DEF Base, PhaseInv, RowsKept
  <2> QED BY <1>1, <1>2, <2>1 DEF Phase
<1>3. ASSUME NEW q \in Req, q # r, at[q] \in Renewing PROVE Renews(q)'
  <2> DEFINE c == con[q].ref
  <2>1. Renews(q) /\ c \in Id
    BY <1>3 DEF Base, RenewInv, PhaseInv, Phase
  <2>2. con'[q] = con[q] /\ at'[q] = at[q]
    BY <1>1, <1>3
  <2> HIDE DEF c
  <2>3. c \in Req => at[c] \in {"invalidate", "done"}
    BY <1>3, <2>1 DEF Renews, c
  <2>4. c \in Req => at'[c] \in {"invalidate", "done"}
    BY <1>1, <2>3
  <2>5. ASSUME conn'[c] # NoConn
        PROVE  conn'[c].user = con[q].user /\ Kind[conn'[c].slot] = Kind[con[q].slot]
    <3>1. conn[c] # NoConn /\ conn'[c].user = conn[c].user /\ Kind[conn'[c].slot] = Kind[conn[c].slot]
      BY <2>1, <2>3, <2>5 DEF RowsKept
    <3> QED BY <1>3, <2>1, <3>1 DEF Renews, c
  <2> QED BY <2>2, <2>4, <2>5 DEF Renews, c
<1>4. ASSUME NEW q \in Req, q # r, at[q] \notin Renewing PROVE Renews(q)'
  BY <1>1, <1>4 DEF Renews
<1> QED BY <1>2, <1>3, <1>4 DEF PhaseInv, RenewInv

(* The service's tables, one row set. *)
LEMMA RowSets ==
  ASSUME RowTypes
  PROVE  /\ \A c \in Id, e \in {NoConn} \cup Conn : [conn EXCEPT ![c] = e] \in [Id -> {NoConn} \cup Conn]
         /\ \A S : [c \in Id |-> IF c \in S THEN NoConn ELSE conn[c]] \in [Id -> {NoConn} \cup Conn]
         /\ \A a : \A e \in {NoState} \cup StateRow : [state EXCEPT ![a] = e] \in [Req -> {NoState} \cup StateRow]
         /\ \A a : [state EXCEPT ![a] = NoState] \in [Req -> {NoState} \cup StateRow]
         /\ \A c \in Id, n \in Nat : [grant EXCEPT ![c] = n] \in [Id -> Nat]
<1>1. conn \in [Id -> {NoConn} \cup Conn] /\ state \in [Req -> {NoState} \cup StateRow] /\ grant \in [Id -> Nat]
  BY DEF RowTypes
<1>2. \A c \in Id, e \in {NoConn} \cup Conn : [conn EXCEPT ![c] = e] \in [Id -> {NoConn} \cup Conn]
  BY <1>1
<1>3. \A S : [c \in Id |-> IF c \in S THEN NoConn ELSE conn[c]] \in [Id -> {NoConn} \cup Conn]
  BY <1>1
<1>4. \A a : \A e \in {NoState} \cup StateRow : [state EXCEPT ![a] = e] \in [Req -> {NoState} \cup StateRow]
  BY <1>1
<1>5. \A a : [state EXCEPT ![a] = NoState] \in [Req -> {NoState} \cup StateRow]
  BY <1>1
<1>6. \A c \in Id, n \in Nat : [grant EXCEPT ![c] = n] \in [Id -> Nat]
  BY <1>1
<1> QED BY <1>2, <1>3, <1>4, <1>5, <1>6

(* Where a step of r leads, as far as phases are concerned. *)
Settled(r) == Typed' /\ RowsKept(r) /\ Phase(r)' /\ Renews(r)'

LEMMA Same ==
  ASSUME Base
  PROVE  /\ UNCHANGED <<conn, state, grant>> => RowTypes'
         /\ UNCHANGED con => LocalTypes'
         /\ UNCHANGED <<spent, trouble>> => CountTypes'
         /\ UNCHANGED spent /\ Trouble => CountTypes'
         /\ UNCHANGED connectionHistory => HistoryTypes'
         /\ UNCHANGED cache => CacheTypes'
         /\ \A r \in Req : UNCHANGED conn => RowsKept(r)
BY DEF Base, Typed, RowTypes, LocalTypes, CountTypes, HistoryTypes, CacheTypes, RowsKept, Trouble

(* A handler outside of the service. *)
LEMMA Outside ==
  ASSUME Base, NEW r \in Req, at'[r] \in {"done", "invalidate", "fetch", "fill", "call"},
         con'[r].user \in Uid,
         conn'[r] # NoConn => at'[r] \in {"invalidate", "done"}
  PROVE  Phase(r)' /\ Renews(r)'
BY DEF Phase, Renews, Making, Renewing, ConnectionWaits

LEMMA NotYet ==
  ASSUME Base, NEW r \in Req, at[r] \notin {"invalidate", "done"}
  PROVE  conn[r] = NoConn
BY DEF Base, PhaseInv, Phase

LEMMA DashboardSettles ==
  ASSUME Base, NEW r \in Req, ByDashboard(r)
  PROVE  Settled(r)
<1>0. RequestsTypeOK' /\ at \in [Req -> Waiting \cup {"idle", "done"}] /\ LocalTypes /\ con[r] \in Con /\ RowTypes
      /\ ConnectionStep(r)
  <2>1. ConnectionStep(r) /\ RequestsTypeOK /\ LocalTypes
    BY DEF ConnectionStep, Base, Typed
  <2>2. RequestsTypeOK'
    BY <2>1, ConnectionsStayOut DEF ConnectionsNext
  <2> QED BY <2>1, <2>2 DEF Base, Typed, RequestsTypeOK, LocalTypes
<1>1. ASSUME NEW u \in Uid, con' = [con EXCEPT ![r].user = u]
      PROVE  LocalTypes' /\ con'[r].user = u
  <2> DEFINE e == [con[r] EXCEPT !.user = u]
  <2>1. e \in Con /\ e.user = u
    BY <1>0 DEF Con
  <2>2. con' = [con EXCEPT ![r] = e]
    BY <1>0, <1>1, ConSets
  <2> HIDE DEF e
  <2> QED BY <1>0, <2>1, <2>2 DEF LocalTypes
<1>2. ASSUME NEW u \in Uid, NEW s \in Slot, Initiate(r, u, s), UNCHANGED cache PROVE Settled(r)
  <2>1. at'[r] \in {"done", "invalidate"}
    BY <1>0, <1>2 DEF Initiate, Begin, Goto
  <2>2. LocalTypes' /\ con'[r].user = u
    BY <1>1, <1>2 DEF Initiate
  <2>3. UNCHANGED <<conn, grant, spent, trouble>> /\ UNCHANGED connectionHistory
        /\ state' = [state EXCEPT ![r] = [user |-> u, slot |-> s]]
    BY <1>2 DEF Initiate
  <2>4. RowTypes'
    <3>1. [user |-> u, slot |-> s] \in StateRow
      BY DEF StateRow
    <3> QED BY <1>0, <2>3, <3>1, RowSets DEF RowTypes
  <2>5. Phase(r)' /\ Renews(r)'
    BY <2>1, <2>2, Outside
  <2> QED BY <1>0, <1>2, <2>2, <2>3, <2>4, <2>5, Same DEF Settled, Typed
<1>3. ASSUME NEW u \in Uid, NEW s \in Slot, Connect(r, u, s), UNCHANGED cache PROVE Settled(r)
  <2> DEFINE e == [con[r] EXCEPT !.user = u, !.slot = s, !.caller = u, !.key = TRUE]
  <2>1. e \in Con /\ e.user = u /\ e.slot = s
    BY <1>0 DEF Con
  <2>2. con' = [con EXCEPT ![r] = e]
    BY <1>0, <1>3, ConSets DEF Connect
  <2> HIDE DEF e
  <2>3. LocalTypes' /\ con'[r].user = u /\ con'[r].slot = s
    BY <1>0, <2>1, <2>2 DEF LocalTypes
  <2>4. at[r] = "idle" /\ at'[r] = "discover" /\ UNCHANGED <<conn, state, grant, spent, trouble>>
        /\ UNCHANGED connectionHistory
    BY <1>0, <1>3 DEF Connect, Begin, Goto
  <2>5. Phase(r)' /\ Renews(r)'
    BY <2>3, <2>4, NotYet DEF Phase, Renews, Making, Renewing
  <2> QED BY <1>0, <1>3, <2>3, <2>4, <2>5, Same DEF Settled, Typed
<1>4. ASSUME NEW c \in Id, conn[c] # NoConn
      PROVE  /\ conn[c] \in Conn /\ conn[c].user \in Uid /\ conn[c].slot \in Slot
             /\ \A s \in Slot : <<conn[c].user, s>> \in Place
  BY <1>0, <1>4 DEF RowTypes, Conn, Place
<1>5. ASSUME NEW u \in Uid, NEW c \in Id, DeleteConnection(r, u, c), UNCHANGED cache PROVE Settled(r)
  <2>1. conn[c] # NoConn /\ at'[r] = "invalidate" /\ conn' = [conn EXCEPT ![c] = NoConn]
        /\ UNCHANGED <<state, grant, spent, trouble, excused, crowded>>
        /\ wanted' \subseteq wanted
    BY <1>0, <1>5 DEF DeleteConnection, Begin, Goto
  <2>2. LocalTypes' /\ con'[r].user = u
    BY <1>1, <1>5 DEF DeleteConnection
  <2>3. RowTypes'
    BY <1>0, <2>1, RowSets DEF RowTypes
  <2>4. RowsKept(r)
    BY <1>0, <2>1 DEF RowsKept, RowTypes
  <2>5. Phase(r)' /\ Renews(r)'
    BY <2>1, <2>2, Outside
  <2>6. CountTypes' /\ CacheTypes'
    BY <1>5, <2>1, Same
  <2>7. dropped' \subseteq dropped \cup {<<conn[c].user, conn[c].slot>>} /\ drift' \subseteq drift \cup {conn[c].user}
    BY <1>5 DEF DeleteConnection, Unannounced
  <2>8. HistoryTypes'
    BY <1>4, <2>1, <2>7 DEF Base, Typed, HistoryTypes
  <2> QED BY <1>0, <2>2, <2>3, <2>4, <2>5, <2>6, <2>8 DEF Settled, Typed
<1>6. ASSUME NEW u \in Uid, NEW c \in Id, NEW s \in Slot, MoveConnection(r, u, c, s), UNCHANGED cache PROVE Settled(r)
  <2> DEFINE e == [conn[c] EXCEPT !.slot = s]
  <2>1. conn[c] # NoConn /\ Kind[s] = Kind[conn[c].slot] /\ at'[r] = "invalidate"
        /\ UNCHANGED <<state, grant, spent, excused, drift>> /\ (trouble' = trouble \/ Trouble)
    BY <1>0, <1>6 DEF MoveConnection, Begin, Goto
  <2>2. e \in Conn /\ e.user = conn[c].user /\ e.slot = s
    BY <1>4, <2>1 DEF Conn
  <2>3. conn' = [conn EXCEPT ![c] = e]
    BY <1>0, <1>6 DEF MoveConnection, RowTypes
  <2>4. wanted' \subseteq wanted \cup {<<conn[c].user, s>>}
        /\ dropped' \subseteq dropped \cup {<<conn[c].user, conn[c].slot>>}
        /\ crowded' \subseteq crowded \cup {<<conn[c].user, s>>}
    BY <1>6 DEF MoveConnection
  <2> HIDE DEF e
  <2>5. LocalTypes' /\ con'[r].user = u
    BY <1>1, <1>6 DEF MoveConnection
  <2>6. RowTypes'
    BY <1>0, <2>1, <2>2, <2>3, RowSets DEF RowTypes
  <2>7. RowsKept(r)
    BY <1>0, <2>1, <2>2, <2>3 DEF RowsKept, RowTypes
  <2>8. Phase(r)' /\ Renews(r)'
    BY <2>1, <2>5, Outside
  <2>9. CountTypes' /\ CacheTypes'
    BY <1>6, <2>1, Same
  <2>10. HistoryTypes'
    BY <1>4, <2>1, <2>4 DEF Base, Typed, HistoryTypes
  <2> QED BY <1>0, <2>5, <2>6, <2>7, <2>8, <2>9, <2>10 DEF Settled, Typed
<1> QED BY <1>2, <1>3, <1>5, <1>6 DEF ByDashboard

LEMMA ServiceSettles ==
  ASSUME Base, NEW r \in Req, ByService(r)
  PROVE  Settled(r)
<1>0. RequestsTypeOK' /\ at \in [Req -> Waiting \cup {"idle", "done"}] /\ LocalTypes /\ con[r] \in Con /\ RowTypes
      /\ Phase(r) /\ UNCHANGED cache
  <2>1. ConnectionStep(r) /\ RequestsTypeOK /\ LocalTypes
    BY DEF ConnectionStep, Base, Typed
  <2>2. RequestsTypeOK'
    BY <2>1, ConnectionsStayOut DEF ConnectionsNext
  <2> QED BY <2>1, <2>2 DEF Base, Typed, RequestsTypeOK, LocalTypes, PhaseInv, ByService
<1>1. ASSUME NEW a \in Req, NEW u \in Uid \cup {None}, Callback(r, a, u) PROVE Settled(r)
  <2> DEFINE e == [con[r] EXCEPT !.user = state[a].user, !.slot = state[a].slot, !.ref = a, !.caller = u]
  <2>1. state[a].user \in Uid /\ state[a].slot \in Slot
    BY <1>0, <1>1 DEF Callback, RowTypes, StateRow
  <2>2. e \in Con /\ e.user = state[a].user /\ e.slot = state[a].slot /\ e.ref = a
    BY <1>0, <2>1 DEF Con
  <2>3. con' = [con EXCEPT ![r] = e]
    BY <1>0, <1>1, ConSets DEF Callback
  <2> HIDE DEF e
  <2>4. LocalTypes' /\ con'[r].user \in Uid /\ con'[r].slot \in Slot /\ con'[r].ref = a
    BY <1>0, <2>1, <2>2, <2>3 DEF LocalTypes
  <2>5. at[r] = "idle" /\ at'[r] = "exchange" /\ UNCHANGED <<conn, state, grant, spent, trouble>>
        /\ UNCHANGED connectionHistory
    BY <1>0, <1>1 DEF Callback, Begin, Goto
  <2>6. Phase(r)' /\ Renews(r)'
    BY <2>4, <2>5, NotYet DEF Phase, Renews, Making, Renewing
  <2> QED BY <1>0, <2>4, <2>5, <2>6, Same DEF Settled, Typed
(* Handlers that go on or fail. *)
<1>2. ASSUME at[r] \in {"exchange", "discover", "replace"}, at'[r] \in {"replace", "insert", "done"},
             con' = con, conn'[r] = NoConn
      PROVE  Phase(r)' /\ Renews(r)'
  BY <1>0, <1>2 DEF Phase, Renews, Making, Renewing, ConnectionWaits
<1>3. StateAfterFailure(r) \in [Req -> {NoState} \cup StateRow]
  BY <1>0, RowSets DEF StateAfterFailure, RowTypes
<1>4. CASE Exchange(r)
  <2>1. at[r] = "exchange" /\ at'[r] \in {"replace", "done"} /\ UNCHANGED <<conn, grant, con>>
        /\ UNCHANGED connectionHistory /\ (trouble' = trouble \/ Trouble)
        /\ state' \in {state, StateAfterFailure(r)} /\ spent' \subseteq spent \cup {con[r].ref}
    BY <1>0, <1>4 DEF Exchange, Resume, Finish, Goto
  <2>2. RowTypes'
    BY <1>0, <1>3, <2>1 DEF RowTypes
  <2>3. con[r].ref \in Req
    BY <1>0, <2>1 DEF Phase
  <2>4. CountTypes'
    BY <2>1, <2>3 DEF Base, Typed, CountTypes, Trouble
  <2>5. Phase(r)' /\ Renews(r)'
    BY <1>2, <2>1, NotYet
  <2> QED BY <1>0, <2>1, <2>2, <2>4, <2>5, Same DEF Settled, Typed
<1>5. CASE Discover(r)
  <2>1. at[r] = "discover" /\ at'[r] \in {"replace", "done"} /\ UNCHANGED <<conn, state, grant, con, spent>>
        /\ UNCHANGED connectionHistory /\ (trouble' = trouble \/ Trouble)
    BY <1>0, <1>5 DEF Discover, Resume, Finish, Goto
  <2>2. Phase(r)' /\ Renews(r)'
    BY <1>2, <2>1, NotYet
  <2> QED BY <1>0, <2>1, <2>2, Same DEF Settled, Typed
<1>6. CASE Replace(r)
  <2>1. at[r] = "replace" /\ at'[r] \in {"insert", "done"} /\ UNCHANGED <<grant, con, spent, trouble, cache>>
        /\ crowded' \subseteq crowded \cup {At(r)} /\ UNCHANGED <<excused, wanted, dropped>>
        /\ drift' \subseteq drift \cup {con[r].user}
    BY <1>0, <1>6 DEF Replace, Resume, Finish, Goto, Unannounced
  <2>2. state' \in {state, StateAfterFailure(r), [state EXCEPT ![con[r].ref] = NoState]}
    BY <1>6 DEF Replace
  <2>3. conn' = conn \/ conn' = [c \in Id |-> IF c \in InSlot(con[r].user, con[r].slot) THEN NoConn ELSE conn[c]]
    BY <1>6 DEF Replace
  <2>4. RowTypes'
    BY <1>0, <1>3, <2>1, <2>2, <2>3, RowSets DEF RowTypes
  <2>5. RowsKept(r)
    BY <2>3 DEF RowsKept
  <2>6. conn'[r] = NoConn
    BY <2>1, <2>3, NotYet
  <2>7. At(r) \in Place /\ con[r].user \in Uid
    BY <1>0, <2>1 DEF Phase, ConnectionWaits, Making, Place, At
  <2>8. HistoryTypes'
    BY <2>1, <2>7 DEF Base, Typed, HistoryTypes
  <2>9. Phase(r)' /\ Renews(r)'
    BY <1>2, <2>1, <2>6
  <2> QED BY <1>0, <2>1, <2>4, <2>5, <2>8, <2>9, Same DEF Settled, Typed
(* A handler at its insertion. *)
<1>a. ASSUME at[r] = "insert"
      PROVE  con[r].user \in Uid /\ con[r].slot \in Slot /\ At(r) \in Place
             /\ NewRow(r, 0) \in Conn /\ NewRow(r, 1) \in Conn
  <2>1. con[r].user \in Uid /\ con[r].slot \in Slot
    BY <1>0, <1>a DEF Phase, ConnectionWaits, Making
  <2> QED BY <2>1 DEF NewRow, Conn, Statuses, At, Place
<1>b. ASSUME at[r] = "insert", conn' = conn \/ conn' = [conn EXCEPT ![r] = NewRow(r, 0)]
                               \/ conn' = [conn EXCEPT ![r] = NewRow(r, 1)],
             state' \in {state, StateAfterFailure(r), [state EXCEPT ![con[r].ref] = NoState]},
             grant' = grant \/ grant' = [grant EXCEPT ![r] = 0] \/ grant' = [grant EXCEPT ![r] = 1]
      PROVE  RowTypes' /\ RowsKept(r)
  <2>1. RowTypes'
    <3>1. conn' \in [Id -> {NoConn} \cup Conn]
      BY <1>0, <1>a, <1>b, RowSets DEF RowTypes
    <3>2. state' \in [Req -> {NoState} \cup StateRow]
      BY <1>0, <1>3, <1>b, RowSets DEF RowTypes
    <3>3. grant' \in [Id -> Nat]
      BY <1>0, <1>b, RowSets DEF RowTypes
    <3> QED BY <3>1, <3>2, <3>3 DEF RowTypes
  <2>2. RowsKept(r)
    BY <1>0, <1>b DEF RowsKept, RowTypes
  <2> QED BY <2>1, <2>2
<1>7. CASE InsertConnection(r)
  <2>1. at[r] = "insert" /\ UNCHANGED <<spent, trouble, excused, crowded>>
        /\ wanted' = wanted \cup {At(r)} /\ dropped' \subseteq dropped
        /\ drift' \subseteq drift \cup {con[r].user}
    BY <1>0, <1>7 DEF InsertConnection, Unannounced
  <2>2. RowTypes' /\ RowsKept(r)
    BY <1>7, <1>b, <2>1 DEF InsertConnection
  <2>3. HistoryTypes'
    BY <1>a, <2>1 DEF Base, Typed, HistoryTypes
  <2>4. CASE con[r].caller = None
    <3>1. at'[r] = "done" /\ UNCHANGED con
      BY <1>0, <1>7, <2>4 DEF InsertConnection, Answered, Finish, Resume, Goto
    <3>2. Phase(r)' /\ Renews(r)'
      BY <1>a, <2>1, <3>1, Outside
    <3> QED BY <1>0, <2>1, <2>2, <2>3, <3>1, <3>2, Same DEF Settled, Typed
  <2>5. CASE con[r].caller # None
    <3> DEFINE e == [con[r] EXCEPT !.user = con[r].caller]
    <3>1. e \in Con /\ e.user \in Uid
      BY <1>0, <2>5 DEF Con
    <3>2. at'[r] = "invalidate" /\ con' = [con EXCEPT ![r].user = con[r].caller]
      BY <1>0, <1>7, <2>5 DEF InsertConnection, Answered, Resume, Goto
    <3>3. con' = [con EXCEPT ![r] = e]
      BY <1>0, <3>2, ConSets
    <3> HIDE DEF e
    <3>4. LocalTypes' /\ con'[r].user \in Uid
      BY <1>0, <3>1, <3>3 DEF LocalTypes
    <3>5. Phase(r)' /\ Renews(r)'
      BY <3>2, <3>4, Outside
    <3> QED BY <1>0, <2>1, <2>2, <2>3, <3>4, <3>5, Same DEF Settled, Typed
  <2> QED BY <2>4, <2>5
<1>8. CASE InsertFails(r)
  <2>1. at[r] = "insert" /\ at'[r] = "done" /\ UNCHANGED <<con, spent, grant, excused, crowded, wanted>> /\ Trouble
        /\ dropped' \subseteq dropped \cup {At(r)} /\ drift' \subseteq drift \cup {con[r].user}
    BY <1>0, <1>8 DEF InsertFails, Finish, Resume, Goto, Unannounced
  <2>2. RowTypes' /\ RowsKept(r)
    BY <1>8, <1>b, <2>1 DEF InsertFails
  <2>3. HistoryTypes'
    BY <1>a, <2>1 DEF Base, Typed, HistoryTypes
  <2>4. Phase(r)' /\ Renews(r)'
    BY <1>a, <2>1, Outside
  <2> QED BY <1>0, <2>1, <2>2, <2>3, <2>4, Same DEF Settled, Typed
<1>9. CASE ProxyGivesUp(r)
  <2> DEFINE e == [con[r] EXCEPT !.caller = None]
  <2>1. at[r] \in Making /\ UNCHANGED <<at, conn, state, spent, grant, excused, crowded, wanted, dropped>> /\ Trouble
        /\ drift' \subseteq drift \cup {con[r].user}
    BY <1>9 DEF ProxyGivesUp, Making
  <2>2. e \in Con /\ e.user = con[r].user /\ e.slot = con[r].slot /\ e.ref = con[r].ref
    BY <1>0 DEF Con
  <2>3. con' = [con EXCEPT ![r] = e]
    BY <1>0, <1>9, ConSets DEF ProxyGivesUp
  <2> HIDE DEF e
  <2>4. LocalTypes' /\ con'[r].user = con[r].user /\ con'[r].slot = con[r].slot /\ con'[r].ref = con[r].ref
    BY <1>0, <2>2, <2>3 DEF LocalTypes
  <2>5. Phase(r)' /\ Renews(r)' /\ con[r].user \in Uid
    BY <1>0, <2>1, <2>4 DEF Phase, Renews, Making, Renewing, ConnectionWaits
  <2>6. HistoryTypes'
    BY <2>1, <2>5 DEF Base, Typed, HistoryTypes
  <2> QED BY <1>0, <2>1, <2>4, <2>5, <2>6, Same DEF Settled, Typed
<1> QED BY <1>1, <1>4, <1>5, <1>6, <1>7, <1>8, <1>9 DEF ByService

LEMMA ToolsType ==
  ASSUME Base, NEW u \in Uid
  PROVE  Tools(u) \in View /\ AllTools \in View
<1>1. ASSUME NEW d \in Rows(u) PROVE d \in Id /\ Kind[conn[d].slot] \in {"google", "slack", "mcp"}
  <2>1. conn[d] \in {NoConn} \cup Conn /\ conn[d].user = u /\ u # None /\ d \in Id
    BY <1>1 DEF Rows, Base, Typed, RowTypes
  <2>2. conn[d].slot \in Slot
    BY <2>1, NoValues DEF Conn
  <2> QED BY <2>1, <2>2
<1> QED BY <1>1 DEF Tools, ToolsIn, Rows, AllTools, View

LEMMA CacheSettles ==
  ASSUME Base, NEW r \in Req,
         \/ \E u \in Uid : GetCapabilities(r, u)
         \/ FetchCapabilities(r) \/ FillCache(r) \/ Invalidate(r),
         ConnectionStep(r)
  PROVE  Settled(r)
<1>0. RequestsTypeOK' /\ at \in [Req -> Waiting \cup {"idle", "done"}] /\ LocalTypes /\ con[r] \in Con
      /\ Phase(r) /\ CacheTypes /\ HistoryTypes
  <2>1. ConnectionStep(r) /\ RequestsTypeOK /\ LocalTypes
    BY DEF ConnectionStep, Base, Typed
  <2>2. RequestsTypeOK'
    BY <2>1, ConnectionsStayOut DEF ConnectionsNext
  <2> QED BY <2>1, <2>2 DEF Base, Typed, RequestsTypeOK, LocalTypes, PhaseInv
<1>1. UNCHANGED <<conn, state, grant, spent, excused, crowded, wanted, dropped>>
  BY DEF GetCapabilities, FetchCapabilities, FillCache, Invalidate
<1>2. RowTypes' /\ RowsKept(r)
  BY <1>1, Same
<1>3. ASSUME NEW e \in Con, con' = [con EXCEPT ![r] = e], e.user \in Uid, at[r] \notin {"invalidate", "done"},
             at'[r] \in {"fetch", "fill", "call"}
      PROVE  LocalTypes' /\ Phase(r)' /\ Renews(r)'
  <2>1. LocalTypes' /\ con'[r].user = e.user
    BY <1>0, <1>3 DEF LocalTypes
  <2>2. conn'[r] = NoConn
    BY <1>1, <1>3, NotYet
  <2> QED BY <1>3, <2>1, <2>2, Outside
<1>4. ASSUME NEW u \in Uid, GetCapabilities(r, u) PROVE Settled(r)
  <2>1. at[r] = "idle" /\ at'[r] \in {"fetch", "call"} /\ UNCHANGED <<cache, spent, trouble>>
        /\ UNCHANGED connectionHistory
    BY <1>0, <1>4 DEF GetCapabilities, Begin, Goto
  <2>2. CASE con' = [con EXCEPT ![r].user = u]
    <3>1. [con[r] EXCEPT !.user = u] \in Con /\ [con[r] EXCEPT !.user = u].user = u
      BY <1>0 DEF Con
    <3>2. con' = [con EXCEPT ![r] = [con[r] EXCEPT !.user = u]]
      BY <1>0, <2>2, ConSets
    <3> QED BY <1>0, <1>2, <1>3, <2>1, <3>1, <3>2, Same DEF Settled, Typed
  <2>3. ASSUME NEW v \in cache[u], con' = [con EXCEPT ![r].user = u, ![r].saw = v] PROVE Settled(r)
    <3>1. v \in View
      BY <1>0 DEF CacheTypes
    <3>2. [con[r] EXCEPT !.user = u, !.saw = v] \in Con /\ [con[r] EXCEPT !.user = u, !.saw = v].user = u
      BY <1>0, <3>1 DEF Con
    <3>3. con' = [con EXCEPT ![r] = [con[r] EXCEPT !.user = u, !.saw = v]]
      BY <1>0, <2>3, ConSets
    <3> QED BY <1>0, <1>2, <1>3, <2>1, <3>2, <3>3, Same DEF Settled, Typed
  <2> QED BY <1>4, <2>2, <2>3 DEF GetCapabilities
<1>5. CASE FetchCapabilities(r)
  <2>1. at[r] = "fetch" /\ at'[r] = "fill" /\ UNCHANGED <<cache, spent>> /\ UNCHANGED connectionHistory
        /\ (trouble' = trouble \/ Trouble)
    BY <1>0, <1>5 DEF FetchCapabilities, Resume, Goto
  <2>a. con[r].user \in Uid
    BY <1>0, <2>1 DEF Phase, ConnectionWaits
  <2>2. PICK v \in View : con' = [con EXCEPT ![r].saw = v]
    BY <1>5, <2>a, ToolsType DEF FetchCapabilities
  <2>3. [con[r] EXCEPT !.saw = v] \in Con /\ [con[r] EXCEPT !.saw = v].user = con[r].user
    BY <1>0 DEF Con
  <2>4. con' = [con EXCEPT ![r] = [con[r] EXCEPT !.saw = v]]
    BY <1>0, <2>2, ConSets
  <2>5. con[r].user \in Uid
    BY <1>0, <2>1 DEF Phase, ConnectionWaits
  <2>6. LocalTypes' /\ Phase(r)' /\ Renews(r)'
    BY <1>3, <2>1, <2>3, <2>4, <2>5
  <2> QED BY <1>0, <1>2, <2>1, <2>6, Same DEF Settled, Typed
<1>6. CASE FillCache(r)
  <2>1. at[r] = "fill" /\ at'[r] = "call" /\ UNCHANGED <<con, spent, trouble>>
        /\ cache' = [cache EXCEPT ![con[r].user] = {con[r].saw}] /\ drift' \subseteq drift \cup {con[r].user}
    BY <1>0, <1>6 DEF FillCache, Resume, Goto
  <2>2. con[r].user \in Uid /\ con[r].saw \in View
    BY <1>0, <2>1 DEF Phase, ConnectionWaits, Con
  <2>3. CacheTypes'
    BY <1>0, <2>1, <2>2 DEF CacheTypes
  <2>4. HistoryTypes'
    BY <1>0, <1>1, <2>1, <2>2 DEF HistoryTypes
  <2>5. Phase(r)' /\ Renews(r)'
    BY <1>1, <2>1, <2>2, NotYet, Outside
  <2> QED BY <1>0, <1>2, <2>1, <2>3, <2>4, <2>5, Same DEF Settled, Typed
<1>7. CASE Invalidate(r)
  <2>1. at[r] = "invalidate" /\ at'[r] = "done" /\ UNCHANGED <<con, spent>>
        /\ cache' \in {cache, [cache EXCEPT ![con[r].user] = {}]} /\ drift' \subseteq drift \cup {con[r].user}
        /\ (trouble' = trouble \/ Trouble)
    BY <1>0, <1>7 DEF Invalidate, Finish, Resume, Goto
  <2>2. con[r].user \in Uid
    BY <1>0, <2>1 DEF Phase, ConnectionWaits
  <2>3. CacheTypes'
    BY <1>0, <2>1 DEF CacheTypes
  <2>4. HistoryTypes'
    BY <1>0, <1>1, <2>1, <2>2 DEF HistoryTypes
  <2>5. Phase(r)' /\ Renews(r)'
    BY <1>1, <2>1, <2>2, Outside
  <2> QED BY <1>0, <1>2, <2>1, <2>3, <2>4, <2>5, Same DEF Settled, Typed
<1> QED BY <1>4, <1>5, <1>6, <1>7

LEMMA ToolSettles ==
  ASSUME Base, NEW r \in Req,
         CallTool(r) \/ AcquireLock(r) \/ AskProvider(r) \/ StoreToken(r) \/ NeedsReauth(r),
         ConnectionStep(r)
  PROVE  Settled(r)
<1>0. RequestsTypeOK' /\ at \in [Req -> Waiting \cup {"idle", "done"}] /\ LocalTypes /\ con[r] \in Con
      /\ RowTypes /\ Phase(r) /\ Renews(r) /\ HistoryTypes
  <2>1. ConnectionStep(r) /\ RequestsTypeOK /\ LocalTypes
    BY DEF ConnectionStep, Base, Typed
  <2>2. RequestsTypeOK'
    BY <2>1, ConnectionsStayOut DEF ConnectionsNext
  <2> QED BY <2>1, <2>2 DEF Base, Typed, RequestsTypeOK, LocalTypes, PhaseInv, RenewInv
<1>1. UNCHANGED <<cache, state, spent, crowded, wanted, dropped>> /\ (trouble' = trouble \/ Trouble)
  BY DEF CallTool, AcquireLock, AskProvider, StoreToken, NeedsReauth
<1>2. CountTypes' /\ CacheTypes'
  BY <1>1, Same DEF Base, Typed, CountTypes, Trouble
<1>3. ASSUME NEW e \in Con, con' = [con EXCEPT ![r] = e]
      PROVE  LocalTypes' /\ con'[r] = e
  BY <1>0, <1>3 DEF LocalTypes
(* A renewal that goes on with its connection. *)
<1>4. ASSUME at[r] \in Renewing, at'[r] \in Renewing \cup {"done"}, RowsKept(r), conn'[r] = NoConn,
             con'[r].user = con[r].user, con'[r].slot = con[r].slot, con'[r].ref = con[r].ref
      PROVE  Phase(r)' /\ Renews(r)'
  <2>1. Phase(r)'
    BY <1>0, <1>4 DEF Phase, Renewing, Making, ConnectionWaits
  <2>2. Renews(r)'
    <3> DEFINE c == con[r].ref
    <3>1. c \in Id /\ c # r
      BY <1>0, <1>4 DEF Phase, Renews, Renewing
    <3>2. \A q \in Req : q # r => at'[q] = at[q]
      BY StepShape
    <3>3. conn'[c] # NoConn => conn[c] # NoConn /\ conn'[c].user = conn[c].user
                               /\ Kind[conn'[c].slot] = Kind[conn[c].slot]
      BY <1>4, <3>1 DEF RowsKept
    <3> HIDE DEF c
    <3>4. c \in Req => at'[c] \in {"invalidate", "done"}
      BY <1>0, <1>4, <3>1, <3>2 DEF Renews, c
    <3> QED BY <1>0, <1>4, <3>3, <3>4 DEF Renews, c
  <2> QED BY <2>1, <2>2
<1>5. CASE CallTool(r)
  <2>1. at[r] = "call" /\ UNCHANGED <<conn, grant, trouble, drift>> /\ con[r].user \in Uid
    BY <1>0, <1>5 DEF CallTool, Phase, ConnectionWaits
  <2>2. CASE at'[r] = "done" /\ con' = con /\ excused' = excused
    BY <1>0, <1>1, <1>2, <2>1, <2>2, Same, NotYet, Outside DEF Settled, Typed
  <2>3. ASSUME NEW c \in Id, conn[c] # NoConn, Usable(r, c), Begins(r, c), Overlap(c)
        PROVE  Settled(r)
    <3> DEFINE e == [con[r] EXCEPT !.ref = c, !.slot = conn[c].slot, !.gen = conn[c].held]
    <3>1. conn[c] \in Conn
      BY <1>0, <2>3 DEF RowTypes
    <3>2. conn[c].slot \in Slot /\ conn[c].held \in Nat
      BY <3>1 DEF Conn
    <3>3. e \in Con /\ e.user = con[r].user /\ e.ref = c /\ e.slot = conn[c].slot
      BY <1>0, <3>2 DEF Con
    <3>4. con' = [con EXCEPT ![r] = e]
      BY <1>0, <2>3, ConSets DEF Begins
    <3> HIDE DEF e
    <3>5. LocalTypes' /\ con'[r] = e
      BY <1>3, <3>3, <3>4
    <3>6. at'[r] \in {"done", "lock", "refresh", "refused"}
      BY <1>0, <2>3 DEF Begins, Resume, Goto
    <3>7. conn'[r] = NoConn
      BY <2>1, NotYet
    <3>8. Phase(r)'
      BY <2>1, <3>2, <3>3, <3>5, <3>6, <3>7 DEF Phase, Making, Renewing
    <3>9. c # r /\ (c \in Req => at[c] \in {"invalidate", "done"})
      BY <2>1, <2>3, <3>7 DEF Base, PhaseInv, Phase
    <3>10. c \in Req => at'[c] \in {"invalidate", "done"}
      BY <3>9, StepShape
    <3>11. Renews(r)'
      BY <2>1, <2>3, <3>3, <3>5, <3>10 DEF Renews, Usable
    <3>12. HistoryTypes'
      BY <1>0, <1>1, <2>1, <2>3 DEF HistoryTypes, Overlap
    <3> QED BY <1>0, <1>1, <1>2, <2>1, <3>5, <3>8, <3>11, <3>12, Same DEF Settled, Typed
  <2> QED BY <1>0, <1>5, <2>2, <2>3 DEF CallTool, Finish, Resume, Goto
<1>6. CASE AcquireLock(r)
  <2>1. at[r] = "lock" /\ at'[r] \in {"refresh", "done"} /\ UNCHANGED <<conn, grant, trouble>>
        /\ UNCHANGED connectionHistory /\ con[r].ref \in Id
    BY <1>0, <1>6 DEF AcquireLock, Finish, Resume, Goto, Phase, Renewing
  <2>2. conn'[r] = NoConn /\ RowsKept(r)
    BY <2>1, NotYet, Same
  <2>3. CASE con' = con
    BY <1>0, <1>1, <1>2, <1>4, <2>1, <2>2, <2>3, Same DEF Settled, Typed, Renewing
  <2>4. CASE conn[con[r].ref] # NoConn /\ con' = [con EXCEPT ![r].gen = conn[con[r].ref].held]
    <3> DEFINE e == [con[r] EXCEPT !.gen = conn[con[r].ref].held]
    <3>1. conn[con[r].ref].held \in Nat
      BY <1>0, <2>1, <2>4 DEF RowTypes, Conn
    <3>2. e \in Con /\ e.user = con[r].user /\ e.ref = con[r].ref /\ e.slot = con[r].slot
      BY <1>0, <3>1 DEF Con
    <3>3. con' = [con EXCEPT ![r] = e]
      BY <1>0, <2>4, ConSets
    <3> HIDE DEF e
    <3>4. LocalTypes' /\ con'[r] = e
      BY <1>3, <3>2, <3>3
    <3> QED BY <1>0, <1>1, <1>2, <1>4, <2>1, <2>2, <3>2, <3>4, Same DEF Settled, Typed, Renewing
  <2> QED BY <1>6, <2>3, <2>4 DEF AcquireLock
<1>7. CASE AskProvider(r)
  <2>1. at[r] = "refresh" /\ at'[r] \in {"refreshed", "refused"} /\ UNCHANGED <<conn, drift>> /\ con[r].ref \in Id
        /\ excused' \subseteq excused \cup {con[r].ref}
    BY <1>0, <1>7 DEF AskProvider, Resume, Goto, Phase, Renewing
  <2>2. NextGrant(r) \in Nat
    BY <1>0 DEF NextGrant, Con
  <2>3. conn'[r] = NoConn /\ RowsKept(r)
    BY <2>1, NotYet, Same
  <2>4. grant' \in [Id -> Nat]
    <3>1. grant' = grant \/ \E n \in Nat : grant' = [grant EXCEPT ![con[r].ref] = n]
      <4>1. grant[con[r].ref] \in Nat
        BY <1>0, <2>1 DEF RowTypes
      <4> QED BY <1>7, <2>2, <4>1 DEF AskProvider
    <3> QED BY <1>0, <3>1, RowSets, <2>1 DEF RowTypes
  <2>5. RowTypes' /\ HistoryTypes'
    BY <1>0, <1>1, <2>1, <2>4 DEF RowTypes, HistoryTypes
  <2>6. CASE con' = con
    BY <1>0, <1>1, <1>2, <1>4, <2>1, <2>3, <2>5, <2>6, Same DEF Settled, Typed, Renewing
  <2>7. CASE con' = [con EXCEPT ![r].gen = NextGrant(r)]
    <3> DEFINE e == [con[r] EXCEPT !.gen = NextGrant(r)]
    <3>1. e \in Con /\ e.user = con[r].user /\ e.ref = con[r].ref /\ e.slot = con[r].slot
      BY <1>0, <2>2 DEF Con
    <3>2. con' = [con EXCEPT ![r] = e]
      BY <1>0, <2>7, ConSets
    <3> HIDE DEF e
    <3>3. LocalTypes' /\ con'[r] = e
      BY <1>3, <3>1, <3>2
    <3> QED BY <1>0, <1>1, <1>2, <1>4, <2>1, <2>3, <2>5, <3>1, <3>3, Same DEF Settled, Typed, Renewing
  <2> QED BY <1>7, <2>6, <2>7 DEF AskProvider
<1>8. CASE StoreToken(r)
  <2>1. at[r] = "refreshed" /\ at'[r] = "done" /\ UNCHANGED <<con, grant>> /\ UNCHANGED connectionHistory
        /\ con[r].ref \in Id /\ con[r].gen \in Nat
    BY <1>0, <1>8 DEF StoreToken, Finish, Resume, Goto, Phase, Renewing, Con
  <2>2. CASE conn' = conn
    BY <1>0, <1>1, <1>2, <1>4, <2>1, <2>2, Same, NotYet DEF Settled, Typed, Renewing
  <2>3. CASE conn[con[r].ref] # NoConn
             /\ conn' = [conn EXCEPT ![con[r].ref].held = con[r].gen, ![con[r].ref].fresh = TRUE]
    <3> DEFINE c == con[r].ref
               e == [conn[c] EXCEPT !.held = con[r].gen, !.fresh = TRUE]
    <3>1. conn[c] \in Conn /\ conn \in [Id -> {NoConn} \cup Conn]
      BY <1>0, <2>1, <2>3 DEF RowTypes
    <3>2. e \in Conn /\ e.user = conn[c].user /\ e.slot = conn[c].slot
      BY <2>1, <3>1 DEF Conn
    <3>3. conn' = [conn EXCEPT ![c] = e]
      BY <2>1, <2>3, <3>1
    <3>4. c \in Id /\ c # r /\ conn[c] # NoConn
      BY <1>0, <2>1, <2>3 DEF Renews, Renewing
    <3> HIDE DEF c, e
    <3>5. RowTypes'
      BY <1>0, <1>1, <2>1, <3>2, <3>3, <3>4, RowSets DEF RowTypes
    <3>6. RowsKept(r)
      BY <3>1, <3>2, <3>3, <3>4 DEF RowsKept
    <3>7. conn'[r] = NoConn
      BY <2>1, <3>1, <3>3, <3>4, NotYet
    <3> QED BY <1>0, <1>1, <1>2, <1>4, <2>1, <3>5, <3>6, <3>7, Same DEF Settled, Typed, Renewing
  <2> QED BY <1>8, <2>2, <2>3 DEF StoreToken
<1>9. CASE NeedsReauth(r)
  <2>1. at[r] = "refused" /\ at'[r] = "done" /\ UNCHANGED <<con, grant, excused>> /\ con[r].ref \in Id
        /\ con[r].user \in Uid
    BY <1>0, <1>9 DEF NeedsReauth, Finish, Resume, Goto, Phase, Renewing, ConnectionWaits
  <2>2. drift' \subseteq drift \cup {con[r].user}
    BY <1>9 DEF NeedsReauth, Unannounced
  <2>3. HistoryTypes'
    BY <1>0, <1>1, <2>1, <2>2 DEF HistoryTypes
  <2>4. CASE conn' = conn
    BY <1>0, <1>1, <1>2, <1>4, <2>1, <2>3, <2>4, Same, NotYet DEF Settled, Typed, Renewing
  <2>5. CASE conn[con[r].ref] # NoConn /\ conn' = [conn EXCEPT ![con[r].ref].status = "needs_reauth"]
    <3> DEFINE c == con[r].ref
               e == [conn[c] EXCEPT !.status = "needs_reauth"]
    <3>1. conn[c] \in Conn /\ conn \in [Id -> {NoConn} \cup Conn]
      BY <1>0, <2>1, <2>5 DEF RowTypes
    <3>2. e \in Conn /\ e.user = conn[c].user /\ e.slot = conn[c].slot
      BY <3>1 DEF Conn, Statuses
    <3>3. conn' = [conn EXCEPT ![c] = e]
      BY <2>1, <2>5, <3>1
    <3>4. c \in Id /\ c # r /\ conn[c] # NoConn
      BY <1>0, <2>1, <2>5 DEF Renews, Renewing
    <3> HIDE DEF c, e
    <3>5. RowTypes'
      BY <1>0, <1>1, <2>1, <3>2, <3>3, <3>4, RowSets DEF RowTypes
    <3>6. RowsKept(r)
      BY <3>1, <3>2, <3>3, <3>4 DEF RowsKept
    <3>7. conn'[r] = NoConn
      BY <2>1, <3>1, <3>3, <3>4, NotYet
    <3> QED BY <1>0, <1>1, <1>2, <1>4, <2>1, <2>3, <3>5, <3>6, <3>7, Same DEF Settled, Typed, Renewing
  <2> QED BY <1>9, <2>4, <2>5 DEF NeedsReauth
<1>10. CallTool(r) \/ AcquireLock(r) \/ AskProvider(r) \/ StoreToken(r) \/ NeedsReauth(r)
  OBVIOUS
<1> QED BY <1>5, <1>6, <1>7, <1>8, <1>9, <1>10

LEMMA StepSettles ==
  ASSUME Base, NEW r \in Req, ConnectionStep(r)
  PROVE  Base' /\ RowsKept(r)
<1>1. Settled(r)
  <2>1. CASE ByDashboard(r)
    BY <2>1, DashboardSettles
  <2>2. CASE ByService(r)
    BY <2>2, ServiceSettles
  <2>3. CASE ByWorker(r)
    BY <2>3, CacheSettles, ToolSettles DEF ByWorker
  <2> QED BY <2>1, <2>2, <2>3 DEF ConnectionStep
<1> QED BY <1>1, PhasesKept DEF Settled, Base

LEMMA EnvironmentSettles ==
  ASSUME Base, Environment
  PROVE  Base'
<1>0. RequestsTypeOK' /\ Typed /\ PhaseInv /\ RenewInv /\ at \in [Req -> Waiting \cup {"idle", "done"}]
  <2>1. RequestsTypeOK
    BY DEF Base, Typed
  <2> QED BY <2>1, ConnectionsStayOut DEF ConnectionsNext, Base, Typed, RequestsTypeOK
<1>1. ASSUME ServiceDies, UNCHANGED cache PROVE Base'
  <2>1. UNCHANGED <<conn, state, grant, con, spent, crowded, wanted>> /\ Trouble
    BY <1>1 DEF ServiceDies
  <2>2. \A r \in Req : (at'[r] = "done" /\ at[r] \in InService) \/ (at'[r] = at[r] /\ at[r] \notin InService)
    BY <1>0, <1>1 DEF ServiceDies
  <2>3. PhaseInv'
    BY <1>0, <2>1, <2>2 DEF PhaseInv, Phase, InService, Making, Renewing, ConnectionWaits
  <2>4. RenewInv'
    BY <2>2 DEF RenewInv, Renews, InService, Renewing
  <2>5. HistoryTypes'
    <3>1. \A r \in Req : at[r] = "insert" => At(r) \in Place /\ con[r].user \in Uid
      BY <1>0 DEF PhaseInv, Phase, Making, ConnectionWaits, At, Place
    <3>2. \A r \in Req : at[r] = "refreshed" => con[r].ref \in Id
      BY <1>0 DEF PhaseInv, Phase, Renewing
    <3>3. excused' \subseteq Id
      BY <1>0, <1>1, <3>2 DEF ServiceDies, Typed, HistoryTypes
    <3>4. drift' \subseteq Uid /\ dropped' \subseteq Place
      BY <1>0, <1>1, <3>1 DEF ServiceDies, Typed, HistoryTypes
    <3> QED BY <1>0, <2>1, <3>3, <3>4 DEF Typed, HistoryTypes
  <2> QED BY <1>0, <1>1, <2>1, <2>3, <2>4, <2>5, Same DEF Base, Typed
<1>2. ASSUME UNCHANGED <<at, con>>, \A r \in Req : conn'[r] # NoConn => conn[r] # NoConn,
             \A c \in Id : conn'[c] # NoConn => /\ conn[c] # NoConn /\ conn'[c].user = conn[c].user
                                               /\ conn'[c].slot = conn[c].slot
      PROVE  PhaseInv' /\ RenewInv' /\ LocalTypes'
  <2>1. PhaseInv'
    BY <1>0, <1>2 DEF PhaseInv, Phase
  <2>2. RenewInv'
    <3>1. \A r \in Req : at[r] \in Renewing => con[r].ref \in Id
      BY <1>0 DEF PhaseInv, Phase
    <3> QED BY <1>0, <1>2, <3>1 DEF RenewInv, Renews
  <2> QED BY <1>2, <2>1, <2>2, Same
<1>3. ASSUME NEW c \in Id, TokenExpires(c), UNCHANGED cache PROVE Base'
  <2> DEFINE e == [conn[c] EXCEPT !.fresh = FALSE]
  <2>1. UNCHANGED <<at, state, spent, grant, con, crowded, wanted, dropped, drift>> /\ Trouble /\ conn[c] # NoConn
        /\ excused' \subseteq excused \cup {c}
    BY <1>3 DEF TokenExpires, NoConn
  <2>2. conn \in [Id -> {NoConn} \cup Conn] /\ conn[c] \in Conn /\ RowTypes
    BY <1>0, <2>1 DEF Typed, RowTypes
  <2>3. e \in Conn /\ e.user = conn[c].user /\ e.slot = conn[c].slot
    BY <2>2 DEF Conn
  <2>4. conn' = [conn EXCEPT ![c] = e]
    BY <1>3, <2>2 DEF TokenExpires
  <2> HIDE DEF e
  <2>5. RowTypes'
    BY <2>1, <2>2, <2>3, <2>4, RowSets DEF RowTypes
  <2>6. \A d \in Id : conn'[d] # NoConn => /\ conn[d] # NoConn /\ conn'[d].user = conn[d].user
                                          /\ conn'[d].slot = conn[d].slot
    BY <2>1, <2>2, <2>3, <2>4
  <2>7. HistoryTypes'
    BY <1>0, <2>1 DEF Typed, HistoryTypes
  <2> QED BY <1>0, <1>2, <1>3, <2>1, <2>5, <2>6, <2>7, Same DEF Base, Typed
<1>4. ASSUME NEW c \in Id, Revoke(c), UNCHANGED cache PROVE Base'
  <2>1. UNCHANGED <<at, conn, state, spent, con, crowded, wanted, dropped, drift>> /\ Trouble
        /\ grant' = [grant EXCEPT ![c] = 0] /\ excused' = excused \cup {c}
    BY <1>4 DEF Revoke
  <2>2. RowTypes' /\ HistoryTypes'
    BY <1>0, <2>1 DEF Typed, RowTypes, HistoryTypes
  <2> QED BY <1>0, <1>2, <1>4, <2>1, <2>2, Same DEF Base, Typed
<1>5. ASSUME NEW u \in Uid, CacheExpires(u) PROVE Base'
  <2>1. UNCHANGED <<at, conn, state, spent, grant, con, excused, crowded, wanted, dropped>> /\ Trouble
        /\ cache' = [cache EXCEPT ![u] = {}] /\ drift' = drift \ {u}
    BY <1>5 DEF CacheExpires
  <2>2. CacheTypes' /\ HistoryTypes'
    BY <1>0, <2>1 DEF Typed, CacheTypes, HistoryTypes
  <2> QED BY <1>0, <1>2, <2>1, <2>2, Same DEF Base, Typed
<1> QED BY <1>1, <1>3, <1>4, <1>5 DEF Environment

(* The accounts' half of Next. *)
LEMMA AccountsFrame ==
  ASSUME Base, AccountsNext, UNCHANGED integrationVars
  PROVE  Base' /\ StaysIn(ConnectionWaits)
<1>1. RequestsTypeOK' /\ StaysIn(ConnectionWaits) /\ Typed /\ PhaseInv /\ RenewInv
      /\ RequestsTypeOK
  BY AccountsStayOut DEF Base, Typed
<1>2. \A r \in Req : /\ at[r] \in ConnectionWaits \cup {"done"} => at'[r] = at[r]
                     /\ at'[r] \in ConnectionWaits \cup {"idle"} => at'[r] = at[r]
  BY <1>1 DEF StaysIn
<1>3. PhaseInv'
  <2>1. ASSUME NEW r \in Req PROVE Phase(r)'
    <3>1. Phase(r)
      BY <1>1 DEF PhaseInv
    <3> QED BY <1>2, <3>1 DEF Phase, ConnectionWaits, Making, Renewing
  <2> QED BY <2>1 DEF PhaseInv
<1>4. RenewInv'
  <2>1. ASSUME NEW r \in Req, at'[r] \in Renewing PROVE Renews(r)'
    <3>1. Renews(r) /\ at[r] \in Renewing
      BY <1>1, <1>2, <2>1 DEF RenewInv, Renewing, ConnectionWaits
    <3> QED BY <1>2, <3>1 DEF Renews, ConnectionWaits
  <2> QED BY <2>1 DEF RenewInv, Renews
<1> QED BY <1>1, <1>3, <1>4, Same DEF Base, Typed

LEMMA NextBase == Base /\ [Next]_vars => Base'
<1>1. ASSUME Base, UNCHANGED vars PROVE Base'
  BY <1>1 DEF vars, Base, Typed, RequestsTypeOK, RowTypes, LocalTypes, CountTypes, HistoryTypes, CacheTypes,
              PhaseInv, Phase, RenewInv, Renews
<1> QED BY <1>1, NextHalves, AccountsFrame, StepSettles, EnvironmentSettles DEF ConnectionsNext

(* Every variable of accounts, connections and cache keeps its type. *)
THEOREM TypeCorrect == Spec => []TypeOK
<1>1. Init => AccountsTypeOK
  BY InitAccounts DEF Init
<1>2. AccountsTypeOK /\ RequestsTypeOK /\ [Next]_vars => AccountsTypeOK'
  <2>1. UNCHANGED accountVars => (AccountsTypeOK => AccountsTypeOK')
    BY DEF AccountsTypeOK
  <2>2. UNCHANGED vars => UNCHANGED accountVars
    BY DEF vars
  <2> QED BY <2>1, <2>2, NextHalves, NextAccountTypes
<1>3. Base => RequestsTypeOK
  BY DEF Base, Typed
<1>4. AccountsTypeOK /\ Base => TypeOK
  BY TypedParts DEF Base, TypeOK
<1> QED BY InitBase, NextBase, <1>1, <1>2, <1>3, <1>4, PTL DEF Spec

------------------------------------------------------------------------------
(* Steps that neither place a connection nor take one away. *)
Quiet ==
  /\ \A c \in Id : conn'[c].user = conn[c].user /\ conn'[c].slot = conn[c].slot
  /\ \A q \in Req : /\ at'[q] = "insert" <=> at[q] = "insert"
                    /\ at[q] = "insert" => con'[q].user = con[q].user /\ con'[q].slot = con[q].slot
  /\ UNCHANGED <<crowded, wanted, dropped>>

Placing(r) ==
  /\ UNCHANGED cache
  /\ \/ InsertConnection(r) \/ InsertFails(r) \/ Replace(r)
     \/ \E u \in Uid, c \in Id : DeleteConnection(r, u, c) \/ \E s \in Slot : MoveConnection(r, u, c, s)

LEMMA QuietPlaces ==
  ASSUME Quiet
  PROVE  \A p \in Place : InSlot(p[1], p[2])' = InSlot(p[1], p[2]) /\ Filling(p)' = Filling(p)
BY DEF Quiet, InSlot, Rows, Filling, At

LEMMA QuietHandler ==
  ASSUME Base, NEW r \in Req, ConnectionStep(r), UNCHANGED <<conn, crowded, wanted, dropped>>,
         at[r] # "insert", at'[r] # "insert"
  PROVE  Quiet
BY StepShape DEF Quiet

LEMMA QuietSteps ==
  ASSUME Base, [Next]_vars
  PROVE  Quiet \/ ServiceDies \/ \E r \in Req : Placing(r)
<1>0. at \in [Req -> Waiting \cup {"idle", "done"}] /\ con \in [Req -> Con] /\ conn \in [Id -> {NoConn} \cup Conn]
  BY DEF Base, Typed, RequestsTypeOK, LocalTypes, RowTypes
<1>1. ASSUME NEW r \in Req, ByDashboard(r) PROVE Quiet \/ Placing(r)
  <2>1. ConnectionStep(r)
    BY <1>1 DEF ConnectionStep
  <2>2. ASSUME NEW u \in Uid, NEW s \in Slot, Initiate(r, u, s) \/ Connect(r, u, s) PROVE Quiet
    <3>1. at[r] # "insert" /\ at'[r] # "insert" /\ UNCHANGED <<conn, crowded, wanted, dropped>>
      BY <1>0, <2>2 DEF Initiate, Connect, Begin, Goto
    <3> QED BY <2>1, <3>1, QuietHandler
  <2> QED BY <1>1, <2>2 DEF ByDashboard, Placing
<1>2. ASSUME NEW r \in Req, ByService(r) PROVE Quiet \/ Placing(r)
  <2>1. ConnectionStep(r)
    BY <1>2 DEF ConnectionStep
  <2>2. ASSUME NEW a \in Req, NEW u \in Uid \cup {None}, Callback(r, a, u) PROVE Quiet
    <3>1. at[r] # "insert" /\ at'[r] # "insert" /\ UNCHANGED <<conn, crowded, wanted, dropped>>
      BY <1>0, <2>2 DEF Callback, Begin, Goto
    <3> QED BY <2>1, <3>1, QuietHandler
  <2>3. ASSUME Exchange(r) \/ Discover(r) PROVE Quiet
    <3>1. at[r] # "insert" /\ at'[r] # "insert" /\ UNCHANGED <<conn, crowded, wanted, dropped>>
      BY <1>0, <2>3 DEF Exchange, Discover, Resume, Finish, Goto
    <3> QED BY <2>1, <3>1, QuietHandler
  <2>4. ASSUME ProxyGivesUp(r) PROVE Quiet
    <3>1. UNCHANGED <<at, conn, crowded, wanted, dropped>> /\ con' = [con EXCEPT ![r].caller = None]
      BY <2>4 DEF ProxyGivesUp
    <3>2. \A q \in Req : con'[q].user = con[q].user /\ con'[q].slot = con[q].slot
      BY <1>0, <3>1 DEF Con
    <3> QED BY <3>1, <3>2 DEF Quiet
  <2> QED BY <1>2, <2>2, <2>3, <2>4 DEF ByService, Placing
<1>3. ASSUME NEW r \in Req, ByWorker(r) PROVE Quiet
  <2>1. ConnectionStep(r)
    BY <1>3 DEF ConnectionStep
  <2>2. at[r] # "insert" /\ at'[r] # "insert"
    BY <1>0, <1>3 DEF ByWorker, GetCapabilities, FetchCapabilities, FillCache, Invalidate, CallTool, Begins,
                      AcquireLock, AskProvider, StoreToken, NeedsReauth, Begin, Resume, Finish, Goto
  <2>3. UNCHANGED <<crowded, wanted, dropped>>
    BY <1>3 DEF ByWorker, GetCapabilities, FetchCapabilities, FillCache, Invalidate, CallTool,
                AcquireLock, AskProvider, StoreToken, NeedsReauth
  <2>4. \A c \in Id : conn'[c].user = conn[c].user /\ conn'[c].slot = conn[c].slot
    <3>1. CASE UNCHANGED conn
      BY <3>1
    <3>2. CASE StoreToken(r)
      BY <1>0, <3>2 DEF StoreToken, Conn
    <3>3. CASE NeedsReauth(r)
      BY <1>0, <3>3 DEF NeedsReauth, Conn
    <3>4. UNCHANGED conn \/ StoreToken(r) \/ NeedsReauth(r)
      BY <1>3 DEF ByWorker, GetCapabilities, FetchCapabilities, FillCache, Invalidate, CallTool, AcquireLock, AskProvider
    <3> QED BY <3>1, <3>2, <3>3, <3>4
  <2> QED BY <2>1, <2>2, <2>3, <2>4, StepShape DEF Quiet
<1>4. ASSUME Environment PROVE Quiet \/ ServiceDies
  <2>1. ASSUME NEW c \in Id, TokenExpires(c) PROVE Quiet
    BY <1>0, <2>1 DEF TokenExpires, Quiet, Conn
  <2>2. ASSUME NEW c \in Id, Revoke(c) PROVE Quiet
    BY <2>2 DEF Revoke, Quiet
  <2>3. ASSUME NEW u \in Uid, CacheExpires(u) PROVE Quiet
    BY <2>3 DEF CacheExpires, Quiet
  <2> QED BY <1>4, <2>1, <2>2, <2>3 DEF Environment
<1>5. ASSUME AccountsNext, UNCHANGED integrationVars PROVE Quiet
  <2>1. StaysIn(ConnectionWaits)
    BY <1>5, AccountsFrame
  <2>2. \A q \in Req : at'[q] = "insert" <=> at[q] = "insert"
    BY <2>1 DEF StaysIn, ConnectionWaits
  <2> QED BY <1>5, <2>2 DEF Quiet
<1>6. ASSUME UNCHANGED vars PROVE Quiet
  BY <1>6 DEF vars, Quiet
<1> QED BY <1>1, <1>2, <1>3, <1>4, <1>5, <1>6, NextHalves DEF ConnectionsNext, ConnectionStep

(* What the other steps do to the places. *)
Inserted(r) ==
  /\ At(r) \in Place
  /\ \A p \in Place : /\ InSlot(p[1], p[2])' = InSlot(p[1], p[2]) \cup (IF p = At(r) THEN {r} ELSE {})
                      /\ Filling(p)' = Filling(p) \ {r}

LEMMA RowPlaces ==
  ASSUME Base, NEW r \in Req, ConnectionStep(r), at[r] = "insert", at'[r] # "insert",
         NEW token, conn' = [conn EXCEPT ![r] = NewRow(r, token)]
  PROVE  Inserted(r)
<1>0. con \in [Req -> Con] /\ conn \in [Id -> {NoConn} \cup Conn]
  BY DEF Base, Typed, LocalTypes, RowTypes
<1>1. con[r].user \in Uid /\ con[r].slot \in Slot /\ conn[r] = NoConn
  BY NotYet DEF Base, PhaseInv, Phase, Making, ConnectionWaits
<1>2. At(r) \in Place /\ \A p \in Place : p = At(r) <=> p[1] = con[r].user /\ p[2] = con[r].slot
  BY <1>1 DEF At, Place
<1>4. \A q \in Req : q # r => at'[q] = at[q] /\ con'[q] = con[q]
  BY StepShape
<1>5. \A c \in Id : c # r => conn'[c] = conn[c]
  BY <1>0
<1>6. conn'[r].user = con[r].user /\ conn'[r].slot = con[r].slot
  BY <1>0 DEF NewRow
<1>7. ASSUME NEW p \in Place PROVE Filling(p)' = Filling(p) \ {r}
  BY <1>4 DEF Filling, At
<1>8. ASSUME NEW p \in Place
      PROVE  InSlot(p[1], p[2])' = InSlot(p[1], p[2]) \cup (IF p = At(r) THEN {r} ELSE {})
  <2>1. r \notin InSlot(p[1], p[2])
    BY <1>1, NoValues DEF InSlot, Rows, Place
  <2>2. r \in InSlot(p[1], p[2])' <=> p = At(r)
    BY <1>2, <1>6 DEF InSlot, Rows
  <2>3. \A c \in Id : c # r => (c \in InSlot(p[1], p[2])' <=> c \in InSlot(p[1], p[2]))
    BY <1>5 DEF InSlot, Rows
  <2>4. InSlot(p[1], p[2])' \subseteq Id /\ InSlot(p[1], p[2]) \subseteq Id
    BY DEF InSlot, Rows
  <2> QED BY <2>1, <2>2, <2>3, <2>4
<1> QED BY <1>2, <1>7, <1>8 DEF Inserted

LEMMA InsertPlaces ==
  ASSUME Base, NEW r \in Req, InsertConnection(r), UNCHANGED cache
  PROVE  Inserted(r)
<1>0. at \in [Req -> Waiting \cup {"idle", "done"}]
  BY DEF Base, Typed, RequestsTypeOK
<1>1. at[r] = "insert" /\ at'[r] # "insert"
  BY <1>0 DEF InsertConnection, Answered, Resume, Finish, Goto
<1>2. ConnectionStep(r)
  BY DEF ConnectionStep, ByService
<1>3. PICK token \in {0, 1} : conn' = [conn EXCEPT ![r] = NewRow(r, token)]
  BY DEF InsertConnection
<1> QED BY <1>1, <1>2, <1>3, RowPlaces

(* Nothing comes of it, or a row without a token. *)
LEMMA FailPlaces ==
  ASSUME Base, NEW r \in Req, InsertFails(r), UNCHANGED cache
  PROVE  /\ UNCHANGED <<crowded, wanted>>
         /\ \/ Inserted(r) /\ UNCHANGED dropped
            \/ /\ \A p \in Place : /\ InSlot(p[1], p[2])' = InSlot(p[1], p[2])
                                   /\ Filling(p)' = Filling(p) \ {r}
               /\ dropped' = dropped \cup {At(r)}
<1>0. at \in [Req -> Waiting \cup {"idle", "done"}]
  BY DEF Base, Typed, RequestsTypeOK
<1>1. at[r] = "insert" /\ at'[r] # "insert" /\ UNCHANGED <<con, crowded, wanted>>
  BY <1>0 DEF InsertFails, Resume, Finish, Goto
<1>2. ConnectionStep(r)
  BY DEF ConnectionStep, ByService
<1>3. CASE conn' = [conn EXCEPT ![r] = NewRow(r, 0)] /\ UNCHANGED dropped
  BY <1>1, <1>2, <1>3, RowPlaces
<1>4. CASE UNCHANGED conn /\ dropped' = dropped \cup {At(r)}
  <2>1. \A q \in Req : q # r => at'[q] = at[q]
    BY <1>2, StepShape
  <2>2. \A p \in Place : InSlot(p[1], p[2])' = InSlot(p[1], p[2])
    BY <1>4 DEF InSlot, Rows
  <2>3. \A p \in Place : Filling(p)' = Filling(p) \ {r}
    BY <1>1, <2>1 DEF Filling, At
  <2> QED BY <1>1, <1>4, <2>2, <2>3
<1> QED BY <1>1, <1>3, <1>4 DEF InsertFails

LEMMA ReplacePlaces ==
  ASSUME Base, NEW r \in Req, Replace(r), UNCHANGED cache
  PROVE  \/ Quiet
         \/ /\ At(r) \in Place
            /\ \A p \in Place : /\ InSlot(p[1], p[2])' = IF p = At(r) THEN {} ELSE InSlot(p[1], p[2])
                                /\ Filling(p)' = Filling(p) \cup (IF p = At(r) THEN {r} ELSE {})
            /\ crowded' = IF Filling(At(r)) = {} THEN crowded ELSE crowded \cup {At(r)}
            /\ UNCHANGED <<wanted, dropped>>
<1>0. at \in [Req -> Waiting \cup {"idle", "done"}] /\ con \in [Req -> Con] /\ conn \in [Id -> {NoConn} \cup Conn]
  BY DEF Base, Typed, RequestsTypeOK, LocalTypes, RowTypes
<1>1. at[r] = "replace" /\ con[r].user \in Uid /\ con[r].slot \in Slot
  BY DEF Replace, Base, PhaseInv, Phase, Making, ConnectionWaits
<1>2. At(r) \in Place /\ \A p \in Place : p = At(r) <=> p[1] = con[r].user /\ p[2] = con[r].slot
  BY <1>1 DEF At, Place
<1>3. ConnectionStep(r) /\ UNCHANGED con
  <2>1. ConnectionStep(r)
    BY DEF ConnectionStep, ByService
  <2> QED BY <2>1 DEF Replace
<1>4. CASE Finish(r, "replace") /\ UNCHANGED <<conn, crowded>>
  <2>1. at'[r] # "insert" /\ UNCHANGED <<conn, crowded, wanted, dropped>>
    BY <1>0, <1>4 DEF Replace, Finish, Resume, Goto
  <2> QED BY <1>1, <1>3, <2>1, QuietHandler
<1>5. ASSUME Resume(r, "replace", "insert"),
             conn' = [c \in Id |-> IF c \in InSlot(con[r].user, con[r].slot) THEN NoConn ELSE conn[c]],
             crowded' = IF Filling(At(r)) = {} THEN crowded ELSE crowded \cup {At(r)}
      PROVE  /\ At(r) \in Place
             /\ \A p \in Place : /\ InSlot(p[1], p[2])' = IF p = At(r) THEN {} ELSE InSlot(p[1], p[2])
                                 /\ Filling(p)' = Filling(p) \cup (IF p = At(r) THEN {r} ELSE {})
             /\ crowded' = IF Filling(At(r)) = {} THEN crowded ELSE crowded \cup {At(r)}
             /\ UNCHANGED <<wanted, dropped>>
  <2>1. at'[r] = "insert" /\ \A q \in Req : q # r => at'[q] = at[q]
    BY <1>0, <1>5 DEF Resume, Goto
  <2>2. ASSUME NEW p \in Place PROVE Filling(p)' = Filling(p) \cup (IF p = At(r) THEN {r} ELSE {})
    <3>1. \A q \in Req : At(q)' = At(q)
      BY <1>3 DEF At
    <3> QED BY <1>1, <2>1, <3>1 DEF Filling
  <2>3. ASSUME NEW p \in Place PROVE InSlot(p[1], p[2])' = IF p = At(r) THEN {} ELSE InSlot(p[1], p[2])
    <3>1. ASSUME NEW c \in Id
          PROVE  c \in InSlot(p[1], p[2])' <=> c \in InSlot(p[1], p[2]) /\ p # At(r)
      <4>1. p[1] # None
        BY DEF Place
      <4>2. CASE c \in InSlot(con[r].user, con[r].slot)
        BY <1>2, <1>5, <4>1, <4>2, NoValues DEF InSlot, Rows
      <4>3. CASE c \notin InSlot(con[r].user, con[r].slot)
        BY <1>2, <1>5, <4>3 DEF InSlot, Rows
      <4> QED BY <4>2, <4>3
    <3>2. InSlot(p[1], p[2])' \subseteq Id /\ InSlot(p[1], p[2]) \subseteq Id
      BY DEF InSlot, Rows
    <3> QED BY <3>1, <3>2
  <2>4. UNCHANGED <<wanted, dropped>>
    BY DEF Replace
  <2> QED BY <1>2, <1>5, <2>2, <2>3, <2>4
<1> QED BY <1>4, <1>5 DEF Replace

LEMMA DeletePlaces ==
  ASSUME Base, NEW r \in Req, NEW u \in Uid, NEW c \in Id, DeleteConnection(r, u, c)
  PROVE  /\ \A p \in Place : /\ InSlot(p[1], p[2])' = InSlot(p[1], p[2]) \ {c}
                             /\ Filling(p)' = Filling(p)
                             /\ c \in InSlot(p[1], p[2]) => p = <<conn[c].user, conn[c].slot>>
         /\ UNCHANGED crowded
         /\ wanted' \ dropped' = (wanted \ dropped) \ {<<conn[c].user, conn[c].slot>>}
<1>0. at \in [Req -> Waiting \cup {"idle", "done"}] /\ con \in [Req -> Con] /\ conn \in [Id -> {NoConn} \cup Conn]
  BY DEF Base, Typed, RequestsTypeOK, LocalTypes, RowTypes
<1>1. at[r] # "insert" /\ at'[r] # "insert" /\ \A q \in Req : q # r => at'[q] = at[q] /\ con'[q] = con[q]
  BY <1>0 DEF DeleteConnection, Begin, Goto
<1>2. conn' = [conn EXCEPT ![c] = NoConn]
  BY DEF DeleteConnection
<1>3. ASSUME NEW p \in Place PROVE Filling(p)' = Filling(p)
  BY <1>1 DEF Filling, At
<1>4. ASSUME NEW p \in Place
      PROVE  InSlot(p[1], p[2])' = InSlot(p[1], p[2]) \ {c}
             /\ (c \in InSlot(p[1], p[2]) => p = <<conn[c].user, conn[c].slot>>)
  <2>1. p[1] # None /\ p = <<p[1], p[2]>>
    BY DEF Place
  <2> QED BY <1>0, <1>2, <2>1, NoValues DEF InSlot, Rows
<1>5. /\ UNCHANGED crowded
      /\ wanted' \ dropped' = (wanted \ dropped) \ {<<conn[c].user, conn[c].slot>>}
  BY DEF DeleteConnection
<1> QED BY <1>3, <1>4, <1>5

Moved(c, to, left) ==
  /\ \A p \in Place : /\ InSlot(p[1], p[2])' = (InSlot(p[1], p[2]) \ {c}) \cup (IF p = to THEN {c} ELSE {})
                      /\ Filling(p)' = Filling(p)
                      /\ c \in InSlot(p[1], p[2]) => p = left
  /\ crowded' = IF InSlot(to[1], to[2]) \cup Filling(to) = {} THEN crowded ELSE crowded \cup {to}
  /\ wanted' \ dropped' \subseteq ((wanted \ dropped) \ {left}) \cup {to}

LEMMA MovePlaces ==
  ASSUME Base, NEW r \in Req, NEW u \in Uid, NEW c \in Id, NEW s \in Slot, MoveConnection(r, u, c, s)
  PROVE  \E to \in Place, left \in Place : Moved(c, to, left)
<1> DEFINE to == <<conn[c].user, s>>
           left == <<conn[c].user, conn[c].slot>>
<1>0. at \in [Req -> Waiting \cup {"idle", "done"}] /\ con \in [Req -> Con] /\ conn \in [Id -> {NoConn} \cup Conn]
  BY DEF Base, Typed, RequestsTypeOK, LocalTypes, RowTypes
<1>1. at[r] # "insert" /\ at'[r] # "insert" /\ \A q \in Req : q # r => at'[q] = at[q] /\ con'[q] = con[q]
  BY <1>0 DEF MoveConnection, Begin, Goto
<1>2. conn[c] \in Conn /\ conn[c].user \in Uid /\ conn[c].slot \in Slot
  BY <1>0 DEF MoveConnection, Conn
<1>3. conn'[c].user = conn[c].user /\ conn'[c].slot = s /\ \A d \in Id : d # c => conn'[d] = conn[d]
  BY <1>0, <1>2 DEF MoveConnection, Conn
<1>4. ASSUME NEW p \in Place PROVE Filling(p)' = Filling(p)
  BY <1>1 DEF Filling, At
<1>5. ASSUME NEW p \in Place
      PROVE  /\ InSlot(p[1], p[2])' = (InSlot(p[1], p[2]) \ {c}) \cup (IF p = to THEN {c} ELSE {})
             /\ c \in InSlot(p[1], p[2]) => p = left
  <2>1. p = <<p[1], p[2]>>
    BY DEF Place
  <2>2. c \in InSlot(p[1], p[2])' <=> p = to
    BY <1>3, <2>1 DEF InSlot, Rows
  <2>3. c \in InSlot(p[1], p[2]) => p = left
    BY <2>1 DEF InSlot, Rows
  <2>4. \A d \in Id : d # c => (d \in InSlot(p[1], p[2])' <=> d \in InSlot(p[1], p[2]))
    BY <1>3 DEF InSlot, Rows
  <2>5. InSlot(p[1], p[2])' \subseteq Id /\ InSlot(p[1], p[2]) \subseteq Id
    BY DEF InSlot, Rows
  <2> QED BY <2>2, <2>3, <2>4, <2>5
<1>6. to \in Place /\ left \in Place /\ to[1] = conn[c].user /\ to[2] = s
  BY <1>2 DEF Place
<1>7. /\ crowded' = IF InSlot(conn[c].user, s) \cup Filling(to) = {} THEN crowded ELSE crowded \cup {to}
      /\ wanted' \ dropped' \subseteq ((wanted \ dropped) \ {left}) \cup {to}
  BY DEF MoveConnection
<1> HIDE DEF to, left
<1> QED BY <1>4, <1>5, <1>6, <1>7 DEF Moved

LEMMA DiesPlaces ==
  ASSUME Base, ServiceDies
  PROVE  /\ \A p \in Place : /\ InSlot(p[1], p[2])' = InSlot(p[1], p[2])
                             /\ Filling(p)' = {}
                             /\ Filling(p) # {} => p \in dropped'
         /\ dropped \subseteq dropped' /\ UNCHANGED <<crowded, wanted>>
<1>1. \A q \in Req : at'[q] # "insert"
  BY DEF ServiceDies, InService, Base, Typed, RequestsTypeOK
<1> QED BY <1>1 DEF ServiceDies, InSlot, Rows, Filling

------------------------------------------------------------------------------
(* One connection for a slot. *)

OnlyOne(p) ==
  /\ \A c, d \in InSlot(p[1], p[2]) : c = d
  /\ Filling(p) # {} => InSlot(p[1], p[2]) = {}
  /\ \A q, r \in Filling(p) : q = r

OneInv == \A p \in Place \ crowded : OnlyOne(p)

LEMMA OnlyOneKept ==
  ASSUME NEW p, OnlyOne(p), InSlot(p[1], p[2])' \subseteq InSlot(p[1], p[2]), Filling(p)' \subseteq Filling(p)
  PROVE  OnlyOne(p)'
BY DEF OnlyOne

LEMMA InitOne == Init => OneInv
<1> SUFFICES ASSUME Init PROVE OneInv
  OBVIOUS
<1>1. \A r \in Req : at[r] = "idle"
  BY DEF Init, RequestsInit
<1>2. ASSUME NEW p \in Place PROVE OnlyOne(p)
  <2>1. Filling(p) = {}
    BY <1>1 DEF Filling
  <2>2. p = <<p[1], p[2]>> /\ p[1] # None
    BY DEF Place
  <2>3. ASSUME NEW c \in InSlot(p[1], p[2]), NEW d \in InSlot(p[1], p[2]) PROVE c = d
    <3>1. c \in Id /\ d \in Id /\ conn[c].user = p[1] /\ conn[d].user = p[1]
          /\ conn[c].slot = p[2] /\ conn[d].slot = p[2] /\ conn[c] # NoConn
      BY <2>2, NoValues DEF InSlot, Rows
    <3> QED BY <3>1 DEF Init, ConnectionsInit
  <2> QED BY <2>1, <2>3 DEF OnlyOne
<1> QED BY <1>2 DEF OneInv

LEMMA NextOne == Base /\ OneInv /\ [Next]_vars => OneInv'
<1> SUFFICES ASSUME Base, OneInv, [Next]_vars PROVE OneInv'
  OBVIOUS
<1>1. CASE Quiet
  <2>1. UNCHANGED crowded
    BY <1>1 DEF Quiet
  <2> QED BY <1>1, <2>1, QuietPlaces, OnlyOneKept DEF OneInv
<1>2. CASE ServiceDies
  <2>1. UNCHANGED crowded
    BY <1>2 DEF ServiceDies
  <2>2. \A p \in Place : InSlot(p[1], p[2])' = InSlot(p[1], p[2]) /\ Filling(p)' = {}
    BY <1>2, DiesPlaces
  <2> QED BY <2>1, <2>2, OnlyOneKept DEF OneInv
<1>3. ASSUME NEW r \in Req, Inserted(r), at[r] = "insert", UNCHANGED crowded PROVE OneInv'
  <2>2. ASSUME NEW p \in Place, p \notin crowded PROVE OnlyOne(p)'
    <3>1. OnlyOne(p) /\ Filling(p)' = Filling(p) \ {r}
          /\ InSlot(p[1], p[2])' = InSlot(p[1], p[2]) \cup (IF p = At(r) THEN {r} ELSE {})
      BY <1>3, <2>2 DEF OneInv, Inserted
    <3>2. CASE p = At(r)
      <4>1. r \in Filling(p)
        BY <1>3, <3>2 DEF Filling
      <4> QED BY <3>1, <3>2, <4>1 DEF OnlyOne
    <3>3. CASE p # At(r)
      BY <3>1, <3>3, OnlyOneKept
    <3> QED BY <3>2, <3>3
  <2> QED BY <1>3, <2>2 DEF OneInv
<1>7. ASSUME NEW r \in Req, InsertConnection(r), UNCHANGED cache PROVE OneInv'
  BY <1>3, <1>7, InsertPlaces DEF InsertConnection
<1>8. ASSUME NEW r \in Req, InsertFails(r), UNCHANGED cache PROVE OneInv'
  <2>1. at[r] = "insert" /\ UNCHANGED crowded
    BY <1>8 DEF InsertFails, Finish, Resume
  <2>2. CASE Inserted(r)
    BY <1>3, <2>1, <2>2
  <2>3. CASE \A p \in Place : InSlot(p[1], p[2])' = InSlot(p[1], p[2]) /\ Filling(p)' = Filling(p) \ {r}
    BY <2>1, <2>3, OnlyOneKept DEF OneInv
  <2> QED BY <1>8, <2>2, <2>3, FailPlaces
<1>4. ASSUME NEW r \in Req, Replace(r), UNCHANGED cache, ~ Quiet PROVE OneInv'
  <2>1. /\ \A p \in Place : /\ InSlot(p[1], p[2])' = IF p = At(r) THEN {} ELSE InSlot(p[1], p[2])
                            /\ Filling(p)' = Filling(p) \cup (IF p = At(r) THEN {r} ELSE {})
        /\ crowded' = IF Filling(At(r)) = {} THEN crowded ELSE crowded \cup {At(r)}
    BY <1>4, ReplacePlaces
  <2>2. ASSUME NEW p \in Place, p \notin crowded' PROVE OnlyOne(p)'
    <3>1. OnlyOne(p)
      BY <2>1, <2>2 DEF OneInv
    <3>2. CASE p = At(r)
      BY <2>1, <2>2, <3>2 DEF OnlyOne
    <3>3. CASE p # At(r)
      BY <2>1, <3>1, <3>3, OnlyOneKept
    <3> QED BY <3>2, <3>3
  <2> QED BY <2>2 DEF OneInv
<1>5. ASSUME NEW r \in Req, NEW u \in Uid, NEW c \in Id, DeleteConnection(r, u, c) PROVE OneInv'
  <2>1. UNCHANGED crowded
    BY <1>5 DEF DeleteConnection
  <2>2. \A p \in Place : InSlot(p[1], p[2])' = InSlot(p[1], p[2]) \ {c} /\ Filling(p)' = Filling(p)
    BY <1>5, DeletePlaces
  <2> QED BY <2>1, <2>2, OnlyOneKept DEF OneInv
<1>6. ASSUME NEW r \in Req, NEW u \in Uid, NEW c \in Id, NEW s \in Slot, MoveConnection(r, u, c, s) PROVE OneInv'
  <2>0. PICK to \in Place, left \in Place : Moved(c, to, left)
    BY <1>6, MovePlaces
  <2>2. ASSUME NEW p \in Place, p \notin crowded' PROVE OnlyOne(p)'
    <3>1. OnlyOne(p)
      BY <2>0, <2>2 DEF OneInv, Moved
    <3>2. CASE p = to
      <4>1. InSlot(p[1], p[2]) = {} /\ Filling(p) = {}
        BY <2>0, <2>2, <3>2 DEF Moved
      <4>2. InSlot(p[1], p[2])' = {c} /\ Filling(p)' = {}
        BY <2>0, <3>2, <4>1 DEF Moved
      <4> QED BY <4>2 DEF OnlyOne
    <3>3. CASE p # to
      BY <2>0, <3>1, <3>3, OnlyOneKept DEF Moved
    <3> QED BY <3>2, <3>3
  <2> QED BY <2>2 DEF OneInv
<1> QED BY <1>1, <1>2, <1>4, <1>5, <1>6, <1>7, <1>8, QuietSteps DEF Placing

(* A user has one connection for a slot, where two handlers were not both  *)
(* past the removal of the old one, and nothing was moved onto another:    *)
(* whatever else happens in between, deaths of the service included.       *)
(* (oauth_callback, _replace_existing_connection, update_connection.)      *)
THEOREM SlotsHaveOneConnection == Spec => []OneConnection
<1>1. OneInv => OneConnection
  BY DEF OneInv, OnlyOne, OneConnection
<1>2. Spec => []OneInv
  BY InitBase, NextBase, InitOne, NextOne, PTL DEF Spec
<1> QED BY <1>1, <1>2, PTL

------------------------------------------------------------------------------
(* A wanted connection stays. *)

LEMMA NextKept == Base /\ SlotKept /\ [Next]_vars => SlotKept'
<1> SUFFICES ASSUME Base, SlotKept, [Next]_vars PROVE SlotKept'
  OBVIOUS
<1>0. wanted \subseteq Place /\ wanted' \subseteq Place
  BY NextBase DEF Base, Typed, HistoryTypes
<1>1. CASE Quiet
  BY <1>0, <1>1, QuietPlaces DEF Quiet, SlotKept
<1>2. CASE ServiceDies
  BY <1>0, <1>2, DiesPlaces DEF SlotKept
<1>3. ASSUME NEW r \in Req, Inserted(r), UNCHANGED crowded,
             wanted' \ dropped' \subseteq (wanted \ dropped) \cup {At(r)}
      PROVE  SlotKept'
  <2>1. \A p \in Place : p # At(r) => r \notin Filling(p)
    BY DEF Filling
  <2>2. ASSUME NEW p \in wanted', p \notin crowded', p \notin dropped'
        PROVE  InSlot(p[1], p[2])' # {} \/ Filling(p)' # {}
    <3>1. CASE p = At(r)
      BY <1>3, <3>1 DEF Inserted
    <3>2. CASE p # At(r)
      <4>1. p \in Place /\ p \in wanted /\ p \notin crowded /\ p \notin dropped
        BY <1>0, <1>3, <2>2, <3>2
      <4> QED BY <1>3, <2>1, <3>2, <4>1 DEF SlotKept, Inserted
    <3> QED BY <3>1, <3>2
  <2> QED BY <2>2 DEF SlotKept
<1>7. ASSUME NEW r \in Req, InsertConnection(r), UNCHANGED cache PROVE SlotKept'
  <2>1. UNCHANGED crowded /\ wanted' \ dropped' \subseteq (wanted \ dropped) \cup {At(r)}
    BY <1>7 DEF InsertConnection
  <2> QED BY <1>3, <1>7, <2>1, InsertPlaces
<1>8. ASSUME NEW r \in Req, InsertFails(r), UNCHANGED cache PROVE SlotKept'
  <2>1. UNCHANGED <<crowded, wanted>>
    BY <1>8, FailPlaces
  <2>2. CASE Inserted(r) /\ UNCHANGED dropped
    BY <1>3, <2>1, <2>2
  <2>3. CASE /\ \A p \in Place : InSlot(p[1], p[2])' = InSlot(p[1], p[2]) /\ Filling(p)' = Filling(p) \ {r}
             /\ dropped' = dropped \cup {At(r)}
    <3>1. \A p \in Place : p # At(r) => r \notin Filling(p)
      BY DEF Filling
    <3> QED BY <1>0, <2>1, <2>3, <3>1 DEF SlotKept
  <2> QED BY <1>8, <2>2, <2>3, FailPlaces
<1>4. ASSUME NEW r \in Req, Replace(r), UNCHANGED cache, ~ Quiet PROVE SlotKept'
  <2>1. /\ \A p \in Place : /\ InSlot(p[1], p[2])' = IF p = At(r) THEN {} ELSE InSlot(p[1], p[2])
                            /\ Filling(p)' = Filling(p) \cup (IF p = At(r) THEN {r} ELSE {})
        /\ crowded \subseteq crowded' /\ UNCHANGED <<wanted, dropped>>
    BY <1>4, ReplacePlaces
  <2>4. ASSUME NEW p \in wanted', p \notin crowded', p \notin dropped'
        PROVE  InSlot(p[1], p[2])' # {} \/ Filling(p)' # {}
    BY <1>0, <2>1, <2>4 DEF SlotKept
  <2> QED BY <2>4 DEF SlotKept
<1>5. ASSUME NEW r \in Req, NEW u \in Uid, NEW c \in Id, DeleteConnection(r, u, c) PROVE SlotKept'
  <2>1. /\ \A p \in Place : /\ InSlot(p[1], p[2])' = InSlot(p[1], p[2]) \ {c}
                            /\ Filling(p)' = Filling(p)
                            /\ c \in InSlot(p[1], p[2]) => p = <<conn[c].user, conn[c].slot>>
        /\ UNCHANGED crowded
        /\ wanted' \ dropped' = (wanted \ dropped) \ {<<conn[c].user, conn[c].slot>>}
    BY <1>5, DeletePlaces
  <2>4. ASSUME NEW p \in wanted', p \notin crowded', p \notin dropped'
        PROVE  InSlot(p[1], p[2])' # {} \/ Filling(p)' # {}
    BY <1>0, <2>1, <2>4 DEF SlotKept
  <2> QED BY <2>4 DEF SlotKept
<1>6. ASSUME NEW r \in Req, NEW u \in Uid, NEW c \in Id, NEW s \in Slot, MoveConnection(r, u, c, s) PROVE SlotKept'
  <2>0. PICK to \in Place, left \in Place : Moved(c, to, left)
    BY <1>6, MovePlaces
  <2>2. crowded \subseteq crowded'
    BY <2>0 DEF Moved
  <2>4. ASSUME NEW p \in wanted', p \notin crowded', p \notin dropped'
        PROVE  InSlot(p[1], p[2])' # {} \/ Filling(p)' # {}
    BY <1>0, <2>0, <2>2, <2>4 DEF SlotKept, Moved
  <2> QED BY <2>4 DEF SlotKept
<1> QED BY <1>1, <1>2, <1>4, <1>5, <1>6, <1>7, <1>8, QuietSteps DEF Placing

(* A connection the user has made is there until the user gives it up, or  *)
(* another account's request deletes or moves it, which nothing forbids: a *)
(* handler that is replacing it holds the slot, and loses it only by       *)
(* failing, or dying with the service, between the removal, which is       *)
(* committed, and the insertion.  (oauth_callback and its two              *)
(* transactions, delete_connection, update_connection.)                    *)
THEOREM WantedConnectionsStay == Spec => []SlotKept
<1>1. Init => SlotKept
  BY DEF Init, ConnectionsInit, SlotKept, InSlot, Rows
<1> QED BY <1>1, InitBase, NextBase, NextKept, PTL DEF Spec

------------------------------------------------------------------------------
(* The cache. *)

Explained(u) ==
  \E r \in Req : con[r].user = u /\ (at[r] = "invalidate" \/ (at[r] = "insert" /\ OwnRequest(r)))
StaleAt(u) == u \in drift \/ cache[u] \in {{}, {Tools(u)}} \/ Explained(u)

(* The rows of u are as they were, the tokens and the personas apart. *)
OwnRows(u) ==
  \A c \in Id : /\ conn'[c].user = u <=> conn[c].user = u
                /\ conn[c].user = u => Kind[conn'[c].slot] = Kind[conn[c].slot] /\ conn'[c].status = conn[c].status

LEMMA ToolsKept ==
  ASSUME NEW u \in Uid, OwnRows(u)
  PROVE  Tools(u)' = Tools(u)
<1> DEFINE own == {d \in Id : conn[d].user = u}
           next == {d \in Id : conn'[d].user = u}
<1>1. next = own
  BY DEF OwnRows
<1>2. \A c \in own : Kind[conn'[c].slot] = Kind[conn[c].slot] /\ conn'[c].status = conn[c].status
  BY DEF OwnRows
<1> HIDE DEF own, next
<1>3. {d \in next : Kind[conn'[d].slot] # "mcp"} = {d \in own : Kind[conn[d].slot] # "mcp"}
  BY <1>1, <1>2
<1>4. {d \in next : Kind[conn'[d].slot] = "mcp" /\ conn'[d].status = "connected"}
        = {d \in own : Kind[conn[d].slot] = "mcp" /\ conn[d].status = "connected"}
  BY <1>1, <1>2
<1> DEFINE M == {d \in own : Kind[conn[d].slot] # "mcp"}
<1>5. {<<Kind[conn'[c].slot], None>> : c \in M} = {<<Kind[conn[c].slot], None>> : c \in M}
  BY <1>2
<1> QED BY <1>3, <1>4, <1>5 DEF Tools, ToolsIn, own, next

LEMMA StaleSame ==
  ASSUME NEW u \in Uid, StaleAt(u), cache'[u] = cache[u], OwnRows(u) \/ Tools(u)' = Tools(u),
         u \in drift => u \in drift', Explained(u) => Explained(u)'
  PROVE  StaleAt(u)'
BY ToolsKept DEF StaleAt

LEMMA StaleHandler ==
  ASSUME Base, NEW r \in Req, ConnectionStep(r), NEW u \in Uid, StaleAt(u), cache'[u] = cache[u],
         OwnRows(u) \/ Tools(u)' = Tools(u), u \in drift => u \in drift',
         at[r] \notin {"insert", "invalidate"} \/ con[r].user # u \/ (at[r] = "insert" /\ ~ OwnRequest(r))
  PROVE  StaleAt(u)'
<1>1. \A q \in Req : q # r => at'[q] = at[q] /\ con'[q] = con[q]
  BY StepShape
<1>2. Explained(u) => Explained(u)'
  BY <1>1 DEF Explained, OwnRequest
<1> QED BY <1>2, StaleSame

(* Nobody will clear the cache of v for it: then its tools are the same,   *)
(* or drift tells.                                                         *)
LEMMA Drifts ==
  ASSUME NEW v \in Uid, Unannounced(v)
  PROVE  drift \subseteq drift' /\ (v \in drift' \/ Tools(v)' = Tools(v))
BY DEF Unannounced, Tools

LEMMA StaleDashboard ==
  ASSUME Base, NEW r \in Req, ByDashboard(r), NEW u \in Uid, StaleAt(u)
  PROVE  StaleAt(u)'
<1>0. at \in [Req -> Waiting \cup {"idle", "done"}] /\ con \in [Req -> Con] /\ conn \in [Id -> {NoConn} \cup Conn]
  BY DEF Base, Typed, RequestsTypeOK, LocalTypes, RowTypes
<1>1. ConnectionStep(r)
  BY DEF ConnectionStep
<1>2. UNCHANGED cache /\ at[r] = "idle"
  BY DEF ByDashboard, Initiate, Connect, DeleteConnection, MoveConnection, Begin
<1>3. CASE UNCHANGED <<conn, drift>>
  <2>1. OwnRows(u)
    BY <1>3 DEF OwnRows
  <2> QED BY <1>1, <1>2, <1>3, <2>1, StaleHandler
<1>4. ASSUME NEW v \in Uid, NEW c \in Id, DeleteConnection(r, v, c) PROVE StaleAt(u)'
  <2>0. conn[c].user \in Uid /\ (v # conn[c].user => Unannounced(conn[c].user))
        /\ (v = conn[c].user => UNCHANGED drift) /\ conn' = [conn EXCEPT ![c] = NoConn]
    BY <1>0, <1>4 DEF DeleteConnection, Conn
  <2>1. CASE conn[c].user = u /\ v = u
    <3>1. at'[r] = "invalidate" /\ con'[r].user = u
      BY <1>0, <1>4, <2>1 DEF DeleteConnection, Begin, Goto, Con
    <3> QED BY <3>1 DEF Explained, StaleAt, OwnRequest
  <2>2. CASE conn[c].user = u /\ v # u
    BY <1>1, <1>2, <2>0, <2>2, Drifts, StaleHandler DEF StaleAt
  <2>3. CASE conn[c].user # u
    <3>1. OwnRows(u)
      BY <1>0, <2>0, <2>3, NoValues DEF OwnRows
    <3>2. drift \subseteq drift'
      BY <2>0, Drifts
    <3> QED BY <1>1, <1>2, <3>1, <3>2, StaleHandler
  <2> QED BY <2>1, <2>2, <2>3
<1>5. ASSUME NEW v \in Uid, NEW c \in Id, NEW s \in Slot, MoveConnection(r, v, c, s) PROVE StaleAt(u)'
  <2>1. OwnRows(u) /\ UNCHANGED drift
    BY <1>0, <1>5 DEF MoveConnection, OwnRows, Conn
  <2> QED BY <1>1, <1>2, <2>1, StaleHandler
<1>6. \/ UNCHANGED <<conn, drift>>
      \/ \E v \in Uid, c \in Id : DeleteConnection(r, v, c) \/ \E s \in Slot : MoveConnection(r, v, c, s)
  BY DEF ByDashboard, Initiate, Connect, connectionHistory
<1> QED BY <1>3, <1>4, <1>5, <1>6

LEMMA StaleService ==
  ASSUME Base, NEW r \in Req, ByService(r), NEW u \in Uid, StaleAt(u)
  PROVE  StaleAt(u)'
<1>0. at \in [Req -> Waiting \cup {"idle", "done"}] /\ con \in [Req -> Con] /\ conn \in [Id -> {NoConn} \cup Conn]
  BY DEF Base, Typed, RequestsTypeOK, LocalTypes, RowTypes
<1>1. ConnectionStep(r) /\ UNCHANGED cache
  BY DEF ConnectionStep, ByService
<1>3. ASSUME UNCHANGED conn PROVE OwnRows(u)
  BY <1>3 DEF OwnRows
<1>4. CASE (\E a \in Req, v \in Uid \cup {None} : Callback(r, a, v)) \/ Exchange(r) \/ Discover(r)
  <2>1. at[r] \notin {"insert", "invalidate"} /\ UNCHANGED <<conn, drift>>
    BY <1>4 DEF Callback, Exchange, Discover, Begin, Resume, Finish, connectionHistory
  <2> QED BY <1>1, <1>3, <2>1, StaleHandler
<1>5. CASE ProxyGivesUp(r)
  <2>1. UNCHANGED <<at, conn>> /\ con' = [con EXCEPT ![r].caller = None] /\ drift \subseteq drift'
    BY <1>5 DEF ProxyGivesUp
  <2>2. /\ \A q \in Req : con'[q].user = con[q].user
        /\ \A q \in Req : q # r => con'[q] = con[q]
    BY <1>0, <2>1 DEF Con
  <2>3. CASE at[r] = "insert" /\ OwnRequest(r) /\ con[r].user = u
    BY <1>5, <2>3 DEF ProxyGivesUp, StaleAt
  <2>4. CASE ~ (at[r] = "insert" /\ OwnRequest(r) /\ con[r].user = u)
    <3>1. ASSUME NEW q \in Req, con[q].user = u, at[q] = "invalidate" \/ (at[q] = "insert" /\ OwnRequest(q))
          PROVE  Explained(u)'
      <4>1. con'[q].user = u /\ at'[q] = at[q]
        BY <2>1, <2>2, <3>1
      <4>2. at[q] = "insert" => con'[q].caller = con'[q].user
        BY <2>2, <2>4, <3>1 DEF OwnRequest
      <4> QED BY <3>1, <4>1, <4>2 DEF Explained, OwnRequest
    <3>2. Explained(u) => Explained(u)'
      BY <3>1 DEF Explained
    <3> QED BY <1>1, <1>3, <2>1, <3>2, StaleSame
  <2> QED BY <2>3, <2>4
<1>6. CASE Replace(r)
  <2>0. at[r] = "replace" /\ UNCHANGED con /\ \A c \in Id : conn'[c] = conn[c] \/ c \in Rows(con[r].user)
    BY <1>0, <1>6 DEF Replace, InSlot
  <2>1. con[r].user \in Uid
    BY <2>0 DEF Base, PhaseInv, Phase, Making, ConnectionWaits
  <2>2. CASE UNCHANGED <<conn, drift>>
    BY <1>1, <1>3, <2>0, <2>2, StaleHandler
  <2>3. CASE at'[r] = "insert" /\ OwnRequest(r) /\ UNCHANGED drift
    <3>1. CASE con[r].user = u
      BY <2>0, <2>3, <3>1 DEF StaleAt, Explained, OwnRequest
    <3>2. CASE con[r].user # u
      <4>1. \A c \in Id : conn[c].user = u => conn'[c] = conn[c]
        BY <2>0, <3>2 DEF Rows
      <4>2. \A c \in Id : conn'[c] = conn[c] \/ conn'[c] = NoConn
        BY <1>0, <1>6 DEF Replace
      <4>3. OwnRows(u)
        BY <4>1, <4>2, NoValues DEF OwnRows
      <4> QED BY <1>1, <2>0, <2>3, <4>3, StaleHandler
    <3> QED BY <3>1, <3>2
  <2>4. CASE Unannounced(con[r].user)
    <3>0. drift \subseteq drift' /\ (con[r].user \in drift' \/ Tools(con[r].user)' = Tools(con[r].user))
      <4> DEFINE v == con[r].user
      <4>1. v \in Uid /\ Unannounced(v)
        BY <2>1, <2>4
      <4>2. drift \subseteq drift' /\ (v \in drift' \/ ToolsIn(conn', v) = ToolsIn(conn, v))
        BY <4>1 DEF Unannounced, Tools
      <4> QED BY <2>0, <4>2 DEF Tools
    <3>1. CASE con[r].user = u
      BY <1>1, <2>0, <3>0, <3>1, StaleHandler DEF StaleAt
    <3>2. CASE con[r].user # u
      <4>1. \A c \in Id : conn[c].user = u => conn'[c] = conn[c]
        BY <2>0, <3>2 DEF Rows
      <4>2. \A c \in Id : conn'[c] = conn[c] \/ conn'[c] = NoConn
        BY <1>0, <1>6 DEF Replace
      <4>3. OwnRows(u)
        BY <4>1, <4>2, NoValues DEF OwnRows
      <4> QED BY <1>1, <2>0, <3>0, <4>3, StaleHandler
    <3> QED BY <3>1, <3>2
  <2>5. UNCHANGED <<conn, drift>> \/ Unannounced(con[r].user)
        \/ (at'[r] = "insert" /\ OwnRequest(r) /\ UNCHANGED drift)
    BY <1>0, <1>6 DEF Replace, Resume, Finish, Goto
  <2> QED BY <2>2, <2>3, <2>4, <2>5
<1>7. CASE InsertConnection(r) \/ InsertFails(r)
  <2>0. at[r] = "insert" /\ con[r].user \in Uid /\ conn[r] = NoConn
    BY <1>7, NotYet DEF InsertConnection, InsertFails, Finish, Resume, Base, PhaseInv, Phase, ConnectionWaits
  <2>1. \A c \in Id : conn'[c] = conn[c] \/ (c = r /\ conn'[r].user = con[r].user)
    BY <1>0, <1>7 DEF InsertConnection, InsertFails, NewRow
  <2>2. ~ OwnRequest(r) => Unannounced(con[r].user)
    BY <1>7 DEF InsertConnection, InsertFails
  <2>3. OwnRequest(r) => drift \subseteq drift' /\ (con[r].user \in drift' \/ (at'[r] = "invalidate" /\ con'[r].user = con[r].user))
    <3>1. ASSUME OwnRequest(r), InsertFails(r) PROVE drift \subseteq drift' /\ con[r].user \in drift'
      BY <3>1 DEF InsertFails
    <3>2. ASSUME OwnRequest(r), InsertConnection(r)
          PROVE  UNCHANGED drift /\ at'[r] = "invalidate" /\ con'[r].user = con[r].user
      <4>1. con[r].caller = con[r].user /\ con[r].caller # None
        BY <2>0, <3>2 DEF OwnRequest
      <4>2. Resume(r, "insert", "invalidate") /\ con' = [con EXCEPT ![r].user = con[r].caller] /\ UNCHANGED drift
        BY <3>2, <4>1 DEF InsertConnection, Answered
      <4> QED BY <1>0, <4>1, <4>2 DEF Resume, Goto, Con
    <3> QED BY <1>7, <3>1, <3>2
  <2>4. drift \subseteq drift'
    BY <2>2, <2>3 DEF Unannounced
  <2>5. CASE con[r].user = u /\ OwnRequest(r)
    BY <2>3, <2>5 DEF StaleAt, Explained, OwnRequest
  <2>6. CASE con[r].user = u /\ ~ OwnRequest(r)
    <3>1. Unannounced(u)
      BY <2>2, <2>6
    <3> QED BY <1>1, <2>0, <2>6, <3>1, Drifts, StaleHandler DEF StaleAt
  <2>7. CASE con[r].user # u
    <3>1. OwnRows(u)
      BY <2>0, <2>1, <2>7, NoValues DEF OwnRows
    <3> QED BY <1>1, <2>4, <2>7, <3>1, StaleHandler
  <2> QED BY <2>5, <2>6, <2>7
<1> QED BY <1>4, <1>5, <1>6, <1>7 DEF ByService

LEMMA StaleWorker ==
  ASSUME Base, NEW r \in Req, ByWorker(r), NEW u \in Uid, StaleAt(u)
  PROVE  StaleAt(u)'
<1>0. at \in [Req -> Waiting \cup {"idle", "done"}] /\ con \in [Req -> Con] /\ conn \in [Id -> {NoConn} \cup Conn]
      /\ drift \subseteq Uid
  BY DEF Base, Typed, RequestsTypeOK, LocalTypes, RowTypes, HistoryTypes
<1>1. ConnectionStep(r)
  BY DEF ConnectionStep
<1>2. ASSUME UNCHANGED conn PROVE OwnRows(u) /\ Tools(u)' = Tools(u)
  BY <1>2, ToolsKept DEF OwnRows
<1>3. CASE \/ (\E v \in Uid : GetCapabilities(r, v)) \/ FetchCapabilities(r) \/ CallTool(r)
           \/ AcquireLock(r) \/ AskProvider(r)
  <2>1. at[r] \notin {"insert", "invalidate"} /\ UNCHANGED <<conn, cache, drift>>
    BY <1>3 DEF GetCapabilities, FetchCapabilities, CallTool, AcquireLock, AskProvider, Begin, Resume, Finish
  <2> QED BY <1>1, <1>2, <2>1, StaleHandler
<1>4. CASE StoreToken(r)
  <2>1. at[r] \notin {"insert", "invalidate"} /\ UNCHANGED <<cache, drift>>
    BY <1>4 DEF StoreToken, Resume, Finish
  <2>2. OwnRows(u)
    BY <1>0, <1>4 DEF StoreToken, OwnRows, Conn
  <2> QED BY <1>1, <2>1, <2>2, StaleHandler
<1>5. CASE NeedsReauth(r)
  <2> DEFINE c == con[r].ref
  <2>1. at[r] = "refused" /\ UNCHANGED cache /\ drift \subseteq drift'
    BY <1>5 DEF NeedsReauth, Resume, Finish, Unannounced
  <2>2. c \in Id /\ (conn[c] # NoConn => conn[c].user = con[r].user)
    BY <2>1 DEF Base, PhaseInv, Phase, RenewInv, Renews, Renewing
  <2>3. OwnRows(u) \/ Tools(u)' = Tools(u) \/ u \in drift'
    <3>1. CASE conn[c] = NoConn
      BY <1>2, <1>5, <3>1 DEF NeedsReauth
    <3>2. CASE conn[c] # NoConn /\ con[r].user = u
      BY <1>5, <3>2, Drifts DEF NeedsReauth
    <3>3. CASE conn[c] # NoConn /\ con[r].user # u
      BY <1>0, <1>5, <2>2, <3>3 DEF NeedsReauth, OwnRows, Conn
    <3> QED BY <3>1, <3>2, <3>3
  <2> QED BY <1>1, <2>1, <2>3, StaleHandler DEF StaleAt
<1>6. CASE FillCache(r)
  <2>1. at[r] = "fill" /\ UNCHANGED <<conn, con>> /\ cache \in [Uid -> SUBSET View]
    BY <1>6 DEF FillCache, Resume, Base, Typed, CacheTypes
  <2>2. CASE con[r].user = u
    <3>1. cache'[u] = {con[r].saw} /\ (u \in drift' \/ con[r].saw = Tools(u))
      BY <1>6, <2>1, <2>2 DEF FillCache
    <3>2. Tools(u)' = Tools(u)
      BY <1>2, <2>1
    <3> QED BY <3>1, <3>2 DEF StaleAt
  <2>3. CASE con[r].user # u
    <3>1. cache'[u] = cache[u] /\ (u \in drift => u \in drift')
      BY <1>6, <2>1, <2>3 DEF FillCache
    <3> QED BY <1>1, <1>2, <2>1, <3>1, StaleHandler
  <2> QED BY <2>2, <2>3
<1>7. CASE Invalidate(r)
  <2>1. UNCHANGED conn /\ cache \in [Uid -> SUBSET View]
    BY <1>7 DEF Invalidate, Base, Typed, CacheTypes
  <2>2. CASE con[r].user = u
    BY <1>7, <2>1, <2>2 DEF Invalidate, StaleAt
  <2>3. CASE con[r].user # u
    <3>1. cache'[u] = cache[u] /\ (u \in drift => u \in drift')
      BY <1>7, <2>1, <2>3 DEF Invalidate
    <3> QED BY <1>1, <1>2, <2>1, <2>3, <3>1, StaleHandler
  <2> QED BY <2>2, <2>3
<1> QED BY <1>3, <1>4, <1>5, <1>6, <1>7 DEF ByWorker

LEMMA NextStale == Base /\ StaleIsExplained /\ [Next]_vars => StaleIsExplained'
<1> SUFFICES ASSUME Base, StaleIsExplained, [Next]_vars, NEW u \in Uid PROVE StaleAt(u)'
  BY DEF StaleIsExplained, StaleAt, Explained
<1>0. conn \in [Id -> {NoConn} \cup Conn] /\ at \in [Req -> Waiting \cup {"idle", "done"}] /\ StaleAt(u)
  BY DEF Base, Typed, RowTypes, RequestsTypeOK, StaleIsExplained, StaleAt, Explained, OwnRequest
<1>1. ASSUME UNCHANGED conn PROVE OwnRows(u) /\ Tools(u)' = Tools(u)
  BY <1>1, ToolsKept DEF OwnRows
<1>2. CASE AccountsNext /\ UNCHANGED integrationVars
  <2>1. StaysIn(ConnectionWaits)
    BY <1>2, AccountsFrame
  <2>2. Explained(u) => Explained(u)'
    BY <1>2, <2>1 DEF Explained, OwnRequest, StaysIn, ConnectionWaits
  <2> QED BY <1>0, <1>1, <1>2, <2>2, StaleSame
<1>3. CASE UNCHANGED vars
  <2>1. Explained(u) => Explained(u)'
    BY <1>3 DEF vars, integrationVars, connectionVars, Explained, OwnRequest
  <2> QED BY <1>0, <1>1, <1>3, <2>1, StaleSame DEF vars
<1>4. ASSUME ServiceDies, UNCHANGED cache PROVE StaleAt(u)'
  <2>1. UNCHANGED <<conn, con>> /\ drift \subseteq drift'
    BY <1>4 DEF ServiceDies
  <2>2. ASSUME NEW q \in Req, con[q].user = u, at[q] = "invalidate" \/ (at[q] = "insert" /\ OwnRequest(q))
        PROVE  u \in drift' \/ Explained(u)'
    <3>1. CASE at[q] = "insert"
      BY <1>4, <2>2, <3>1 DEF ServiceDies
    <3>2. CASE at[q] = "invalidate"
      <4>1. at'[q] = "invalidate" /\ con'[q].user = u
        BY <1>0, <1>4, <2>1, <2>2, <3>2 DEF ServiceDies, InService
      <4> QED BY <4>1 DEF Explained, OwnRequest
    <3> QED BY <2>2, <3>1, <3>2
  <2>3. CASE Explained(u)
    BY <2>2, <2>3 DEF Explained, StaleAt
  <2>4. CASE ~ Explained(u)
    BY <1>0, <1>1, <1>4, <2>1, <2>4, StaleSame
  <2> QED BY <2>3, <2>4
<1>5. ASSUME NEW c \in Id, TokenExpires(c) \/ Revoke(c), UNCHANGED cache PROVE StaleAt(u)'
  <2>1. UNCHANGED <<at, con, drift>>
    BY <1>5 DEF TokenExpires, Revoke
  <2>2. OwnRows(u)
    <3>1. CASE TokenExpires(c)
      <4>1. conn[c] \in Conn /\ conn' = [conn EXCEPT ![c].fresh = FALSE]
        BY <1>0, <3>1, NoValues DEF TokenExpires, NoConn
      <4> QED BY <1>0, <4>1 DEF OwnRows, Conn
    <3>2. CASE Revoke(c)
      BY <1>1, <3>2 DEF Revoke
    <3> QED BY <1>5, <3>1, <3>2
  <2>3. Explained(u) => Explained(u)'
    BY <2>1 DEF Explained, OwnRequest
  <2> QED BY <1>0, <1>5, <2>1, <2>2, <2>3, StaleSame
<1>6. ASSUME NEW v \in Uid, CacheExpires(v) PROVE StaleAt(u)'
  <2>1. UNCHANGED <<conn, at, con>> /\ cache' = [cache EXCEPT ![v] = {}] /\ drift' = drift \ {v}
        /\ cache \in [Uid -> SUBSET View]
    BY <1>6 DEF CacheExpires, Base, Typed, CacheTypes
  <2>2. CASE u = v
    BY <2>1, <2>2 DEF StaleAt
  <2>3. CASE u # v
    <3>1. Explained(u) => Explained(u)'
      BY <2>1 DEF Explained, OwnRequest
    <3> QED BY <1>0, <1>1, <2>1, <2>3, <3>1, StaleSame
  <2> QED BY <2>2, <2>3
<1>7. ASSUME Environment PROVE StaleAt(u)'
  BY <1>4, <1>5, <1>6, <1>7 DEF Environment
<1>8. ASSUME NEW r \in Req, ConnectionStep(r) PROVE StaleAt(u)'
  BY <1>0, <1>8, StaleDashboard, StaleService, StaleWorker DEF ConnectionStep
<1> QED BY <1>2, <1>3, <1>7, <1>8, NextHalves DEF ConnectionsNext

(* A wrong answer in the cache has one of the known reasons, whoever       *)
(* connects, deletes, fetches and clears at the same time, and wherever    *)
(* the service fails or dies: a request of that user is about to clear it, *)
(* or holds the slot; or the change was one that the routes clear nobody's *)
(* or another caller's cache for, or whose clearing failed; or the answer  *)
(* was a guess, or overtaken.  (get_capabilities, invalidate_capabilities, *)
(* the dashboard's routes and the callbacks.)                              *)
THEOREM StaleAnswersAreExplained == Spec => []StaleIsExplained
<1>1. Init => StaleIsExplained
  BY DEF Init, CapabilitiesInit, StaleIsExplained
<1> QED BY <1>1, InitBase, NextBase, NextStale, PTL DEF Spec

------------------------------------------------------------------------------
(* Renewed tokens. *)

Google(r) == Kind[con[r].slot] = "google"

(* With nothing to excuse it, nobody is refused over c: whoever renews c   *)
(* holds the token the provider takes, alone or with others whose token    *)
(* lasts, and the row has it, unless somebody is about to store it.        *)
Clean(c) ==
  /\ conn[c].status # "needs_reauth"
  /\ conn[c] # NoConn /\ ~ conn[c].fresh => conn[c].held # 0
  /\ \A q \in Refreshing(c) : at[q] # "refused" /\ con[q].gen = grant[c]
  /\ \A q, r \in Refreshing(c) : q = r \/ (Google(q) /\ Google(r))
  /\ conn[c].held = 0 \/ conn[c].held = grant[c]
     \/ \E q \in Refreshing(c) : at[q] = "refreshed" /\ ~ Google(q)

Lockers == \A r \in Req : at[r] = "lock" => Kind[con[r].slot] = "slack"

ReauthInv == Lockers /\ \A c \in Id \ excused : Clean(c)

(* The row of c goes, or stays but for its place. *)
RowSame(c) ==
  \/ conn'[c] = NoConn
  \/ /\ conn[c] # NoConn /\ conn'[c].status = conn[c].status
     /\ conn'[c].held = conn[c].held /\ conn'[c].fresh = conn[c].fresh

Elsewhere(q, c) == q \notin Refreshing(c) /\ q \notin Refreshing(c)'

LEMMA CleanSame ==
  ASSUME NEW c \in Id, Clean(c), RowSame(c), grant'[c] = grant[c],
         \A q \in Req : (at'[q] = at[q] /\ con'[q] = con[q]) \/ Elsewhere(q, c)
  PROVE  Clean(c)'
<1>1. Refreshing(c)' = Refreshing(c)
  BY DEF Elsewhere, Refreshing
<1>2. \A q \in Refreshing(c) : at'[q] = at[q] /\ con'[q] = con[q] /\ q \in Req
  BY DEF Elsewhere, Refreshing
<1>3. NoConn.status = "none" /\ NoConn.held = 0
  BY DEF NoConn
<1>4. conn'[c].held = 0 \/ conn'[c].held = conn[c].held
  BY <1>3 DEF RowSame
<1>5. /\ conn'[c].status # "needs_reauth"
      /\ conn'[c] # NoConn /\ ~ conn'[c].fresh => conn'[c].held # 0
  BY <1>3 DEF RowSame, Clean
<1>6. /\ \A q \in Refreshing(c) : at'[q] # "refused" /\ con'[q].gen = grant'[c]
      /\ \A q, r \in Refreshing(c) : q = r \/ (Google(q)' /\ Google(r)')
  BY <1>2 DEF Clean, Google
<1>7. conn'[c].held = 0 \/ conn'[c].held = grant'[c]
      \/ \E q \in Refreshing(c) : at'[q] = "refreshed" /\ ~ Google(q)'
  BY <1>2, <1>4 DEF Clean, Google
<1> QED BY <1>1, <1>5, <1>6, <1>7 DEF Clean

LEMMA CleanHandler ==
  ASSUME Base, NEW r \in Req, ConnectionStep(r), NEW c \in Id, Clean(c), RowSame(c), grant'[c] = grant[c],
         Elsewhere(r, c)
  PROVE  Clean(c)'
BY StepShape, CleanSame

LEMMA LockersKept ==
  ASSUME Base, Lockers, NEW r \in Req, ConnectionStep(r), at'[r] # "lock"
  PROVE  Lockers'
BY StepShape DEF Lockers

LEMMA CleanDashboard ==
  ASSUME Base, ReauthInv, NEW r \in Req, ByDashboard(r)
  PROVE  ReauthInv'
<1>0. at \in [Req -> Waiting \cup {"idle", "done"}] /\ con \in [Req -> Con] /\ conn \in [Id -> {NoConn} \cup Conn]
  BY DEF Base, Typed, RequestsTypeOK, LocalTypes, RowTypes
<1>1. ConnectionStep(r)
  BY DEF ConnectionStep
<1>2. at[r] = "idle" /\ at'[r] \in {"done", "invalidate", "discover"} /\ UNCHANGED <<excused, grant>>
  BY <1>0 DEF ByDashboard, Initiate, Connect, DeleteConnection, MoveConnection, Begin, Goto
<1>3. ASSUME NEW c \in Id PROVE RowSame(c)
  <2>1. CASE UNCHANGED conn
    BY <2>1 DEF RowSame
  <2>2. ASSUME NEW u \in Uid, NEW d \in Id, DeleteConnection(r, u, d) PROVE RowSame(c)
    BY <1>0, <2>2 DEF DeleteConnection, RowSame
  <2>3. ASSUME NEW u \in Uid, NEW d \in Id, NEW s \in Slot, MoveConnection(r, u, d, s) PROVE RowSame(c)
    <3>1. conn[d] \in Conn /\ conn' = [conn EXCEPT ![d].slot = s]
      BY <1>0, <2>3 DEF MoveConnection
    <3> QED BY <1>0, <3>1, NoValues DEF RowSame, Conn
  <2> QED BY <2>1, <2>2, <2>3 DEF ByDashboard, Initiate, Connect
<1>4. \A c \in Id : Elsewhere(r, c)
  BY <1>2 DEF Elsewhere, Refreshing
<1> QED BY <1>1, <1>2, <1>3, <1>4, CleanHandler, LockersKept DEF ReauthInv

LEMMA CleanService ==
  ASSUME Base, ReauthInv, NEW r \in Req, ByService(r)
  PROVE  ReauthInv'
<1>0. at \in [Req -> Waiting \cup {"idle", "done"}] /\ con \in [Req -> Con] /\ conn \in [Id -> {NoConn} \cup Conn]
      /\ grant \in [Id -> Nat]
  BY DEF Base, Typed, RequestsTypeOK, LocalTypes, RowTypes
<1>1. ConnectionStep(r)
  BY DEF ConnectionStep
<1>2. at[r] \in Making \cup {"idle"} /\ at'[r] \in Making \cup {"done", "invalidate"} /\ UNCHANGED excused
  BY <1>0 DEF ByService, Callback, Exchange, Discover, Replace, InsertConnection, InsertFails, ProxyGivesUp, Answered,
              Begin, Resume, Finish, Goto, Making
<1>3. \A c \in Id : Elsewhere(r, c)
  BY <1>2 DEF Elsewhere, Refreshing, Making
<1>4. Lockers'
  BY <1>1, <1>2, LockersKept DEF ReauthInv, Making
<1>5. ASSUME NEW c \in Id, UNCHANGED <<conn, grant>> \/ Replace(r) PROVE RowSame(c) /\ grant'[c] = grant[c]
  BY <1>0, <1>5 DEF Replace, RowSame
<1>6. ASSUME NEW c \in Id, InsertConnection(r) \/ InsertFails(r), c # r PROVE RowSame(c) /\ grant'[c] = grant[c]
  BY <1>0, <1>6 DEF InsertConnection, InsertFails, RowSame
<1>7. ASSUME InsertConnection(r) \/ (InsertFails(r) /\ conn' = [conn EXCEPT ![r] = NewRow(r, 0)]) PROVE Clean(r)'
  <2>1. conn'[r].status = "connected" /\ conn'[r].fresh /\ (conn'[r].held = 0 \/ conn'[r].held = grant'[r])
    <3>1. CASE InsertConnection(r)
      BY <1>0, <3>1 DEF InsertConnection, NewRow
    <3>2. CASE conn' = [conn EXCEPT ![r] = NewRow(r, 0)]
      BY <1>0, <3>2 DEF NewRow
    <3> QED BY <1>7, <3>1, <3>2
  <2>2. at[r] = "insert"
    BY <1>7 DEF InsertConnection, InsertFails, Finish, Resume
  <2>3. ASSUME NEW q \in Req PROVE q \notin Refreshing(r)'
    <3>1. CASE q = r
      BY <1>3, <3>1 DEF Elsewhere
    <3>2. CASE q # r
      <4>1. at'[q] = at[q] /\ con'[q] = con[q]
        BY <1>1, <3>2, StepShape
      <4>2. at[q] \in Renewing => con[q].ref # r
        BY <2>2 DEF Base, RenewInv, Renews
      <4> QED BY <4>1, <4>2 DEF Refreshing, Renewing
    <3> QED BY <3>1, <3>2
  <2>4. Refreshing(r)' = {}
    BY <2>3 DEF Refreshing
  <2> QED BY <2>1, <2>4 DEF Clean
<1>8. \/ UNCHANGED <<conn, grant>> \/ Replace(r) \/ InsertConnection(r)
      \/ (InsertFails(r) /\ conn' = [conn EXCEPT ![r] = NewRow(r, 0)])
  BY DEF ByService, Callback, Exchange, Discover, InsertFails, ProxyGivesUp
<1>9. ASSUME NEW c \in Id, c \notin excused PROVE Clean(c)'
  <2>1. Clean(c)
    BY <1>9 DEF ReauthInv
  <2>2. CASE (InsertConnection(r) \/ (InsertFails(r) /\ conn' = [conn EXCEPT ![r] = NewRow(r, 0)])) /\ c = r
    BY <1>7, <2>2
  <2>3. CASE RowSame(c) /\ grant'[c] = grant[c]
    BY <1>1, <1>3, <2>1, <2>3, CleanHandler
  <2> QED BY <1>5, <1>6, <1>8, <2>2, <2>3
<1> QED BY <1>2, <1>4, <1>9 DEF ReauthInv

(* The kinds of those who renew one connection agree. *)
LEMMA OneKind ==
  ASSUME Base, NEW c \in Id, conn[c] # NoConn, NEW q \in Refreshing(c)
  PROVE  Kind[con[q].slot] = Kind[conn[c].slot]
BY DEF Base, RenewInv, Renews, Renewing, Refreshing

LEMMA CleanCall ==
  ASSUME Base, ReauthInv, NEW r \in Req, CallTool(r)
  PROVE  ReauthInv'
<1>0. at \in [Req -> Waiting \cup {"idle", "done"}] /\ con \in [Req -> Con] /\ conn \in [Id -> {NoConn} \cup Conn]
  BY DEF Base, Typed, RequestsTypeOK, LocalTypes, RowTypes
<1>1. ConnectionStep(r) /\ at[r] = "call" /\ UNCHANGED <<conn, grant>>
  BY DEF ConnectionStep, ByWorker, CallTool
<1>2. \A c \in Id : RowSame(c) /\ grant'[c] = grant[c] /\ r \notin Refreshing(c)
  BY <1>1 DEF RowSame, Refreshing
<1>3. CASE Finish(r, "call") /\ UNCHANGED <<con, excused>>
  <2>1. at'[r] = "done"
    BY <1>0, <1>3 DEF Finish, Resume, Goto
  <2>2. \A c \in Id : Elsewhere(r, c)
    BY <1>2, <2>1 DEF Elsewhere, Refreshing
  <2>3. Lockers'
    BY <1>1, <2>1, LockersKept DEF ReauthInv
  <2> QED BY <1>1, <1>2, <1>3, <2>2, <2>3, CleanHandler DEF ReauthInv
<1>4. ASSUME NEW c \in Id, conn[c] # NoConn, Begins(r, c), Overlap(c) PROVE ReauthInv'
  <2> DEFINE row == conn[c]
             e == [con[r] EXCEPT !.ref = c, !.slot = row.slot, !.gen = row.held]
  <2>0. row \in Conn /\ row.slot \in Slot /\ Kind[row.slot] \in {"google", "slack", "mcp"} /\ LocalTypes
    BY <1>0, <1>4 DEF Conn, LocalTypes
  <2>1. e.ref = c /\ e.slot = row.slot /\ e.gen = row.held
    BY <1>0 DEF Con
  <2>2. con' = [con EXCEPT ![r] = e]
    BY <2>0, <1>4, ConSets DEF Begins
  <2>3. at'[r] = IF row.fresh THEN "done" ELSE IF Kind[row.slot] = "slack" THEN "lock"
                 ELSE IF row.held = 0 THEN "refused" ELSE "refresh"
    BY <1>0, <1>4 DEF Begins, Resume, Goto
  <2> HIDE DEF e
  <2>4. con'[r].ref = c /\ con'[r].slot = row.slot /\ con'[r].gen = row.held
    BY <1>0, <2>1, <2>2
  <2>5. \A q \in Req : q # r => at'[q] = at[q] /\ con'[q] = con[q]
    BY <1>1, StepShape
  <2>6. excused \subseteq excused' /\ excused' \subseteq excused \cup {c}
    BY <1>4 DEF Overlap
  <2>7. Lockers'
    BY <2>3, <2>4, <2>5 DEF ReauthInv, Lockers
  <2>8. ASSUME NEW d \in Id, d \notin excused' PROVE Clean(d)'
    <3>1. Clean(d)
      BY <2>6, <2>8 DEF ReauthInv
    <3>0. d = c => at'[r] # "refused"
      BY <1>4, <2>3, <3>1 DEF Clean
    <3>2. CASE d # c \/ at'[r] # "refresh"
      <4>1. Elsewhere(r, d)
        BY <1>2, <2>3, <2>4, <3>0, <3>2 DEF Elsewhere, Refreshing
      <4> QED BY <1>1, <1>2, <3>1, <4>1, CleanHandler
    <3>3. CASE d = c /\ at'[r] = "refresh"
      <4>0. ~ row.fresh /\ Kind[row.slot] # "slack" /\ row.held # 0
        BY <1>4, <2>3, <3>1, <3>3 DEF Clean
      <4>1. Refreshing(c)' = Refreshing(c) \cup {r}
        BY <2>4, <2>5, <3>3 DEF Refreshing
      <4>2. Google(r)' <=> Kind[row.slot] = "google"
        BY <2>4 DEF Google
      <4>3. \A q \in Refreshing(c) : /\ at'[q] = at[q] /\ con'[q] = con[q] /\ (Google(q)' <=> Google(q))
                                     /\ Google(q) <=> Kind[row.slot] = "google"
        <5>1. \A q \in Refreshing(c) : Google(q) <=> Kind[row.slot] = "google"
          BY <1>4, OneKind DEF Google
        <5>2. \A q \in Refreshing(c) : at'[q] = at[q] /\ con'[q] = con[q]
          BY <1>2, <2>5 DEF Refreshing
        <5> QED BY <5>1, <5>2 DEF Google
      <4>4. Kind[row.slot] = "google" \/ Refreshing(c) = {}
        BY <1>4, <2>0, <2>8, <3>3, <4>0 DEF Overlap
      <4>5. row.held = grant[c]
        BY <3>1, <3>3, <4>0, <4>3, <4>4 DEF Clean
      <4>6. \A q \in Refreshing(c)' : at'[q] # "refused" /\ con'[q].gen = grant'[c]
        BY <1>2, <2>4, <3>1, <3>3, <4>1, <4>3, <4>5 DEF Clean
      <4>7. \A p, q \in Refreshing(c)' : p = q \/ (Google(p)' /\ Google(q)')
        BY <4>1, <4>2, <4>3, <4>4
      <4>8. /\ conn'[c].status # "needs_reauth"
            /\ conn'[c] # NoConn /\ ~ conn'[c].fresh => conn'[c].held # 0
            /\ conn'[c].held = grant'[c]
        BY <1>1, <1>2, <3>1, <3>3, <4>5 DEF Clean
      <4> QED BY <3>3, <4>6, <4>7, <4>8 DEF Clean
    <3> QED BY <3>2, <3>3
  <2> QED BY <2>7, <2>8 DEF ReauthInv
<1> QED BY <1>3, <1>4 DEF CallTool

LEMMA CleanLock ==
  ASSUME Base, ReauthInv, NEW r \in Req, AcquireLock(r)
  PROVE  ReauthInv'
<1> DEFINE c == con[r].ref
<1>0. at \in [Req -> Waiting \cup {"idle", "done"}] /\ con \in [Req -> Con] /\ conn \in [Id -> {NoConn} \cup Conn]
  BY DEF Base, Typed, RequestsTypeOK, LocalTypes, RowTypes
<1>1. ConnectionStep(r) /\ at[r] = "lock" /\ UNCHANGED <<conn, grant, excused>> /\ Holder(c) = {}
  BY DEF ConnectionStep, ByWorker, AcquireLock
<1>2. \A d \in Id : RowSame(d) /\ grant'[d] = grant[d] /\ r \notin Refreshing(d)
  BY <1>1 DEF RowSame, Refreshing
<1>3. at'[r] # "lock" /\ con'[r].ref = c /\ con'[r].slot = con[r].slot
      /\ (at'[r] = "done" \/ (at'[r] = "refresh" /\ conn[c] # NoConn /\ ~ conn[c].fresh /\ con'[r].gen = conn[c].held))
  BY <1>0 DEF AcquireLock, Resume, Finish, Goto, Con
<1>4. Lockers'
  BY <1>1, <1>3, LockersKept DEF ReauthInv
<1>5. Kind[con[r].slot] = "slack" /\ c \in Id
      /\ (conn[c] # NoConn => Kind[conn[c].slot] = "slack")
  BY <1>1 DEF ReauthInv, Lockers, Base, PhaseInv, Phase, RenewInv, Renews, Renewing
<1>6. \A q \in Req : q # r => at'[q] = at[q] /\ con'[q] = con[q]
  BY <1>1, StepShape
<1>7. ASSUME NEW d \in Id, d \notin excused PROVE Clean(d)'
  <2>1. Clean(d)
    BY <1>7 DEF ReauthInv
  <2>2. CASE d # c \/ at'[r] # "refresh"
    <3>1. Elsewhere(r, d)
      BY <1>2, <1>3, <2>2 DEF Elsewhere, Refreshing
    <3> QED BY <1>1, <1>2, <2>1, <3>1, CleanHandler
  <2>3. CASE d = c /\ at'[r] = "refresh"
    <3>1. conn[d] # NoConn /\ ~ conn[d].fresh /\ con'[r].gen = conn[d].held
      BY <1>3, <2>3
    <3>2. Refreshing(d) = {}
      <4>1. \A q \in Refreshing(d) : Kind[con[q].slot] = "slack"
        BY <1>5, <2>3, <3>1, OneKind
      <4> QED BY <1>1, <2>3, <4>1 DEF Holder
    <3>3. Refreshing(d)' = {r}
      BY <1>3, <1>6, <2>3, <3>2 DEF Refreshing
    <3>4. conn[d].held = grant[d]
      BY <2>1, <2>3, <3>1, <3>2 DEF Clean
    <3>5. /\ conn'[d].status # "needs_reauth" /\ (conn'[d] # NoConn /\ ~ conn'[d].fresh => conn'[d].held # 0)
          /\ conn'[d].held = grant'[d] /\ con'[r].gen = grant'[d]
      BY <1>1, <2>1, <2>3, <3>1, <3>4 DEF Clean
    <3>6. \A q \in Refreshing(d)' : at'[q] # "refused" /\ con'[q].gen = grant'[d]
      BY <2>3, <3>3, <3>5
    <3>7. \A p, q \in Refreshing(d)' : p = q \/ (Google(p)' /\ Google(q)')
      BY <3>3
    <3> QED BY <3>5, <3>6, <3>7 DEF Clean
  <2> QED BY <2>2, <2>3
<1> QED BY <1>1, <1>4, <1>7 DEF ReauthInv

LEMMA CleanAsk ==
  ASSUME Base, ReauthInv, NEW r \in Req, AskProvider(r)
  PROVE  ReauthInv'
<1>0. at \in [Req -> Waiting \cup {"idle", "done"}] /\ con \in [Req -> Con] /\ conn \in [Id -> {NoConn} \cup Conn]
      /\ grant \in [Id -> Nat]
  BY DEF Base, Typed, RequestsTypeOK, LocalTypes, RowTypes
<1>1. ConnectionStep(r) /\ at[r] = "refresh" /\ UNCHANGED conn /\ excused \subseteq excused'
  BY DEF ConnectionStep, ByWorker, AskProvider
<1>2. PICK c \in Id : con[r].ref = c
  BY <1>1 DEF Base, PhaseInv, Phase, Renewing
<1>3. at'[r] \in {"refreshed", "refused"} /\ con'[r].ref = c /\ con'[r].slot = con[r].slot
  BY <1>0, <1>2 DEF AskProvider, Resume, Goto, Con
<1>4. \A d \in Id : d # c => grant'[d] = grant[d]
  BY <1>0, <1>2 DEF AskProvider
<1>5. Lockers'
  BY <1>1, <1>3, LockersKept DEF ReauthInv
<1>6. \A q \in Req : q # r => at'[q] = at[q] /\ con'[q] = con[q]
  BY <1>1, StepShape
<1>7. Refreshing(c)' = Refreshing(c) /\ r \in Refreshing(c)
  BY <1>1, <1>2, <1>3, <1>6 DEF Refreshing
<1>8. ASSUME NEW d \in Id, d \notin excused', d # c PROVE Clean(d)'
  <2>1. Elsewhere(r, d) /\ RowSame(d) /\ Clean(d)
    BY <1>1, <1>2, <1>3, <1>8 DEF Elsewhere, Refreshing, RowSame, ReauthInv
  <2> QED BY <1>1, <1>4, <1>8, <2>1, CleanHandler
<1>9. ASSUME c \notin excused' PROVE Clean(c)'
  <2>1. Clean(c) /\ con[r].gen = grant[c]
    BY <1>1, <1>7, <1>9 DEF ReauthInv, Clean
  <2>2. con' = [con EXCEPT ![r].gen = NextGrant(r)] /\ grant' = [grant EXCEPT ![c] = NextGrant(r)]
        /\ Resume(r, "refresh", "refreshed")
    BY <1>2, <1>9, <2>1 DEF AskProvider
  <2>3. con'[r].gen = NextGrant(r) /\ grant'[c] = NextGrant(r) /\ at'[r] = "refreshed"
    BY <1>0, <2>2 DEF Resume, Goto, Con
  <2>4. \A q \in Refreshing(c) : q # r => at'[q] = at[q] /\ con'[q] = con[q]
    BY <1>6 DEF Refreshing
  <2>5. \A q \in Refreshing(c) : Google(q)' <=> Google(q)
    BY <1>3, <2>4 DEF Google
  <2>6. Google(r) => NextGrant(r) = grant[c]
    BY <2>1 DEF Google, NextGrant
  <2>7. ~ Google(r) => Refreshing(c) = {r}
    BY <1>7, <2>1 DEF Clean
  <2>8. \A q \in Refreshing(c)' : at'[q] # "refused" /\ con'[q].gen = grant'[c]
    BY <1>7, <2>1, <2>3, <2>4, <2>6, <2>7 DEF Clean
  <2>9. \A p, q \in Refreshing(c)' : p = q \/ (Google(p)' /\ Google(q)')
    BY <1>7, <2>1, <2>5 DEF Clean
  <2>10. conn'[c].held = 0 \/ conn'[c].held = grant'[c]
         \/ \E q \in Refreshing(c)' : at'[q] = "refreshed" /\ ~ Google(q)'
    <3>1. CASE Google(r)
      <4>1. \A q \in Refreshing(c) : Google(q)
        BY <1>7, <2>1, <3>1 DEF Clean
      <4> QED BY <1>1, <2>1, <2>3, <2>6, <3>1, <4>1 DEF Clean
    <3>2. CASE ~ Google(r)
      BY <1>7, <2>3, <2>5, <3>2
    <3> QED BY <3>1, <3>2
  <2>11. conn'[c].status # "needs_reauth" /\ (conn'[c] # NoConn /\ ~ conn'[c].fresh => conn'[c].held # 0)
    BY <1>1, <2>1 DEF Clean
  <2> QED BY <2>8, <2>9, <2>10, <2>11 DEF Clean
<1> QED BY <1>5, <1>8, <1>9 DEF ReauthInv

LEMMA CleanStore ==
  ASSUME Base, ReauthInv, NEW r \in Req, StoreToken(r)
  PROVE  ReauthInv'
<1>0. at \in [Req -> Waiting \cup {"idle", "done"}] /\ con \in [Req -> Con] /\ conn \in [Id -> {NoConn} \cup Conn]
      /\ grant \in [Id -> Nat]
  BY DEF Base, Typed, RequestsTypeOK, LocalTypes, RowTypes
<1>1. ConnectionStep(r) /\ at[r] = "refreshed" /\ at'[r] = "done" /\ UNCHANGED <<con, grant, excused>>
  BY <1>0 DEF ConnectionStep, ByWorker, StoreToken, Finish, Resume, Goto
<1>2. PICK c \in Id : con[r].ref = c
  BY <1>1 DEF Base, PhaseInv, Phase, Renewing
<1>3. \A d \in Id : d # c => conn'[d] = conn[d]
  BY <1>0, <1>2 DEF StoreToken
<1>4. Lockers'
  BY <1>1, LockersKept DEF ReauthInv
<1>5. \A q \in Req : q # r => at'[q] = at[q] /\ con'[q] = con[q]
  BY <1>1, StepShape
<1>6. Refreshing(c)' = Refreshing(c) \ {r} /\ r \in Refreshing(c)
  BY <1>1, <1>2, <1>5 DEF Refreshing
<1>7. ASSUME NEW d \in Id, d \notin excused, d # c PROVE Clean(d)'
  <2>1. Elsewhere(r, d) /\ RowSame(d) /\ Clean(d)
    BY <1>1, <1>2, <1>3, <1>7 DEF Elsewhere, Refreshing, RowSame, ReauthInv
  <2> QED BY <1>1, <1>7, <2>1, CleanHandler
<1>8. ASSUME c \notin excused PROVE Clean(c)'
  <2>1. Clean(c) /\ con[r].gen = grant[c]
    BY <1>6, <1>8 DEF ReauthInv, Clean
  <2>2. \A q \in Refreshing(c)' : at'[q] = at[q] /\ con'[q] = con[q] /\ (Google(q)' <=> Google(q))
    BY <1>1, <1>5, <1>6 DEF Google, Refreshing
  <2>3. \A q \in Refreshing(c)' : at'[q] # "refused" /\ con'[q].gen = grant'[c]
    BY <1>1, <1>6, <2>1, <2>2 DEF Clean
  <2>4. \A p, q \in Refreshing(c)' : p = q \/ (Google(p)' /\ Google(q)')
    BY <1>6, <2>1, <2>2 DEF Clean
  <2>5. conn'[c].status # "needs_reauth" /\ (conn'[c] # NoConn /\ ~ conn'[c].fresh => conn'[c].held # 0)
        /\ (conn'[c].held = 0 \/ conn'[c].held = grant'[c])
    <3>1. CASE conn[c] = NoConn
      BY <1>2, <3>1 DEF StoreToken, NoConn
    <3>2. CASE conn[c] # NoConn
      <4>1. conn[c] \in Conn /\ conn' = [conn EXCEPT ![c].held = con[r].gen, ![c].fresh = TRUE]
        BY <1>0, <1>2, <3>2 DEF StoreToken
      <4>2. conn'[c].held = grant[c] /\ conn'[c].fresh /\ conn'[c].status = conn[c].status
        BY <1>0, <2>1, <4>1 DEF Conn
      <4> QED BY <1>1, <2>1, <4>2 DEF Clean
    <3> QED BY <3>1, <3>2
  <2> QED BY <2>3, <2>4, <2>5 DEF Clean
<1> QED BY <1>1, <1>4, <1>7, <1>8 DEF ReauthInv

LEMMA CleanRefused ==
  ASSUME Base, ReauthInv, NEW r \in Req, NeedsReauth(r)
  PROVE  ReauthInv'
<1>0. at \in [Req -> Waiting \cup {"idle", "done"}] /\ con \in [Req -> Con] /\ conn \in [Id -> {NoConn} \cup Conn]
  BY DEF Base, Typed, RequestsTypeOK, LocalTypes, RowTypes
<1>1. ConnectionStep(r) /\ at[r] = "refused" /\ at'[r] = "done" /\ UNCHANGED <<con, grant, excused>>
  BY <1>0 DEF ConnectionStep, ByWorker, NeedsReauth, Finish, Resume, Goto
<1>2. PICK c \in Id : con[r].ref = c
  BY <1>1 DEF Base, PhaseInv, Phase, Renewing
<1>3. \A d \in Id : d # c => conn'[d] = conn[d]
  BY <1>0, <1>2 DEF NeedsReauth
<1>4. Lockers'
  BY <1>1, LockersKept DEF ReauthInv
<1>5. c \in excused
  <2>1. r \in Refreshing(c)
    BY <1>1, <1>2 DEF Refreshing
  <2> QED BY <1>1, <2>1 DEF ReauthInv, Clean
<1>6. ASSUME NEW d \in Id, d \notin excused PROVE Clean(d)'
  <2>1. Elsewhere(r, d) /\ RowSame(d) /\ Clean(d)
    BY <1>1, <1>2, <1>3, <1>5, <1>6 DEF Elsewhere, Refreshing, RowSame, ReauthInv
  <2> QED BY <1>1, <1>6, <2>1, CleanHandler
<1> QED BY <1>1, <1>4, <1>6 DEF ReauthInv

LEMMA CleanWorker ==
  ASSUME Base, ReauthInv, NEW r \in Req, ByWorker(r)
  PROVE  ReauthInv'
<1>0. at \in [Req -> Waiting \cup {"idle", "done"}]
  BY DEF Base, Typed, RequestsTypeOK
<1>1. CASE (\E u \in Uid : GetCapabilities(r, u)) \/ FetchCapabilities(r) \/ FillCache(r) \/ Invalidate(r)
  <2>1. ConnectionStep(r)
    BY DEF ConnectionStep
  <2>2. at[r] \in {"idle", "fetch", "fill", "invalidate"} /\ at'[r] \in {"fetch", "fill", "call", "done"}
        /\ UNCHANGED <<conn, grant, excused>>
    BY <1>0, <1>1 DEF GetCapabilities, FetchCapabilities, FillCache, Invalidate, Begin, Resume, Finish, Goto
  <2>3. \A c \in Id : Elsewhere(r, c) /\ RowSame(c)
    BY <2>2 DEF Elsewhere, Refreshing, RowSame
  <2> QED BY <2>1, <2>2, <2>3, CleanHandler, LockersKept DEF ReauthInv
<1> QED BY <1>1, CleanCall, CleanLock, CleanAsk, CleanStore, CleanRefused DEF ByWorker

LEMMA CleanEnvironment ==
  ASSUME Base, ReauthInv, Environment
  PROVE  ReauthInv'
<1>0. at \in [Req -> Waiting \cup {"idle", "done"}] /\ conn \in [Id -> {NoConn} \cup Conn] /\ grant \in [Id -> Nat]
  BY DEF Base, Typed, RequestsTypeOK, RowTypes
<1>1. ASSUME NEW u \in Uid, CacheExpires(u) PROVE ReauthInv'
  <2>1. UNCHANGED <<at, con, conn, grant, excused>>
    BY <1>1 DEF CacheExpires
  <2> QED BY <2>1, CleanSame DEF ReauthInv, Lockers, RowSame
<1>2. ASSUME NEW c \in Id, Revoke(c) PROVE ReauthInv'
  <2>1. UNCHANGED <<at, con, conn>> /\ grant' = [grant EXCEPT ![c] = 0] /\ excused' = excused \cup {c}
    BY <1>2 DEF Revoke
  <2>2. ASSUME NEW d \in Id, d \notin excused' PROVE Clean(d)'
    <3>1. Clean(d) /\ RowSame(d) /\ grant'[d] = grant[d]
      BY <1>0, <2>1, <2>2 DEF ReauthInv, RowSame
    <3> QED BY <2>1, <3>1, CleanSame
  <2> QED BY <2>1, <2>2 DEF ReauthInv, Lockers
<1>3. ASSUME NEW c \in Id, TokenExpires(c) PROVE ReauthInv'
  <2>1. UNCHANGED <<at, con, grant>> /\ conn' = [conn EXCEPT ![c].fresh = FALSE] /\ conn[c] \in Conn
        /\ excused \subseteq excused' /\ (c \in excused' \/ conn[c].held # 0)
    BY <1>0, <1>3, NoValues DEF TokenExpires, NoConn
  <2>2. \A d \in Id : d # c => conn'[d] = conn[d]
    BY <1>0, <2>1
  <2>3. conn'[c].status = conn[c].status /\ conn'[c].held = conn[c].held
    BY <1>0, <2>1 DEF Conn
  <2>4. Refreshing(c)' = Refreshing(c) /\ \A q \in Req : Google(q)' <=> Google(q)
    BY <2>1 DEF Refreshing, Google
  <2>5. ASSUME NEW d \in Id, d \notin excused' PROVE Clean(d)'
    <3>1. Clean(d)
      BY <2>1, <2>5 DEF ReauthInv
    <3>2. CASE d # c
      BY <2>1, <2>2, <3>1, <3>2, CleanSame DEF RowSame
    <3>3. CASE d = c
      <4>1. /\ \A q \in Refreshing(c)' : at'[q] # "refused" /\ con'[q].gen = grant'[c]
            /\ \A p, q \in Refreshing(c)' : p = q \/ (Google(p)' /\ Google(q)')
        BY <2>1, <2>4, <3>1, <3>3 DEF Clean, Refreshing
      <4>2. conn'[c].held = grant'[c] \/ \E q \in Refreshing(c)' : at'[q] = "refreshed" /\ ~ Google(q)'
        BY <2>1, <2>3, <2>4, <2>5, <3>1, <3>3 DEF Clean, Refreshing
      <4>3. conn'[c].status # "needs_reauth" /\ conn'[c].held # 0
        BY <2>1, <2>3, <2>5, <3>1, <3>3 DEF Clean
      <4> QED BY <3>3, <4>1, <4>2, <4>3 DEF Clean
    <3> QED BY <3>2, <3>3
  <2> QED BY <2>1, <2>5 DEF ReauthInv, Lockers
<1>4. ASSUME ServiceDies PROVE ReauthInv'
  <2>1. UNCHANGED <<conn, con, grant>> /\ excused \subseteq excused'
        /\ \A q \in Req : at[q] = "refreshed" => con[q].ref \in excused'
    BY <1>4 DEF ServiceDies
  <2>2. \A q \in Req : at'[q] \notin {"lock", "refresh", "refreshed", "refused"}
    BY <1>0, <1>4 DEF ServiceDies, InService
  <2>3. ASSUME NEW d \in Id, d \notin excused' PROVE Clean(d)'
    <3>1. Clean(d)
      BY <2>1, <2>3 DEF ReauthInv
    <3>2. Refreshing(d)' = {}
      BY <2>2 DEF Refreshing
    <3>3. \A q \in Refreshing(d) : at[q] # "refreshed"
      BY <2>1, <2>3 DEF Refreshing
    <3> QED BY <2>1, <3>1, <3>2, <3>3 DEF Clean
  <2> QED BY <2>2, <2>3 DEF ReauthInv, Lockers
<1> QED BY <1>1, <1>2, <1>3, <1>4 DEF Environment

LEMMA NextReauth == Base /\ ReauthInv /\ [Next]_vars => ReauthInv'
<1> SUFFICES ASSUME Base, ReauthInv, [Next]_vars PROVE ReauthInv'
  OBVIOUS
<1>1. CASE UNCHANGED <<at, con, conn, grant, excused>>
  BY <1>1, CleanSame DEF ReauthInv, Lockers, RowSame
<1>2. CASE AccountsNext /\ UNCHANGED integrationVars
  <2>1. StaysIn(ConnectionWaits) /\ UNCHANGED <<con, conn, grant, excused>>
    BY <1>2, AccountsFrame
  <2>2. \A q \in Req, c \in Id : (at'[q] = at[q] /\ con'[q] = con[q]) \/ Elsewhere(q, c)
    BY <2>1 DEF StaysIn, ConnectionWaits, Elsewhere, Refreshing
  <2>3. Lockers'
    BY <2>1 DEF StaysIn, ConnectionWaits, ReauthInv, Lockers
  <2> QED BY <2>1, <2>2, <2>3, CleanSame DEF ReauthInv, RowSame
<1>3. ASSUME NEW r \in Req, ConnectionStep(r) PROVE ReauthInv'
  BY <1>3, CleanDashboard, CleanService, CleanWorker DEF ConnectionStep
<1> QED BY <1>1, <1>2, <1>3, CleanEnvironment, NextHalves DEF ConnectionsNext, vars

LEMMA InitReauth == Init => ReauthInv
<1> SUFFICES ASSUME Init PROVE ReauthInv
  OBVIOUS
<1>1. \A r \in Req : at[r] = "idle"
  BY DEF Init, RequestsInit
<1>2. ASSUME NEW c \in Id PROVE Clean(c)
  <2>1. Refreshing(c) = {}
    BY <1>1 DEF Refreshing
  <2>2. grant[c] = IF conn[c] = NoConn THEN 0 ELSE 1
    BY DEF Init, ConnectionsInit
  <2>3. conn[c] = NoConn \/ (conn[c].status = "connected" /\ conn[c].held = 1 /\ conn[c].fresh)
    BY DEF Init, ConnectionsInit
  <2> QED BY <2>1, <2>2, <2>3 DEF Clean, NoConn
<1> QED BY <1>1, <1>2 DEF ReauthInv, Lockers

(* Users are asked to connect again only over a token that the provider    *)
(* has withdrawn, never gave or whose answer was lost, or over an MCP      *)
(* connection that two requests renewed at once: Google's tokens last, and *)
(* Slack's lock leaves one request between reading and storing, which      *)
(* reads again under the lock.  (_get_fresh_token, _get_fresh_mcp_token.)  *)
THEOREM ReauthHasAReason == Spec => []ReauthIsTrue
<1>1. ReauthInv => ReauthIsTrue
  BY DEF ReauthInv, Clean, ReauthIsTrue
<1>2. Spec => []ReauthInv
  BY InitBase, NextBase, InitReauth, NextReauth, PTL DEF Spec
<1> QED BY <1>1, <1>2, PTL
=============================================================================
