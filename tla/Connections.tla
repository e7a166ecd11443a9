----------------------------- MODULE Connections ----------------------------
(***************************************************************************)
(* The connections service: OAuth and MCP connections of users, their      *)
(* tokens, and the calls that use them; and the dashboard's proxy before   *)
(* it.  A slot is what a connection is for: a service and a persona.       *)
(***************************************************************************)
EXTENDS Requests

CONSTANTS
  Slot,
  Kind,       \* Kind[s]: "google", "slack" or "mcp"
  MaxTrouble  \* expiries, revocations, failures and deaths that are looked at

ASSUME KindAssumption == Kind \in [Slot -> {"google", "slack", "mcp"}]
ASSUME TroubleAssumption == MaxTrouble \in Nat

VARIABLES
  conn,     \* the tables Connection and OAuthToken
  state,    \* the table OAuthState
  spent,    \* authorizations whose code the provider has exchanged
  grant,    \* grant[c]: the refresh token of c the provider takes, 0: none
  con,      \* con[r]: the locals of r's handler
  trouble,  \* troubles so far
  excused,  \* connections whose refresh may fail for a good reason (history)
  crowded,  \* slots that two handlers filled at once, or a move (history)
  wanted,   \* slots the user has connected and not given up (history)
  dropped,  \* slots whose connection was lost with a handler, or taken by
            \* the request of another account (history)
  drift     \* users whose tools changed without a word to the cache (history)

connectionVars == <<conn, state, spent, grant, con, trouble>>
connectionHistory == <<excused, crowded, wanted, dropped, drift>>

Place == Uid \X Slot
NoConn == [user |-> None, slot |-> None, status |-> "none", held |-> 0, fresh |-> FALSE]
NoState == [user |-> None, slot |-> None]

(* user, slot: whom and what the request is about; ref: the authorization  *)
(* or the connection; gen: the refresh token that was read or received;    *)
(* caller: the account whose request to the dashboard waits for the answer *)
(* of the service, which need not be the user; key: an API key in place of *)
(* OAuth; saw: the capabilities it was given.                              *)
NoCon == [user |-> None, slot |-> None, ref |-> None, gen |-> 0,
          caller |-> None, key |-> FALSE, saw |-> {}]

(* What the assistant can see of connections: native tools by their kind,  *)
(* MCP tools by their connection.                                          *)
View == SUBSET ({"google", "slack", "mcp"} \X (Id \cup {None}))

Statuses == {"connected", "needs_reauth"}

Conn == [user : Uid, slot : Slot, status : Statuses, held : Nat, fresh : BOOLEAN]

ConnectionsInit ==
  /\ conn \in [Id -> {NoConn} \cup [user : Uid, slot : Slot, status : {"connected"}, held : {1}, fresh : {TRUE}]]
  /\ \A c, d \in Id : c # d /\ conn[c] # NoConn =>
       <<conn[c].user, conn[c].slot>> # <<conn[d].user, conn[d].slot>>
  /\ \A r \in Req : conn[r] = NoConn
  /\ state = [a \in Req |-> NoState]
  /\ spent = {}
  /\ grant = [c \in Id |-> IF conn[c] = NoConn THEN 0 ELSE 1]
  /\ con = [r \in Req |-> NoCon]
  /\ trouble = 0
  /\ excused = {} /\ crowded = {} /\ dropped = {} /\ drift = {}
  /\ wanted = {<<conn[c].user, conn[c].slot>> : c \in {d \in Id : conn[d] # NoConn}}

ConnectionsTypeOK ==
  /\ conn \in [Id -> {NoConn} \cup Conn]
  /\ state \in [Req -> {NoState} \cup [user : Uid, slot : Slot]]
  /\ spent \subseteq Req
  /\ grant \in [Id -> Nat]
  /\ con \in [Req -> [user : Uid \cup {None}, slot : Slot \cup {None}, ref : Id \cup {None},
                      gen : Nat, caller : Uid \cup {None}, key : BOOLEAN, saw : View]]
  /\ trouble \in 0..MaxTrouble
  /\ excused \subseteq Id /\ drift \subseteq Uid
  /\ crowded \subseteq Place /\ wanted \subseteq Place /\ dropped \subseteq Place

Rows(u) == {c \in Id : conn[c].user = u}
InSlot(u, s) == {c \in Rows(u) : conn[c].slot = s}
At(r) == <<con[r].user, con[r].slot>>
Filling(p) == {r \in Req : at[r] = "insert" /\ At(r) = p}

Trouble == trouble < MaxTrouble /\ trouble' = trouble + 1

(* list_connections, as _fetch_capabilities reads it: a native connection  *)
(* counts whatever its status, an MCP connection when it is connected.     *)
ToolsIn(rows, u) ==
  LET own == {d \in Id : rows[d].user = u} IN
  {<<Kind[rows[c].slot], None>> : c \in {d \in own : Kind[rows[d].slot] # "mcp"}}
  \cup {<<"mcp", c>> : c \in {d \in own : Kind[rows[d].slot] = "mcp" /\ rows[d].status = "connected"}}

Tools(u) == ToolsIn(conn, u)

(* The service has answered: the proxy clears the cache of whoever asked.  *)
Answered(r, from) ==
  IF con[r].caller = None THEN Finish(r, from) /\ UNCHANGED con
  ELSE Resume(r, from, "invalidate") /\ con' = [con EXCEPT ![r].user = con[r].caller]

(* The connections of u change, maybe its tools with them, and nobody will *)
(* clear the cache for it.                                                 *)
Unannounced(u) == drift' = IF ToolsIn(conn', u) = Tools(u) THEN drift ELSE drift \cup {u}

(* The user of r is the one who waits for it.                              *)
OwnRequest(r) == con[r].caller = con[r].user

------------------------------------------------------------------------------
(* The browser is sent to the provider; state row first.  The proxy clears *)
(* the cache now, for a native connection, and not when it exists.         *)
Initiate(r, u, s) ==
  /\ Begin(r, IF Kind[s] = "mcp" THEN "done" ELSE "invalidate")
  /\ state' = [state EXCEPT ![r] = [user |-> u, slot |-> s]]
  /\ con' = [con EXCEPT ![r].user = u]
  /\ UNCHANGED <<conn, spent, grant, trouble, connectionHistory>>

(* The browser is back.  An MCP authorization comes in with the request of *)
(* whoever is logged in there; the public route of the others asks nobody. *)
Callback(r, a, u) ==
  /\ state[a] # NoState
  /\ (u # None) <=> (Kind[state[a].slot] = "mcp")
  /\ Begin(r, "exchange")
  /\ con' = [con EXCEPT ![r].user = state[a].user, ![r].slot = state[a].slot, ![r].ref = a,
                        ![r].caller = u]
  /\ UNCHANGED <<conn, state, spent, grant, trouble, connectionHistory>>

(* POST /mcp/connect, with an API key or none.                             *)
Connect(r, u, s) ==
  /\ Kind[s] = "mcp"
  /\ Begin(r, "discover")
  /\ con' = [con EXCEPT ![r].user = u, ![r].slot = s, ![r].caller = u, ![r].key = TRUE]
  /\ UNCHANGED <<conn, state, spent, grant, trouble, connectionHistory>>

(* A native handler that fails rolls the deletion of its state row back,   *)
(* an MCP handler deletes it.                                              *)
StateAfterFailure(r) ==
  IF con[r].key \/ Kind[con[r].slot] # "mcp" THEN state ELSE [state EXCEPT ![con[r].ref] = NoState]

(* Mutant: the old connection goes before the new one is granted. *)
Exchange_DropsFirst(r) ==
  /\ at[r] = "exchange"
  /\ con[r].ref \notin spent
  /\ conn' = [c \in Id |-> IF c \in InSlot(con[r].user, con[r].slot) THEN NoConn ELSE conn[c]]
  /\ \/ /\ Resume(r, "exchange", "replace")
        /\ spent' = spent \cup {con[r].ref}
        /\ UNCHANGED trouble
     \/ /\ Finish(r, "exchange") /\ Trouble
        /\ UNCHANGED spent
  /\ UNCHANGED <<state, grant, con, connectionHistory>>

(* A code is exchanged once; an MCP server is asked for its tools, too.    *)
Exchange(r) ==
  /\ at[r] = "exchange"
  /\ \/ /\ con[r].ref \notin spent
        /\ Resume(r, "exchange", "replace")
        /\ spent' = spent \cup {con[r].ref}
        /\ UNCHANGED <<state, trouble>>
     \/ /\ con[r].ref \in spent /\ UNCHANGED <<spent, trouble>>
        /\ Finish(r, "exchange")
        /\ state' = StateAfterFailure(r)
     \/ /\ con[r].ref \notin spent /\ Trouble
        /\ spent' \in {spent, spent \cup {con[r].ref}}
        /\ Finish(r, "exchange")
        /\ state' = StateAfterFailure(r)
  /\ UNCHANGED <<conn, grant, con, connectionHistory>>

Discover(r) ==
  /\ \/ Resume(r, "discover", "replace") /\ UNCHANGED trouble
     \/ Finish(r, "discover") /\ Trouble
  /\ UNCHANGED <<conn, state, spent, grant, con, connectionHistory>>

(* Mutant: the old connection stays. *)
Replace_KeepsOld(r) ==
  /\ Resume(r, "replace", "insert")
  /\ crowded' = IF Filling(At(r)) = {} THEN crowded ELSE crowded \cup {At(r)}
  /\ UNCHANGED <<conn, state, spent, grant, con, trouble, excused, wanted, dropped, drift>>

(* The old connection of the slot goes, in a transaction of its own; with  *)
(* two of them the query raises.                                           *)
Replace(r) ==
  LET old == InSlot(con[r].user, con[r].slot) IN
  /\ at[r] = "replace"
  /\ \/ /\ Cardinality(old) < 2
        /\ Resume(r, "replace", "insert")
        /\ conn' = [c \in Id |-> IF c \in old THEN NoConn ELSE conn[c]]
        /\ state' = IF con[r].key \/ Kind[con[r].slot] = "mcp" \/ old = {} THEN state
                    ELSE [state EXCEPT ![con[r].ref] = NoState]
        /\ crowded' = IF Filling(At(r)) = {} THEN crowded ELSE crowded \cup {At(r)}
        /\ IF OwnRequest(r) THEN UNCHANGED drift ELSE Unannounced(con[r].user)
     \/ /\ Cardinality(old) > 1
        /\ Finish(r, "replace")
        /\ state' = StateAfterFailure(r)
        /\ UNCHANGED <<conn, crowded, drift>>
  /\ UNCHANGED <<spent, grant, con, trouble, excused, wanted, dropped>>

NewRow(r, token) == [user |-> con[r].user, slot |-> con[r].slot, status |-> "connected",
                     held |-> token, fresh |-> TRUE]

(* Connection and token, and the state row of an authorization: one        *)
(* commit.  A provider may give no refresh token (0), an API key is none.  *)
InsertConnection(r) ==
  /\ at[r] = "insert"
  /\ \E token \in IF con[r].key THEN {0} ELSE {0, 1} :
       /\ conn' = [conn EXCEPT ![r] = NewRow(r, token)]
       /\ grant' = [grant EXCEPT ![r] = token]
  /\ state' = IF con[r].key THEN state ELSE [state EXCEPT ![con[r].ref] = NoState]
  /\ Answered(r, "insert")
  /\ IF OwnRequest(r) THEN UNCHANGED drift ELSE Unannounced(con[r].user)
  /\ wanted' = wanted \cup {At(r)}
  /\ dropped' = dropped \ {At(r)}
  /\ UNCHANGED <<spent, trouble, excused, crowded>>

(* Flush or commit raises after the old connection is gone for good; or    *)
(* something between them does, and the MCP handler, which then deletes    *)
(* its state row, commits the connection without a token.  The proxy is    *)
(* told of a failure and clears nothing.                                   *)
InsertFails(r) ==
  /\ Finish(r, "insert")
  /\ Trouble
  /\ \/ /\ dropped' = dropped \cup {At(r)}
        /\ state' \in {state, StateAfterFailure(r)}
        /\ UNCHANGED conn
     \/ /\ Kind[con[r].slot] = "mcp" /\ ~ con[r].key
        /\ conn' = [conn EXCEPT ![r] = NewRow(r, 0)]
        /\ state' = StateAfterFailure(r)
        /\ UNCHANGED dropped
  /\ IF OwnRequest(r) THEN drift' = drift \cup {con[r].user} ELSE Unannounced(con[r].user)
  /\ UNCHANGED <<spent, grant, con, excused, crowded, wanted>>

(* Through the proxy, which clears the cache of u, who asked, afterwards:  *)
(* neither the proxy nor the service asks whose connection it is.          *)
DeleteConnection(r, u, c) ==
  LET owner == conn[c].user
      place == <<owner, conn[c].slot>>
  IN  /\ conn[c] # NoConn
      /\ Begin(r, "invalidate")
      /\ con' = [con EXCEPT ![r].user = u]
      /\ conn' = [conn EXCEPT ![c] = NoConn]
      /\ IF u = owner THEN wanted' = wanted \ {place} /\ UNCHANGED <<dropped, drift>>
         ELSE dropped' = dropped \cup {place} /\ Unannounced(owner) /\ UNCHANGED wanted
      /\ UNCHANGED <<state, spent, grant, trouble, excused, crowded>>

(* update_connection gives a connection to another persona, whatever that  *)
(* persona has already.  The proxy asks the service first whose connection *)
(* it is, and goes on when that question fails.  No tool comes or goes.    *)
MoveConnection(r, u, c, s) ==
  LET owner == conn[c].user
      left == <<owner, conn[c].slot>>
      to == <<owner, s>>
  IN  /\ conn[c] # NoConn /\ Kind[s] = Kind[conn[c].slot] /\ s # conn[c].slot
      /\ Begin(r, "invalidate")
      /\ con' = [con EXCEPT ![r].user = u]
      /\ conn' = [conn EXCEPT ![c].slot = s]
      /\ crowded' = IF InSlot(owner, s) \cup Filling(to) = {} THEN crowded ELSE crowded \cup {to}
      /\ \/ /\ u = owner /\ UNCHANGED trouble
            /\ wanted' = (wanted \ {left}) \cup {to} /\ dropped' = dropped \ {to}
         \/ /\ u # owner /\ Trouble
            /\ dropped' = (dropped \ {to}) \cup {left} /\ UNCHANGED wanted
      /\ UNCHANGED <<state, spent, grant, excused, drift>>

(* The proxy waits ten seconds for the service, which goes on all the same.*)
ProxyGivesUp(r) ==
  /\ at[r] \in {"exchange", "discover", "replace", "insert"} /\ con[r].caller # None
  /\ Trouble
  /\ con' = [con EXCEPT ![r].caller = None]
  /\ drift' = IF at[r] = "insert" /\ OwnRequest(r) THEN drift \cup {con[r].user} ELSE drift
  /\ UNCHANGED <<at, conn, state, spent, grant, excused, crowded, wanted, dropped>>

(* The process of the service dies with the handlers that are in it.       *)
InService == {"exchange", "discover", "replace", "insert", "lock", "refresh", "refreshed", "refused"}

ServiceDies ==
  /\ Trouble
  /\ at' = [r \in Req |-> IF at[r] \in InService THEN "done" ELSE at[r]]
  /\ LET lost == {r \in Req : at[r] = "insert"} IN
       /\ dropped' = dropped \cup {At(r) : r \in lost}
       /\ drift' = drift \cup {con[r].user : r \in {q \in lost : OwnRequest(q)}}
  /\ excused' = excused \cup {con[r].ref : r \in {q \in Req : at[q] = "refreshed"}}
  /\ UNCHANGED <<conn, state, spent, grant, con, crowded, wanted>>

(* Time and the provider.  Google's tokens expire whether or not there is  *)
(* another to come; a connection of another kind without a refresh token   *)
(* is used as it is.                                                       *)
TokenExpires(c) ==
  /\ conn[c].fresh
  /\ conn[c].held > 0 \/ Kind[conn[c].slot] = "google"
  /\ Trouble
  /\ conn' = [conn EXCEPT ![c].fresh = FALSE]
  /\ excused' = IF conn[c].held = 0 THEN excused \cup {c} ELSE excused
  /\ UNCHANGED <<at, state, spent, grant, con, crowded, wanted, dropped, drift>>

Revoke(c) ==
  /\ grant[c] # 0
  /\ Trouble
  /\ grant' = [grant EXCEPT ![c] = 0]
  /\ excused' = excused \cup {c}
  /\ UNCHANGED <<at, conn, state, spent, con, crowded, wanted, dropped, drift>>
=============================================================================
