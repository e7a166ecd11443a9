---------------------------- MODULE Capabilities ----------------------------
(***************************************************************************)
(* What the assistant believes a user's connections can do: a cache of 30  *)
(* minutes, filled by whoever misses it and cleared by the dashboard.      *)
(***************************************************************************)
EXTENDS Connections

VARIABLES cache   \* cache[u]: the answers cached for u, at most one

CapabilitiesInit == cache = [u \in Uid |-> {}]

CapabilitiesTypeOK ==
  /\ cache \in [Uid -> SUBSET View]
  /\ \A u \in Uid : \A v, w \in cache[u] : v = w

(* Every tool, when the service cannot be asked. *)
AllTools == {<<"google", None>>, <<"slack", None>>}

(* get_capabilities, for an answer alone or on the way to an MCP call.     *)
GetCapabilities(r, u) ==
  /\ \/ cache[u] = {} /\ Begin(r, "fetch") /\ con' = [con EXCEPT ![r].user = u]
     \/ \E v \in cache[u] : Begin(r, "call") /\ con' = [con EXCEPT ![r].user = u, ![r].saw = v]
  /\ UNCHANGED <<cache, conn, state, spent, grant, trouble, connectionHistory>>

FetchCapabilities(r) ==
  /\ Resume(r, "fetch", "fill")
  /\ \/ con' = [con EXCEPT ![r].saw = Tools(con[r].user)] /\ UNCHANGED trouble
     \/ con' = [con EXCEPT ![r].saw = AllTools] /\ Trouble
  /\ UNCHANGED <<cache, conn, state, spent, grant, connectionHistory>>

FillCache(r) ==
  LET u == con[r].user IN
  /\ Resume(r, "fill", "call")
  /\ cache' = [cache EXCEPT ![u] = {con[r].saw}]
  /\ drift' = IF con[r].saw = Tools(u) THEN drift \ {u} ELSE drift \cup {u}
  /\ UNCHANGED <<conn, state, spent, grant, con, trouble, excused, crowded, wanted, dropped>>

(* Mutant: the keys of the first version are cleared, and no others. *)
Invalidate_OldKeys(r) ==
  /\ Finish(r, "invalidate")
  /\ UNCHANGED <<cache, connectionVars, connectionHistory>>

(* For whoever asked.  Best effort: a failing Redis is logged, an answer   *)
(* of the service that is lost on the way to the proxy is no reason to.    *)
Invalidate(r) ==
  LET u == con[r].user IN
  /\ Finish(r, "invalidate")
  /\ \/ cache' = [cache EXCEPT ![u] = {}] /\ drift' = drift \ {u} /\ UNCHANGED trouble
     \/ Trouble /\ drift' = drift \cup {u} /\ UNCHANGED cache
  /\ UNCHANGED <<conn, state, spent, grant, con, excused, crowded, wanted, dropped>>

CacheExpires(u) ==
  /\ cache[u] # {}
  /\ Trouble
  /\ cache' = [cache EXCEPT ![u] = {}]
  /\ drift' = drift \ {u}
  /\ UNCHANGED <<at, conn, state, spent, grant, con, excused, crowded, wanted, dropped>>

------------------------------------------------------------------------------
(* A tool call reads its connection and token.  MCP tools are found by     *)
(* their connection in the cached answer and need status "connected";      *)
(* native tools take any connection of the kind.                           *)
Usable(r, c) ==
  /\ conn[c].user = con[r].user
  /\ IF Kind[conn[c].slot] = "mcp"
       THEN <<"mcp", c>> \in con[r].saw /\ conn[c].status = "connected"
       ELSE <<Kind[conn[c].slot], None>> \in con[r].saw

(* A token that is good, or a credential without expiry, is used as it is; *)
(* Google's handler has nothing to ask with when it has no refresh token.  *)
Begins(r, c) ==
  LET row == conn[c] IN
  /\ con' = [con EXCEPT ![r].ref = c, ![r].slot = row.slot, ![r].gen = row.held]
  /\ Resume(r, "call",
       IF row.fresh THEN "done" ELSE IF Kind[row.slot] = "slack" THEN "lock"
       ELSE IF row.held = 0 THEN "refused" ELSE "refresh")

Refreshing(c) ==
  {q \in Req : con[q].ref = c /\ at[q] \in {"refresh", "refreshed", "refused"}}

(* Two refreshes of one connection at once, with a provider that rotates:  *)
(* excused where nothing guards against it.                                *)
Overlap(c) ==
  excused' = IF Kind[conn[c].slot] = "mcp" /\ ~ conn[c].fresh /\ Refreshing(c) # {}
               THEN excused \cup {c} ELSE excused

CallTool(r) ==
  /\ at[r] = "call"
  /\ \/ \E c \in Id : conn[c] # NoConn /\ Usable(r, c) /\ Begins(r, c) /\ Overlap(c)
     \/ Finish(r, "call") /\ UNCHANGED <<con, excused>>
  /\ UNCHANGED <<cache, conn, state, spent, grant, trouble, crowded, wanted, dropped, drift>>

Holder(c) == {q \in Refreshing(c) : Kind[con[q].slot] = "slack"}

(* Mutant: the token is the one read before the lock. *)
AcquireLock_NoReread(r) ==
  LET c == con[r].ref IN
  /\ at[r] = "lock"
  /\ Holder(c) = {}
  /\ Resume(r, "lock", IF conn[c] = NoConn THEN "done" ELSE "refresh")
  /\ UNCHANGED <<cache, connectionVars, connectionHistory>>

(* The lock of the connection; then the token is read again.               *)
AcquireLock(r) ==
  LET c == con[r].ref IN
  /\ at[r] = "lock"
  /\ Holder(c) = {}
  /\ IF conn[c] = NoConn \/ conn[c].fresh
       THEN Finish(r, "lock") /\ UNCHANGED con
       ELSE Resume(r, "lock", "refresh") /\ con' = [con EXCEPT ![r].gen = conn[c].held]
  /\ UNCHANGED <<cache, conn, state, spent, grant, trouble, connectionHistory>>

(* Google's refresh tokens last; the others are good for one refresh.      *)
NextGrant(r) == IF Kind[con[r].slot] = "google" THEN con[r].gen ELSE con[r].gen + 1

(* The provider answers, or does and the answer is lost.                   *)
AskProvider(r) ==
  LET c == con[r].ref IN
  /\ at[r] = "refresh"
  /\ \/ /\ con[r].gen = grant[c]
        /\ grant' = [grant EXCEPT ![c] = NextGrant(r)]
        /\ con' = [con EXCEPT ![r].gen = NextGrant(r)]
        /\ Resume(r, "refresh", "refreshed")
        /\ UNCHANGED <<trouble, excused>>
     \/ /\ con[r].gen # grant[c]
        /\ Resume(r, "refresh", "refused")
        /\ UNCHANGED <<grant, con, trouble, excused>>
     \/ /\ Trouble
        /\ grant' \in {grant, [grant EXCEPT ![c] = IF con[r].gen = @ THEN NextGrant(r) ELSE @]}
        /\ excused' = excused \cup {c}
        /\ Resume(r, "refresh", "refused")
        /\ UNCHANGED con
  /\ UNCHANGED <<cache, conn, state, spent, crowded, wanted, dropped, drift>>

(* The MCP handler also sets status to "connected", the value it has read, *)
(* so that nothing is written: what another one has written stays.         *)
StoreToken(r) ==
  LET c == con[r].ref IN
  /\ Finish(r, "refreshed")
  /\ conn' = IF conn[c] = NoConn THEN conn ELSE [conn EXCEPT ![c].held = con[r].gen, ![c].fresh = TRUE]
  /\ UNCHANGED <<cache, state, spent, grant, con, trouble, connectionHistory>>

(* The user is told to connect again.                                      *)
NeedsReauth(r) ==
  LET c == con[r].ref IN
  /\ Finish(r, "refused")
  /\ IF conn[c] = NoConn THEN UNCHANGED <<conn, drift>>
     ELSE conn' = [conn EXCEPT ![c].status = "needs_reauth"] /\ Unannounced(con[r].user)
  /\ UNCHANGED <<cache, state, spent, grant, con, trouble, excused, crowded, wanted, dropped>>
=============================================================================
