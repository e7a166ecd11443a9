---------------------------- MODULE Integrations ----------------------------
(***************************************************************************)
(* Accounts, their connections and what the assistant sees of them: the    *)
(* API, the worker and the connections service side by side.               *)
(***************************************************************************)
EXTENDS Accounts, Capabilities

integrationVars == <<connectionVars, connectionHistory, cache>>

vars == <<at, accountVars, integrationVars>>

Init ==
  /\ RequestsInit
  /\ AccountsInit
  /\ ConnectionsInit
  /\ \A c \in Id : conn[c] # NoConn => acct[conn[c].user].email # None
  /\ CapabilitiesInit

(* The dashboard, for a user whom get_current_user lets pass.              *)
ByDashboard(r) ==
  \/ /\ \E u \in Uid, s \in Slot : Registered(u) /\ (Initiate(r, u, s) \/ Connect(r, u, s))
     /\ UNCHANGED cache
  \/ /\ \E u \in Uid, c \in Id :
          /\ Registered(u)
          /\ DeleteConnection(r, u, c) \/ \E s \in Slot : MoveConnection(r, u, c, s)
     /\ UNCHANGED cache

(* The connections service and the provider ask nobody whether the user    *)
(* row is still there.                                                     *)
ByService(r) ==
  \/ /\ \E a \in Req, u \in Uid \cup {None} : (u # None => Registered(u)) /\ Callback(r, a, u)
     /\ UNCHANGED cache
  \/ /\ Exchange(r) \/ Discover(r) \/ Replace(r) \/ InsertConnection(r) \/ InsertFails(r) \/ ProxyGivesUp(r)
     /\ UNCHANGED cache

ByWorker(r) ==
  \/ \E u \in Uid : There(u) /\ GetCapabilities(r, u)
  \/ FetchCapabilities(r) \/ FillCache(r) \/ Invalidate(r)
  \/ CallTool(r) \/ AcquireLock(r) \/ AskProvider(r) \/ StoreToken(r) \/ NeedsReauth(r)

Environment ==
  \/ ServiceDies /\ UNCHANGED cache
  \/ (\E c \in Id : TokenExpires(c) \/ Revoke(c)) /\ UNCHANGED cache
  \/ \E u \in Uid : CacheExpires(u)

Next ==
  \/ AccountsNext /\ UNCHANGED integrationVars
  \/ (\E r \in Req : ByDashboard(r) \/ ByService(r) \/ ByWorker(r)) /\ UNCHANGED accountVars
  \/ Environment /\ UNCHANGED accountVars

Spec == Init /\ [][Next]_vars

TypeOK ==
  /\ RequestsTypeOK
  /\ AccountsTypeOK
  /\ ConnectionsTypeOK
  /\ CapabilitiesTypeOK

------------------------------------------------------------------------------
(* What one person is known by leads to one account, whether they wrote    *)
(* first or registered first, and however their requests interleave.       *)
(* (get_or_create_user, register and the linking of Slack.)                *)
OneAccount ==
  \A u, v \in Uid : There(u) /\ There(v) /\ u # v =>
    {acct[u].phone, acct[u].email, acct[u].slack}
      \cap {acct[v].phone, acct[v].email, acct[v].slack} \subseteq {None}

(* A session goes back to a password that still holds, or to a request     *)
(* that was under way when the password was reset.  (reset_password        *)
(* against refresh and login.)                                             *)
ResetSticks ==
  \A t \in Id : tok[t].user # None =>
    tok[t].era = era[tok[t].user] \/ t \in overtaken

(* A user has one connection for a slot, unless two handlers were between  *)
(* replacing and inserting at once or a connection was moved there.        *)
(* (oauth_callback, _replace_existing_connection, update_connection.)      *)
OneConnection ==
  \A p \in Place \ crowded : \A c, d \in InSlot(p[1], p[2]) : c = d

(* A connection the user made and did not give up is there, or its handler *)
(* is about to insert the next one, or failed or died doing so, or another *)
(* account's request deleted or moved it.                                  *)
SlotKept ==
  \A p \in wanted \ (crowded \cup dropped) : InSlot(p[1], p[2]) # {} \/ Filling(p) # {}

(* The user is asked to connect again only when the provider does not take *)
(* the token any more, gave none to renew it with, or did not answer, or   *)
(* two unguarded refreshes of an MCP connection met.  (_get_fresh_token,   *)
(* _get_fresh_mcp_token.)                                                  *)
ReauthIsTrue ==
  \A c \in Id : conn[c].status = "needs_reauth" => c \in excused

(* A cached answer that is wrong has one of the known reasons.  Either a   *)
(* request of that user is about to clear it, or is between removing a     *)
(* connection and inserting the next; or drift says why nobody is.  Its    *)
(* tools changed by a native callback, by a callback or a deletion that    *)
(* another account asked for, or by an MCP connection that needs its user; *)
(* or the handler failed or died past the removal, or the proxy gave it up *)
(* there, or Redis did not clear the cache; or the answer was a guess, or  *)
(* overtaken while it was fetched.  (get_capabilities against the routes   *)
(* that clear the cache.)                                                  *)
StaleIsExplained ==
  \A u \in Uid \ drift : cache[u] \notin {{}, {Tools(u)}} =>
    \E r \in Req : /\ con[r].user = u
                  /\ \/ at[r] = "invalidate"
                     \/ at[r] = "insert" /\ OwnRequest(r)
=============================================================================
