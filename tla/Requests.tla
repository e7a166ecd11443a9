------------------------------ MODULE Requests ------------------------------
(***************************************************************************)
(* HTTP requests and worker tasks as the handlers of two services see      *)
(* them: each is at some await of its handler, and they interleave there.  *)
(* What a handler creates is named after its request.                      *)
(***************************************************************************)
EXTENDS Naturals, FiniteSets

CONSTANTS
  Req,   \* requests that are looked at
  Old,   \* names of what is there from before
  Uid,   \* ids of user rows
  None

ASSUME NamesAssumption ==
  /\ Req \cap Old = {}
  /\ None \notin Req \cup Old \cup Uid

Id == Req \cup Old

VARIABLES at   \* at[r]: "idle", the await its handler is at, or "done"

Waiting == {"register.phone", "register.create", "register.slack", "session",
            "refresh.user", "refresh.rotate", "reset", "sms.create",
            "slack.link", "slack.delete",
            "exchange", "discover", "replace", "insert", "invalidate",
            "fetch", "fill", "call", "lock", "refresh", "refreshed", "refused"}

RequestsInit == at = [r \in Req |-> "idle"]

RequestsTypeOK == at \in [Req -> Waiting \cup {"idle", "done"}]

Goto(r, s) == at' = [at EXCEPT ![r] = s]
Begin(r, s) == at[r] = "idle" /\ Goto(r, s)
Resume(r, from, to) == at[r] = from /\ Goto(r, to)
Finish(r, from) == Resume(r, from, "done")
=============================================================================
