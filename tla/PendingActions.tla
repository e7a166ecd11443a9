--------------------------- MODULE PendingActions ---------------------------
(***************************************************************************)
(* Tools, their risk levels, and the rows of the table PendingAction.      *)
(***************************************************************************)
EXTENDS Naturals, Sequences, FiniteSets

CONSTANTS
  User,
  Builtin,      \* the tools of subagents.yaml, and update_setting
  BuiltinRisk,  \* their risk levels
  AgentRisk     \* AgentRisk[u]: the risk levels of u's custom agents, by tool name

Risk == {"low", "medium", "high"}

Custom == UNION {DOMAIN AgentRisk[u] : u \in User}

Tool == Builtin \cup Custom

(* Agents' tools are named custom_{slug}; a slug of two users is one name. *)
ASSUME ToolAssumption ==
  /\ BuiltinRisk \in [Builtin -> Risk]
  /\ \A u \in User : AgentRisk[u] \in [DOMAIN AgentRisk[u] -> Risk]
  /\ Builtin \cap Custom = {}

VARIABLES
  rows,  \* the table, in order of created_at
  risk   \* TOOL_RISK, one dict of the worker process

pendingVars == <<rows, risk>>

(* get_tool_risk: a name nobody registered counts as "high". *)
InitialRisk == [t \in Tool |-> IF t \in Builtin THEN BuiltinRisk[t] ELSE "high"]

PendingInit == rows = <<>> /\ risk = InitialRisk

(* A row past expires_at keeps its status in the table; "lapsed" stands    *)
(* for pending and past it.                                                *)
Row == [user : User, tool : Tool, status : {"pending", "lapsed", "confirmed", "rejected"}]

PendingTypeOK ==
  /\ rows \in Seq(Row)
  /\ risk \in [Tool -> Risk]

CreatePendingAction(u, t) ==
  rows' = Append(rows, [user |-> u, tool |-> t, status |-> "pending"])

(* Mutant: a query without the status. *)
Candidates_AnyStatus(u) == {r \in DOMAIN rows : rows[r].user = u}

Candidates(u) == {r \in DOMAIN rows : rows[r].user = u /\ rows[r].status = "pending"}

(* get_pending_action: the newest one. *)
IsPendingAction(u, r) == r \in Candidates(u) /\ \A q \in Candidates(u) : q <= r

(* By id, whatever the row's status has become since it was looked up. *)
ResolvePendingAction(r, status) == rows' = [rows EXCEPT ![r].status = status]

(* Thirty minutes after the creation of row r, older rows are past theirs. *)
Expires(r) ==
  /\ rows[r].status = "pending"
  /\ rows' = [q \in DOMAIN rows |->
       IF q <= r /\ rows[q].status = "pending" THEN [rows[q] EXCEPT !.status = "lapsed"] ELSE rows[q]]

(* get_custom_agent_schemas: the agents of u write their levels into the   *)
(* dict all users share.                                                   *)
RegisterAgents(u) ==
  risk' = [t \in Tool |-> IF t \in DOMAIN AgentRisk[u] THEN AgentRisk[u][t] ELSE risk[t]]

(* What u's own settings say of t. *)
OwnRisk(u, t) == IF t \in Builtin THEN BuiltinRisk[t] ELSE AgentRisk[u][t]

NeedsConfirmation(t) == risk[t] \in {"medium", "high"}
=============================================================================
