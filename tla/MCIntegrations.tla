--------------------------- MODULE MCIntegrations ---------------------------
(* An instance of Integrations. *)
EXTENDS Integrations, TLC

CONSTANTS r1, r2, r3, o1, u1, u2, p1, p2, slack, notion, gmail, gmail2

Requests == {r1, r2, r3}
Users == {u1, u2}
Persons == {p1, p2}
Slots == {slack, notion, gmail, gmail2}
Kinds == slack :> "slack" @@ notion :> "mcp" @@ gmail :> "google" @@ gmail2 :> "google"

Symmetry == {f @@ g : f \in Permutations(Requests), g \in Permutations({gmail, gmail2})}

(* A behaviour is about the accounts of one person, or about the           *)
(* connections of one kind of a registered user and what another one asks  *)
(* about them.                                                             *)
InUse == {conn[c].slot : c \in Id} \cup {state[a].slot : a \in Req} \cup {p[2] : p \in wanted}
           \cup {con[r].slot : r \in {q \in Req : at[q] # "done"}}
SameKind == \A s, t \in InUse \ {None} : Kind[s] = Kind[t]
AboutAccounts == /\ conn = [c \in Id |-> NoConn]
                 /\ state = [a \in Req |-> NoState]
                 /\ con = [r \in Req |-> NoCon]
                 /\ \A u \in Uid : p2 \notin {acct[u].phone, acct[u].email, acct[u].slack}
                 /\ \A r \in Req : acc[r].person # p2
AboutConnections == /\ acc = [r \in Req |-> NoAcc]
                    /\ tok = [t \in Id |-> NoToken]
                    /\ code = [r \in Req |-> None]
                    /\ acct = (u1 :> Full(p1) @@ u2 :> Full(p2))
                    /\ SameKind
                    /\ \A c \in Id : conn[c].user # u2
                    /\ \A a \in Req : state[a].user # u2
                    /\ \A r \in Req : con[r].user = u2 => at[r] \in {"invalidate", "done"}
Subject == AboutAccounts \/ AboutConnections

(* Nothing reads the locals of a connections handler that is done.         *)
Seen == <<at, accountVars, connectionHistory, cache, conn, state, spent, grant, trouble,
          [r \in Req |-> IF at[r] = "done" THEN NoCon ELSE con[r]]>>
=============================================================================
