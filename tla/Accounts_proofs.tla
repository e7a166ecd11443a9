--------------------------- MODULE Accounts_proofs ---------------------------
(***************************************************************************)
(* Theorems about the accounts and sessions of Integrations, for any       *)
(* persons, user rows and requests.                                        *)
(***************************************************************************)
EXTENDS Integrations, TLAPS

USE NamesAssumption, PersonAssumption, KindAssumption, TroubleAssumption
    DEF NamesAssumption, PersonAssumption, KindAssumption, TroubleAssumption,
        Id, accountVars, connectionVars, connectionHistory, integrationVars

------------------------------------------------------------------------------
(* The two halves of Next share nothing but at: a request is in one half   *)
(* from its first await on.                                                *)

AccountWaits == {"register.phone", "register.create", "register.slack", "session",
                 "refresh.user", "refresh.rotate", "reset", "sms.create",
                 "slack.link", "slack.delete"}

ConnectionWaits == {"exchange", "discover", "replace", "insert", "invalidate",
                    "fetch", "fill", "call", "lock", "refresh", "refreshed", "refused"}

(* The steps of requests, of the connections' half. *)
ConnectionStep(r) == ByDashboard(r) \/ ByService(r) \/ ByWorker(r)

StaysIn(W) ==
  \A r \in Req : /\ at[r] \in W \cup {"done"} => at'[r] = at[r]
                 /\ at'[r] \in W \cup {"idle"} => at'[r] = at[r]

LEMMA BeginAt ==
  ASSUME RequestsTypeOK, NEW r \in Req, NEW s, Begin(r, s),
         NEW W, s \notin W, s # "idle", "idle" \notin W
  PROVE  StaysIn(W)
BY DEF RequestsTypeOK, Begin, Goto, StaysIn

LEMMA ResumeAt ==
  ASSUME RequestsTypeOK, NEW r \in Req, NEW f, NEW s, Resume(r, f, s),
         NEW W, f \notin W, s \notin W, f # "done", s # "idle"
  PROVE  StaysIn(W)
BY DEF RequestsTypeOK, Resume, Goto, StaysIn

AccountAction(r) ==
  \/ \E p \in Person : ReceiveSms(r, p) \/ Register(r, p) \/ Login(r, p) \/ AskReset(r, p) \/ ReceiveSlack(r, p)
  \/ \E u \in Uid : \/ MakeCode(r, u) \/ Restore(r, u) \/ Erase(r, u)
                    \/ \E m \in {"suspended", "deleted"} : Mark(r, u, m)
  \/ \E t \in Id : Refresh(r, t) \/ Logout(r, t)
  \/ CreateSmsUser(r) \/ LookUpPhone(r) \/ CreateAccount(r) \/ AttachSlack(r)
  \/ OpenSession(r) \/ CheckStatus(r) \/ Rotate(r) \/ ResetPassword(r)
  \/ LinkSlack(r) \/ DeleteCode(r)

LEMMA AccountActionAt ==
  ASSUME RequestsTypeOK, NEW r \in Req, AccountAction(r)
  PROVE  \/ \E s \in AccountWaits \cup {"done"} : Begin(r, s)
         \/ \E f \in AccountWaits, s \in AccountWaits \cup {"done"} : Resume(r, f, s)
<1> USE DEF AccountWaits, Finish
<1>1. ASSUME NEW p \in Person,
             ReceiveSms(r, p) \/ Register(r, p) \/ Login(r, p) \/ AskReset(r, p) \/ ReceiveSlack(r, p)
      PROVE  \E s \in AccountWaits \cup {"done"} : Begin(r, s)
  BY <1>1 DEF ReceiveSms, Register, Login, AskReset, ReceiveSlack
<1>2. ASSUME NEW u \in Uid,
             \/ MakeCode(r, u) \/ Restore(r, u) \/ Erase(r, u)
             \/ \E m \in {"suspended", "deleted"} : Mark(r, u, m)
      PROVE  \E s \in AccountWaits \cup {"done"} : Begin(r, s)
  BY <1>2 DEF MakeCode, Restore, Erase, Mark
<1>3. ASSUME NEW t \in Id, Refresh(r, t) \/ Logout(r, t)
      PROVE  \E s \in AccountWaits \cup {"done"} : Begin(r, s)
  BY <1>3 DEF Refresh, Logout
<1>4. CASE CreateSmsUser(r) \/ LookUpPhone(r) \/ CreateAccount(r) \/ AttachSlack(r)
  BY <1>4 DEF CreateSmsUser, LookUpPhone, CreateAccount, AttachSlack
<1>5. CASE OpenSession(r) \/ CheckStatus(r) \/ Rotate(r) \/ ResetPassword(r)
  BY <1>5 DEF OpenSession, CheckStatus, Rotate, ResetPassword
<1>6. CASE LinkSlack(r) \/ DeleteCode(r)
  BY <1>6 DEF LinkSlack, DeleteCode
<1> QED BY <1>1, <1>2, <1>3, <1>4, <1>5, <1>6 DEF AccountAction

LEMMA AccountsStayOut ==
  ASSUME RequestsTypeOK, AccountsNext
  PROVE  RequestsTypeOK' /\ StaysIn(ConnectionWaits)
<1>1. ASSUME NEW r \in Req, NEW s \in AccountWaits \cup {"done"}, Begin(r, s)
      PROVE  RequestsTypeOK' /\ StaysIn(ConnectionWaits)
  <2>1. RequestsTypeOK'
    BY <1>1 DEF RequestsTypeOK, Begin, Goto, AccountWaits, Waiting
  <2>2. s \notin ConnectionWaits /\ s # "idle" /\ "idle" \notin ConnectionWaits
    BY DEF AccountWaits, ConnectionWaits
  <2> QED BY <1>1, <2>1, <2>2, BeginAt
<1>2. ASSUME NEW r \in Req, NEW f \in AccountWaits, NEW s \in AccountWaits \cup {"done"}, Resume(r, f, s)
      PROVE  RequestsTypeOK' /\ StaysIn(ConnectionWaits)
  <2>1. RequestsTypeOK'
    BY <1>2 DEF RequestsTypeOK, Resume, Goto, AccountWaits, Waiting
  <2>2. s \notin ConnectionWaits /\ s # "idle" /\ f \notin ConnectionWaits /\ f # "done"
    BY DEF AccountWaits, ConnectionWaits
  <2> QED BY <1>2, <2>1, <2>2, ResumeAt
<1>3. ASSUME NEW c \in Req, CodeExpires(c)
      PROVE  RequestsTypeOK' /\ StaysIn(ConnectionWaits)
  BY <1>3 DEF CodeExpires, RequestsTypeOK, StaysIn
<1> QED BY <1>1, <1>2, <1>3, AccountActionAt DEF AccountsNext, AccountAction

LEMMA ConnectionStepAt ==
  ASSUME RequestsTypeOK, NEW r \in Req, ConnectionStep(r)
  PROVE  \/ \E s \in ConnectionWaits \cup {"done"} : Begin(r, s)
         \/ \E f \in ConnectionWaits, s \in ConnectionWaits \cup {"done"} : Resume(r, f, s)
         \/ UNCHANGED at
<1> DEFINE Steps == \/ \E s \in ConnectionWaits \cup {"done"} : Begin(r, s)
                    \/ \E f \in ConnectionWaits, s \in ConnectionWaits \cup {"done"} : Resume(r, f, s)
                    \/ UNCHANGED at
<1> USE DEF ConnectionWaits, Finish
<1>1. ASSUME NEW u \in Uid, NEW s \in Slot, Initiate(r, u, s) \/ Connect(r, u, s)
      PROVE  Steps
  BY <1>1 DEF Initiate, Connect
<1>2. ASSUME NEW u \in Uid, NEW c \in Id, DeleteConnection(r, u, c) \/ \E s \in Slot : MoveConnection(r, u, c, s)
      PROVE  Steps
  BY <1>2 DEF DeleteConnection, MoveConnection
<1>3. ASSUME NEW a \in Req, NEW u \in Uid \cup {None}, Callback(r, a, u)
      PROVE  Steps
  BY <1>3 DEF Callback
<1>4. ASSUME Exchange(r) \/ Discover(r) \/ Replace(r) PROVE Steps
  BY <1>4 DEF Exchange, Discover, Replace
<1>5. ASSUME InsertConnection(r) \/ InsertFails(r) PROVE Steps
  BY <1>5 DEF InsertConnection, InsertFails, Answered
<1>6. ASSUME ProxyGivesUp(r) PROVE Steps
  BY <1>6 DEF ProxyGivesUp
<1>7. ASSUME NEW u \in Uid, GetCapabilities(r, u)
      PROVE  Steps
  BY <1>7 DEF GetCapabilities
<1>8. ASSUME FetchCapabilities(r) \/ FillCache(r) \/ Invalidate(r) PROVE Steps
  BY <1>8 DEF FetchCapabilities, FillCache, Invalidate
<1>9. ASSUME CallTool(r) PROVE Steps
  BY <1>9 DEF CallTool, Begins
<1>10. ASSUME AcquireLock(r) \/ AskProvider(r) \/ StoreToken(r) \/ NeedsReauth(r) PROVE Steps
  BY <1>10 DEF AcquireLock, AskProvider, StoreToken, NeedsReauth
<1> HIDE DEF Steps
<1>11. ASSUME ByDashboard(r) PROVE Steps
  BY <1>1, <1>2, <1>11 DEF ByDashboard
<1>12. ASSUME ByService(r) PROVE Steps
  BY <1>3, <1>4, <1>5, <1>6, <1>12 DEF ByService
<1>13. ASSUME ByWorker(r) PROVE Steps
  BY <1>7, <1>8, <1>9, <1>10, <1>13 DEF ByWorker
<1>14. Steps
  BY <1>11, <1>12, <1>13 DEF ConnectionStep
<1> QED BY <1>14 DEF Steps

ConnectionsNext == (\E r \in Req : ConnectionStep(r)) \/ Environment

LEMMA ConnectionsStayOut ==
  ASSUME RequestsTypeOK, ConnectionsNext
  PROVE  RequestsTypeOK' /\ StaysIn(AccountWaits)
<1>1. ASSUME NEW r \in Req, NEW s \in ConnectionWaits \cup {"done"}, Begin(r, s)
      PROVE  RequestsTypeOK' /\ StaysIn(AccountWaits)
  <2>1. RequestsTypeOK'
    BY <1>1 DEF RequestsTypeOK, Begin, Goto, ConnectionWaits, Waiting
  <2>2. s \notin AccountWaits /\ s # "idle" /\ "idle" \notin AccountWaits
    BY DEF AccountWaits, ConnectionWaits
  <2> QED BY <1>1, <2>1, <2>2, BeginAt
<1>2. ASSUME NEW r \in Req, NEW f \in ConnectionWaits, NEW s \in ConnectionWaits \cup {"done"},
             Resume(r, f, s)
      PROVE  RequestsTypeOK' /\ StaysIn(AccountWaits)
  <2>1. RequestsTypeOK'
    BY <1>2 DEF RequestsTypeOK, Resume, Goto, ConnectionWaits, Waiting
  <2>2. s \notin AccountWaits /\ s # "idle" /\ f \notin AccountWaits /\ f # "done"
    BY DEF AccountWaits, ConnectionWaits
  <2> QED BY <1>2, <2>1, <2>2, ResumeAt
<1>3. CASE UNCHANGED at
  BY <1>3 DEF RequestsTypeOK, StaysIn
<1>4. CASE Environment
  <2>1. CASE ServiceDies
    BY <2>1 DEF ServiceDies, RequestsTypeOK, StaysIn, InService, AccountWaits
  <2>2. CASE ~ ServiceDies
    <3>1. UNCHANGED at
      BY <1>4, <2>2 DEF Environment, TokenExpires, Revoke, CacheExpires
    <3> QED BY <1>3, <3>1
  <2> QED BY <2>1, <2>2
<1> QED BY <1>1, <1>2, <1>3, <1>4, ConnectionStepAt DEF ConnectionsNext

(* Next, as its two halves. *)
LEMMA NextHalves ==
  Next <=> \/ AccountsNext /\ UNCHANGED integrationVars
           \/ ConnectionsNext /\ UNCHANGED accountVars
BY DEF Next, ConnectionsNext, ConnectionStep

LEMMA NextRequests == RequestsTypeOK /\ [Next]_vars => RequestsTypeOK'
<1>1. UNCHANGED vars /\ RequestsTypeOK => RequestsTypeOK'
  BY DEF vars, RequestsTypeOK
<1> QED BY <1>1, NextHalves, AccountsStayOut, ConnectionsStayOut

------------------------------------------------------------------------------
(* Types of accounts. *)

LEMMA AccountTypes ==
  /\ NoAccount \in Account
  /\ \A p \in Someone : Sms(p) \in Account /\ Full(p) \in Account
BY DEF NoAccount, Account, Sms, Full, Someone

LEMMA InitAccounts == RequestsInit /\ AccountsInit => RequestsTypeOK /\ AccountsTypeOK
<1> SUFFICES ASSUME RequestsInit, AccountsInit PROVE RequestsTypeOK /\ AccountsTypeOK
  OBVIOUS
<1>1. RequestsTypeOK
  BY DEF RequestsInit, RequestsTypeOK
<1>2. acct \in [Uid -> Account]
  BY AccountTypes DEF AccountsInit, Someone
<1>3. tok \in [Id -> [user : Somebody, era : Nat]]
  BY DEF AccountsInit, NoToken, Somebody
<1>4. \A t \in Id : tok[t].user # None => acct[tok[t].user].life = "there"
  <2>1. ASSUME NEW t \in Id, tok[t].user # None
        PROVE  tok[t].user \in Uid /\ acct[tok[t].user].email # None
    BY <2>1 DEF AccountsInit, NoToken
  <2>2. ASSUME NEW u \in Uid, acct[u].email # None
        PROVE  acct[u].life = "there"
    <3>1. acct[u] = NoAccount \/ \E p \in Person : acct[u] = Sms(p) \/ acct[u] = Full(p)
      BY DEF AccountsInit
    <3>2. NoAccount.email = None
      BY DEF NoAccount
    <3>3. \A p \in Person : Sms(p).life = "there" /\ Full(p).life = "there"
      BY DEF Sms, Full, NoAccount
    <3> QED BY <2>2, <3>1, <3>2, <3>3
  <2> QED BY <2>1, <2>2
<1>5. /\ code \in [Req -> Somebody]
      /\ acc \in [Req -> [person : Someone, user : Somebody, ref : Id \cup {None}, era : Nat]]
      /\ era \in [Uid -> Nat] /\ overtaken \subseteq Req
  BY DEF AccountsInit, NoAcc, Someone, Somebody
<1> QED BY <1>1, <1>2, <1>3, <1>4, <1>5 DEF AccountsTypeOK

Locals == [person : Someone, user : Somebody, ref : Id \cup {None}, era : Nat]
Token == [user : Somebody, era : Nat]

LEMMA LocalSet ==
  ASSUME acc \in [Req -> Locals], NEW r \in Req
  PROVE  /\ \A p \in Someone : [acc EXCEPT ![r].person = p] \in [Req -> Locals]
         /\ \A u \in Somebody : [acc EXCEPT ![r].user = u] \in [Req -> Locals]
         /\ \A p \in Someone, u \in Somebody :
              [acc EXCEPT ![r].person = p, ![r].user = u] \in [Req -> Locals]
         /\ \A p \in Someone, u \in Somebody, c \in Req :
              [acc EXCEPT ![r].person = p, ![r].user = u, ![r].ref = c] \in [Req -> Locals]
         /\ \A u \in Somebody, e \in Nat :
              [acc EXCEPT ![r].user = u, ![r].era = e] \in [Req -> Locals]
         /\ \A u \in Somebody, e \in Nat, t \in Id :
              [acc EXCEPT ![r].user = u, ![r].ref = t, ![r].era = e] \in [Req -> Locals]
<1>1. \A p \in Someone : [acc EXCEPT ![r].person = p] \in [Req -> Locals]
  BY DEF Locals
<1>2. \A u \in Somebody : [acc EXCEPT ![r].user = u] \in [Req -> Locals]
  BY DEF Locals
<1>3. \A p \in Someone, u \in Somebody :
        [acc EXCEPT ![r].person = p, ![r].user = u] \in [Req -> Locals]
  BY DEF Locals
<1>4. \A p \in Someone, u \in Somebody, c \in Req :
        [acc EXCEPT ![r].person = p, ![r].user = u, ![r].ref = c] \in [Req -> Locals]
  <2>1. SUFFICES ASSUME NEW p \in Someone, NEW u \in Somebody, NEW c \in Req
                 PROVE  [acc EXCEPT ![r].person = p, ![r].user = u, ![r].ref = c] \in [Req -> Locals]
    OBVIOUS
  <2>2. acc[r] \in Locals
    OBVIOUS
  <2>3. [acc[r] EXCEPT !.person = p, !.user = u, !.ref = c] \in Locals
    BY <2>2 DEF Locals
  <2>4. [acc EXCEPT ![r].person = p, ![r].user = u, ![r].ref = c]
          = [acc EXCEPT ![r] = [acc[r] EXCEPT !.person = p, !.user = u, !.ref = c]]
    BY <2>2 DEF Locals
  <2> QED BY <2>3, <2>4
<1>5. \A u \in Somebody, e \in Nat :
        [acc EXCEPT ![r].user = u, ![r].era = e] \in [Req -> Locals]
  BY DEF Locals
<1>6. \A u \in Somebody, e \in Nat, t \in Id :
        [acc EXCEPT ![r].user = u, ![r].ref = t, ![r].era = e] \in [Req -> Locals]
  <2>1. SUFFICES ASSUME NEW u \in Somebody, NEW e \in Nat, NEW t \in Id
                 PROVE  [acc EXCEPT ![r].user = u, ![r].ref = t, ![r].era = e] \in [Req -> Locals]
    OBVIOUS
  <2>2. acc[r] \in Locals
    OBVIOUS
  <2>3. [acc[r] EXCEPT !.user = u, !.ref = t, !.era = e] \in Locals
    BY <2>2 DEF Locals
  <2>4. [acc EXCEPT ![r].user = u, ![r].ref = t, ![r].era = e]
          = [acc EXCEPT ![r] = [acc[r] EXCEPT !.user = u, !.ref = t, !.era = e]]
    BY <2>2 DEF Locals
  <2> QED BY <2>3, <2>4
<1> QED BY <1>1, <1>2, <1>3, <1>4, <1>5, <1>6

(* Sessions belong to rows that are there. *)
TokenOwned == \A t \in Id : tok[t].user # None => acct[tok[t].user].life = "there"

(* Rows only come and change, and rows that are there stay.                *)
LEMMA RowStays ==
  ASSUME AccountsTypeOK, NEW u \in Uid, NEW e \in Account, e.life = "there",
         acct' = [acct EXCEPT ![u] = e], UNCHANGED tok
  PROVE  acct' \in [Uid -> Account] /\ TokenOwned'
BY DEF AccountsTypeOK, TokenOwned, Somebody

LEMMA InsertType ==
  ASSUME AccountsTypeOK, NEW u \in Uid, NEW e \in Account, e.life = "there", Insert(u, e), UNCHANGED tok
  PROVE  acct' \in [Uid -> Account] /\ TokenOwned'
BY RowStays DEF Insert

LEMMA RowField ==
  ASSUME AccountsTypeOK, NEW u \in Uid
  PROVE  /\ \A p \in Someone : /\ [acct[u] EXCEPT !.email = p] \in Account
                               /\ [acct[u] EXCEPT !.slack = p] \in Account
                               /\ [acct[u] EXCEPT !.email = p].life = acct[u].life
                               /\ [acct[u] EXCEPT !.slack = p].life = acct[u].life
         /\ \A M \in SUBSET {"suspended", "deleted"} :
              [acct[u] EXCEPT !.marks = M] \in Account /\ [acct[u] EXCEPT !.marks = M].life = acct[u].life
<1>1. acct[u] \in Account
  BY DEF AccountsTypeOK
<1> QED BY <1>1 DEF Account

LEMMA ArrivalTypes ==
  ASSUME AccountsTypeOK, NEW r \in Req, NEW p \in Person,
         ReceiveSms(r, p) \/ Register(r, p) \/ Login(r, p) \/ AskReset(r, p) \/ ReceiveSlack(r, p)
  PROVE  AccountsTypeOK'
<1>1. UNCHANGED <<acct, tok, code, era, overtaken>>
  BY DEF ReceiveSms, Register, Login, AskReset, ReceiveSlack, rowsKept
<1>0. acc \in [Req -> Locals] /\ Person \subseteq Someone /\ Uid \subseteq Somebody /\ era \in [Uid -> Nat]
  BY DEF AccountsTypeOK, Locals, Someone, Somebody
<1>2. acc' \in [Req -> Locals]
  <2>1. CASE ReceiveSms(r, p) \/ Register(r, p)
    <3>1. acc' = [acc EXCEPT ![r].person = p]
      BY <2>1 DEF ReceiveSms, Register
    <3> QED BY <1>0, <3>1, LocalSet
  <2>2. CASE Login(r, p)
    <3>1. PICK u \in WithEmail(p) : acc' = [acc EXCEPT ![r].user = u, ![r].era = era[u]]
      BY <2>2 DEF Login
    <3>2. u \in Uid
      BY DEF WithEmail
    <3> QED BY <1>0, <3>1, <3>2, LocalSet
  <2>3. CASE AskReset(r, p)
    <3>1. PICK u \in WithPhone(p) : acc' = [acc EXCEPT ![r].user = u]
      BY <2>3 DEF AskReset
    <3>2. u \in Uid
      BY DEF WithPhone
    <3> QED BY <1>0, <3>1, <3>2, LocalSet
  <2>4. CASE ReceiveSlack(r, p)
    <3>1. ASSUME NEW c \in Req, There(code[c]),
                 acc' = [acc EXCEPT ![r].person = p, ![r].user = code[c], ![r].ref = c]
          PROVE  acc' \in [Req -> Locals]
      <4>1. code[c] \in Somebody
        BY <1>0, <3>1 DEF There
      <4> QED BY <1>0, <3>1, <4>1, LocalSet
    <3>2. ASSUME NEW u \in WithEmail(p), acc' = [acc EXCEPT ![r].person = p, ![r].user = u]
          PROVE  acc' \in [Req -> Locals]
      <4>1. u \in Somebody
        BY <1>0 DEF WithEmail
      <4> QED BY <1>0, <3>2, <4>1, LocalSet
    <3> QED BY <1>0, <2>4, <3>1, <3>2 DEF ReceiveSlack
  <2> QED BY <2>1, <2>2, <2>3, <2>4
<1> QED BY <1>1, <1>2 DEF AccountsTypeOK, Locals

LEMMA CreationTypes ==
  ASSUME AccountsTypeOK, NEW r \in Req,
         CreateSmsUser(r) \/ LookUpPhone(r) \/ CreateAccount(r) \/ AttachSlack(r) \/ LinkSlack(r)
  PROVE  AccountsTypeOK'
<1>0. /\ acc \in [Req -> Locals] /\ acc[r].person \in Someone /\ acc[r].user \in Somebody
      /\ acct \in [Uid -> Account] /\ TokenOwned /\ era \in [Uid -> Nat]
  BY DEF AccountsTypeOK, Locals, TokenOwned
<1>1. UNCHANGED <<tok, code, era, overtaken>>
  BY DEF CreateSmsUser, LookUpPhone, CreateAccount, AttachSlack, LinkSlack, rowsKept
<1>2. CASE acct' = acct /\ acc' \in [Req -> Locals]
  BY <1>1, <1>2 DEF AccountsTypeOK, Locals
<1>3. ASSUME acct' \in [Uid -> Account], TokenOwned', acc' \in [Req -> Locals]
      PROVE  AccountsTypeOK'
  BY <1>1, <1>3 DEF AccountsTypeOK, Locals, TokenOwned
<1>4. \A p \in Someone : Sms(p).life = "there" /\ Full(p).life = "there"
  BY DEF Sms, Full, NoAccount
<1>5. CASE CreateSmsUser(r)
  <2>1. acc' = acc
    BY <1>5 DEF CreateSmsUser
  <2>2. CASE UNCHANGED acct
    BY <1>0, <1>2, <2>1, <2>2
  <2>3. ASSUME NEW u \in Uid, Insert(u, Sms(acc[r].person)) PROVE AccountsTypeOK'
    BY <1>0, <1>1, <1>3, <1>4, <2>1, <2>3, InsertType, AccountTypes
  <2> QED BY <1>5, <2>2, <2>3 DEF CreateSmsUser
<1>6. CASE LookUpPhone(r)
  <2>1. PICK u \in Somebody : acc' = [acc EXCEPT ![r].user = u]
    BY <1>6 DEF LookUpPhone
  <2>2. acc' \in [Req -> Locals]
    BY <1>0, <2>1 DEF Locals
  <2> QED BY <1>2, <1>6, <2>2 DEF LookUpPhone, rowsKept
<1>7. CASE CreateAccount(r)
  <2> DEFINE new(u) == acc' = [acc EXCEPT ![r].user = u, ![r].era = era[u]]
  <2>1. ASSUME NEW u \in Uid, new(u) PROVE acc' \in [Req -> Locals]
    <3>1. u \in Somebody /\ era[u] \in Nat
      BY <1>0 DEF Somebody
    <3> QED BY <1>0, <2>1, <3>1, LocalSet
  <2>2. ASSUME There(acc[r].user), new(acc[r].user),
               acct' = [acct EXCEPT ![acc[r].user] = [acct[acc[r].user] EXCEPT !.email = acc[r].person]]
        PROVE  AccountsTypeOK'
    <3>1. acc[r].user \in Uid /\ acct[acc[r].user].life = "there"
      BY <2>2 DEF There
    <3>2. acct' \in [Uid -> Account] /\ TokenOwned'
      <4> DEFINE e == [acct[acc[r].user] EXCEPT !.email = acc[r].person]
      <4>1. e \in Account /\ e.life = "there"
        BY <1>0, <3>1, RowField
      <4>2. acct' = [acct EXCEPT ![acc[r].user] = e]
        BY <2>2, <3>1
      <4> HIDE DEF e
      <4> QED BY <1>1, <3>1, <4>1, <4>2, RowStays
    <3> QED BY <1>3, <2>1, <2>2, <3>1, <3>2
  <2>3. ASSUME NEW u \in Uid, Insert(u, Full(acc[r].person)), new(u) PROVE AccountsTypeOK'
    BY <1>0, <1>1, <1>3, <1>4, <2>1, <2>3, InsertType, AccountTypes
  <2>4. CASE UNCHANGED <<acct, acc>>
    BY <1>0, <1>2, <2>4
  <2> QED BY <1>7, <2>2, <2>3, <2>4 DEF CreateAccount
<1>8. CASE AttachSlack(r) \/ LinkSlack(r)
  <2>1. acc' = acc
    BY <1>8 DEF AttachSlack, LinkSlack
  <2>2. CASE UNCHANGED acct
    BY <1>0, <1>2, <2>1, <2>2
  <2>3. CASE There(acc[r].user) /\ acct' = [acct EXCEPT ![acc[r].user].slack = acc[r].person]
    <3>1. acc[r].user \in Uid /\ acct[acc[r].user].life = "there"
      BY <2>3 DEF There
    <3>2. acct' = [acct EXCEPT ![acc[r].user] = [acct[acc[r].user] EXCEPT !.slack = acc[r].person]]
      BY <2>3
    <3>3. acct' \in [Uid -> Account] /\ TokenOwned'
      <4> DEFINE e == [acct[acc[r].user] EXCEPT !.slack = acc[r].person]
      <4>1. e \in Account /\ e.life = "there"
        BY <1>0, <3>1, RowField
      <4>2. acct' = [acct EXCEPT ![acc[r].user] = e]
        BY <3>1, <3>2
      <4> HIDE DEF e
      <4> QED BY <1>1, <3>1, <4>1, <4>2, RowStays
    <3> QED BY <1>0, <1>3, <2>1, <3>3
  <2> QED BY <1>8, <2>2, <2>3 DEF AttachSlack, LinkSlack
<1> QED BY <1>5, <1>6, <1>7, <1>8

LEMMA SessionTypes ==
  ASSUME AccountsTypeOK, NEW r \in Req, NEW t \in Id,
         \/ OpenSession(r) \/ Refresh(r, t) \/ CheckStatus(r) \/ Rotate(r) \/ Logout(r, t)
         \/ ResetPassword(r) \/ DeleteCode(r)
  PROVE  AccountsTypeOK'
<1>0. /\ acc \in [Req -> Locals] /\ acc[r].user \in Somebody /\ tok \in [Id -> Token] /\ TokenOwned
      /\ acct \in [Uid -> Account] /\ era \in [Uid -> Nat] /\ overtaken \subseteq Req
      /\ code \in [Req -> Somebody]
  BY DEF AccountsTypeOK, Locals, TokenOwned, Token
<1>1. NoToken \in Token /\ NoToken.user = None
  BY DEF NoToken, Token, Somebody
<1>2. ASSUME acct' = acct, tok' \in [Id -> Token], TokenOwned', acc' \in [Req -> Locals],
             era' \in [Uid -> Nat], overtaken' \subseteq Req, code' \in [Req -> Somebody]
      PROVE  AccountsTypeOK'
  BY <1>0, <1>2 DEF AccountsTypeOK, TokenOwned, Locals, Token
<1>3. CASE OpenSession(r) \/ Rotate(r)
  <2>1. There(acc[r].user) => [user |-> acc[r].user, era |-> acc[r].era] \in Token
    BY <1>0 DEF Token, Locals
  <2>2. tok' \in [Id -> Token]
    BY <1>0, <1>1, <1>3, <2>1 DEF OpenSession, Rotate
  <2>3. TokenOwned'
    BY <1>0, <1>1, <1>3 DEF OpenSession, Rotate, TokenOwned, There
  <2> QED BY <1>0, <1>2, <1>3, <2>2, <2>3 DEF OpenSession, Rotate
<1>4. CASE Refresh(r, t)
  <2>1. acc' \in [Req -> Locals]
    <3>1. tok[t].user \in Somebody /\ tok[t].era \in Nat
      BY <1>0 DEF Token
    <3> QED BY <1>0, <1>4, <3>1, LocalSet DEF Refresh
  <2> QED BY <1>0, <1>2, <1>4, <2>1 DEF Refresh, TokenOwned
<1>5. CASE CheckStatus(r)
  BY <1>0, <1>2, <1>5 DEF CheckStatus, TokenOwned
<1>6. CASE Logout(r, t)
  <2>1. tok' \in [Id -> Token] /\ TokenOwned'
    BY <1>0, <1>1, <1>6 DEF Logout, TokenOwned
  <2> QED BY <1>0, <1>2, <1>6, <2>1 DEF Logout
<1>7. CASE ResetPassword(r)
  <2>1. tok' \in [Id -> Token] /\ TokenOwned'
    BY <1>0, <1>1, <1>7 DEF ResetPassword, Without, TokenOwned
  <2>2. era' \in [Uid -> Nat] /\ overtaken' \subseteq Req
    BY <1>0, <1>7 DEF ResetPassword, There, Opening
  <2> QED BY <1>0, <1>2, <1>7, <2>1, <2>2 DEF ResetPassword
<1>8. CASE DeleteCode(r)
  <2>1. code' \in [Req -> Somebody]
    BY <1>0, <1>8 DEF DeleteCode, Somebody
  <2> QED BY <1>0, <1>2, <1>8, <2>1 DEF DeleteCode, TokenOwned
<1> QED BY <1>3, <1>4, <1>5, <1>6, <1>7, <1>8

LEMMA AdminTypes ==
  ASSUME AccountsTypeOK, NEW r \in Req, NEW u \in Uid,
         \/ MakeCode(r, u) \/ Restore(r, u) \/ Erase(r, u)
         \/ \E m \in {"suspended", "deleted"} : Mark(r, u, m)
  PROVE  AccountsTypeOK'
<1>0. /\ acct \in [Uid -> Account] /\ acct[u] \in Account /\ tok \in [Id -> Token] /\ TokenOwned
      /\ code \in [Req -> Somebody]
  BY DEF AccountsTypeOK, TokenOwned, Token
<1>1. CASE MakeCode(r, u)
  BY <1>1 DEF MakeCode, AccountsTypeOK, Somebody
<1>2. CASE Restore(r, u) \/ \E m \in {"suspended", "deleted"} : Mark(r, u, m)
  <2>1. PICK M \in SUBSET {"suspended", "deleted"} : acct' = [acct EXCEPT ![u] = [acct[u] EXCEPT !.marks = M]]
    BY <1>0, <1>2 DEF Restore, Mark, Account
  <2>2. acct[u].life = "there" /\ UNCHANGED <<tok, code, acc, era, overtaken>>
    BY <1>2 DEF Restore, Mark, There
  <2>3. acct' \in [Uid -> Account] /\ TokenOwned'
    BY <2>1, <2>2, RowField, RowStays
  <2> QED BY <2>2, <2>3 DEF AccountsTypeOK, TokenOwned
<1>3. CASE Erase(r, u)
  <2>1. [NoAccount EXCEPT !.life = "gone"] \in Account
    BY AccountTypes DEF Account
  <2>2. NoToken \in Token /\ NoToken.user = None
    BY DEF NoToken, Token, Somebody
  <2>3. tok' \in [Id -> Token] /\ TokenOwned'
    BY <1>0, <1>3, <2>1, <2>2 DEF Erase, Without, TokenOwned
  <2> QED BY <1>0, <1>3, <2>1, <2>3 DEF Erase, AccountsTypeOK, TokenOwned, Token
<1> QED BY <1>1, <1>2, <1>3

LEMMA NextAccountTypes ==
  ASSUME AccountsTypeOK, AccountsNext
  PROVE  AccountsTypeOK'
<1>1. ASSUME NEW c \in Req, CodeExpires(c) PROVE AccountsTypeOK'
  BY <1>1 DEF CodeExpires, AccountsTypeOK, Somebody
<1>2. ASSUME NEW r \in Req, CheckStatus(r) \/ OpenSession(r) \/ Rotate(r) \/ ResetPassword(r) \/ DeleteCode(r)
      PROVE  AccountsTypeOK'
  BY <1>2, SessionTypes DEF Id
<1>3. ASSUME NEW r \in Req, NEW t \in Id, Refresh(r, t) \/ Logout(r, t)
      PROVE  AccountsTypeOK'
  BY <1>3, SessionTypes
<1> QED BY <1>1, <1>2, <1>3, ArrivalTypes, CreationTypes, AdminTypes DEF AccountsNext

------------------------------------------------------------------------------
(* One account for one person. *)

(* All a row is known by belongs to one person, who has no other row; and  *)
(* what a handler waits with is about that person.                         *)
RowsKnown ==
  /\ \A u \in Uid : There(u) =>
       /\ acct[u].phone \in Person
       /\ acct[u].email \in {None, acct[u].phone} /\ acct[u].slack \in {None, acct[u].phone}
  /\ \A u, v \in Uid : There(u) /\ There(v) /\ acct[u].phone = acct[v].phone => u = v

KnowsPerson == {"sms.create", "register.phone", "register.create", "register.slack", "slack.link"}
KnowsRow == {"register.create", "register.slack", "slack.link"}

Knows(r) ==
  /\ at[r] \in KnowsPerson => acc[r].person \in Person
  /\ at[r] \in KnowsRow /\ There(acc[r].user) => acct[acc[r].user].phone = acc[r].person
  /\ acc[r].user # None => acct[acc[r].user].life # "free"

HandlersKnow == \A r \in Req : Knows(r)

(* No row goes back to being free, and a row that is there keeps its phone *)
(* number as long as it is.                                                *)
RowsAge ==
  \A v \in Uid : acct[v].life # "free" =>
    /\ acct'[v].life # "free"
    /\ There(v)' => There(v) /\ acct'[v].phone = acct[v].phone

Fresh(p) == \A u \in Uid : There(u) => acct[u].phone # p

LEMMA InsertKnown ==
  ASSUME AccountsTypeOK, RowsKnown, NEW u \in Uid, NEW p \in Person, NEW e \in {Sms(p), Full(p)},
         Insert(u, e)
  PROVE  RowsKnown' /\ RowsAge
<1>1. /\ e.phone = p /\ e.email \in {None, p} /\ e.slack = None /\ e.life = "there"
  BY DEF Sms, Full, NoAccount
<1>2. Fresh(p)
  BY <1>1 DEF Insert, Unique, WithPhone, Fresh
<1>3. acct' = [acct EXCEPT ![u] = e] /\ acct[u].life = "free" /\ acct \in [Uid -> Account]
  BY DEF Insert, AccountsTypeOK
<1>4. \A v \in Uid : v # u => acct'[v] = acct[v]
  BY <1>3
<1>5. acct'[u] = e
  BY <1>3
<1>6. \A v \in Uid : v # u => (There(v)' <=> There(v))
  BY <1>4 DEF There
<1>7. RowsAge
  BY <1>3, <1>4, <1>6 DEF RowsAge
<1>8. RowsKnown'
  BY <1>1, <1>2, <1>4, <1>5, <1>6 DEF RowsKnown, Fresh
<1> QED BY <1>7, <1>8

LEMMA ChangeKnown ==
  ASSUME AccountsTypeOK, RowsKnown, NEW u \in Uid, There(u), NEW e \in Account,
         acct' = [acct EXCEPT ![u] = e],
         \/ e.life = "gone"
         \/ /\ e.life = "there" /\ e.phone = acct[u].phone
            /\ e.email \in {None, e.phone} /\ e.slack \in {None, e.phone}
  PROVE  RowsKnown' /\ RowsAge
<1>1. acct'[u] = e /\ \A v \in Uid : v # u => acct'[v] = acct[v]
  BY DEF AccountsTypeOK
<1>2. (There(u)' => e.life = "there") /\ \A v \in Uid : v # u => (There(v)' <=> There(v))
  BY <1>1 DEF There
<1>3. RowsAge
  BY <1>1, <1>2 DEF RowsAge
<1>4. RowsKnown'
  BY <1>1, <1>2 DEF RowsKnown
<1> QED BY <1>3, <1>4

LEMMA SameKnown ==
  ASSUME RowsKnown, UNCHANGED acct
  PROVE  RowsKnown' /\ RowsAge
BY DEF RowsKnown, RowsAge, There

LEMMA CreationKnown ==
  ASSUME AccountsTypeOK, RowsKnown, HandlersKnow, NEW r \in Req,
         CreateSmsUser(r) \/ CreateAccount(r)
  PROVE  RowsKnown' /\ RowsAge
<1>1. acc[r].person \in Person
  BY DEF HandlersKnow, Knows, KnowsPerson, CreateSmsUser, CreateAccount, Finish, Resume
<1>2. CASE UNCHANGED acct
  BY <1>2, SameKnown
<1>3. CASE \E u \in Uid : Insert(u, Sms(acc[r].person)) \/ Insert(u, Full(acc[r].person))
  BY <1>1, <1>3, InsertKnown
<1>4. CASE /\ There(acc[r].user) /\ at[r] = "register.create"
           /\ acct' = [acct EXCEPT ![acc[r].user] = [acct[acc[r].user] EXCEPT !.email = acc[r].person]]
  <2> DEFINE u == acc[r].user
             e == [acct[u] EXCEPT !.email = acc[r].person]
  <2>1. u \in Uid /\ acct[u].phone = acc[r].person
    BY <1>4 DEF There, HandlersKnow, Knows, KnowsRow
  <2>2. acct[u] \in Account /\ acc[r].person \in Someone
    BY <1>1, <2>1 DEF AccountsTypeOK, Someone
  <2>3. /\ e \in Account /\ e.life = acct[u].life /\ e.phone = acct[u].phone
        /\ e.email = acc[r].person /\ e.slack = acct[u].slack
    BY <2>2 DEF Account
  <2>4. acct[u].slack \in {None, acct[u].phone} /\ acct[u].life = "there"
    BY <1>4, <2>1 DEF RowsKnown, There
  <2>5. acct' = [acct EXCEPT ![u] = e]
    BY <1>4
  <2> HIDE DEF e, u
  <2>6. There(u)
    BY <1>4 DEF u
  <2> QED BY <2>1, <2>3, <2>4, <2>5, <2>6, ChangeKnown
<1>5. CASE CreateAccount(r)
  <2>1. at[r] = "register.create"
    BY <1>5 DEF CreateAccount, Finish, Resume
  <2> QED BY <1>2, <1>3, <1>4, <1>5, <2>1 DEF CreateAccount
<1> QED BY <1>2, <1>3, <1>5 DEF CreateSmsUser

LEMMA SlackKnown ==
  ASSUME AccountsTypeOK, RowsKnown, HandlersKnow, NEW r \in Req, AttachSlack(r) \/ LinkSlack(r)
  PROVE  RowsKnown' /\ RowsAge
<1>1. CASE UNCHANGED acct
  BY <1>1, SameKnown
<1>2. CASE There(acc[r].user) /\ acct' = [acct EXCEPT ![acc[r].user].slack = acc[r].person]
  <2> DEFINE u == acc[r].user
             e == [acct[u] EXCEPT !.slack = acc[r].person]
  <2>1. u \in Uid /\ acct[u].phone = acc[r].person /\ acc[r].person \in Person
    BY <1>2 DEF There, HandlersKnow, Knows, KnowsRow, KnowsPerson, AttachSlack, LinkSlack, Finish, Resume
  <2>2. acct[u] \in Account /\ acc[r].person \in Someone
    BY <2>1 DEF AccountsTypeOK, Someone
  <2>3. /\ e \in Account /\ e.life = acct[u].life /\ e.phone = acct[u].phone
        /\ e.slack = acc[r].person /\ e.email = acct[u].email
    BY <2>2 DEF Account
  <2>4. acct[u].email \in {None, acct[u].phone} /\ acct[u].life = "there"
    BY <1>2, <2>1 DEF RowsKnown, There
  <2>5. acct' = [acct EXCEPT ![u] = e]
    BY <1>2
  <2> HIDE DEF e, u
  <2>6. There(u)
    BY <1>2 DEF u
  <2> QED BY <2>1, <2>3, <2>4, <2>5, <2>6, ChangeKnown
<1> QED BY <1>1, <1>2 DEF AttachSlack, LinkSlack

LEMMA AdminKnown ==
  ASSUME AccountsTypeOK, RowsKnown, NEW r \in Req, NEW u \in Uid,
         Restore(r, u) \/ Erase(r, u) \/ \E m \in {"suspended", "deleted"} : Mark(r, u, m)
  PROVE  RowsKnown' /\ RowsAge
<1>0. acct[u] \in Account
  BY DEF AccountsTypeOK
<1>1. CASE Erase(r, u)
  <2>1. [NoAccount EXCEPT !.life = "gone"] \in Account /\ [NoAccount EXCEPT !.life = "gone"].life = "gone"
    BY AccountTypes DEF Account
  <2> QED BY <1>1, <2>1, ChangeKnown DEF Erase
<1>2. CASE ~ Erase(r, u)
  <2>1. PICK M \in SUBSET {"suspended", "deleted"} : acct' = [acct EXCEPT ![u] = [acct[u] EXCEPT !.marks = M]]
    BY <1>0, <1>2 DEF Restore, Mark, Account
  <2> DEFINE e == [acct[u] EXCEPT !.marks = M]
  <2>2. /\ e \in Account /\ e.life = acct[u].life /\ e.phone = acct[u].phone
        /\ e.email = acct[u].email /\ e.slack = acct[u].slack
    BY <1>0 DEF Account
  <2>3. There(u)
    BY <1>2 DEF Restore, Mark
  <2>4. /\ acct[u].life = "there" /\ acct[u].email \in {None, acct[u].phone}
        /\ acct[u].slack \in {None, acct[u].phone}
    BY <2>3 DEF RowsKnown, There
  <2>5. acct' = [acct EXCEPT ![u] = e]
    BY <2>1
  <2> HIDE DEF e
  <2> QED BY <2>2, <2>3, <2>4, <2>5, ChangeKnown
<1> QED BY <1>1, <1>2

LEMMA NextRows ==
  ASSUME AccountsTypeOK, RowsKnown, HandlersKnow, AccountsNext
  PROVE  RowsKnown' /\ RowsAge
<1>1. ASSUME NEW r \in Req, NEW p \in Person,
             ReceiveSms(r, p) \/ Register(r, p) \/ Login(r, p) \/ AskReset(r, p) \/ ReceiveSlack(r, p)
      PROVE  RowsKnown' /\ RowsAge
  BY <1>1, SameKnown DEF ReceiveSms, Register, Login, AskReset, ReceiveSlack, rowsKept
<1>2. ASSUME NEW r \in Req, NEW t \in Id, Refresh(r, t) \/ Logout(r, t)
      PROVE  RowsKnown' /\ RowsAge
  BY <1>2, SameKnown DEF Refresh, Logout
<1>3. ASSUME NEW r \in Req, \/ LookUpPhone(r) \/ OpenSession(r) \/ CheckStatus(r) \/ Rotate(r)
                            \/ ResetPassword(r) \/ DeleteCode(r)
      PROVE  RowsKnown' /\ RowsAge
  BY <1>3, SameKnown DEF LookUpPhone, OpenSession, CheckStatus, Rotate, ResetPassword, DeleteCode, rowsKept
<1>4. ASSUME NEW r \in Req, NEW u \in Uid, MakeCode(r, u)
      PROVE  RowsKnown' /\ RowsAge
  BY <1>4, SameKnown DEF MakeCode
<1>5. ASSUME NEW c \in Req, CodeExpires(c)
      PROVE  RowsKnown' /\ RowsAge
  BY <1>5, SameKnown DEF CodeExpires
<1> QED BY <1>1, <1>2, <1>3, <1>4, <1>5, CreationKnown, SlackKnown, AdminKnown DEF AccountsNext

LEMMA KnowsFrame ==
  ASSUME AccountsTypeOK, RowsAge, NEW q \in Req, Knows(q), acc'[q] = acc[q],
         at'[q] \in KnowsPerson => at[q] \in KnowsPerson,
         at'[q] \in KnowsRow => at[q] \in KnowsRow
  PROVE  Knows(q)'
<1>1. acc[q].user \in Somebody
  BY DEF AccountsTypeOK
<1>2. CASE acc[q].user = None
  BY <1>2 DEF Knows, There
<1>3. CASE acc[q].user \in Uid
  BY <1>3 DEF Knows, RowsAge
<1> QED BY <1>1, <1>2, <1>3 DEF Somebody

(* The handler at r knows what it has just read. *)
LEMMA ArrivalKnows ==
  ASSUME AccountsTypeOK, RowsKnown, HandlersKnow, NEW r \in Req, RequestsTypeOK, NEW p \in Person,
         ReceiveSms(r, p) \/ Register(r, p) \/ Login(r, p) \/ AskReset(r, p) \/ ReceiveSlack(r, p)
  PROVE  HandlersKnow'
<1>0. /\ acc \in [Req -> Locals] /\ at \in [Req -> Waiting \cup {"idle", "done"}]
      /\ UNCHANGED acct /\ Knows(r) /\ p # None
  BY DEF AccountsTypeOK, Locals, RequestsTypeOK, HandlersKnow,
         ReceiveSms, Register, Login, AskReset, ReceiveSlack, rowsKept
<1>1. \A q \in Req : q # r => at'[q] = at[q] /\ acc'[q] = acc[q]
  BY <1>0 DEF ReceiveSms, Register, Login, AskReset, ReceiveSlack, Begin, Goto
<1>2. Knows(r)'
  <2>1. CASE ReceiveSms(r, p) \/ Register(r, p)
    <3>1. acc'[r].person = p /\ acc'[r].user = acc[r].user /\ at'[r] \notin KnowsRow
      BY <1>0, <2>1 DEF ReceiveSms, Register, Begin, Goto, KnowsRow, Locals
    <3> QED BY <1>0, <3>1 DEF Knows
  <2>2. CASE Login(r, p)
    <3>1. PICK u \in WithEmail(p) : acc' = [acc EXCEPT ![r].user = u, ![r].era = era[u]]
      BY <2>2 DEF Login
    <3>2. acc'[r].user = u
      BY <1>0, <3>1 DEF Locals
    <3>3. at'[r] = "session"
      BY <1>0, <2>2 DEF Login, Begin, Goto
    <3> QED BY <1>0, <3>2, <3>3 DEF Knows, KnowsPerson, KnowsRow, WithEmail, There
  <2>3. CASE AskReset(r, p)
    <3>1. PICK u \in WithPhone(p) : acc' = [acc EXCEPT ![r].user = u]
      BY <2>3 DEF AskReset
    <3>2. acc'[r].user = u /\ at'[r] = "reset"
      BY <1>0, <2>3, <3>1 DEF AskReset, Begin, Goto, Locals
    <3> QED BY <1>0, <3>2 DEF Knows, KnowsPerson, KnowsRow, WithPhone, There
  <2>4. CASE Begin(r, "done") /\ UNCHANGED acc
    BY <1>0, <2>4 DEF Knows, KnowsPerson, KnowsRow, Begin, Goto
  <2>5. ASSUME NEW u \in Uid, There(u), acct[u].email = p, acc'[r].user = u, acc'[r].person = p
        PROVE  Knows(r)'
    <3>1. acct[u].phone = p
      BY <1>0, <2>5 DEF RowsKnown
    <3> QED BY <1>0, <2>5, <3>1 DEF Knows, There
  <2>6. ASSUME NEW c \in Req, There(code[c]), acct[code[c]].email = p,
               acc' = [acc EXCEPT ![r].person = p, ![r].user = code[c], ![r].ref = c]
        PROVE  Knows(r)'
    <3>1. acc'[r].user = code[c] /\ acc'[r].person = p
      BY <1>0, <2>6 DEF Locals
    <3>2. code[c] \in Uid
      BY <2>6 DEF There
    <3> QED BY <2>5, <2>6, <3>1, <3>2
  <2>7. ASSUME NEW u \in WithEmail(p), acc' = [acc EXCEPT ![r].person = p, ![r].user = u]
        PROVE  Knows(r)'
    <3>1. acc'[r].user = u /\ acc'[r].person = p
      BY <1>0, <2>7 DEF Locals
    <3>2. u \in Uid /\ There(u) /\ acct[u].email = p
      BY DEF WithEmail
    <3> QED BY <2>5, <3>1, <3>2
  <2> QED BY <2>1, <2>2, <2>3, <2>4, <2>6, <2>7 DEF ReceiveSlack
<1>3. ASSUME NEW q \in Req, q # r PROVE Knows(q)'
  <2>1. Knows(q) /\ RowsAge
    BY <1>0, SameKnown DEF HandlersKnow
  <2> QED BY <1>1, <1>3, <2>1, KnowsFrame
<1> QED BY <1>2, <1>3 DEF HandlersKnow

LEMMA CreateAccountKnows ==
  ASSUME AccountsTypeOK, RowsKnown, HandlersKnow, NEW r \in Req, RequestsTypeOK, RowsAge, CreateAccount(r)
  PROVE  HandlersKnow'
<1>0. /\ acc \in [Req -> Locals] /\ at \in [Req -> Waiting \cup {"idle", "done"}]
      /\ acct \in [Uid -> Account] /\ Knows(r) /\ at[r] = "register.create"
  BY DEF AccountsTypeOK, Locals, RequestsTypeOK, HandlersKnow, CreateAccount, Finish, Resume
<1>1. acc[r].person \in Person
  BY <1>0 DEF Knows, KnowsPerson
<1>2. \A q \in Req : q # r => at'[q] = at[q] /\ acc'[q] = acc[q]
  BY <1>0 DEF CreateAccount, Finish, Resume, Goto
<1>3. ASSUME NEW u \in Uid, acc' = [acc EXCEPT ![r].user = u, ![r].era = era[u]],
             acct'[u].phone = acc[r].person, acct'[u].life = "there"
      PROVE  Knows(r)'
  <2>1. acc'[r].user = u /\ acc'[r].person = acc[r].person
    BY <1>0, <1>3 DEF Locals
  <2> QED BY <1>1, <1>3, <2>1 DEF Knows
<1>4. ASSUME UNCHANGED <<acct, acc>> /\ Finish(r, "register.create") PROVE Knows(r)'
  BY <1>0, <1>4 DEF Knows, KnowsPerson, KnowsRow, Finish, Resume, Goto, There
<1>5. ASSUME There(acc[r].user),
             acct' = [acct EXCEPT ![acc[r].user] = [acct[acc[r].user] EXCEPT !.email = acc[r].person]],
             acc' = [acc EXCEPT ![r].user = acc[r].user, ![r].era = era[acc[r].user]]
      PROVE  Knows(r)'
  <2>1. acc[r].user \in Uid /\ acct[acc[r].user].phone = acc[r].person /\ acct[acc[r].user].life = "there"
    BY <1>0, <1>5 DEF There, Knows, KnowsRow
  <2>2. acct[acc[r].user] \in Account
    BY <1>0, <2>1
  <2>3. acct'[acc[r].user].phone = acc[r].person /\ acct'[acc[r].user].life = "there"
    BY <1>0, <1>5, <2>1, <2>2 DEF Account
  <2> QED BY <1>3, <1>5, <2>1, <2>3
<1>6. ASSUME NEW u \in Uid, Insert(u, Full(acc[r].person)),
             acc' = [acc EXCEPT ![r].user = u, ![r].era = era[u]]
      PROVE  Knows(r)'
  <2>1. acct'[u] = Full(acc[r].person)
    BY <1>0, <1>6 DEF Insert
  <2>2. acct'[u].phone = acc[r].person /\ acct'[u].life = "there"
    BY <2>1 DEF Full, Sms, NoAccount
  <2> QED BY <1>3, <1>6, <2>2
<1>7. Knows(r)'
  BY <1>4, <1>5, <1>6 DEF CreateAccount
<1>8. ASSUME NEW q \in Req, q # r PROVE Knows(q)'
  BY <1>2, <1>8, KnowsFrame DEF HandlersKnow
<1> QED BY <1>7, <1>8 DEF HandlersKnow

LEMMA LookUpKnows ==
  ASSUME AccountsTypeOK, RowsKnown, HandlersKnow, RequestsTypeOK,
         NEW r \in Req, NEW t \in Id, LookUpPhone(r) \/ Refresh(r, t)
  PROVE  HandlersKnow'
<1>0. /\ acc \in [Req -> Locals] /\ at \in [Req -> Waiting \cup {"idle", "done"}]
      /\ UNCHANGED acct /\ Knows(r) /\ RowsAge
  BY SameKnown DEF AccountsTypeOK, Locals, RequestsTypeOK, HandlersKnow, LookUpPhone, Refresh, rowsKept
<1>1. \A q \in Req : q # r => at'[q] = at[q] /\ acc'[q] = acc[q]
  BY <1>0 DEF LookUpPhone, Refresh, Begin, Resume, Goto
<1>2. ASSUME LookUpPhone(r) PROVE Knows(r)'
  <2>1. PICK u \in Somebody : /\ IsOneOrNone(WithPhone(acc[r].person), u)
                              /\ acc' = [acc EXCEPT ![r].user = u]
    BY <1>2 DEF LookUpPhone
  <2>2. acc'[r].user = u /\ acc'[r].person = acc[r].person
    BY <1>0, <2>1 DEF Locals
  <2>3. acc[r].person \in Person
    BY <1>0, <1>2 DEF LookUpPhone, Resume, Knows, KnowsPerson
  <2>4. u # None => u \in WithPhone(acc[r].person)
    BY <2>1 DEF IsOneOrNone
  <2> QED BY <1>0, <2>2, <2>3, <2>4 DEF Knows, WithPhone, There
<1>3. ASSUME Refresh(r, t) PROVE Knows(r)'
  <2>1. acc'[r].user = tok[t].user /\ tok[t].user # None
    BY <1>0, <1>3 DEF Refresh, Locals
  <2>2. acct[tok[t].user].life = "there"
    BY <2>1 DEF AccountsTypeOK
  <2>3. at'[r] = "refresh.user"
    BY <1>0, <1>3 DEF Refresh, Begin, Goto
  <2> QED BY <1>0, <2>1, <2>2, <2>3 DEF Knows, KnowsPerson, KnowsRow
<1>4. ASSUME NEW q \in Req, q # r PROVE Knows(q)'
  BY <1>0, <1>1, <1>4, KnowsFrame DEF HandlersKnow
<1>5. Knows(r)'
  BY <1>2, <1>3
<1> QED BY <1>4, <1>5 DEF HandlersKnow

LEMMA StepKnows ==
  ASSUME AccountsTypeOK, HandlersKnow, RequestsTypeOK, RowsAge, UNCHANGED acc,
         \A q \in Req : /\ at'[q] \in KnowsPerson => at[q] \in KnowsPerson
                        /\ at'[q] \in KnowsRow => at[q] \in KnowsRow
  PROVE  HandlersKnow'
BY KnowsFrame DEF HandlersKnow

LEMMA NextHandlers ==
  ASSUME AccountsTypeOK, RowsKnown, HandlersKnow, RequestsTypeOK, AccountsNext
  PROVE  HandlersKnow'
<1>0. RowsAge /\ at \in [Req -> Waiting \cup {"idle", "done"}]
  BY NextRows DEF RequestsTypeOK
<1> USE DEF Begin, Resume, Finish, Goto, KnowsPerson, KnowsRow
<1>1. ASSUME NEW r \in Req, CreateSmsUser(r) \/ AttachSlack(r) \/ LinkSlack(r)
      PROVE  HandlersKnow'
  BY <1>0, <1>1, StepKnows DEF CreateSmsUser, AttachSlack, LinkSlack
<1>2. ASSUME NEW r \in Req, NEW t \in Id,
             \/ OpenSession(r) \/ CheckStatus(r) \/ Rotate(r) \/ Logout(r, t) \/ ResetPassword(r)
             \/ DeleteCode(r)
      PROVE  HandlersKnow'
  BY <1>0, <1>2, StepKnows DEF OpenSession, CheckStatus, Rotate, Logout, ResetPassword, DeleteCode
<1>3. ASSUME NEW r \in Req, NEW u \in Uid,
             \/ MakeCode(r, u) \/ Restore(r, u) \/ Erase(r, u)
             \/ \E m \in {"suspended", "deleted"} : Mark(r, u, m)
      PROVE  HandlersKnow'
  BY <1>0, <1>3, StepKnows DEF MakeCode, Restore, Erase, Mark
<1>4. ASSUME NEW c \in Req, CodeExpires(c)
      PROVE  HandlersKnow'
  BY <1>0, <1>4, StepKnows DEF CodeExpires
<1>5. ASSUME NEW r \in Req, CreateAccount(r) PROVE HandlersKnow'
  BY <1>0, <1>5, CreateAccountKnows
<1>6. ASSUME NEW r \in Req, LookUpPhone(r) PROVE HandlersKnow'
  BY <1>6, LookUpKnows DEF Id
<1>7. ASSUME NEW r \in Req, NEW t \in Id, Refresh(r, t) PROVE HandlersKnow'
  BY <1>7, LookUpKnows
<1>8. ASSUME NEW r \in Req, OpenSession(r) \/ CheckStatus(r) \/ Rotate(r) \/ ResetPassword(r) \/ DeleteCode(r)
      PROVE  HandlersKnow'
  BY <1>2, <1>8 DEF Id
<1> QED BY <1>1, <1>2, <1>3, <1>4, <1>5, <1>6, <1>7, <1>8, ArrivalKnows DEF AccountsNext

AccountInv == RequestsTypeOK /\ AccountsTypeOK /\ RowsKnown /\ HandlersKnow

LEMMA InitAccountInv == Init => AccountInv
<1> SUFFICES ASSUME Init PROVE AccountInv
  OBVIOUS
<1>1. RequestsTypeOK /\ AccountsTypeOK
  BY InitAccounts DEF Init
<1>2. ASSUME NEW u \in Uid, There(u)
      PROVE  acct[u].phone \in Person /\ acct[u].email \in {None, acct[u].phone} /\ acct[u].slack = None
  <2>1. acct[u] = NoAccount \/ \E p \in Person : acct[u] = Sms(p) \/ acct[u] = Full(p)
    BY DEF Init, AccountsInit
  <2>2. NoAccount.life # "there"
    BY DEF NoAccount
  <2>3. \A p \in Person : /\ Sms(p).phone = p /\ Sms(p).email = None /\ Sms(p).slack = None
                          /\ Full(p).phone = p /\ Full(p).email = p /\ Full(p).slack = None
    BY DEF Sms, Full, NoAccount
  <2> QED BY <1>2, <2>1, <2>2, <2>3 DEF There
<1>3. RowsKnown
  BY <1>2 DEF RowsKnown, Init, AccountsInit
<1>4. HandlersKnow
  BY DEF HandlersKnow, Knows, Init, AccountsInit, RequestsInit, NoAcc, KnowsPerson, KnowsRow
<1> QED BY <1>1, <1>3, <1>4 DEF AccountInv

LEMMA NextAccountInv == AccountInv /\ [Next]_vars => AccountInv'
<1> SUFFICES ASSUME AccountInv, [Next]_vars PROVE AccountInv'
  OBVIOUS
<1>0. RequestsTypeOK'
  BY NextRequests DEF AccountInv
<1>1. CASE AccountsNext
  BY <1>0, <1>1, NextAccountTypes, NextRows, NextHandlers DEF AccountInv
<1>2. CASE UNCHANGED accountVars /\ StaysIn(AccountWaits)
  <2>1. AccountsTypeOK'
    BY <1>2 DEF AccountInv, AccountsTypeOK
  <2>2. RowsKnown' /\ RowsAge
    BY <1>2, SameKnown DEF AccountInv
  <2>3. \A q \in Req : /\ at'[q] \in KnowsPerson => at[q] \in KnowsPerson
                       /\ at'[q] \in KnowsRow => at[q] \in KnowsRow
    BY <1>2 DEF StaysIn, AccountWaits, KnowsPerson, KnowsRow
  <2>4. HandlersKnow'
    BY <1>2, <2>2, <2>3, StepKnows DEF AccountInv
  <2> QED BY <1>0, <2>1, <2>2, <2>4 DEF AccountInv
<1>3. CASE ConnectionsNext /\ UNCHANGED accountVars
  BY <1>2, <1>3, ConnectionsStayOut DEF AccountInv
<1>4. CASE UNCHANGED vars
  BY <1>2, <1>4 DEF vars, StaysIn
<1> QED BY <1>1, <1>3, <1>4, NextHalves

LEMMA AccountInvariant == Spec => []AccountInv
BY InitAccountInv, NextAccountInv, PTL DEF Spec

(* What one person is known by leads to one row: registrations, text       *)
(* messages and Slack messages of that person may interleave at every      *)
(* await, and the row may be deleted under them.  (register,               *)
(* get_or_create_user, link_slack_user; the unique columns.)               *)
THEOREM PersonsHaveOneAccount == Spec => []OneAccount
<1>1. AccountInv => OneAccount
  <2> SUFFICES ASSUME AccountInv, NEW u \in Uid, NEW v \in Uid, There(u), There(v), u # v
               PROVE  {acct[u].phone, acct[u].email, acct[u].slack}
                        \cap {acct[v].phone, acct[v].email, acct[v].slack} \subseteq {None}
    BY DEF OneAccount
  <2>1. acct[u].phone # acct[v].phone
    BY DEF AccountInv, RowsKnown
  <2> QED BY <2>1 DEF AccountInv, RowsKnown
<1> QED BY <1>1, AccountInvariant, PTL

------------------------------------------------------------------------------
(* A reset of the password sticks. *)

OpeningWaits == {"register.slack", "session", "refresh.user", "refresh.rotate"}

Opens(r) == at[r] \in OpeningWaits =>
  acc[r].user \in Uid /\ (acc[r].era = era[acc[r].user] \/ r \in overtaken)

EraInv == ResetSticks /\ \A r \in Req : Opens(r)

LEMMA OpensFrame ==
  ASSUME NEW q \in Req, Opens(q), acc'[q] = acc[q], at'[q] \in OpeningWaits => at[q] \in OpeningWaits,
         UNCHANGED era, overtaken \subseteq overtaken'
  PROVE  Opens(q)'
BY DEF Opens

LEMMA NextEra ==
  ASSUME AccountInv, EraInv, AccountsNext
  PROVE  EraInv'
<1>0. /\ acc \in [Req -> Locals] /\ at \in [Req -> Waiting \cup {"idle", "done"}]
      /\ tok \in [Id -> Token] /\ TokenOwned /\ era \in [Uid -> Nat] /\ ResetSticks
      /\ acct \in [Uid -> Account]
      /\ \A r \in Req : Opens(r)
  BY DEF AccountInv, AccountsTypeOK, RequestsTypeOK, Locals, Token, TokenOwned, EraInv
<1>1. ASSUME UNCHANGED <<tok, era>>, overtaken \subseteq overtaken', NEW r \in Req, Opens(r)',
             \A q \in Req : q # r => acc'[q] = acc[q] /\ at'[q] = at[q]
      PROVE  EraInv'
  BY <1>0, <1>1, OpensFrame DEF EraInv, ResetSticks
<1>2. ASSUME NEW r \in Req, UNCHANGED <<tok, era, overtaken, acc>>,
             at'[r] \in OpeningWaits => at[r] \in OpeningWaits,
             \A q \in Req : q # r => at'[q] = at[q]
      PROVE  EraInv'
  BY <1>0, <1>1, <1>2, OpensFrame
<1> USE DEF Begin, Finish, Resume, Goto, OpeningWaits
<1>3. ASSUME NEW r \in Req, NEW p \in Person, ReceiveSms(r, p) \/ Register(r, p) \/ AskReset(r, p) \/ ReceiveSlack(r, p)
      PROVE  EraInv'
  <2>1. /\ at'[r] \notin OpeningWaits /\ UNCHANGED <<tok, era, overtaken>>
        /\ \A q \in Req : q # r => acc'[q] = acc[q] /\ at'[q] = at[q]
    BY <1>0, <1>3 DEF ReceiveSms, Register, AskReset, ReceiveSlack, rowsKept
  <2> QED BY <1>1, <2>1 DEF Opens
<1>4. ASSUME NEW r \in Req, NEW p \in Person, Login(r, p)
      PROVE  EraInv'
  <2>1. PICK u \in WithEmail(p) : acc' = [acc EXCEPT ![r].user = u, ![r].era = era[u]]
    BY <1>4 DEF Login
  <2>2. acc'[r].user = u /\ acc'[r].era = era[u] /\ u \in Uid
    BY <1>0, <2>1 DEF Locals, WithEmail
  <2>3. /\ UNCHANGED <<tok, era, overtaken>>
        /\ \A q \in Req : q # r => acc'[q] = acc[q] /\ at'[q] = at[q]
    BY <1>0, <1>4, <2>1 DEF Login, rowsKept
  <2> QED BY <1>1, <2>2, <2>3 DEF Opens
<1>5. ASSUME NEW r \in Req, LookUpPhone(r)
      PROVE  EraInv'
  <2>1. /\ at'[r] \notin OpeningWaits /\ UNCHANGED <<tok, era, overtaken>>
        /\ \A q \in Req : q # r => acc'[q] = acc[q] /\ at'[q] = at[q]
    BY <1>0, <1>5 DEF LookUpPhone, rowsKept
  <2> QED BY <1>1, <2>1 DEF Opens
<1>6. ASSUME NEW r \in Req, CreateAccount(r)
      PROVE  EraInv'
  <2>1. /\ UNCHANGED <<tok, era, overtaken>>
        /\ \A q \in Req : q # r => acc'[q] = acc[q] /\ at'[q] = at[q]
    BY <1>0, <1>6 DEF CreateAccount
  <2>2. ASSUME NEW u \in Uid, acc' = [acc EXCEPT ![r].user = u, ![r].era = era[u]]
        PROVE  Opens(r)'
    <3>1. acc'[r].user = u /\ acc'[r].era = era[u]
      BY <1>0, <2>2 DEF Locals
    <3> QED BY <2>1, <3>1 DEF Opens
  <2>3. ASSUME at'[r] = "done" PROVE Opens(r)'
    BY <2>3 DEF Opens
  <2>4. Opens(r)'
    BY <1>0, <1>6, <2>2, <2>3 DEF CreateAccount, There
  <2> QED BY <1>1, <2>1, <2>4
<1>7. ASSUME NEW r \in Req, CreateSmsUser(r) \/ AttachSlack(r) \/ CheckStatus(r) \/ LinkSlack(r) \/ DeleteCode(r)
      PROVE  EraInv'
  BY <1>0, <1>2, <1>7 DEF CreateSmsUser, AttachSlack, CheckStatus, LinkSlack, DeleteCode
<1>8. ASSUME NEW r \in Req, NEW u \in Uid, \/ MakeCode(r, u) \/ Restore(r, u)
                                           \/ \E m \in {"suspended", "deleted"} : Mark(r, u, m)
      PROVE  EraInv'
  BY <1>0, <1>2, <1>8 DEF MakeCode, Restore, Mark
<1>9. ASSUME NEW c \in Req, CodeExpires(c)
      PROVE  EraInv'
  BY <1>0, <1>2, <1>9 DEF CodeExpires
<1>10. ASSUME NEW r \in Req, NEW t \in Id, Refresh(r, t)
      PROVE  EraInv'
  <2>1. acc'[r].user = tok[t].user /\ acc'[r].era = tok[t].era /\ tok[t].user \in Uid
    BY <1>0, <1>10 DEF Refresh, Locals, Token, Somebody
  <2>2. /\ UNCHANGED <<tok, era>> /\ overtaken' = (IF t \in overtaken THEN overtaken \cup {r} ELSE overtaken)
        /\ \A q \in Req : q # r => acc'[q] = acc[q] /\ at'[q] = at[q]
    BY <1>0, <1>10 DEF Refresh
  <2>3. Opens(r)'
    BY <1>0, <2>1, <2>2 DEF Opens, ResetSticks
  <2> QED BY <1>1, <2>2, <2>3
<1>11. ASSUME NEW r \in Req, OpenSession(r) \/ Rotate(r)
      PROVE  EraInv'
  <2>1. UNCHANGED <<acc, era, overtaken>> /\ \A q \in Req : Opens(q)'
    BY <1>0, <1>11, OpensFrame DEF OpenSession, Rotate
  <2>2. at[r] \in {"session", "refresh.rotate"}
    BY <1>11 DEF OpenSession, Rotate
  <2>3. \A t \in Id : tok'[t] \in {tok[t], NoToken}
                        \/ (t = r /\ tok'[t] = [user |-> acc[r].user, era |-> acc[r].era])
    BY <1>0, <1>11 DEF OpenSession, Rotate
  <2>4. ResetSticks'
    BY <1>0, <2>1, <2>2, <2>3 DEF ResetSticks, Opens, NoToken
  <2> QED BY <2>1, <2>4 DEF EraInv
<1>12. ASSUME NEW r \in Req, NEW t \in Id, Logout(r, t)
      PROVE  EraInv'
  <2>1. UNCHANGED <<acc, era, overtaken>> /\ \A q \in Req : Opens(q)'
    BY <1>0, <1>12, OpensFrame DEF Logout
  <2>2. \A s \in Id : tok'[s] \in {tok[s], NoToken}
    BY <1>0, <1>12 DEF Logout
  <2>3. ResetSticks'
    BY <1>0, <2>1, <2>2 DEF ResetSticks, NoToken
  <2> QED BY <2>1, <2>3 DEF EraInv
<1>13. ASSUME NEW r \in Req, NEW u \in Uid, Erase(r, u)
      PROVE  EraInv'
  <2>1. UNCHANGED <<acc, era, overtaken>> /\ \A q \in Req : Opens(q)'
    BY <1>0, <1>13, OpensFrame DEF Erase
  <2>2. \A s \in Id : tok'[s] \in {tok[s], NoToken}
    BY <1>0, <1>13 DEF Erase, Without
  <2>3. ResetSticks'
    BY <1>0, <2>1, <2>2 DEF ResetSticks, NoToken
  <2> QED BY <2>1, <2>3 DEF EraInv
<1>14. ASSUME NEW r \in Req, ResetPassword(r)
      PROVE  EraInv'
  <2>1. CASE UNCHANGED <<tok, era, overtaken>>
    BY <1>0, <1>2, <1>14, <2>1 DEF ResetPassword
  <2>2. CASE There(acc[r].user)
             /\ tok' = Without(acc[r].user)
             /\ era' = [era EXCEPT ![acc[r].user] = @ + 1]
             /\ overtaken' = overtaken \cup Opening(acc[r].user)
    <3>1. acc[r].user \in Uid /\ UNCHANGED acc
      BY <1>14, <2>2 DEF There, ResetPassword
    <3>2. \A q \in Req : at'[q] \in OpeningWaits => at[q] \in OpeningWaits
      BY <1>0, <1>14 DEF ResetPassword
    <3>3. \A v \in Uid : v # acc[r].user => era'[v] = era[v]
      BY <1>0, <2>2
    <3>4. ASSUME NEW q \in Req PROVE Opens(q)'
      <4>1. CASE acc[q].user = acc[r].user
        BY <2>2, <3>1, <3>2, <4>1 DEF Opens, Opening
      <4>2. CASE acc[q].user # acc[r].user
        BY <1>0, <2>2, <3>1, <3>2, <3>3, <4>2 DEF Opens
      <4> QED BY <4>1, <4>2
    <3>5. ASSUME NEW t \in Id, tok'[t].user # None
          PROVE  tok'[t].era = era'[tok'[t].user] \/ t \in overtaken'
      <4>1. tok'[t] = tok[t] /\ tok[t].user # acc[r].user
        BY <1>0, <2>2, <3>5 DEF Without, NoToken
      <4>2. tok[t].user \in Uid
        BY <1>0, <3>5, <4>1 DEF Token, Somebody
      <4> QED BY <1>0, <2>2, <3>3, <3>5, <4>1, <4>2 DEF ResetSticks
    <3> QED BY <3>4, <3>5 DEF EraInv, ResetSticks
  <2> QED BY <1>14, <2>1, <2>2 DEF ResetPassword
<1> QED BY <1>3, <1>4, <1>5, <1>6, <1>7, <1>8, <1>9, <1>10, <1>11, <1>12, <1>13, <1>14 DEF AccountsNext

(* A session goes back to a password that still holds, unless the request  *)
(* that opened it, or one it was refreshed from, was under way when the    *)
(* password was reset: a reset ends all the others.  (reset_password       *)
(* against login, register and refresh.)                                   *)
THEOREM ResetEndsSessions == Spec => []ResetSticks
<1>1. Init => EraInv
  <2> SUFFICES ASSUME Init PROVE EraInv
    OBVIOUS
  <2>1. \A r \in Req : Opens(r)
    BY DEF Init, RequestsInit, Opens, OpeningWaits
  <2>2. ASSUME NEW t \in Id, tok[t].user # None
        PROVE  tok[t].era = era[tok[t].user]
    BY <2>2 DEF Init, AccountsInit, NoToken
  <2> QED BY <2>1, <2>2 DEF EraInv, ResetSticks
<1>2. AccountInv /\ EraInv /\ [Next]_vars => EraInv'
  <2> SUFFICES ASSUME AccountInv, EraInv, [Next]_vars PROVE EraInv'
    OBVIOUS
  <2>1. CASE UNCHANGED accountVars /\ StaysIn(AccountWaits)
    <3>1. \A q \in Req : at'[q] \in OpeningWaits => at[q] \in OpeningWaits
      BY <2>1 DEF StaysIn, AccountWaits, OpeningWaits
    <3> QED BY <2>1, <3>1 DEF EraInv, ResetSticks, Opens
  <2>2. CASE ConnectionsNext /\ UNCHANGED accountVars
    BY <2>1, <2>2, ConnectionsStayOut DEF AccountInv
  <2>3. CASE UNCHANGED vars
    BY <2>1, <2>3 DEF vars, StaysIn
  <2> QED BY <2>2, <2>3, NextEra, NextHalves
<1>3. EraInv => ResetSticks
  BY DEF EraInv
<1> QED BY <1>1, <1>2, <1>3, AccountInvariant, PTL DEF Spec
=============================================================================
