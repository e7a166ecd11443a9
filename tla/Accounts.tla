------------------------------ MODULE Accounts ------------------------------
(***************************************************************************)
(* User rows, the sessions of the dashboard, and the codes that link Slack *)
(* (routes auth.py, admin.py, slack.py; the users part of the store).      *)
(***************************************************************************)
EXTENDS Requests

CONSTANTS Person   \* each with a phone, an email address and a Slack id

ASSUME PersonAssumption == None \notin Person

VARIABLES
  acct,      \* the table User
  tok,       \* the table UserSession: whose session it is, since which password
  code,      \* slack_link:{code}: the user row, None if there is none
  acc,       \* acc[r]: the locals of r's handler
  era,       \* era[u]: how often u's password was reset (history)
  overtaken  \* sessions opened by requests that a reset overtook (history)

accountVars == <<acct, tok, code, acc, era, overtaken>>

Someone == Person \cup {None}
Somebody == Uid \cup {None}

NoAccount == [life |-> "free", phone |-> None, email |-> None, slack |-> None, marks |-> {}]
NoToken == [user |-> None, era |-> 0]
NoAcc == [person |-> None, user |-> None, ref |-> None, era |-> 0]

Account == [life : {"free", "there", "gone"}, phone : Someone, email : Someone,
            slack : Someone, marks : SUBSET {"suspended", "deleted"}]

Sms(p) == [NoAccount EXCEPT !.life = "there", !.phone = p]
Full(p) == [Sms(p) EXCEPT !.email = p]

AccountsInit ==
  /\ acct \in [Uid -> {NoAccount} \cup {Sms(p) : p \in Person} \cup {Full(p) : p \in Person}]
  /\ \A u, v \in Uid : u # v /\ acct[u].phone = acct[v].phone => acct[u].phone = None
  /\ tok \in [Id -> {NoToken} \cup [user : {u \in Uid : acct[u].email # None}, era : {0}]]
  /\ \A r \in Req : tok[r] = NoToken
  /\ code = [r \in Req |-> None]
  /\ acc = [r \in Req |-> NoAcc]
  /\ era = [u \in Uid |-> 0]
  /\ overtaken = {}

AccountsTypeOK ==
  /\ acct \in [Uid -> Account]
  /\ tok \in [Id -> [user : Somebody, era : Nat]]
  /\ code \in [Req -> Somebody]
  /\ acc \in [Req -> [person : Someone, user : Somebody, ref : Id \cup {None}, era : Nat]]
  /\ era \in [Uid -> Nat]
  /\ overtaken \subseteq Req
  /\ \A t \in Id : tok[t].user # None => acct[tok[t].user].life = "there"

There(u) == u \in Uid /\ acct[u].life = "there"
Served(u) == There(u) /\ acct[u].marks = {}   \* get_current_user lets it pass
Registered(u) == Served(u) /\ acct[u].email # None

WithPhone(p) == {u \in Uid : There(u) /\ acct[u].phone = p}
WithEmail(p) == {u \in Uid : There(u) /\ acct[u].email = p}
WithSlack(p) == {u \in Uid : There(u) /\ acct[u].slack = p}

(* scalar_one_or_none, for a column that is unique. *)
IsOneOrNone(U, x) == IF U = {} THEN x = None ELSE x \in U

rowsKept == UNCHANGED <<acct, tok, code, era, overtaken>>

------------------------------------------------------------------------------
(* get_or_create_user, for a text message.                                 *)
ReceiveSms(r, p) ==
  /\ Begin(r, IF WithPhone(p) = {} THEN "sms.create" ELSE "done")
  /\ acc' = [acc EXCEPT ![r].person = p]
  /\ rowsKept

(* Mutant: phone is not declared unique. *)
Unique_EmailOnly(row) == row.email = None \/ WithEmail(row.email) = {}

(* The columns phone, email and slack_user_id are unique: of two handlers  *)
(* that found nothing, the second fails to commit.                         *)
Unique(row) ==
  /\ row.phone = None \/ WithPhone(row.phone) = {}
  /\ row.email = None \/ WithEmail(row.email) = {}

Insert(u, row) ==
  /\ acct[u].life = "free" /\ Unique(row)
  /\ acct' = [acct EXCEPT ![u] = row]

CreateSmsUser(r) ==
  /\ Finish(r, "sms.create")
  /\ \/ \E u \in Uid : Insert(u, Sms(acc[r].person))
     \/ ~ Unique(Sms(acc[r].person)) /\ UNCHANGED acct
  /\ UNCHANGED <<tok, code, acc, era, overtaken>>

(* register, to its first await.                                           *)
Register(r, p) ==
  /\ Begin(r, IF WithEmail(p) = {} THEN "register.phone" ELSE "done")
  /\ acc' = [acc EXCEPT ![r].person = p]
  /\ rowsKept

LookUpPhone(r) ==
  /\ \E u \in Somebody :
       /\ IsOneOrNone(WithPhone(acc[r].person), u)
       /\ acc' = [acc EXCEPT ![r].user = u]
       /\ Resume(r, "register.phone",
            IF u # None /\ acct[u].email # None THEN "done" ELSE "register.create")
  /\ rowsKept

(* An account that wrote text messages before is upgraded where it is.     *)
(* The row may be gone again, or its email taken: then the commit fails.   *)
CreateAccount(r) ==
  LET p == acc[r].person
      created(u) == /\ acc' = [acc EXCEPT ![r].user = u, ![r].era = era[u]]
                    /\ \E s \in {"session", "register.slack"} : Resume(r, "register.create", s)
      upgraded == [acct[acc[r].user] EXCEPT !.email = p]
  IN  /\ \/ /\ acc[r].user # None
            /\ There(acc[r].user) /\ WithEmail(p) \subseteq {acc[r].user}
            /\ acct' = [acct EXCEPT ![acc[r].user] = upgraded]
            /\ created(acc[r].user)
         \/ /\ acc[r].user = None
            /\ \E u \in Uid : Insert(u, Full(p)) /\ created(u)
         \/ /\ IF acc[r].user = None THEN ~ Unique(Full(p))
               ELSE ~ There(acc[r].user) \/ ~ WithEmail(p) \subseteq {acc[r].user}
            /\ Finish(r, "register.create")
            /\ UNCHANGED <<acct, acc>>
      /\ UNCHANGED <<tok, code, era, overtaken>>

SlackIsFree(u, p) == WithSlack(p) \subseteq {u}

(* The account exists already when this commit fails.                      *)
AttachSlack(r) ==
  LET u == acc[r].user IN
  /\ \/ /\ There(u) /\ SlackIsFree(u, acc[r].person)
        /\ Resume(r, "register.slack", "session")
        /\ acct' = [acct EXCEPT ![u].slack = acc[r].person]
     \/ /\ ~ There(u) \/ ~ SlackIsFree(u, acc[r].person)
        /\ Finish(r, "register.slack")
        /\ UNCHANGED acct
  /\ UNCHANGED <<tok, code, acc, era, overtaken>>

Login(r, p) ==
  /\ \E u \in WithEmail(p) :
       /\ Served(u)
       /\ acc' = [acc EXCEPT ![r].user = u, ![r].era = era[u]]
  /\ Begin(r, "session")
  /\ rowsKept

(* The end of register and of login; without the user row the foreign key  *)
(* makes it fail.                                                          *)
OpenSession(r) ==
  /\ Finish(r, "session")
  /\ tok' = IF There(acc[r].user)
              THEN [tok EXCEPT ![r] = [user |-> acc[r].user, era |-> acc[r].era]] ELSE tok
  /\ UNCHANGED <<acct, code, acc, era, overtaken>>

(* refresh: the session is selected, the user's status is looked at, and   *)
(* the session is replaced, whether or not it is still there.              *)
Refresh(r, t) ==
  /\ tok[t].user # None
  /\ Begin(r, "refresh.user")
  /\ acc' = [acc EXCEPT ![r].user = tok[t].user, ![r].ref = t, ![r].era = tok[t].era]
  /\ overtaken' = IF t \in overtaken THEN overtaken \cup {r} ELSE overtaken
  /\ UNCHANGED <<acct, tok, code, era>>

CheckStatus(r) ==
  /\ Resume(r, "refresh.user", IF Served(acc[r].user) THEN "refresh.rotate" ELSE "done")
  /\ UNCHANGED accountVars

Rotate(r) ==
  /\ Finish(r, "refresh.rotate")
  /\ tok' = IF There(acc[r].user)
              THEN [tok EXCEPT ![acc[r].ref] = NoToken,
                               ![r] = [user |-> acc[r].user, era |-> acc[r].era]] ELSE tok
  /\ UNCHANGED <<acct, code, acc, era, overtaken>>

Logout(r, t) ==
  /\ Begin(r, "done")
  /\ tok' = [tok EXCEPT ![t] = NoToken]
  /\ UNCHANGED <<acct, code, acc, era, overtaken>>

(* reset_password: the account is looked up, the code is checked outside.  *)
AskReset(r, p) ==
  /\ \E u \in WithPhone(p) : acct[u].email # None /\ acc' = [acc EXCEPT ![r].user = u]
  /\ Begin(r, "reset")
  /\ rowsKept

Without(u) == [t \in Id |-> IF tok[t].user = u THEN NoToken ELSE tok[t]]

Opening(u) == {r \in Req : acc[r].user = u /\ at[r] \in
  {"register.slack", "session", "refresh.user", "refresh.rotate"}}

(* Mutant: the sessions are left alone. *)
ResetPassword_KeepsSessions(r) ==
  LET u == acc[r].user IN
  /\ Finish(r, "reset")
  /\ There(u)
  /\ era' = [era EXCEPT ![u] = @ + 1]
  /\ overtaken' = overtaken \cup Opening(u)
  /\ UNCHANGED <<acct, tok, code, acc>>

ResetPassword(r) ==
  LET u == acc[r].user IN
  /\ Finish(r, "reset")
  /\ \/ /\ There(u)
        /\ tok' = Without(u)
        /\ era' = [era EXCEPT ![u] = @ + 1]
        /\ overtaken' = overtaken \cup Opening(u)
     \/ UNCHANGED <<tok, era, overtaken>>
  /\ UNCHANGED <<acct, code, acc>>

------------------------------------------------------------------------------
(* generate_slack_link_code; a code dies after ten minutes.                *)
MakeCode(r, u) ==
  /\ Registered(u)
  /\ Begin(r, "done")
  /\ code' = [code EXCEPT ![r] = u]
  /\ UNCHANGED <<acct, tok, acc, era, overtaken>>

CodeExpires(c) ==
  /\ code[c] # None
  /\ code' = [code EXCEPT ![c] = None]
  /\ UNCHANGED <<at, acct, tok, acc, era, overtaken>>

(* A Slack message of an unknown sender: a code of theirs, or an account   *)
(* with their email; everybody else is shown the way.                      *)
ReceiveSlack(r, p) ==
  /\ \/ WithSlack(p) # {} /\ Begin(r, "done") /\ UNCHANGED acc
     \/ /\ WithSlack(p) = {}
        /\ \/ \E c \in Req : /\ There(code[c]) /\ acct[code[c]].email = p
                             /\ acc' = [acc EXCEPT ![r].person = p, ![r].user = code[c], ![r].ref = c]
           \/ \E u \in WithEmail(p) : acc' = [acc EXCEPT ![r].person = p, ![r].user = u]
        /\ Begin(r, "slack.link")
     \/ /\ WithSlack(p) = {} /\ WithEmail(p) = {}
        /\ Begin(r, "done") /\ UNCHANGED acc
  /\ rowsKept

(* link_slack_user: a row that is gone is passed over in silence.          *)
LinkSlack(r) ==
  LET u == acc[r].user IN
  /\ IF There(u) /\ SlackIsFree(u, acc[r].person)
       THEN acct' = [acct EXCEPT ![u].slack = acc[r].person]
       ELSE UNCHANGED acct
  /\ Resume(r, "slack.link",
       IF acc[r].ref # None /\ (There(u) => SlackIsFree(u, acc[r].person)) THEN "slack.delete" ELSE "done")
  /\ UNCHANGED <<tok, code, acc, era, overtaken>>

DeleteCode(r) ==
  /\ Finish(r, "slack.delete")
  /\ code' = [code EXCEPT ![acc[r].ref] = None]
  /\ UNCHANGED <<acct, tok, acc, era, overtaken>>

------------------------------------------------------------------------------
(* suspend_user and soft_delete_user; neither ends a session.              *)
Mark(r, u, m) ==
  /\ There(u) /\ m \in {"suspended", "deleted"} \ acct[u].marks
  /\ Begin(r, "done")
  /\ acct' = [acct EXCEPT ![u].marks = @ \cup {m}]
  /\ UNCHANGED <<tok, code, acc, era, overtaken>>

Restore(r, u) ==
  /\ There(u)
  /\ Begin(r, "done")
  /\ acct' = [acct EXCEPT ![u].marks = {}]
  /\ UNCHANGED <<tok, code, acc, era, overtaken>>

(* Mutant: the sessions of the account stay. *)
Erase_KeepsSessions(r, u) ==
  /\ There(u)
  /\ "deleted" \in acct[u].marks \/ Registered(u)
  /\ Begin(r, "done")
  /\ acct' = [acct EXCEPT ![u] = [NoAccount EXCEPT !.life = "gone"]]
  /\ UNCHANGED <<tok, code, acc, era, overtaken>>

(* hard_purge_user by an admin, delete_account by the user.  The latter    *)
(* asks the connections service first, by a route that it does not have.   *)
Erase(r, u) ==
  /\ There(u)
  /\ "deleted" \in acct[u].marks \/ Registered(u)
  /\ Begin(r, "done")
  /\ acct' = [acct EXCEPT ![u] = [NoAccount EXCEPT !.life = "gone"]]
  /\ tok' = Without(u)
  /\ UNCHANGED <<code, acc, era, overtaken>>

AccountsNext ==
  \/ \E r \in Req :
       \/ \E p \in Person : \/ ReceiveSms(r, p) \/ Register(r, p) \/ Login(r, p)
                            \/ AskReset(r, p) \/ ReceiveSlack(r, p)
       \/ \E u \in Uid : \/ MakeCode(r, u) \/ Restore(r, u) \/ Erase(r, u)
                         \/ \E m \in {"suspended", "deleted"} : Mark(r, u, m)
       \/ \E t \in Id : Refresh(r, t) \/ Logout(r, t)
       \/ CreateSmsUser(r) \/ LookUpPhone(r) \/ CreateAccount(r) \/ AttachSlack(r)
       \/ OpenSession(r) \/ CheckStatus(r) \/ Rotate(r) \/ ResetPassword(r)
       \/ LinkSlack(r) \/ DeleteCode(r)
  \/ \E c \in Req : CodeExpires(c)
=============================================================================
