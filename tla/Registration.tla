---------------------------- MODULE Registration ----------------------------
(***************************************************************************)
(* Accounts are opened with an invitation and a mailed code (the auth      *)
(* package of the business service).  The code lives in Redis, the account *)
(* and the invitation in PostgreSQL: a registration is one transaction     *)
(* that uses up a code on its way, and rolling it back does not give the   *)
(* code back.  Requests of both kinds overlap and may fail at any command. *)
(***************************************************************************)
EXTENDS Naturals, FiniteSets

CONSTANTS
  Emails, Invites,
  Mailers,        \* requests for a code
  Registrations,  \* requests to open an account
  MaxEntries,     \* entries of a code (five in the code)
  NoOne           \* no registration, no email, no invite

ASSUME RegistrationAssumption ==
  /\ IsFiniteSet(Mailers) /\ MaxEntries \in Nat
  /\ NoOne \notin Emails \cup Invites \cup Registrations

Codes == 1..Cardinality(Mailers)   \* each mail has a code of its own
NoCode == 0

VARIABLES
  mailer,    \* the requests for a code
  cooldown,  \* hommey:auth:cooldown:<email>
  code,      \* hommey:auth:code:<email>
  attempts,  \* hommey:auth:attempts:<email>
  mailed,    \* the codes that reached a mailbox
  reg,       \* the registrations, each with what its transaction wrote
  account,   \* users: the registration that made the account of an email
  used,      \* invite_codes.used_by_user_id
  verified   \* history: the codes a registration was admitted with

rgVars == <<mailer, cooldown, code, attempts, mailed, reg, account, used, verified>>
mailing == <<mailer, cooldown, mailed>>
redis == <<code, attempts>>
tables == <<account, used>>

Mailer == [at : {"new", "cooled", "stored", "reset", "done"}, email : Emails \cup {NoOne},
           code : Codes \cup {NoCode}]
Registration == [at : {"new", "checked", "verified", "created", "consumed", "done", "failed"},
                 email : Emails \cup {NoOne}, invite : Invites \cup {NoOne}]

RGTypeOK ==
  /\ mailer \in [Mailers -> Mailer]
  /\ cooldown \subseteq Emails
  /\ code \in [Emails -> Codes \cup {NoCode}]
  /\ attempts \in [Emails -> 0..MaxEntries]
  /\ mailed \subseteq Emails \X Codes
  /\ reg \in [Registrations -> Registration]
  /\ account \in [Emails -> Registrations \cup {NoOne}]
  /\ used \in [Invites -> Registrations \cup {NoOne}]
  /\ verified \subseteq Codes \X Registrations

RGInit ==
  /\ mailer = [m \in Mailers |-> [at |-> "new", email |-> NoOne, code |-> NoCode]]
  /\ cooldown = {} /\ mailed = {} /\ verified = {}
  /\ code = [e \in Emails |-> NoCode] /\ attempts = [e \in Emails |-> 0]
  /\ reg = [r \in Registrations |-> [at |-> "new", email |-> NoOne, invite |-> NoOne]]
  /\ account = [e \in Emails |-> NoOne] /\ used = [i \in Invites |-> NoOne]

Available(i) == used[i] = NoOne

-----------------------------------------------------------------------------
(* RegistrationService.send, from the query of the user on.                *)

MailerTo(m, at) == mailer' = [mailer EXCEPT ![m].at = at]
NextCode == 1 + Cardinality({m \in Mailers : mailer[m].code # NoCode})

\* The captcha, a limit of the address, an email that is known already, which
\* is answered as if a code had been sent, or an invitation that is used up.
Decline(m) ==
  /\ mailer[m].at = "new" /\ MailerTo(m, "done")
  /\ UNCHANGED <<cooldown, mailed, redis, reg, tables, verified>>

StartCooldown(m, e) ==
  /\ mailer[m].at = "new" /\ account[e] = NoOne /\ \E i \in Invites : Available(i)
  /\ e \notin cooldown
  /\ cooldown' = cooldown \cup {e}
  /\ mailer' = [mailer EXCEPT ![m] = [@ EXCEPT !.at = "cooled", !.email = e]]
  /\ UNCHANGED <<mailed, redis, reg, tables, verified>>

CooldownEnds(e) ==
  /\ e \in cooldown /\ cooldown' = cooldown \ {e}
  /\ UNCHANGED <<mailer, mailed, redis, reg, tables, verified>>

StoreCode(m) ==
  LET e == mailer[m].email IN
  /\ mailer[m].at = "cooled"
  /\ mailer' = [mailer EXCEPT ![m] = [@ EXCEPT !.at = "stored", !.code = NextCode]]
  /\ code' = [code EXCEPT ![e] = NextCode]
  /\ UNCHANGED <<cooldown, mailed, attempts, reg, tables, verified>>

ResetAttempts(m) ==
  /\ mailer[m].at = "stored" /\ MailerTo(m, "reset")
  /\ attempts' = [attempts EXCEPT ![mailer[m].email] = 0]
  /\ UNCHANGED <<cooldown, mailed, code, reg, tables, verified>>

\* The mail may arrive although the call to the mail service fails.
SendMail(m) ==
  /\ mailer[m].at = "reset" /\ MailerTo(m, "done")
  /\ mailed' \in {mailed, mailed \cup {<<mailer[m].email, mailer[m].code>>}}
  /\ UNCHANGED <<cooldown, redis, reg, tables, verified>>

\* A limit, or Redis or the process fails between two commands.
MailerFails(m) ==
  /\ mailer[m].at \in {"cooled", "stored", "reset"} /\ MailerTo(m, "done")
  /\ UNCHANGED <<cooldown, mailed, redis, reg, tables, verified>>

CodeExpires(e) ==
  /\ code' \in {code, [code EXCEPT ![e] = NoCode]}
  /\ attempts' \in {attempts, [attempts EXCEPT ![e] = 0]}
  /\ UNCHANGED <<mailing, reg, tables, verified>>

-----------------------------------------------------------------------------
(* AuthService.register, one transaction.                                  *)

RegTo(r, at) == reg' = [reg EXCEPT ![r].at = at]

CheckInvite(r, e, i) ==
  /\ reg[r].at = "new"
  /\ reg' = [reg EXCEPT ![r] = [at |-> IF Available(i) THEN "checked" ELSE "failed",
                                email |-> e, invite |-> i]]
  /\ UNCHANGED <<mailing, redis, tables, verified>>

\* The script of verifyCode, for what the user types in: a code from a mail to
\* this address, or a mistyped one.
Typed(e) == {c \in Codes : <<e, c>> \in mailed} \cup {NoCode}

KeptCode(r, typed) ==
  /\ RegTo(r, "verified")
  /\ verified' = verified \cup {<<typed, r>>}
  /\ UNCHANGED redis

Admitted(r, typed) ==
  LET e == reg[r].email IN
  /\ RegTo(r, "verified")
  /\ verified' = verified \cup {<<typed, r>>}
  /\ code' = [code EXCEPT ![e] = NoCode] /\ attempts' = [attempts EXCEPT ![e] = 0]

OneTooMany(e) == attempts[e] > MaxEntries
TooMany(e) == attempts[e] >= MaxEntries

VerifyCode(r, typed) ==
  LET e == reg[r].email IN
  /\ reg[r].at = "checked"
  /\ \/ /\ code[e] # NoCode /\ ~TooMany(e) /\ code[e] = typed
        /\ Admitted(r, typed)
     \/ /\ RegTo(r, "failed") /\ UNCHANGED verified
        /\ \/ code[e] = NoCode /\ UNCHANGED redis
           \/ /\ code[e] # NoCode /\ TooMany(e)
              /\ code' = [code EXCEPT ![e] = NoCode]
              /\ attempts' = [attempts EXCEPT ![e] = 0]
           \/ /\ code[e] \notin {NoCode, typed} /\ ~TooMany(e)
              /\ attempts' = [attempts EXCEPT ![e] = @ + 1] /\ UNCHANGED code
  /\ UNCHANGED <<mailing, tables>>

\* INSERT into users: it waits for another transaction that inserted the same
\* email, and fails if that one committed.
Inserted(e) == {r \in Registrations : reg[r].email = e /\ reg[r].at \in {"created", "consumed"}}
CreateUser(r) ==
  LET e == reg[r].email IN
  /\ reg[r].at = "verified" /\ Inserted(e) = {}
  /\ RegTo(r, IF account[e] = NoOne THEN "created" ELSE "failed")
  /\ UNCHANGED <<mailing, redis, tables, verified>>

\* UPDATE invite_codes: it waits for the transaction that has written the row
\* and then looks at used_at again.
Writing(i) == {r \in Registrations : reg[r].invite = i /\ reg[r].at = "consumed"}
Consumable(i) == Available(i)
ConsumeInvite(r) ==
  /\ reg[r].at = "created" /\ Writing(reg[r].invite) = {}
  /\ RegTo(r, IF Consumable(reg[r].invite) THEN "consumed" ELSE "failed")
  /\ UNCHANGED <<mailing, redis, tables, verified>>

CommitUser(r) ==
  /\ reg[r].at = "consumed" /\ RegTo(r, "done")
  /\ account' = [account EXCEPT ![reg[r].email] = r]
  /\ used' = [used EXCEPT ![reg[r].invite] = r]
  /\ UNCHANGED <<mailing, redis, verified>>

\* The connection or the process is lost: PostgreSQL rolls back.
RollBack(r) ==
  /\ reg[r].at \in {"checked", "verified", "created", "consumed"} /\ RegTo(r, "failed")
  /\ UNCHANGED <<mailing, redis, tables, verified>>

RGNext ==
  \/ \E m \in Mailers :
       \/ Decline(m) \/ StoreCode(m) \/ ResetAttempts(m) \/ SendMail(m) \/ MailerFails(m)
       \/ \E e \in Emails : StartCooldown(m, e)
  \/ \E e \in Emails : CooldownEnds(e) \/ CodeExpires(e)
  \/ \E r \in Registrations :
       \/ \E e \in Emails, i \in Invites : CheckInvite(r, e, i)
       \/ reg[r].at = "checked" /\ \E typed \in Typed(reg[r].email) : VerifyCode(r, typed)
       \/ CreateUser(r) \/ ConsumeInvite(r) \/ CommitUser(r) \/ RollBack(r)

RGSpec == RGInit /\ [][RGNext]_rgVars

-----------------------------------------------------------------------------
\* Accounts and used invitations correspond one to one, whatever registrations
\* race for an email or an invitation and whichever of them roll back
\* (AuthService.java:43-58, UserRepository.java:49-56).
AccountsMatchInvites ==
  /\ \A e \in Emails : account[e] # NoOne => \E i \in Invites : used[i] = account[e]
  /\ \A i \in Invites : used[i] # NoOne => \E e \in Emails : account[e] = used[i]
  /\ \A i, j \in Invites : used[i] = used[j] /\ used[i] # NoOne => i = j

\* An account was admitted with a code of its own: no mailed code admits two
\* registrations, in whatever order they come and whatever is sent meanwhile
\* (RegistrationService.java:127-146).
CodesAdmitOnce ==
  \A e \in Emails : account[e] # NoOne =>
    \E c \in Codes : <<e, c>> \in mailed /\ {r \in Registrations : <<c, r>> \in verified} = {account[e]}

\* An account costs one invitation and one code of its own (AuthService.java:43-58).
AccountsArePaid == AccountsMatchInvites /\ CodesAdmitOnce
=============================================================================
