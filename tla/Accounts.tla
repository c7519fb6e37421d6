------------------------------- MODULE Accounts -------------------------------
(***************************************************************************)
(* The accounts of the server's users: invitations, the second factor and  *)
(* its recovery codes, the administrator's requests on other accounts, and *)
(* the setup wizard (server/app/main.py, auth.py and database.py), with    *)
(* local sign-in on (AUTH_MODE "hybrid").                                   *)
(*                                                                         *)
(* A request is answered in steps.  An asynchronous handler waits for the  *)
(* request's body, and what it has read before that it uses after it; from *)
(* there on the event loop runs none of the others (LoopIsFree).  The      *)
(* handlers that are not asynchronous run on                               *)
(* worker threads, once the caller has been looked up (current_user), and  *)
(* any step may come between two of their statements.  A step below is one *)
(* stretch in which no step of another request makes a difference to it.   *)
(***************************************************************************)
EXTENDS Access

CONSTANTS
  Names,      \* user names
  Emails,
  Invites,    \* tokens of invitations
  Requests,   \* bound: requests under way at once
  Secrets,    \* secrets of authenticators
  None,
  MaxMoves    \* bound: requests begun, sign-ins included

\* Rows of the tables users and invites, and what edit_user may be asked for.
UserRows ==
  [email : Emails \cup {None}, admin : BOOLEAN, secret : Secrets \cup {None},
   on : BOOLEAN]
InviteRows == [email : Emails, admin : BOOLEAN, code : BOOLEAN, used : BOOLEAN]
Edits == [admin : BOOLEAN \cup {None}, email : Emails \cup {None}]

\* The requests that are answered in steps.
Own == {"setup", "enable", "recovery", "disable", "email"}
OfAdmins == {"edit", "delete", "invite", "revoke", "reset"}
Asked ==
  [op : Own \cup OfAdmins \cup {"send", "accept", "wizard"},
   by : Names \cup {None}, admin : BOOLEAN,
   step : {"begun", "stored", "on", "checked", "made", "writing"},
   held : Names \cup Emails \cup Invites \cup {None},
   row : UserRows \cup InviteRows \cup Edits \cup {None}]

ASSUME NoneAssumption ==
  None \notin Names \cup Emails \cup Secrets \cup UserRows \cup InviteRows \cup Asked
ASSUME MovesAssumption == MaxMoves \in Nat

VARIABLES
  user,      \* user[n]: the row [email, admin, secret, on], or None
  codes,     \* codes[n]: "none" issued, some "left", or all "used"
  invite,    \* invite[i]: the row [email, admin, code, used], or None
  complete,  \* the settings say that the setup is complete
  session,   \* the names that some browser or console is signed in as
  req,       \* req[r]: [op, by, admin, step, ...] or None
  mail,      \* the server can send mail
  enforced,  \* RMM_ENFORCE_2FA
  moves,
  invited,   \* the invitations that there have been
  made,      \* made[i]: how many accounts have been made of i
  torn,      \* the invitations that a stop of the server has left open after an
             \* account was made of them
  cut        \* the names whose enabling of the second factor was cut in two
             \* by a stop of the server

rows == <<user, codes, invite, complete>>
history == <<invited, made, torn, cut>>
vars == <<rows, session, req, mail, enforced, moves, history>>

-----------------------------------------------------------------------------
(* Rows and requests.                                                      *)

Exists(n) == user[n] # None
IsAdmin(n) == Exists(n) /\ user[n].admin
Admins == {n \in Names : IsAdmin(n)}

\* create_user: INSERT OR REPLACE, so nothing is left of an older row.
Row(email, admin) == [email |-> email, admin |-> admin, secret |-> None, on |-> FALSE]

\* UPDATE users SET ... WHERE username=?: nothing without the row
Updated(n, row) == IF Exists(n) THEN [user EXCEPT ![n] = row] ELSE user

\* get_user_by_email
Taken(email, n) ==
  email # None /\ \E other \in Names \ {n} : Exists(other) /\ user[other].email = email

Op(r, op, step) == req[r] # None /\ req[r].op = op /\ req[r].step = step

\* A request, with what its handler holds: the caller, whether that was an
\* administrator when it was looked up, and the row read so far.
Request(op, by, held, row) ==
  [op |-> op, by |-> by, admin |-> by # None /\ IsAdmin(by), step |-> "begun",
   held |-> held, row |-> row]

Begin(r, q) ==
  /\ moves < MaxMoves
  /\ moves' = moves + 1
  /\ req[r] = None
  /\ req' = [req EXCEPT ![r] = q]
  /\ UNCHANGED <<rows, session, mail, enforced, history>>

\* No coroutine but r's has gone on after its await and not yet ended.
LoopIsFree(r) ==
  \A q \in Requests \ {r} :
    req[q] # None => req[q].step \notin {"on", "made", "writing"}

Goes(r, step) == req' = [req EXCEPT ![r].step = step]
Ends(r) == req' = [req EXCEPT ![r] = None]

\* The rest of a handler that is for administrators: the caller was one when
\* the request came in.
AsAdmin(r, op) ==
  /\ Op(r, op, "begun")
  /\ req[r].admin

\* What a request leaves alone, besides what its step names.
Still == UNCHANGED <<mail, enforced, moves>>

Init ==
  /\ \/ \E n \in Names, e \in Emails \cup {None} :
          /\ user = [m \in Names |-> IF m = n THEN Row(e, TRUE) ELSE None]
          /\ complete = TRUE
     \/ user = [m \in Names |-> None] /\ complete = FALSE
  /\ codes = [n \in Names |-> "none"]
  /\ invite = [i \in Invites |-> None]
  /\ session = {}
  /\ req = [r \in Requests |-> None]
  /\ mail \in BOOLEAN
  /\ enforced \in BOOLEAN
  /\ moves = 0
  /\ invited = {}
  /\ made = [i \in Invites |-> 0]
  /\ torn = {}
  /\ cut = {}

-----------------------------------------------------------------------------
(* Signing in.                                                             *)

Admitted(n) ==
  /\ moves < MaxMoves
  /\ moves' = moves + 1
  /\ session' = session \cup {n}
  /\ UNCHANGED <<user, invite, complete, req, mail, enforced, history>>

\* local_login and app_token with a password, and with the second factor where
\* the account has one: a code of its secret, or a recovery code, which is
\* spent.  (What is refused changes the throttle alone: module SignIn.)
SignInWithPassword(n) ==
  /\ Exists(n) /\ LoopIsFree(None)
  /\ \/ /\ user[n].on => user[n].secret # None
        /\ UNCHANGED codes
     \/ /\ user[n].on /\ codes[n] = "left"
        /\ \E c \in {"left", "used"} : codes' = [codes EXCEPT ![n] = c]
  /\ Admitted(n)

\* auth_callback: the account with the address that Microsoft vouches for
\* (sso_permitted, resolve_sso_identity)
SignInWithMicrosoft(email, n) ==
  /\ email # None
  /\ Exists(n) /\ user[n].email = email
  /\ UNCHANGED codes
  /\ Admitted(n)

\* auth_logout
SignOut(n) ==
  /\ n \in session
  /\ session' = session \ {n}
  /\ UNCHANGED <<rows, req, mail, enforced, moves, history>>

-----------------------------------------------------------------------------
(* The second factor.                                                      *)

\* _local_self for a name without a row: refused, unless the second factor is
\* enforced, when a row is made to hold it.
SelfIsPrepared(by) == Exists(by) \/ enforced
Self(by, admin) == IF Exists(by) THEN user ELSE [user EXCEPT ![by] = Row(None, admin)]

\* twofa_setup, twofa_recovery, twofa_disable and twofa_enable, once the
\* caller is known; the last two read the row before they await the body.
BeginSecondFactor(r, op, by) ==
  /\ by \in session
  /\ op \in {"disable", "enable"} => Exists(by) /\ LoopIsFree(r)
  /\ Begin(r, Request(op, by, None, user[by]))

\* twofa_setup: a fresh secret, which counts only once it is enabled
SetupSecret(r, s) ==
  LET by == req[r].by IN
  /\ Op(r, "setup", "begun")
  /\ SelfIsPrepared(by)
  /\ user' = [Self(by, req[r].admin) EXCEPT ![by].secret = s]
  /\ Goes(r, "stored")
  /\ UNCHANGED <<codes, invite, complete, session, history>> /\ Still

SetupOff(r) ==
  /\ Op(r, "setup", "stored")
  /\ user' = Updated(req[r].by, [user[req[r].by] EXCEPT !.on = FALSE])
  /\ Ends(r)
  /\ UNCHANGED <<codes, invite, complete, session, history>> /\ Still

\* totp.verify: the code given is one of the secret the handler has read.
Proves(r) == req[r].row.secret # None

\* twofa_enable, after the await
Enable(r) ==
  LET by == req[r].by IN
  /\ Op(r, "enable", "begun") /\ LoopIsFree(r)
  /\ Proves(r)
  /\ user' = Updated(by, [user[by] EXCEPT !.on = TRUE])
  /\ Goes(r, "on")
  /\ UNCHANGED <<codes, invite, complete, session, history>> /\ Still

BeingEnabled(r, n) == Op(r, "enable", "on") /\ req[r].by = n

\* generate_recovery_codes
Issue(r) ==
  /\ codes' = [codes EXCEPT ![req[r].by] = "left"]
  /\ Ends(r)
  /\ UNCHANGED <<user, invite, complete, session, history>> /\ Still

EnableCodes(r) == Op(r, "enable", "on") /\ Issue(r)

\* twofa_recovery: the row is read on the worker thread
RecoveryCodes(r) ==
  /\ Op(r, "recovery", "begun")
  /\ Exists(req[r].by) /\ user[req[r].by].on
  /\ Issue(r)

\* Mutant of DisabledRow: the codes are cleared, the factor stays on.
StillOn(n) == user

\* set_totp_enabled(False), set_totp_secret(None)
DisabledRow(n) == Updated(n, [user[n] EXCEPT !.on = FALSE, !.secret = None])

\* twofa_disable, after the await: the password is right
Disable(r) ==
  /\ Op(r, "disable", "begun") /\ LoopIsFree(r)
  /\ user' = DisabledRow(req[r].by)
  /\ codes' = [codes EXCEPT ![req[r].by] = "none"]
  /\ Ends(r)
  /\ UNCHANGED <<invite, complete, session, history>> /\ Still

\* set_account_email, before and after the await
BeginEmail(r, by, email) ==
  /\ by \in session /\ Exists(by) /\ LoopIsFree(r)
  /\ Begin(r, Request("email", by, email, user[by]))

SetEmail(r) ==
  LET by == req[r].by
      email == req[r].held
  IN
  /\ Op(r, "email", "begun") /\ LoopIsFree(r)
  /\ ~Taken(email, by)
  /\ user' = Updated(by, [user[by] EXCEPT !.email = email])
  /\ Ends(r)
  /\ UNCHANGED <<codes, invite, complete, session, history>> /\ Still

-----------------------------------------------------------------------------
(* The administrator's requests.                                           *)

\* current_user of a request on the account or the invitation "held"
BeginAdmin(r, op, by, held) ==
  /\ by \in session /\ IsAdmin(by)
  /\ Begin(r, Request(op, by, held, None))

\* Mutant of MayDemote: an administrator may stop being one.
MayDemoteAnyone(r) == TRUE

\* "Don't let an admin lock themselves out of admin."
MayDemote(r) == req[r].held # req[r].by

\* edit_user: everything is checked first.
CheckEdit(r, edit) ==
  /\ AsAdmin(r, "edit")
  /\ Exists(req[r].held)
  /\ edit.admin = FALSE => MayDemote(r)
  /\ ~Taken(edit.email, req[r].held)
  /\ req' = [req EXCEPT ![r].step = "checked", ![r].row = edit]
  /\ UNCHANGED <<rows, session, history>> /\ Still

\* ... and then written (update_user).
WriteEdit(r) ==
  LET n == req[r].held
      edit == req[r].row
  IN
  /\ Op(r, "edit", "checked")
  /\ user' = IF ~Exists(n) THEN user
             ELSE [user EXCEPT ![n].admin = IF edit.admin = None THEN @ ELSE edit.admin,
                               ![n].email = IF edit.email = None THEN @ ELSE edit.email]
  /\ Ends(r)
  /\ UNCHANGED <<codes, invite, complete, session, history>> /\ Still

\* delete_user; the recovery codes and the sessions stay
DeleteUser(r) ==
  /\ AsAdmin(r, "delete")
  /\ req[r].held # req[r].by
  /\ user' = [user EXCEPT ![req[r].held] = None]
  /\ Ends(r)
  /\ UNCHANGED <<codes, invite, complete, session, history>> /\ Still

\* create_invite, with a token nobody has seen
CreateInvite(r, i, email, admin) ==
  /\ AsAdmin(r, "invite") /\ LoopIsFree(r)
  /\ i \notin invited
  /\ invited' = invited \cup {i}
  /\ invite' = [invite EXCEPT ![i] = [email |-> email, admin |-> admin,
                                      code |-> FALSE, used |-> FALSE]]
  /\ Ends(r)
  /\ UNCHANGED <<user, codes, complete, session, made, torn, cut>> /\ Still

\* revoke_invite
RevokeInvite(r, i) ==
  /\ AsAdmin(r, "revoke")
  /\ invite' = [invite EXCEPT ![i] = None]
  /\ Ends(r)
  /\ UNCHANGED <<user, codes, complete, session, history>> /\ Still

\* reset_config: the settings are cleared, the accounts are kept.
ResetConfig(r) ==
  /\ AsAdmin(r, "reset")
  /\ complete' = FALSE
  /\ Ends(r)
  /\ UNCHANGED <<user, codes, invite, session, history>> /\ Still

-----------------------------------------------------------------------------
(* Invitations and the setup wizard: nobody is signed in.                  *)

\* _live_invite (an invitation that has expired is like one that is used)
Live(i) == invite[i] # None /\ ~invite[i].used

\* send_invite_code and accept_invite read the invitation and await the body.
BeginInvited(r, op, i) ==
  /\ Live(i) /\ LoopIsFree(r)
  /\ Begin(r, Request(op, None, i, invite[i]))

\* UPDATE invites SET ... WHERE token=?
InviteWith(i, code) ==
  IF invite[i] = None THEN invite ELSE [invite EXCEPT ![i].code = code]

\* send_invite_code, after the await: the code is stored, and taken back when
\* the mail is not accepted.
SendCode(r, n, sent) ==
  /\ Op(r, "send", "begun") /\ LoopIsFree(r)
  /\ ~Exists(n)
  /\ mail
  /\ invite' = InviteWith(req[r].held, sent)
  /\ Ends(r)
  /\ UNCHANGED <<user, codes, complete, session, history>> /\ Still

\* accept_invite, after the await.  The code is the one the row had before it.
Accept(r, n) ==
  /\ Op(r, "accept", "begun") /\ LoopIsFree(r)
  /\ ~Exists(n)
  /\ mail => req[r].row.code
  /\ user' = [user EXCEPT ![n] = Row(req[r].row.email, req[r].row.admin)]
  /\ session' = session \cup {n}
  /\ made' = [made EXCEPT ![req[r].held] = @ + 1]
  /\ Goes(r, "made")
  /\ UNCHANGED <<codes, invite, complete, invited, torn, cut>> /\ Still

\* Mutant of Closed: the code is forgotten, the invitation is not used up.
NotClosed(i) == InviteWith(i, FALSE)

\* set_invite_code(None, None) and use_invite
Closed(i) ==
  IF invite[i] = None THEN invite
  ELSE [invite EXCEPT ![i].code = FALSE, ![i].used = TRUE]

BeingUsedUp(r, i) == Op(r, "accept", "made") /\ req[r].held = i

AcceptCloses(r) ==
  /\ Op(r, "accept", "made")
  /\ invite' = Closed(req[r].held)
  /\ torn' = torn \ {req[r].held}
  /\ Ends(r)
  /\ UNCHANGED <<user, codes, complete, session, invited, made, cut>> /\ Still

\* do_setup: open only until the setup is complete, by what it reads before it
\* awaits the body.
BeginSetup(r) ==
  ~complete /\ LoopIsFree(r) /\ Begin(r, Request("wizard", None, None, None))

AtWizard(r) == (Op(r, "wizard", "begun") /\ LoopIsFree(r)) \/ Op(r, "wizard", "writing")

\* Mutant of WizardAdmin: what the wizard says is all that counts.
AsTheWizardSays(r, admin) == admin

\* The first account is made an administrator, the others as the wizard says.
WizardAdmin(r, admin) == admin \/ req[r].step = "begun"

\* do_setup, after the await: the accounts are written one after the other, each
\* over whatever account has its name ...
SetupAccount(r, n, email, admin) ==
  /\ AtWizard(r)
  /\ user' = [user EXCEPT ![n] = Row(email, WizardAdmin(r, admin))]
  /\ Goes(r, "writing")
  /\ UNCHANGED <<codes, invite, complete, session, history>> /\ Still

\* ... but for those without a name or with too short a password, the first
\* included, which are passed over ...
SetupSkips(r) ==
  /\ AtWizard(r)
  /\ Goes(r, "writing")
  /\ UNCHANGED <<rows, session, history>> /\ Still

\* ... and the setup is complete, whichever have been written.
SetupEnds(r) ==
  /\ Op(r, "wizard", "writing")
  /\ complete' = TRUE
  /\ Ends(r)
  /\ UNCHANGED <<user, codes, invite, session, history>> /\ Still

\* What a handler refuses ends its request, and changes nothing.
Refused(r) ==
  /\ req[r] # None /\ req[r].step = "begun"
  /\ Ends(r)
  /\ UNCHANGED <<rows, session, history>> /\ Still

\* The server stops: what it had under way is lost.
Restart ==
  /\ \E r \in Requests : req[r] # None
  /\ req' = [r \in Requests |-> None]
  /\ cut' = cut \cup {n \in Names : \E r \in Requests : BeingEnabled(r, n)}
  /\ torn' = torn \cup {i \in Invites : \E r \in Requests : BeingUsedUp(r, i)}
  /\ UNCHANGED <<rows, session, invited, made>> /\ Still

-----------------------------------------------------------------------------
BeginSome(r) ==
  \/ \E by \in Names :
       \/ \E op \in {"setup", "enable", "recovery", "disable"} : BeginSecondFactor(r, op, by)
       \/ \E e \in Emails \cup {None} : BeginEmail(r, by, e)
       \/ \E op \in {"edit", "delete"}, n \in Names : BeginAdmin(r, op, by, n)
       \/ \E op \in {"invite", "revoke", "reset"} : BeginAdmin(r, op, by, None)
  \/ \E op \in {"send", "accept"}, i \in Invites : BeginInvited(r, op, i)
  \/ BeginSetup(r)

Step(r) ==
  \/ \E s \in Secrets : SetupSecret(r, s)
  \/ SetupOff(r)
  \/ Enable(r) \/ EnableCodes(r) \/ RecoveryCodes(r) \/ Disable(r) \/ SetEmail(r)
  \/ \E edit \in Edits : CheckEdit(r, edit)
  \/ WriteEdit(r) \/ DeleteUser(r) \/ ResetConfig(r)
  \/ \E i \in Invites :
       \/ RevokeInvite(r, i)
       \/ \E e \in Emails, a \in BOOLEAN : CreateInvite(r, i, e, a)
  \/ \E n \in Names :
       \/ Accept(r, n)
       \/ \E sent \in BOOLEAN : SendCode(r, n, sent)
       \/ \E e \in Emails \cup {None}, a \in BOOLEAN : SetupAccount(r, n, e, a)
  \/ SetupSkips(r) \/ SetupEnds(r)
  \/ AcceptCloses(r)
  \/ Refused(r)

Next ==
  \/ \E n \in Names :
       \/ SignInWithPassword(n) \/ SignOut(n)
       \/ \E e \in Emails : SignInWithMicrosoft(e, n)
  \/ \E r \in Requests : BeginSome(r) \/ Step(r)
  \/ Restart

Spec == Init /\ [][Next]_vars

-----------------------------------------------------------------------------
(* Properties.                                                             *)

\* A demotion or a deletion is carried out for somebody who was an administrator
\* when the request came in, and has stopped being one since.
Crossed(r) ==
  /\ req[r] # None /\ req[r].op \in {"edit", "delete"}
  /\ req[r].admin /\ ~IsAdmin(req[r].by)

\* The wizard writes over an account, and has gone on to others than its first.
WrittenOver(r) == Op(r, "wizard", "writing") /\ req' = req

\* The last administrator goes in two ways only, in whatever order demotions,
\* deletions, invitations, second factors and the setup wizard come: two
\* administrators demote or delete each other, each request having come in before
\* the other was carried out; or the setup wizard is run again and one of its
\* accounts, not the first, writes over the last of them.  Requests that do not
\* overlap, and the wizard's first account, leave one.
AdminRemains ==
  [][Admins # {} /\ Admins' = {} =>
       \E r \in Requests : (Crossed(r) /\ req'[r] = None) \/ WrittenOver(r)]_vars

\* Whoever is asked for a second factor has been given recovery codes, however
\* the four requests about it overlap.  (Between enabling it and issuing the
\* codes a step of another request may come, or a stop of the server.)
SecondFactorHasCodes ==
  \A n \in Names :
    Exists(n) /\ user[n].on =>
      codes[n] # "none" \/ n \in cut \/ \E r \in Requests : BeingEnabled(r, n)

\* The requests that have read an invitation and wait for the new account.
Waiting(i) == {r \in Requests : Op(r, "accept", "begun") /\ req[r].held = i}

\* Nobody new can come to an invitation: it has been revoked or used up; or an
\* account has been made of it, and no stop of the server came before it was used
\* up.
IsOver(i) == ~Live(i) \/ (made[i] # 0 /\ i \notin torn)

\* Of an invitation that is over only those requests make an account that have
\* read it before, and each makes one: none comes to wait on it any more, and
\* each further account takes one that does.  (So it gives a single account unless
\* requests on it overlap, or a stop comes between the account and the end.)
InvitationOnce ==
  [][\A i \in Invites : IsOver(i) =>
       /\ Waiting(i)' \subseteq Waiting(i)
       /\ \/ made'[i] = made[i]
          \/ made'[i] = made[i] + 1 /\ Waiting(i)' # Waiting(i)]_vars

\* What somebody who is signed in sees is what the server lets requests in for, but
\* for roles that are empty texts, and nobody has access by an organisation or a
\* group that has been deleted: the questions agree on whatever contents the tables
\* have, and the endpoints leave such contents.
\* (Access is about the contents of tables of its own, whatever they are.)
AccessIsConsistent == session # {} => TablesAreConsistent
=============================================================================
