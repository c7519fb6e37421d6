---------------------------- MODULE AccountsProofs ----------------------------
(***************************************************************************)
(* What holds of accounts for any number of users, invitations and         *)
(* requests under way at once: in which ways the last administrator can    *)
(* go, that whoever is asked for a second factor has recovery codes, which *)
(* requests an invitation can still give an account; and that the          *)
(* questions on access agree, whatever the tables hold.                    *)
(*                                                                         *)
(* The first three need to know what a request that waits was given        *)
(* before it waited (RequestsSound): whom it is for, that it was checked,   *)
(* and that the row it holds is one.                                       *)
(*                                                                         *)
(* Then what holds of sign-in for any number of keys, tickets and links:   *)
(* the throttle, whose failures are spaced because what is noted of them   *)
(* loses only old ones; a ticket once in its life; one key to a link.       *)
(***************************************************************************)
EXTENDS Accounts, SignIn, FiniteSetTheorems, SequenceTheorems, WellFoundedInduction, TLAPS

\* Every variable keeps its type.
TypeOK ==
  /\ user \in [Names -> UserRows \cup {None}]
  /\ codes \in [Names -> {"none", "left", "used"}]
  /\ invite \in [Invites -> InviteRows \cup {None}]
  /\ complete \in BOOLEAN
  /\ session \subseteq Names
  /\ req \in [Requests -> Asked \cup {None}]
  /\ mail \in BOOLEAN
  /\ enforced \in BOOLEAN
  /\ moves \in 0 .. MaxMoves
  /\ invited \subseteq Invites
  /\ made \in [Invites -> Nat]
  /\ torn \subseteq Invites
  /\ cut \subseteq Names

\* What a request under way has been given and has found.
Given(q) ==
  /\ q.op \in Own \cup OfAdmins => q.by \in Names
  /\ q.op \in {"edit", "delete"} => q.held \in Names
  /\ q.op = "email" => q.held \in Emails \cup {None}
  /\ q.op \in {"send", "accept"} => q.held \in Invites
  /\ q.op = "accept" => q.row \in InviteRows
  /\ q.op = "enable" => q.row \in UserRows
  /\ q.op = "edit" /\ q.step = "checked" =>
       q.row \in Edits /\ q.admin /\ (q.row.admin = FALSE => q.held # q.by)

RequestsSound == \A r \in Requests : req[r] # None => Given(req[r])

\* What an account has been made of is closed, or is being closed, unless a stop
\* of the server came in between; and no token is made out twice.
InvitesSound ==
  /\ \A i \in Invites : invite[i] # None \/ made[i] # 0 => i \in invited
  /\ \A r \in Requests : req[r] # None /\ req[r].op = "accept" => req[r].held \in invited
  /\ \A i \in Invites : made[i] # 0 =>
       \/ i \in torn
       \/ invite[i] = None \/ invite[i].used
       \/ \E r \in Requests : BeingUsedUp(r, i)

\* The inductive invariant.
AccountsInv ==
  TypeOK /\ RequestsSound /\ SecondFactorHasCodes /\ InvitesSound

-----------------------------------------------------------------------------
(* Requests under way.                                                     *)

\* A request that a handler begins with is sound.
LEMMA BegunIsSound ==
  ASSUME TypeOK, NEW r \in Requests, BeginSome(r)
  PROVE  \E q \in Asked : Given(q) /\ q.step = "begun" /\ Begin(r, q)
<1>1. ASSUME NEW by \in Names, by \in session,
             NEW op \in Own \cup OfAdmins,
             NEW held \in Names \cup Emails \cup {None},
             NEW row \in UserRows \cup {None},
             op \in {"edit", "delete"} => held \in Names,
             op = "email" => held \in Emails \cup {None},
             op = "enable" => row \in UserRows,
             Begin(r, Request(op, by, held, row))
      PROVE  \E q \in Asked : Given(q) /\ q.step = "begun" /\ Begin(r, q)
  <2> DEFINE q == Request(op, by, held, row)
  <2>1. (by # None /\ IsAdmin(by)) \in BOOLEAN
    OBVIOUS
  <2>2. q \in Asked /\ Given(q) /\ q.step = "begun"
    BY <1>1, <2>1 DEF Request, Asked, Given, Own, OfAdmins
  <2> QED  BY <1>1, <2>2
<1>2. ASSUME NEW by \in Names, NEW op \in {"setup", "enable", "recovery", "disable"},
             BeginSecondFactor(r, op, by)
      PROVE  \E q \in Asked : Given(q) /\ q.step = "begun" /\ Begin(r, q)
  <2>1. user[by] \in UserRows \cup {None} /\ (op = "enable" => user[by] \in UserRows)
    BY <1>2 DEF BeginSecondFactor, TypeOK, Exists
  <2>2. op \in Own \cup OfAdmins /\ op \notin {"edit", "delete", "email"}
    BY DEF Own
  <2> QED  BY <1>1, <1>2, <2>1, <2>2 DEF BeginSecondFactor
<1>3. ASSUME NEW by \in Names, NEW e \in Emails \cup {None}, BeginEmail(r, by, e)
      PROVE  \E q \in Asked : Given(q) /\ q.step = "begun" /\ Begin(r, q)
  <2>1. user[by] \in UserRows \cup {None}
    BY DEF TypeOK
  <2>2. "email" \in Own \cup OfAdmins
    BY DEF Own
  <2> QED  BY <1>1, <1>3, <2>1, <2>2 DEF BeginEmail
<1>4. ASSUME NEW by \in Names, NEW op \in {"edit", "delete"}, NEW n \in Names,
             BeginAdmin(r, op, by, n)
      PROVE  \E q \in Asked : Given(q) /\ q.step = "begun" /\ Begin(r, q)
  <2>1. op \in Own \cup OfAdmins
    BY DEF OfAdmins
  <2> QED  BY <1>1, <1>4, <2>1 DEF BeginAdmin
<1>5. ASSUME NEW by \in Names, NEW op \in {"invite", "revoke", "reset"},
             BeginAdmin(r, op, by, None)
      PROVE  \E q \in Asked : Given(q) /\ q.step = "begun" /\ Begin(r, q)
  <2>1. op \in Own \cup OfAdmins
    BY DEF OfAdmins
  <2> QED  BY <1>1, <1>5, <2>1 DEF BeginAdmin
<1>6. ASSUME NEW op \in {"send", "accept"}, NEW i \in Invites, BeginInvited(r, op, i)
      PROVE  \E q \in Asked : Given(q) /\ q.step = "begun" /\ Begin(r, q)
  <2> DEFINE q == Request(op, None, i, invite[i])
  <2>1. invite[i] \in InviteRows
    BY <1>6 DEF BeginInvited, Live, TypeOK
  <2>2. (None # None /\ IsAdmin(None)) = FALSE
    OBVIOUS
  <2>3. q \in Asked /\ Given(q) /\ q.step = "begun"
    BY <2>1, <2>2 DEF Request, Asked, Given, Own, OfAdmins
  <2> QED  BY <1>6, <2>3 DEF BeginInvited
<1>7. ASSUME BeginSetup(r)
      PROVE  \E q \in Asked : Given(q) /\ q.step = "begun" /\ Begin(r, q)
  <2> DEFINE q == Request("wizard", None, None, None)
  <2>1. (None # None /\ IsAdmin(None)) = FALSE
    OBVIOUS
  <2>2. q \in Asked /\ Given(q) /\ q.step = "begun"
    BY <2>1 DEF Request, Asked, Given, Own, OfAdmins
  <2> QED  BY <1>7, <2>2 DEF BeginSetup
<1> QED  BY <1>2, <1>3, <1>4, <1>5, <1>6, <1>7 DEF BeginSome

\* A request on an invitation begins when the invitation is open.
LEMMA BegunIsOpen ==
  ASSUME TypeOK, InvitesSound, NEW r \in Requests, BeginSome(r),
         req'[r].op = "accept"
  PROVE  /\ req'[r].held \in Invites /\ Live(req'[r].held) /\ LoopIsFree(r)
         /\ req'[r].held \in invited
<1>1. \E i \in Invites : BeginInvited(r, "accept", i)
  <2>1. ASSUME NEW op, op # "accept", NEW by, NEW held, NEW row,
               Begin(r, Request(op, by, held, row))
        PROVE  FALSE
    BY <2>1 DEF Begin, Request, TypeOK
  <2> QED  BY <2>1 DEF BeginSome, BeginSecondFactor, BeginEmail, BeginAdmin, BeginSetup,
                       BeginInvited
<1>2. PICK i \in Invites : BeginInvited(r, "accept", i)
  BY <1>1
<1>3. req'[r].held = i
  BY <1>2 DEF BeginInvited, Begin, Request, TypeOK
<1> QED  BY <1>2, <1>3 DEF BeginInvited, Live, InvitesSound

\* What a request keeps when it ends, or goes on after a statement.
LEMMA EndsKeeps ==
  ASSUME TypeOK, RequestsSound, NEW r \in Requests, Ends(r)
  PROVE  /\ req' \in [Requests -> Asked \cup {None}] /\ RequestsSound'
         /\ req'[r] = None
         /\ \A q \in Requests : q # r => req'[q] = req[q]
BY DEF TypeOK, RequestsSound, Ends, Given

LEMMA GoesKeeps ==
  ASSUME TypeOK, RequestsSound, NEW r \in Requests, NEW s \in {"stored", "on", "made", "writing"},
         req[r] # None, Goes(r, s)
  PROVE  /\ req' \in [Requests -> Asked \cup {None}] /\ RequestsSound'
         /\ req'[r] # None /\ req'[r].op = req[r].op /\ req'[r].by = req[r].by
         /\ req'[r].held = req[r].held /\ req'[r].step = s
         /\ \A q \in Requests : q # r => req'[q] = req[q]
<1> DEFINE new == [req[r] EXCEPT !.step = s]
<1>1. req[r] \in Asked /\ Given(req[r])
  BY DEF TypeOK, RequestsSound
<1>2. /\ new \in Asked /\ Given(new) /\ new.op = req[r].op /\ new.by = req[r].by
        /\ new.held = req[r].held /\ new.step = s
  BY <1>1 DEF Asked, Given
<1>3. new # None
  BY <1>2, NoneAssumption
<1>4. req' = [req EXCEPT ![r] = new]
  BY DEF Goes
<1> HIDE DEF new
<1>5. req'[r] = new /\ \A q \in Requests : q # r => req'[q] = req[q]
  BY <1>4 DEF TypeOK
<1> QED  BY <1>2, <1>3, <1>4, <1>5 DEF TypeOK, RequestsSound

\* A request that is to be carried out is for somebody, and of something.
LEMMA OpGives ==
  ASSUME TypeOK, RequestsSound, NEW r \in Requests, NEW op, NEW step, Op(r, op, step)
  PROVE  /\ req[r] # None /\ req[r] \in Asked /\ Given(req[r])
         /\ req[r].op = op /\ req[r].step = step
         /\ op \in Own \cup OfAdmins => req[r].by \in Names
         /\ op \in {"edit", "delete"} => req[r].held \in Names
         /\ op = "email" => req[r].held \in Emails \cup {None}
         /\ op \in {"send", "accept"} => req[r].held \in Invites
         /\ op = "accept" => req[r].row \in InviteRows
         /\ op = "edit" /\ step = "checked" =>
              /\ req[r].row \in Edits /\ req[r].admin
              /\ req[r].row.admin = FALSE => req[r].held # req[r].by
BY DEF Op, TypeOK, RequestsSound, Given

-----------------------------------------------------------------------------
(* Types.                                                                  *)

\* A row that is made, and one that is written to.
LEMMA RowIsRow ==
  ASSUME NEW email \in Emails \cup {None}, NEW admin \in BOOLEAN
  PROVE  /\ Row(email, admin) \in UserRows /\ Row(email, admin) # None
         /\ Row(email, admin).admin = admin /\ Row(email, admin).on = FALSE
<1>1. Row(email, admin) \in UserRows
  BY DEF Row, UserRows
<1> QED  BY <1>1, NoneAssumption DEF Row

LEMMA RowKept ==
  ASSUME TypeOK, NEW n \in Names, NEW row, Exists(n) => row \in UserRows,
         user' = Updated(n, row)
  PROVE  /\ user' \in [Names -> UserRows \cup {None}]
         /\ Exists(n) => user'[n] = row /\ row # None
         /\ ~Exists(n) => user'[n] = None
         /\ \A m \in Names : m # n => user'[m] = user[m]
BY NoneAssumption DEF TypeOK, Updated, Exists

\* What a request on the caller's own account leaves, once it can have a row.
LEMMA SelfIsRow ==
  ASSUME TypeOK, NEW n \in Names, NEW a \in BOOLEAN
  PROVE  /\ Self(n, a) \in [Names -> UserRows \cup {None}]
         /\ Self(n, a)[n] \in UserRows
         /\ Exists(n) => Self(n, a)[n] = user[n]
         /\ ~Exists(n) => Self(n, a)[n].on = FALSE
         /\ \A m \in Names : m # n => Self(n, a)[m] = user[m]
<1>1. Row(None, a) \in UserRows /\ Row(None, a).on = FALSE
  BY RowIsRow
<1> QED  BY <1>1 DEF TypeOK, Self, Exists

-----------------------------------------------------------------------------
(* What keeps each of the invariants.                                      *)

\* No second factor is switched on, no codes are taken back, and what is being
\* enabled still is.
LEMMA FactorsKept ==
  ASSUME SecondFactorHasCodes, cut \subseteq cut',
         \A m \in Names : (Exists(m) /\ user[m].on)' => Exists(m) /\ user[m].on,
         \A m \in Names : (Exists(m) /\ user[m].on)' /\ codes[m] # "none" => codes'[m] # "none",
         \A q \in Requests : Op(q, "enable", "on") =>
           req'[q] # None /\ req'[q].op = "enable" /\ req'[q].step = "on" /\ req'[q].by = req[q].by
  PROVE  SecondFactorHasCodes'
<1> SUFFICES ASSUME NEW m \in Names, (Exists(m) /\ user[m].on)',
                    ~(codes'[m] # "none"), m \notin cut'
             PROVE  \E q \in Requests : BeingEnabled(q, m)'
  BY DEF SecondFactorHasCodes
<1>1. PICK q \in Requests : BeingEnabled(q, m)
  BY DEF SecondFactorHasCodes
<1>2. BeingEnabled(q, m)'
  BY <1>1 DEF BeingEnabled, Op
<1> QED  BY <1>2

\* A request other than one that is being enabled ends, goes on or begins.
LEMMA OthersGoOn ==
  ASSUME TypeOK, NEW r \in Requests, ~Op(r, "enable", "on"),
         \A q \in Requests : q # r => req'[q] = req[q]
  PROVE  \A q \in Requests : Op(q, "enable", "on") =>
           req'[q] # None /\ req'[q].op = "enable" /\ req'[q].step = "on" /\ req'[q].by = req[q].by
BY DEF Op

\* No invitation is opened again, and no request but one that is using one up
\* goes on or ends.
LEMMA InvitesKept ==
  ASSUME TypeOK, InvitesSound, NEW r \in Requests, ~Op(r, "accept", "made"),
         \A q \in Requests : q # r => req'[q] = req[q],
         req'[r] = None \/ req'[r].op # "accept" \/ req'[r].held \in invited,
         invited' = invited, made' = made, torn' = torn,
         \A i \in Invites : invite'[i] # None => invite[i] # None,
         \A i \in Invites : invite[i] = None \/ invite[i].used =>
                              invite'[i] = None \/ invite'[i].used
  PROVE  InvitesSound'
<1>1. \A i \in Invites : (invite[i] # None \/ made[i] # 0 => i \in invited)'
  BY DEF InvitesSound
<1>2. \A q \in Requests :
        (req[q] # None /\ req[q].op = "accept" => req[q].held \in invited)'
  BY DEF InvitesSound
<1>3. ASSUME NEW i \in Invites, made'[i] # 0, i \notin torn',
             ~(invite'[i] = None \/ invite'[i].used)
      PROVE  \E q \in Requests : BeingUsedUp(q, i)'
  <2>1. PICK q \in Requests : BeingUsedUp(q, i)
    BY <1>3 DEF InvitesSound
  <2>2. BeingUsedUp(q, i)'
    BY <2>1 DEF BeingUsedUp, Op
  <2> QED  BY <2>2
<1> QED  BY <1>1, <1>2, <1>3 DEF InvitesSound

-----------------------------------------------------------------------------
(* Requests on the caller's own account.                                   *)

\* The second factor and the address: every step keeps the invariant.
LEMMA OwnStep ==
  ASSUME TypeOK, RequestsSound, SecondFactorHasCodes, InvitesSound,
         NEW r \in Requests,
         \/ \E s \in Secrets : SetupSecret(r, s)
         \/ SetupOff(r) \/ Enable(r) \/ EnableCodes(r) \/ RecoveryCodes(r)
         \/ Disable(r) \/ SetEmail(r)
  PROVE  AccountsInv'
<1> DEFINE by == req[r].by
<1>1. ASSUME NEW s \in Secrets, SetupSecret(r, s)
      PROVE  AccountsInv'
  <2>1. /\ Op(r, "setup", "begun") /\ by \in Names /\ req[r] \in Asked /\ req[r] # None
    BY <1>1, OpGives DEF SetupSecret, Own
  <2>2. req[r].admin \in BOOLEAN
    BY <2>1 DEF Asked
  <2> DEFINE self == Self(by, req[r].admin)
  <2>3. /\ self \in [Names -> UserRows \cup {None}] /\ self[by] \in UserRows
        /\ Exists(by) => self[by] = user[by]
        /\ ~Exists(by) => self[by].on = FALSE
        /\ \A m \in Names : m # by => self[m] = user[m]
    BY <2>1, <2>2, SelfIsRow
  <2>4. user' = [self EXCEPT ![by].secret = s]
    BY <1>1 DEF SetupSecret
  <2> HIDE DEF self
  <2>5. /\ user' \in [Names -> UserRows \cup {None}]
        /\ user'[by] \in UserRows /\ user'[by] # None
        /\ user'[by].admin = self[by].admin /\ user'[by].on = self[by].on
        /\ \A m \in Names : m # by => user'[m] = user[m]
    BY <2>1, <2>3, <2>4, NoneAssumption DEF UserRows
  <2>6. /\ req' \in [Requests -> Asked \cup {None}] /\ RequestsSound'
        /\ \A q \in Requests : q # r => req'[q] = req[q]
    BY <1>1, <2>1, GoesKeeps DEF SetupSecret
  <2>7. TypeOK'
    BY <1>1, <2>2, <2>5, <2>6 DEF SetupSecret, TypeOK, Still, history
  <2>9. SecondFactorHasCodes'
    <3>1. ~Op(r, "enable", "on")
      BY <2>1 DEF Op
    <3>2. \A m \in Names : (Exists(m) /\ user[m].on)' => Exists(m) /\ user[m].on
      BY <2>3, <2>5 DEF Exists
    <3> QED  BY <1>1, <2>6, <3>1, <3>2, OthersGoOn, FactorsKept DEF SetupSecret, history
  <2>10. InvitesSound'
    BY <1>1, <2>1, GoesKeeps, InvitesKept DEF SetupSecret, history, Op
  <2> QED  BY <2>6, <2>7, <2>9, <2>10 DEF AccountsInv
<1>2. ASSUME SetupOff(r)
      PROVE  AccountsInv'
  <2>1. /\ Op(r, "setup", "stored") /\ by \in Names
    BY <1>2, OpGives DEF SetupOff, Own
  <2>2. Exists(by) => [user[by] EXCEPT !.on = FALSE] \in UserRows
    BY <2>1 DEF TypeOK, Exists, UserRows
  <2>3. user' = Updated(by, [user[by] EXCEPT !.on = FALSE])
    BY <1>2 DEF SetupOff
  <2>4. /\ user' \in [Names -> UserRows \cup {None}]
        /\ Exists(by) => user'[by] = [user[by] EXCEPT !.on = FALSE] /\ user'[by] # None
        /\ ~Exists(by) => user'[by] = None
        /\ \A m \in Names : m # by => user'[m] = user[m]
    BY <2>1, <2>2, <2>3, RowKept
  <2>5. Exists(by) => user'[by].admin = user[by].admin /\ user'[by].on = FALSE
    BY <2>1, <2>4 DEF TypeOK, Exists, UserRows
  <2>6. /\ req' \in [Requests -> Asked \cup {None}] /\ RequestsSound'
        /\ \A q \in Requests : q # r => req'[q] = req[q]
    BY <1>2, EndsKeeps DEF SetupOff, Ends, TypeOK
  <2>7. TypeOK'
    BY <1>2, <2>4, <2>6 DEF SetupOff, TypeOK, Still, history
  <2>9. SecondFactorHasCodes'
    <3>1. ~Op(r, "enable", "on")
      BY <2>1 DEF Op
    <3>2. \A m \in Names : (Exists(m) /\ user[m].on)' => Exists(m) /\ user[m].on
      BY <2>4, <2>5 DEF Exists
    <3> QED  BY <1>2, <2>6, <3>1, <3>2, OthersGoOn, FactorsKept DEF SetupOff, history
  <2>10. InvitesSound'
    BY <1>2, <2>1, EndsKeeps, InvitesKept DEF SetupOff, history, Op
  <2> QED  BY <2>6, <2>7, <2>9, <2>10 DEF AccountsInv
<1>3. ASSUME Enable(r)
      PROVE  AccountsInv'
  <2>1. /\ Op(r, "enable", "begun") /\ by \in Names /\ req[r] # None /\ req[r].op = "enable"
    BY <1>3, OpGives DEF Enable, Own
  <2>2. Exists(by) => [user[by] EXCEPT !.on = TRUE] \in UserRows
    BY <2>1 DEF TypeOK, Exists, UserRows
  <2>3. user' = Updated(by, [user[by] EXCEPT !.on = TRUE])
    BY <1>3 DEF Enable
  <2>4. /\ user' \in [Names -> UserRows \cup {None}]
        /\ Exists(by) => user'[by] = [user[by] EXCEPT !.on = TRUE] /\ user'[by] # None
        /\ ~Exists(by) => user'[by] = None
        /\ \A m \in Names : m # by => user'[m] = user[m]
    BY <2>1, <2>2, <2>3, RowKept
  <2>5. Exists(by) => user'[by].admin = user[by].admin
    BY <2>1, <2>4 DEF TypeOK, Exists, UserRows
  <2>6. /\ req' \in [Requests -> Asked \cup {None}] /\ RequestsSound'
        /\ req'[r] # None /\ req'[r].op = "enable" /\ req'[r].by = by /\ req'[r].step = "on"
        /\ \A q \in Requests : q # r => req'[q] = req[q]
    BY <1>3, <2>1, GoesKeeps DEF Enable
  <2>7. TypeOK'
    BY <1>3, <2>4, <2>6 DEF Enable, TypeOK, Still, history
  <2>9. SecondFactorHasCodes'
    <3>1. ASSUME NEW m \in Names, (Exists(m) /\ user[m].on)', m # by
          PROVE  codes'[m] # "none" \/ m \in cut' \/ \E q \in Requests : BeingEnabled(q, m)'
      <4>1. Exists(m) /\ user[m].on
        BY <3>1, <2>4 DEF Exists
      <4>2. codes[m] # "none" \/ m \in cut \/ \E q \in Requests : BeingEnabled(q, m)
        BY <4>1 DEF SecondFactorHasCodes
      <4>3. \A q \in Requests : BeingEnabled(q, m) => BeingEnabled(q, m)'
        BY <2>1, <2>6 DEF BeingEnabled, Op
      <4> QED  BY <1>3, <4>2, <4>3 DEF Enable, history
    <3>2. \A m \in Names : m = by => BeingEnabled(r, m)'
      BY <2>6 DEF BeingEnabled, Op
    <3> QED  BY <3>1, <3>2 DEF SecondFactorHasCodes
  <2>10. InvitesSound'
    BY <1>3, <2>1, GoesKeeps, InvitesKept DEF Enable, history, Op
  <2> QED  BY <2>6, <2>7, <2>9, <2>10 DEF AccountsInv
<1>4. ASSUME EnableCodes(r) \/ RecoveryCodes(r)
      PROVE  AccountsInv'
  <2>1. Issue(r) /\ by \in Names /\ (Op(r, "enable", "on") \/ Op(r, "recovery", "begun"))
    BY <1>4, OpGives DEF EnableCodes, RecoveryCodes, Own
  <2>2. /\ codes' = [codes EXCEPT ![by] = "left"] /\ user' = user /\ cut' = cut
        /\ invite' = invite /\ invited' = invited /\ made' = made /\ torn' = torn
    BY <2>1 DEF Issue, history
  <2>3. /\ req' \in [Requests -> Asked \cup {None}] /\ RequestsSound'
        /\ \A q \in Requests : q # r => req'[q] = req[q]
    BY <2>1, EndsKeeps DEF Issue, Ends, TypeOK
  <2>4. TypeOK'
    BY <2>1, <2>2, <2>3 DEF Issue, TypeOK, Still
  <2>6. SecondFactorHasCodes'
    <3>1. ASSUME NEW m \in Names, m # by, (Exists(m) /\ user[m].on)'
          PROVE  codes'[m] # "none" \/ m \in cut' \/ \E q \in Requests : BeingEnabled(q, m)'
      <4>1. codes[m] # "none" \/ m \in cut \/ \E q \in Requests : BeingEnabled(q, m)
        BY <3>1, <2>2 DEF SecondFactorHasCodes, Exists
      <4>2. \A q \in Requests : BeingEnabled(q, m) => BeingEnabled(q, m)'
        BY <2>3, <3>1 DEF BeingEnabled, Op
      <4> QED  BY <2>2, <4>1, <4>2 DEF TypeOK
    <3>2. codes'[by] # "none"
      BY <2>1, <2>2 DEF TypeOK
    <3> QED  BY <3>1, <3>2 DEF SecondFactorHasCodes
  <2>7. InvitesSound'
    BY <2>1, <2>2, EndsKeeps, InvitesKept DEF Issue, Op
  <2> QED  BY <2>3, <2>4, <2>6, <2>7 DEF AccountsInv
<1>5. ASSUME Disable(r)
      PROVE  AccountsInv'
  <2>1. /\ Op(r, "disable", "begun") /\ by \in Names
    BY <1>5, OpGives DEF Disable, Own
  <2> DEFINE row == [user[by] EXCEPT !.on = FALSE, !.secret = None]
  <2>2. Exists(by) => row \in UserRows /\ row.admin = user[by].admin /\ row.on = FALSE
    BY <2>1 DEF TypeOK, Exists, UserRows
  <2>3. user' = Updated(by, row)
    BY <1>5 DEF Disable, DisabledRow
  <2> HIDE DEF row
  <2>4. /\ user' \in [Names -> UserRows \cup {None}]
        /\ Exists(by) => user'[by] = row /\ row # None
        /\ ~Exists(by) => user'[by] = None
        /\ \A m \in Names : m # by => user'[m] = user[m]
    BY <2>1, <2>2, <2>3, RowKept
  <2>5. codes' = [codes EXCEPT ![by] = "none"]
    BY <1>5 DEF Disable
  <2>6. /\ req' \in [Requests -> Asked \cup {None}] /\ RequestsSound'
        /\ \A q \in Requests : q # r => req'[q] = req[q]
    BY <1>5, EndsKeeps DEF Disable, Ends, TypeOK
  <2>7. TypeOK'
    BY <1>5, <2>4, <2>5, <2>6 DEF Disable, TypeOK, Still, history
  <2>9. SecondFactorHasCodes'
    <3>1. ~Op(r, "enable", "on")
      BY <2>1 DEF Op
    <3>2. \A m \in Names : (Exists(m) /\ user[m].on)' => m # by /\ Exists(m) /\ user[m].on
      BY <2>2, <2>4 DEF Exists
    <3>3. \A m \in Names : (Exists(m) /\ user[m].on)' /\ codes[m] # "none" => codes'[m] # "none"
      BY <3>2, <2>5 DEF TypeOK
    <3>4. cut' = cut
      BY <1>5 DEF Disable, history
    <3> QED  BY <2>6, <3>1, <3>2, <3>3, <3>4, OthersGoOn, FactorsKept
  <2>10. InvitesSound'
    BY <1>5, <2>1, EndsKeeps, InvitesKept DEF Disable, history, Op
  <2> QED  BY <2>6, <2>7, <2>9, <2>10 DEF AccountsInv
<1>6. ASSUME SetEmail(r)
      PROVE  AccountsInv'
  <2>1. /\ Op(r, "email", "begun") /\ by \in Names /\ req[r].held \in Emails \cup {None}
    BY <1>6, OpGives DEF SetEmail, Own
  <2> DEFINE row == [user[by] EXCEPT !.email = req[r].held]
  <2>2. Exists(by) => row \in UserRows /\ row.admin = user[by].admin /\ row.on = user[by].on
    BY <2>1 DEF TypeOK, Exists, UserRows
  <2>3. user' = Updated(by, row)
    BY <1>6 DEF SetEmail
  <2> HIDE DEF row
  <2>4. /\ user' \in [Names -> UserRows \cup {None}]
        /\ Exists(by) => user'[by] = row /\ row # None
        /\ ~Exists(by) => user'[by] = None
        /\ \A m \in Names : m # by => user'[m] = user[m]
    BY <2>1, <2>2, <2>3, RowKept
  <2>5. /\ req' \in [Requests -> Asked \cup {None}] /\ RequestsSound'
        /\ \A q \in Requests : q # r => req'[q] = req[q]
    BY <1>6, EndsKeeps DEF SetEmail, Ends, TypeOK
  <2>6. TypeOK'
    BY <1>6, <2>4, <2>5 DEF SetEmail, TypeOK, Still, history
  <2>8. SecondFactorHasCodes'
    <3>1. ~Op(r, "enable", "on")
      BY <2>1 DEF Op
    <3>2. \A m \in Names : (Exists(m) /\ user[m].on)' => Exists(m) /\ user[m].on
      BY <2>2, <2>4 DEF Exists
    <3> QED  BY <1>6, <2>5, <3>1, <3>2, OthersGoOn, FactorsKept DEF SetEmail, history
  <2>9. InvitesSound'
    BY <1>6, <2>1, EndsKeeps, InvitesKept DEF SetEmail, history, Op
  <2> QED  BY <2>5, <2>6, <2>8, <2>9 DEF AccountsInv
<1> QED  BY <1>1, <1>2, <1>3, <1>4, <1>5, <1>6
-----------------------------------------------------------------------------
(* The administrator's requests.                                           *)

\* The administrator's requests: each keeps the invariant.
LEMMA AdminStep ==
  ASSUME TypeOK, RequestsSound, SecondFactorHasCodes, InvitesSound,
         NEW r \in Requests,
         \/ \E edit \in Edits : CheckEdit(r, edit)
         \/ WriteEdit(r) \/ DeleteUser(r) \/ ResetConfig(r)
         \/ \E i \in Invites :
              \/ RevokeInvite(r, i)
              \/ \E e \in Emails, a \in BOOLEAN : CreateInvite(r, i, e, a)
  PROVE  AccountsInv'
<1> DEFINE by == req[r].by
<1> DEFINE n == req[r].held
<1>1. ASSUME NEW edit \in Edits, CheckEdit(r, edit)
      PROVE  AccountsInv'
  <2>1. /\ Op(r, "edit", "begun") /\ by \in Names /\ n \in Names
        /\ req[r] \in Asked /\ req[r].op = "edit" /\ req[r].step = "begun"
    BY <1>1, OpGives DEF CheckEdit, AsAdmin, OfAdmins
  <2> DEFINE new == [req[r] EXCEPT !.step = "checked", !.row = edit]
  <2>2. /\ new \in Asked /\ new.by = by /\ new.held = n /\ new.row = edit
        /\ new.op = "edit" /\ new.step = "checked" /\ new.admin = req[r].admin
    BY <2>1 DEF Asked
  <2>3. req' = [req EXCEPT ![r] = new]
    BY <1>1 DEF CheckEdit
  <2> HIDE DEF new
  <2>4. req[r].admin /\ (edit.admin = FALSE => n # by)
    BY <1>1 DEF CheckEdit, AsAdmin, MayDemote
  <2>5. Given(new)
    BY <2>1, <2>2, <2>4 DEF Given
  <2>6. /\ req' \in [Requests -> Asked \cup {None}] /\ RequestsSound'
        /\ \A q \in Requests : q # r => req'[q] = req[q]
    BY <2>2, <2>3, <2>5 DEF TypeOK, RequestsSound
  <2>7. TypeOK'
    BY <1>1, <2>6 DEF CheckEdit, TypeOK, Still, rows, history
  <2>9. SecondFactorHasCodes'
    <3>1. ~Op(r, "enable", "on")
      BY <2>1 DEF Op
    <3> QED  BY <1>1, <2>6, <3>1, OthersGoOn, FactorsKept DEF CheckEdit, rows, history, Exists
  <2>10. InvitesSound'
    <3>1. ~Op(r, "accept", "made") /\ req'[r] = new
      BY <2>1, <2>3 DEF Op, TypeOK
    <3> QED  BY <1>1, <2>2, <2>6, <3>1, InvitesKept DEF CheckEdit, rows, history
  <2> QED  BY <2>6, <2>7, <2>9, <2>10 DEF AccountsInv
<1>2. ASSUME WriteEdit(r)
      PROVE  AccountsInv'
  <2> DEFINE edit == req[r].row
  <2>1. /\ Op(r, "edit", "checked") /\ by \in Names /\ n \in Names
        /\ edit \in Edits /\ (edit.admin = FALSE => n # by)
    BY <1>2, OpGives DEF WriteEdit, OfAdmins
  <2> DEFINE row == [user[n] EXCEPT !.admin = IF edit.admin = None THEN @ ELSE edit.admin,
                                    !.email = IF edit.email = None THEN @ ELSE edit.email]
  <2>2. Exists(n) => /\ row \in UserRows /\ row.on = user[n].on
                     /\ user[n].admin /\ edit.admin # FALSE => row.admin
    <3>1. /\ edit.admin \in BOOLEAN \cup {None} /\ edit.email \in Emails \cup {None}
      BY <2>1 DEF Edits
    <3> HIDE DEF edit
    <3> QED  BY <2>1, <3>1 DEF TypeOK, Exists, UserRows
  <2>3. user' = IF Exists(n) THEN [user EXCEPT ![n] = row] ELSE user
    BY <1>2 DEF WriteEdit
  <2> HIDE DEF row
  <2>4. /\ user' \in [Names -> UserRows \cup {None}]
        /\ Exists(n) => user'[n] = row /\ row # None
        /\ ~Exists(n) => user'[n] = None
        /\ \A m \in Names : m # n => user'[m] = user[m]
    BY <2>1, <2>2, <2>3, NoneAssumption DEF TypeOK, Exists
  <2>5. /\ req' \in [Requests -> Asked \cup {None}] /\ RequestsSound'
        /\ \A q \in Requests : q # r => req'[q] = req[q]
    BY <1>2, EndsKeeps DEF WriteEdit, Ends, TypeOK
  <2>6. TypeOK'
    BY <1>2, <2>4, <2>5 DEF WriteEdit, TypeOK, Still, history
  <2>8. SecondFactorHasCodes'
    <3>1. ~Op(r, "enable", "on")
      BY <2>1 DEF Op
    <3>2. \A m \in Names : (Exists(m) /\ user[m].on)' => Exists(m) /\ user[m].on
      BY <2>2, <2>4 DEF Exists
    <3> QED  BY <1>2, <2>5, <3>1, <3>2, OthersGoOn, FactorsKept DEF WriteEdit, history
  <2>9. InvitesSound'
    BY <1>2, <2>1, EndsKeeps, InvitesKept DEF WriteEdit, history, Op
  <2> QED  BY <2>5, <2>6, <2>8, <2>9 DEF AccountsInv
<1>3. ASSUME DeleteUser(r)
      PROVE  AccountsInv'
  <2>1. /\ Op(r, "delete", "begun") /\ by \in Names /\ n \in Names /\ n # by
    BY <1>3, OpGives DEF DeleteUser, AsAdmin, OfAdmins
  <2>2. /\ user' \in [Names -> UserRows \cup {None}] /\ user'[n] = None
        /\ \A m \in Names : m # n => user'[m] = user[m]
    BY <1>3, <2>1 DEF DeleteUser, TypeOK
  <2>3. /\ req' \in [Requests -> Asked \cup {None}] /\ RequestsSound'
        /\ \A q \in Requests : q # r => req'[q] = req[q]
    BY <1>3, EndsKeeps DEF DeleteUser, Ends, TypeOK
  <2>4. TypeOK'
    BY <1>3, <2>2, <2>3 DEF DeleteUser, TypeOK, Still, history
  <2>6. SecondFactorHasCodes'
    <3>1. ~Op(r, "enable", "on")
      BY <2>1 DEF Op
    <3>2. \A m \in Names : (Exists(m) /\ user[m].on)' => Exists(m) /\ user[m].on
      BY <2>1, <2>2 DEF Exists
    <3> QED  BY <1>3, <2>3, <3>1, <3>2, OthersGoOn, FactorsKept DEF DeleteUser, history
  <2>7. InvitesSound'
    BY <1>3, <2>1, EndsKeeps, InvitesKept DEF DeleteUser, history, Op
  <2> QED  BY <2>3, <2>4, <2>6, <2>7 DEF AccountsInv
<1>4. ASSUME ResetConfig(r)
      PROVE  AccountsInv'
  <2>1. Op(r, "reset", "begun")
    BY <1>4 DEF ResetConfig, AsAdmin
  <2>2. /\ req' \in [Requests -> Asked \cup {None}] /\ RequestsSound'
        /\ \A q \in Requests : q # r => req'[q] = req[q]
    BY <1>4, EndsKeeps DEF ResetConfig, Ends, TypeOK
  <2>3. TypeOK'
    BY <1>4, <2>2 DEF ResetConfig, TypeOK, Still, history
  <2>5. SecondFactorHasCodes'
    <3>1. ~Op(r, "enable", "on")
      BY <2>1 DEF Op
    <3> QED  BY <1>4, <2>2, <3>1, OthersGoOn, FactorsKept DEF ResetConfig, Exists, history
  <2>6. InvitesSound'
    BY <1>4, <2>1, EndsKeeps, InvitesKept DEF ResetConfig, history, Op
  <2> QED  BY <2>2, <2>3, <2>5, <2>6 DEF AccountsInv
<1>5. ASSUME NEW i \in Invites, RevokeInvite(r, i)
      PROVE  AccountsInv'
  <2>1. Op(r, "revoke", "begun")
    BY <1>5 DEF RevokeInvite, AsAdmin
  <2>2. /\ invite' \in [Invites -> InviteRows \cup {None}] /\ invite'[i] = None
        /\ \A j \in Invites : j # i => invite'[j] = invite[j]
    BY <1>5 DEF RevokeInvite, TypeOK
  <2>3. /\ req' \in [Requests -> Asked \cup {None}] /\ RequestsSound'
        /\ \A q \in Requests : q # r => req'[q] = req[q]
    BY <1>5, EndsKeeps DEF RevokeInvite
  <2>4. TypeOK'
    BY <1>5, <2>2, <2>3 DEF RevokeInvite, TypeOK, Still, history
  <2>5. SecondFactorHasCodes'
    <3>1. ~Op(r, "enable", "on")
      BY <2>1 DEF Op
    <3> QED  BY <1>5, <2>3, <3>1, OthersGoOn, FactorsKept DEF RevokeInvite, Exists, history
  <2>6. InvitesSound'
    BY <1>5, <2>1, <2>2, EndsKeeps, InvitesKept DEF RevokeInvite, history, Op
  <2> QED  BY <2>3, <2>4, <2>5, <2>6 DEF AccountsInv
<1>6. ASSUME NEW i \in Invites, NEW e \in Emails, NEW a \in BOOLEAN, CreateInvite(r, i, e, a)
      PROVE  AccountsInv'
  <2> DEFINE row == [email |-> e, admin |-> a, code |-> FALSE, used |-> FALSE]
  <2>1. Op(r, "invite", "begun") /\ i \notin invited
    BY <1>6 DEF CreateInvite, AsAdmin
  <2>2. row \in InviteRows
    BY DEF InviteRows
  <2>3. /\ invite' \in [Invites -> InviteRows \cup {None}]
        /\ \A j \in Invites : j # i => invite'[j] = invite[j]
    BY <1>6, <2>2 DEF CreateInvite, TypeOK
  <2>4. /\ req' \in [Requests -> Asked \cup {None}] /\ RequestsSound' /\ req'[r] = None
        /\ \A q \in Requests : q # r => req'[q] = req[q]
    BY <1>6, EndsKeeps DEF CreateInvite
  <2>5. TypeOK'
    BY <1>6, <2>3, <2>4 DEF CreateInvite, TypeOK, Still
  <2>6. SecondFactorHasCodes'
    <3>1. ~Op(r, "enable", "on")
      BY <2>1 DEF Op
    <3> QED  BY <1>6, <2>4, <3>1, OthersGoOn, FactorsKept DEF CreateInvite, Exists
  <2>7. InvitesSound'
    <3>1. invited' = invited \cup {i} /\ made' = made /\ torn' = torn
      BY <1>6 DEF CreateInvite
    <3>2. \A j \in Invites : (invite[j] # None \/ made[j] # 0 => j \in invited)'
      BY <2>3, <3>1 DEF InvitesSound
    <3>3. \A q \in Requests :
            (req[q] # None /\ req[q].op = "accept" => req[q].held \in invited)'
      BY <2>4, <3>1 DEF InvitesSound
    <3>4. ASSUME NEW j \in Invites, made'[j] # 0, j \notin torn',
                 ~(invite'[j] = None \/ invite'[j].used)
          PROVE  \E q \in Requests : BeingUsedUp(q, j)'
      <4>1. j # i
        BY <2>1, <3>1, <3>4 DEF InvitesSound
      <4>2. PICK q \in Requests : BeingUsedUp(q, j)
        BY <2>3, <3>1, <3>4, <4>1 DEF InvitesSound
      <4>3. BeingUsedUp(q, j)'
        BY <2>1, <2>4, <4>2 DEF BeingUsedUp, Op
      <4> QED  BY <4>3
    <3> QED  BY <3>2, <3>3, <3>4 DEF InvitesSound
  <2> QED  BY <2>4, <2>5, <2>6, <2>7 DEF AccountsInv
<1> QED  BY <1>1, <1>2, <1>3, <1>4, <1>5, <1>6
-----------------------------------------------------------------------------
(* Invitations, the setup wizard and refusals.                             *)

\* The requests of somebody who is not signed in, and those that are refused:
\* each keeps the invariant.
LEMMA OpenStep ==
  ASSUME TypeOK, RequestsSound, SecondFactorHasCodes, InvitesSound,
         NEW r \in Requests,
         \/ \E n \in Names :
              \/ Accept(r, n)
              \/ \E sent \in BOOLEAN : SendCode(r, n, sent)
              \/ \E e \in Emails \cup {None}, a \in BOOLEAN : SetupAccount(r, n, e, a)
         \/ SetupSkips(r) \/ SetupEnds(r)
         \/ AcceptCloses(r)
         \/ Refused(r)
  PROVE  AccountsInv'
<1> DEFINE i == req[r].held
<1>1. ASSUME NEW n \in Names, Accept(r, n)
      PROVE  AccountsInv'
  <2>1. /\ Op(r, "accept", "begun") /\ req[r] # None /\ req[r].row \in InviteRows
        /\ ~Exists(n) /\ i \in Invites
    BY <1>1, OpGives DEF Accept
  <2>2. req[r].row.email \in Emails \cup {None} /\ req[r].row.admin \in BOOLEAN
    BY <2>1 DEF InviteRows
  <2>3. PICK email \in Emails \cup {None}, admin \in BOOLEAN :
          user' = [user EXCEPT ![n] = Row(email, admin)]
    BY <1>1, <2>2 DEF Accept
  <2>4. /\ user' \in [Names -> UserRows \cup {None}] /\ ~user'[n].on
        /\ \A m \in Names : m # n => user'[m] = user[m]
    BY <2>3, RowIsRow DEF TypeOK
  <2>5. /\ req' \in [Requests -> Asked \cup {None}] /\ RequestsSound'
        /\ req'[r] = [req[r] EXCEPT !.step = "made"]
        /\ \A q \in Requests : q # r => req'[q] = req[q]
    BY <1>1, <2>1, GoesKeeps DEF Accept, Goes, TypeOK
  <2>7. /\ req'[r] # None /\ req'[r].op = "accept" /\ req'[r].step = "made"
        /\ req'[r].held = i
    BY <2>1, <2>5, NoneAssumption DEF Op, TypeOK, Asked
  <2>6. TypeOK'
    BY <1>1, <2>1, <2>4, <2>5 DEF Accept, TypeOK, Still
  <2>8. SecondFactorHasCodes'
    <3>1. ~Op(r, "enable", "on")
      BY <2>1 DEF Op
    <3>2. \A m \in Names : (Exists(m) /\ user[m].on)' => Exists(m) /\ user[m].on
      BY <2>4 DEF Exists
    <3> QED  BY <1>1, <2>5, <3>1, <3>2, OthersGoOn, FactorsKept DEF Accept
  <2>9. InvitesSound'
    <3>1. /\ invited' = invited /\ torn' = torn /\ invite' = invite /\ i \in invited
          /\ \A j \in Invites : j # i => made'[j] = made[j]
      BY <1>1, <2>1 DEF Accept, InvitesSound, Op, TypeOK
    <3>2. \A j \in Invites : (invite[j] # None \/ made[j] # 0 => j \in invited)'
      BY <3>1 DEF InvitesSound
    <3>3. \A q \in Requests :
            (req[q] # None /\ req[q].op = "accept" => req[q].held \in invited)'
      BY <2>5, <2>7, <3>1 DEF InvitesSound
    <3>4. ASSUME NEW j \in Invites, made'[j] # 0, j \notin torn',
                 ~(invite'[j] = None \/ invite'[j].used)
          PROVE  \E q \in Requests : BeingUsedUp(q, j)'
      <4>1. CASE j = i
        <5>1. BeingUsedUp(r, j)'
          BY <2>7, <4>1 DEF BeingUsedUp, Op
        <5> QED  BY <5>1
      <4>2. CASE j # i
        <5>1. PICK q \in Requests : BeingUsedUp(q, j)
          BY <3>1, <3>4, <4>2 DEF InvitesSound
        <5>2. BeingUsedUp(q, j)'
          BY <2>1, <2>5, <5>1 DEF BeingUsedUp, Op
        <5> QED  BY <5>2
      <4> QED  BY <4>1, <4>2
    <3> QED  BY <3>2, <3>3, <3>4 DEF InvitesSound
  <2> QED  BY <2>5, <2>6, <2>8, <2>9 DEF AccountsInv
<1>2. ASSUME NEW n \in Names, NEW sent \in BOOLEAN, SendCode(r, n, sent)
      PROVE  AccountsInv'
  <2>1. Op(r, "send", "begun") /\ i \in Invites
    BY <1>2, OpGives DEF SendCode
  <2>2. /\ invite' \in [Invites -> InviteRows \cup {None}]
        /\ \A j \in Invites : invite'[j] # None => invite[j] # None
        /\ \A j \in Invites : invite[j] = None \/ invite[j].used => invite'[j] = None \/ invite'[j].used
    <3>1. invite' = IF invite[i] = None THEN invite ELSE [invite EXCEPT ![i].code = sent]
      BY <1>2 DEF SendCode, InviteWith
    <3> HIDE DEF i
    <3>2. CASE invite[i] = None
      BY <3>1, <3>2 DEF TypeOK
    <3>3. CASE invite[i] # None
      <4>1. invite[i] \in InviteRows
        BY <2>1, <3>3 DEF TypeOK
      <4>2. [invite[i] EXCEPT !.code = sent] \in InviteRows /\ [invite[i] EXCEPT !.code = sent].used = invite[i].used
        BY <4>1 DEF InviteRows
      <4>3. invite' = [invite EXCEPT ![i] = [invite[i] EXCEPT !.code = sent]]
        BY <3>1, <3>3
      <4> QED  BY <2>1, <3>3, <4>2, <4>3 DEF TypeOK
    <3> QED  BY <3>2, <3>3
  <2>3. /\ req' \in [Requests -> Asked \cup {None}] /\ RequestsSound'
        /\ \A q \in Requests : q # r => req'[q] = req[q]
    BY <1>2, EndsKeeps DEF SendCode, Ends, TypeOK
  <2>4. TypeOK'
    BY <1>2, <2>2, <2>3 DEF SendCode, TypeOK, Still, history
  <2>6. SecondFactorHasCodes'
    <3>1. ~Op(r, "enable", "on")
      BY <2>1 DEF Op
    <3> QED  BY <1>2, <2>3, <3>1, OthersGoOn, FactorsKept DEF SendCode, Exists, history
  <2>7. InvitesSound'
    BY <1>2, <2>1, <2>2, EndsKeeps, InvitesKept DEF SendCode, history, Op
  <2> QED  BY <2>3, <2>4, <2>6, <2>7 DEF AccountsInv
<1>3. ASSUME AcceptCloses(r)
      PROVE  AccountsInv'
  <2>1. Op(r, "accept", "made") /\ i \in Invites
    BY <1>3, OpGives DEF AcceptCloses
  <2>2. /\ invite' \in [Invites -> InviteRows \cup {None}]
        /\ invite'[i] = None \/ invite'[i].used
        /\ \A j \in Invites : j # i => invite'[j] = invite[j]
    <3>1. invite' = IF invite[i] = None THEN invite
                    ELSE [invite EXCEPT ![i].code = FALSE, ![i].used = TRUE]
      BY <1>3 DEF AcceptCloses, Closed
    <3> HIDE DEF i
    <3>2. CASE invite[i] = None
      BY <3>1, <3>2 DEF TypeOK
    <3>3. CASE invite[i] # None
      <4> DEFINE new == [invite[i] EXCEPT !.code = FALSE, !.used = TRUE]
      <4>1. invite[i] \in InviteRows
        BY <2>1, <3>3 DEF TypeOK
      <4>2. new \in InviteRows /\ new.used
        BY <4>1 DEF InviteRows
      <4>3. invite' = [invite EXCEPT ![i] = new]
        BY <2>1, <3>1, <3>3 DEF TypeOK
      <4> HIDE DEF new
      <4> QED  BY <2>1, <4>2, <4>3 DEF TypeOK
    <3> QED  BY <3>2, <3>3
  <2>3. /\ req' \in [Requests -> Asked \cup {None}] /\ RequestsSound'
        /\ \A q \in Requests : q # r => req'[q] = req[q]
    BY <1>3, EndsKeeps DEF AcceptCloses, Ends, TypeOK
  <2>4. TypeOK'
    BY <1>3, <2>2, <2>3 DEF AcceptCloses, TypeOK, Still
  <2>6. SecondFactorHasCodes'
    <3>1. ~Op(r, "enable", "on")
      BY <2>1 DEF Op
    <3> QED  BY <1>3, <2>3, <3>1, OthersGoOn, FactorsKept DEF AcceptCloses, Exists
  <2>7. InvitesSound'
    <3>1. /\ invited' = invited /\ made' = made /\ torn' = torn \ {i} /\ i \in invited
      BY <1>3, <2>1 DEF AcceptCloses, InvitesSound, Op
    <3>2. \A j \in Invites : (invite[j] # None \/ made[j] # 0 => j \in invited)'
      BY <2>2, <3>1 DEF InvitesSound
    <3>3. \A q \in Requests :
            (req[q] # None /\ req[q].op = "accept" => req[q].held \in invited)'
      BY <1>3, <2>3, <3>1, EndsKeeps DEF AcceptCloses, InvitesSound
    <3>4. ASSUME NEW j \in Invites, made'[j] # 0, j \notin torn',
                 ~(invite'[j] = None \/ invite'[j].used)
          PROVE  \E q \in Requests : BeingUsedUp(q, j)'
      <4>1. j # i
        BY <2>2, <3>4
      <4>2. PICK q \in Requests : BeingUsedUp(q, j)
        BY <2>2, <3>1, <3>4, <4>1 DEF InvitesSound
      <4>3. q # r
        BY <4>1, <4>2 DEF BeingUsedUp
      <4>4. BeingUsedUp(q, j)'
        BY <2>3, <4>2, <4>3 DEF BeingUsedUp, Op
      <4> QED  BY <4>4
    <3> QED  BY <3>2, <3>3, <3>4 DEF InvitesSound
  <2> QED  BY <2>3, <2>4, <2>6, <2>7 DEF AccountsInv
<1>4. ASSUME NEW n \in Names, NEW e \in Emails \cup {None}, NEW a \in BOOLEAN,
             SetupAccount(r, n, e, a)
      PROVE  AccountsInv'
  <2>1. /\ req[r] # None /\ req[r].op = "wizard"
        /\ ~Op(r, "enable", "on") /\ ~Op(r, "accept", "made")
    BY <1>4 DEF SetupAccount, AtWizard, Op
  <2>2. WizardAdmin(r, a) \in BOOLEAN
    BY DEF WizardAdmin
  <2>3. /\ user' \in [Names -> UserRows \cup {None}] /\ ~user'[n].on
        /\ \A m \in Names : m # n => user'[m] = user[m]
    BY <1>4, <2>2, RowIsRow DEF SetupAccount, TypeOK
  <2>4. /\ req' \in [Requests -> Asked \cup {None}] /\ RequestsSound'
        /\ req'[r].op = "wizard"
        /\ \A q \in Requests : q # r => req'[q] = req[q]
    BY <1>4, <2>1, GoesKeeps DEF SetupAccount
  <2>5. TypeOK'
    BY <1>4, <2>3, <2>4 DEF SetupAccount, TypeOK, Still, history
  <2>6. SecondFactorHasCodes'
    <3>1. \A m \in Names : (Exists(m) /\ user[m].on)' => Exists(m) /\ user[m].on
      BY <2>3 DEF Exists
    <3> QED  BY <1>4, <2>1, <2>4, <3>1, OthersGoOn, FactorsKept DEF SetupAccount, history
  <2>7. InvitesSound'
    BY <1>4, <2>1, <2>4, InvitesKept DEF SetupAccount, history
  <2> QED  BY <2>4, <2>5, <2>6, <2>7 DEF AccountsInv
<1>5. ASSUME SetupSkips(r) \/ SetupEnds(r)
      PROVE  AccountsInv'
  <2>1. /\ req[r] # None /\ req[r].op = "wizard"
        /\ ~Op(r, "enable", "on") /\ ~Op(r, "accept", "made")
    BY <1>5 DEF SetupSkips, SetupEnds, AtWizard, Op
  <2>2. /\ req' \in [Requests -> Asked \cup {None}] /\ RequestsSound'
        /\ req'[r] = None \/ req'[r].op = "wizard"
        /\ \A q \in Requests : q # r => req'[q] = req[q]
    BY <1>5, <2>1, GoesKeeps, EndsKeeps DEF SetupSkips, SetupEnds
  <2>3. /\ UNCHANGED <<user, codes, invite, session, history, mail, enforced, moves>>
        /\ complete' \in BOOLEAN
    BY <1>5 DEF SetupSkips, SetupEnds, rows, Still, TypeOK
  <2>4. TypeOK'
    BY <2>2, <2>3 DEF TypeOK, history
  <2>5. SecondFactorHasCodes'
    BY <2>1, <2>2, <2>3, OthersGoOn, FactorsKept DEF Exists, history
  <2>6. InvitesSound'
    BY <2>1, <2>2, <2>3, InvitesKept DEF history
  <2> QED  BY <2>2, <2>4, <2>5, <2>6 DEF AccountsInv
<1>6. ASSUME Refused(r)
      PROVE  AccountsInv'
  <2>1. ~Op(r, "enable", "on")
    BY <1>6 DEF Refused, Op
  <2>2. /\ req' \in [Requests -> Asked \cup {None}] /\ RequestsSound'
        /\ \A q \in Requests : q # r => req'[q] = req[q]
    BY <1>6, EndsKeeps DEF Refused, Ends, TypeOK
  <2>3. TypeOK'
    BY <1>6, <2>2 DEF Refused, TypeOK, Still, rows, history
  <2>5. SecondFactorHasCodes'
    BY <1>6, <2>1, <2>2, OthersGoOn, FactorsKept DEF Refused, Exists, rows, history
  <2>6. InvitesSound'
    BY <1>6, EndsKeeps, InvitesKept DEF Refused, rows, history, Op
  <2> QED  BY <2>2, <2>3, <2>5, <2>6 DEF AccountsInv
<1> QED  BY <1>1, <1>2, <1>3, <1>4, <1>5, <1>6

-----------------------------------------------------------------------------
(* Signing in, beginning a request, and a stop of the server.              *)

\* What changes no row but the recovery codes that are used: each step keeps
\* the invariant.
LEMMA OtherStep ==
  ASSUME TypeOK, RequestsSound, SecondFactorHasCodes, InvitesSound,
         \/ \E n \in Names :
              \/ SignInWithPassword(n) \/ SignOut(n)
              \/ \E e \in Emails : SignInWithMicrosoft(e, n)
         \/ \E r \in Requests : BeginSome(r)
         \/ Restart
  PROVE  AccountsInv'
<1> USE MovesAssumption
<1>1. ASSUME NEW n \in Names,
             SignInWithPassword(n) \/ \E e \in Emails : SignInWithMicrosoft(e, n)
      PROVE  AccountsInv'
  <2>1. /\ Admitted(n)
        /\ codes' \in [Names -> {"none", "left", "used"}]
        /\ \A m \in Names : codes[m] # "none" => codes'[m] # "none"
    BY <1>1 DEF SignInWithPassword, SignInWithMicrosoft, TypeOK
  <2>2. TypeOK' /\ RequestsSound'
    BY <2>1 DEF Admitted, TypeOK, RequestsSound, history
  <2>4. SecondFactorHasCodes'
    BY <2>1, FactorsKept DEF Admitted, Exists, Op, history
  <2>5. InvitesSound'
    BY <2>1 DEF Admitted, InvitesSound, BeingUsedUp, Op, history
  <2> QED  BY <2>2, <2>4, <2>5 DEF AccountsInv
<1>2. ASSUME NEW n \in Names, SignOut(n)
      PROVE  AccountsInv'
  <2>1. TypeOK' /\ RequestsSound'
    BY <1>2 DEF SignOut, TypeOK, RequestsSound, rows, history
  <2>2. SecondFactorHasCodes' /\ InvitesSound'
    BY <1>2 DEF SignOut, Exists, SecondFactorHasCodes, BeingEnabled, BeingUsedUp, Op,
                InvitesSound, rows, history
  <2> QED  BY <2>1, <2>2 DEF AccountsInv
<1>3. ASSUME NEW r \in Requests, BeginSome(r)
      PROVE  AccountsInv'
  <2>1. PICK q \in Asked : Given(q) /\ Begin(r, q)
    BY <1>3, BegunIsSound
  <2>2. TypeOK' /\ RequestsSound'
    BY <2>1 DEF Begin, TypeOK, RequestsSound, rows, history
  <2>4. SecondFactorHasCodes'
    <3>1. ~Op(r, "enable", "on")
      BY <2>1 DEF Begin, Op
    <3>2. \A p \in Requests : p # r => req'[p] = req[p]
      BY <2>1 DEF Begin, TypeOK
    <3> QED  BY <2>1, <3>1, <3>2, OthersGoOn, FactorsKept DEF Begin, Exists, rows, history
  <2>5. InvitesSound'
    <3>1. ~Op(r, "accept", "made")
      BY <2>1 DEF Begin, Op
    <3>2. req'[r] = q /\ \A p \in Requests : p # r => req'[p] = req[p]
      BY <2>1 DEF Begin, TypeOK
    <3>3. q.op = "accept" => q.held \in invited
      BY <1>3, <2>1, <3>2, BegunIsOpen
    <3> QED  BY <2>1, <3>1, <3>2, <3>3, InvitesKept DEF Begin, rows, history
  <2> QED  BY <2>2, <2>4, <2>5 DEF AccountsInv
<1>4. ASSUME Restart
      PROVE  AccountsInv'
  <2>1. TypeOK' /\ RequestsSound'
    BY <1>4 DEF Restart, TypeOK, RequestsSound, Still, rows
  <2>3. SecondFactorHasCodes'
    BY <1>4 DEF Restart, SecondFactorHasCodes, Exists, rows
  <2>4. InvitesSound'
    BY <1>4 DEF Restart, InvitesSound, rows
  <2> QED  BY <2>1, <2>3, <2>4 DEF AccountsInv
<1> QED  BY <1>1, <1>2, <1>3, <1>4

-----------------------------------------------------------------------------
(* The invariant and the theorems.                                         *)

\* What the server starts with.
LEMMA AccountsStart ==
  ASSUME Init
  PROVE  AccountsInv
<1> USE MovesAssumption
<1>1. user \in [Names -> UserRows \cup {None}] /\ complete \in BOOLEAN
      /\ \A m \in Names : ~(Exists(m) /\ user[m].on)
  <2>1. CASE user = [m \in Names |-> None] /\ complete = FALSE
    BY <2>1 DEF Exists
  <2>2. CASE \E n \in Names, e \in Emails \cup {None} :
               /\ user = [m \in Names |-> IF m = n THEN Row(e, TRUE) ELSE None]
               /\ complete = TRUE
    <3>1. PICK n \in Names, e \in Emails \cup {None} :
            user = [m \in Names |-> IF m = n THEN Row(e, TRUE) ELSE None]
      BY <2>2
    <3>2. Row(e, TRUE) \in UserRows /\ ~Row(e, TRUE).on
      BY RowIsRow
    <3> QED  BY <2>2, <3>1, <3>2 DEF Exists
  <2> QED  BY <2>1, <2>2 DEF Init
<1>2. TypeOK
  <2>1. /\ codes \in [Names -> {"none", "left", "used"}]
        /\ invite \in [Invites -> InviteRows \cup {None}]
        /\ req \in [Requests -> Asked \cup {None}]
        /\ made \in [Invites -> Nat]
    BY DEF Init
  <2>2. session \subseteq Names /\ invited \subseteq Invites /\ torn \subseteq Invites
        /\ cut \subseteq Names
    BY DEF Init
  <2>3. mail \in BOOLEAN /\ enforced \in BOOLEAN /\ moves \in 0 .. MaxMoves
    BY DEF Init
  <2> QED  BY <1>1, <2>1, <2>2, <2>3 DEF TypeOK
<1>3. RequestsSound /\ InvitesSound
  BY DEF Init, RequestsSound, InvitesSound
<1>4. SecondFactorHasCodes
  BY <1>1 DEF SecondFactorHasCodes
<1> QED  BY <1>2, <1>3, <1>4 DEF AccountsInv

\* Every step keeps the invariant.
LEMMA AccountsStep ==
  ASSUME AccountsInv, [Next]_vars
  PROVE  AccountsInv'
<1>1. TypeOK /\ RequestsSound /\ SecondFactorHasCodes /\ InvitesSound
  BY DEF AccountsInv
<1>2. CASE UNCHANGED vars
  BY <1>1, <1>2 DEF vars, rows, history, AccountsInv, TypeOK, RequestsSound, Exists,
     SecondFactorHasCodes, BeingEnabled, BeingUsedUp, Op, InvitesSound
<1>3. CASE Next
  <2>1. ASSUME NEW r \in Requests, Step(r)
        PROVE  AccountsInv'
    BY <1>1, <2>1, OwnStep, AdminStep, OpenStep DEF Step
  <2> QED  BY <1>1, <1>3, <2>1, OtherStep DEF Next
<1> QED  BY <1>2, <1>3

\* The inductive invariant of accounts: what the requests under way were given
\* still makes sense, second factors have codes, and what an account was made of
\* is closed, unless a stop came in between.
THEOREM AccountsInvariant == Spec => []AccountsInv
<1> QED  BY AccountsStart, AccountsStep, PTL DEF Spec

\* Whoever is asked for a second factor has been given recovery codes.
THEOREM FactorsHaveCodes == Spec => []SecondFactorHasCodes
<1>1. AccountsInv => SecondFactorHasCodes
  BY DEF AccountsInv
<1> QED  BY <1>1, AccountsInvariant, PTL
-----------------------------------------------------------------------------
(* The last administrator.                                                 *)

\* Most steps leave whoever is an administrator one.
LEMMA AdminsStay ==
  ASSUME TypeOK, RequestsSound, NEW r \in Requests, Step(r),
         ~WriteEdit(r), ~DeleteUser(r),
         \A n \in Names, e \in Emails \cup {None}, a \in BOOLEAN : ~SetupAccount(r, n, e, a),
         NEW m \in Names, IsAdmin(m)
  PROVE  IsAdmin(m)'
<1> DEFINE by == req[r].by
<1>1. ASSUME NEW s \in Secrets, SetupSecret(r, s)
      PROVE  IsAdmin(m)'
  <2>1. by \in Names /\ req[r].admin \in BOOLEAN
    BY <1>1, OpGives DEF SetupSecret, Own, Asked
  <2> DEFINE self == Self(by, req[r].admin)
  <2>2. /\ self \in [Names -> UserRows \cup {None}] /\ self[by] \in UserRows
        /\ Exists(by) => self[by] = user[by]
        /\ \A n \in Names : n # by => self[n] = user[n]
    BY <2>1, SelfIsRow
  <2>3. user' = [self EXCEPT ![by].secret = s]
    BY <1>1 DEF SetupSecret
  <2> HIDE DEF self
  <2>4. CASE m = by
    BY <2>1, <2>2, <2>3, <2>4, NoneAssumption DEF IsAdmin, Exists, UserRows
  <2>5. CASE m # by
    BY <2>1, <2>2, <2>3, <2>5 DEF IsAdmin, Exists
  <2> QED  BY <2>4, <2>5
<1>2. ASSUME NEW row, Exists(by) => row \in UserRows /\ row.admin = user[by].admin,
             by \in Names, user' = Updated(by, row)
      PROVE  IsAdmin(m)'
  BY <1>2, RowKept DEF IsAdmin, Exists
<1>3. ASSUME SetupOff(r) \/ Enable(r) \/ Disable(r) \/ SetEmail(r)
      PROVE  IsAdmin(m)'
  <2>1. by \in Names
    BY <1>3, OpGives DEF SetupOff, Enable, Disable, SetEmail, Own
  <2>2. Exists(by) => user[by] \in UserRows
    BY <2>1 DEF Exists, TypeOK
  <2>3. CASE SetupOff(r)
    BY <1>2, <2>1, <2>2, <2>3 DEF SetupOff, UserRows
  <2>4. CASE Enable(r)
    BY <1>2, <2>1, <2>2, <2>4 DEF Enable, UserRows
  <2>5. CASE Disable(r)
    BY <1>2, <2>1, <2>2, <2>5 DEF Disable, DisabledRow, UserRows
  <2>6. CASE SetEmail(r)
    <3>1. req[r].held \in Emails \cup {None}
      BY <2>6, OpGives DEF SetEmail
    <3> QED  BY <1>2, <2>1, <2>2, <2>6, <3>1 DEF SetEmail, UserRows
  <2> QED  BY <1>3, <2>3, <2>4, <2>5, <2>6
<1>4. ASSUME NEW n \in Names, Accept(r, n)
      PROVE  IsAdmin(m)'
  <2>1. m # n /\ user'[m] = user[m]
    BY <1>4 DEF Accept, IsAdmin, TypeOK
  <2> QED  BY <2>1 DEF IsAdmin, Exists
<1>5. ASSUME user' = user
      PROVE  IsAdmin(m)'
  BY <1>5 DEF IsAdmin, Exists
<1>6. ASSUME \/ EnableCodes(r) \/ RecoveryCodes(r)
             \/ \E edit \in Edits : CheckEdit(r, edit)
             \/ ResetConfig(r)
             \/ \E i \in Invites :
                  \/ RevokeInvite(r, i)
                  \/ \E e \in Emails, a \in BOOLEAN : CreateInvite(r, i, e, a)
             \/ \E n \in Names, sent \in BOOLEAN : SendCode(r, n, sent)
             \/ SetupSkips(r) \/ SetupEnds(r) \/ AcceptCloses(r) \/ Refused(r)
      PROVE  user' = user
  BY <1>6 DEF EnableCodes, RecoveryCodes, Issue, CheckEdit, ResetConfig, RevokeInvite,
              CreateInvite, SendCode, SetupSkips, SetupEnds, AcceptCloses, Refused, rows
<1> QED  BY <1>1, <1>3, <1>4, <1>5, <1>6 DEF Step

\* How the last administrator can go.
LEMMA LastAdminGoes ==
  ASSUME AccountsInv, Next, Admins # {}, Admins' = {}
  PROVE  \E r \in Requests : (Crossed(r) /\ req'[r] = None) \/ WrittenOver(r)
<1> USE DEF AccountsInv
<1>1. PICK m \in Names : IsAdmin(m)
  BY DEF Admins
<1>2. \A n \in Names : ~IsAdmin(n)'
  BY DEF Admins
<1>3. \E r \in Requests : Step(r)
  <2>1. ASSUME user' = user
        PROVE  FALSE
    BY <1>1, <1>2, <2>1 DEF IsAdmin, Exists
  <2>2. ASSUME NEW r \in Requests, BeginSome(r)
        PROVE  user' = user
    BY <2>2, BegunIsSound DEF Begin, rows
  <2> QED  BY <2>1, <2>2 DEF Next, SignInWithPassword, SignInWithMicrosoft, SignOut, Admitted,
                             Restart, rows
<1>4. PICK r \in Requests : Step(r)
  BY <1>3
<1> DEFINE by == req[r].by
<1> DEFINE n == req[r].held
<1>5. CASE WriteEdit(r)
  <2>1. /\ Op(r, "edit", "checked") /\ by \in Names /\ n \in Names /\ req[r].admin
        /\ req[r].row \in Edits /\ (req[r].row.admin = FALSE => n # by)
        /\ req[r] # None /\ req[r].op = "edit" /\ req'[r] = None
    BY <1>5, OpGives, EndsKeeps DEF WriteEdit, OfAdmins
  <2>2. \A k \in Names : k # n => user'[k] = user[k]
    BY <1>5, <2>1 DEF WriteEdit, TypeOK
  <2>3. m = n
    BY <1>1, <1>2, <2>2 DEF IsAdmin, Exists
  <2>4. req[r].row.admin = FALSE
    <3> DEFINE edit == req[r].row
    <3> DEFINE row == [user[n] EXCEPT !.admin = IF edit.admin = None THEN @ ELSE edit.admin,
                                      !.email = IF edit.email = None THEN @ ELSE edit.email]
    <3>1. user[n] \in UserRows /\ Exists(n) /\ user[n].admin
      BY <1>1, <2>1, <2>3 DEF IsAdmin, Exists, TypeOK
    <3>2. edit.admin \in BOOLEAN \cup {None} /\ edit.email \in Emails \cup {None}
      BY <2>1 DEF Edits
    <3>3. user' = [user EXCEPT ![n] = row]
      BY <1>5, <3>1 DEF WriteEdit
    <3> HIDE DEF edit
    <3>4. row \in UserRows /\ (edit.admin # FALSE => row.admin)
      BY <3>1, <3>2 DEF UserRows
    <3> HIDE DEF row
    <3>5. user'[n] = row /\ row # None
      BY <2>1, <3>3, <3>4, NoneAssumption DEF TypeOK
    <3>6. edit.admin = FALSE
      BY <1>2, <2>1, <3>4, <3>5 DEF IsAdmin, Exists
    <3> QED  BY <3>6 DEF edit
  <2>5. ~IsAdmin(by)
    <3>1. PICK c \in Names : c = by
      BY <2>1
    <3>2. c # n /\ ~IsAdmin(c)'
      BY <1>2, <2>1, <2>4, <3>1
    <3> QED  BY <2>2, <3>1, <3>2 DEF IsAdmin, Exists
  <2> QED  BY <2>1, <2>5 DEF Crossed
<1>6. CASE DeleteUser(r)
  <2>1. /\ by \in Names /\ n \in Names /\ n # by /\ req[r].admin
        /\ req[r] # None /\ req[r].op = "delete" /\ req'[r] = None
    BY <1>6, OpGives, EndsKeeps DEF DeleteUser, AsAdmin, OfAdmins
  <2>2. \A k \in Names : k # n => user'[k] = user[k]
    BY <1>6, <2>1 DEF DeleteUser, TypeOK
  <2>3. ~IsAdmin(by)
    <3>1. PICK c \in Names : c = by
      BY <2>1
    <3>2. c # n /\ ~IsAdmin(c)'
      BY <1>2, <2>1, <3>1
    <3> QED  BY <2>2, <3>1, <3>2 DEF IsAdmin, Exists
  <2> QED  BY <2>1, <2>3 DEF Crossed
<1>7. ASSUME NEW k \in Names, NEW e \in Emails \cup {None}, NEW a \in BOOLEAN,
             SetupAccount(r, k, e, a)
      PROVE  WrittenOver(r)
  <2>1. user'[k] = Row(e, WizardAdmin(r, a)) /\ WizardAdmin(r, a) \in BOOLEAN
    BY <1>7 DEF SetupAccount, WizardAdmin, TypeOK
  <2>2. WizardAdmin(r, a) = FALSE
    <3>1. CASE WizardAdmin(r, a) = TRUE
      <4>1. Row(e, TRUE) # None /\ Row(e, TRUE).admin
        BY RowIsRow
      <4>2. user'[k] = Row(e, TRUE)
        BY <2>1, <3>1
      <4> QED  BY <1>2, <4>1, <4>2 DEF IsAdmin, Exists
    <3> QED  BY <2>1, <3>1
  <2>3. Op(r, "wizard", "writing")
    BY <1>7, <2>2 DEF SetupAccount, AtWizard, WizardAdmin, Op
  <2>4. req' = req
    <3>1. req[r] \in Asked /\ req[r].step = "writing"
      BY <2>3 DEF Op, TypeOK
    <3>2. [req[r] EXCEPT !.step = "writing"] = req[r]
      BY <3>1 DEF Asked
    <3>3. req' = [req EXCEPT ![r] = [req[r] EXCEPT !.step = "writing"]]
      BY <1>7 DEF SetupAccount, Goes
    <3> QED  BY <3>2, <3>3 DEF TypeOK
  <2> QED  BY <2>3, <2>4 DEF WrittenOver
<1> QED  BY <1>1, <1>2, <1>4, <1>5, <1>6, <1>7, AdminsStay

\* The last administrator goes by two requests that cross, or by the wizard.
THEOREM AdministratorsRemain == Spec => AdminRemains
<1>1. AccountsInv /\ [Next]_vars =>
        [Admins # {} /\ Admins' = {} =>
           \E r \in Requests : (Crossed(r) /\ req'[r] = None) \/ WrittenOver(r)]_vars
  BY LastAdminGoes
<1> QED  BY <1>1, AccountsInvariant, PTL DEF Spec, AdminRemains

-----------------------------------------------------------------------------
(* Invitations.                                                            *)

\* A step of a request under way is of that request alone, which waits for
\* nothing more.
LEMMA StepIsOfOne ==
  ASSUME TypeOK, RequestsSound, NEW r \in Requests, Step(r)
  PROVE  /\ req[r] # None /\ (req'[r] = None \/ req'[r].step # "begun")
         /\ \A q \in Requests : q # r => req'[q] = req[q]
<1>1. req[r] # None
  BY DEF Step, SetupSecret, SetupOff, Enable, EnableCodes, RecoveryCodes, Disable, SetEmail,
         CheckEdit, WriteEdit, DeleteUser, ResetConfig, RevokeInvite, CreateInvite, Accept,
         SendCode, SetupAccount, SetupSkips, SetupEnds, AcceptCloses, Refused, AsAdmin,
         AtWizard, Op
<1>2. \/ Ends(r) \/ \E s \in {"stored", "on", "made", "writing"} : Goes(r, s)
      \/ \E edit \in Edits : CheckEdit(r, edit)
  BY DEF Step, SetupSecret, SetupOff, Enable, EnableCodes, RecoveryCodes, Issue, Disable,
         SetEmail, WriteEdit, DeleteUser, ResetConfig, RevokeInvite, CreateInvite, Accept,
         SendCode, SetupAccount, SetupSkips, SetupEnds, AcceptCloses, Refused
<1>3. CASE Ends(r)
  BY <1>1, <1>3, EndsKeeps
<1>4. ASSUME NEW s \in {"stored", "on", "made", "writing"}, Goes(r, s)
      PROVE  /\ req'[r].step # "begun"
             /\ \A q \in Requests : q # r => req'[q] = req[q]
  BY <1>1, <1>4, GoesKeeps
<1>5. ASSUME NEW edit \in Edits, CheckEdit(r, edit)
      PROVE  /\ req'[r].step # "begun"
             /\ \A q \in Requests : q # r => req'[q] = req[q]
  <2>1. req[r] \in Asked
    BY <1>1 DEF TypeOK
  <2>2. [req[r] EXCEPT !.step = "checked", !.row = edit].step = "checked"
    BY <2>1 DEF Asked
  <2>3. req' = [req EXCEPT ![r] = [req[r] EXCEPT !.step = "checked", !.row = edit]]
    BY <1>5 DEF CheckEdit
  <2> QED  BY <2>2, <2>3 DEF TypeOK
<1> QED  BY <1>1, <1>2, <1>3, <1>4, <1>5

\* What becomes of an invitation that is over.
LEMMA OnceStep ==
  ASSUME AccountsInv, Next, NEW i \in Invites, IsOver(i)
  PROVE  /\ Waiting(i)' \subseteq Waiting(i)
         /\ \/ made'[i] = made[i]
            \/ made'[i] = made[i] + 1 /\ Waiting(i)' # Waiting(i)
<1> USE DEF AccountsInv
<1>1. ASSUME NEW r \in Requests, Step(r)
      PROVE  /\ Waiting(i)' \subseteq Waiting(i)
             /\ \/ made'[i] = made[i]
                \/ made'[i] = made[i] + 1 /\ Waiting(i)' # Waiting(i)
  <2>1. /\ req[r] # None /\ (req'[r] = None \/ req'[r].step # "begun")
        /\ \A q \in Requests : q # r => req'[q] = req[q]
    BY <1>1, StepIsOfOne
  <2>2. r \notin Waiting(i)' /\ Waiting(i)' \subseteq Waiting(i)
    BY <2>1 DEF Waiting, Op
  <2>3. ASSUME NEW n \in Names, Accept(r, n)
        PROVE  made'[i] = made[i] \/ (made'[i] = made[i] + 1 /\ r \in Waiting(i))
    BY <2>3 DEF Accept, Waiting, TypeOK
  <2>4. ASSUME ~\E n \in Names : Accept(r, n)
        PROVE  made' = made
    BY <1>1, <2>4 DEF Step, SetupSecret, SetupOff, Enable, EnableCodes, RecoveryCodes, Issue,
       Disable, SetEmail, CheckEdit, WriteEdit, DeleteUser, ResetConfig, RevokeInvite,
       CreateInvite, SendCode, SetupAccount, SetupSkips, SetupEnds, AcceptCloses, Refused,
       history
  <2> QED  BY <2>2, <2>3, <2>4
<1>2. ASSUME NEW r \in Requests, BeginSome(r)
      PROVE  Waiting(i)' \subseteq Waiting(i) /\ made' = made
  <2>1. /\ req[r] = None /\ made' = made
        /\ \A q \in Requests : q # r => req'[q] = req[q]
    BY <1>2, BegunIsSound DEF Begin, TypeOK, history
  <2>2. r \notin Waiting(i)'
    <3> SUFFICES ASSUME req'[r].op = "accept", req'[r].held = i
                 PROVE  FALSE
      BY DEF Waiting, Op
    <3>1. Live(i) /\ LoopIsFree(r)
      BY <1>2, BegunIsOpen
    <3>2. PICK q \in Requests : BeingUsedUp(q, i)
      BY <3>1 DEF IsOver, Live, InvitesSound
    <3> QED  BY <2>1, <3>1, <3>2 DEF BeingUsedUp, LoopIsFree, Op
  <2> QED  BY <2>1, <2>2 DEF Waiting, Op
<1>3. ASSUME NEW n \in Names,
             \/ SignInWithPassword(n) \/ SignOut(n)
             \/ \E e \in Emails : SignInWithMicrosoft(e, n)
      PROVE  Waiting(i)' \subseteq Waiting(i) /\ made' = made
  BY <1>3 DEF SignInWithPassword, SignInWithMicrosoft, SignOut, Admitted, Waiting, Op, history
<1>4. ASSUME Restart
      PROVE  Waiting(i)' \subseteq Waiting(i) /\ made' = made
  BY <1>4 DEF Restart, Waiting, Op
<1> QED  BY <1>1, <1>2, <1>3, <1>4 DEF Next

\* Of an invitation that is over only those make an account that have read it
\* before.
THEOREM InvitationsOnce == Spec => InvitationOnce
<1>1. AccountsInv /\ [Next]_vars =>
        [\A i \in Invites : IsOver(i) =>
           /\ Waiting(i)' \subseteq Waiting(i)
           /\ \/ made'[i] = made[i]
              \/ made'[i] = made[i] + 1 /\ Waiting(i)' # Waiting(i)]_vars
  BY OnceStep
<1> QED  BY <1>1, AccountsInvariant, PTL DEF Spec, InvitationOnce
-----------------------------------------------------------------------------
(* Who may do what, whatever the tables hold (module Access).              *)

\* The ranks of the roles.
LEMMA RankIs ==
  \A r : Rank(r) \in 0 .. 3
BY DEF Rank

\* Of some roles there are some that no other is better than.
LEMMA BestRole ==
  ASSUME NEW S, S # {}
  PROVE  \E best \in S : \A r \in S : Rank(r) <= Rank(best)
<1>1. \A r \in S : Rank(r) \in 0 .. 3
  BY RankIs
<1>2. CASE \E r \in S : Rank(r) = 3
  BY <1>1, <1>2
<1>3. CASE (\A r \in S : Rank(r) # 3) /\ \E r \in S : Rank(r) = 2
  BY <1>1, <1>3
<1>4. CASE (\A r \in S : Rank(r) # 3 /\ Rank(r) # 2) /\ \E r \in S : Rank(r) = 1
  BY <1>1, <1>4
<1>5. CASE \A r \in S : Rank(r) = 0
  BY <1>5
<1> QED  BY <1>1, <1>2, <1>3, <1>4, <1>5

\* The role that counts is one of those a person has, and there is none only
\* if the person has none, or an empty one of their own.
LEMMA EffectiveRole ==
  ASSUME NEW t \in Tables, NEW u \in Users, NEW o \in Orgs
  PROVE  /\ user_effective_role(t, u, o) \in Roles \cup {NoRow}
         /\ user_effective_role(t, u, o) # NoRow <=>
              \/ t.direct[u, o] \notin {NoRow, ""}
              \/ \E g \in GroupsOf(t, u) : t.grant[g, o] # NoRow
<1> DEFINE direct == IF t.direct[u, o] = "" THEN NoRow ELSE t.direct[u, o]
<1> DEFINE roles == ({direct} \cup {t.grant[g, o] : g \in GroupsOf(t, u)}) \ {NoRow}
<1> DEFINE best == {r \in roles : \A other \in roles : Rank(other) <= Rank(r)}
<1>1. roles \subseteq Roles
  <2>1. t.direct[u, o] \in Roles \cup {NoRow}
    BY DEF Tables
  <2>2. \A g \in Groups : t.grant[g, o] \in Roles \cup {NoRow}
    BY DEF Tables
  <2>3. direct \in Roles \cup {NoRow}
    BY <2>1
  <2> HIDE DEF direct
  <2> QED  BY <2>2, <2>3 DEF GroupsOf
<1>2. roles # {} <=> \/ t.direct[u, o] \notin {NoRow, ""}
                    \/ \E g \in GroupsOf(t, u) : t.grant[g, o] # NoRow
  <2>1. direct # NoRow <=> t.direct[u, o] \notin {NoRow, ""}
    BY NoRowAssumption DEF Roles
  <2> HIDE DEF direct
  <2>2. roles # {} <=> direct # NoRow \/ \E g \in GroupsOf(t, u) : t.grant[g, o] # NoRow
    OBVIOUS
  <2> QED  BY <2>1, <2>2
<1>3. user_effective_role(t, u, o) =
        CASE roles = {} -> NoRow
          [] direct \in best -> direct
          [] OTHER -> CHOOSE r \in best : TRUE
  BY DEF user_effective_role
<1> HIDE DEF direct, roles
<1>4. CASE roles = {}
  <2>1. best = {}
    BY <1>4
  <2> QED  BY <1>2, <1>3, <1>4, <2>1
<1>5. CASE roles # {}
  <2>1. best # {}
    BY <1>5, BestRole
  <2>2. user_effective_role(t, u, o) \in best
    <3> HIDE DEF best
    <3> QED  BY <1>3, <1>5, <2>1
  <2>3. user_effective_role(t, u, o) \in Roles
    BY <1>1, <2>2
  <2> QED  BY <1>2, <1>5, <2>3, NoRowAssumption
<1> QED  BY <1>4, <1>5

\* The questions agree on whatever the tables hold.
LEMMA Agreement ==
  ASSUME NEW t \in Tables, Sound(t)
  PROVE  QuestionsAgree(t)
<1> SUFFICES ASSUME NEW u \in Users, NEW o \in t.orgs, NEW admin \in BOOLEAN
             PROVE  /\ MayEnter(t, u, admin, o) <=>
                         o \in orgs_for_user(t, u, admin) /\ (admin \/ ~NoRoleAtAll(t, u, o))
                    /\ \A p \in Permissions :
                         check_permission(t, u, admin, o, p) => MayEnter(t, u, admin, o)
                    /\ MayEnter(t, u, FALSE, o) =>
                         LET role == user_effective_role(t, u, o)
                         IN  sso_orgs(t, u, FALSE, NoRow)[o] =
                               IF role = "" THEN "member" ELSE role
  BY DEF QuestionsAgree
<1>1. o \in Orgs /\ o # NoRow
  BY NoRowAssumption DEF Tables
<1>2. MayEnter(t, u, admin, o) <=>
        o \in orgs_for_user(t, u, admin) /\ (admin \/ ~NoRoleAtAll(t, u, o))
  BY <1>1, EffectiveRole, NoRowAssumption
     DEF orgs_for_user, MayEnter, NoRoleAtAll, Roles
<1>3. ASSUME NEW p \in Permissions, check_permission(t, u, admin, o, p)
      PROVE  MayEnter(t, u, admin, o)
  BY <1>1, <1>3 DEF check_permission, user_effective_perms, MayEnter
<1>4. ASSUME MayEnter(t, u, FALSE, o)
      PROVE  LET role == user_effective_role(t, u, o)
             IN  sso_orgs(t, u, FALSE, NoRow)[o] =
                   IF role = "" THEN "member" ELSE role
  <2>1. o \in orgs_for_user(t, u, FALSE) /\ user_effective_role(t, u, o) # NoRow
    BY <1>1, <1>4, EffectiveRole DEF orgs_for_user, MayEnter
  <2> QED  BY <2>1 DEF sso_orgs
<1> QED  BY <1>2, <1>3, <1>4

\* What an endpoint leaves is one of these.
LEMMA ChangeIs ==
  ASSUME NEW t, NEW s \in Changed(t)
  PROVE  \/ \E u \in Users : s = RemoveAccount(t, u)
         \/ \E u \in Users, o \in Orgs :
              \/ s = CreateOrg(t, u, o) \/ s = DeleteOrg(t, o)
              \/ \E r \in Roles : s = AddOrgUser(t, o, u, r)
         \/ \E g \in Groups : s = CreateGroup(t, g) \/ s = DeleteGroup(t, g)
         \/ \E g \in Groups, u \in Users : s = AddMember(t, g, u) \/ s = RemoveMember(t, g, u)
         \/ \E g \in Groups, o \in Orgs :
              \/ s = RemoveGroupOrg(t, g, o)
              \/ \E r \in Roles : s = SetGroupOrg(t, g, o, r)
              \/ \E p \in Permissions :
                   \/ s = RemovePerm(t, g, o, p)
                   \/ \E e \in Effects : s = SetPerm(t, g, o, p, e)
BY DEF Changed

\* The endpoints on organisations and their users keep the foreign keys.
LEMMA OrgsKeepKeys ==
  ASSUME NEW t \in Tables, Sound(t), NEW u \in Users, NEW o \in Orgs
  PROVE  /\ Sound(CreateOrg(t, u, o)) /\ Sound(DeleteOrg(t, o))
         /\ \A r \in Roles : Sound(AddOrgUser(t, o, u, r))
<1> USE DEF Tables
<1>1. Sound(CreateOrg(t, u, o))
  BY DEF Sound, CreateOrg
<1>2. Sound(DeleteOrg(t, o))
  BY DEF Sound, DeleteOrg
<1>3. ASSUME NEW r \in Roles
      PROVE  Sound(AddOrgUser(t, o, u, r))
  BY DEF Sound, AddOrgUser
<1> QED  BY <1>1, <1>2, <1>3

\* The endpoints on groups and their members keep the foreign keys.
LEMMA GroupsKeepKeys ==
  ASSUME NEW t \in Tables, Sound(t), NEW g \in Groups
  PROVE  /\ Sound(CreateGroup(t, g)) /\ Sound(DeleteGroup(t, g))
         /\ \A u \in Users : Sound(AddMember(t, g, u)) /\ Sound(RemoveMember(t, g, u))
<1> USE DEF Tables
<1>1. Sound(CreateGroup(t, g))
  BY DEF Sound, CreateGroup
<1>2. Sound(DeleteGroup(t, g))
  BY DEF Sound, DeleteGroup
<1>3. ASSUME NEW u \in Users
      PROVE  Sound(AddMember(t, g, u)) /\ Sound(RemoveMember(t, g, u))
  <2>1. Sound(RemoveMember(t, g, u))
    BY DEF Sound, RemoveMember
  <2>2. CASE g \in t.groups
    <3> DEFINE s == [t EXCEPT !.member = @ \cup {<<g, u>>}]
    <3>1. /\ s.orgs = t.orgs /\ s.groups = t.groups /\ s.direct = t.direct
          /\ s.grant = t.grant /\ s.perm = t.perm
          /\ s.member = t.member \cup {<<g, u>>}
      OBVIOUS
    <3> HIDE DEF s
    <3>2. \A m \in s.member : m[1] \in s.groups
      <4>1. \A m \in t.member : m[1] \in t.groups
        BY DEF Sound
      <4>2. \A m : m = <<g, u>> => m[1] = g
        OBVIOUS
      <4> QED  BY <4>1, <4>2, <3>1, <2>2
    <3>3. Sound(s)
      <4> DEFINE direct == t.direct  grant == t.grant  perm == t.perm
      <4>1. /\ \A v \in Users, o \in Orgs : direct[v, o] # NoRow => o \in t.orgs
            /\ \A h \in Groups, o \in Orgs :
                 /\ grant[h, o] # NoRow => h \in t.groups /\ o \in t.orgs
                 /\ \A p \in Permissions :
                      perm[h, o, p] # NoRow => h \in t.groups /\ o \in t.orgs
        BY Zenon DEF Sound
      <4>2. s.direct = direct /\ s.grant = grant /\ s.perm = perm
        BY <3>1
      <4> HIDE DEF direct, grant, perm
      <4>3. \A v \in Users, o \in Orgs : s.direct[v, o] # NoRow => o \in s.orgs
        BY <3>1, <4>1, <4>2, Zenon
      <4>4. \A h \in Groups, o \in Orgs :
              /\ s.grant[h, o] # NoRow => h \in s.groups /\ o \in s.orgs
              /\ \A p \in Permissions :
                   s.perm[h, o, p] # NoRow => h \in s.groups /\ o \in s.orgs
        BY <3>1, <4>1, <4>2, Zenon
      <4> QED  BY <3>2, <4>3, <4>4, Zenon DEF Sound
    <3>4. AddMember(t, g, u) = s
      BY <2>2 DEF AddMember, s
    <3> QED  BY <2>1, <3>3, <3>4
  <2>3. CASE g \notin t.groups
    BY <2>1, <2>3 DEF AddMember
  <2> QED  BY <2>2, <2>3
<1> QED  BY <1>1, <1>2, <1>3

\* The endpoints on what a group is granted keep the foreign keys.
LEMMA GrantsKeepKeys ==
  ASSUME NEW t \in Tables, Sound(t), NEW g \in Groups, NEW o \in Orgs
  PROVE  /\ Sound(RemoveGroupOrg(t, g, o))
         /\ \A r \in Roles : Sound(SetGroupOrg(t, g, o, r))
         /\ \A p \in Permissions :
              /\ Sound(RemovePerm(t, g, o, p))
              /\ \A e \in Effects : Sound(SetPerm(t, g, o, p, e))
<1> USE DEF Tables
<1>1. Sound(RemoveGroupOrg(t, g, o))
  BY DEF Sound, RemoveGroupOrg
<1>2. ASSUME NEW r \in Roles
      PROVE  Sound(SetGroupOrg(t, g, o, r))
  BY DEF Sound, SetGroupOrg
<1>3. ASSUME NEW p \in Permissions
      PROVE  Sound(RemovePerm(t, g, o, p))
  BY DEF Sound, RemovePerm
<1>4. ASSUME NEW p \in Permissions, NEW e \in Effects
      PROVE  Sound(SetPerm(t, g, o, p, e))
  BY DEF Sound, SetPerm
<1> QED  BY <1>1, <1>2, <1>3, <1>4

\* The server lets in where it shows, but for empty roles, whatever the tables
\* hold, for any users, organisations, groups and roles, and after any endpoint.
LEMMA TablesConsistent == TablesAreConsistent
<1> SUFFICES ASSUME NEW t \in Tables, Sound(t)
             PROVE  QuestionsAgree(t) /\ \A s \in Changed(t) : Sound(s)
  BY DEF TablesAreConsistent
<1>1. QuestionsAgree(t)
  BY Agreement
<1>2. ASSUME NEW s \in Changed(t)
      PROVE  Sound(s)
  BY <1>2, ChangeIs, OrgsKeepKeys, GroupsKeepKeys, GrantsKeepKeys DEF RemoveAccount
<1> QED  BY <1>1, <1>2

\* The answers to who may see and do what belong together, but for empty roles.
THEOREM AccessConsistent == Spec => []AccessIsConsistent
<1>1. AccountsInv => AccessIsConsistent
  BY TablesConsistent DEF AccessIsConsistent
<1> QED  BY <1>1, AccountsInvariant, PTL

-----------------------------------------------------------------------------
(* Sign-in: the throttle.                                                  *)

\* Failures as they came, none of them later than now.
Ordered(s) ==
  /\ s \in Seq(Nat)
  /\ \A m, n \in 1 .. Len(s) : m <= n => s[m] <= s[n]
  /\ \A n \in 1 .. Len(s) : s[n] <= now

\* From any failure, the one MaxFails before it is a window away.
Spaced(s) ==
  \A n \in 1 .. Len(s) : n > MaxFails => s[n] >= s[n - MaxFails] + Window

\* The first n of them are no longer recent.
OldTo(s, n) == \A m \in 1 .. n : s[m] + Window <= now

\* What _login_fails has lost of a key's failures is old.
Noted(s, noted) ==
  \E a \in 0 .. Len(s) : noted = SubSeq(s, a + 1, Len(s)) /\ OldTo(s, a)

\* The inductive invariant of the throttle.
ThrottleInv ==
  /\ now \in Nat
  /\ tried = [k \in Keys |-> tried[k]]
  /\ fails = [k \in Keys |-> fails[k]]
  /\ \A k \in Keys : Ordered(tried[k]) /\ Spaced(tried[k]) /\ Noted(tried[k], fails[k])

\* What holds of 0, and of n + 1 if of n, holds of every number up to N.
LEMMA UpTo ==
  ASSUME NEW D, NEW N \in Nat, 0 \in D,
         \A n \in 0 .. N - 1 : n \in D => n + 1 \in D
  PROVE  \A n \in 0 .. N : n \in D
<1> DEFINE R == {ss \in Nat \X Nat : ss[1] < ss[2]}
           T == {n \in 0 .. N : n \notin D}
<1>1. IsWellFoundedOn(R, Nat)
  BY NatLessThanWellFounded DEF OpToRel
<1>2. T \subseteq Nat  OBVIOUS
<1> SUFFICES ASSUME T # {} PROVE FALSE
  OBVIOUS
<1>3. PICK m \in T : \A n \in T : ~(<<n, m>> \in R)
  <2> HIDE DEF R, T
  <2> QED  BY <1>1, <1>2, WFMin
<1>4. m \in 1 .. N  OBVIOUS
<1>5. m - 1 \in 0 .. N - 1 /\ (m - 1) + 1 = m  BY <1>4
<1>6. m - 1 \in T  BY <1>5
<1>7. m - 1 < m /\ m - 1 \in Nat /\ m \in Nat  BY <1>4
<1> QED  BY <1>3, <1>6, <1>7

\* Of a set of numbers, one is the least.
LEMMA Least ==
  ASSUME NEW T \in SUBSET Nat, T # {}
  PROVE  \E m \in T : \A n \in T : m <= n
<1> DEFINE R == {ss \in Nat \X Nat : ss[1] < ss[2]}
<1>1. IsWellFoundedOn(R, Nat)
  BY NatLessThanWellFounded DEF OpToRel
<1>2. PICK m \in T : \A n \in T : ~(<<n, m>> \in R)
  <2> HIDE DEF R
  <2> QED  BY <1>1, WFMin
<1>3. \A n \in T : n \in Nat /\ m \in Nat /\ ~(n < m)
  BY <1>2
<1> QED  BY <1>3

\* What is left of a sequence without its first a elements.
LEMMA RestOf ==
  ASSUME NEW s \in Seq(Nat), NEW a \in 0 .. Len(s)
  PROVE  LET r == SubSeq(s, a + 1, Len(s)) IN
         /\ r \in Seq(Nat) /\ Len(r) = Len(s) - a
         /\ \A n \in 1 .. Len(r) : r[n] = s[n + a]
<1> DEFINE r == SubSeq(s, a + 1, Len(s))
<1>1. Len(s) \in Nat /\ a + 1 \in Int /\ \A i \in a + 1 .. Len(s) : s[i] \in Nat
  OBVIOUS
<1>2. /\ r \in Seq(Nat)
      /\ Len(r) = IF a + 1 <= Len(s) THEN Len(s) - (a + 1) + 1 ELSE 0
      /\ \A i \in 1 .. Len(s) - (a + 1) + 1 : r[i] = s[(a + 1) + i - 1]
  BY <1>1, SubSeqProperties
<1> HIDE DEF r
<1>3. Len(r) = Len(s) - a  BY <1>1, <1>2
<1>4. \A n \in 1 .. Len(r) : n \in 1 .. Len(s) - (a + 1) + 1 /\ (a + 1) + n - 1 = n + a
  BY <1>1, <1>3
<1> QED  BY <1>2, <1>3, <1>4 DEF r

\* What is kept of the first n failures.
IsKept(f, times, N) ==
  f = [n \in 0 .. N |->
         IF n = 0 THEN <<>>
         ELSE IF now - times[n] < Window THEN Append(f[n - 1], times[n]) ELSE f[n - 1]]

Kept(times) == CHOOSE f : IsKept(f, times, Len(times))

\* There is such a function.
LEMMA KeptExists ==
  ASSUME NEW times, NEW N \in Nat
  PROVE  \E f : IsKept(f, times, N)
<1> DEFINE D == {n \in Nat : \E f : IsKept(f, times, n)}
<1>1. 0 \in D
  <2> DEFINE f == [n \in 0 .. 0 |-> <<>>]
  <2>1. IsKept(f, times, 0)  BY DEF IsKept
  <2> HIDE DEF f
  <2> QED  BY <2>1
<1>2. ASSUME NEW m \in Nat, m \in D PROVE m + 1 \in D
  <2>1. PICK f : IsKept(f, times, m)  BY <1>2
  <2> DEFINE step(g, n) == IF n = 0 THEN <<>>
                           ELSE IF now - times[n] < Window THEN Append(g[n - 1], times[n])
                           ELSE g[n - 1]
             g == [n \in 0 .. m + 1 |-> IF n # m + 1 THEN f[n] ELSE step(f, n)]
  <2>2. \A n \in 0 .. m : f[n] = step(f, n)
    BY <2>1 DEF IsKept
  <2>3. \A n \in 0 .. m + 1 : g[n] = step(g, n)
    <3> SUFFICES ASSUME NEW n \in 0 .. m + 1 PROVE g[n] = step(g, n)
      OBVIOUS
    <3>1. n # 0 => n - 1 \in 0 .. m + 1 /\ n - 1 # m + 1  OBVIOUS
    <3>2. n # 0 => g[n - 1] = f[n - 1]  BY <3>1
    <3>3. step(g, n) = step(f, n)
      <4> HIDE DEF g
      <4> QED  BY <3>2
    <3>4. g[n] = IF n # m + 1 THEN f[n] ELSE step(f, n)  OBVIOUS
    <3>5. n # m + 1 => n \in 0 .. m  OBVIOUS
    <3> HIDE DEF step, g
    <3> QED  BY <2>2, <3>3, <3>4, <3>5
  <2>4. g = [n \in 0 .. m + 1 |-> g[n]]  OBVIOUS
  <2> HIDE DEF g
  <2>5. [n \in 0 .. m + 1 |-> g[n]] = [n \in 0 .. m + 1 |-> step(g, n)]
    <3> HIDE DEF step
    <3> QED  BY <2>3, Zenon
  <2>6. IsKept(g, times, m + 1)  BY <2>4, <2>5 DEF IsKept
  <2> QED  BY <2>6
<1>3. \A n \in 0 .. N - 1 : n \in D => n + 1 \in D
  <2> HIDE DEF D
  <2> QED  BY <1>2
<1>4. N \in D
  <2> HIDE DEF D
  <2> QED  BY <1>1, <1>3, UpTo
<1> QED  BY <1>4

\* Recent, step by step.
LEMMA KeptSteps ==
  ASSUME NEW times, Len(times) \in Nat
  PROVE  /\ Kept(times)[0] = <<>>
         /\ \A n \in 1 .. Len(times) :
              Kept(times)[n] = IF now - times[n] < Window
                               THEN Append(Kept(times)[n - 1], times[n])
                               ELSE Kept(times)[n - 1]
         /\ Recent(times) = Kept(times)[Len(times)]
<1>1. IsKept(Kept(times), times, Len(times))
  BY KeptExists DEF Kept
<1>2. Recent(times) = Kept(times)[Len(times)]
  BY Zenon DEF Recent, Kept, IsKept
<1> DEFINE f == Kept(times)
           N == Len(times)
<1> HIDE DEF f, N
<1>3. IsKept(f, times, N)  BY <1>1 DEF f, N
<1>4. \A n \in 0 .. N :
        f[n] = IF n = 0 THEN <<>>
               ELSE IF now - times[n] < Window THEN Append(f[n - 1], times[n]) ELSE f[n - 1]
  BY <1>3 DEF IsKept
<1>5. N \in Nat  BY DEF N
<1>6. f[0] = <<>> /\ \A n \in 1 .. N :
        f[n] = IF now - times[n] < Window THEN Append(f[n - 1], times[n]) ELSE f[n - 1]
  BY <1>4, <1>5
<1> QED  BY <1>2, <1>6 DEF f, N

\* Of failures in order, the old ones come first, so the recent ones are the rest.
LEMMA RecentIsRest ==
  ASSUME NEW s, Ordered(s), now \in Nat
  PROVE  \E b \in 0 .. Len(s) : Recent(s) = SubSeq(s, b + 1, Len(s)) /\ OldTo(s, b)
<1> DEFINE Rest(n, b) == /\ Kept(s)[n] = SubSeq(s, b + 1, n)
                         /\ OldTo(s, b)
                         /\ b < n => now - s[n] < Window
           D == {n \in 0 .. Len(s) : \E b \in 0 .. n : Rest(n, b)}
<1>0. /\ s \in Seq(Nat) /\ Len(s) \in Nat /\ Window \in Nat
      /\ \A n \in 1 .. Len(s) : s[n] \in Nat /\ s[n] <= now
  BY TimesAssumption DEF Ordered
<1>1. 0 \in D
  <2>1. Kept(s)[0] = <<>>  BY <1>0, KeptSteps
  <2>2. SubSeq(s, 0 + 1, 0) = <<>>  BY <1>0
  <2>3. OldTo(s, 0)  BY DEF OldTo
  <2>4. Rest(0, 0) /\ 0 \in 0 .. 0 /\ 0 \in 0 .. Len(s)  BY <1>0, <2>1, <2>2, <2>3
  <2> HIDE DEF Rest
  <2> QED  BY <2>4
<1>2. ASSUME NEW n \in 0 .. Len(s) - 1, n \in D PROVE n + 1 \in D
  <2>1. PICK b \in 0 .. n : Rest(n, b)  BY <1>2
  <2>2. n + 1 \in 1 .. Len(s) /\ (n + 1) - 1 = n /\ n \in Nat  BY <1>0
  <2>3. Kept(s)[n + 1] = IF now - s[n + 1] < Window THEN Append(Kept(s)[n], s[n + 1])
                         ELSE Kept(s)[n]
    BY <1>0, <2>2, KeptSteps
  <2>4. CASE now - s[n + 1] < Window
    <3>1. Append(SubSeq(s, b + 1, n), s[n + 1]) = SubSeq(s, b + 1, n + 1)
      BY <1>0, <2>2
    <3>2. Rest(n + 1, b)  BY <2>1, <2>3, <2>4, <3>1
    <3>3. b \in 0 .. n + 1  BY <2>2
    <3> HIDE DEF Rest
    <3> QED  BY <1>0, <2>2, <3>2, <3>3
  <2>5. CASE ~(now - s[n + 1] < Window)
    <3>1. b = n
      <4> SUFFICES ASSUME b < n PROVE FALSE
        BY <2>2
      <4>1. n \in 1 .. Len(s) /\ s[n] <= s[n + 1]
        BY <1>0, <2>2 DEF Ordered
      <4>2. now - s[n] < Window  BY <2>1
      <4> QED  BY <1>0, <2>2, <2>5, <4>1, <4>2
    <3>2. SubSeq(s, b + 1, n) = <<>> /\ SubSeq(s, (n + 1) + 1, n + 1) = <<>>
      BY <1>0, <2>2, <3>1
    <3>3. OldTo(s, n + 1)
      <4> SUFFICES ASSUME NEW m \in 1 .. n + 1 PROVE s[m] + Window <= now
        BY DEF OldTo
      <4>1. m \in 1 .. Len(s) /\ s[m] <= s[n + 1]
        BY <1>0, <2>2 DEF Ordered
      <4> QED  BY <1>0, <2>2, <2>5, <4>1
    <3>4. Rest(n + 1, n + 1)
      <4>1. Kept(s)[n + 1] = SubSeq(s, (n + 1) + 1, n + 1)
        BY <2>1, <2>3, <2>5, <3>1, <3>2
      <4>2. ~(n + 1 < n + 1)  BY <2>2
      <4> QED  BY <3>3, <4>1, <4>2
    <3>5. n + 1 \in 0 .. n + 1  BY <2>2
    <3> HIDE DEF Rest
    <3> QED  BY <1>0, <2>2, <3>4, <3>5
  <2> QED  BY <2>4, <2>5
<1> HIDE DEF D
<1>3. \A n \in 0 .. Len(s) : n \in D  BY <1>0, <1>1, <1>2, UpTo
<1>4. Len(s) \in D  BY <1>0, <1>3
<1>5. \E b \in 0 .. Len(s) : Rest(Len(s), b)  BY <1>4 DEF D
<1>6. Recent(s) = Kept(s)[Len(s)]  BY <1>0, KeptSteps
<1> QED  BY <1>5, <1>6

\* What is noted of the failures loses none that matter.
LEMMA RecentIsNoted ==
  ASSUME NEW s, NEW noted, Ordered(s), Noted(s, noted), now \in Nat
  PROVE  Noted(s, Recent(noted))
<1>1. PICK a \in 0 .. Len(s) : noted = SubSeq(s, a + 1, Len(s)) /\ OldTo(s, a)
  BY DEF Noted
<1>0. s \in Seq(Nat) /\ Len(s) \in Nat  BY DEF Ordered
<1>2. /\ noted \in Seq(Nat) /\ Len(noted) = Len(s) - a
      /\ \A n \in 1 .. Len(noted) : noted[n] = s[n + a]
  BY <1>0, <1>1, RestOf
<1>3. Ordered(noted)
  <2>1. \A n \in 1 .. Len(noted) : n + a \in 1 .. Len(s)  BY <1>0, <1>2
  <2>2. \A m, n \in 1 .. Len(noted) : m <= n => m + a <= n + a  BY <1>0, <1>2
  <2> QED  BY <1>2, <2>1, <2>2 DEF Ordered
<1>4. PICK b \in 0 .. Len(noted) :
        Recent(noted) = SubSeq(noted, b + 1, Len(noted)) /\ OldTo(noted, b)
  BY <1>3, RecentIsRest
<1>5. a + b \in 0 .. Len(s)  BY <1>0, <1>2
<1>6. SubSeq(noted, b + 1, Len(noted)) = SubSeq(s, (a + b) + 1, Len(s))
  <2> DEFINE u == SubSeq(noted, b + 1, Len(noted))
             w == SubSeq(s, (a + b) + 1, Len(s))
  <2>1. /\ u \in Seq(Nat) /\ Len(u) = Len(noted) - b
        /\ \A n \in 1 .. Len(u) : u[n] = noted[n + b]
    BY <1>2, RestOf
  <2>2. /\ w \in Seq(Nat) /\ Len(w) = Len(s) - (a + b)
        /\ \A n \in 1 .. Len(w) : w[n] = s[n + (a + b)]
    BY <1>0, <1>5, RestOf
  <2>3. Len(u) = Len(w)  BY <1>0, <1>2, <2>1, <2>2
  <2>4. \A n \in 1 .. Len(u) : u[n] = w[n]
    <3> SUFFICES ASSUME NEW n \in 1 .. Len(u) PROVE u[n] = w[n]
      OBVIOUS
    <3>1. n + b \in 1 .. Len(noted)  BY <1>2, <2>1
    <3>2. (n + b) + a = n + (a + b)  BY <1>0
    <3> QED  BY <1>2, <2>1, <2>2, <2>3, <3>1, <3>2
  <2> HIDE DEF u, w
  <2>5. u = w  BY <2>1, <2>2, <2>3, <2>4, SeqEqual
  <2> QED  BY <2>5 DEF u, w
<1>7. OldTo(s, a + b)
  <2> SUFFICES ASSUME NEW m \in 1 .. a + b PROVE s[m] + Window <= now
    BY DEF OldTo
  <2>1. CASE m <= a  BY <1>1, <2>1 DEF OldTo
  <2>2. CASE m > a
    <3>1. m - a \in 1 .. b /\ m - a \in 1 .. Len(noted) /\ (m - a) + a = m
      BY <1>0, <1>2, <2>2
    <3>2. noted[m - a] + Window <= now  BY <1>4, <3>1 DEF OldTo
    <3> QED  BY <1>2, <3>1, <3>2
  <2> QED  BY <2>1, <2>2
<1> QED  BY <1>4, <1>5, <1>6, <1>7 DEF Noted

\* A failure that is let through is a window behind the one MaxFails before it.
LEMMA FailureFits ==
  ASSUME NEW s, NEW noted, now \in Nat,
         Ordered(s), Spaced(s), Noted(s, noted), Len(noted) < MaxFails
  PROVE  LET t == Append(s, now) IN
         Ordered(t) /\ Spaced(t) /\ Noted(t, Append(noted, now))
<1> DEFINE t == Append(s, now)
<1>0. /\ s \in Seq(Nat) /\ Len(s) \in Nat
      /\ MaxFails \in Nat \ {0} /\ Window \in Nat
  BY TimesAssumption DEF Ordered
<1>1. /\ t \in Seq(Nat) /\ Len(t) = Len(s) + 1 /\ t[Len(s) + 1] = now
      /\ \A n \in 1 .. Len(s) : t[n] = s[n]
  BY <1>0
<1>2. PICK a \in 0 .. Len(s) : noted = SubSeq(s, a + 1, Len(s)) /\ OldTo(s, a)
  BY DEF Noted
<1>3. Len(noted) = Len(s) - a  BY <1>0, <1>2, RestOf
<1>4. Append(noted, now) = SubSeq(t, a + 1, Len(t))
  <2> DEFINE u == Append(noted, now)
             w == SubSeq(t, a + 1, Len(t))
  <2>1. noted \in Seq(Nat) /\ \A n \in 1 .. Len(noted) : noted[n] = s[n + a]
    BY <1>0, <1>2, RestOf
  <2>2. /\ u \in Seq(Nat) /\ Len(u) = Len(noted) + 1 /\ u[Len(noted) + 1] = now
        /\ \A n \in 1 .. Len(noted) : u[n] = noted[n]
    BY <2>1
  <2>3. a \in 0 .. Len(t)  BY <1>0, <1>1
  <2> HIDE DEF t
  <2>4. /\ w \in Seq(Nat) /\ Len(w) = Len(t) - a
        /\ \A n \in 1 .. Len(w) : w[n] = t[n + a]
    BY <1>1, <2>3, RestOf
  <2>5. Len(u) = Len(w)  BY <1>0, <1>1, <1>3, <2>2, <2>4
  <2>6. \A n \in 1 .. Len(u) : u[n] = w[n]
    <3> SUFFICES ASSUME NEW n \in 1 .. Len(u) PROVE u[n] = w[n]
      OBVIOUS
    <3>1. CASE n = Len(noted) + 1
      <4>1. n + a = Len(s) + 1  BY <1>0, <1>3, <3>1
      <4> QED  BY <1>1, <2>2, <2>4, <2>5, <3>1, <4>1
    <3>2. CASE n # Len(noted) + 1
      <4>1. n \in 1 .. Len(noted) /\ n + a \in 1 .. Len(s)
        <5>1. Len(noted) \in Nat /\ n \in 1 .. Len(noted) + 1  BY <2>1, <2>2
        <5> QED  BY <1>0, <1>3, <3>2, <5>1
      <4> QED  BY <1>1, <2>1, <2>2, <2>4, <2>5, <4>1
    <3> QED  BY <3>1, <3>2
  <2> HIDE DEF u, w
  <2>7. u = w  BY <2>2, <2>4, <2>5, <2>6, SeqEqual
  <2> QED  BY <2>7 DEF u, w
<1> HIDE DEF t
<1>5. Ordered(t)
  <2>1. \A n \in 1 .. Len(s) : s[n] \in Nat /\ s[n] <= now  BY <1>0 DEF Ordered
  <2>2. \A n \in 1 .. Len(t) : n \in 1 .. Len(s) \/ n = Len(s) + 1  BY <1>0, <1>1
  <2>3. \A n \in 1 .. Len(t) : t[n] <= now  BY <1>1, <2>1, <2>2
  <2>4. \A m, n \in 1 .. Len(t) : m <= n => t[m] <= t[n]
    <3> SUFFICES ASSUME NEW m \in 1 .. Len(t), NEW n \in 1 .. Len(t), m <= n
        PROVE  t[m] <= t[n]
      OBVIOUS
    <3>1. CASE n = Len(s) + 1  BY <1>1, <2>3, <3>1
    <3>2. CASE n # Len(s) + 1
      <4>1. n \in 1 .. Len(s) /\ m \in 1 .. Len(s)  BY <1>0, <1>1, <2>2, <3>2
      <4> QED  BY <1>1, <4>1 DEF Ordered
    <3> QED  BY <3>1, <3>2
  <2> QED  BY <1>1, <2>3, <2>4 DEF Ordered
<1>6. Spaced(t)
  <2> SUFFICES ASSUME NEW n \in 1 .. Len(t), n > MaxFails
      PROVE  t[n] >= t[n - MaxFails] + Window
    BY DEF Spaced
  <2>0. n \in 1 .. Len(s) + 1  BY <1>1
  <2>1. n - MaxFails \in 1 .. Len(s)  BY <1>0, <2>0
  <2>2. CASE n = Len(s) + 1
    <3>1. n - MaxFails \in 1 .. a  BY <1>0, <1>3, <2>1, <2>2
    <3>2. s[n - MaxFails] + Window <= now  BY <1>2, <3>1 DEF OldTo
    <3>3. s[n - MaxFails] \in Nat  BY <1>0, <2>1
    <3> QED  BY <1>0, <1>1, <2>1, <2>2, <3>2, <3>3
  <2>3. CASE n # Len(s) + 1
    <3>1. n \in 1 .. Len(s)  BY <1>0, <2>0, <2>3
    <3> QED  BY <1>1, <2>1, <3>1 DEF Spaced
  <2> QED  BY <2>2, <2>3
<1>7. Noted(t, Append(noted, now))
  <2>1. a \in 0 .. Len(t)  BY <1>0, <1>1
  <2>2. OldTo(t, a)
    <3>1. \A m \in 1 .. a : m \in 1 .. Len(s)  BY <1>0
    <3> QED  BY <1>1, <1>2, <3>1 DEF OldTo
  <2> QED  BY <1>4, <2>1, <2>2 DEF Noted
<1> QED  BY <1>5, <1>6, <1>7 DEF t

\* Nothing has failed yet, or nothing that counts.
LEMMA NoFailures ==
  ASSUME now \in Nat
  PROVE  Ordered(<<>>) /\ Spaced(<<>>) /\ Noted(<<>>, <<>>)
<1>1. SubSeq(<<>>, 0 + 1, Len(<<>>)) = <<>> /\ Len(<<>>) = 0 /\ <<>> \in Seq(Nat)
  OBVIOUS
<1> QED  BY <1>1 DEF Ordered, Spaced, Noted, OldTo

\* Each step keeps the invariant of the throttle.
LEMMA ThrottleStep ==
  ThrottleInv /\ [SignInNext]_signInVars => ThrottleInv'
<1> SUFFICES ASSUME ThrottleInv, [SignInNext]_signInVars PROVE ThrottleInv'
  OBVIOUS
<1>0. /\ now \in Nat
      /\ tried = [k \in Keys |-> tried[k]] /\ fails = [k \in Keys |-> fails[k]]
      /\ \A k \in Keys : Ordered(tried[k]) /\ Spaced(tried[k]) /\ Noted(tried[k], fails[k])
  BY DEF ThrottleInv
<1>1. ASSUME UNCHANGED <<now, tried, fails>> PROVE ThrottleInv'
  BY <1>0, <1>1 DEF ThrottleInv, Ordered, Spaced, Noted, OldTo
<1>2. ASSUME NEW caller \in Callers, NEW j \in Keys, SignInFails(caller, j)
      PROVE  ThrottleInv'
  <2> DEFINE noted == Recent(fails[j])
  <2>1. /\ now' = now
        /\ tried' = [tried EXCEPT ![j] = Append(tried[j], now)]
        /\ fails' = [fails EXCEPT ![j] = Append(noted, now)]
        /\ ~(Len(noted) >= MaxFails)
    BY <1>2 DEF SignInFails, Move, Throttled
  <2>2. Noted(tried[j], noted)  BY <1>0, RecentIsNoted
  <2> HIDE DEF noted
  <2>3. Len(noted) < MaxFails
    <3>1. Len(noted) \in Nat
      <4>1. tried[j] \in Seq(Nat)  BY <1>0 DEF Ordered
      <4>2. PICK a \in 0 .. Len(tried[j]) :
              noted = SubSeq(tried[j], a + 1, Len(tried[j]))
        BY <2>2 DEF Noted
      <4>3. noted \in Seq(Nat)  BY <4>1, <4>2, RestOf
      <4> QED  BY <4>3
    <3>2. MaxFails \in Nat  BY TimesAssumption
    <3> QED  BY <2>1, <3>1, <3>2
  <2> DEFINE t == Append(tried[j], now)
             u == Append(noted, now)
  <2>4. Ordered(t) /\ Spaced(t) /\ Noted(t, u)
    BY <1>0, <2>2, <2>3, FailureFits
  <2> HIDE DEF t, u
  <2>5. \A k \in Keys : /\ tried'[k] = IF k = j THEN t ELSE tried[k]
                        /\ fails'[k] = IF k = j THEN u ELSE fails[k]
    BY <1>0, <2>1 DEF t, u
  <2>6. \A k \in Keys :
          Ordered(tried'[k]) /\ Spaced(tried'[k]) /\ Noted(tried'[k], fails'[k])
    BY <1>0, <2>4, <2>5
  <2>7. tried' = [k \in Keys |-> tried'[k]] /\ fails' = [k \in Keys |-> fails'[k]]
    BY <1>0, <2>1
  <2> QED
    BY <1>0, <2>1, <2>6, <2>7 DEF ThrottleInv, Ordered, Spaced, Noted, OldTo
<1>3. ASSUME NEW caller \in Callers, NEW j \in Keys, SignInSucceeds(caller, j)
      PROVE  ThrottleInv'
  <2>1. /\ now' = now
        /\ tried' = [tried EXCEPT ![j] = <<>>] /\ fails' = [fails EXCEPT ![j] = <<>>]
    BY <1>3 DEF SignInSucceeds, Move
  <2>2. \A k \in Keys : \/ tried'[k] = <<>> /\ fails'[k] = <<>>
                        \/ tried'[k] = tried[k] /\ fails'[k] = fails[k]
    BY <1>0, <2>1
  <2>3. \A k \in Keys :
          Ordered(tried'[k]) /\ Spaced(tried'[k]) /\ Noted(tried'[k], fails'[k])
    BY <1>0, <2>2, NoFailures
  <2>4. tried' = [k \in Keys |-> tried'[k]] /\ fails' = [k \in Keys |-> fails'[k]]
    BY <1>0, <2>1
  <2> QED
    BY <1>0, <2>1, <2>3, <2>4 DEF ThrottleInv, Ordered, Spaced, Noted, OldTo
<1>4. ASSUME Tick PROVE ThrottleInv'
  <2>1. now' = now + 1 /\ now' \in Nat /\ UNCHANGED <<tried, fails>>
    BY <1>0, <1>4 DEF Tick, memory, past
  <2>2. \A s : Ordered(s) => Ordered(s)'
    <3> SUFFICES ASSUME NEW s, Ordered(s)
        PROVE  /\ s \in Seq(Nat)
               /\ \A m, n \in 1 .. Len(s) : m <= n => s[m] <= s[n]
               /\ \A n \in 1 .. Len(s) : s[n] <= now'
      BY DEF Ordered
    <3>1. \A n \in 1 .. Len(s) : s[n] \in Nat /\ s[n] <= now  BY DEF Ordered
    <3>2. \A n \in 1 .. Len(s) : s[n] <= now'  BY <1>0, <2>1, <3>1
    <3> QED  BY <3>2 DEF Ordered
  <2>3. ASSUME NEW k \in Keys PROVE Noted(tried[k], fails[k])'
    <3> DEFINE s == tried[k]
    <3>1. PICK a \in 0 .. Len(s) : fails[k] = SubSeq(s, a + 1, Len(s)) /\ OldTo(s, a)
      BY <1>0 DEF Noted
    <3>2. \A m \in 1 .. a : m \in 1 .. Len(s) /\ s[m] \in Nat
      BY <1>0 DEF Ordered
    <3>3. Window \in Nat  BY TimesAssumption
    <3>4. \A m \in 1 .. a : s[m] + Window <= now'
      <4>1. \A m \in 1 .. a : s[m] + Window <= now
        BY <3>1 DEF OldTo
      <4>2. \A x \in Nat : x + Window <= now => x + Window <= now'
        BY <1>0, <2>1, <3>3
      <4> HIDE DEF s
      <4> QED  BY <3>2, <4>1, <4>2
    <3>5. tried'[k] = s /\ fails'[k] = fails[k]  BY <2>1
    <3> HIDE DEF s
    <3> QED  BY <3>1, <3>4, <3>5 DEF Noted, OldTo
  <2>4. \A k \in Keys : Ordered(tried[k])' /\ Spaced(tried[k])'
    BY <1>0, <2>1, <2>2 DEF Ordered, Spaced
  <2> QED  BY <1>0, <2>1, <2>3, <2>4 DEF ThrottleInv
<1>5. ASSUME ServerRestarts PROVE ThrottleInv'
  <2>1. /\ now' = now
        /\ tried' = [k \in Keys |-> <<>>] /\ fails' = [k \in Keys |-> <<>>]
    BY <1>5 DEF ServerRestarts, Move
  <2>2. \A k \in Keys :
          Ordered(tried'[k]) /\ Spaced(tried'[k]) /\ Noted(tried'[k], fails'[k])
    BY <1>0, <2>1, NoFailures
  <2> QED
    BY <1>0, <2>1, <2>2 DEF ThrottleInv, Ordered, Spaced, Noted, OldTo
<1> QED
  BY <1>1, <1>2, <1>3, <1>4, <1>5
  DEF SignInNext, signInVars, memory, past, Move, SaveSettings, RedeemTicket,
      ExchangeLink,
      IssueTicket, ApproveLink, CreateKey, SwitchKey, DeleteKey

\* It holds at the start.
LEMMA ThrottleStart == SignInInit => ThrottleInv
<1> SUFFICES ASSUME SignInInit PROVE ThrottleInv
  OBVIOUS
<1>1. now \in Nat /\ tried = [k \in Keys |-> <<>>] /\ fails = [k \in Keys |-> <<>>]
  BY DEF SignInInit
<1>2. \A k \in Keys : Ordered(tried[k]) /\ Spaced(tried[k]) /\ Noted(tried[k], fails[k])
  BY <1>1, NoFailures
<1> QED  BY <1>1, <1>2 DEF ThrottleInv

\* Of failures that are spaced, no more than MaxFails fall into a window.
LEMMA WindowHolds ==
  ASSUME NEW s, Ordered(s), Spaced(s), NEW from \in Nat
  PROVE  Cardinality(Within(s, from)) <= MaxFails
<1> DEFINE T == Within(s, from)
<1>0. /\ s \in Seq(Nat) /\ Len(s) \in Nat
      /\ MaxFails \in Nat \ {0} /\ Window \in Nat
  BY TimesAssumption DEF Ordered
<1>1. \A n \in T : /\ n \in 1 .. Len(s) /\ n \in Nat /\ s[n] \in Nat
                   /\ s[n] >= from /\ s[n] < from + Window
  BY <1>0 DEF Within
<1>2. CASE T = {}
  <2>1. Cardinality(T) = 0  BY <1>2, FS_EmptySet
  <2> HIDE DEF T
  <2>2. Cardinality(T) <= MaxFails  BY <1>0, <2>1
  <2> QED  BY <2>2 DEF T
<1>3. CASE T # {}
  <2>1. T \in SUBSET Nat  BY <1>1
  <2> HIDE DEF T
  <2>2. PICK lo \in T : \A n \in T : lo <= n  BY <1>3, <2>1, Least
  <2> DEFINE I == lo .. lo + MaxFails - 1
  <2>3. T \subseteq I
    <3> SUFFICES ASSUME NEW n \in T, n >= lo + MaxFails PROVE FALSE
      <4>1. \A n \in T : n \in Nat /\ lo \in Nat /\ lo <= n  BY <1>1, <2>2
      <4>2. \A n \in T : ~(n >= lo + MaxFails) => n \in I  BY <1>0, <4>1
      <4> HIDE DEF I
      <4> QED  BY <4>2
    <3>1. /\ n \in 1 .. Len(s) /\ lo \in 1 .. Len(s) /\ n > MaxFails
          /\ n - MaxFails \in 1 .. Len(s) /\ lo <= n - MaxFails
      BY <1>0, <1>1
    <3>2. s[n] >= s[n - MaxFails] + Window  BY <3>1 DEF Spaced
    <3>3. s[lo] <= s[n - MaxFails]  BY <3>1 DEF Ordered
    <3>4. s[n - MaxFails] \in Nat  BY <1>0, <3>1
    <3>5. s[n] \in Nat /\ s[lo] \in Nat /\ s[n] < from + Window /\ s[lo] >= from
      BY <1>1
    <3> DEFINE x == s[n]  y == s[n - MaxFails]  z == s[lo]
    <3>6. /\ x \in Nat /\ y \in Nat /\ z \in Nat /\ Window \in Nat
          /\ x >= y + Window /\ z <= y /\ x < from + Window /\ z >= from
      BY <1>0, <3>2, <3>3, <3>4, <3>5
    <3> HIDE DEF x, y, z
    <3> QED  BY <3>6
  <2>4. lo \in Int /\ lo + MaxFails - 1 \in Int /\ lo <= lo + MaxFails - 1
    BY <1>0, <1>1
  <2>5. IsFiniteSet(I) /\ Cardinality(I) = MaxFails
    <3>1. /\ IsFiniteSet(I)
          /\ Cardinality(I) = IF lo > lo + MaxFails - 1 THEN 0
                              ELSE (lo + MaxFails - 1) - lo + 1
      BY <2>4, FS_Interval
    <3> HIDE DEF I
    <3> QED  BY <1>0, <2>4, <3>1
  <2> HIDE DEF I
  <2>6. Cardinality(T) <= Cardinality(I)  BY <2>3, <2>5, FS_Subset
  <2> QED  BY <2>5, <2>6 DEF T
<1> QED  BY <1>2, <1>3

\* However the wrong passwords for a key are spread over time, no more than
\* LOGIN_MAX_FAILS of them are looked at in any stretch as long as LOGIN_WINDOW,
\* unless it got in meanwhile (_login_throttled, local_login, app_token).
THEOREM ThrottleKept ==
  SignInSpec => []ThrottleHolds
<1>1. ThrottleInv => ThrottleHolds
  <2> SUFFICES ASSUME ThrottleInv, NEW k \in Keys, NEW from \in 0 .. now
      PROVE  Cardinality(Within(tried[k], from)) <= MaxFails
    BY DEF ThrottleHolds
  <2>1. from \in Nat /\ Ordered(tried[k]) /\ Spaced(tried[k])  BY DEF ThrottleInv
  <2> QED  BY <2>1, WindowHolds
<1>2. ThrottleInv /\ [SignInNext]_signInVars => ThrottleInv'
  BY ThrottleStep
<1> QED  BY <1>1, <1>2, ThrottleStart, PTL DEF SignInSpec

-----------------------------------------------------------------------------
(* Sign-in: tickets and links.                                             *)

\* A ticket that was accepted is remembered until it cannot be any more.
TicketsSound ==
  /\ now \in Nat
  /\ honoured \in [Tickets -> Nat \cup {Nil}]
  /\ nonce \in [Tickets -> Nat \cup {Nil}]
  /\ \A t \in Tickets : honoured[t] # Nil =>
       \/ nonce[t] = honoured[t] + TicketSeconds * Second
       \/ nonce[t] = Nil /\ now > honoured[t] + TicketSeconds * Second

KeyRows == [name : Docs, all : BOOLEAN, on : BOOLEAN]
Pairings == [doc : Docs, expires : Nat]

\* The keys that linking has made are of every organisation, and differ in name.
LinksSound ==
  /\ now \in Nat
  /\ pairing \in [Codes -> Pairings \cup {Nil}]
  /\ key \in [KeyIds -> KeyRows \cup {Nil}]
  /\ linked \subseteq KeyIds
  /\ \A i, j \in linked :
       key[i] # Nil =>
         /\ key[i].all
         /\ key[j] # Nil /\ key[i].name = key[j].name => i = j

\* How long a redeemed ticket is remembered, in ticks.
LifeTime == TicketSeconds * Second

\* It is a number.
LEMMA LifeTimeType ==
  LifeTime \in Nat
<1>1. TicketSeconds \in Nat /\ Second \in Nat  BY TimesAssumption
<1>2. \A a, b \in Nat : a * b \in Nat  OBVIOUS
<1> QED  BY <1>1, <1>2 DEF LifeTime

\* No ticket is accepted again within its life.
TicketOnce ==
  \A t \in Tickets :
    honoured'[t] # honoured[t] /\ honoured[t] # Nil /\ honoured'[t] # Nil
      => now - honoured[t] > LifeTime

\* Each step keeps the tickets sound, and accepts a ticket once in its life.
LEMMA TicketsStep ==
  TicketsSound /\ [SignInNext]_signInVars => TicketsSound' /\ TicketOnce
<1> SUFFICES ASSUME TicketsSound, [SignInNext]_signInVars PROVE TicketsSound' /\ TicketOnce
  OBVIOUS
<1>0. /\ now \in Nat /\ LifeTime \in Nat /\ Nil \notin Nat
      /\ honoured \in [Tickets -> Nat \cup {Nil}]
      /\ nonce \in [Tickets -> Nat \cup {Nil}]
      /\ \A t \in Tickets : honoured[t] # Nil =>
           \/ nonce[t] = honoured[t] + LifeTime
           \/ nonce[t] = Nil /\ now > honoured[t] + LifeTime
  BY LifeTimeType, NoTimeAssumption DEF TicketsSound, LifeTime
<1>1. ASSUME UNCHANGED <<now, honoured, nonce>> PROVE TicketsSound' /\ TicketOnce
  BY <1>0, <1>1 DEF TicketsSound, TicketOnce, LifeTime
<1>2. ASSUME NEW caller \in Callers, NEW t \in Tickets, RedeemTicket(caller, t)
      PROVE  TicketsSound' /\ TicketOnce
  <2>1. /\ now' = now
        /\ Remembered[t] = Nil
        /\ nonce' = [Remembered EXCEPT ![t] = now + LifeTime]
        /\ honoured' = [honoured EXCEPT ![t] = now]
    BY <1>2 DEF RedeemTicket, Move, LifeTime
  <2>2. \A u \in Tickets : Remembered[u] = IF nonce[u] # Nil /\ nonce[u] < now THEN Nil
                                           ELSE nonce[u]
    BY DEF Remembered
  <2>3. Remembered \in [Tickets -> Nat \cup {Nil}]
    BY <1>0 DEF Remembered
  <2>4. now + LifeTime \in Nat  BY <1>0
  <2> HIDE DEF LifeTime
  <2>5. nonce' \in [Tickets -> Nat \cup {Nil}] /\ honoured' \in [Tickets -> Nat \cup {Nil}]
    BY <1>0, <2>1, <2>3, <2>4
  <2>6. \A u \in Tickets :
          /\ nonce'[u] = IF u = t THEN now + LifeTime ELSE Remembered[u]
          /\ honoured'[u] = IF u = t THEN now ELSE honoured[u]
    BY <1>0, <2>1, <2>3
  <2>7. \A u \in Tickets : honoured'[u] # Nil =>
           \/ nonce'[u] = honoured'[u] + LifeTime
           \/ nonce'[u] = Nil /\ now > honoured'[u] + LifeTime
    <3> SUFFICES ASSUME NEW u \in Tickets, honoured'[u] # Nil
        PROVE  \/ nonce'[u] = honoured'[u] + LifeTime
               \/ nonce'[u] = Nil /\ now > honoured'[u] + LifeTime
      OBVIOUS
    <3>1. CASE u = t  BY <2>6, <3>1
    <3>2. CASE u # t
      <4>1. honoured'[u] = honoured[u] /\ nonce'[u] = Remembered[u]  BY <2>6, <3>2
      <4>2. honoured[u] \in Nat  BY <1>0, <4>1
      <4> QED  BY <1>0, <2>2, <4>1, <4>2
    <3> QED  BY <3>1, <3>2
  <2>8. TicketOnce
    <3> SUFFICES ASSUME NEW u \in Tickets, honoured'[u] # honoured[u], honoured[u] # Nil
        PROVE  now - honoured[u] > LifeTime
      BY DEF TicketOnce
    <3>1. u = t  BY <2>6
    <3>2. honoured[t] \in Nat /\ honoured[t] # Nil  BY <1>0, <3>1
    <3>3. CASE nonce[t] = Nil  BY <1>0, <3>1, <3>2, <3>3
    <3>4. CASE nonce[t] # Nil
      <4>1. nonce[t] < now  BY <2>1, <2>2, <3>4
      <4> QED  BY <1>0, <3>1, <3>2, <3>4, <4>1
    <3> QED  BY <3>3, <3>4
  <2> QED  BY <1>0, <2>1, <2>5, <2>7, <2>8 DEF TicketsSound, LifeTime
<1>3. ASSUME Tick PROVE TicketsSound' /\ TicketOnce
  <2>1. now' = now + 1 /\ now' \in Nat /\ UNCHANGED <<honoured, nonce>>
    BY <1>0, <1>3 DEF Tick, memory, past
  <2> HIDE DEF LifeTime
  <2>2. \A t \in Tickets : honoured[t] # Nil =>
           \/ nonce[t] = honoured[t] + LifeTime
           \/ nonce[t] = Nil /\ now' > honoured[t] + LifeTime
    <3> SUFFICES ASSUME NEW t \in Tickets, honoured[t] # Nil
        PROVE  \/ nonce[t] = honoured[t] + LifeTime
               \/ nonce[t] = Nil /\ now' > honoured[t] + LifeTime
      OBVIOUS
    <3>1. honoured[t] \in Nat  BY <1>0
    <3> QED  BY <1>0, <2>1, <3>1
  <2> QED  BY <1>0, <2>1, <2>2 DEF TicketsSound, TicketOnce, LifeTime
<1>4. ASSUME ServerRestarts PROVE TicketsSound' /\ TicketOnce
  <2>1. /\ now' = now
        /\ honoured' = [t \in Tickets |-> Nil] /\ nonce' = [t \in Tickets |-> Nil]
    BY <1>4 DEF ServerRestarts, Move
  <2> QED  BY <1>0, <2>1 DEF TicketsSound, TicketOnce
<1> QED
  BY <1>1, <1>2, <1>3, <1>4
  DEF SignInNext, signInVars, memory, past, Move, SaveSettings, SignInFails,
      SignInSucceeds,
      ExchangeLink, IssueTicket, ApproveLink, CreateKey, SwitchKey, DeleteKey

\* Each step keeps the links sound.
LEMMA LinksStep ==
  LinksSound /\ [SignInNext]_signInVars => LinksSound'
<1> SUFFICES ASSUME LinksSound, [SignInNext]_signInVars PROVE LinksSound'
  OBVIOUS
<1>0. /\ now \in Nat /\ PairTTL \in Nat
      /\ pairing \in [Codes -> Pairings \cup {Nil}]
      /\ key \in [KeyIds -> KeyRows \cup {Nil}]
      /\ linked \subseteq KeyIds
      /\ \A i, j \in linked :
           key[i] # Nil =>
             /\ key[i].all
             /\ key[j] # Nil /\ key[i].name = key[j].name => i = j
  BY TimesAssumption DEF LinksSound
<1>1. ASSUME UNCHANGED <<now, pairing, key, linked>> PROVE LinksSound'
  BY <1>0, <1>1 DEF LinksSound
<1>2. ASSUME NEW c \in Codes, NEW d \in Docs, ApproveLink(c, d) PROVE LinksSound'
  <2>1. /\ UNCHANGED <<now, key, linked>>
        /\ pairing' = [e \in Codes |->
             IF e = c THEN [doc |-> d, expires |-> now + PairTTL]
             ELSE IF pairing[e] # Nil /\ pairing[e].expires < now THEN Nil ELSE pairing[e]]
    BY <1>2 DEF ApproveLink, Move, past
  <2>2. [doc |-> d, expires |-> now + PairTTL] \in Pairings  BY <1>0 DEF Pairings
  <2>3. pairing' \in [Codes -> Pairings \cup {Nil}]  BY <1>0, <2>1, <2>2
  <2> QED  BY <1>0, <2>1, <2>3 DEF LinksSound
<1>3. ASSUME NEW caller \in Callers, NEW c \in Codes, NEW i \in KeyIds,
             NEW right \in BOOLEAN, ExchangeLink(caller, c, i, right)
      PROVE  LinksSound'
  <2> DEFINE doc == pairing[c].doc
             new == [name |-> doc, all |-> TRUE, on |-> TRUE]
  <2>1. now' = now /\ pairing[c] # Nil /\ pairing' = [pairing EXCEPT ![c] = Nil]
    BY <1>3 DEF ExchangeLink, Move
  <2>2. pairing' \in [Codes -> Pairings \cup {Nil}]  BY <1>0, <2>1
  <2>3. doc \in Docs  BY <1>0, <2>1 DEF Pairings
  <2>4. CASE UNCHANGED <<key, linked>>
    BY <1>0, <2>1, <2>2, <2>4 DEF LinksSound
  <2>5. CASE /\ key[i] = Nil
             /\ key' = [j \in KeyIds |-> IF j = i THEN new
                                         ELSE IF j \in Replaced(doc) THEN Nil ELSE key[j]]
             /\ linked' = linked \cup {i}
    <3>1. new \in KeyRows /\ new.name = doc /\ new.all = TRUE  BY <2>3 DEF KeyRows
    <3> HIDE DEF new, doc
    <3>2. key' \in [KeyIds -> KeyRows \cup {Nil}] /\ linked' \subseteq KeyIds
      BY <1>0, <2>5, <3>1
    <3>3. \A j \in linked :
            j # i => /\ key'[j] = IF j \in Replaced(doc) THEN Nil ELSE key[j]
                     /\ key'[j] # Nil => /\ key'[j] = key[j] /\ key[j].all
                                          /\ key'[j].name # doc
      BY <1>0, <2>5 DEF Replaced
    <3>4. key'[i] = new  BY <2>5
    <3>5. \A j, k \in linked' :
            key'[j] # Nil =>
              /\ key'[j].all
              /\ key'[k] # Nil /\ key'[j].name = key'[k].name => j = k
      <4> SUFFICES ASSUME NEW j \in linked', NEW k \in linked', key'[j] # Nil
          PROVE  /\ key'[j].all
                 /\ key'[k] # Nil /\ key'[j].name = key'[k].name => j = k
        OBVIOUS
      <4>1. (j = i \/ j \in linked) /\ (k = i \/ k \in linked)  BY <2>5
      <4>2. CASE j = i  BY <3>1, <3>3, <3>4, <4>1, <4>2
      <4>3. CASE j # i /\ k = i  BY <3>1, <3>3, <3>4, <4>1, <4>3
      <4>4. CASE j # i /\ k # i
        <5>1. key'[j] = key[j] /\ key[j].all /\ (key'[k] # Nil => key'[k] = key[k])
          BY <3>3, <4>1, <4>4
        <5> QED  BY <1>0, <4>1, <4>4, <5>1
      <4> QED  BY <4>2, <4>3, <4>4
    <3> QED  BY <1>0, <2>1, <2>2, <3>2, <3>5 DEF LinksSound
  <2>6. \/ UNCHANGED <<key, linked>>
        \/ /\ key[i] = Nil
           /\ key' = [j \in KeyIds |-> IF j = i THEN new
                                       ELSE IF j \in Replaced(doc) THEN Nil ELSE key[j]]
           /\ linked' = linked \cup {i}
    BY <1>3 DEF ExchangeLink
  <2> HIDE DEF new, doc
  <2> QED  BY <2>4, <2>5, <2>6
<1>4. ASSUME NEW i \in KeyIds, NEW d \in Docs, NEW all \in BOOLEAN, CreateKey(i, d, all)
      PROVE  LinksSound'
  <2> DEFINE new == [name |-> d, all |-> all, on |-> TRUE]
  <2>1. /\ UNCHANGED <<now, pairing>>
        /\ key' = [key EXCEPT ![i] = new] /\ linked' = linked \ {i}
    BY <1>4 DEF CreateKey, Move, memory
  <2>2. new \in KeyRows  BY DEF KeyRows
  <2> HIDE DEF new
  <2>3. key' \in [KeyIds -> KeyRows \cup {Nil}]  BY <1>0, <2>1, <2>2
  <2>4. \A j \in linked' : j \in linked /\ key'[j] = key[j]  BY <1>0, <2>1
  <2> QED  BY <1>0, <2>1, <2>3, <2>4 DEF LinksSound
<1>5. ASSUME NEW i \in KeyIds, SwitchKey(i) PROVE LinksSound'
  <2>1. /\ UNCHANGED <<now, pairing, linked>> /\ key[i] # Nil
        /\ key' = [key EXCEPT ![i] = [key[i] EXCEPT !.on = ~key[i].on]]
    BY <1>5 DEF SwitchKey, Move, memory, past
  <2>2. key[i] \in KeyRows  BY <1>0, <2>1
  <2>3. /\ [key[i] EXCEPT !.on = ~key[i].on] \in KeyRows
        /\ [key[i] EXCEPT !.on = ~key[i].on].all = key[i].all
        /\ [key[i] EXCEPT !.on = ~key[i].on].name = key[i].name
    BY <2>2 DEF KeyRows
  <2>4. key' \in [KeyIds -> KeyRows \cup {Nil}]  BY <1>0, <2>1, <2>3
  <2>5. \A j \in KeyIds : /\ key'[j] # Nil => key[j] # Nil
                          /\ key[j] # Nil => key'[j].all = key[j].all
                                              /\ key'[j].name = key[j].name
    BY <1>0, <2>1, <2>3
  <2> QED  BY <1>0, <2>1, <2>4, <2>5 DEF LinksSound
<1>6. ASSUME NEW i \in KeyIds, DeleteKey(i) PROVE LinksSound'
  <2>1. /\ UNCHANGED <<now, pairing>>
        /\ key' = [key EXCEPT ![i] = Nil] /\ linked' = linked \ {i}
    BY <1>6 DEF DeleteKey, Move, memory
  <2>2. key' \in [KeyIds -> KeyRows \cup {Nil}]  BY <1>0, <2>1
  <2>3. \A j \in linked' : j \in linked /\ key'[j] = key[j]  BY <1>0, <2>1
  <2> QED  BY <1>0, <2>1, <2>2, <2>3 DEF LinksSound
<1>7. ASSUME Tick PROVE LinksSound'
  <2>1. now' \in Nat /\ UNCHANGED <<pairing, key, linked>>
    BY <1>0, <1>7 DEF Tick, memory, past
  <2> QED  BY <1>0, <2>1 DEF LinksSound
<1>8. ASSUME ServerRestarts PROVE LinksSound'
  <2>1. /\ UNCHANGED <<now, key, linked>> /\ pairing' = [c \in Codes |-> Nil]
    BY <1>8 DEF ServerRestarts, Move
  <2> QED  BY <1>0, <2>1 DEF LinksSound
<1> QED
  BY <1>1, <1>2, <1>3, <1>4, <1>5, <1>6, <1>7, <1>8
  DEF SignInNext, signInVars, memory, past, Move, SaveSettings, SignInFails,
      SignInSucceeds,
      RedeemTicket, IssueTicket

\* A ticket is not accepted twice within its life, by whichever endpoint
\* (read_app_ticket), and of the keys that linking an app has made one is left
\* of each name (pair_exchange).
THEOREM HandOffs ==
  SignInSpec => HandOffsOnce
<1>1. SignInInit => TicketsSound /\ LinksSound
  BY DEF SignInInit, TicketsSound, LinksSound
<1> DEFINE A == /\ \A t \in Tickets :
                     honoured'[t] # honoured[t] /\ honoured[t] # Nil /\ honoured'[t] # Nil
                       => now - honoured[t] > TicketSeconds * Second
                /\ \A i, j \in linked' :
                     key'[i] # Nil /\ key'[j] # Nil /\ key'[i].name = key'[j].name => i = j
<1>2. TicketsSound /\ LinksSound /\ [SignInNext]_signInVars => TicketsSound' /\ LinksSound' /\ A
  <2> SUFFICES ASSUME TicketsSound, LinksSound, [SignInNext]_signInVars
      PROVE  TicketsSound' /\ LinksSound' /\ A
    OBVIOUS
  <2>1. TicketsSound' /\ TicketOnce /\ LinksSound'
    BY TicketsStep, LinksStep
  <2> QED  BY <2>1 DEF TicketOnce, LifeTime, LinksSound
<1>3. HandOffsOnce <=> [][A]_signInVars
  BY DEF HandOffsOnce
<1> HIDE DEF A
<1> QED  BY <1>1, <1>2, <1>3, PTL DEF SignInSpec
=============================================================================
