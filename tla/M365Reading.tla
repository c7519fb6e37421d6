----------------------------- MODULE M365Reading -----------------------------
(***************************************************************************)
(* One reading of a Microsoft 365 tenant (collect in server/app/m365.py):  *)
(* its parts, each read on its own, some from several requests, and what   *)
(* one part takes from another.  As in UnifiReading, a function from what  *)
(* fails to the snapshot.  A failure is <<request, how>>: "error",         *)
(* "forbidden" (403), or "concealed" for a report without the names.       *)
(***************************************************************************)
EXTENDS Naturals, Sequences, FiniteSets, SequencesExt, FiniteSetsExt, TLC

CONSTANTS
  Licensed,       \* the users with a licence, or who may sign in
  Candidates,     \* the others with a mail address, in order
  Purpose,        \* of each candidate's mailbox: "shared", "room" or "user"
  RoleHolders,    \* the admin roles in order: the users who hold each
  Groups,         \* the groups in order: [kind, members]
  Laptop,         \* the users with a device in Intune
  MaxMailboxChecks, MaxMemberLists  \* the code's limits, scaled down

\* A user is listed once, with a licence or without.
ASSUME CandidatesAssumption ==
  /\ Candidates \in Seq(ToSet(Candidates)) /\ IsInjective(Candidates)
  /\ Licensed \cap ToSet(Candidates) = {}
ASSUME ListsAssumption ==
  /\ RoleHolders \in Seq(ToSet(RoleHolders)) /\ Groups \in Seq(ToSet(Groups))
  /\ MaxMailboxChecks \in Nat /\ MaxMemberLists \in Nat

\* What each part needs for a row of its own in the snapshot.
Single ==
  [tenant |-> "organization", subscriptions |-> "subscribedSkus", users |-> "users",
   managers |-> "managers", sign_ins |-> "signInActivity", mfa |-> "registrations",
   devices |-> "managedDevices", mailbox_usage |-> "mailboxUsage", sites |-> "sites",
   apps |-> "applications", security_defaults |-> "securityDefaults",
   conditional_access |-> "policies"]

Checked == SubSeq(Candidates, 1, Min({MaxMailboxChecks, Len(Candidates)}))

\* The groups whose members are asked for; of a team, its owners, too.
Listed ==
  LET lists == SelectSeq([i \in DOMAIN Groups |-> i], LAMBDA i : Groups[i].kind # "security")
  IN ToSet(SubSeq(lists, 1, Min({MaxMemberLists, Len(lists)})))
GroupRequests(i) ==
  IF i \notin Listed THEN {}
  ELSE {<<"members", i>>} \cup (IF Groups[i].kind = "team" THEN {<<"owners", i>>} ELSE {})

GraphRequests ==
  ({"token", "renewals", "directoryRoles", "groups"} \cup {Single[p] : p \in DOMAIN Single}) \X {0}
  \cup {<<"mailbox", i>> : i \in DOMAIN Checked}
  \cup {<<"holders", i>> : i \in DOMAIN RoleHolders}
  \cup UNION {GroupRequests(i) : i \in DOMAIN Groups}

-----------------------------------------------------------------------------
\* _get, _all: an answer, or a GraphError.
Answers(w, r) == \A f \in w : f[1] # r
Forbidden(w, r) == <<r, "forbidden">> \in w

\* How far a list of n requests is worked off until one of them fails.
WorkedOff(n, answered) == Max({k \in 0 .. n : 1 .. k \subseteq answered})

\* roles: one request for each; and groups.
RolesRead(w) ==
  IF ~Answers(w, <<"directoryRoles", 0>>) THEN 0
  ELSE WorkedOff(Len(RoleHolders), {i \in DOMAIN RoleHolders : Answers(w, <<"holders", i>>)})
GroupsRead(w) ==
  IF ~Answers(w, <<"groups", 0>>) THEN 0
  ELSE WorkedOff(Len(Groups),
                 {i \in DOMAIN Groups : \A r \in GroupRequests(i) : Answers(w, r)})

\* mailboxes: one request for each candidate.  Without the permission none is
\* read; another error costs that mailbox only.
MailboxesForbidden(w) == \E i \in DOMAIN Checked : Forbidden(w, <<"mailbox", i>>)

MailboxesRead(w) ==
  IF ~Answers(w, <<"users", 0>>) \/ MailboxesForbidden(w) THEN {}
  ELSE {i \in DOMAIN Checked : Answers(w, <<"mailbox", i>>)}

\* users, and of the candidates those whose mailbox is nobody else's; when
\* the mailboxes are forbidden, all of them.
UsersRead(w) ==
  LET left == IF MailboxesForbidden(w) THEN ToSet(Candidates)
              ELSE {Checked[i] : i \in {k \in MailboxesRead(w) : Purpose[Checked[k]] = "user"}}
  IN IF Answers(w, <<"users", 0>>) THEN Licensed \cup left ELSE {}

\* Mutant of Failed: a part of several requests is named only when the first
\* one fails.
FailedAtFirst(w, part) ==
  CASE part = "roles" -> ~Answers(w, <<"directoryRoles", 0>>)
    [] part = "groups" -> ~Answers(w, <<"groups", 0>>)
    [] part = "mailboxes" -> MailboxesForbidden(w) /\ Answers(w, <<"users", 0>>)
    [] OTHER -> ~Answers(w, <<Single[part], 0>>)

\* Whether a part ends with an exception.
Failed(w, part) ==
  CASE part = "roles" -> \/ ~Answers(w, <<"directoryRoles", 0>>)
                         \/ RolesRead(w) < Len(RoleHolders)
    [] part = "groups" -> \/ ~Answers(w, <<"groups", 0>>)
                          \/ GroupsRead(w) < Len(Groups)
    [] part = "mailboxes" -> MailboxesForbidden(w) /\ Answers(w, <<"users", 0>>)
    [] OTHER -> ~Answers(w, <<Single[part], 0>>)

M365Parts == DOMAIN Single \cup {"roles", "groups", "mailboxes"}
AboutPeople == {"managers", "sign_ins", "mfa", "roles", "devices"}

\* part: what went wrong is named.  What is about people is asked for only if
\* there are any.
Problems(w) ==
  {part \in M365Parts : /\ Failed(w, part)
                        /\ part \in AboutPeople => UsersRead(w) # {}}

\* A person, with what the other parts add: the roles and the groups that
\* were worked off, even if the part failed later.
Person(w, u) ==
  LET has(part) == ~Failed(w, part)
  IN [id |-> u, licences |-> IF u \notin Licensed THEN "none"
                             ELSE IF has("subscriptions") THEN "named" ELSE "unnamed",
      manager |-> has("managers"), last_sign_in |-> has("sign_ins"), mfa |-> has("mfa"),
      roles |-> {i \in 1 .. RolesRead(w) : u \in RoleHolders[i]},
      devices |-> has("devices") /\ u \in Laptop,
      mailbox |-> has("mailbox_usage"),
      groups |-> {i \in 1 .. GroupsRead(w) : i \in Listed /\ u \in Groups[i].members}]

Unread == [ok |-> FALSE, problems |-> {}, users |-> {}, mailboxes |-> {},
           parts |-> {}, renewals |-> FALSE]

\* collect: "parts" are the keys of the snapshot that are there.
M365Snapshot(w) ==
  IF ~Answers(w, <<"token", 0>>) THEN Unread ELSE
  [ok |-> TRUE, problems |-> Problems(w),
   users |-> {Person(w, u) : u \in UsersRead(w)},
   mailboxes |-> {Checked[i] : i \in {k \in MailboxesRead(w) : Purpose[Checked[k]] # "user"}},
   parts |-> {part \in M365Parts \ AboutPeople : ~Failed(w, part)},
   renewals |-> Answers(w, <<"renewals", 0>>) /\ ~Failed(w, "subscriptions")]

-----------------------------------------------------------------------------
(* Properties.                                                             *)

\* What may go wrong in one reading (a bound): up to two requests fail.
M365Weathers ==
  LET fails == GraphRequests \X {"error", "forbidden"} \cup {<<<<"mailboxUsage", 0>>, "concealed">>}
  IN {{}} \cup {{f, g} : f, g \in fails}

FairReading == M365Snapshot({})

\* A part of the snapshot that can be relied on, and whom it is about.
Given(w, part) ==
  M365Snapshot(w).ok /\ {part, "users"} \cap M365Snapshot(w).problems = {}
InFairReading(u) == CHOOSE p \in FairReading.users : p.id = u
Ids(people) == {p.id : p \in people}

\* Each part is there or named.
PartsAccounted(w) ==
  M365Snapshot(w).ok =>
    M365Snapshot(w).parts \cup M365Snapshot(w).problems \cup AboutPeople = M365Parts

\* What is in doubt are single mailboxes whose own request failed.
MailboxesComplete(w) ==
  LET lost == {Checked[i] : i \in {k \in DOMAIN Checked : ~Answers(w, <<"mailbox", k>>)}}
  IN Given(w, "mailboxes") =>
       /\ M365Snapshot(w).mailboxes = FairReading.mailboxes \ lost
       /\ Ids(M365Snapshot(w).users) = Ids(FairReading.users) \ lost

\* What is said of a person is so, and all of it unless its part is named.
PeopleTrue(w) ==
  \A p \in M365Snapshot(w).users : p.id \in Ids(FairReading.users) =>
    LET fair == InFairReading(p.id)
    IN /\ p.roles \subseteq fair.roles /\ p.groups \subseteq fair.groups
       /\ Given(w, "roles") => p.roles = fair.roles
       /\ Given(w, "groups") => p.groups = fair.groups
       /\ Given(w, "devices") => p.devices = fair.devices
       /\ Given(w, "managers") => p.manager
       /\ Given(w, "mfa") => p.mfa

LicensedListed(w) == Given(w, "users") => Licensed \subseteq Ids(M365Snapshot(w).users)

\* A part that fails is named, costs nothing but itself, and brings nothing
\* that is not so: unless the users could not be read, whatever is not named
\* is as complete as in a reading without failures (each person's roles,
\* groups, devices and the rest included), but for single mailboxes that gave
\* another error than 403 and the renewal dates; and of a part that is named
\* there is at most a piece.
EveryPartIsNamed ==
  \A w \in M365Weathers :
    PartsAccounted(w) /\ MailboxesComplete(w) /\ PeopleTrue(w) /\ LicensedListed(w)
=============================================================================
