------------------------------- MODULE Migration -------------------------------
(***************************************************************************)
(* How a database of an earlier version is brought up to date when the     *)
(* server starts (init_db and _migrate in server/app/database.py), when    *)
(* starts are cut short.                                                   *)
(*                                                                         *)
(* What is on the disk after a cut is what has been committed.  Python's   *)
(* sqlite3 opens a transaction at the first rows that are written, and     *)
(* keeps it open; a change of the schema is committed at once unless a     *)
(* transaction is open; executescript commits what is open, and then       *)
(* every statement of its own.  A database is what has been done to it.    *)
(***************************************************************************)
EXTENDS Naturals, Sequences, FiniteSets, SequencesExt

CONSTANT MaxCuts  \* bound: starts that are cut short, one after the other

ASSUME CutsAssumption == MaxCuts \in Nat

-----------------------------------------------------------------------------
(* The steps of a start, in the order of the code.                         *)

Statement(unit, n, op, what) == [unit |-> unit, first |-> n = 1, op |-> op, what |-> what]

\* A column, unless it is there; then perhaps a second one, or rows that
\* predate it, whether or not that is there.
ColumnUnits ==
  <<  <<"totp_enabled">>,
      <<"email_verified", "accounts verified">>,
      <<"verify_code", "verify_expires">>,
      <<"approved">>,
      <<"software_json", "software_at">>,
      <<"doc_json", "doc_at">>  >>

TokenUnits == << <<"kind", "tokens told apart">>, <<"use_count">> >>

LaterUnits == << <<"notify_email">>, <<"auto_update">> >>

RowMarks == {"accounts verified", "tokens told apart"}

StepsOf(unit) ==
  [n \in DOMAIN unit |->
     Statement(unit[1], n, IF unit[n] \in RowMarks THEN "rows" ELSE "column", unit[n])]

Always(op, what) == <<Statement(what, 1, op, what)>>

\* Mutant of Rebuild: the old table goes before its rows are copied.
RebuildEmpty ==
  <<Statement("global", 1, "commit", "global"), Statement("global", 2, "create", "monitors_new"),
    Statement("global", 3, "drop", "monitors"), Statement("global", 4, "copy", "monitors_new"),
    Statement("global", 5, "rename", "monitors_new")>>

\* monitors is made anew where its org_id must be set.
Rebuild ==
  <<Statement("global", 1, "commit", "global"), Statement("global", 2, "create", "monitors_new"),
    Statement("global", 3, "copy", "monitors_new"), Statement("global", 4, "drop", "monitors"),
    Statement("global", 5, "rename", "monitors_new")>>

Steps ==
  Always("schema", "monitors")
  \o FlattenSeq([i \in DOMAIN ColumnUnits |-> StepsOf(ColumnUnits[i])])
  \o Always("rows", "subnets told apart")
  \o FlattenSeq([i \in DOMAIN TokenUnits |-> StepsOf(TokenUnits[i])])
  \o Always("rows", "old tokens gone")
  \o Rebuild
  \o Always("rows", "old alerts gone")
  \o FlattenSeq([i \in DOMAIN LaterUnits |-> StepsOf(LaterUnits[i])])
  \o Always("commit", "all")

Units == ToSet(ColumnUnits) \cup ToSet(TokenUnits) \cup ToSet(LaterUnits)
Marks == UNION {ToSet(u) : u \in Units}
            \cup {"subnets told apart", "old tokens gone", "old alerts gone"}

-----------------------------------------------------------------------------
(* Databases.  "has" are the marks; "policies" the tables that hold the     *)
(* policies; "later" is what has become of what users have set since a      *)
(* start: an account without a verified address, a policy without mails.    *)

Columns(units) == UNION {ToSet(u) : u \in units}

\* Of any earlier version: each unit is there or not.
OldDatabases ==
  {db \in {[has |-> Columns(units), tables |-> {"monitors"}, policies |-> {"monitors"},
             global |-> g, later |-> "none"] : units \in SUBSET Units, g \in BOOLEAN} :
     "notify_email" \in db.has => db.global}

\* Rows written over what users have set since
Over(later) == IF later = "none" THEN "none" ELSE "lost"

\* SCHEMA: a table that is not there is made, empty and as it is today.
Schema(db) ==
  IF "monitors" \in db.tables THEN db
  ELSE [db EXCEPT !.tables = @ \cup {"monitors"}, !.global = TRUE, !.has = @ \cup {"notify_email"}]

Renamed(db) ==
  [db EXCEPT !.tables = {"monitors"}, !.global = TRUE, !.has = @ \ {"notify_email"},
             !.policies = IF "monitors_new" \in @ THEN {"monitors"} ELSE {},
             !.later = Over(@)]

\* What a statement makes of the database
Outcome(db, step) ==
  CASE step.op = "schema" -> Schema(db)
    [] step.op = "column" -> [db EXCEPT !.has = @ \cup {step.what}]
    [] step.op = "rows" /\ step.what \in RowMarks ->
         [db EXCEPT !.has = @ \cup {step.what}, !.later = Over(@)]
    [] step.op = "rows" -> [db EXCEPT !.has = @ \cup {step.what}]
    [] step.op = "create" -> [db EXCEPT !.tables = @ \cup {"monitors_new"}]
    [] step.op = "copy" ->
         [db EXCEPT !.policies = IF "monitors" \in @ THEN @ \cup {"monitors_new"} ELSE @]
    [] step.op = "drop" -> [db EXCEPT !.tables = @ \ {"monitors"}, !.policies = @ \ {"monitors"}]
    [] step.op = "rename" -> Renamed(db)
    [] step.op = "commit" -> db

-----------------------------------------------------------------------------
(* A start.                                                                *)

\* Mutant of Due: the rows that predate a column are written at every start.
DueAlways(run, step) ==
  \/ step.op = "rows"
  \/ IF ~step.first THEN step.unit \in run.begun
     ELSE IF step.unit = "global" THEN ~run.work.global
     ELSE step.op # "column" \/ step.unit \notin run.work.has

\* What a unit's first step has found missing, all of the unit is for.
Due(run, step) ==
  IF ~step.first THEN step.unit \in run.begun
  ELSE IF step.unit = "global" THEN ~run.work.global
  ELSE step.op # "column" \/ step.unit \notin run.work.has

\* The statements that are not part of an open transaction, or that end one
Commits(run, step) == IF run.open THEN step.op \in {"commit", "schema"} ELSE step.op # "rows"

\* "table monitors_new already exists", and the server does not start.
Fails(run, step) == step.op = "create" /\ "monitors_new" \in run.work.tables

Executed(run, step) ==
  LET work == Outcome(run.work, step) IN
  IF run.failed \/ ~Due(run, step) THEN run
  ELSE IF Fails(run, step) THEN [run EXCEPT !.failed = TRUE]
  ELSE [work |-> work,
        disk |-> IF Commits(run, step) THEN work ELSE run.disk,
        open |-> ~Commits(run, step),
        begun |-> run.begun \cup {step.unit},
        failed |-> FALSE]

\* init_db: the start of a database, after each of its steps
Start(db) ==
  LET after[n \in 0 .. Len(Steps)] ==
        IF n = 0 THEN [work |-> db, disk |-> db, open |-> FALSE, begun |-> {}, failed |-> FALSE]
                 ELSE Executed(after[n - 1], Steps[n])
  IN after

Ended(db) == Start(db)[Len(Steps)]
CutShort(db) == {Start(db)[n].disk : n \in 0 .. Len(Steps)}

\* Part of what belongs together is on the disk, and part of it is not.
TornUnits(db) ==
  {u[1] : u \in {v \in Units : ToSet(v) \cap db.has \notin {{}, ToSet(v)}}}
  \cup (IF "monitors_new" \in db.tables THEN {"global"} ELSE {})

Torn(db) == TornUnits(db) # {}

\* The columns and rows that what is torn still lacks
Wanting(db) == UNION {ToSet(u) : u \in {v \in Units : v[1] \in TornUnits(db)}} \ db.has

\* The databases that a number of starts, each cut short anywhere, leave behind
LeftBehind ==
  LET left[n \in 0 .. MaxCuts] ==
        IF n = 0 THEN OldDatabases
        ELSE left[n - 1] \cup UNION {CutShort(db) : db \in left[n - 1]}
  IN left[MaxCuts]

\* The server is used.
Used(db) == [db EXCEPT !.later = "kept"]

-----------------------------------------------------------------------------
(* Properties.                                                             *)

\* A start takes up what starts that were cut short have left, up to what they
\* have torn.  The transaction that the first rows open leaves five places where
\* that can be; what is torn there is never made good, by this start or by any
\* other: a second column stays missing, the accounts that predate
\* verification stay unverified, and of a table of policies that was being made
\* anew either no start succeeds any more, or the policies stay in a table that
\* nothing reads.  All else ends as it should: every other column is there and
\* every other row that predates one has been brought up to date, no policy is
\* lost from the disk, and what users set afterwards is not touched by the
\* starts that follow.
EveryStartResumes ==
  \A db \in LeftBehind :
    LET end == Ended(db)
        halfMade == "global" \in TornUnits(db)
    IN
    /\ TornUnits(db) \subseteq
         {"email_verified", "verify_code", "software_json", "doc_json", "global"}
    /\ end.failed <=> halfMade /\ "monitors" \in db.tables /\ ~db.global
    /\ ~end.failed => /\ end.disk.has = Marks \ Wanting(db) /\ end.disk.global
                      /\ end.disk.policies = {IF halfMade THEN "monitors_new" ELSE "monitors"}
    /\ end.failed => "monitors_new" \in end.disk.tables /\ "monitors" \in end.disk.policies
    /\ Ended(Used(end.disk)).disk = Used(end.disk)
=============================================================================
