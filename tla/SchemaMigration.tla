-------------------------- MODULE SchemaMigration --------------------------
(***************************************************************************)
(* Store.Open on one database file, by one or by several processes: the    *)
(* web server the compose file restarts, and the admin and backup          *)
(* commands, all open the store the same way and so all migrate it.        *)
(*                                                                         *)
(* migrate reads PRAGMA user_version once, outside any transaction, and    *)
(* then runs one transaction per missing version: the DDL of the version,  *)
(* for version 3 the content identity of every old row, and the new        *)
(* user_version.  The transactions are DEFERRED, as in PostcardStore.  The *)
(* DDL of version 1 is CREATE ... IF NOT EXISTS and does nothing, without  *)
(* writing, on a table that is there; that of the later versions is ALTER  *)
(* TABLE ADD COLUMN and fails ("duplicate column name") if it was done.    *)
(***************************************************************************)
EXTENDS Naturals, FiniteSets

CONSTANTS Processes,
          NoProcess,        \* the writer lock is free
          CurrentVersion,   \* the version this binary supports (4)
          IdentityVersion,  \* the version that adds content identity (3)
          InitialVersions,  \* the user_version the file may start with
          MaxFaults         \* bound of the model on crashes and I/O errors

ASSUME MigrationAssumption ==
    /\ NoProcess \notin Processes
    /\ CurrentVersion \in Nat
    /\ IdentityVersion \in 2 .. CurrentVersion
    /\ InitialVersions \subseteq Nat

VARIABLES
    db,      \* the committed schema
    writer,  \* the process that holds the writer lock
    proc,    \* what each process is doing in Open
    faults   \* crashes and I/O errors so far

vars == <<db, writer, proc, faults>>

(* user_version, the versions whose DDL was run, and whether every row     *)
(* carries its content identity.                                           *)
Schema == [version : Nat, steps : SUBSET Nat, identity : {"none", "filled"}]

SchemaAt(version) == [version |-> version, steps |-> 1 .. version,
                      identity |-> IF version >= IdentityVersion THEN "filled"
                                                                 ELSE "none"]

(* Before schema versions existed the table was there under version 0. *)
Unversioned == [version |-> 0, steps |-> {1}, identity |-> "none"]

Phases == {"down", "migrating", "begun", "waiting", "altered", "ready",
           "versioned", "open", "failed"}

(* Outside a transaction: `version` is the version reached so far. *)
Outside(phase, version) ==
    [phase |-> phase, version |-> version, view |-> SchemaAt(0)]

Init == /\ db \in {SchemaAt(v) : v \in InitialVersions}
                    \cup {s \in {Unversioned} : 0 \in InitialVersions}
        /\ writer = NoProcess
        /\ proc = [p \in Processes |-> Outside("down", 0)]
        /\ faults = 0

-----------------------------------------------------------------------------
(* Mutant of Target: one transaction migrates to the current version. *)
TargetCurrent(p) == CurrentVersion

(* The version the current transaction migrates to. *)
Target(p) == proc[p].version + 1

(* Going over to another phase, without and with a new view. *)
Become(p, phase) == proc' = [proc EXCEPT ![p].phase = phase]
BecomeWith(p, phase, view) ==
    proc' = [proc EXCEPT ![p].phase = phase, ![p].view = view]

(* Mutant of Release: the lock is kept after the transaction. *)
KeepLock(p) == UNCHANGED writer

(* The transaction is over; the lock is free if it held it. *)
Release(p) == writer' = IF writer = p THEN NoProcess ELSE writer

(* A statement failed: rollback, db.Close(), and log.Fatal in the caller. *)
Fail(p) ==
    /\ proc' = [proc EXCEPT ![p] = Outside("failed", 0)]
    /\ Release(p)
    /\ UNCHANGED db

(* Mutant of Future: a newer file is taken for a migrated one. *)
NeverFuture(version) == FALSE

(* ErrFutureSchema. *)
Future(version) == version > CurrentVersion

(* SchemaVersion, and ErrFutureSchema. *)
Start(p) ==
    /\ proc[p].phase = "down"
    /\ \/ /\ ~Future(db.version)
          /\ proc' = [proc EXCEPT ![p] = Outside("migrating", db.version)]
          /\ UNCHANGED <<db, writer>>
       \/ Future(db.version) /\ Fail(p)

(* Mutant of Migrated: version <= CurrentVersion in the loop's condition. *)
MigratedPast(version) == version > CurrentVersion

(* The end of the migration loop. *)
Migrated(version) == version >= CurrentVersion

BeginMigration(p) ==
    /\ proc[p].phase = "migrating"
    /\ ~Migrated(proc[p].version)
    /\ Become(p, "begun")
    /\ UNCHANGED <<db, writer>>

(* The loop is over and Open returns. *)
Finish(p) ==
    /\ proc[p].phase = "migrating"
    /\ Migrated(proc[p].version)
    /\ Become(p, "open")
    /\ UNCHANGED <<db, writer>>

(* Whether the DDL of version n fails on a schema that has these steps. *)
Duplicates(n, steps) == n # 1 /\ n \in steps

AfterDDL(n) == IF n = IdentityVersion THEN "altered" ELSE "ready"

(* The DDL is compiled against the committed schema: it fails, or has to   *)
(* write and asks for the lock, or (version 1) finds the table, writes     *)
(* nothing and only fixes the transaction's snapshot.                      *)
PrepareDDL(p) ==
    /\ proc[p].phase = "begun"
    /\ \/ Duplicates(Target(p), db.steps) /\ Fail(p)
       \/ /\ Target(p) \notin db.steps
          /\ Become(p, "waiting")
          /\ UNCHANGED <<db, writer>>
       \/ /\ Target(p) = 1 /\ 1 \in db.steps
          /\ BecomeWith(p, AfterDDL(1), db)
          /\ UNCHANGED <<db, writer>>

(* Mutant of RunDDL: the DDL commits by itself. *)
RunDDLAtOnce(p) ==
    /\ proc[p].phase = "waiting"
    /\ writer = NoProcess
    /\ ~Duplicates(Target(p), db.steps)
    /\ writer' = p
    /\ db' = [db EXCEPT !.steps = @ \cup {Target(p)}]
    /\ BecomeWith(p, AfterDDL(Target(p)),
                  [db EXCEPT !.steps = @ \cup {Target(p)}])

(* The lock is free: the DDL runs on the newest schema. *)
RunDDL(p) ==
    /\ proc[p].phase = "waiting"
    /\ writer = NoProcess
    /\ \/ Duplicates(Target(p), db.steps) /\ Fail(p)
       \/ /\ ~Duplicates(Target(p), db.steps)
          /\ writer' = p
          /\ BecomeWith(p, AfterDDL(Target(p)),
                        [db EXCEPT !.steps = @ \cup {Target(p)}])
          /\ UNCHANGED db

(* The lock did not come within busy_timeout. *)
TimeOut(p) ==
    /\ proc[p].phase = "waiting"
    /\ writer # NoProcess
    /\ Fail(p)

(* populateContentIdentity. *)
PopulateIdentity(p) ==
    /\ proc[p].phase = "altered"
    /\ BecomeWith(p, "ready", [proc[p].view EXCEPT !.identity = "filled"])
    /\ UNCHANGED <<db, writer>>

(* PRAGMA user_version = n.  A transaction that has only read so far must  *)
(* become the writer, and can only on the newest schema.                   *)
SetVersion(p) ==
    /\ proc[p].phase = "ready"
    /\ \/ /\ writer = p \/ (writer = NoProcess /\ proc[p].view = db)
          /\ writer' = p
          /\ BecomeWith(p, "versioned", [proc[p].view EXCEPT !.version = Target(p)])
          /\ UNCHANGED db
       \/ /\ writer # p /\ (writer # NoProcess \/ proc[p].view # db)
          /\ Fail(p)

(* tx.Commit(); the loop goes on with its own version, not the file's. *)
CommitMigration(p) ==
    /\ proc[p].phase = "versioned"
    /\ db' = proc[p].view
    /\ Release(p)
    /\ proc' = [proc EXCEPT ![p] = Outside("migrating", Target(p))]

(* restart: unless-stopped, or an operator who runs the command again. *)
Restart(p) ==
    /\ proc[p].phase = "failed"
    /\ Become(p, "down")
    /\ UNCHANGED <<db, writer>>

(* A process dies, or a statement of Open fails for a reason of its own    *)
(* (disk, permissions); SQLite discards what was not committed.            *)
Fault(p) ==
    /\ proc[p].phase \notin {"down", "failed"}
    /\ faults < MaxFaults
    /\ faults' = faults + 1
    /\ Fail(p)

Step(p) ==
    /\ \/ Start(p) \/ BeginMigration(p) \/ Finish(p) \/ PrepareDDL(p)
       \/ RunDDL(p) \/ TimeOut(p) \/ PopulateIdentity(p) \/ SetVersion(p)
       \/ CommitMigration(p) \/ Restart(p)
    /\ UNCHANGED faults

Next == \E p \in Processes : Step(p) \/ Fault(p)

Spec == Init /\ [][Next]_vars

(* A file that has never had a version is opened by one process, `first`,  *)
(* and by the others when it has one (MigrateRace.cfg shows why).          *)
MayRun(first, p) == p = first \/ db.version >= 1

NextAfter(first) ==
    \E p \in Processes : MayRun(first, p) /\ (Step(p) \/ Fault(p))

SpecAfter(first) == Init /\ [][NextAfter(first)]_vars

(* Open runs its next statement, and a process that failed is started      *)
(* again; nothing has to fail.                                             *)
FairSpec == Spec /\ \A p \in Processes : WF_vars(Step(p))

-----------------------------------------------------------------------------
TypeOK ==
    /\ db \in Schema
    /\ writer \in Processes \cup {NoProcess}
    /\ proc \in [Processes -> [phase : Phases, version : 0 .. CurrentVersion,
                               view : Schema]]
    /\ faults \in Nat

(* user_version says which DDL the file has had: no crash, error or other  *)
(* process leaves a version without its columns or columns without their   *)
(* version, and from IdentityVersion on every row has its identity.        *)
VersionNamesSchema == db \in {SchemaAt(db.version), Unversioned}

(* Whatever the processes do, even on a file without versions: no column   *)
(* a version promises is missing, so no statement of the store fails for   *)
(* want of one, and no row is left without identity under a version that   *)
(* has it.                                                                 *)
ColumnsPresent == /\ 1 .. db.version \subseteq db.steps
                  /\ db.version >= IdentityVersion => db.identity = "filled"

(* README.md:105: versions are migrated sequentially.  The committed       *)
(* version is only ever raised, by one.                                    *)
MigratesSequentially == [][db'.version \in {db.version, db.version + 1}]_vars

(* A process that serves traffic serves the schema it was built for, for   *)
(* as long as it runs (what /readyz asserts, operations.go:209); a file    *)
(* from the future is refused before.                                      *)
ReadyWhileOpen ==
    \A p \in Processes : proc[p].phase = "open" => db.version = CurrentVersion

(* However the processes crash, time out or trip over each other's         *)
(* migrations, in the end all of them serve, if the file is not from the   *)
(* future.                                                                 *)
EventuallyOpen ==
    ~Future(db.version) ~> [](\A p \in Processes : proc[p].phase = "open")
=============================================================================
