----------------------- MODULE SchemaMigrationProofs -----------------------
(***************************************************************************)
(* SchemaMigration, for every set of processes and every number of faults. *)
(*                                                                         *)
(* Three invariants.  IInv holds from any file: the columns a process      *)
(* relies on are there and stay there, because a transaction commits only  *)
(* what it built on the newest schema, under the lock.  SInv needs a file  *)
(* that has had version 1: then every migration writes, a process that is  *)
(* behind fails on its ALTER TABLE, and the version and the columns move   *)
(* together.  EInv is about a file without a version that one process      *)
(* opens alone: it ends in SInv, with the first migration.                 *)
(***************************************************************************)
EXTENDS SchemaMigration, TLAPS

Record == [phase : Phases, version : 0 .. CurrentVersion, view : Schema]

Working == {"migrating", "begun", "waiting", "altered", "ready", "versioned"}

(* What holds of a process p with record r while w holds the lock and the  *)
(* file has schema d.  The lock is held from the DDL to the COMMIT.  What  *)
(* p has migrated, or found migrated, is in the file, and what it will     *)
(* commit is the file's columns and its own.                               *)
Sound(p, r, w, d) ==
    /\ w = p => /\ r.phase \in {"altered", "ready", "versioned"}
                /\ d.steps \cup {r.version + 1} \subseteq r.view.steps
                /\ d.identity = "filled" => r.view.identity = "filled"
    /\ r.phase \in {"altered", "versioned"} => w = p
    /\ r.phase \in Working =>
          /\ 1 .. r.version \subseteq d.steps
          /\ r.version >= IdentityVersion => d.identity = "filled"
          /\ r.phase # "migrating" => r.version < CurrentVersion
    /\ r.phase = "ready" /\ w # p => r.version = 0 /\ 1 \in r.view.steps
    /\ r.phase \in {"ready", "versioned"} /\ r.version + 1 = IdentityVersion =>
          r.view.identity = "filled"
    /\ r.phase = "versioned" => r.view.version = r.version + 1

Columns(d) == /\ 1 .. d.version \subseteq d.steps
              /\ d.version >= IdentityVersion => d.identity = "filled"

IInv == /\ TypeOK
        /\ Columns(db)
        /\ \A p \in Processes : Sound(p, proc[p], writer, db)

(* d has at least the columns and the identities of c. *)
Extends(d, c) == c.steps \subseteq d.steps /\ (c.identity = "filled" => d.identity = "filled")

-----------------------------------------------------------------------------
LEMMA NextVersion == ASSUME NEW n \in Nat PROVE 1 .. (n + 1) = (1 .. n) \cup {n + 1}
OBVIOUS

LEMMA SchemaAtType ==
    ASSUME NEW n \in Nat
    PROVE  /\ SchemaAt(n) \in Schema
           /\ SchemaAt(n).version = n
           /\ SchemaAt(n).steps = 1 .. n
           /\ SchemaAt(n).identity = "filled" <=> n >= IdentityVersion
BY MigrationAssumption DEF SchemaAt, Schema

LEMMA UnversionedType ==
    /\ Unversioned \in Schema
    /\ Unversioned.version = 0 /\ Unversioned.steps = {1}
    /\ Unversioned.identity = "none"
BY DEF Unversioned, Schema

LEMMA OutsideType ==
    ASSUME NEW phase \in Phases, NEW version \in 0 .. CurrentVersion
    PROVE  /\ Outside(phase, version) \in Record
           /\ Outside(phase, version).phase = phase
           /\ Outside(phase, version).version = version
BY SchemaAtType DEF Outside, Record

(* A step of p that leaves the lock of others, and their snapshots, alone. *)
LEMMA OneMoves ==
    ASSUME IInv,
           NEW p \in Processes, NEW r \in Record,
           proc' = [proc EXCEPT ![p] = r],
           writer' \in Processes \cup {NoProcess},
           \A q \in Processes : q # p => (writer' = q <=> writer = q),
           db' \in Schema, Extends(db', db), db' # db => writer = p,
           Columns(db'),
           faults' \in Nat,
           Sound(p, r, writer', db')
    PROVE  IInv'
<1>1. TypeOK'
  BY DEF IInv, TypeOK, Record
<1>2. ASSUME NEW q \in Processes PROVE Sound(q, proc[q], writer, db)'
  <2>1. CASE q = p
    BY <2>1 DEF IInv, TypeOK, Record
  <2>2. CASE q # p
    <3>1. proc'[q] = proc[q] /\ Sound(q, proc[q], writer, db)
      BY <2>2 DEF IInv, TypeOK, Record
    <3>2. Sound(q, proc[q], writer', db')
      BY <2>2, <3>1 DEF Extends, Sound
    <3>3. QED
      BY <3>1, <3>2
  <2>3. QED
    BY <2>1, <2>2
<1>3. QED
  BY <1>1, <1>2 DEF IInv

(* A record that is in no transaction is sound if its columns are there. *)
LEMMA OutsideSound ==
    ASSUME NEW p \in Processes, NEW w \in Processes \cup {NoProcess}, w # p,
           NEW d \in Schema,
           NEW phase \in Phases \ {"begun", "waiting", "altered", "ready", "versioned"},
           NEW version \in 0 .. CurrentVersion,
           phase = "migrating" => /\ 1 .. version \subseteq d.steps
                                  /\ version >= IdentityVersion => d.identity = "filled"
    PROVE  Sound(p, Outside(phase, version), w, d)
<1>1. /\ Outside(phase, version).phase = phase
      /\ Outside(phase, version).version = version
  BY OutsideType
<1>2. QED
  BY <1>1 DEF Sound, Working, Phases

LEMMA FailIInv ==
    ASSUME IInv, NEW p \in Processes, Fail(p), faults' \in Nat
    PROVE  IInv'
<1> DEFINE r == Outside("failed", 0)
<1>1. "failed" \in Phases /\ 0 \in 0 .. CurrentVersion
  BY MigrationAssumption DEF Phases
<1>2. r \in Record
  BY <1>1, OutsideType
<1>3. /\ proc' = [proc EXCEPT ![p] = r]
      /\ writer' \in Processes \cup {NoProcess}
      /\ writer' # p
      /\ \A q \in Processes : q # p => (writer' = q <=> writer = q)
      /\ db' = db
  BY MigrationAssumption DEF Fail, Release, IInv, TypeOK
<1>4. db \in Schema /\ Columns(db) /\ Extends(db, db)
  BY DEF IInv, TypeOK, Extends
<1>5. Sound(p, r, writer', db')
  BY <1>1, <1>3, <1>4, OutsideSound
<1>6. QED
  BY <1>2, <1>3, <1>4, <1>5, OneMoves

(* A step of p that keeps the file and either keeps the lock or takes it   *)
(* while it is free.                                                       *)
LEMMA InsideIInv ==
    ASSUME IInv, NEW p \in Processes, NEW r \in Record,
           proc' = [proc EXCEPT ![p] = r], db' = db, faults' \in Nat,
           writer' = writer \/ (writer = NoProcess /\ writer' = p),
           Sound(p, r, writer', db)
    PROVE  IInv'
<1>1. /\ writer' \in Processes \cup {NoProcess}
      /\ \A q \in Processes : q # p => (writer' = q <=> writer = q)
  BY MigrationAssumption DEF IInv, TypeOK
<1>2. db \in Schema /\ Columns(db) /\ Extends(db, db)
  BY DEF IInv, TypeOK, Extends
<1>3. QED
  BY <1>1, <1>2, OneMoves

-----------------------------------------------------------------------------
LEMMA InitIInv == Init => IInv
<1> SUFFICES ASSUME Init PROVE IInv
  OBVIOUS
<1>1. \A v \in Nat : SchemaAt(v) \in Schema /\ Columns(SchemaAt(v))
  BY SchemaAtType DEF Columns
<1>2. Unversioned \in Schema /\ Columns(Unversioned)
  BY UnversionedType, MigrationAssumption DEF Columns
<1>3. db \in Schema /\ Columns(db)
  BY <1>1, <1>2, MigrationAssumption DEF Init
<1>4. "down" \in Phases /\ 0 \in 0 .. CurrentVersion
  BY MigrationAssumption DEF Phases
<1>5. Outside("down", 0) \in Record
  BY <1>4, OutsideType
<1>6. \A p \in Processes : Sound(p, Outside("down", 0), NoProcess, db)
  BY <1>3, <1>4, OutsideSound, MigrationAssumption
<1>7. QED
  BY <1>3, <1>5, <1>6 DEF Init, IInv, TypeOK, Record

(* The record of a process that goes over to another phase. *)
LEMMA BecomeRecord ==
    ASSUME TypeOK, NEW p \in Processes, NEW phase \in Phases, Become(p, phase)
    PROVE  LET r == [proc[p] EXCEPT !.phase = phase]
           IN  /\ r \in Record /\ proc' = [proc EXCEPT ![p] = r]
               /\ r.phase = phase /\ r.version = proc[p].version
               /\ r.view = proc[p].view
BY DEF TypeOK, Become, Record

LEMMA BecomeWithRecord ==
    ASSUME TypeOK, NEW p \in Processes, NEW phase \in Phases, NEW view \in Schema,
           BecomeWith(p, phase, view)
    PROVE  LET r == [proc[p] EXCEPT !.phase = phase, !.view = view]
           IN  /\ r \in Record /\ proc' = [proc EXCEPT ![p] = r]
               /\ r.phase = phase /\ r.version = proc[p].version
               /\ r.view = view
BY DEF TypeOK, BecomeWith, Record

LEMMA StartIInv ==
    ASSUME IInv, NEW p \in Processes, Start(p), UNCHANGED faults
    PROVE  IInv'
<1>1. faults' \in Nat
  BY DEF IInv, TypeOK
<1>2. CASE Fail(p)
  BY <1>1, <1>2, FailIInv
<1>3. CASE /\ ~Future(db.version)
           /\ proc' = [proc EXCEPT ![p] = Outside("migrating", db.version)]
           /\ UNCHANGED <<db, writer>>
  <2>1. db.version \in 0 .. CurrentVersion /\ "migrating" \in Phases
    BY <1>3, MigrationAssumption DEF Future, IInv, TypeOK, Schema, Phases
  <2>2. writer # p /\ writer \in Processes \cup {NoProcess} /\ db \in Schema
    BY DEF Start, IInv, Sound, TypeOK
  <2>3. Sound(p, Outside("migrating", db.version), writer, db)
    BY <2>1, <2>2, OutsideSound DEF IInv, Columns
  <2>4. Outside("migrating", db.version) \in Record
    BY <2>1, OutsideType
  <2>5. QED
    BY <1>1, <1>3, <2>3, <2>4, InsideIInv
<1>4. QED
  BY <1>2, <1>3 DEF Start

LEMMA BecomeIInv ==
    ASSUME IInv, NEW p \in Processes, UNCHANGED faults,
           BeginMigration(p) \/ Finish(p) \/ Restart(p)
    PROVE  IInv'
<1>1. PICK phase \in {"begun", "open", "down"} :
         /\ Become(p, phase) /\ UNCHANGED <<db, writer>>
         /\ phase = "begun" => proc[p].phase = "migrating" /\ ~Migrated(proc[p].version)
         /\ proc[p].phase \in {"migrating", "failed"}
  BY DEF BeginMigration, Finish, Restart
<1> DEFINE r == [proc[p] EXCEPT !.phase = phase]
<1>2. /\ r \in Record /\ proc' = [proc EXCEPT ![p] = r]
      /\ r.phase = phase /\ r.version = proc[p].version /\ r.view = proc[p].view
  <2>1. phase \in Phases
    BY DEF Phases
  <2>2. TypeOK /\ Become(p, phase)
    BY <1>1 DEF IInv
  <2>3. QED
    BY <2>1, <2>2, BecomeRecord
<1>3. Sound(p, proc[p], writer, db) /\ proc[p].version \in 0 .. CurrentVersion
  BY DEF IInv, TypeOK
<1> HIDE DEF r
<1>4. Sound(p, r, writer, db)
  BY <1>1, <1>2, <1>3, MigrationAssumption DEF Sound, Migrated, Working
<1>5. QED
  BY <1>1, <1>2, <1>4, InsideIInv DEF IInv, TypeOK

LEMMA PrepareIInv ==
    ASSUME IInv, NEW p \in Processes, PrepareDDL(p), UNCHANGED faults
    PROVE  IInv'
<1>1. /\ faults' \in Nat /\ TypeOK /\ db \in Schema
      /\ proc[p].version \in 0 .. CurrentVersion
      /\ Sound(p, proc[p], writer, db) /\ proc[p].phase = "begun"
  BY DEF IInv, TypeOK, PrepareDDL
<1>2. CASE Fail(p)
  BY <1>1, <1>2, FailIInv
<1>3. CASE Become(p, "waiting") /\ UNCHANGED <<db, writer>>
  <2> DEFINE r == [proc[p] EXCEPT !.phase = "waiting"]
  <2>1. /\ r \in Record /\ proc' = [proc EXCEPT ![p] = r]
        /\ r.phase = "waiting" /\ r.version = proc[p].version /\ r.view = proc[p].view
    BY <1>1, <1>3, BecomeRecord DEF Phases
  <2> HIDE DEF r
  <2>2. Sound(p, r, writer, db)
    BY <1>1, <2>1 DEF Sound, Working
  <2>3. QED
    BY <1>1, <1>3, <2>1, <2>2, InsideIInv
<1>4. CASE /\ Target(p) = 1 /\ 1 \in db.steps
           /\ BecomeWith(p, AfterDDL(1), db)
           /\ UNCHANGED <<db, writer>>
  <2> DEFINE r == [proc[p] EXCEPT !.phase = "ready", !.view = db]
  <2>1. AfterDDL(1) = "ready" /\ proc[p].version = 0
    BY <1>1, <1>4, MigrationAssumption DEF AfterDDL, Target
  <2>2. /\ r \in Record /\ proc' = [proc EXCEPT ![p] = r]
        /\ r.phase = "ready" /\ r.version = proc[p].version /\ r.view = db
    <3>1. "ready" \in Phases
      BY DEF Phases
    <3>2. BecomeWith(p, "ready", db)
      BY <1>4, <2>1
    <3>3. TypeOK /\ db \in Schema
      BY <1>1
    <3>4. QED
      BY <3>1, <3>2, <3>3 DEF BecomeWith, TypeOK, Record
  <2> HIDE DEF r
  <2>3. Sound(p, r, writer, db)
    BY <1>1, <1>4, <2>1, <2>2, MigrationAssumption DEF Sound, Working
  <2>4. QED
    BY <1>1, <1>4, <2>2, <2>3, InsideIInv
<1>5. QED
  BY <1>2, <1>3, <1>4 DEF PrepareDDL

LEMMA RunIInv ==
    ASSUME IInv, NEW p \in Processes, RunDDL(p), UNCHANGED faults
    PROVE  IInv'
<1>1. /\ faults' \in Nat /\ TypeOK /\ db \in Schema
      /\ proc[p].version \in 0 .. CurrentVersion
      /\ Sound(p, proc[p], writer, db) /\ proc[p].phase = "waiting"
      /\ writer = NoProcess
  BY DEF IInv, TypeOK, RunDDL
<1> DEFINE view == [db EXCEPT !.steps = @ \cup {Target(p)}]
           phase == AfterDDL(Target(p))
           r == [proc[p] EXCEPT !.phase = phase, !.view = view]
<1>2. CASE Fail(p)
  BY <1>1, <1>2, FailIInv
<1>3. CASE writer' = p /\ BecomeWith(p, phase, view) /\ UNCHANGED db
  <2>1. /\ view \in Schema /\ view.steps = db.steps \cup {proc[p].version + 1}
        /\ view.identity = db.identity
    BY <1>1 DEF Target, Schema
  <2>2. /\ phase \in {"altered", "ready"}
        /\ proc[p].version + 1 = IdentityVersion => phase = "altered"
    BY DEF AfterDDL, Target
  <2> HIDE DEF view, phase
  <2>3. /\ r \in Record /\ proc' = [proc EXCEPT ![p] = r]
        /\ r.phase = phase /\ r.version = proc[p].version /\ r.view = view
    <3>1. phase \in Phases
      BY <2>2 DEF Phases
    <3>2. TypeOK /\ view \in Schema /\ BecomeWith(p, phase, view)
      BY <1>1, <1>3, <2>1
    <3>3. QED
      BY <3>1, <3>2 DEF BecomeWith, TypeOK, Record
  <2> HIDE DEF r
  <2>4. Sound(p, r, p, db)
    BY <1>1, <2>1, <2>2, <2>3 DEF Sound, Working
  <2>5. QED
    BY <1>1, <1>3, <2>3, <2>4, InsideIInv
<1>4. QED
  BY <1>2, <1>3 DEF RunDDL

LEMMA PopulateIInv ==
    ASSUME IInv, NEW p \in Processes, PopulateIdentity(p), UNCHANGED faults
    PROVE  IInv'
<1>1. /\ faults' \in Nat /\ TypeOK /\ proc[p] \in Record /\ proc[p].view \in Schema
      /\ Sound(p, proc[p], writer, db) /\ proc[p].phase = "altered"
  BY DEF IInv, TypeOK, PopulateIdentity, Record
<1> DEFINE view == [proc[p].view EXCEPT !.identity = "filled"]
           r == [proc[p] EXCEPT !.phase = "ready", !.view = view]
<1>2. view \in Schema /\ view.steps = proc[p].view.steps /\ view.identity = "filled"
  BY <1>1 DEF Schema
<1>3. BecomeWith(p, "ready", view) /\ UNCHANGED <<db, writer>>
  BY DEF PopulateIdentity
<1> HIDE DEF view
<1>4. /\ r \in Record /\ proc' = [proc EXCEPT ![p] = r]
      /\ r.phase = "ready" /\ r.version = proc[p].version /\ r.view = view
  BY <1>1, <1>2, <1>3, BecomeWithRecord DEF Phases
<1> HIDE DEF r
<1>5. Sound(p, r, writer, db)
  BY <1>1, <1>2, <1>4 DEF Sound, Working
<1>6. QED
  BY <1>1, <1>3, <1>4, <1>5, InsideIInv

LEMMA SetVersionIInv ==
    ASSUME IInv, NEW p \in Processes, SetVersion(p), UNCHANGED faults
    PROVE  IInv'
<1>1. /\ faults' \in Nat /\ TypeOK /\ proc[p] \in Record /\ proc[p].view \in Schema
      /\ proc[p].version \in 0 .. CurrentVersion
      /\ Sound(p, proc[p], writer, db) /\ proc[p].phase = "ready"
  BY DEF IInv, TypeOK, SetVersion, Record
<1> DEFINE view == [proc[p].view EXCEPT !.version = Target(p)]
           r == [proc[p] EXCEPT !.phase = "versioned", !.view = view]
<1>2. CASE Fail(p)
  BY <1>1, <1>2, FailIInv
<1>3. CASE /\ writer = p \/ (writer = NoProcess /\ proc[p].view = db)
           /\ writer' = p /\ BecomeWith(p, "versioned", view) /\ UNCHANGED db
  <2>1. /\ view \in Schema /\ view.steps = proc[p].view.steps
        /\ view.identity = proc[p].view.identity /\ view.version = proc[p].version + 1
    BY <1>1 DEF Schema, Target
  <2> HIDE DEF view
  <2>2. /\ r \in Record /\ proc' = [proc EXCEPT ![p] = r]
        /\ r.phase = "versioned" /\ r.version = proc[p].version /\ r.view = view
    BY <1>1, <1>3, <2>1, BecomeWithRecord DEF Phases
  <2> HIDE DEF r
  <2>3. db.steps \cup {proc[p].version + 1} \subseteq proc[p].view.steps
    BY <1>1, <1>3, MigrationAssumption DEF Sound
  <2>4. db.identity = "filled" => proc[p].view.identity = "filled"
    BY <1>1, <1>3 DEF Sound
  <2>5. Sound(p, r, p, db)
    BY <1>1, <2>1, <2>2, <2>3, <2>4 DEF Sound, Working
  <2>6. QED
    BY <1>1, <1>3, <2>2, <2>5, InsideIInv
<1>4. QED
  BY <1>2, <1>3 DEF SetVersion

LEMMA CommitIInv ==
    ASSUME IInv, NEW p \in Processes, CommitMigration(p), UNCHANGED faults
    PROVE  IInv'
<1>1. /\ faults' \in Nat /\ proc[p] \in Record /\ proc[p].view \in Schema
      /\ proc[p].version \in 0 .. CurrentVersion
      /\ Sound(p, proc[p], writer, db) /\ proc[p].phase = "versioned"
      /\ db \in Schema
  BY DEF IInv, TypeOK, CommitMigration, Record
<1> DEFINE n == proc[p].version + 1
           r == Outside("migrating", n)
<1>2. /\ db' = proc[p].view /\ proc' = [proc EXCEPT ![p] = r]
      /\ writer = p /\ writer' = NoProcess
  BY <1>1 DEF CommitMigration, Release, Target, Sound
<1>3. n \in Nat /\ n \in 0 .. CurrentVersion /\ 1 .. n = (1 .. proc[p].version) \cup {n}
  BY <1>1, NextVersion, MigrationAssumption DEF Sound, Working
<1>4. /\ db'.version = n
      /\ Extends(db', db)
      /\ 1 .. n \subseteq db'.steps
      /\ n >= IdentityVersion => db'.identity = "filled"
  BY <1>1, <1>2, <1>3, MigrationAssumption DEF Sound, Working, Extends
<1>5. Columns(db')
  BY <1>4 DEF Columns
<1>6. "migrating" \in Phases /\ NoProcess # p
  BY MigrationAssumption DEF Phases
<1>7. r \in Record
  BY <1>3, <1>6, OutsideType
<1>8. Sound(p, r, NoProcess, db')
  BY <1>1, <1>2, <1>3, <1>4, <1>6, OutsideSound
<1>9. \A q \in Processes : q # p => (writer' = q <=> writer = q)
  BY <1>2, MigrationAssumption
<1>10. QED
  BY <1>1, <1>2, <1>4, <1>5, <1>7, <1>8, <1>9, OneMoves

LEMMA NextIInv == IInv /\ [Next]_vars => IInv'
<1> SUFFICES ASSUME IInv, [Next]_vars PROVE IInv'
  OBVIOUS
<1>1. ASSUME NEW p \in Processes, Step(p) PROVE IInv'
  <2>1. Start(p) => IInv'
    BY <1>1, StartIInv DEF Step
  <2>2. BeginMigration(p) \/ Finish(p) \/ Restart(p) => IInv'
    BY <1>1, BecomeIInv DEF Step
  <2>3. PrepareDDL(p) => IInv'
    BY <1>1, PrepareIInv DEF Step
  <2>4. RunDDL(p) => IInv'
    BY <1>1, RunIInv DEF Step
  <2>5. TimeOut(p) => IInv'
    BY <1>1, FailIInv DEF Step, TimeOut, IInv, TypeOK
  <2>6. PopulateIdentity(p) => IInv'
    BY <1>1, PopulateIInv DEF Step
  <2>7. SetVersion(p) => IInv'
    BY <1>1, SetVersionIInv DEF Step
  <2>8. CommitMigration(p) => IInv'
    BY <1>1, CommitIInv DEF Step
  <2>9. QED
    BY <1>1, <2>1, <2>2, <2>3, <2>4, <2>5, <2>6, <2>7, <2>8 DEF Step
<1>2. ASSUME NEW p \in Processes, Fault(p) PROVE IInv'
  <2>1. Fail(p) /\ faults' \in Nat
    BY <1>2 DEF Fault, IInv, TypeOK
  <2>2. QED
    BY <2>1, FailIInv
<1>3. CASE UNCHANGED vars
  BY <1>3 DEF vars, IInv, TypeOK
<1>4. QED
  BY <1>1, <1>2, <1>3 DEF Next

(* The inductive invariant, from a file of any version. *)
THEOREM Invariant == Spec => []IInv
BY InitIInv, NextIInv, PTL DEF Spec

(* Open's data keep their types; the version of the migration loop never   *)
(* passes CurrentVersion.                                                  *)
THEOREM TypeCorrect == Spec => []TypeOK
<1>1. IInv => TypeOK
  BY DEF IInv
<1>2. QED
  BY <1>1, Invariant, PTL

(* However many processes migrate a file at once, of any version, and      *)
(* whichever of them fail, no column its version promises is missing and   *)
(* no row lacks its identity.                                              *)
THEOREM NoColumnMissing == Spec => []ColumnsPresent
<1>1. IInv => ColumnsPresent
  BY DEF IInv, Columns, ColumnsPresent
<1>2. QED
  BY <1>1, Invariant, PTL

-----------------------------------------------------------------------------
(* A file that has had version 1.                                          *)
(*                                                                         *)
(* Every process is at most as far as the file; one that holds the lock is *)
(* exactly as far, and what it will commit is the next version.            *)
Level(p, r, w, d) ==
    /\ r.phase \in Working =>
          r.version \in 1 .. d.version /\ d.version <= CurrentVersion
    /\ r.phase \in {"altered", "ready"} =>
          /\ w = p
          /\ r.version = d.version
          /\ r.view.steps = 1 .. (r.version + 1)
    /\ r.phase = "altered" =>
          r.version + 1 = IdentityVersion /\ r.view.identity = "none"
    /\ r.phase = "ready" =>
          (r.view.identity = "filled" <=> r.version + 1 >= IdentityVersion)
    /\ r.phase = "versioned" =>
          r.version = d.version /\ r.view = SchemaAt(r.version + 1)
    /\ r.phase = "open" => d.version = CurrentVersion

SInv == /\ db = SchemaAt(db.version) /\ db.version >= 1
        /\ \A p \in Processes : Level(p, proc[p], writer, db)

(* A schema is what its three columns say. *)
LEMMA SchemaEqual ==
    ASSUME NEW d \in Schema, NEW n \in Nat, d.version = n, d.steps = 1 .. n,
           d.identity = "filled" <=> n >= IdentityVersion
    PROVE  d = SchemaAt(n)
<1>1. d = [version |-> d.version, steps |-> d.steps, identity |-> d.identity]
  BY DEF Schema
<1>2. d.identity = IF n >= IdentityVersion THEN "filled" ELSE "none"
  BY DEF Schema
<1>3. QED
  BY <1>1, <1>2 DEF SchemaAt

(* A step of p that keeps the file as it is, or commits the next version   *)
(* under the lock: the others keep their level.                            *)
LEMMA OneLevels ==
    ASSUME IInv, SInv,
           NEW p \in Processes, NEW r \in Record,
           proc' = [proc EXCEPT ![p] = r],
           \A q \in Processes : q # p => (writer' = q <=> writer = q),
           \/ db' = db
           \/ /\ writer = p /\ db.version < CurrentVersion
              /\ db' = SchemaAt(db.version + 1),
           Level(p, r, writer', db')
    PROVE  SInv'
<1>1. db.version \in Nat /\ db.version >= 1 /\ CurrentVersion \in Nat
  BY MigrationAssumption DEF IInv, TypeOK, Schema, SInv
<1>2. /\ db' = SchemaAt(db'.version) /\ db'.version >= 1
      /\ db' = db \/ (writer = p /\ db.version < CurrentVersion
                       /\ db'.version = db.version + 1)
  BY <1>1, SchemaAtType DEF SInv
<1>3. ASSUME NEW q \in Processes PROVE Level(q, proc[q], writer, db)'
  <2>1. CASE q = p
    BY <2>1 DEF IInv, TypeOK, Record
  <2>2. CASE q # p
    <3>1. /\ proc'[q] = proc[q] /\ proc[q].version \in 0 .. CurrentVersion
          /\ Level(q, proc[q], writer, db) /\ Sound(q, proc[q], writer, db)
      BY <2>2 DEF IInv, TypeOK, SInv
    <3>2. CASE db' = db
      BY <2>2, <3>1, <3>2 DEF Level
    <3>3. CASE /\ writer = p /\ db.version < CurrentVersion
               /\ db'.version = db.version + 1
      <4>1. proc[q].phase \notin {"altered", "ready", "versioned", "open"}
        BY <1>1, <2>2, <3>1, <3>3 DEF Level, Sound
      <4>2. proc[q].phase \in Working => proc[q].version \in 1 .. db'.version
                                         /\ db'.version <= CurrentVersion
        BY <1>1, <3>1, <3>3 DEF Level
      <4>3. QED
        BY <3>1, <4>1, <4>2 DEF Level
    <3>4. QED
      BY <1>2, <3>2, <3>3
  <2>3. QED
    BY <2>1, <2>2
<1>4. QED
  BY <1>2, <1>3 DEF SInv

LEMMA FailSInv ==
    ASSUME IInv, SInv, NEW p \in Processes, Fail(p)
    PROVE  SInv'
<1> DEFINE r == Outside("failed", 0)
<1>1. "failed" \in Phases /\ 0 \in 0 .. CurrentVersion
  BY MigrationAssumption DEF Phases
<1>2. r \in Record /\ r.phase = "failed"
  BY <1>1, OutsideType
<1>3. /\ proc' = [proc EXCEPT ![p] = r] /\ db' = db
      /\ \A q \in Processes : q # p => (writer' = q <=> writer = q)
  BY MigrationAssumption DEF Fail, Release, IInv, TypeOK
<1> HIDE DEF r
<1>4. Level(p, r, writer', db')
  BY <1>2 DEF Level, Working
<1>5. QED
  BY <1>2, <1>3, <1>4, OneLevels

LEMMA InitSInv == ASSUME 0 \notin InitialVersions PROVE Init => SInv
<1> SUFFICES ASSUME Init PROVE SInv
  OBVIOUS
<1>1. PICK v \in InitialVersions : db = SchemaAt(v)
  BY DEF Init
<1>2. v \in Nat /\ v >= 1
  BY MigrationAssumption
<1>3. db.version = v
  BY <1>1, <1>2, SchemaAtType
<1>4. "down" \in Phases /\ 0 \in 0 .. CurrentVersion
  BY MigrationAssumption DEF Phases
<1>5. Outside("down", 0).phase = "down"
  BY <1>4, OutsideType
<1>6. \A p \in Processes : proc[p] = Outside("down", 0)
  BY DEF Init
<1>7. \A p \in Processes : Level(p, Outside("down", 0), writer, db)
  BY <1>5 DEF Level, Working
<1>8. QED
  BY <1>1, <1>2, <1>3, <1>6, <1>7 DEF SInv

LEMMA StartSInv ==
    ASSUME IInv, SInv, NEW p \in Processes, Start(p)
    PROVE  SInv'
<1>1. CASE Fail(p)
  BY <1>1, FailSInv
<1>2. CASE /\ ~Future(db.version)
           /\ proc' = [proc EXCEPT ![p] = Outside("migrating", db.version)]
           /\ UNCHANGED <<db, writer>>
  <2> DEFINE r == Outside("migrating", db.version)
  <2>1. db.version \in 1 .. CurrentVersion /\ "migrating" \in Phases
    BY <1>2, MigrationAssumption DEF Future, IInv, TypeOK, Schema, Phases, SInv
  <2>2. db.version \in 0 .. CurrentVersion
    BY <2>1, MigrationAssumption
  <2>3. r \in Record /\ r.phase = "migrating" /\ r.version = db.version
    BY <2>1, <2>2, OutsideType
  <2> HIDE DEF r
  <2>4. Level(p, r, writer, db)
    BY <2>1, <2>3, MigrationAssumption DEF Level
  <2>5. proc' = [proc EXCEPT ![p] = r]
    BY <1>2 DEF r
  <2>6. QED
    BY <1>2, <2>3, <2>4, <2>5, OneLevels
<1>3. QED
  BY <1>1, <1>2 DEF Start

LEMMA BecomeSInv ==
    ASSUME IInv, SInv, NEW p \in Processes,
           BeginMigration(p) \/ Finish(p) \/ Restart(p)
    PROVE  SInv'
<1>1. PICK phase \in {"begun", "open", "down"} :
         /\ Become(p, phase) /\ UNCHANGED <<db, writer>>
         /\ phase \in {"begun", "open"} => proc[p].phase = "migrating"
         /\ phase = "open" => Migrated(proc[p].version)
  BY DEF BeginMigration, Finish, Restart
<1> DEFINE r == [proc[p] EXCEPT !.phase = phase]
<1>2. /\ r \in Record /\ proc' = [proc EXCEPT ![p] = r]
      /\ r.phase = phase /\ r.version = proc[p].version
  BY <1>1 DEF Become, IInv, TypeOK, Record, Phases
<1>3. /\ Level(p, proc[p], writer, db) /\ proc[p].version \in 0 .. CurrentVersion
      /\ db.version \in Nat
  BY DEF SInv, IInv, TypeOK, Schema
<1> HIDE DEF r
<1>4. Level(p, r, writer, db)
  BY <1>1, <1>2, <1>3, MigrationAssumption DEF Level, Migrated, Working
<1>5. QED
  BY <1>1, <1>2, <1>4, OneLevels

LEMMA PrepareSInv ==
    ASSUME IInv, SInv, NEW p \in Processes, PrepareDDL(p)
    PROVE  SInv'
<1>1. /\ Level(p, proc[p], writer, db) /\ proc[p].version \in 0 .. CurrentVersion
      /\ proc[p].phase = "begun"
  BY DEF SInv, IInv, TypeOK, PrepareDDL
<1>2. CASE Fail(p)
  BY <1>2, FailSInv
<1>3. CASE Become(p, "waiting") /\ UNCHANGED <<db, writer>>
  <2> DEFINE r == [proc[p] EXCEPT !.phase = "waiting"]
  <2>1. /\ r \in Record /\ proc' = [proc EXCEPT ![p] = r]
        /\ r.phase = "waiting" /\ r.version = proc[p].version
    BY <1>3 DEF Become, IInv, TypeOK, Record, Phases
  <2> HIDE DEF r
  <2>2. Level(p, r, writer, db)
    BY <1>1, <2>1 DEF Level, Working
  <2>3. QED
    BY <1>3, <2>1, <2>2, OneLevels
<1>4. Target(p) # 1
  BY <1>1 DEF Level, Working, Target
<1>5. QED
  BY <1>2, <1>3, <1>4 DEF PrepareDDL

LEMMA RunSInv ==
    ASSUME IInv, SInv, NEW p \in Processes, RunDDL(p)
    PROVE  SInv'
<1> DEFINE n == proc[p].version
           view == [db EXCEPT !.steps = @ \cup {Target(p)}]
           phase == AfterDDL(Target(p))
           r == [proc[p] EXCEPT !.phase = phase, !.view = view]
<1>1. /\ Level(p, proc[p], writer, db) /\ n \in 0 .. CurrentVersion
      /\ db \in Schema /\ db = SchemaAt(db.version) /\ db.version \in Nat
      /\ proc[p].phase = "waiting" /\ writer = NoProcess
  BY DEF SInv, IInv, TypeOK, RunDDL, Schema
<1>2. CASE Fail(p)
  BY <1>2, FailSInv
<1>3. CASE /\ ~Duplicates(Target(p), db.steps)
           /\ writer' = p /\ BecomeWith(p, phase, view) /\ UNCHANGED db
  <2>1. n \in 1 .. db.version /\ db.version <= CurrentVersion
    BY <1>1 DEF Level, Working
  <2>2. /\ db.steps = 1 .. db.version
        /\ db.identity = "filled" <=> db.version >= IdentityVersion
    BY <1>1, SchemaAtType
  <2>3. n = db.version
    BY <1>1, <1>3, <2>1, <2>2 DEF Duplicates, Target
  <2>4. /\ view \in Schema /\ view.steps = db.steps \cup {n + 1}
        /\ view.identity = db.identity
    BY <1>1, MigrationAssumption DEF Target, Schema
  <2>5. view.steps = 1 .. (n + 1)
    BY <1>1, <2>2, <2>3, <2>4
  <2>6. /\ phase \in {"altered", "ready"}
        /\ phase = "altered" <=> n + 1 = IdentityVersion
    BY DEF AfterDDL, Target
  <2>7. view.identity = "filled" <=> n >= IdentityVersion
    BY <2>2, <2>3, <2>4
  <2>8. n \in Nat /\ view.identity \in {"none", "filled"}
    BY <1>1, <2>4, MigrationAssumption DEF Schema
  <2> HIDE DEF view, phase
  <2>9. phase \in Phases /\ BecomeWith(p, phase, view)
    BY <1>3, <2>6 DEF Phases
  <2>10. /\ r \in Record /\ proc' = [proc EXCEPT ![p] = r]
         /\ r.phase = phase /\ r.version = n /\ r.view = view
    BY <2>4, <2>9 DEF BecomeWith, IInv, TypeOK, Record
  <2> HIDE DEF r, n
  <2>11. Level(p, r, p, db)
    BY <2>1, <2>3, <2>5, <2>6, <2>7, <2>8, <2>10, MigrationAssumption DEF Level
  <2>12. QED
    BY <1>1, <1>3, <2>10, <2>11, MigrationAssumption, OneLevels
<1>4. QED
  BY <1>2, <1>3 DEF RunDDL

LEMMA PopulateSInv ==
    ASSUME IInv, SInv, NEW p \in Processes, PopulateIdentity(p)
    PROVE  SInv'
<1> DEFINE view == [proc[p].view EXCEPT !.identity = "filled"]
           r == [proc[p] EXCEPT !.phase = "ready", !.view = view]
<1>1. /\ Level(p, proc[p], writer, db) /\ proc[p].view \in Schema
      /\ proc[p].version \in Nat
      /\ proc[p].phase = "altered"
  BY DEF SInv, IInv, TypeOK, PopulateIdentity
<1>2. view \in Schema /\ view.steps = proc[p].view.steps /\ view.identity = "filled"
  BY <1>1 DEF Schema
<1>3. BecomeWith(p, "ready", view) /\ UNCHANGED <<db, writer>>
  BY DEF PopulateIdentity
<1> HIDE DEF view
<1>4. /\ r \in Record /\ proc' = [proc EXCEPT ![p] = r]
      /\ r.phase = "ready" /\ r.version = proc[p].version /\ r.view = view
  BY <1>2, <1>3 DEF BecomeWith, IInv, TypeOK, Record, Phases
<1> HIDE DEF r
<1>5. Level(p, r, writer, db)
  BY <1>1, <1>2, <1>4, MigrationAssumption DEF Level, Working
<1>6. QED
  BY <1>3, <1>4, <1>5, OneLevels

LEMMA SetVersionSInv ==
    ASSUME IInv, SInv, NEW p \in Processes, SetVersion(p)
    PROVE  SInv'
<1> DEFINE n == proc[p].version
           view == [proc[p].view EXCEPT !.version = Target(p)]
           r == [proc[p] EXCEPT !.phase = "versioned", !.view = view]
<1>1. /\ Level(p, proc[p], writer, db) /\ proc[p].view \in Schema
      /\ n \in Nat /\ proc[p].phase = "ready"
  BY DEF SInv, IInv, TypeOK, SetVersion
<1>2. writer = p /\ writer' = p /\ BecomeWith(p, "versioned", view) /\ UNCHANGED db
  BY <1>1 DEF SetVersion, Level
<1>3. /\ view \in Schema /\ view.steps = proc[p].view.steps
      /\ view.identity = proc[p].view.identity /\ view.version = n + 1
  BY <1>1 DEF Schema, Target
<1>4. /\ view.steps = 1 .. (n + 1)
      /\ view.identity = "filled" <=> n + 1 >= IdentityVersion
  BY <1>1, <1>3 DEF Level
<1> HIDE DEF view
<1>5. view = SchemaAt(n + 1)
  BY <1>1, <1>3, <1>4, SchemaEqual
<1>6. /\ r \in Record /\ proc' = [proc EXCEPT ![p] = r]
      /\ r.phase = "versioned" /\ r.version = n /\ r.view = view
  BY <1>2, <1>3 DEF BecomeWith, IInv, TypeOK, Record, Phases
<1> HIDE DEF r
<1>7. Level(p, r, p, db)
  BY <1>1, <1>5, <1>6 DEF Level, Working
<1>8. QED
  BY <1>2, <1>6, <1>7, OneLevels

LEMMA CommitSInv ==
    ASSUME IInv, SInv, NEW p \in Processes, CommitMigration(p)
    PROVE  SInv' /\ db'.version = db.version + 1
<1> DEFINE n == proc[p].version + 1
           r == Outside("migrating", n)
<1>1. /\ Level(p, proc[p], writer, db) /\ Sound(p, proc[p], writer, db)
      /\ proc[p].version \in 0 .. CurrentVersion /\ db.version \in Nat
      /\ proc[p].phase = "versioned"
  BY DEF SInv, IInv, TypeOK, CommitMigration, Schema
<1>2. /\ db' = proc[p].view /\ proc' = [proc EXCEPT ![p] = r]
      /\ writer = p /\ writer' = NoProcess
  BY <1>1 DEF CommitMigration, Release, Target, Sound
<1>3. /\ proc[p].version = db.version /\ db.version >= 1
      /\ db.version < CurrentVersion /\ db' = SchemaAt(db.version + 1)
  BY <1>1, <1>2 DEF Level, Sound, Working, SInv
<1>4. db'.version = db.version + 1
  BY <1>1, <1>3, SchemaAtType
<1>5. n = db'.version /\ n \in 0 .. CurrentVersion /\ n \in 1 .. db'.version
      /\ db'.version <= CurrentVersion
  BY <1>1, <1>3, <1>4, MigrationAssumption
<1>6. "migrating" \in Phases
  BY DEF Phases
<1>7. r \in Record /\ r.phase = "migrating" /\ r.version = n
  BY <1>5, <1>6, OutsideType
<1> HIDE DEF r, n
<1>8. Level(p, r, writer', db')
  BY <1>5, <1>7 DEF Level
<1>9. \A q \in Processes : q # p => (writer' = q <=> writer = q)
  BY <1>2, MigrationAssumption
<1>10. QED
  BY <1>2, <1>3, <1>4, <1>7, <1>8, <1>9, OneLevels

LEMMA NextSInv ==
    IInv /\ SInv /\ [Next]_vars =>
       SInv' /\ db'.version \in {db.version, db.version + 1}
<1> SUFFICES ASSUME IInv, SInv, [Next]_vars
             PROVE  SInv' /\ db'.version \in {db.version, db.version + 1}
  OBVIOUS
<1>1. ASSUME NEW p \in Processes, Fail(p)
      PROVE  SInv' /\ db' = db
  BY <1>1, FailSInv DEF Fail
<1>2. ASSUME NEW p \in Processes, Step(p)
      PROVE  SInv' /\ db'.version \in {db.version, db.version + 1}
  <2>1. Start(p) => SInv' /\ db' = db
    BY StartSInv DEF Start, Fail
  <2>2. BeginMigration(p) \/ Finish(p) \/ Restart(p) => SInv' /\ db' = db
    BY BecomeSInv DEF BeginMigration, Finish, Restart
  <2>3. PrepareDDL(p) => SInv' /\ db' = db
    BY PrepareSInv DEF PrepareDDL, Fail
  <2>4. RunDDL(p) => SInv' /\ db' = db
    BY RunSInv DEF RunDDL, Fail
  <2>5. TimeOut(p) => SInv' /\ db' = db
    BY <1>1 DEF TimeOut
  <2>6. PopulateIdentity(p) => SInv' /\ db' = db
    BY PopulateSInv DEF PopulateIdentity
  <2>7. SetVersion(p) => SInv' /\ db' = db
    BY SetVersionSInv DEF SetVersion, Fail
  <2>8. CommitMigration(p) => SInv' /\ db'.version = db.version + 1
    BY CommitSInv
  <2>9. QED
    BY <1>2, <2>1, <2>2, <2>3, <2>4, <2>5, <2>6, <2>7, <2>8 DEF Step
<1>3. ASSUME NEW p \in Processes, Fault(p) PROVE SInv' /\ db' = db
  BY <1>1, <1>3 DEF Fault
<1>4. CASE UNCHANGED vars
  BY <1>4 DEF vars, SInv, Level
<1>5. QED
  BY <1>2, <1>3, <1>4 DEF Next

(* The inductive invariant from a file that has had version 1. *)
THEOREM LevelInvariant ==
    ASSUME 0 \notin InitialVersions
    PROVE  Spec => [](IInv /\ SInv)
BY InitIInv, NextIInv, InitSInv, NextSInv, PTL DEF Spec

(* Schema and version never part, whoever crashes or races. *)
THEOREM NamesSchema ==
    ASSUME 0 \notin InitialVersions
    PROVE  Spec => []VersionNamesSchema
<1>1. SInv => VersionNamesSchema
  BY DEF SInv, VersionNamesSchema
<1>2. QED
  BY <1>1, LevelInvariant, PTL

(* The README's sequential migration, for such a file.  From version 0 it  *)
(* does not hold (MigrateRace.cfg).                                        *)
THEOREM Sequential ==
    ASSUME 0 \notin InitialVersions
    PROVE  Spec => MigratesSequentially
<1>1. IInv /\ SInv /\ [Next]_vars =>
         [db'.version \in {db.version, db.version + 1}]_vars
  BY NextSInv
<1>2. QED
  BY <1>1, LevelInvariant, PTL DEF Spec, MigratesSequentially

(* Whoever serves, serves the current schema. *)
THEOREM ServesCurrent ==
    ASSUME 0 \notin InitialVersions
    PROVE  Spec => []ReadyWhileOpen
<1>1. SInv => ReadyWhileOpen
  BY DEF SInv, Level, ReadyWhileOpen
<1>2. QED
  BY <1>1, LevelInvariant, PTL

-----------------------------------------------------------------------------
(* A file without a version, and one process that opens it alone.          *)
(*                                                                         *)
(* What holds of the record r of that process while the file, with schema  *)
(* d, has no version: it makes the table, or finds it, and commits         *)
(* version 1.                                                              *)
Making(r, d) ==
    /\ r.phase \notin {"altered", "open"}
    /\ r.phase \in Working => r.version = 0
    /\ r.phase = "waiting" => d.steps = {}
    /\ r.phase = "ready" => r.view.steps = {1} /\ r.view.identity = "none"
    /\ r.phase = "versioned" => r.view = SchemaAt(1)

EInv(first) ==
    /\ db \in {SchemaAt(0), Unversioned}
    /\ writer \in {NoProcess, first}
    /\ \A p \in Processes : p # first => proc[p].phase = "down"
    /\ Making(proc[first], db)

LEMMA Unmigrated ==
    ASSUME NEW d \in {SchemaAt(0), Unversioned}
    PROVE  /\ d.version = 0 /\ d.identity = "none"
           /\ d.steps = {} \/ d.steps = {1}
<1>1. 0 \in Nat /\ ~(0 >= IdentityVersion) /\ 1 .. 0 = {}
  BY MigrationAssumption
<1>2. SchemaAt(0).identity \in {"none", "filled"}
  BY DEF SchemaAt
<1>3. QED
  BY <1>1, <1>2, SchemaAtType, UnversionedType

(* A step of the first process that commits nothing. *)
LEMMA FirstMoves ==
    ASSUME IInv, NEW first \in Processes, EInv(first), NEW r \in Record,
           proc' = [proc EXCEPT ![first] = r], db' = db,
           writer' \in {NoProcess, first}, Making(r, db)
    PROVE  EInv(first)'
<1>1. /\ proc'[first] = r
      /\ \A p \in Processes : p # first => proc'[p] = proc[p]
  BY DEF IInv, TypeOK
<1>2. QED
  BY <1>1 DEF EInv

LEMMA FailEInv ==
    ASSUME IInv, NEW first \in Processes, EInv(first), Fail(first)
    PROVE  EInv(first)' /\ db' = db
<1> DEFINE r == Outside("failed", 0)
<1>1. "failed" \in Phases /\ 0 \in 0 .. CurrentVersion
  BY MigrationAssumption DEF Phases
<1>2. r \in Record /\ r.phase = "failed"
  BY <1>1, OutsideType
<1>3. /\ proc' = [proc EXCEPT ![first] = r] /\ db' = db
      /\ writer' \in {NoProcess, first}
  BY DEF Fail, Release, EInv
<1> HIDE DEF r
<1>4. Making(r, db)
  BY <1>2 DEF Making, Working
<1>5. QED
  BY <1>2, <1>3, <1>4, FirstMoves

LEMMA InitEInv ==
    ASSUME NEW first \in Processes
    PROVE  Init => EInv(first) \/ SInv
<1> SUFFICES ASSUME Init PROVE EInv(first) \/ SInv
  OBVIOUS
<1>1. "down" \in Phases /\ 0 \in 0 .. CurrentVersion
  BY MigrationAssumption DEF Phases
<1>2. Outside("down", 0).phase = "down"
  BY <1>1, OutsideType
<1>3. \A p \in Processes : proc[p] = Outside("down", 0)
  BY DEF Init
<1>4. CASE db \in {SchemaAt(0), Unversioned}
  <2>1. Making(proc[first], db)
    BY <1>2, <1>3 DEF Making, Working
  <2>2. QED
    BY <1>2, <1>3, <1>4, <2>1 DEF EInv, Init
<1>5. CASE db \notin {SchemaAt(0), Unversioned}
  <2>1. PICK v \in InitialVersions : db = SchemaAt(v)
    BY <1>5 DEF Init
  <2>2. v \in Nat /\ v >= 1
    BY <1>5, <2>1, MigrationAssumption
  <2>3. db.version = v
    BY <2>1, <2>2, SchemaAtType
  <2>4. \A p \in Processes : Level(p, proc[p], writer, db)
    BY <1>2, <1>3 DEF Level, Working
  <2>5. QED
    BY <2>1, <2>2, <2>3, <2>4 DEF SInv
<1>6. QED
  BY <1>4, <1>5

LEMMA StartEInv ==
    ASSUME IInv, NEW first \in Processes, EInv(first), Start(first)
    PROVE  EInv(first)' /\ db' = db
<1> DEFINE r == Outside("migrating", db.version)
<1>1. db.version = 0 /\ 0 \in 0 .. CurrentVersion /\ "migrating" \in Phases
  BY Unmigrated, MigrationAssumption DEF EInv, Phases
<1>2. CASE Fail(first)
  BY <1>2, FailEInv
<1>3. CASE /\ proc' = [proc EXCEPT ![first] = r] /\ UNCHANGED <<db, writer>>
  <2>1. r \in Record /\ r.phase = "migrating" /\ r.version = 0
    BY <1>1, OutsideType
  <2> HIDE DEF r
  <2>2. Making(r, db)
    BY <2>1 DEF Making
  <2>3. QED
    BY <1>3, <2>1, <2>2, FirstMoves DEF EInv
<1>4. QED
  BY <1>2, <1>3 DEF Start

LEMMA BecomeEInv ==
    ASSUME IInv, NEW first \in Processes, EInv(first),
           BeginMigration(first) \/ Finish(first) \/ Restart(first)
    PROVE  EInv(first)' /\ db' = db
<1>1. /\ Making(proc[first], db)
      /\ proc[first].phase = "migrating" => ~Migrated(proc[first].version)
  BY MigrationAssumption DEF EInv, Making, Working, Migrated
<1>2. PICK phase \in {"begun", "down"} :
         /\ Become(first, phase) /\ UNCHANGED <<db, writer>>
         /\ phase = "begun" => proc[first].phase = "migrating"
  BY <1>1 DEF BeginMigration, Finish, Restart
<1> DEFINE r == [proc[first] EXCEPT !.phase = phase]
<1>3. /\ r \in Record /\ proc' = [proc EXCEPT ![first] = r]
      /\ r.phase = phase /\ r.version = proc[first].version
  BY <1>2 DEF Become, IInv, TypeOK, Record, Phases
<1> HIDE DEF r
<1>4. Making(r, db)
  BY <1>1, <1>2, <1>3 DEF Making, Working
<1>5. QED
  BY <1>2, <1>3, <1>4, FirstMoves DEF EInv

LEMMA PrepareEInv ==
    ASSUME IInv, NEW first \in Processes, EInv(first), PrepareDDL(first)
    PROVE  EInv(first)' /\ db' = db
<1>1. /\ Making(proc[first], db) /\ proc[first].version = 0 /\ Target(first) = 1
      /\ db.identity = "none" /\ db \in Schema
      /\ db.steps = {} \/ db.steps = {1}
  BY Unmigrated DEF EInv, Making, Working, PrepareDDL, Target, IInv, TypeOK
<1>2. CASE Fail(first)
  BY <1>2, FailEInv
<1>3. CASE /\ Target(first) \notin db.steps
           /\ Become(first, "waiting") /\ UNCHANGED <<db, writer>>
  <2> DEFINE r == [proc[first] EXCEPT !.phase = "waiting"]
  <2>1. /\ r \in Record /\ proc' = [proc EXCEPT ![first] = r]
        /\ r.phase = "waiting" /\ r.version = 0
    BY <1>1, <1>3 DEF Become, IInv, TypeOK, Record, Phases
  <2> HIDE DEF r
  <2>2. Making(r, db)
    BY <1>1, <1>3, <2>1 DEF Making
  <2>3. QED
    BY <1>3, <2>1, <2>2, FirstMoves DEF EInv
<1>4. CASE /\ 1 \in db.steps /\ BecomeWith(first, AfterDDL(1), db)
           /\ UNCHANGED <<db, writer>>
  <2> DEFINE r == [proc[first] EXCEPT !.phase = "ready", !.view = db]
  <2>1. BecomeWith(first, "ready", db)
    BY <1>4, MigrationAssumption DEF AfterDDL
  <2>2. /\ r \in Record /\ proc' = [proc EXCEPT ![first] = r]
        /\ r.phase = "ready" /\ r.version = 0 /\ r.view = db
    BY <1>1, <2>1 DEF BecomeWith, IInv, TypeOK, Record, Phases
  <2> HIDE DEF r
  <2>3. Making(r, db)
    BY <1>1, <1>4, <2>2 DEF Making
  <2>4. QED
    BY <1>4, <2>2, <2>3, FirstMoves DEF EInv
<1>5. QED
  BY <1>2, <1>3, <1>4 DEF PrepareDDL

LEMMA RunEInv ==
    ASSUME IInv, NEW first \in Processes, EInv(first), RunDDL(first)
    PROVE  EInv(first)' /\ db' = db
<1> DEFINE view == [db EXCEPT !.steps = @ \cup {1}]
           r == [proc[first] EXCEPT !.phase = "ready", !.view = view]
<1>1. /\ Making(proc[first], db) /\ proc[first].version = 0 /\ Target(first) = 1
      /\ db.identity = "none" /\ db.steps = {} /\ db \in Schema
  BY Unmigrated DEF EInv, Making, Working, RunDDL, Target, IInv, TypeOK
<1>2. AfterDDL(1) = "ready"
  BY MigrationAssumption DEF AfterDDL
<1>3. CASE Fail(first)
  BY <1>3, FailEInv
<1>4. CASE /\ writer' = first /\ BecomeWith(first, AfterDDL(Target(first)),
                                   [db EXCEPT !.steps = @ \cup {Target(first)}])
           /\ UNCHANGED db
  <2>1. BecomeWith(first, "ready", view)
    BY <1>1, <1>2, <1>4
  <2>2. view \in Schema /\ view.steps = {1} /\ view.identity = "none"
    BY <1>1 DEF Schema
  <2> HIDE DEF view
  <2>3. /\ r \in Record /\ proc' = [proc EXCEPT ![first] = r]
        /\ r.phase = "ready" /\ r.version = 0 /\ r.view = view
    BY <1>1, <2>1, <2>2 DEF BecomeWith, IInv, TypeOK, Record, Phases
  <2> HIDE DEF r
  <2>4. Making(r, db)
    BY <2>2, <2>3 DEF Making
  <2>5. QED
    BY <1>4, <2>3, <2>4, FirstMoves
<1>5. QED
  BY <1>3, <1>4 DEF RunDDL

LEMMA SetVersionEInv ==
    ASSUME IInv, NEW first \in Processes, EInv(first), SetVersion(first)
    PROVE  EInv(first)' /\ db' = db
<1> DEFINE view == [proc[first].view EXCEPT !.version = Target(first)]
           r == [proc[first] EXCEPT !.phase = "versioned", !.view = view]
<1>1. /\ proc[first].version = 0 /\ Target(first) = 1
      /\ proc[first].view \in Schema
      /\ proc[first].view.steps = {1} /\ proc[first].view.identity = "none"
  BY DEF EInv, Making, Working, SetVersion, Target, IInv, TypeOK
<1>2. CASE Fail(first)
  BY <1>2, FailEInv
<1>3. CASE /\ writer' = first /\ BecomeWith(first, "versioned", view)
           /\ UNCHANGED db
  <2>1. /\ view \in Schema /\ view.version = 1
        /\ view.steps = {1} /\ view.identity = "none"
    BY <1>1 DEF Schema
  <2> HIDE DEF view
  <2>2. {1} = 1 .. 1 /\ 1 \in Nat /\ ~(1 >= IdentityVersion)
    BY MigrationAssumption
  <2>3. view = SchemaAt(1)
    BY <2>1, <2>2, SchemaEqual
  <2>4. /\ r \in Record /\ proc' = [proc EXCEPT ![first] = r]
        /\ r.phase = "versioned" /\ r.version = 0 /\ r.view = view
    BY <1>1, <1>3, <2>1 DEF BecomeWith, IInv, TypeOK, Record, Phases
  <2> HIDE DEF r
  <2>5. Making(r, db)
    BY <2>3, <2>4 DEF Making
  <2>6. QED
    BY <1>3, <2>4, <2>5, FirstMoves
<1>4. QED
  BY <1>2, <1>3 DEF SetVersion

(* Version 1 is committed: from here on any process may run. *)
LEMMA CommitEInv ==
    ASSUME IInv, NEW first \in Processes, EInv(first), CommitMigration(first)
    PROVE  SInv' /\ db.version = 0 /\ db'.version = 1
<1> DEFINE r == Outside("migrating", 1)
<1>1. /\ db.version = 0 /\ Target(first) = 1 /\ db' = SchemaAt(1)
      /\ proc' = [proc EXCEPT ![first] = r]
  <2>1. proc[first].phase = "versioned" /\ Making(proc[first], db)
    BY DEF EInv, CommitMigration
  <2>2. proc[first].version = 0 /\ proc[first].view = SchemaAt(1)
    BY <2>1 DEF Making, Working
  <2>3. db.version = 0
    BY Unmigrated DEF EInv
  <2>4. Target(first) = 1
    BY <2>2 DEF Target
  <2>5. QED
    BY <2>2, <2>3, <2>4 DEF CommitMigration
<1>2. 1 \in 0 .. CurrentVersion /\ "migrating" \in Phases
  BY MigrationAssumption DEF Phases
<1>3. r \in Record /\ r.phase = "migrating" /\ r.version = 1
  BY <1>2, OutsideType
<1>4. db'.version = 1
  BY <1>1, SchemaAtType
<1> HIDE DEF r
<1>5. ASSUME NEW q \in Processes PROVE Level(q, proc[q], writer, db)'
  <2>1. CASE q = first
    <3>1. proc'[q] = r
      BY <1>1, <2>1 DEF IInv, TypeOK
    <3>2. Level(q, r, writer', db')
      BY <1>2, <1>3, <1>4, MigrationAssumption DEF Level
    <3>3. QED
      BY <3>1, <3>2
  <2>2. CASE q # first
    <3>1. proc'[q].phase = "down"
      BY <1>1, <2>2 DEF EInv, IInv, TypeOK
    <3>2. QED
      BY <3>1 DEF Level, Working
  <2>3. QED
    BY <2>1, <2>2
<1>6. QED
  BY <1>1, <1>4, <1>5 DEF SInv

LEMMA NextEInv ==
    ASSUME NEW first \in Processes
    PROVE  IInv /\ (EInv(first) \/ SInv) /\ [NextAfter(first)]_vars =>
              /\ EInv(first)' \/ SInv'
              /\ db'.version \in {db.version, db.version + 1}
<1> SUFFICES ASSUME IInv, EInv(first) \/ SInv, [NextAfter(first)]_vars
             PROVE  /\ EInv(first)' \/ SInv'
                    /\ db'.version \in {db.version, db.version + 1}
  OBVIOUS
<1>1. [Next]_vars
  BY DEF NextAfter, Next
<1>2. CASE SInv
  BY <1>1, <1>2, NextSInv
<1>3. CASE EInv(first)
  <2>1. ASSUME Step(first)
        PROVE  \/ EInv(first)' /\ db' = db
               \/ SInv' /\ db.version = 0 /\ db'.version = 1
    <3>1. Start(first) => EInv(first)' /\ db' = db
      BY <1>3, StartEInv
    <3>2. BeginMigration(first) \/ Finish(first) \/ Restart(first) =>
             EInv(first)' /\ db' = db
      BY <1>3, BecomeEInv
    <3>3. PrepareDDL(first) => EInv(first)' /\ db' = db
      BY <1>3, PrepareEInv
    <3>4. RunDDL(first) => EInv(first)' /\ db' = db
      BY <1>3, RunEInv
    <3>5. TimeOut(first) => EInv(first)' /\ db' = db
      BY <1>3, FailEInv DEF TimeOut
    <3>6. ~PopulateIdentity(first)
      BY <1>3 DEF EInv, Making, PopulateIdentity
    <3>7. SetVersion(first) => EInv(first)' /\ db' = db
      BY <1>3, SetVersionEInv
    <3>8. CommitMigration(first) => SInv' /\ db.version = 0 /\ db'.version = 1
      BY <1>3, CommitEInv
    <3>9. QED
      BY <2>1, <3>1, <3>2, <3>3, <3>4, <3>5, <3>6, <3>7, <3>8 DEF Step
  <2>2. Fault(first) => EInv(first)' /\ db' = db
    BY <1>3, FailEInv DEF Fault
  <2>3. UNCHANGED vars => EInv(first)' /\ db' = db
    BY <1>3 DEF vars, EInv
  <2>4. NextAfter(first) => Step(first) \/ Fault(first)
    BY <1>3, Unmigrated DEF NextAfter, MayRun, EInv
  <2>5. QED
    BY <2>1, <2>2, <2>3, <2>4
<1>4. QED
  BY <1>2, <1>3

(* The inductive invariant from any file, if one process is first. *)
THEOREM AfterInvariant ==
    ASSUME NEW first \in Processes
    PROVE  SpecAfter(first) => [](IInv /\ (EInv(first) \/ SInv))
<1>1. Init => IInv /\ (EInv(first) \/ SInv)
  BY InitIInv, InitEInv
<1>2. IInv /\ [NextAfter(first)]_vars => IInv'
  <2>1. [NextAfter(first)]_vars => [Next]_vars
    BY DEF NextAfter, Next
  <2>2. QED
    BY <2>1, NextIInv
<1>3. IInv /\ (EInv(first) \/ SInv) /\ [NextAfter(first)]_vars =>
         (EInv(first) \/ SInv)'
  BY NextEInv
<1>4. QED
  BY <1>1, <1>2, <1>3, PTL DEF SpecAfter

(* Schema and version never part, on a file of any version, new and        *)
(* unversioned ones included, if one process is first.                     *)
THEOREM NamesSchemaAfter ==
    ASSUME NEW first \in Processes
    PROVE  SpecAfter(first) => []VersionNamesSchema
<1>1. EInv(first) => VersionNamesSchema
  BY Unmigrated DEF EInv, VersionNamesSchema
<1>2. SInv => VersionNamesSchema
  BY DEF SInv, VersionNamesSchema
<1>3. QED
  BY <1>1, <1>2, AfterInvariant, PTL

(* The README's sequential migration, on a file of any version. *)
THEOREM SequentialAfter ==
    ASSUME NEW first \in Processes
    PROVE  SpecAfter(first) => MigratesSequentially
<1>1. IInv /\ (EInv(first) \/ SInv) /\ [NextAfter(first)]_vars =>
         [db'.version \in {db.version, db.version + 1}]_vars
  BY NextEInv
<1>2. QED
  BY <1>1, AfterInvariant, PTL DEF SpecAfter, MigratesSequentially

(* Whoever serves, serves the current schema, on a file of any version. *)
THEOREM ServesCurrentAfter ==
    ASSUME NEW first \in Processes
    PROVE  SpecAfter(first) => []ReadyWhileOpen
<1>1. IInv /\ EInv(first) => ReadyWhileOpen
  BY DEF EInv, Making, ReadyWhileOpen
<1>2. SInv => ReadyWhileOpen
  BY DEF SInv, Level, ReadyWhileOpen
<1>3. QED
  BY <1>1, <1>2, AfterInvariant, PTL
=============================================================================
