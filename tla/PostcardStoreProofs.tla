------------------------ MODULE PostcardStoreProofs ------------------------
(***************************************************************************)
(* PostcardStore, for every set of servers and of admin commands, every    *)
(* catalog and every bound: its inductive invariant, and that it           *)
(* implements the Gallery.                                                 *)
(*                                                                         *)
(* The invariant says what a transaction may rely on.  A publication's     *)
(* checks are made on a snapshot and are worth nothing once another        *)
(* process commits; the argument is that the INSERT succeeds only on a     *)
(* snapshot that is still the committed state, and that the lock it then   *)
(* holds keeps it so until COMMIT.                                         *)
(***************************************************************************)
EXTENDS PostcardStore, TLAPS

IInv == TypeOK /\ OneWriter /\ TransactionsSound

-----------------------------------------------------------------------------
(* The statements keep the tables well typed. *)
LEMMA WithPostcardType ==
    ASSUME NEW tables \in Tables, NEW draft \in Draft
    PROVE  WithPostcard(tables, draft) \in Tables
<1>1. NewPostcard(draft) \in Postcard
  BY DEF NewPostcard, Postcard, Draft
<1>2. Append(tables.postcards, NewPostcard(draft)) \in Seq(Postcard)
  BY <1>1 DEF Tables
<1>3. QED
  BY <1>2 DEF Tables, WithPostcard

LEMMA WithEventType ==
    ASSUME NEW tables \in Tables, NEW verdict \in Verdict
    PROVE  WithEvent(tables, verdict) \in Tables
<1>1. Append(tables.events, verdict) \in Seq(Verdict)
  BY DEF Tables
<1>2. QED
  BY <1>1 DEF Tables, WithEvent

LEMMA WithStatusType ==
    ASSUME NEW tables \in Tables, NEW verdict \in Verdict,
           Matches(tables.postcards, verdict)
    PROVE  /\ WithStatus(tables, verdict) \in Tables
           /\ WithStatus(tables, verdict).events = tables.events
           /\ WithStatus(tables, verdict).postcards =
                [tables.postcards EXCEPT
                    ![verdict.postcard].status = To(verdict.action),
                    ![verdict.postcard].reason = verdict.reason]
<1> DEFINE rows == tables.postcards
           id == verdict.postcard
           row == rows[id]
           new == [row EXCEPT !.status = To(verdict.action), !.reason = verdict.reason]
<1>1. rows \in Seq(Postcard) /\ id \in DOMAIN rows
  BY DEF Tables, Matches
<1>2. row \in Postcard
  BY <1>1
<1>3. To(verdict.action) \in {"visible", "hidden"} /\ verdict.reason \in Reasons
  BY DEF To, Verdict
<1>4. new \in Postcard
  BY <1>2, <1>3 DEF Postcard
<1>5. [rows EXCEPT ![id].status = To(verdict.action), ![id].reason = verdict.reason]
        = [rows EXCEPT ![id] = new]
  BY <1>1
<1>6. WithStatus(tables, verdict) = [tables EXCEPT !.postcards = [rows EXCEPT ![id] = new]]
  BY <1>1 DEF WithStatus, Tables
<1> HIDE DEF new
<1>7. [rows EXCEPT ![id] = new] \in Seq(Postcard)
  BY <1>1, <1>4
<1>8. QED
  BY <1>5, <1>6, <1>7 DEF Tables

-----------------------------------------------------------------------------
(* A step that replaces p's transaction by a sound one, commits nothing    *)
(* and moves the lock only to or from p, keeps the invariant.              *)
LEMMA SoundStep ==
    ASSUME IInv, NEW p \in Processes, NEW t \in Transaction,
           tx' = [tx EXCEPT ![p] = t], db' = db,
           p \in Servers => PublishSound(t, db),
           p \in Admins => ModerationSound(t, db),
           writer' \in Processes \cup {NoProcess},
           t.phase \in WritePhases <=> writer' = p,
           \A q \in Processes \ {p} : writer' = q <=> writer = q
    PROVE  IInv'
<1>1. /\ tx'[p] = t
      /\ \A q \in Processes \ {p} : tx'[q] = tx[q]
  BY DEF IInv, TypeOK
<1>2. TypeOK'
  BY DEF IInv, TypeOK
<1>3. OneWriter'
  BY <1>1 DEF IInv, OneWriter
<1>4. TransactionsSound'
  BY <1>1 DEF IInv, TransactionsSound, Processes
<1>5. QED
  BY <1>2, <1>3, <1>4 DEF IInv

LEMMA IdleSound ==
    /\ Idle \in Transaction
    /\ Idle.phase = "idle"
    /\ \A committed : PublishSound(Idle, committed) /\ ModerationSound(Idle, committed)
BY DEF Idle, Transaction, Phases, WritePhases, EmptyTables, Tables,
       PublishSound, ModerationSound

(* A rollback keeps the invariant, whatever the transaction had done. *)
LEMMA EndStep ==
    ASSUME IInv, NEW p \in Processes, End(p), db' = db PROVE IInv'
<1>1. /\ writer' \in Processes \cup {NoProcess}
      /\ writer' # p
      /\ \A q \in Processes \ {p} : writer' = q <=> writer = q
  BY ProcessAssumption DEF End, IInv, TypeOK
<1>2. Idle.phase \notin WritePhases
  BY IdleSound DEF WritePhases
<1>3. QED
  BY <1>1, <1>2, IdleSound, SoundStep DEF End

(* Only the holder of the lock commits, so no other transaction was relying *)
(* on the committed tables.                                                 *)
LEMMA CommitStep ==
    ASSUME IInv, NEW p \in Processes, Commit(p) PROVE IInv'
<1>1. writer = p
  BY DEF Commit, IInv, OneWriter, WritePhases
<1>2. /\ tx'[p] = Idle
      /\ \A q \in Processes \ {p} : tx'[q] = tx[q]
      /\ writer' = NoProcess
      /\ db' \in Tables
      /\ tx' \in [Processes -> Transaction]
  BY <1>1, IdleSound DEF Commit, End, IInv, TypeOK, Transaction
<1>3. \A q \in Processes \ {p} : tx[q].phase \notin WritePhases
  BY <1>1 DEF IInv, OneWriter
<1>4. TypeOK'
  BY <1>2 DEF TypeOK
<1>5. OneWriter'
  BY <1>2, <1>3, IdleSound, ProcessAssumption DEF OneWriter, WritePhases
<1>6. TransactionsSound'
  <2>1. ASSUME NEW q \in Servers PROVE PublishSound(tx'[q], db')
    <3>1. CASE q = p
      BY <1>2, <3>1, IdleSound
    <3>2. CASE q # p
      BY <1>2, <1>3, <3>2 DEF IInv, TransactionsSound, PublishSound, Processes, WritePhases
    <3>3. QED
      BY <3>1, <3>2
  <2>2. ASSUME NEW q \in Admins PROVE ModerationSound(tx'[q], db')
    <3>1. CASE q = p
      BY <1>2, <3>1, IdleSound
    <3>2. CASE q # p
      BY <1>2, <1>3, <3>2 DEF IInv, TransactionsSound, ModerationSound, Processes, WritePhases
    <3>3. QED
      BY <3>1, <3>2
  <2>3. QED
    BY <2>1, <2>2 DEF TransactionsSound
<1>7. QED
  BY <1>4, <1>5, <1>6 DEF IInv

LEMMA AbortStep ==
    ASSUME IInv, NEW p \in Processes, Abort(p) PROVE IInv'
BY EndStep DEF Abort

-----------------------------------------------------------------------------
(* One lemma per statement of InsertWithPalette. *)
LEMMA BeginPublishStep ==
    ASSUME IInv, NEW p \in Servers, NEW draft \in Draft, BeginPublish(p, draft)
    PROVE  IInv'
<1> DEFINE t == [Idle EXCEPT !.phase = "begun", !.request = draft]
<1>1. /\ p \in Processes /\ p \notin Admins
      /\ writer # p /\ writer \in Processes \cup {NoProcess}
  BY ProcessAssumption
     DEF BeginPublish, Begin, Processes, IInv, TypeOK, OneWriter, WritePhases
<1>2. t \in Transaction /\ t.phase = "begun" /\ t.request = draft
  BY IdleSound DEF Transaction, Phases
<1> HIDE DEF t
<1>3. PublishSound(t, db) /\ t.phase \notin WritePhases
  BY <1>2 DEF PublishSound, WritePhases
<1>4. tx' = [tx EXCEPT ![p] = t] /\ db' = db /\ writer' = writer
  BY DEF BeginPublish, Begin, t
<1>5. QED
  BY <1>1, <1>2, <1>3, <1>4, SoundStep

(* A snapshot is a state of the tables. *)
LEMMA SnapshotType ==
    ASSUME IInv, NEW p \in Processes PROVE Snapshot(p) \in Tables
BY DEF IInv, TypeOK, Snapshot, Transaction

LEMMA CheckParentStep ==
    ASSUME IInv, NEW p \in Servers, CheckParent(p) PROVE IInv'
<1> DEFINE t == [tx[p] EXCEPT !.phase = "parentChecked", !.view = Snapshot(p)]
<1>1. /\ p \in Processes /\ p \notin Admins
      /\ writer # p /\ writer \in Processes \cup {NoProcess}
      /\ tx[p] \in Transaction
      /\ tx[p].request \in Draft
      /\ tx[p].phase = "begun"
  BY ProcessAssumption
     DEF CheckParent, Processes, IInv, TypeOK, OneWriter, WritePhases,
         TransactionsSound, PublishSound
<1>2. CASE /\ ParentVisible(Snapshot(p).postcards, tx[p].request.parent)
           /\ tx' = [tx EXCEPT ![p].phase = "parentChecked", ![p].view = Snapshot(p)]
           /\ UNCHANGED <<db, writer>>
  <2>1. /\ t \in Transaction /\ t.phase = "parentChecked"
        /\ t.request = tx[p].request /\ t.view = Snapshot(p)
    BY <1>1, SnapshotType DEF Transaction, Phases
  <2>2. tx' = [tx EXCEPT ![p] = t]
    BY <1>1, <1>2 DEF IInv, TypeOK
  <2> HIDE DEF t
  <2>3. PublishSound(t, db) /\ t.phase \notin WritePhases
    BY <1>1, <1>2, <2>1 DEF PublishSound, WritePhases
  <2>4. QED
    BY <1>1, <1>2, <2>1, <2>2, <2>3, SoundStep
<1>3. CASE End(p) /\ UNCHANGED db
  BY <1>1, <1>3, EndStep
<1>4. QED
  BY <1>2, <1>3 DEF CheckParent

LEMMA CheckLatestStep ==
    ASSUME IInv, NEW p \in Servers, CheckLatest(p) PROVE IInv'
<1> DEFINE t == [tx[p] EXCEPT !.phase = "checked", !.view = Snapshot(p)]
<1>1. /\ p \in Processes /\ p \notin Admins
      /\ writer # p /\ writer \in Processes \cup {NoProcess}
      /\ tx[p] \in Transaction
      /\ tx[p].request \in Draft
  BY ProcessAssumption
     DEF CheckLatest, Processes, IInv, TypeOK, OneWriter, WritePhases,
         TransactionsSound, PublishSound
<1>2. ParentVisible(Snapshot(p).postcards, tx[p].request.parent)
  <2>1. CASE tx[p].phase = "begun"
    BY <2>1 DEF CheckLatest, ParentVisible
  <2>2. CASE tx[p].phase = "parentChecked"
    BY <2>2 DEF IInv, TransactionsSound, PublishSound, Snapshot
  <2>3. QED
    BY <2>1, <2>2 DEF CheckLatest
<1>3. CASE /\ ~RepeatsLatest(Snapshot(p).postcards, tx[p].request)
           /\ tx' = [tx EXCEPT ![p].phase = "checked", ![p].view = Snapshot(p)]
           /\ UNCHANGED <<db, writer>>
  <2>1. /\ t \in Transaction /\ t.phase = "checked"
        /\ t.request = tx[p].request /\ t.view = Snapshot(p)
    BY <1>1, SnapshotType DEF Transaction, Phases
  <2>2. tx' = [tx EXCEPT ![p] = t]
    BY <1>1, <1>3 DEF IInv, TypeOK
  <2> HIDE DEF t
  <2>3. PublishSound(t, db) /\ t.phase \notin WritePhases
    BY <1>1, <1>2, <1>3, <2>1 DEF PublishSound, WritePhases
  <2>4. QED
    BY <1>1, <1>3, <2>1, <2>2, <2>3, SoundStep
<1>4. CASE End(p) /\ UNCHANGED db
  BY <1>1, <1>4, EndStep
<1>5. QED
  BY <1>3, <1>4 DEF CheckLatest

(* The step the argument turns on: the snapshot is the committed state, so *)
(* the checks made on it hold there.                                       *)
LEMMA InsertPostcardStep ==
    ASSUME IInv, NEW p \in Servers, InsertPostcard(p) PROVE IInv'
<1> DEFINE t == [tx[p] EXCEPT !.phase = "written",
                              !.view = WithPostcard(tx[p].view, tx[p].request)]
<1>1. /\ p \in Processes /\ p \notin Admins
      /\ tx[p] \in Transaction
      /\ tx[p].request \in Draft
      /\ tx[p].view = db /\ db \in Tables
      /\ writer = NoProcess /\ writer' = p /\ db' = db
      /\ ParentVisible(db.postcards, tx[p].request.parent)
      /\ ~RepeatsLatest(db.postcards, tx[p].request)
  BY ProcessAssumption
     DEF InsertPostcard, MayUpgrade, Processes, IInv, TypeOK,
         TransactionsSound, PublishSound
<1>2. /\ t \in Transaction /\ t.phase = "written"
      /\ t.request = tx[p].request /\ t.view = WithPostcard(db, tx[p].request)
  BY <1>1, WithPostcardType DEF Transaction, Phases, WritePhases
<1>3. tx' = [tx EXCEPT ![p] = t]
  BY <1>1 DEF IInv, TypeOK, InsertPostcard
<1> HIDE DEF t
<1>4. PublishSound(t, db) /\ t.phase \in WritePhases
  BY <1>1, <1>2 DEF PublishSound, WritePhases
<1>5. \A q \in Processes \ {p} : writer' = q <=> writer = q
  BY <1>1, ProcessAssumption
<1>6. QED
  BY <1>1, <1>2, <1>3, <1>4, <1>5, SoundStep

LEMMA InsertRefusedStep ==
    ASSUME IInv, NEW p \in Servers, InsertRefused(p) PROVE IInv'
BY EndStep DEF InsertRefused, Processes

-----------------------------------------------------------------------------
(* One lemma per statement of setModeration. *)
LEMMA BeginModerationStep ==
    ASSUME IInv, NEW p \in Admins, NEW verdict \in Verdict, BeginModeration(p, verdict)
    PROVE  IInv'
<1> DEFINE t == [Idle EXCEPT !.phase = "begun", !.request = verdict]
<1>1. /\ p \in Processes /\ p \notin Servers
      /\ writer # p /\ writer \in Processes \cup {NoProcess}
  BY ProcessAssumption
     DEF BeginModeration, Begin, Processes, IInv, TypeOK, OneWriter, WritePhases
<1>2. t \in Transaction /\ t.phase = "begun" /\ t.request = verdict
  BY IdleSound DEF Transaction, Phases
<1> HIDE DEF t
<1>3. ModerationSound(t, db) /\ t.phase \notin WritePhases
  BY <1>2 DEF ModerationSound, WritePhases
<1>4. tx' = [tx EXCEPT ![p] = t] /\ db' = db /\ writer' = writer
  BY DEF BeginModeration, Begin, t
<1>5. QED
  BY <1>1, <1>2, <1>3, <1>4, SoundStep

LEMMA UpdateStatusStep ==
    ASSUME IInv, NEW p \in Admins, UpdateStatus(p) PROVE IInv'
<1> DEFINE updated == [tx[p] EXCEPT !.phase = "updated",
                                    !.view = WithStatus(db, tx[p].request)]
           unmatched == [tx[p] EXCEPT !.phase = "unmatched", !.view = db]
<1>1. /\ p \in Processes /\ p \notin Servers
      /\ tx[p] \in Transaction
      /\ tx[p].request \in Verdict
      /\ db \in Tables
      /\ writer = NoProcess /\ writer' = p /\ db' = db
  BY ProcessAssumption
     DEF UpdateStatus, Processes, IInv, TypeOK, TransactionsSound, ModerationSound
<1>2. \A q \in Processes \ {p} : writer' = q <=> writer = q
  BY <1>1, ProcessAssumption
<1>3. CASE /\ Matches(db.postcards, tx[p].request)
           /\ tx' = [tx EXCEPT ![p].phase = "updated",
                               ![p].view = WithStatus(db, tx[p].request)]
  <2>1. /\ updated \in Transaction /\ updated.phase = "updated"
        /\ updated.request = tx[p].request
        /\ updated.view = WithStatus(db, tx[p].request)
    BY <1>1, <1>3, WithStatusType DEF Transaction, Phases, WritePhases
  <2>2. tx' = [tx EXCEPT ![p] = updated]
    BY <1>1, <1>3 DEF IInv, TypeOK
  <2> HIDE DEF updated
  <2>3. ModerationSound(updated, db) /\ updated.phase \in WritePhases
    BY <1>1, <1>3, <2>1 DEF ModerationSound, WritePhases
  <2>4. QED
    BY <1>1, <1>2, <2>1, <2>2, <2>3, SoundStep
<1>4. CASE tx' = [tx EXCEPT ![p].phase = "unmatched", ![p].view = db]
  <2>1. /\ unmatched \in Transaction /\ unmatched.phase = "unmatched"
        /\ unmatched.request = tx[p].request
    BY <1>1 DEF Transaction, Phases, WritePhases
  <2>2. tx' = [tx EXCEPT ![p] = unmatched]
    BY <1>1, <1>4 DEF IInv, TypeOK
  <2> HIDE DEF unmatched
  <2>3. ModerationSound(unmatched, db) /\ unmatched.phase \in WritePhases
    BY <1>1, <2>1 DEF ModerationSound, WritePhases
  <2>4. QED
    BY <1>1, <1>2, <2>1, <2>2, <2>3, SoundStep
<1>5. QED
  BY <1>3, <1>4 DEF UpdateStatus

LEMMA RecordEventStep ==
    ASSUME IInv, NEW p \in Admins, RecordEvent(p) PROVE IInv'
<1> DEFINE t == [tx[p] EXCEPT !.phase = "written",
                              !.view = WithEvent(tx[p].view, tx[p].request)]
<1>1. /\ p \in Processes /\ p \notin Servers
      /\ tx[p] \in Transaction /\ tx[p].view \in Tables
      /\ tx[p].request \in Verdict
      /\ tx[p].view = WithStatus(db, tx[p].request)
      /\ Matches(db.postcards, tx[p].request)
      /\ writer = p /\ writer' = p /\ db' = db
  BY ProcessAssumption
     DEF RecordEvent, Processes, IInv, TypeOK, OneWriter, WritePhases, Transaction,
         TransactionsSound, ModerationSound
<1>2. /\ t \in Transaction /\ t.phase = "written" /\ t.request = tx[p].request
      /\ t.view = WithEvent(WithStatus(db, tx[p].request), tx[p].request)
  BY <1>1, WithEventType DEF Transaction, Phases, WritePhases
<1>3. tx' = [tx EXCEPT ![p] = t]
  BY <1>1 DEF IInv, TypeOK, RecordEvent
<1> HIDE DEF t
<1>4. ModerationSound(t, db) /\ t.phase \in WritePhases
  BY <1>1, <1>2 DEF ModerationSound, WritePhases
<1>5. writer' \in Processes \cup {NoProcess}
  BY <1>1
<1>6. \A q \in Processes \ {p} : writer' = q <=> writer = q
  BY <1>1
<1>7. QED
  BY <1>1, <1>2, <1>3, <1>4, <1>5, <1>6, SoundStep

LEMMA ModerationEndsStep ==
    ASSUME IInv, NEW p \in Admins, UpdateTimesOut(p) \/ RefuseModeration(p)
    PROVE  IInv'
BY EndStep DEF UpdateTimesOut, RefuseModeration, Processes

-----------------------------------------------------------------------------
LEMMA InductiveStep == ASSUME IInv, [Next]_vars PROVE IInv'
<1>1. ASSUME NEW p \in Servers, NEW draft \in Draft, BeginPublish(p, draft)
      PROVE  IInv'
  BY <1>1, BeginPublishStep
<1>2. ASSUME NEW p \in Servers, PublishStep(p) PROVE IInv'
  BY <1>2, CheckParentStep, CheckLatestStep, InsertPostcardStep,
     InsertRefusedStep, CommitStep DEF PublishStep, Processes
<1>3. ASSUME NEW p \in Admins, NEW verdict \in Verdict, BeginModeration(p, verdict)
      PROVE  IInv'
  BY <1>3, BeginModerationStep
<1>4. ASSUME NEW p \in Admins, ModerationStep(p) PROVE IInv'
  BY <1>4, UpdateStatusStep, RecordEventStep, ModerationEndsStep, CommitStep
     DEF ModerationStep, Processes
<1>5. ASSUME NEW p \in Processes, Abort(p) PROVE IInv'
  BY <1>5, AbortStep
<1>6. CASE UNCHANGED vars
  BY <1>6 DEF IInv, TypeOK, OneWriter, TransactionsSound, vars
<1>7. QED
  BY <1>1, <1>2, <1>3, <1>4, <1>5, <1>6 DEF Next

LEMMA Initial == Init => IInv
<1> SUFFICES ASSUME Init PROVE IInv
  OBVIOUS
<1>1. TypeOK
  BY IdleSound DEF Init, TypeOK, EmptyTables, Tables
<1>2. OneWriter
  BY IdleSound, ProcessAssumption DEF Init, OneWriter, WritePhases
<1>3. TransactionsSound
  BY IdleSound DEF Init, TransactionsSound, Processes
<1>4. QED
  BY <1>1, <1>2, <1>3 DEF IInv

(***************************************************************************)
(* THEOREM  The tables, the lock and the transactions stay well typed.     *)
(***************************************************************************)
THEOREM Invariant == Spec => []IInv
BY Initial, InductiveStep, PTL DEF Spec

THEOREM TypeCorrect == Spec => []TypeOK
<1>1. IInv => TypeOK
  BY DEF IInv
<1>2. QED
  BY <1>1, Invariant, PTL

(***************************************************************************)
(* THEOREM  The lock is held by the writing transaction and by no other,   *)
(* and whatever a transaction is about to commit is the newest committed   *)
(* state with its own change, its checks still true of it.                 *)
(***************************************************************************)
THEOREM NoStaleWrite == Spec => [](OneWriter /\ TransactionsSound)
<1>1. IInv => OneWriter /\ TransactionsSound
  BY DEF IInv
<1>2. QED
  BY <1>1, Invariant, PTL

-----------------------------------------------------------------------------
(* Only COMMIT changes what the Gallery sees. *)
LEMMA QuietSteps ==
    ASSUME [Next]_vars, \A p \in Processes : ~Commit(p) PROVE db' = db
<1>1. ASSUME NEW p \in Servers, NEW draft \in Draft, BeginPublish(p, draft)
      PROVE  db' = db
  BY <1>1 DEF BeginPublish, Begin
<1>2. ASSUME NEW p \in Servers, PublishStep(p) PROVE db' = db
  BY <1>2 DEF PublishStep, CheckParent, CheckLatest, InsertPostcard, InsertRefused,
             Processes
<1>3. ASSUME NEW p \in Admins, NEW verdict \in Verdict, BeginModeration(p, verdict)
      PROVE  db' = db
  BY <1>3 DEF BeginModeration, Begin
<1>4. ASSUME NEW p \in Admins, ModerationStep(p) PROVE db' = db
  BY <1>4 DEF ModerationStep, UpdateStatus, UpdateTimesOut, RefuseModeration,
             RecordEvent, Processes
<1>5. ASSUME NEW p \in Processes, Abort(p) PROVE db' = db
  BY <1>5 DEF Abort
<1>6. CASE UNCHANGED vars
  BY <1>6 DEF vars
<1>7. QED
  BY <1>1, <1>2, <1>3, <1>4, <1>5, <1>6 DEF Next

(* A server's COMMIT is the Gallery's Publish of its draft. *)
LEMMA CommitPublishes ==
    ASSUME IInv, NEW p \in Servers, Commit(p) PROVE Wall!Publish(tx[p].request)
<1>1. /\ db \in Tables
      /\ ParentVisible(db.postcards, tx[p].request.parent)
      /\ ~RepeatsLatest(db.postcards, tx[p].request)
      /\ db' = WithPostcard(db, tx[p].request)
  BY DEF Commit, IInv, TypeOK, TransactionsSound, PublishSound
<1>2. /\ db'.postcards = Append(db.postcards, NewPostcard(tx[p].request))
      /\ db'.events = db.events
  BY <1>1 DEF WithPostcard, Tables
<1>3. QED
  BY <1>1, <1>2
     DEF Wall!Publish, Wall!ParentVisible, Wall!RepeatsLatest, Wall!NewPostcard,
         Wall!Visible, Wall!NoParent, ParentVisible, RepeatsLatest, NewPostcard,
         Visible, NoParent

(* An admin command's COMMIT is the Gallery's Moderate. *)
LEMMA CommitModerates ==
    ASSUME IInv, NEW p \in Admins, Commit(p) PROVE Wall!Moderate(tx[p].request)
<1>1. /\ db \in Tables
      /\ tx[p].request \in Verdict
      /\ Matches(db.postcards, tx[p].request)
      /\ db' = WithEvent(WithStatus(db, tx[p].request), tx[p].request)
  BY DEF Commit, IInv, TypeOK, TransactionsSound, ModerationSound
<1>2. /\ WithStatus(db, tx[p].request) \in Tables
      /\ WithStatus(db, tx[p].request).events = db.events
      /\ WithStatus(db, tx[p].request).postcards =
            [db.postcards EXCEPT
                ![tx[p].request.postcard].status = To(tx[p].request.action),
                ![tx[p].request.postcard].reason = tx[p].request.reason]
  BY <1>1, WithStatusType
<1>3. /\ db'.events = Append(db.events, tx[p].request)
      /\ db'.postcards = WithStatus(db, tx[p].request).postcards
  BY <1>1, <1>2 DEF WithEvent, Tables
<1>4. QED
  BY <1>1, <1>2, <1>3
     DEF Wall!Moderate, Wall!Matches, Wall!From, Wall!To, Matches, From, To

LEMMA StepImplements ==
    ASSUME IInv, [Next]_vars PROVE [Wall!Next]_Wall!vars
<1>1. CASE \A p \in Processes : ~Commit(p)
  BY <1>1, QuietSteps DEF Wall!vars
<1>2. ASSUME NEW p \in Servers, Commit(p) PROVE Wall!Next
  <2>1. tx[p].request \in Draft
    BY <1>2 DEF Commit, IInv, TransactionsSound, PublishSound
  <2>2. QED
    BY <1>2, <2>1, CommitPublishes
       DEF Wall!Next, Wall!Draft, Draft, Wall!NoParent, NoParent
<1>3. ASSUME NEW p \in Admins, Commit(p) PROVE Wall!Next
  <2>1. tx[p].request \in Verdict
    BY <1>3 DEF Commit, IInv, TransactionsSound, ModerationSound
  <2>2. QED
    BY <1>3, <2>1, CommitModerates DEF Wall!Next, Wall!Verdict, Verdict
<1>4. QED
  BY <1>1, <1>2, <1>3 DEF Processes

(***************************************************************************)
(* THEOREM  The store implements the Gallery: with any number of processes *)
(* interleaving their statements, publications and moderation actions take *)
(* effect one at a time, each on the newest state.                         *)
(***************************************************************************)
THEOREM Implementation == Spec => ImplementsGallery
<1>1. Init => Wall!Init
  BY DEF Init, Wall!Init, EmptyTables
<1>2. IInv /\ [Next]_vars => [Wall!Next]_Wall!vars
  BY StepImplements
<1>3. QED
  BY <1>1, <1>2, Invariant, PTL DEF Spec, ImplementsGallery, Wall!Spec

-----------------------------------------------------------------------------
(* A step that adds a postcard is a server's COMMIT, on tables of which    *)
(* its checks hold.                                                        *)
LEMMA Acceptance ==
    ASSUME IInv, [Next]_vars, Accepts
    PROVE  \E draft \in Draft :
              /\ Accepted = NewPostcard(draft)
              /\ ParentVisible(db.postcards, draft.parent)
              /\ ~RepeatsLatest(db.postcards, draft)
<1>1. db \in Tables
  BY DEF IInv, TypeOK
<1>2. PICK p \in Processes : Commit(p)
  <2>1. Len(db.postcards) \in Nat
    BY <1>1 DEF Tables
  <2>2. QED
    BY <2>1, QuietSteps DEF Accepts
<1>3. CASE p \in Servers
  <2>1. tx[p].request \in Draft
    BY <1>2, <1>3 DEF Commit, IInv, TransactionsSound, PublishSound
  <2>2. Wall!Publish(tx[p].request)
    BY <1>2, <1>3, CommitPublishes
  <2>3. /\ db'.postcards = Append(db.postcards, NewPostcard(tx[p].request))
        /\ ParentVisible(db.postcards, tx[p].request.parent)
        /\ ~RepeatsLatest(db.postcards, tx[p].request)
    BY <2>2
       DEF Wall!Publish, Wall!ParentVisible, Wall!RepeatsLatest, Wall!NewPostcard,
           Wall!Visible, Wall!NoParent, ParentVisible, RepeatsLatest, NewPostcard,
           Visible, NoParent
  <2>4. Accepted = NewPostcard(tx[p].request)
    BY <1>1, <2>3 DEF Accepted, Tables
  <2>5. QED
    BY <2>1, <2>3, <2>4
<1>4. CASE p \in Admins
  <2>1. Wall!Moderate(tx[p].request)
    BY <1>2, <1>4, CommitModerates
  <2>2. db.postcards \in Seq(Postcard)
    BY <1>1 DEF Tables
  <2>3. Len(db'.postcards) = Len(db.postcards)
    BY <2>1, <2>2 DEF Wall!Moderate
  <2>4. QED
    BY <2>2, <2>3 DEF Accepts
<1>5. QED
  BY <1>2, <1>3, <1>4 DEF Processes

(***************************************************************************)
(* THEOREM  No postcard is accepted that repeats the newest postcard on    *)
(* the wall at that moment.                                                *)
(***************************************************************************)
THEOREM NeverRepeats == Spec => NoConsecutiveRepeat
<1> DEFINE Fresh ==
      Accepts =>
         \A id \in Visible(db.postcards) :
            (\A other \in Visible(db.postcards) : other <= id) =>
               \/ db.postcards[id].pixels # Accepted.pixels
               \/ db.postcards[id].palette # Accepted.palette
<1>1. IInv /\ [Next]_vars => Fresh
  <2>1. SUFFICES ASSUME IInv, [Next]_vars, Accepts,
                        NEW id \in Visible(db.postcards),
                        \A other \in Visible(db.postcards) : other <= id
                 PROVE  \/ db.postcards[id].pixels # Accepted.pixels
                        \/ db.postcards[id].palette # Accepted.palette
    OBVIOUS
  <2>2. PICK draft \in Draft : /\ Accepted = NewPostcard(draft)
                              /\ ~RepeatsLatest(db.postcards, draft)
    BY <2>1, Acceptance
  <2>3. Accepted.pixels = draft.pixels /\ Accepted.palette = draft.palette
    BY <2>2 DEF NewPostcard
  <2>4. QED
    BY <2>1, <2>2, <2>3 DEF RepeatsLatest
<1>2. IInv /\ [Next]_vars => [Fresh]_vars
  BY <1>1
<1>3. QED
  BY <1>2, Invariant, PTL DEF Spec, NoConsecutiveRepeat

(***************************************************************************)
(* THEOREM  A remix is accepted only while its parent is on the wall.      *)
(***************************************************************************)
THEOREM RemixesVisible == Spec => RemixOfVisible
<1> DEFINE Rooted == Accepts => \/ Accepted.parent = NoParent
                               \/ Accepted.parent \in Visible(db.postcards)
<1>1. IInv /\ [Next]_vars => Rooted
  <2>1. SUFFICES ASSUME IInv, [Next]_vars, Accepts
                 PROVE  \/ Accepted.parent = NoParent
                        \/ Accepted.parent \in Visible(db.postcards)
    OBVIOUS
  <2>2. PICK draft \in Draft : /\ Accepted = NewPostcard(draft)
                              /\ ParentVisible(db.postcards, draft.parent)
    BY <2>1, Acceptance
  <2>3. Accepted.parent = draft.parent
    BY <2>2 DEF NewPostcard
  <2>4. QED
    BY <2>2, <2>3 DEF ParentVisible
<1>2. IInv /\ [Next]_vars => [Rooted]_vars
  BY <1>1
<1>3. QED
  BY <1>2, Invariant, PTL DEF Spec, RemixOfVisible

-----------------------------------------------------------------------------
(***************************************************************************)
(* THEOREM  In every committed state the status column and the moderation  *)
(* log agree, the log is a history, and remix chains lead to older         *)
(* postcards: the Gallery's theorems, through the implementation.          *)
(***************************************************************************)
GalleryTheorems == INSTANCE GalleryProofs
                   WITH postcards <- db.postcards, events <- db.events

LEMMA SameNext ==
    [Wall!Next]_Wall!vars => [GalleryTheorems!Next]_GalleryTheorems!vars
BY DEF Wall!Next, Wall!vars, Wall!Publish, Wall!Moderate, Wall!ParentVisible,
       Wall!RepeatsLatest, Wall!NewPostcard, Wall!Visible, Wall!NoParent,
       Wall!Matches, Wall!From, Wall!To, Wall!Draft, Wall!Verdict,
       GalleryTheorems!Next, GalleryTheorems!vars, GalleryTheorems!Publish,
       GalleryTheorems!Moderate, GalleryTheorems!ParentVisible,
       GalleryTheorems!RepeatsLatest, GalleryTheorems!NewPostcard,
       GalleryTheorems!Visible, GalleryTheorems!NoParent,
       GalleryTheorems!Matches, GalleryTheorems!From, GalleryTheorems!To,
       GalleryTheorems!Draft, GalleryTheorems!Verdict

LEMMA StoreIsGallery == Spec => GalleryTheorems!Spec
<1>1. Init => GalleryTheorems!Init
  BY DEF Init, GalleryTheorems!Init, EmptyTables
<1>2. IInv /\ [Next]_vars => [GalleryTheorems!Next]_GalleryTheorems!vars
  BY StepImplements, SameNext
<1>3. QED
  BY <1>1, <1>2, Invariant, PTL DEF Spec, GalleryTheorems!Spec

THEOREM StoreLog == Spec => [](StatusMatchesLog /\ LogAlternates)
<1>1. GalleryTheorems!StatusMatchesLog => StatusMatchesLog
  BY DEF StatusMatchesLog, Wall!StatusMatchesLog, Wall!EventsOf,
         Wall!IsLastEventOf, Wall!To, GalleryTheorems!StatusMatchesLog,
         GalleryTheorems!EventsOf, GalleryTheorems!IsLastEventOf, GalleryTheorems!To
<1>2. GalleryTheorems!LogAlternates => LogAlternates
  BY DEF LogAlternates, Wall!LogAlternates, Wall!EventsOf,
         GalleryTheorems!LogAlternates, GalleryTheorems!EventsOf
<1>3. GalleryTheorems!Spec =>
        [](GalleryTheorems!StatusMatchesLog /\ GalleryTheorems!LogAlternates)
  BY TableAssumption, GalleryTheorems!LogCorrect, PTL
<1>4. QED
  BY <1>1, <1>2, <1>3, StoreIsGallery, PTL

THEOREM StoreParents == Spec => []ParentsAreOlder
<1>1. GalleryTheorems!ParentsAreOlder => ParentsAreOlder
  BY DEF ParentsAreOlder, Wall!ParentsAreOlder, Wall!NoParent,
         GalleryTheorems!ParentsAreOlder, GalleryTheorems!NoParent
<1>2. GalleryTheorems!Spec => []GalleryTheorems!ParentsAreOlder
  BY TableAssumption, GalleryTheorems!ParentsOlder, PTL
<1>3. QED
  BY <1>1, <1>2, StoreIsGallery, PTL
=============================================================================
