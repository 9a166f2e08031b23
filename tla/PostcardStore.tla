--------------------------- MODULE PostcardStore ---------------------------
(***************************************************************************)
(* internal/store on one SQLite file in WAL mode, opened by several        *)
(* processes at once: web servers, which publish, and `pixelgrama admin`   *)
(* commands, which hide and restore.                                       *)
(*                                                                         *)
(* Open gives each process ONE connection (SetMaxOpenConns(1)), so inside  *)
(* a process transactions run one after the other; between processes they  *)
(* interleave statement by statement.  BeginTx opens a DEFERRED            *)
(* transaction: the first SELECT fixes the snapshot every later SELECT     *)
(* reads, and the first write asks for the file's single writer lock.  A   *)
(* transaction that has already read cannot become the writer if the lock  *)
(* is taken or if anything was committed since its snapshot; it fails at   *)
(* once (SQLITE_BUSY, SQLITE_BUSY_SNAPSHOT).  One whose first statement is *)
(* a write waits for the lock, up to busy_timeout, and then reads the      *)
(* newest state.                                                           *)
(***************************************************************************)
EXTENDS PostcardTables

CONSTANTS Servers,       \* processes that run InsertWithPalette
          Admins,        \* processes that run Hide and Restore
          NoProcess,     \* the writer lock is free
          NoRequest,     \* no transaction is open
          MaxPostcards,  \* bound of the model: no publication starts above it
          MaxEvents      \* bound of the model: no moderation starts above it

Processes == Servers \cup Admins

ASSUME ProcessAssumption == /\ Servers \cap Admins = {}
                            /\ NoProcess \notin Processes
                            /\ NoRequest \notin Draft \cup Verdict

VARIABLES
    db,      \* the committed tables
    writer,  \* the process that holds the writer lock
    tx       \* the transaction on each process's connection

vars == <<db, writer, tx>>

(* "begun" has read nothing yet; "parentChecked" and "checked" hold a      *)
(* snapshot in `view`; the last three hold the writer lock, and `view` is  *)
(* the snapshot with the transaction's own writes.                         *)
WritePhases == {"updated", "unmatched", "written"}
Phases == {"idle", "begun", "parentChecked", "checked"} \cup WritePhases

Transaction == [phase : Phases, view : Tables,
                request : Draft \cup Verdict \cup {NoRequest}]

Idle == [phase |-> "idle", request |-> NoRequest, view |-> EmptyTables]

Init == /\ db = EmptyTables
        /\ writer = NoProcess
        /\ tx = [p \in Processes |-> Idle]

-----------------------------------------------------------------------------
(* BeginTx(ctx, nil): nothing is read and no lock is taken. *)
Begin(p, request) ==
    /\ tx[p].phase = "idle"
    /\ tx' = [tx EXCEPT ![p] = [Idle EXCEPT !.phase = "begun", !.request = request]]
    /\ UNCHANGED <<db, writer>>

(* Commit or Rollback: the connection is free again, and so is the lock if *)
(* this transaction held it.                                               *)
End(p) ==
    /\ tx' = [tx EXCEPT ![p] = Idle]
    /\ writer' = IF writer = p THEN NoProcess ELSE writer

(* Mutant of Snapshot: SELECTs on s.db, each outside the transaction. *)
NewestState(p) == db

(* The state a SELECT of p reads: the snapshot, fixed now if there is none. *)
Snapshot(p) == IF tx[p].phase = "begun" THEN db ELSE tx[p].view

(* Mutant of MayUpgrade: a stale snapshot may be written back. *)
LockIsFree(p) == writer = NoProcess

(* A transaction that has read may write only on the newest state. *)
MayUpgrade(p) == writer = NoProcess /\ tx[p].view = db

-----------------------------------------------------------------------------
(* Store.InsertWithPalette. *)
BeginPublish(p, draft) ==
    /\ Len(db.postcards) < MaxPostcards
    /\ Begin(p, draft)

(* SELECT 1 FROM postcards WHERE id = ? AND moderation_status = 'visible', *)
(* run only for a remix; ErrParentNotFound ends the transaction.           *)
CheckParent(p) ==
    /\ tx[p].phase = "begun"
    /\ tx[p].request.parent # NoParent
    /\ \/ /\ ParentVisible(Snapshot(p).postcards, tx[p].request.parent)
          /\ tx' = [tx EXCEPT ![p].phase = "parentChecked", ![p].view = Snapshot(p)]
          /\ UNCHANGED <<db, writer>>
       \/ /\ ~ParentVisible(Snapshot(p).postcards, tx[p].request.parent)
          /\ End(p)
          /\ UNCHANGED db

(* The newest visible postcard is read and compared; ErrDuplicate ends the *)
(* transaction.                                                            *)
CheckLatest(p) ==
    /\ \/ tx[p].phase = "begun" /\ tx[p].request.parent = NoParent
       \/ tx[p].phase = "parentChecked"
    /\ \/ /\ ~RepeatsLatest(Snapshot(p).postcards, tx[p].request)
          /\ tx' = [tx EXCEPT ![p].phase = "checked", ![p].view = Snapshot(p)]
          /\ UNCHANGED <<db, writer>>
       \/ /\ RepeatsLatest(Snapshot(p).postcards, tx[p].request)
          /\ End(p)
          /\ UNCHANGED db

(* INSERT INTO postcards: the transaction becomes the writer. *)
InsertPostcard(p) ==
    /\ tx[p].phase = "checked"
    /\ MayUpgrade(p)
    /\ writer' = p
    /\ tx' = [tx EXCEPT ![p].phase = "written",
                        ![p].view = WithPostcard(@, tx[p].request)]
    /\ UNCHANGED db

(* Mutant of InsertRefused: the INSERT is repeated in the same transaction *)
(* until it succeeds.                                                      *)
InsertRepeated(p) ==
    /\ tx[p].phase = "checked"
    /\ ~MayUpgrade(p)
    /\ UNCHANGED vars

(* The same INSERT when it may not: SQLITE_BUSY, and a 500 to the visitor. *)
InsertRefused(p) ==
    /\ tx[p].phase = "checked"
    /\ ~MayUpgrade(p)
    /\ End(p)
    /\ UNCHANGED db

-----------------------------------------------------------------------------
(* Store.setModeration, for Hide and for Restore. *)
BeginModeration(p, verdict) ==
    /\ Len(db.events) < MaxEvents
    /\ Begin(p, verdict)

(* Mutant of UpdateStatus: the UPDATE commits by itself. *)
UpdateAtOnce(p) ==
    /\ tx[p].phase = "begun"
    /\ writer = NoProcess
    /\ writer' = p
    /\ Matches(db.postcards, tx[p].request)
    /\ db' = WithStatus(db, tx[p].request)
    /\ tx' = [tx EXCEPT ![p].phase = "updated",
                        ![p].view = WithStatus(db, tx[p].request)]

(* The UPDATE waits for the lock, then runs on the newest state.           *)
UpdateStatus(p) ==
    /\ tx[p].phase = "begun"
    /\ writer = NoProcess
    /\ writer' = p
    /\ \/ /\ Matches(db.postcards, tx[p].request)
          /\ tx' = [tx EXCEPT ![p].phase = "updated",
                              ![p].view = WithStatus(db, tx[p].request)]
       \/ /\ ~Matches(db.postcards, tx[p].request)
          /\ tx' = [tx EXCEPT ![p].phase = "unmatched", ![p].view = db]
    /\ UNCHANGED db

(* The lock did not come within busy_timeout. *)
UpdateTimesOut(p) ==
    /\ tx[p].phase = "begun"
    /\ writer # NoProcess
    /\ End(p)
    /\ UNCHANGED db

(* changed # 1: ErrPostcardNotFound or ErrModerationState, and a rollback. *)
RefuseModeration(p) ==
    /\ tx[p].phase = "unmatched"
    /\ End(p)
    /\ UNCHANGED db

(* INSERT INTO moderation_events. *)
RecordEvent(p) ==
    /\ tx[p].phase = "updated"
    /\ tx' = [tx EXCEPT ![p].phase = "written",
                        ![p].view = WithEvent(@, tx[p].request)]
    /\ UNCHANGED <<db, writer>>

-----------------------------------------------------------------------------
(* tx.Commit(): every write of the transaction at once. *)
Commit(p) ==
    /\ tx[p].phase = "written"
    /\ db' = tx[p].view
    /\ End(p)

(* `defer tx.Rollback()`: a statement failed, the request's context was    *)
(* cancelled, or the process died and SQLite discarded its WAL frames.     *)
Abort(p) ==
    /\ tx[p].phase # "idle"
    /\ End(p)
    /\ UNCHANGED db

PublishStep(p) == \/ CheckParent(p) \/ CheckLatest(p)
                  \/ InsertPostcard(p) \/ InsertRefused(p) \/ Commit(p)

ModerationStep(p) == \/ UpdateStatus(p) \/ UpdateTimesOut(p)
                     \/ RefuseModeration(p) \/ RecordEvent(p) \/ Commit(p)

Next ==
    \/ \E p \in Servers :
          \/ \E draft \in Draft : BeginPublish(p, draft)
          \/ PublishStep(p)
    \/ \E p \in Admins :
          \/ \E verdict \in Verdict : BeginModeration(p, verdict)
          \/ ModerationStep(p)
    \/ \E p \in Processes : Abort(p)

Spec == Init /\ [][Next]_vars

(* A started transaction runs its next statement: nothing in the code      *)
(* waits between two statements.  Nobody has to start one, or abort one.   *)
FairSpec == /\ Spec
            /\ \A p \in Servers : WF_vars(PublishStep(p))
            /\ \A p \in Admins : WF_vars(ModerationStep(p))

-----------------------------------------------------------------------------
TypeOK ==
    /\ db \in Tables
    /\ writer \in Processes \cup {NoProcess}
    /\ tx \in [Processes -> Transaction]

(* The writer lock is held by exactly the transaction that is writing. *)
OneWriter == \A p \in Processes : tx[p].phase \in WritePhases <=> writer = p

(* What the statements run so far have established.  Until the INSERT a    *)
(* publication knows its checks hold in its snapshot; from then on they    *)
(* hold in the committed tables, and what it will commit is those tables   *)
(* with its row, so nobody's commit is lost.                               *)
PublishSound(t, committed) ==
    /\ t.phase \in {"idle", "begun", "parentChecked", "checked", "written"}
    /\ t.phase # "idle" => t.request \in Draft
    /\ t.phase \in {"parentChecked", "checked"} =>
          ParentVisible(t.view.postcards, t.request.parent)
    /\ t.phase = "checked" => ~RepeatsLatest(t.view.postcards, t.request)
    /\ t.phase = "written" =>
          /\ ParentVisible(committed.postcards, t.request.parent)
          /\ ~RepeatsLatest(committed.postcards, t.request)
          /\ t.view = WithPostcard(committed, t.request)

(* A moderation action holds the lock from its first statement on, so what *)
(* it matched and what it will commit are the committed tables'.           *)
ModerationSound(t, committed) ==
    /\ t.phase \in {"idle", "begun", "updated", "unmatched", "written"}
    /\ t.phase # "idle" => t.request \in Verdict
    /\ t.phase \in {"updated", "written"} => Matches(committed.postcards, t.request)
    /\ t.phase = "updated" => t.view = WithStatus(committed, t.request)
    /\ t.phase = "written" =>
          t.view = WithEvent(WithStatus(committed, t.request), t.request)

(* No transaction is ever about to commit something built on tables that   *)
(* are no longer the committed ones.                                       *)
TransactionsSound ==
    /\ \A p \in Servers : PublishSound(tx[p], db)
    /\ \A p \in Admins : ModerationSound(tx[p], db)

-----------------------------------------------------------------------------
(* The postcard a step adds, if it adds one, is the last row.              *)
Accepts == Len(db'.postcards) > Len(db.postcards)
Accepted == db'.postcards[Len(db'.postcards)]

(* When a postcard is accepted, the postcard that is then the newest on    *)
(* the wall differs from it in drawing or palette, even if another process *)
(* published, hid or restored between the check and the INSERT.            *)
NoConsecutiveRepeat ==
    [][Accepts =>
         \A id \in Visible(db.postcards) :
            (\A other \in Visible(db.postcards) : other <= id) =>
               \/ db.postcards[id].pixels # Accepted.pixels
               \/ db.postcards[id].palette # Accepted.palette]_vars

(* A remix enters the wall only while its parent is on the wall: a parent  *)
(* hidden between the check and the INSERT keeps the remix out.            *)
RemixOfVisible ==
    [][Accepts => \/ Accepted.parent = NoParent
                  \/ Accepted.parent \in Visible(db.postcards)]_vars

(* The store, with its transactions and its lock, does what the Gallery    *)
(* promises; the Gallery's invariants are then the store's.                *)
Wall == INSTANCE Gallery WITH postcards <- db.postcards, events <- db.events

ImplementsGallery == Wall!Spec

(* The status column and the moderation log agree in every committed state. *)
StatusMatchesLog == Wall!StatusMatchesLog

(* The committed log is a history of hides and restores that undo them.    *)
LogAlternates == Wall!LogAlternates

(* Committed remix chains lead to older and older postcards. *)
ParentsAreOlder == Wall!ParentsAreOlder

(* Every transaction that begins ends: no process waits for ever for the   *)
(* writer lock, and none keeps it.                                         *)
TransactionsEnd == \A p \in Processes : tx[p].phase # "idle" ~> tx[p].phase = "idle"
=============================================================================
