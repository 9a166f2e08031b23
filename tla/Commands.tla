------------------------------ MODULE Commands ------------------------------
(***************************************************************************)
(* The processes that run the pixelgrama binary on one data directory: the *)
(* web server, `pixelgrama backup` and `pixelgrama admin`.                 *)
(*                                                                         *)
(* Each runs main(): it reads its configuration, prepares the directory,   *)
(* gives up root, opens the database and does its command.  The processes  *)
(* share the directory, the database and the backup's destination and know *)
(* nothing of each other.  Every failure ends a process (log.Fatalf), and  *)
(* a crash can do so at any time, so that both are one action, Fail.       *)
(*                                                                         *)
(* SQLite and the kernel are modelled as the code uses them.  VACUUM INTO  *)
(* copies one committed state into a file that does not exist or is empty, *)
(* and refuses any other; it leaves a partial file if it is interrupted.   *)
(***************************************************************************)
EXTENDS Naturals, Sequences

CONSTANTS Processes,      \* runs of the binary; a restart is one more
          Requests,       \* POST /postcard, as the web server gets them
          RuntimeID,      \* 10001
          Users,          \* who may start the binary
          MaxPostcards    \* bound of the model on the postcards

Root == 0
CurrentSchemaVersion == 4

ASSUME CommandsAssumption == RuntimeID \in Nat \ {Root} /\ Users \subseteq Nat

VARIABLES
    directory,  \* the owner of the data directory, as a set; {} if there is none
    database,   \* the committed state of the database
    file,       \* the file at the destination of the backups
    process,    \* the processes
    request,    \* the requests of the web server
    reported,   \* for each "backup verified": Commits when its command began
    audit       \* the processes whose audit line was written

vars == <<directory, database, file, process, request, reported, audit>>

Statuses == {"visible", "hidden"}

(* The postcards' moderation states, and by whom each event was appended.  *)
Database == [version : Nat, postcards : Seq(Statuses), events : Seq(Processes)]
Fresh == [version |-> 0, postcards |-> <<>>, events |-> <<>>]

(* The number of commits so far: every one of them adds a row. *)
Commits(db) == Len(db.postcards) + Len(db.events)

File == [kind : {"absent", "empty", "partial", "whole"}, content : Database]
NoFile == [kind |-> "absent", content |-> Fresh]

Preparing == {"config", "mkdir", "chmod", "chown", "setgroups", "setgid",
              "setuid", "geteuid"}
Working == {"dispatch", "opened", "ready", "listening", "closing", "checked",
            "writing", "written", "rejected", "committed", "encoded"}
Ended == {"done", "failed"}
Names == {"serve", "backup", "hide", "restore", "list", "unknown"}

(* `signal` is how far the server has got with SIGTERM, `begun` Commits    *)
(* when the command began, `copy` what VACUUM INTO copies, `id` the flag,  *)
(* `user` who started the process.                                         *)
Process == [command : Names, phase : {"unborn"} \cup Preparing \cup Working \cup Ended,
            user : Nat, uid : Nat, gid : Nat, groups : SUBSET Nat, id : Nat, begun : Nat,
            signal : {"none", "sent", "shutdown", "expired"}, copy : Database]

Unborn == [command |-> "unknown", phase |-> "unborn", user |-> Root, uid |-> Root, gid |-> Root,
           groups |-> {}, id |-> 0, begun |-> 0, signal |-> "none", copy |-> Fresh]

Request == [phase : {"none", "accepted", "committed", "answered", "lost"},
            by : Processes]

InFlight(p) == {r \in Requests : /\ request[r].by = p
                                 /\ request[r].phase \in {"accepted", "committed"}}

Init == /\ \/ database = Fresh /\ directory \in {{}, {RuntimeID}}
           \/ /\ database = [Fresh EXCEPT !.version = CurrentSchemaVersion,
                                          !.postcards = <<"visible">>]
              /\ directory = {RuntimeID}
        /\ file = NoFile
        /\ process = [p \in Processes |-> Unborn]
        /\ request \in [Requests -> {[phase |-> "none", by |-> p] : p \in Processes}]
        /\ reported = {} /\ audit = {}

-----------------------------------------------------------------------------
(* Steps of one process. *)
At(p, phase) == process[p].phase = phase
Does(p, command, phase) == process[p].command = command /\ process[p].phase = phase
Alive(p) == process[p].phase \in Preparing \cup Working

To(p, phase) ==
    process' = [process EXCEPT ![p].phase = phase] /\ UNCHANGED request

(* The process is gone, and with it what its handlers were doing. *)
End(p, phase) ==
    /\ process' = [process EXCEPT ![p].phase = phase, ![p].signal = "none"]
    /\ request' = [r \in Requests |-> IF r \in InFlight(p)
                                      THEN [request[r] EXCEPT !.phase = "lost"]
                                      ELSE request[r]]

(* log.Fatalf after a failed call or a bad argument, or a crash. *)
Fail(p) ==
    /\ Alive(p) /\ End(p, "failed")
    /\ UNCHANGED <<directory, database, file, reported, audit>>

Start(p, command, user, id) ==
    /\ At(p, "unborn")
    /\ process' = [process EXCEPT ![p] =
           [Unborn EXCEPT !.command = command, !.phase = "config", !.user = user,
                          !.uid = user, !.gid = user, !.groups = {user}, !.id = id,
                          !.begun = Commits(database)]]
    /\ UNCHANGED <<directory, database, file, request, reported, audit>>

(* loadConfig: one bad value in the environment is a failure. *)
LoadConfig(p) ==
    /\ At(p, "config") /\ To(p, "mkdir")
    /\ UNCHANGED <<directory, database, file, reported, audit>>

-----------------------------------------------------------------------------
(* prepareRuntime. *)
MkdirAll(p) ==
    /\ At(p, "mkdir")
    /\ directory' = IF directory = {} THEN {process[p].uid} ELSE directory
    /\ \/ process[p].uid = Root /\ To(p, "chmod")
       \/ process[p].uid # Root /\ To(p, "dispatch")

(* Mutant of Call: the error of a system call is logged only. *)
CallAnyway(p, phase, after, new) ==
    /\ At(p, phase)
    /\ \/ process' = [process EXCEPT ![p] = [new EXCEPT !.phase = after]]
       \/ process' = [process EXCEPT ![p].phase = after]

(* A system call that needs root: it may fail (Fail), and then the process *)
(* does not go on.                                                         *)
Call(p, phase, after, new) ==
    /\ At(p, phase) /\ process[p].uid = Root
    /\ process' = [process EXCEPT ![p] = [new EXCEPT !.phase = after]]

Chown(p) ==
    /\ Call(p, "chown", "setgroups", process[p])
    /\ directory' = {RuntimeID}

DropPrivileges(p) ==
    /\ \/ Call(p, "chmod", "chown", process[p])
       \/ Call(p, "setgroups", "setgid", [process[p] EXCEPT !.groups = {}])
       \/ Call(p, "setgid", "setuid", [process[p] EXCEPT !.gid = RuntimeID])
       \/ Call(p, "setuid", "geteuid", [process[p] EXCEPT !.uid = RuntimeID])
    /\ UNCHANGED directory

CheckUser(p) ==
    /\ At(p, "geteuid") /\ process[p].uid = RuntimeID
    /\ To(p, "dispatch") /\ UNCHANGED directory

PrepareRuntime(p) ==
    /\ MkdirAll(p) \/ CheckUser(p) \/ (UNCHANGED request /\ (Chown(p) \/ DropPrivileges(p)))
    /\ UNCHANGED <<database, file, reported, audit>>

-----------------------------------------------------------------------------
(* store.Open: it migrates an older schema (SchemaMigration has the steps) *)
(* and refuses a newer one.                                                *)
Open(p) ==
    /\ At(p, "dispatch") /\ process[p].command # "unknown"
    /\ database.version <= CurrentSchemaVersion
    /\ database' = [database EXCEPT !.version = CurrentSchemaVersion]
    /\ To(p, "opened")
    /\ UNCHANGED <<directory, file, reported, audit>>

(* External: a newer release of the binary migrates the schema. *)
Upgrade ==
    /\ database.version = CurrentSchemaVersion
    /\ database' = [database EXCEPT !.version = CurrentSchemaVersion + 1]
    /\ UNCHANGED <<directory, file, process, request, reported, audit>>

-----------------------------------------------------------------------------
(* pixelgrama: the web server.  app.New, and signal.NotifyContext. *)
Configure(p) == Does(p, "serve", "opened") /\ To(p, "ready")

(* ListenAndServe; once Shutdown was called it returns ErrServerClosed. *)
ListenAndServe(p) ==
    /\ At(p, "ready")
    /\ \/ process[p].signal \in {"none", "sent"} /\ To(p, "listening")
       \/ process[p].signal \in {"shutdown", "expired"} /\ To(p, "closing")

(* SIGTERM or SIGINT; before NotifyContext it just ends the process. *)
Signal(p) ==
    /\ process[p].command = "serve" /\ Alive(p) /\ process[p].signal = "none"
    /\ \/ /\ process[p].phase \in {"ready", "listening"}
          /\ process' = [process EXCEPT ![p].signal = "sent"]
          /\ UNCHANGED request
       \/ process[p].phase \notin {"ready", "listening"} /\ End(p, "failed")

(* The goroutine of main calls Shutdown: the listener is closed, and       *)
(* ListenAndServe returns without waiting for it.                          *)
Shutdown(p) ==
    /\ process[p].signal = "sent"
    /\ process' = [process EXCEPT ![p].signal = "shutdown",
                                  ![p].phase = IF @ = "listening" THEN "closing" ELSE @]
    /\ UNCHANGED request

(* Ten seconds later Shutdown gives up. *)
GraceExpires(p) ==
    /\ process[p].signal = "shutdown"
    /\ process' = [process EXCEPT ![p].signal = "expired"]
    /\ UNCHANGED request

(* Mutant of Return: main waits until Shutdown has seen every handler end. *)
ReturnWhenIdle(p) == At(p, "closing") /\ InFlight(p) = {} /\ End(p, "done")

(* The deferred database.Close(), and the end of main. *)
Return(p) == At(p, "closing") /\ End(p, "done")

Serve(p) ==
    /\ Configure(p) \/ ListenAndServe(p) \/ Shutdown(p) \/ Return(p)
    /\ UNCHANGED <<directory, database, file, reported, audit>>

(* What comes from outside: the signal and the time. *)
Outside(p) ==
    /\ Signal(p) \/ GraceExpires(p)
    /\ UNCHANGED <<directory, database, file, reported, audit>>

(* The server's handlers, and how far each has got. *)
Handling(r, phase) ==
    /\ request[r].phase = phase
    /\ process[request[r].by].phase \in {"listening", "closing"}

Becomes(r, phase) == request' = [request EXCEPT ![r].phase = phase]

Accept(r) ==
    /\ request[r].phase = "none" /\ At(request[r].by, "listening")
    /\ Becomes(r, "accepted") /\ UNCHANGED database

Commit(r) ==
    /\ Handling(r, "accepted") /\ Len(database.postcards) < MaxPostcards
    /\ database' = [database EXCEPT !.postcards = Append(@, "visible")]
    /\ Becomes(r, "committed")

(* An accepted request may also be refused. *)
Answer(r) ==
    /\ Handling(r, "accepted") \/ Handling(r, "committed")
    /\ Becomes(r, "answered") /\ UNCHANGED database

Handle(r) ==
    /\ Accept(r) \/ Commit(r) \/ Answer(r)
    /\ UNCHANGED <<directory, file, process, reported, audit>>

-----------------------------------------------------------------------------
(* pixelgrama backup --output. *)
Stat(p) ==
    /\ Does(p, "backup", "opened")
    /\ file.kind = "absent" /\ To(p, "checked")
    /\ UNCHANGED <<file, reported>>

VacuumBegins(p) ==
    /\ At(p, "checked") /\ file.kind \in {"absent", "empty"}
    /\ file' = [file EXCEPT !.kind = "empty"]
    /\ process' = [process EXCEPT ![p].phase = "writing", ![p].copy = database]
    /\ UNCHANGED <<request, reported>>

VacuumEnds(p) ==
    /\ At(p, "writing") /\ file.kind = "empty"
    /\ file' = [kind |-> "whole", content |-> process[p].copy]
    /\ To(p, "written") /\ UNCHANGED reported

(* Mutant of VacuumFails: the destination is removed like after a failed   *)
(* verification.                                                           *)
VacuumFailsAndRemoves(p) ==
    /\ process[p].phase \in {"checked", "writing"}
    /\ file' = NoFile /\ End(p, "failed") /\ UNCHANGED reported

(* An interrupted copy stays; any other failure leaves the file as it is.  *)
VacuumFails(p) ==
    /\ At(p, "writing") /\ file.kind = "empty"
    /\ file' = [file EXCEPT !.kind = "partial"]
    /\ End(p, "failed") /\ UNCHANGED reported

(* verifyBackup: the file is a database of this schema version.  It may    *)
(* also fail for another reason.                                           *)
Verify(p) ==
    /\ At(p, "written")
    /\ \/ /\ file.kind = "whole" /\ file.content.version = CurrentSchemaVersion
          /\ reported' = reported \cup {process[p].begun}
          /\ End(p, "done")
       \/ To(p, "rejected") /\ UNCHANGED reported
    /\ UNCHANGED file

Remove(p) ==
    /\ At(p, "rejected")
    /\ file' = NoFile /\ End(p, "failed") /\ UNCHANGED reported

Backup(p) ==
    /\ Stat(p) \/ VacuumBegins(p) \/ VacuumEnds(p) \/ VacuumFails(p) \/ Verify(p) \/ Remove(p)
    /\ UNCHANGED <<directory, database, audit>>

(* External: the operator removes what a failed backup left. *)
CleanUp ==
    /\ file.kind \in {"empty", "partial"}
    /\ \A p \in Processes : process[p].command = "backup" => ~Alive(p)
    /\ file' = NoFile
    /\ UNCHANGED <<directory, database, process, request, reported, audit>>

-----------------------------------------------------------------------------
(* pixelgrama admin. *)
From(command) == IF command = "hide" THEN "visible" ELSE "hidden"

(* Mutant of Into: the action is stored in place of the status. *)
CommandAsStatus(command) == command

Into(command) == IF command = "hide" THEN "hidden" ELSE "visible"

(* Mutant of Moderate: the error of Hide and Restore is not looked at. *)
ModerateOrNot(p) ==
    /\ process[p].command \in {"hide", "restore"} /\ At(p, "opened")
    /\ UNCHANGED <<database, audit>>
    /\ To(p, "committed")

(* Hide or Restore, in one transaction; an id that is not there, or is in  *)
(* that state already, is an error.                                        *)
Moderate(p) ==
    /\ process[p].command \in {"hide", "restore"} /\ At(p, "opened")
    /\ process[p].id \in DOMAIN database.postcards
    /\ database.postcards[process[p].id] = From(process[p].command)
    /\ database' = [database EXCEPT
           !.postcards = [@ EXCEPT ![process[p].id] = Into(process[p].command)],
           !.events = Append(@, p)]
    /\ To(p, "committed") /\ UNCHANGED audit

(* The result goes to the output; if that fails, the change stays made. *)
Encode(p) == At(p, "committed") /\ To(p, "encoded") /\ UNCHANGED <<database, audit>>

(* The audit line; nobody looks whether it could be written. *)
Audit(p) ==
    /\ At(p, "encoded")
    /\ audit' \in {audit, audit \cup {p}}
    /\ End(p, "done") /\ UNCHANGED database

List(p) == Does(p, "list", "opened") /\ End(p, "done") /\ UNCHANGED <<database, audit>>

Admin(p) ==
    /\ Moderate(p) \/ Encode(p) \/ Audit(p) \/ List(p)
    /\ UNCHANGED <<directory, file, reported>>

-----------------------------------------------------------------------------
Step(p) == LoadConfig(p) \/ PrepareRuntime(p) \/ Open(p) \/ Serve(p) \/ Backup(p) \/ Admin(p)

Next ==
    \/ \E p \in Processes :
          \/ \E command \in Names, user \in Users : Start(p, command, user, 1)
          \/ Step(p) \/ Outside(p) \/ Fail(p)
    \/ \E r \in Requests : Handle(r)
    \/ Upgrade \/ CleanUp

Spec == Init /\ [][Next]_vars

(* The goroutines of a running server go on; no handler has to come to an  *)
(* end, and nothing has to be started or signalled.                        *)
FairSpec == Spec /\ \A p \in Processes : WF_vars(Serve(p))

-----------------------------------------------------------------------------
(* The values are those of the declarations, and a request is in flight    *)
(* only in a server that runs.                                             *)
TypeOK ==
    /\ directory \subseteq Nat
    /\ database \in Database /\ file \in File
    /\ process \in [Processes -> Process] /\ request \in [Requests -> Request]
    /\ reported \subseteq Nat /\ audit \subseteq Processes
    /\ \A p \in Processes : InFlight(p) # {} => process[p].phase \in {"listening", "closing"}

(* No process that was started as root gets to the database before it has  *)
(* given up the user, the group and the supplementary groups, and the      *)
(* directory belongs to the user that it became: whichever of the system   *)
(* calls fails.                                                            *)
RunsUnprivileged ==
    \A p \in Processes :
        process[p].phase \in Working /\ process[p].user = Root =>
            /\ process[p].uid = RuntimeID /\ process[p].gid = RuntimeID
            /\ process[p].groups = {} /\ directory = {RuntimeID}

(* "backup verified" is true, and stays true whatever other backups to the *)
(* same destination do or leave behind: the file is a whole copy, of this  *)
(* schema, of a state no older than the command.                           *)
VerifiedBackupsLast ==
    \A begun \in reported :
        /\ file.kind = "whole" /\ file.content.version = CurrentSchemaVersion
        /\ begun <= Commits(file.content)

(* An administrator who sees a command succeed, or reads its audit line,   *)
(* can rely on it: the command has made its change, and no other one.      *)
EventsOf(p) == {i \in DOMAIN database.events : database.events[i] = p}

ReportsAreTrue ==
    \A p \in Processes :
        /\ \A i, j \in EventsOf(p) : i = j
        /\ p \in audit => EventsOf(p) # {}
        /\ process[p].command \in {"hide", "restore"} /\ process[p].phase = "done" =>
              EventsOf(p) # {}

(* A server stops once it has been told to, whatever its handlers do. *)
StopsOnSignal ==
    \A p \in Processes : process[p].signal = "sent" ~> process[p].phase \in Ended

(* main.go:83 and 86: a "graceful shutdown" gives the handlers ten seconds *)
(* to answer what the server has accepted.                                 *)
ShutdownIsGraceful ==
    [][\A p \in Processes :
          /\ process[p].phase = "closing" /\ process'[p].phase = "done"
          /\ process[p].signal = "shutdown"
          => InFlight(p) = {}]_vars
=============================================================================
