--------------------------- MODULE CommandsProofs ---------------------------
(***************************************************************************)
(* Proofs about Commands, for any number of processes and requests, any    *)
(* users that start them and any bound on the postcards.                   *)
(***************************************************************************)
EXTENDS Commands, TLAPS

Phases == {"unborn"} \cup Preparing \cup Working \cup Ended

(* Facts about the records of one process. *)
LEMMA UnbornTyped == Unborn \in Process /\ NoFile \in File /\ Fresh \in Database
<1>1. \A S : <<>> \in Seq(S)
  OBVIOUS
<1>2. Fresh \in Database
  BY <1>1 DEF Fresh, Database
<1> QED
  BY <1>2 DEF Unborn, NoFile, Process, File, Root, Names

(* A step of p that changes its record only within its type. *)
LEMMA OneProcess ==
    ASSUME process \in [Processes -> Process], NEW p \in Processes, NEW new \in Process
    PROVE  [process EXCEPT ![p] = new] \in [Processes -> Process]
OBVIOUS

LEMMA WithPhase ==
    ASSUME NEW old \in Process, NEW phase \in Phases
    PROVE  [old EXCEPT !.phase = phase] \in Process
BY DEF Process, Phases

LEMMA ToTyped ==
    ASSUME TypeOK, NEW p \in Processes, NEW phase \in Phases, To(p, phase)
    PROVE  /\ process' \in [Processes -> Process] /\ request' = request
           /\ process'[p] = [process[p] EXCEPT !.phase = phase]
           /\ \A q \in Processes \ {p} : process'[q] = process[q]
<1> USE DEF TypeOK, To
<1>1. process[p] \in Process
  OBVIOUS
<1>2. [process[p] EXCEPT !.phase = phase] \in Process
  BY <1>1, WithPhase
<1> QED
  BY <1>2, OneProcess

(* The end of p leaves nothing of it in flight, and other requests alone. *)
LEMMA EndTyped ==
    ASSUME TypeOK, NEW p \in Processes, NEW phase \in Ended, End(p, phase)
    PROVE  /\ process' \in [Processes -> Process] /\ request' \in [Requests -> Request]
           /\ process'[p] = [process[p] EXCEPT !.phase = phase, !.signal = "none"]
           /\ \A q \in Processes \ {p} : process'[q] = process[q]
           /\ InFlight(p)' = {}
           /\ \A q \in Processes \ {p} : InFlight(q)' = InFlight(q)
<1>1. process[p] \in Process
  BY DEF TypeOK
<1>2. [process[p] EXCEPT !.phase = phase, !.signal = "none"] \in Process
  BY <1>1 DEF Process
<1>3. /\ process' \in [Processes -> Process]
      /\ process'[p] = [process[p] EXCEPT !.phase = phase, !.signal = "none"]
      /\ \A q \in Processes \ {p} : process'[q] = process[q]
  BY <1>2 DEF TypeOK, End
<1>4. \A r \in Requests : request[r] \in Request
  BY DEF TypeOK
<1>5. request' = [r \in Requests |-> IF r \in InFlight(p)
                                     THEN [request[r] EXCEPT !.phase = "lost"]
                                     ELSE request[r]]
  BY DEF End
<1>6. request' \in [Requests -> Request]
  BY <1>4, <1>5 DEF Request
<1>7. \A r \in Requests : /\ request'[r].by = request[r].by
                          /\ r \in InFlight(p) => request'[r].phase = "lost"
                          /\ r \notin InFlight(p) => request'[r] = request[r]
  BY <1>4, <1>5 DEF Request
<1> QED
  BY <1>3, <1>6, <1>7 DEF InFlight

-----------------------------------------------------------------------------
(* Types.  First the processes and their requests. *)
Serving == {"listening", "closing"}

ProcessesOK ==
    /\ process \in [Processes -> Process] /\ request \in [Requests -> Request]
    /\ \A p \in Processes : InFlight(p) # {} => process[p].phase \in Serving

LEMMA UpdateOK ==
    ASSUME ProcessesOK, NEW p \in Processes, NEW new \in Process,
           process' = [process EXCEPT ![p] = new], UNCHANGED request,
           process[p].phase \in Serving => new.phase \in Serving
    PROVE  ProcessesOK'
BY DEF ProcessesOK, InFlight

LEMMA ToOK ==
    ASSUME TypeOK, NEW p \in Processes, NEW phase \in Phases, To(p, phase),
           process[p].phase \in Serving => phase \in Serving
    PROVE  ProcessesOK'
<1> process[p] \in Process
  BY DEF TypeOK
<1>1. process'[p].phase = phase
  <2>1. [process[p] EXCEPT !.phase = phase].phase = phase
    BY DEF Process
  <2> QED
    BY <2>1, ToTyped
<1>2. \A q \in Processes : InFlight(q)' = InFlight(q)
  BY ToTyped DEF InFlight
<1> QED
  BY <1>1, <1>2, ToTyped DEF ProcessesOK, TypeOK, Serving

LEMMA EndOK ==
    ASSUME TypeOK, NEW p \in Processes, NEW phase \in Ended, End(p, phase)
    PROVE  ProcessesOK'
BY EndTyped DEF ProcessesOK, TypeOK, Serving

(* Seq and records of the database. *)
LEMMA DatabaseTyped ==
    ASSUME NEW db \in Database
    PROVE  /\ db.version \in Nat /\ db.postcards \in Seq(Statuses)
           /\ db.events \in Seq(Processes) /\ Commits(db) \in Nat
           /\ \A version \in Nat : [db EXCEPT !.version = version] \in Database
           /\ [db EXCEPT !.postcards = Append(@, "visible")] \in Database
BY DEF Database, Commits, Statuses

LEMMA ModeratedTyped ==
    ASSUME NEW db \in Database, NEW id \in DOMAIN db.postcards, NEW status \in Statuses,
           NEW p \in Processes
    PROVE  [db EXCEPT !.postcards = [@ EXCEPT ![id] = status],
                     !.events = Append(@, p)] \in Database
<1>1. [db.postcards EXCEPT ![id] = status] \in Seq(Statuses)
  BY DEF Database
<1>2. Append(db.events, p) \in Seq(Processes)
  BY DEF Database
<1>3. \A postcards \in Seq(Statuses), events \in Seq(Processes) :
          [db EXCEPT !.postcards = postcards, !.events = events] \in Database
  BY DEF Database
<1> QED
  BY <1>1, <1>2, <1>3

LEMMA InitTyped == Init => TypeOK
<1> SUFFICES ASSUME Init PROVE TypeOK
  OBVIOUS
<1>1. Fresh \in Database /\ NoFile \in File /\ Unborn \in Process
  BY UnbornTyped
<1>2. <<"visible">> \in Seq(Statuses)
  BY DEF Statuses
<1>3. database \in Database
  <2>1. \A version \in Nat, postcards \in Seq(Statuses) :
            [Fresh EXCEPT !.version = version, !.postcards = postcards] \in Database
    BY <1>1 DEF Database
  <2> QED
    <3>1. [Fresh EXCEPT !.version = CurrentSchemaVersion, !.postcards = <<"visible">>]
              \in Database
      BY <1>2, <2>1 DEF CurrentSchemaVersion
    <3> QED
      BY <1>1, <3>1 DEF Init
<1>4. ProcessesOK
  BY <1>1 DEF Init, ProcessesOK, InFlight, Request
<1> QED
  BY <1>1, <1>3, <1>4, CommandsAssumption DEF Init, TypeOK, ProcessesOK, Serving

(* One step of one process. *)
LEMMA StartTyped ==
    ASSUME TypeOK, NEW p \in Processes, NEW command \in Names, NEW user \in Users,
           Start(p, command, user, 1)
    PROVE  TypeOK'
<1> DEFINE new == [Unborn EXCEPT !.command = command, !.phase = "config", !.user = user,
                                 !.uid = user, !.gid = user, !.groups = {user}, !.id = 1,
                                 !.begun = Commits(database)]
<1>1. Commits(database) \in Nat /\ user \in Nat
  BY DatabaseTyped, CommandsAssumption DEF TypeOK
<1>2. new \in Process
  BY <1>1, UnbornTyped DEF Process, Preparing
<1>3. process' = [process EXCEPT ![p] = new] /\ UNCHANGED request
  BY DEF Start
<1> HIDE DEF new
<1>4. ProcessesOK'
  BY <1>2, <1>3, UpdateOK DEF Start, At, TypeOK, ProcessesOK, Serving
<1> QED
  BY <1>4 DEF Start, TypeOK, ProcessesOK, Serving

LEMMA PrepareTyped ==
    ASSUME TypeOK, NEW p \in Processes, LoadConfig(p) \/ PrepareRuntime(p) \/ Open(p)
    PROVE  TypeOK'
<1>1. process[p] \in Process
  BY DEF TypeOK
<1>2. CASE LoadConfig(p)
  BY <1>2, ToOK DEF LoadConfig, TypeOK, ProcessesOK, Serving, Phases, Preparing, At
<1>3. CASE Open(p)
  <2>1. ProcessesOK'
    BY <1>3, ToOK DEF Open, Serving, Phases, Working, At
  <2>2. database' \in Database
    BY <1>3, DatabaseTyped DEF Open, TypeOK, CurrentSchemaVersion
  <2> QED
    BY <1>3, <2>1, <2>2 DEF Open, TypeOK, ProcessesOK, Serving
<1>4. CASE PrepareRuntime(p)
  <2>1. CASE MkdirAll(p) \/ CheckUser(p)
    <3>1. ProcessesOK'
      BY <2>1, ToOK DEF MkdirAll, CheckUser, Serving, Phases, Preparing, Working, At
    <3>2. directory' \subseteq Nat
      BY <1>1, <2>1 DEF MkdirAll, CheckUser, TypeOK, Process
    <3> QED
      BY <1>4, <3>1, <3>2 DEF PrepareRuntime, TypeOK, ProcessesOK, Serving
  <2>2. CASE UNCHANGED request /\ (Chown(p) \/ DropPrivileges(p))
    <3>1. PICK new \in Process : process' = [process EXCEPT ![p] = new]
      <4>1. [process[p] EXCEPT !.phase = "setgroups"] \in Process
        BY <1>1, WithPhase DEF Phases, Preparing
      <4>2. [process[p] EXCEPT !.phase = "chown"] \in Process
        BY <1>1, WithPhase DEF Phases, Preparing
      <4>3. [[process[p] EXCEPT !.groups = {}] EXCEPT !.phase = "setgid"] \in Process
        BY <1>1 DEF Process, Preparing
      <4>4. [[process[p] EXCEPT !.gid = RuntimeID] EXCEPT !.phase = "setuid"] \in Process
        BY <1>1, CommandsAssumption DEF Process, Preparing
      <4>5. [[process[p] EXCEPT !.uid = RuntimeID] EXCEPT !.phase = "geteuid"] \in Process
        BY <1>1, CommandsAssumption DEF Process, Preparing
      <4> QED
        BY <2>2, <4>1, <4>2, <4>3, <4>4, <4>5 DEF Chown, DropPrivileges, Call
    <3>2. process[p].phase \notin Serving
      BY <2>2 DEF Chown, DropPrivileges, Call, At, Serving
    <3>3. ProcessesOK'
      BY <2>2, <3>1, <3>2, UpdateOK DEF TypeOK, ProcessesOK, Serving
    <3>4. directory' \subseteq Nat
      BY <2>2, CommandsAssumption DEF Chown, DropPrivileges, TypeOK
    <3> QED
      BY <1>4, <3>3, <3>4 DEF PrepareRuntime, TypeOK, ProcessesOK, Serving
  <2> QED
    BY <1>4, <2>1, <2>2 DEF PrepareRuntime
<1> QED
  BY <1>2, <1>3, <1>4

LEMMA ServeTyped ==
    ASSUME TypeOK, NEW p \in Processes, Serve(p) \/ Outside(p)
    PROVE  TypeOK'
<1>1. process[p] \in Process
  BY DEF TypeOK
<1>2. ProcessesOK
  BY DEF TypeOK, ProcessesOK, Serving
<1>3. ASSUME Configure(p) \/ ListenAndServe(p) PROVE ProcessesOK'
  BY <1>3, ToOK DEF Configure, ListenAndServe, Does, At, Serving, Phases, Working
<1>4. ASSUME Return(p) PROVE ProcessesOK'
  BY <1>4, EndOK DEF Return, Ended
<1>5. ASSUME Shutdown(p) \/ GraceExpires(p) PROVE ProcessesOK'
  <2>1. PICK new \in Process : /\ process' = [process EXCEPT ![p] = new]
                               /\ process[p].phase \in Serving => new.phase \in Serving
    <3>1. CASE Shutdown(p)
      <4> DEFINE new == [process[p] EXCEPT
                            !.signal = "shutdown",
                            !.phase = IF @ = "listening" THEN "closing" ELSE @]
      <4>1. new \in Process /\ process' = [process EXCEPT ![p] = new]
        BY <1>1, <3>1 DEF Shutdown, Process, Working
      <4>2. process[p].phase \in Serving => new.phase \in Serving
        BY <1>1 DEF Process, Serving
      <4> QED
        BY <4>1, <4>2
    <3>2. CASE GraceExpires(p)
      <4> DEFINE new == [process[p] EXCEPT !.signal = "expired"]
      <4>1. new \in Process /\ process' = [process EXCEPT ![p] = new]
        BY <1>1, <3>2 DEF GraceExpires, Process
      <4>2. new.phase = process[p].phase
        BY <1>1 DEF Process
      <4> QED
        BY <4>1, <4>2
    <3> QED
      BY <1>5, <3>1, <3>2
  <2> QED
    BY <1>2, <1>5, <2>1, UpdateOK DEF Shutdown, GraceExpires
<1>6. ASSUME Signal(p) PROVE ProcessesOK'
  <2>1. CASE process[p].phase \in {"ready", "listening"}
    <3>1. [process[p] EXCEPT !.signal = "sent"] \in Process
      BY <1>1 DEF Process
    <3>2. /\ process' = [process EXCEPT ![p] = [process[p] EXCEPT !.signal = "sent"]]
          /\ UNCHANGED request
      BY <1>6, <2>1 DEF Signal
    <3>3. [process[p] EXCEPT !.signal = "sent"].phase = process[p].phase
      BY <1>1 DEF Process
    <3> QED
      BY <1>2, <3>1, <3>2, <3>3, UpdateOK
  <2>2. CASE process[p].phase \notin {"ready", "listening"}
    BY <1>6, <2>2, EndOK DEF Signal, Ended
  <2> QED
    BY <2>1, <2>2
<1>7. ProcessesOK'
  BY <1>3, <1>4, <1>5, <1>6 DEF Serve, Outside, ProcessesOK
<1> QED
  BY <1>7 DEF Serve, Outside, TypeOK, ProcessesOK, Serving

LEMMA HandleTyped ==
    ASSUME TypeOK, NEW r \in Requests, Handle(r)
    PROVE  TypeOK'
<1>1. request[r] \in Request
  BY DEF TypeOK
<1>2. PICK phase \in {"accepted", "committed", "answered"} : Becomes(r, phase)
  BY DEF Handle, Accept, Commit, Answer
<1>3. [request[r] EXCEPT !.phase = phase] \in Request
  BY <1>1, <1>2 DEF Request
<1>4. request' \in [Requests -> Request]
  BY <1>2, <1>3 DEF Becomes, TypeOK
<1>5. /\ request'[r].by = request[r].by
      /\ \A other \in Requests : other # r => request'[other] = request[other]
  BY <1>1, <1>2 DEF Becomes, TypeOK, Request
<1>6. process[request[r].by].phase \in Serving
  BY DEF Handle, Accept, Commit, Answer, Handling, At, Serving
<1>7. process' = process /\ (database' \in Database)
  BY DatabaseTyped DEF Handle, Accept, Commit, Answer, TypeOK
<1>8. ProcessesOK'
  BY <1>4, <1>5, <1>6, <1>7 DEF TypeOK, ProcessesOK, InFlight, Serving
<1> QED
  BY <1>7, <1>8 DEF Handle, TypeOK, ProcessesOK, Serving

LEMMA BackupTyped ==
    ASSUME TypeOK, NEW p \in Processes, Backup(p)
    PROVE  TypeOK'
<1>1. process[p] \in Process /\ process[p].copy \in Database /\ process[p].begun \in Nat
  BY DEF TypeOK, Process
<1>2. NoFile \in File
  BY UnbornTyped
<1>3. \A kind \in {"empty", "partial"} : [file EXCEPT !.kind = kind] \in File
  BY DEF TypeOK, File
<1>4. \A content \in Database : [kind |-> "whole", content |-> content] \in File
  BY DEF File
<1>5. ProcessesOK' /\ file' \in File /\ reported' \subseteq Nat
  <2>1. CASE Stat(p)
    BY <2>1, ToOK DEF Stat, Does, Serving, Phases, Working, TypeOK
  <2>2. CASE VacuumBegins(p)
    <3> DEFINE new == [process[p] EXCEPT !.phase = "writing", !.copy = database]
    <3>1. new \in Process
      BY <1>1 DEF TypeOK, Process, Working
    <3>2. /\ process' = [process EXCEPT ![p] = new] /\ UNCHANGED request
          /\ process[p].phase \notin Serving
      BY <2>2 DEF VacuumBegins, At, Serving
    <3> HIDE DEF new
    <3>3. ProcessesOK'
      BY <3>1, <3>2, UpdateOK DEF TypeOK, ProcessesOK, Serving
    <3> QED
      BY <1>3, <2>2, <3>3 DEF VacuumBegins, TypeOK
  <2>3. CASE VacuumEnds(p)
    BY <1>1, <1>4, <2>3, ToOK DEF VacuumEnds, At, Serving, Phases, Working, TypeOK
  <2>4. CASE VacuumFails(p)
    BY <1>3, <2>4, EndOK DEF VacuumFails, Ended, TypeOK
  <2>5. CASE Verify(p)
    <3>1. reported' \subseteq Nat
      BY <1>1, <2>5 DEF Verify, TypeOK
    <3>2. ProcessesOK'
      BY <2>5, ToOK, EndOK DEF Verify, At, Ended, Serving, Phases, Working
    <3> QED
      BY <2>5, <3>1, <3>2 DEF Verify, TypeOK
  <2>6. CASE Remove(p)
    BY <1>2, <2>6, EndOK DEF Remove, Ended, TypeOK
  <2> QED
    BY <2>1, <2>2, <2>3, <2>4, <2>5, <2>6 DEF Backup
<1> QED
  BY <1>5 DEF Backup, TypeOK, ProcessesOK, Serving

LEMMA AdminTyped ==
    ASSUME TypeOK, NEW p \in Processes, Admin(p)
    PROVE  TypeOK'
<1>1. ProcessesOK' /\ database' \in Database /\ audit' \subseteq Processes
  <2>1. CASE Moderate(p)
    <3>1. Into(process[p].command) \in Statuses
      BY DEF Into, Statuses
    <3>2. database' \in Database
      BY <2>1, <3>1, ModeratedTyped DEF Moderate, TypeOK
    <3>3. ProcessesOK'
      BY <2>1, ToOK DEF Moderate, At, Serving, Phases, Working
    <3> QED
      BY <2>1, <3>2, <3>3 DEF Moderate, TypeOK
  <2>2. CASE Encode(p)
    BY <2>2, ToOK DEF Encode, At, Serving, Phases, Working, TypeOK
  <2>3. CASE Audit(p)
    BY <2>3, EndOK DEF Audit, Ended, TypeOK
  <2>4. CASE List(p)
    BY <2>4, EndOK DEF List, Ended, TypeOK
  <2> QED
    BY <2>1, <2>2, <2>3, <2>4 DEF Admin
<1> QED
  BY <1>1 DEF Admin, TypeOK, ProcessesOK, Serving

(* Commands.TypeOK: the values are those of the declarations, and no       *)
(* request is in flight in a process that is gone.                         *)
THEOREM TypeCorrect == Spec => []TypeOK
<1>1. Init => TypeOK
  BY InitTyped
<1>2. TypeOK /\ [Next]_vars => TypeOK'
  <2> SUFFICES ASSUME TypeOK, [Next]_vars PROVE TypeOK'
    OBVIOUS
  <2>1. ASSUME NEW p \in Processes, Step(p) \/ Outside(p) PROVE TypeOK'
    BY <2>1, PrepareTyped, ServeTyped, BackupTyped, AdminTyped DEF Step
  <2>2. ASSUME NEW p \in Processes, Fail(p) PROVE TypeOK'
    BY <2>2, EndOK DEF Fail, Ended, TypeOK, ProcessesOK, Serving
  <2>3. CASE Upgrade
    <3>1. CurrentSchemaVersion + 1 \in Nat
      BY DEF CurrentSchemaVersion
    <3>2. database' \in Database
      BY <2>3, <3>1, DatabaseTyped DEF Upgrade, TypeOK
    <3> QED
      BY <2>3, <3>2 DEF Upgrade, TypeOK, InFlight
  <2>4. CASE CleanUp
    BY <2>4, UnbornTyped DEF CleanUp, TypeOK, InFlight
  <2>5. CASE UNCHANGED vars
    BY <2>5 DEF vars, TypeOK, InFlight
  <2> QED
    BY <2>1, <2>2, <2>3, <2>4, <2>5, StartTyped, HandleTyped DEF Next
<1> QED
  BY <1>1, <1>2, PTL DEF Spec

-----------------------------------------------------------------------------
(* How a step of p moves it: the fields that only Start, the system calls  *)
(* and VacuumBegins set are kept, and no other process moves.              *)
Keeps(old, new) ==
    /\ new.command = old.command /\ new.begun = old.begun /\ new.user = old.user
    /\ new.uid = old.uid /\ new.gid = old.gid /\ new.groups = old.groups

Others(p) == \A q \in Processes \ {p} : process'[q] = process[q]

LEMMA ToKeeps ==
    ASSUME TypeOK, NEW p \in Processes, NEW phase \in Phases, To(p, phase)
    PROVE  /\ Keeps(process[p], process'[p]) /\ Others(p)
           /\ process'[p].phase = phase /\ process'[p].copy = process[p].copy
<1>1. process[p] \in Process
  BY DEF TypeOK
<1>2. LET new == [process[p] EXCEPT !.phase = phase]
      IN Keeps(process[p], new) /\ new.phase = phase /\ new.copy = process[p].copy
  BY <1>1 DEF Process, Keeps
<1> QED
  BY <1>2, ToTyped DEF Others

LEMMA EndKeeps ==
    ASSUME TypeOK, NEW p \in Processes, NEW phase \in Ended, End(p, phase)
    PROVE  /\ Keeps(process[p], process'[p]) /\ Others(p)
           /\ process'[p].phase = phase /\ process'[p].copy = process[p].copy
<1>1. process[p] \in Process
  BY DEF TypeOK
<1>2. LET new == [process[p] EXCEPT !.phase = phase, !.signal = "none"]
      IN Keeps(process[p], new) /\ new.phase = phase /\ new.copy = process[p].copy
  BY <1>1 DEF Process, Keeps
<1> QED
  BY <1>2, EndTyped DEF Others

(* A system call keeps what the command is, and goes on to the next one. *)
Calls == {"setgroups", "chown", "setgid", "setuid", "geteuid"}

LEMMA CallKeeps ==
    ASSUME TypeOK, NEW p \in Processes, Chown(p) \/ DropPrivileges(p)
    PROVE  /\ Others(p) /\ process'[p].phase \in Calls
           /\ process'[p].command = process[p].command
           /\ process'[p].begun = process[p].begun
<1>1. process[p] \in Process /\ process \in [Processes -> Process]
  BY DEF TypeOK
<1>2. \A old \in Process :
      \A phase \in Calls : /\ [old EXCEPT !.phase = phase].command = old.command
                          /\ [old EXCEPT !.phase = phase].begun = old.begun
                          /\ [old EXCEPT !.phase = phase].phase = phase
  BY DEF Process
<1> DEFINE Alike(old) ==
      /\ old \in Process
      /\ old.command = process[p].command /\ old.begun = process[p].begun
<1>3. /\ Alike([process[p] EXCEPT !.groups = {}])
      /\ Alike([process[p] EXCEPT !.gid = RuntimeID])
      /\ Alike([process[p] EXCEPT !.uid = RuntimeID])
  BY <1>1, CommandsAssumption DEF Process
<1>4. PICK old \in Process, phase \in Calls :
          /\ process' = [process EXCEPT ![p] = [old EXCEPT !.phase = phase]]
          /\ old.command = process[p].command /\ old.begun = process[p].begun
  BY <1>1, <1>3 DEF Chown, DropPrivileges, Call, Calls
<1> QED
  BY <1>1, <1>2, <1>4 DEF Others

(* A server keeps its fields, and goes on to a phase of a server. *)
ServerPhases == {"opened", "ready", "listening", "closing"}

LEMMA ServeKeeps ==
    ASSUME TypeOK, NEW p \in Processes, Serve(p) \/ Outside(p)
    PROVE  /\ Keeps(process[p], process'[p]) /\ Others(p)
           /\ process'[p].copy = process[p].copy
           /\ \/ process'[p].phase = process[p].phase
              \/ process'[p].phase = "failed" /\ Alive(p)
              \/ /\ process[p].phase \in ServerPhases
                 /\ process'[p].phase \in ServerPhases \cup {"done"}
                 /\ process[p].phase = "opened" => process[p].command = "serve"
                 /\ process'[p].phase # "opened"
<1>1. process[p] \in Process /\ process \in [Processes -> Process]
  BY DEF TypeOK
<1>2. CASE Configure(p) \/ ListenAndServe(p)
  BY <1>2, ToKeeps DEF Configure, ListenAndServe, Does, At, ServerPhases, Phases, Working
<1>3. CASE Return(p)
  BY <1>3, EndKeeps DEF Return, At, Ended, ServerPhases
<1>4. CASE Shutdown(p) \/ GraceExpires(p)
  <2>1. PICK new : /\ process' = [process EXCEPT ![p] = new] /\ Keeps(process[p], new)
                   /\ new.copy = process[p].copy
                   /\ \/ new.phase = process[p].phase
                      \/ process[p].phase = "listening" /\ new.phase = "closing"
    <3>1. CASE Shutdown(p)
      <4> DEFINE new == [process[p] EXCEPT
                            !.signal = "shutdown",
                            !.phase = IF @ = "listening" THEN "closing" ELSE @]
      <4>1. process' = [process EXCEPT ![p] = new]
        BY <1>1, <3>1 DEF Shutdown
      <4>2. /\ Keeps(process[p], new) /\ new.copy = process[p].copy
            /\ \/ new.phase = process[p].phase
               \/ process[p].phase = "listening" /\ new.phase = "closing"
        BY <1>1 DEF Process, Keeps
      <4> QED
        BY <4>1, <4>2
    <3>2. CASE GraceExpires(p)
      <4> DEFINE new == [process[p] EXCEPT !.signal = "expired"]
      <4>1. process' = [process EXCEPT ![p] = new]
        BY <3>2 DEF GraceExpires
      <4>2. /\ Keeps(process[p], new) /\ new.copy = process[p].copy
            /\ new.phase = process[p].phase
        BY <1>1 DEF Process, Keeps
      <4> QED
        BY <4>1, <4>2
    <3> QED
      BY <1>4, <3>1, <3>2
  <2> QED
    BY <1>1, <2>1 DEF Others, ServerPhases
<1>5. CASE Signal(p)
  <2>1. CASE process[p].phase \in {"ready", "listening"}
    <3> DEFINE new == [process[p] EXCEPT !.signal = "sent"]
    <3>1. process' = [process EXCEPT ![p] = new]
      BY <1>5, <2>1 DEF Signal
    <3>2. Keeps(process[p], new) /\ new.phase = process[p].phase /\ new.copy = process[p].copy
      BY <1>1 DEF Process, Keeps
    <3> HIDE DEF new
    <3> QED
      BY <1>1, <3>1, <3>2 DEF Others
  <2>2. CASE process[p].phase \notin {"ready", "listening"}
    BY <1>5, <2>2, EndKeeps DEF Signal, Ended
  <2> QED
    BY <2>1, <2>2
<1> QED
  BY <1>2, <1>3, <1>4, <1>5 DEF Serve, Outside

-----------------------------------------------------------------------------
(* Privileges.  What the system calls before `phase` have done; to get     *)
(* past "geteuid" a process started by root must have made all of them.    *)
Prepared(proc, dir) ==
    /\ proc.phase \in {"config", "mkdir"} => proc.uid = proc.user
    /\ proc.phase \in {"setgroups", "setgid", "setuid", "geteuid"} => dir = {RuntimeID}
    /\ proc.phase \in {"setgid", "setuid", "geteuid"} => proc.groups = {}
    /\ proc.phase \in {"setuid", "geteuid"} => proc.gid = RuntimeID
    /\ proc.phase \in Working /\ proc.user = Root =>
          /\ proc.uid = RuntimeID /\ proc.gid = RuntimeID
          /\ proc.groups = {} /\ dir = {RuntimeID}

AllPrepared == \A p \in Processes : Prepared(process[p], directory)

(* Once the directory is RuntimeID's it stays so. *)
LEMMA OnePrepared ==
    ASSUME AllPrepared, NEW p \in Processes, Others(p),
           directory = {RuntimeID} => directory' = {RuntimeID},
           Prepared(process'[p], directory')
    PROVE  AllPrepared'
BY DEF AllPrepared, Prepared, Others

(* A process that works goes on as who it is. *)
LEMMA KeepsPrepared ==
    ASSUME AllPrepared, NEW p \in Processes, Others(p), UNCHANGED directory,
           Keeps(process[p], process'[p]),
           \/ process[p].phase \in Working /\ process'[p].phase \in Working
           \/ process'[p].phase \in Ended
           \/ process'[p].phase = process[p].phase
    PROVE  AllPrepared'
<1>1. Prepared(process'[p], directory')
  BY DEF AllPrepared, Prepared, Keeps, Working, Ended
<1> QED
  BY <1>1, OnePrepared

LEMMA PrepareStep ==
    ASSUME TypeOK, AllPrepared, NEW p \in Processes,
           LoadConfig(p) \/ PrepareRuntime(p) \/ Open(p)
    PROVE  AllPrepared'
<1>1. process[p] \in Process /\ process \in [Processes -> Process] /\ RuntimeID # Root
  BY CommandsAssumption DEF TypeOK
<1>2. CASE LoadConfig(p)
  <2>1. /\ Keeps(process[p], process'[p]) /\ Others(p)
        /\ process'[p].phase = "mkdir" /\ process[p].phase = "config"
    BY <1>2, ToKeeps DEF LoadConfig, At, Phases, Preparing
  <2>2. Prepared(process'[p], directory')
    BY <1>2, <2>1 DEF LoadConfig, AllPrepared, Prepared, Keeps, Working
  <2> QED
    BY <1>2, <2>1, <2>2, OnePrepared DEF LoadConfig
<1>3. CASE Open(p)
  <2>1. /\ Keeps(process[p], process'[p]) /\ Others(p)
        /\ process'[p].phase = "opened" /\ process[p].phase = "dispatch"
    BY <1>3, ToKeeps DEF Open, At, Phases, Working
  <2> QED
    BY <1>3, <2>1, KeepsPrepared DEF Open, Working
<1>4. CASE PrepareRuntime(p)
  <2>1. CASE MkdirAll(p)
    <3>1. /\ Keeps(process[p], process'[p]) /\ Others(p) /\ process[p].phase = "mkdir"
          /\ \/ process'[p].phase = "chmod"
             \/ process'[p].phase = "dispatch" /\ process[p].uid # Root
      BY <2>1, ToKeeps DEF MkdirAll, At, Phases, Preparing, Working
    <3>2. Prepared(process'[p], directory')
      BY <3>1 DEF AllPrepared, Prepared, Keeps, Working
    <3> QED
      BY <2>1, <3>1, <3>2, OnePrepared DEF MkdirAll
  <2>2. CASE CheckUser(p)
    <3>1. /\ Keeps(process[p], process'[p]) /\ Others(p) /\ process[p].phase = "geteuid"
          /\ process'[p].phase = "dispatch" /\ process[p].uid = RuntimeID
      BY <2>2, ToKeeps DEF CheckUser, At, Phases, Preparing, Working
    <3>2. Prepared(process'[p], directory')
      BY <2>2, <3>1 DEF CheckUser, AllPrepared, Prepared, Keeps, Working
    <3> QED
      BY <2>2, <3>1, <3>2, OnePrepared DEF CheckUser
  <2>3. CASE Chown(p)
    <3> DEFINE new == [process[p] EXCEPT !.phase = "setgroups"]
    <3>1. process' = [process EXCEPT ![p] = new] /\ directory' = {RuntimeID}
      BY <2>3 DEF Chown, Call
    <3>2. new.phase = "setgroups"
      BY <1>1 DEF Process
    <3> HIDE DEF new
    <3>3. Prepared(new, {RuntimeID})
      BY <3>2 DEF Prepared, Working
    <3> QED
      BY <1>1, <3>1, <3>3, OnePrepared DEF Others
  <2>4. CASE DropPrivileges(p)
    <3>1. PICK new : /\ process' = [process EXCEPT ![p] = new]
                     /\ Prepared(new, directory)
      <4>1. CASE Call(p, "chmod", "chown", process[p])
        <5> DEFINE new == [process[p] EXCEPT !.phase = "chown"]
        <5>1. process' = [process EXCEPT ![p] = new]
          BY <4>1 DEF Call
        <5>2. new.phase = "chown"
          BY <1>1 DEF Process
        <5> HIDE DEF new
        <5>3. Prepared(new, directory)
          BY <5>2 DEF Prepared, Working
        <5> QED
          BY <5>1, <5>3
      <4>2. CASE Call(p, "setgroups", "setgid", [process[p] EXCEPT !.groups = {}])
        <5> DEFINE new == [[process[p] EXCEPT !.groups = {}] EXCEPT !.phase = "setgid"]
        <5>1. process' = [process EXCEPT ![p] = new] /\ process[p].phase = "setgroups"
          BY <4>2 DEF Call, At
        <5>2. new.phase = "setgid" /\ new.groups = {}
          BY <1>1 DEF Process
        <5> HIDE DEF new
        <5>3. Prepared(new, directory)
          BY <5>1, <5>2 DEF AllPrepared, Prepared, Working
        <5> QED
          BY <5>1, <5>3
      <4>3. CASE Call(p, "setgid", "setuid", [process[p] EXCEPT !.gid = RuntimeID])
        <5> DEFINE new == [[process[p] EXCEPT !.gid = RuntimeID] EXCEPT !.phase = "setuid"]
        <5>1. process' = [process EXCEPT ![p] = new] /\ process[p].phase = "setgid"
          BY <4>3 DEF Call, At
        <5>2. new.phase = "setuid" /\ new.gid = RuntimeID /\ new.groups = process[p].groups
          BY <1>1 DEF Process
        <5> HIDE DEF new
        <5>3. Prepared(new, directory)
          BY <5>1, <5>2 DEF AllPrepared, Prepared, Working
        <5> QED
          BY <5>1, <5>3
      <4>4. CASE Call(p, "setuid", "geteuid", [process[p] EXCEPT !.uid = RuntimeID])
        <5> DEFINE new == [[process[p] EXCEPT !.uid = RuntimeID] EXCEPT !.phase = "geteuid"]
        <5>1. process' = [process EXCEPT ![p] = new] /\ process[p].phase = "setuid"
          BY <4>4 DEF Call, At
        <5>2. /\ new.phase = "geteuid" /\ new.gid = process[p].gid
              /\ new.groups = process[p].groups
          BY <1>1 DEF Process
        <5> HIDE DEF new
        <5>3. Prepared(new, directory)
          BY <5>1, <5>2 DEF AllPrepared, Prepared, Working
        <5> QED
          BY <5>1, <5>3
      <4> QED
        BY <2>4, <4>1, <4>2, <4>3, <4>4 DEF DropPrivileges
    <3> QED
      BY <1>1, <2>4, <3>1, OnePrepared DEF DropPrivileges, Others
  <2> QED
    BY <1>4, <2>1, <2>2, <2>3, <2>4 DEF PrepareRuntime
<1> QED
  BY <1>2, <1>3, <1>4

LEMMA BackupKeeps ==
    ASSUME TypeOK, NEW p \in Processes, Backup(p)
    PROVE  /\ Keeps(process[p], process'[p]) /\ Others(p)
           /\ process[p].phase \in Working
           /\ process'[p].phase \in Working \cup Ended
<1>1. process[p] \in Process /\ process \in [Processes -> Process]
  BY DEF TypeOK
<1>2. CASE VacuumBegins(p)
  <2> DEFINE new == [process[p] EXCEPT !.phase = "writing", !.copy = database]
  <2>1. process' = [process EXCEPT ![p] = new] /\ process[p].phase = "checked"
    BY <1>2 DEF VacuumBegins, At
  <2>2. Keeps(process[p], new) /\ new.phase = "writing"
    BY <1>1 DEF Process, Keeps
  <2> HIDE DEF new
  <2> QED
    BY <1>1, <2>1, <2>2 DEF Others, Working
<1>3. CASE Stat(p) \/ VacuumEnds(p)
  BY <1>3, ToKeeps DEF Stat, VacuumEnds, Does, At, Phases, Working
<1>4. CASE VacuumFails(p) \/ Remove(p)
  BY <1>4, EndKeeps DEF VacuumFails, Remove, At, Ended, Working
<1>5. CASE Verify(p)
  BY <1>5, ToKeeps, EndKeeps DEF Verify, At, Ended, Phases, Working
<1> QED
  BY <1>2, <1>3, <1>4, <1>5 DEF Backup

LEMMA AdminKeeps ==
    ASSUME TypeOK, NEW p \in Processes, Admin(p)
    PROVE  /\ Keeps(process[p], process'[p]) /\ Others(p)
           /\ process[p].phase \in Working
           /\ process'[p].phase \in Working \cup Ended
<1>1. CASE Moderate(p) \/ Encode(p)
  BY <1>1, ToKeeps DEF Moderate, Encode, At, Phases, Working
<1>2. CASE Audit(p) \/ List(p)
  BY <1>2, EndKeeps DEF Audit, List, Does, At, Ended, Working
<1> QED
  BY <1>1, <1>2 DEF Admin

(* Commands.RunsUnprivileged: whichever of the system calls fails, nothing *)
(* that was started as root gets to the database as root.                  *)
THEOREM Unprivileged == Spec => []RunsUnprivileged
<1>1. Init => AllPrepared
  <2> SUFFICES ASSUME Init, NEW p \in Processes PROVE Prepared(process[p], directory)
    BY DEF AllPrepared
  <2>1. process[p].phase = "unborn"
    BY DEF Init, Unborn
  <2> QED
    BY <2>1 DEF Prepared, Working
<1>2. TypeOK /\ AllPrepared /\ [Next]_vars => AllPrepared'
  <2> SUFFICES ASSUME TypeOK, AllPrepared, [Next]_vars PROVE AllPrepared'
    OBVIOUS
  <2>1. ASSUME NEW p \in Processes, NEW command \in Names, NEW user \in Users,
               Start(p, command, user, 1)
        PROVE  AllPrepared'
    <3> DEFINE new == [Unborn EXCEPT !.command = command, !.phase = "config", !.user = user,
                                     !.uid = user, !.gid = user, !.groups = {user}, !.id = 1,
                                     !.begun = Commits(database)]
    <3>1. process' = [process EXCEPT ![p] = new] /\ UNCHANGED directory
      BY <2>1 DEF Start
    <3>2. new.phase = "config" /\ new.uid = user /\ new.user = user
      BY DEF Unborn
    <3> HIDE DEF new
    <3>3. Prepared(new, directory)
      BY <3>2 DEF Prepared, Working
    <3> QED
      BY <3>1, <3>3, OnePrepared DEF Others, TypeOK
  <2>2. ASSUME NEW p \in Processes, Step(p) \/ Outside(p) PROVE AllPrepared'
    <3>1. CASE Serve(p) \/ Outside(p)
      <4>1. UNCHANGED directory
        BY <3>1 DEF Serve, Outside
      <4> QED
        BY <3>1, <4>1, ServeKeeps, KeepsPrepared DEF ServerPhases, Working, Ended
    <3>2. CASE Backup(p) \/ Admin(p)
      <4>1. UNCHANGED directory
        BY <3>2 DEF Backup, Admin
      <4> QED
        BY <3>2, <4>1, BackupKeeps, AdminKeeps, KeepsPrepared
    <3> QED
      BY <2>2, <3>1, <3>2, PrepareStep DEF Step
  <2>3. ASSUME NEW p \in Processes, Fail(p) PROVE AllPrepared'
    BY <2>3, EndKeeps, KeepsPrepared DEF Fail, Ended
  <2>4. CASE \E r \in Requests : Handle(r)
    BY <2>4 DEF Handle, AllPrepared
  <2>5. CASE Upgrade \/ CleanUp \/ UNCHANGED vars
    BY <2>5 DEF Upgrade, CleanUp, vars, AllPrepared
  <2> QED
    BY <2>1, <2>2, <2>3, <2>4, <2>5 DEF Next
<1>3. AllPrepared => RunsUnprivileged
  BY DEF AllPrepared, Prepared, RunsUnprivileged
<1> QED
  BY <1>1, <1>2, <1>3, TypeCorrect, PTL DEF Spec

-----------------------------------------------------------------------------
(* What the steps that write the database do to it. *)
LEMMA CommitsMonotone ==
    ASSUME NEW old, NEW new,
           Len(old.postcards) \in Nat, Len(old.events) \in Nat,
           Len(new.postcards) \in Nat, Len(new.events) \in Nat,
           Len(old.postcards) <= Len(new.postcards), Len(old.events) <= Len(new.events)
    PROVE  Commits(old) \in Nat /\ Commits(new) \in Nat /\ Commits(old) <= Commits(new)
<1> DEFINE a == Len(old.postcards)
           b == Len(old.events)
           c == Len(new.postcards)
           d == Len(new.events)
<1>1. /\ a \in Nat /\ b \in Nat /\ c \in Nat /\ d \in Nat /\ a <= c /\ b <= d
      /\ Commits(old) = a + b /\ Commits(new) = c + d
  BY DEF Commits
<1> HIDE DEF a, b, c, d
<1> QED
  BY <1>1

LEMMA DatabaseGrows ==
    ASSUME TypeOK, [Next]_vars
    PROVE  /\ Commits(database) \in Nat /\ Commits(database') \in Nat
           /\ Commits(database) <= Commits(database')
           /\ database'.events = database.events \/ \E p \in Processes : Moderate(p)
<1>1. database \in Database
  BY DEF TypeOK
<1>2. /\ Len(database.postcards) \in Nat /\ Len(database.events) \in Nat
      /\ Commits(database) = Len(database.postcards) + Len(database.events)
  BY <1>1 DEF Database, Commits
<1> DEFINE Grows == /\ Len(database'.postcards) \in Nat /\ Len(database'.events) \in Nat
                    /\ Len(database.postcards) <= Len(database'.postcards)
                    /\ Len(database.events) <= Len(database'.events)
<1>3. ASSUME NEW version, database' = [database EXCEPT !.version = version]
      PROVE  Grows /\ database'.events = database.events
  BY <1>1, <1>2, <1>3 DEF Database
<1>4. ASSUME UNCHANGED database
      PROVE  Grows /\ database'.events = database.events
  BY <1>2, <1>4
<1>5. ASSUME database' = [database EXCEPT !.postcards = Append(@, "visible")]
      PROVE  Grows /\ database'.events = database.events
  <2>1. /\ database'.events = database.events
        /\ database'.postcards = Append(database.postcards, "visible")
    BY <1>1, <1>5 DEF Database
  <2>2. Len(Append(database.postcards, "visible")) = Len(database.postcards) + 1
    BY <1>1 DEF Database
  <2> QED
    BY <1>2, <2>1, <2>2
<1>6. ASSUME NEW p \in Processes, Moderate(p) PROVE Grows
  <2> DEFINE postcards == [database.postcards EXCEPT ![process[p].id] =
                              Into(process[p].command)]
  <2>1. database' = [database EXCEPT !.postcards = postcards,
                                     !.events = Append(database.events, p)]
    BY <1>6 DEF Moderate
  <2>2. Len(postcards) = Len(database.postcards)
    BY <1>1 DEF Database
  <2> HIDE DEF postcards
  <2>3. database'.postcards = postcards /\ database'.events = Append(database.events, p)
    BY <1>1, <2>1 DEF Database
  <2>4. Len(Append(database.events, p)) = Len(database.events) + 1
    BY <1>1 DEF Database
  <2> QED
    BY <1>2, <2>2, <2>3, <2>4
<1>7. Grows /\ (database'.events = database.events \/ \E p \in Processes : Moderate(p))
  <2>1. ASSUME \A p \in Processes : ~Moderate(p)
        PROVE  \/ UNCHANGED database
               \/ \E version : database' = [database EXCEPT !.version = version]
               \/ database' = [database EXCEPT !.postcards = Append(@, "visible")]
    BY <2>1
    DEF Next, Start, Step, LoadConfig, PrepareRuntime, Open, Upgrade, Serve, Outside, Backup,
        Admin, Encode, Audit, List, Fail, CleanUp, Handle, Accept, Commit, Answer, vars
  <2> QED
    BY <1>3, <1>4, <1>5, <1>6, <2>1
<1>8. /\ Commits(database') \in Nat /\ Commits(database) \in Nat
      /\ Commits(database) <= Commits(database')
  <2>1. Grows
    BY <1>7
  <2> QED
    BY <1>2, <2>1, CommitsMonotone
<1> QED
  BY <1>7, <1>8

(* Backups.  Of all the commands that share a destination one at most has  *)
(* made the file; until it is done with it nothing was reported.           *)
Made == {"written", "rejected"}

BackupsSound ==
    /\ \A p \in Processes : process[p].begun <= Commits(database)
    /\ \A p \in Processes :
          process[p].phase = "writing" => process[p].begun <= Commits(process[p].copy)
    /\ \A p \in Processes :
          process[p].phase = "written" => process[p].begun <= Commits(file.content)
    /\ \A p \in Processes :
          process[p].phase \in Made => file.kind = "whole" /\ reported = {}
    /\ \A p, q \in Processes :
          process[p].phase \in Made /\ process[q].phase \in Made => p = q
    /\ VerifiedBackupsLast

(* A step that has nothing to do with the file. *)
LEMMA FileKept ==
    ASSUME TypeOK, TypeOK', BackupsSound, [Next]_vars, NEW p \in Processes, Others(p),
           UNCHANGED <<file, reported>>, process'[p].begun <= Commits(database'),
           \/ process'[p].phase \notin Made \cup {"writing"}
           \/ /\ process'[p].phase = process[p].phase /\ process'[p].copy = process[p].copy
              /\ process'[p].begun = process[p].begun
    PROVE  BackupsSound'
<1>1. \A q \in Processes : process[q].begun \in Nat /\ process'[q].begun \in Nat
  BY DEF TypeOK, Process
<1>2. \A q \in Processes : process'[q].begun <= Commits(database')
  BY <1>1, DatabaseGrows DEF BackupsSound, Others
<1>3. \A q \in Processes :
          process'[q].phase \in Made \cup {"writing"} =>
              /\ process'[q].phase = process[q].phase /\ process'[q].copy = process[q].copy
              /\ process'[q].begun = process[q].begun
  BY DEF Others
<1>4. VerifiedBackupsLast'
  BY DEF BackupsSound, VerifiedBackupsLast
<1> QED
  BY <1>2, <1>3, <1>4 DEF BackupsSound, Made

LEMMA BackupStep ==
    ASSUME TypeOK, TypeOK', BackupsSound, [Next]_vars, NEW p \in Processes, Backup(p)
    PROVE  BackupsSound'
<1>1. /\ process[p] \in Process /\ process \in [Processes -> Process]
      /\ database \in Database /\ database' = database /\ Commits(database) \in Nat
  BY DatabaseGrows DEF TypeOK, Backup
<1>2. Keeps(process[p], process'[p]) /\ Others(p)
  BY BackupKeeps
<1>3. /\ \A q \in Processes : process'[q].begun = process[q].begun
      /\ \A q \in Processes : process'[q].begun <= Commits(database')
  BY <1>1, <1>2 DEF BackupsSound, Keeps, Others
<1>4. CASE Stat(p)
  BY <1>3, <1>2, <1>4, ToKeeps, FileKept DEF Stat, Phases, Working, Made
<1>5. CASE VacuumBegins(p)
  <2> DEFINE new == [process[p] EXCEPT !.phase = "writing", !.copy = database]
  <2>1. /\ process' = [process EXCEPT ![p] = new] /\ file.kind \in {"absent", "empty"}
        /\ reported' = reported
    BY <1>5 DEF VacuumBegins
  <2>2. new.phase = "writing" /\ new.copy = database
    BY <1>1 DEF Process
  <2> HIDE DEF new
  <2>3. process'[p].phase = "writing" /\ process'[p].copy = database
    BY <1>1, <2>1, <2>2
  <2>4. /\ reported = {} /\ \A q \in Processes : process[q].phase \notin Made
    BY <2>1 DEF BackupsSound, VerifiedBackupsLast
  <2>5. \A q \in Processes : process'[q].phase \notin Made
    BY <1>2, <2>3, <2>4 DEF Others, Made
  <2>6. \A q \in Processes :
            process'[q].phase = "writing" => process'[q].begun <= Commits(process'[q].copy)
    BY <1>1, <1>2, <1>3, <2>3 DEF BackupsSound, Others
  <2> QED
    BY <1>3, <2>1, <2>4, <2>5, <2>6 DEF BackupsSound, VerifiedBackupsLast, Made
<1>6. CASE VacuumEnds(p)
  <2>1. /\ process[p].phase = "writing" /\ file.kind = "empty" /\ process'[p].phase = "written"
        /\ file'.kind = "whole" /\ file'.content = process[p].copy /\ reported' = reported
    BY <1>6, ToKeeps DEF VacuumEnds, At, Phases, Working
  <2>2. /\ reported = {} /\ \A q \in Processes : process[q].phase \notin Made
    BY <2>1 DEF BackupsSound, VerifiedBackupsLast
  <2>3. \A q \in Processes : process'[q].phase \in Made => q = p
    BY <1>2, <2>1, <2>2 DEF Others
  <2>4. process'[p].begun <= Commits(file'.content)
    BY <1>3, <2>1 DEF BackupsSound
  <2>5. \A q \in Processes :
            process'[q].phase = "writing" => process'[q].begun <= Commits(process'[q].copy)
    BY <1>2, <1>3, <2>1 DEF BackupsSound, Others
  <2> QED
    BY <1>3, <2>1, <2>2, <2>3, <2>4, <2>5 DEF BackupsSound, VerifiedBackupsLast, Made
<1>7. CASE VacuumFails(p)
  <2>1. /\ process[p].phase = "writing" /\ file.kind = "empty" /\ process'[p].phase = "failed"
        /\ reported' = reported
    BY <1>7, EndKeeps DEF VacuumFails, At, Ended
  <2>2. /\ reported = {} /\ \A q \in Processes : process[q].phase \notin Made
    BY <2>1 DEF BackupsSound, VerifiedBackupsLast
  <2>3. \A q \in Processes : process'[q].phase \notin Made
    BY <1>2, <2>1, <2>2 DEF Others, Made
  <2>5. \A q \in Processes :
            process'[q].phase = "writing" => process'[q].begun <= Commits(process'[q].copy)
    BY <1>2, <1>3, <2>1 DEF BackupsSound, Others
  <2> QED
    BY <1>3, <2>1, <2>2, <2>3, <2>5 DEF BackupsSound, VerifiedBackupsLast, Made
<1>8. CASE Verify(p)
  <2>1. /\ process[p].phase = "written" /\ file' = file
        /\ process'[p].phase \in {"done", "rejected"}
        /\ \/ process'[p].phase = "rejected" /\ reported' = reported
           \/ /\ process'[p].phase = "done" /\ file.kind = "whole"
              /\ file.content.version = CurrentSchemaVersion
              /\ reported' = reported \cup {process[p].begun}
    BY <1>8, ToKeeps, EndKeeps DEF Verify, At, Phases, Working, Ended
  <2>2. /\ file.kind = "whole" /\ reported = {} /\ process[p].begun <= Commits(file.content)
        /\ \A q \in Processes \ {p} : process[q].phase \notin Made
    BY <2>1 DEF BackupsSound, Made
  <2>3. \A q \in Processes : process'[q].phase \in Made =>
                                 q = p /\ process'[q].phase = "rejected" /\ reported' = reported
    BY <1>2, <2>1, <2>2 DEF Others, Made
  <2>5. \A q \in Processes :
            process'[q].phase = "writing" => process'[q].begun <= Commits(process'[q].copy)
    BY <1>2, <1>3, <2>1 DEF BackupsSound, Others
  <2>6. VerifiedBackupsLast'
    BY <2>1, <2>2 DEF VerifiedBackupsLast
  <2> QED
    BY <1>3, <2>1, <2>2, <2>3, <2>5, <2>6 DEF BackupsSound, Made
<1>9. CASE Remove(p)
  <2>1. /\ process[p].phase = "rejected" /\ process'[p].phase = "failed"
        /\ reported' = reported
    BY <1>9, EndKeeps DEF Remove, At, Ended
  <2>2. reported = {} /\ \A q \in Processes \ {p} : process[q].phase \notin Made
    BY <2>1 DEF BackupsSound, Made
  <2>3. \A q \in Processes : process'[q].phase \notin Made
    BY <1>2, <2>1, <2>2 DEF Others, Made
  <2>5. \A q \in Processes :
            process'[q].phase = "writing" => process'[q].begun <= Commits(process'[q].copy)
    BY <1>2, <1>3, <2>1 DEF BackupsSound, Others
  <2> QED
    BY <1>3, <2>1, <2>2, <2>3, <2>5 DEF BackupsSound, VerifiedBackupsLast, Made
<1> QED
  BY <1>4, <1>5, <1>6, <1>7, <1>8, <1>9 DEF Backup

(* Steps that change no process record, and no file of a backup. *)
LEMMA DatabaseStep ==
    ASSUME TypeOK, TypeOK', BackupsSound, [Next]_vars, UNCHANGED <<file, process, reported>>
    PROVE  BackupsSound'
<1>1. \A q \in Processes : process[q].begun \in Nat
  BY DEF TypeOK, Process
<1>2. \A q \in Processes : process'[q].begun <= Commits(database')
  BY <1>1, DatabaseGrows DEF BackupsSound
<1> QED
  BY <1>2 DEF BackupsSound, VerifiedBackupsLast

(* Commands.VerifiedBackupsLast: what "backup verified" was said of stays  *)
(* a whole copy, not older than its command, whatever the other backups to *)
(* that destination do.                                                    *)
THEOREM BackupsLast == Spec => []VerifiedBackupsLast
<1>1. Init => BackupsSound
  <2> SUFFICES ASSUME Init PROVE BackupsSound
    OBVIOUS
  <2>1. TypeOK
    BY InitTyped
  <2>2. Commits(database) \in Nat
    BY <2>1, DatabaseTyped DEF TypeOK
  <2>3. \A p \in Processes : process[p].begun = 0 /\ process[p].phase = "unborn"
    BY DEF Init, Unborn
  <2>4. reported = {}
    BY DEF Init
  <2> QED
    BY <2>2, <2>3, <2>4 DEF BackupsSound, VerifiedBackupsLast, Made
<1>2. TypeOK /\ TypeOK' /\ BackupsSound /\ [Next]_vars => BackupsSound'
  <2> SUFFICES ASSUME TypeOK, TypeOK', BackupsSound, [Next]_vars PROVE BackupsSound'
    OBVIOUS
  <2>1. ASSUME NEW p \in Processes, NEW command \in Names, NEW user \in Users,
               Start(p, command, user, 1)
        PROVE  BackupsSound'
    <3> DEFINE new == [Unborn EXCEPT !.command = command, !.phase = "config", !.user = user,
                                     !.uid = user, !.gid = user, !.groups = {user}, !.id = 1,
                                     !.begun = Commits(database)]
    <3>1. /\ process' = [process EXCEPT ![p] = new] /\ UNCHANGED <<database, file, reported>>
          /\ process \in [Processes -> Process]
      BY <2>1 DEF Start, TypeOK
    <3>2. new.phase = "config" /\ new.begun = Commits(database)
      BY DEF Unborn
    <3> HIDE DEF new
    <3>3. Others(p) /\ process'[p] = new
      BY <3>1 DEF Others
    <3>4. process'[p].begun <= Commits(database')
      BY <3>1, <3>2, <3>3, DatabaseGrows
    <3> QED
      BY <3>1, <3>2, <3>3, <3>4, FileKept DEF Made
  <2>2. ASSUME NEW p \in Processes,
               Keeps(process[p], process'[p]), Others(p), UNCHANGED <<file, reported>>,
               \/ process'[p].phase \notin Made \cup {"writing"}
               \/ process'[p].phase = process[p].phase /\ process'[p].copy = process[p].copy
        PROVE  BackupsSound'
    <3>1. process[p].begun \in Nat
      BY DEF TypeOK, Process
    <3>2. process'[p].begun <= Commits(database')
      BY <2>2, <3>1, DatabaseGrows DEF BackupsSound, Keeps
    <3> QED
      BY <2>2, <3>2, FileKept DEF Keeps
  <2>3. ASSUME NEW p \in Processes, Step(p) \/ Outside(p) PROVE BackupsSound'
    <3>1. CASE LoadConfig(p) \/ Open(p)
      BY <3>1, <2>2, ToKeeps DEF LoadConfig, Open, Phases, Preparing, Working, Made
    <3>2. CASE PrepareRuntime(p)
      <4>1. CASE MkdirAll(p) \/ CheckUser(p)
        BY <3>2, <4>1, <2>2, ToKeeps
        DEF PrepareRuntime, MkdirAll, CheckUser, Phases, Preparing, Working, Made
      <4>2. CASE Chown(p) \/ DropPrivileges(p)
        <5>1. process[p].begun \in Nat /\ UNCHANGED <<file, reported>>
          BY <3>2 DEF PrepareRuntime, TypeOK, Process
        <5>2. /\ Others(p) /\ process'[p].phase \in Calls
              /\ process'[p].begun = process[p].begun
          BY <4>2, CallKeeps
        <5>3. process'[p].begun <= Commits(database')
          BY <5>1, <5>2, DatabaseGrows DEF BackupsSound
        <5> QED
          BY <5>1, <5>2, <5>3, FileKept DEF Made, Calls
      <4> QED
        BY <3>2, <4>1, <4>2 DEF PrepareRuntime
    <3>3. CASE Serve(p) \/ Outside(p)
      <4>1. UNCHANGED <<file, reported>>
        BY <3>3 DEF Serve, Outside
      <4> QED
        BY <3>3, <4>1, <2>2, ServeKeeps DEF ServerPhases, Made
    <3>4. CASE Admin(p)
      <4>1. UNCHANGED <<file, reported>>
        BY <3>4 DEF Admin
      <4>2. process'[p].phase \notin Made \cup {"writing"}
        BY <3>4, ToKeeps, EndKeeps
        DEF Admin, Moderate, Encode, Audit, List, Phases, Working, Ended, Made
      <4> QED
        BY <3>4, <4>1, <4>2, <2>2, AdminKeeps
    <3> QED
      BY <2>3, <3>1, <3>2, <3>3, <3>4, BackupStep DEF Step
  <2>4. ASSUME NEW p \in Processes, Fail(p) PROVE BackupsSound'
    BY <2>4, <2>2, EndKeeps DEF Fail, Ended, Made
  <2>5. CASE \E r \in Requests : Handle(r)
    BY <2>5, DatabaseStep DEF Handle
  <2>6. CASE Upgrade
    BY <2>6, DatabaseStep DEF Upgrade
  <2>7. CASE UNCHANGED vars
    BY <2>7, DatabaseStep DEF vars
  <2>8. CASE CleanUp
    BY <2>8 DEF CleanUp, BackupsSound, VerifiedBackupsLast, Alive, Made
  <2> QED
    BY <2>1, <2>3, <2>4, <2>5, <2>6, <2>7, <2>8 DEF Next
<1>3. BackupsSound => VerifiedBackupsLast
  BY DEF BackupsSound
<1> QED
  BY <1>1, <1>2, <1>3, TypeCorrect, PTL DEF Spec

-----------------------------------------------------------------------------
(* Reports.  An administrator's command has its event from the commit on,  *)
(* and only the commands that moderate come to those phases.               *)
NotYet == {"unborn"} \cup Preparing \cup {"dispatch", "opened"}

CommandsInPlace ==
    \A p \in Processes :
        /\ process[p].phase \in {"ready", "listening", "closing"} =>
              process[p].command = "serve"
        /\ process[p].phase \in {"checked", "writing", "written", "rejected"} =>
              process[p].command = "backup"

ReportsSound ==
    /\ CommandsInPlace
    /\ \A p \in Processes : process[p].phase \in NotYet => EventsOf(p) = {}
    /\ \A p \in Processes : process[p].phase \in {"committed", "encoded"} => EventsOf(p) # {}
    /\ ReportsAreTrue

(* A step that appends no event, writes no audit line and reports no       *)
(* moderation.                                                             *)
LEMMA NoEvent ==
    ASSUME TypeOK, ReportsSound, NEW p \in Processes, Others(p),
           database'.events = database.events, audit' \subseteq audit \cup {p},
           Keeps(process[p], process'[p]),
           p \in audit' => p \in audit \/ EventsOf(p) # {},
           process'[p].phase \in NotYet => process[p].phase \in NotYet,
           process'[p].phase \in {"committed", "encoded"} =>
               process[p].phase \in {"committed", "encoded"},
           process'[p].phase \in {"ready", "listening", "closing"} =>
               process[p].command = "serve",
           process'[p].phase \in {"checked", "writing", "written", "rejected"} =>
               process[p].command = "backup",
           process'[p].phase = "done" =>
               \/ process[p].phase = "done" \/ EventsOf(p) # {}
               \/ process[p].command \notin {"hide", "restore"}
    PROVE  ReportsSound'
<1>1. \A q \in Processes : EventsOf(q)' = EventsOf(q)
  BY DEF EventsOf
<1>2. CommandsInPlace'
  BY DEF ReportsSound, CommandsInPlace, Others, Keeps
<1>3. \A q \in Processes : process'[q].phase \in NotYet => EventsOf(q)' = {}
  BY <1>1 DEF ReportsSound, Others
<1>4. \A q \in Processes :
          process'[q].phase \in {"committed", "encoded"} => EventsOf(q)' # {}
  BY <1>1 DEF ReportsSound, Others
<1>5. ReportsAreTrue'
  <2>1. \A q \in Processes : \A i, j \in EventsOf(q)' : i = j
    BY <1>1 DEF ReportsSound, ReportsAreTrue
  <2>2. \A q \in Processes : q \in audit' => EventsOf(q)' # {}
    BY <1>1 DEF ReportsSound, ReportsAreTrue
  <2>3. \A q \in Processes :
            process'[q].command \in {"hide", "restore"} /\ process'[q].phase = "done" =>
                EventsOf(q)' # {}
    BY <1>1 DEF ReportsSound, ReportsAreTrue, Others, Keeps
  <2> QED
    BY <2>1, <2>2, <2>3 DEF ReportsAreTrue
<1> QED
  BY <1>2, <1>3, <1>4, <1>5 DEF ReportsSound

LEMMA ModerateStep ==
    ASSUME TypeOK, ReportsSound, NEW p \in Processes, Moderate(p)
    PROVE  ReportsSound'
<1>1. /\ database \in Database /\ database.events \in Seq(Processes)
      /\ process[p] \in Process
  BY DatabaseTyped DEF TypeOK
<1>2. database'.events = Append(database.events, p)
  BY <1>1 DEF Moderate, Database
<1>3. /\ Keeps(process[p], process'[p]) /\ Others(p) /\ process[p].phase = "opened"
      /\ process'[p].phase = "committed" /\ process[p].command \in {"hide", "restore"}
      /\ audit' = audit
  BY ToKeeps DEF Moderate, At, Phases, Working
<1>4. EventsOf(p) = {}
  BY <1>3 DEF ReportsSound, NotYet
<1> DEFINE n == Len(database.events)
<1>5. /\ n \in Nat /\ DOMAIN database.events = 1 .. n /\ DOMAIN database'.events = 1 .. n + 1
      /\ database'.events[n + 1] = p
      /\ \A i \in 1 .. n : database'.events[i] = database.events[i]
  BY <1>1, <1>2
<1> HIDE DEF n
<1>6. EventsOf(p)' = {n + 1}
  BY <1>4, <1>5 DEF EventsOf
<1>7. \A q \in Processes \ {p} : EventsOf(q)' = EventsOf(q)
  BY <1>5 DEF EventsOf
<1>8. CommandsInPlace'
  BY <1>3 DEF ReportsSound, CommandsInPlace, Others, Keeps
<1>9. ReportsAreTrue'
  <2>1. \A q \in Processes : \A i, j \in EventsOf(q)' : i = j
    BY <1>6, <1>7 DEF ReportsSound, ReportsAreTrue
  <2>2. \A q \in Processes : q \in audit' => EventsOf(q)' # {}
    BY <1>3, <1>6, <1>7 DEF ReportsSound, ReportsAreTrue
  <2>3. \A q \in Processes :
            process'[q].command \in {"hide", "restore"} /\ process'[q].phase = "done" =>
                EventsOf(q)' # {}
    BY <1>3, <1>6, <1>7 DEF ReportsSound, ReportsAreTrue, Others
  <2> QED
    BY <2>1, <2>2, <2>3 DEF ReportsAreTrue
<1> QED
  BY <1>3, <1>6, <1>7, <1>8, <1>9 DEF ReportsSound, Others, NotYet, Preparing

LEMMA ReportsStep ==
    ASSUME TypeOK, ReportsSound, [Next]_vars, NEW p \in Processes,
           Step(p) \/ Outside(p) \/ Fail(p)
    PROVE  ReportsSound'
<1>2. CASE LoadConfig(p)
  BY <1>2, ToKeeps, NoEvent DEF LoadConfig, At, Phases, Preparing, NotYet
<1>3. CASE Open(p)
  <2>1. database'.events = database.events
    BY <1>3 DEF Open, TypeOK, Database
  <2>2. /\ Keeps(process[p], process'[p]) /\ Others(p) /\ process[p].phase = "dispatch"
        /\ process'[p].phase = "opened" /\ audit' = audit
    BY <1>3, ToKeeps DEF Open, At, Phases, Working
  <2> QED
    BY <2>1, <2>2, NoEvent DEF NotYet
<1>4. CASE PrepareRuntime(p)
  <2>1. process[p].phase \in NotYet /\ audit' = audit /\ database' = database
    BY <1>4 DEF PrepareRuntime, MkdirAll, CheckUser, Chown, DropPrivileges, Call, At,
                NotYet, Preparing
  <2>2. /\ Others(p) /\ process'[p].command = process[p].command
        /\ process'[p].phase \in NotYet
    <3>1. CASE MkdirAll(p) \/ CheckUser(p)
      BY <3>1, ToKeeps DEF MkdirAll, CheckUser, Keeps, Phases, Preparing, Working, NotYet
    <3>2. CASE Chown(p) \/ DropPrivileges(p)
      BY <3>2, CallKeeps DEF Calls, NotYet, Preparing
    <3> QED
      BY <1>4, <3>1, <3>2 DEF PrepareRuntime
  <2>3. \A q \in Processes : EventsOf(q)' = EventsOf(q)
    BY <2>1 DEF EventsOf
  <2>4. process'[p].phase \notin {"ready", "listening", "closing", "checked", "writing",
                                  "written", "rejected", "committed", "encoded", "done"}
    BY <2>2 DEF NotYet, Preparing
  <2>5. ReportsAreTrue'
    BY <2>1, <2>2, <2>3, <2>4 DEF ReportsSound, ReportsAreTrue, Others
  <2>6. CommandsInPlace'
    BY <2>2, <2>4 DEF ReportsSound, CommandsInPlace, Others
  <2> QED
    BY <2>1, <2>2, <2>3, <2>4, <2>5, <2>6 DEF ReportsSound, Others
<1>5. CASE Serve(p) \/ Outside(p)
  <2>1. database' = database /\ audit' = audit
    BY <1>5 DEF Serve, Outside
  <2>2. process[p].phase \in {"ready", "listening", "closing"} => process[p].command = "serve"
    BY DEF ReportsSound, CommandsInPlace
  <2>3. process[p].phase \in {"checked", "writing", "written", "rejected"} =>
            process[p].command = "backup"
    BY DEF ReportsSound, CommandsInPlace
  <2> QED
    BY <1>5, <2>1, <2>2, <2>3, ServeKeeps, NoEvent DEF ServerPhases, NotYet, Preparing
<1>6. CASE Backup(p)
  <2>1. database' = database /\ audit' = audit
    BY <1>6 DEF Backup
  <2>2. /\ process[p].command = "backup"
        /\ process'[p].phase \in {"checked", "writing", "written", "rejected", "done", "failed"}
    <3>1. process[p].phase \in {"checked", "writing", "written", "rejected"} =>
              process[p].command = "backup"
      BY DEF ReportsSound, CommandsInPlace
    <3>2. CASE VacuumBegins(p)
      <4> DEFINE new == [process[p] EXCEPT !.phase = "writing", !.copy = database]
      <4>1. process' = [process EXCEPT ![p] = new] /\ process[p].phase = "checked"
        BY <3>2 DEF VacuumBegins, At
      <4>2. new.phase = "writing"
        BY DEF TypeOK, Process
      <4> QED
        BY <3>1, <4>1, <4>2 DEF TypeOK
    <3>3. CASE Stat(p) \/ VacuumEnds(p) \/ VacuumFails(p) \/ Verify(p) \/ Remove(p)
      BY <3>1, <3>3, ToKeeps, EndKeeps
      DEF Stat, VacuumEnds, VacuumFails, Verify, Remove, Does, At, Phases, Working, Ended
    <3> QED
      BY <1>6, <3>2, <3>3 DEF Backup
  <2> QED
    BY <1>6, <2>1, <2>2, BackupKeeps, NoEvent DEF NotYet, Preparing
<1>7. CASE Admin(p)
  <2>1. CASE Encode(p)
    BY <2>1, ToKeeps, NoEvent DEF Encode, At, Phases, Working, NotYet, Preparing
  <2>2. CASE Audit(p)
    <3>1. EventsOf(p) # {}
      BY <2>2 DEF Audit, At, ReportsSound
    <3> QED
      BY <2>2, <3>1, EndKeeps, NoEvent DEF Audit, Ended, NotYet, Preparing
  <2>3. CASE List(p)
    BY <2>3, EndKeeps, NoEvent DEF List, Does, Ended, NotYet, Preparing
  <2> QED
    BY <1>7, <2>1, <2>2, <2>3, ModerateStep DEF Admin
<1>8. CASE Fail(p)
  BY <1>8, EndKeeps, NoEvent DEF Fail, Ended, NotYet, Preparing
<1> QED
  BY <1>2, <1>3, <1>4, <1>5, <1>6, <1>7, <1>8 DEF Step

(* Commands.ReportsAreTrue: a moderation that was reported as done, or is  *)
(* in the audit, was committed, and once.                                  *)
THEOREM ReportsHold == Spec => []ReportsAreTrue
<1>1. Init => ReportsSound
  <2> SUFFICES ASSUME Init PROVE ReportsSound
    OBVIOUS
  <2>1. \A p \in Processes : process[p].phase = "unborn"
    BY DEF Init, Unborn
  <2>2. database.events = <<>>
    <3>1. Fresh \in Database /\ Fresh.events = <<>>
      BY UnbornTyped DEF Fresh
    <3>2. \A version, postcards :
              [Fresh EXCEPT !.version = version, !.postcards = postcards].events = Fresh.events
      BY <3>1 DEF Database
    <3> QED
      BY <3>1, <3>2 DEF Init
  <2>3. \A p \in Processes : EventsOf(p) = {}
    BY <2>2 DEF EventsOf
  <2> QED
    BY <2>1, <2>3 DEF Init, ReportsSound, ReportsAreTrue, CommandsInPlace
<1>2. TypeOK /\ ReportsSound /\ [Next]_vars => ReportsSound'
  <2> SUFFICES ASSUME TypeOK, ReportsSound, [Next]_vars PROVE ReportsSound'
    OBVIOUS
  <2>1. ASSUME UNCHANGED <<process, audit>>, database'.events = database.events
        PROVE  ReportsSound'
    BY <2>1 DEF ReportsSound, ReportsAreTrue, CommandsInPlace, EventsOf
  <2>2. ASSUME NEW p \in Processes, NEW command \in Names, NEW user \in Users,
               Start(p, command, user, 1)
        PROVE  ReportsSound'
    <3> DEFINE new == [Unborn EXCEPT !.command = command, !.phase = "config", !.user = user,
                                     !.uid = user, !.gid = user, !.groups = {user}, !.id = 1,
                                     !.begun = Commits(database)]
    <3>1. /\ process' = [process EXCEPT ![p] = new] /\ UNCHANGED <<database, audit>>
          /\ process \in [Processes -> Process] /\ process[p].phase = "unborn"
      BY <2>2 DEF Start, At, TypeOK
    <3>2. new.phase = "config"
      BY DEF Unborn
    <3> HIDE DEF new
    <3>3. Others(p) /\ process'[p].phase = "config"
      BY <3>1, <3>2 DEF Others
    <3>4. \A q \in Processes : EventsOf(q)' = EventsOf(q)
      BY <3>1 DEF EventsOf
    <3>5. EventsOf(p) = {}
      BY <3>1 DEF ReportsSound, NotYet
    <3>6. CommandsInPlace'
      BY <3>3 DEF ReportsSound, CommandsInPlace, Others
    <3>7. ReportsAreTrue'
      BY <3>1, <3>3, <3>4 DEF ReportsSound, ReportsAreTrue, Others
    <3> QED
      BY <3>3, <3>4, <3>5, <3>6, <3>7 DEF ReportsSound, Others
  <2>3. CASE \E r \in Requests : Handle(r)
    BY <2>1, <2>3 DEF Handle, Accept, Commit, Answer, TypeOK, Database
  <2>4. CASE Upgrade
    BY <2>1, <2>4 DEF Upgrade, TypeOK, Database
  <2>5. CASE CleanUp \/ UNCHANGED vars
    BY <2>1, <2>5 DEF CleanUp, vars
  <2> QED
    BY <2>2, <2>3, <2>4, <2>5, ReportsStep DEF Next
<1>3. ReportsSound => ReportsAreTrue
  BY DEF ReportsSound
<1> QED
  BY <1>1, <1>2, <1>3, TypeCorrect, PTL DEF Spec
=============================================================================
