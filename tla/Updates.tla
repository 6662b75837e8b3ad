------------------------------- MODULE Updates -------------------------------
(***************************************************************************)
(* The activation of a release: the daemon's gate for mutations and its    *)
(* maintenance lock (zf-serve/src/server.rs, zf-serve/src/app_updates.rs,  *)
(* zf-execution/src/service.rs) and the supervisor that replaces the       *)
(* daemon (tooling/releases/src/releases.mjs).  They meet in files of the  *)
(* release directory: the request, the current release, the heartbeat.     *)
(*                                                                         *)
(* Either process may die at any point; a handler is dropped with its      *)
(* connection; a release may fail to start, and a release that has been    *)
(* altered is refused.                                                     *)
(***************************************************************************)
EXTENDS Integers, FiniteSets

CONSTANTS
    Releases,       \* numbers
    Unstartable,    \* releases whose daemon never answers
    Clients,        \* clients with at most one command each
    MaxRequests,    \* bound: requested activations
    MaxFaults       \* bound: deaths, alterations, dropped handlers, failed writes

None == 0

VARIABLES
    request,        \* request.json: [source, target] or NoRequest
    current,        \* current.json: [release, previous]
    manager,        \* manager.json, when fresh: [release, ready] or NoManager
    altered,        \* releases whose files no longer match their manifest
    daemon,         \* [release, pc]: the process with the data directory
    gate, requested,    \* Updates.gate and Updates.requested
    update,         \* the handler of an activation request: [pc, target]
    cmd,            \* the commands of the clients
    sup,            \* the supervisor: [pc, active, release, previous, healthy]
    requests, faults,
    confirmed       \* history: releases that have answered as themselves

files == <<request, current, manager, altered>>
inside == <<gate, requested, update, cmd>>
budget == <<requests, faults>>
updates == <<request, current, manager, altered, daemon, gate, requested, update, cmd,
          sup, requests, faults, confirmed>>

NoUpdate == [pc |-> "none", target |-> None]
NoRequest == [source |-> None, target |-> None]
NoManager == [release |-> None, ready |-> FALSE]
NoDaemon == [release |-> None, pc |-> "none"]
First == CHOOSE r \in Releases \ Unstartable : \A s \in Releases \ Unstartable : r <= s

\* The release directory after its first start.
UpdatesInit ==
    /\ request = NoRequest /\ manager = NoManager /\ altered = {}
    /\ current = [release |-> First, previous |-> None]
    /\ daemon = NoDaemon
    /\ gate = FALSE /\ requested = FALSE /\ update = NoUpdate
    /\ cmd = [c \in Clients |-> "idle"]
    /\ sup = [pc |-> "down", active |-> None, release |-> None, previous |-> None,
              healthy |-> FALSE]
    /\ requests = 0 /\ faults = 0 /\ confirmed = {First}

Fault == faults < MaxFaults /\ faults' = faults + 1

-----------------------------------------------------------------------------
(***************************************************************************)
(* Commands.  The gate is held for reading while a mutation is handled; a  *)
(* lease of the maintenance lock by each command and each execution.       *)
(***************************************************************************)
Serving == daemon.pc = "serving"
Handled == {c \in Clients : cmd[c] \in {"gated", "admitted"}}
Leases == {c \in Clients : cmd[c] \in {"admitted", "running"}}

\* The write guard of the gate is held, or a writer waits for it: readers queue.
Writer == update.pc \in {"gate", "check", "write", "sync"}
Maintenance == update.pc \in {"check", "write", "sync", "closing"}

OnlyCommands ==
    UNCHANGED <<files, daemon, gate, requested, update, sup, budget, confirmed>>

\* version_gate: a mutation is refused once an activation has been accepted.
CommandEnters(c) ==
    /\ Serving /\ cmd[c] = "idle" /\ ~Writer /\ ~gate
    /\ cmd' = [cmd EXCEPT ![c] = "gated"] /\ OnlyCommands

\* admit: a command never waits for a maintenance operation.
CommandAdmitted(c) ==
    /\ cmd[c] = "gated"
    /\ cmd' = [cmd EXCEPT ![c] = IF Maintenance THEN "idle" ELSE "admitted"]
    /\ OnlyCommands

\* The command has been answered; an execution it launched keeps the lease.
CommandEnds(c) ==
    /\ \/ cmd[c] = "admitted" /\ cmd' \in {[cmd EXCEPT ![c] = "idle"], [cmd EXCEPT ![c] = "running"]}
       \/ cmd[c] = "running" /\ cmd' = [cmd EXCEPT ![c] = "idle"]
    /\ OnlyCommands

-----------------------------------------------------------------------------
(***************************************************************************)
(* The request of an activation.                                           *)
(***************************************************************************)
UpdateGoes(pc) == update' = IF pc = "none" THEN NoUpdate ELSE [update EXCEPT !.pc = pc]

UpdateAsked(r) ==
    /\ Serving /\ update.pc = "none" /\ requests < MaxRequests
    /\ requests' = requests + 1
    /\ update' = [pc |-> "gate", target |-> r]
    /\ UNCHANGED <<files, daemon, gate, requested, cmd, sup, faults, confirmed>>

\* Fault: the executions that go on are not looked at.
GateTakenOnly ==
    /\ update.pc = "gate" /\ Handled = {}
    /\ UpdateGoes(IF gate THEN "none" ELSE "check")
    /\ UNCHANGED <<files, daemon, gate, requested, cmd, sup, budget, confirmed>>

\* The gate is taken when no mutation is handled, maintenance only if nobody has a
\* lease: try_begin_maintenance does not wait.
GateTaken ==
    /\ update.pc = "gate" /\ Handled = {}
    /\ UpdateGoes(IF gate \/ Leases # {} THEN "none" ELSE "check")
    /\ UNCHANGED <<files, daemon, gate, requested, cmd, sup, budget, confirmed>>

\* manager_alive, and the target has a manifest of this platform and storage.
ManagerAlive == manager.ready /\ manager.release = daemon.release
CheckRequest ==
    /\ update.pc = "check"
    /\ UpdateGoes(IF ManagerAlive /\ update.target # daemon.release THEN "write" ELSE "none")
    /\ UNCHANGED <<files, daemon, gate, requested, cmd, sup, budget, confirmed>>

\* atomic_json: the rename may fail; it is followed by a sync of the directory.
WriteRequest ==
    /\ update.pc = "write"
    /\ \/ /\ request' = [source |-> daemon.release, target |-> update.target]
          /\ UpdateGoes("sync") /\ faults' = faults
       \/ Fault /\ UpdateGoes("none") /\ request' = request
    /\ UNCHANGED <<current, manager, altered, daemon, gate, requested, cmd, sup,
                   requests, confirmed>>

AcknowledgeRequest ==
    /\ update.pc = "sync"
    /\ requested' = TRUE /\ gate' = TRUE
    /\ UpdateGoes("closing")
    /\ UNCHANGED <<files, daemon, cmd, sup, budget, confirmed>>

\* The connection ends: the handler is dropped with its guards.
HandlerDropped ==
    /\ Writer /\ Fault
    /\ UpdateGoes("none")
    /\ UNCHANGED <<files, daemon, gate, requested, cmd, sup, requests, confirmed>>

\* After 300 ms the transports close and the maintenance guard is dropped.
CloseTransports ==
    /\ update.pc = "closing"
    /\ UpdateGoes("none")
    /\ daemon' = [daemon EXCEPT !.pc = "draining"]
    /\ UNCHANGED <<files, gate, requested, cmd, sup, budget, confirmed>>

\* Requests in progress have been answered, executions have been cancelled and
\* have drained; the exit status says whether a release is to be activated.
ExitDaemon ==
    /\ daemon.pc = "draining" /\ Handled = {} /\ Leases = {} /\ update.pc = "none"
    /\ daemon' = [daemon EXCEPT !.pc = IF requested THEN "exit75" ELSE "exit"]
    /\ gate' = FALSE /\ requested' = FALSE
    /\ UNCHANGED <<files, update, cmd, sup, budget, confirmed>>

Gone == /\ gate' = FALSE /\ requested' = FALSE /\ update' = NoUpdate
        /\ cmd' = [c \in Clients |-> "idle"]

DaemonDies ==
    /\ daemon.pc \in {"starting", "serving", "draining"} /\ Fault
    /\ daemon' = [daemon EXCEPT !.pc = "exit"] /\ Gone
    /\ UNCHANGED <<files, sup, requests, confirmed>>

DaemonServes ==
    /\ daemon.pc = "starting" /\ daemon.release \notin Unstartable
    /\ daemon' = [daemon EXCEPT !.pc = "serving"]
    /\ UNCHANGED <<files, inside, sup, budget, confirmed>>

-----------------------------------------------------------------------------
(***************************************************************************)
(* The supervisor.                                                         *)
(***************************************************************************)
Alive == daemon.pc \in {"starting", "serving", "draining"}
OnlySup == UNCHANGED <<gate, requested, update, cmd, requests, confirmed>>
Beat(active, ready) == manager' = [release |-> active, ready |-> ready]

\* A request that was left is reported, not executed.  A daemon that has survived its
\* supervisor keeps the data directory and the next one cannot start beside it.
SupervisorStarts ==
    /\ sup.pc = "down" /\ ~Alive
    /\ sup' = [pc |-> "boot", active |-> current.release, release |-> current.release,
               previous |-> current.previous, healthy |-> FALSE]
    /\ request' = NoRequest
    /\ Beat(current.release, FALSE)
    /\ daemon' = NoDaemon
    /\ UNCHANGED <<current, altered, faults>> /\ OnlySup

Launching == sup.pc \in {"boot", "candidate", "restore"}

\* launch: an altered release is refused, before a process is started.
SpawnDaemon ==
    /\ Launching /\ daemon.pc = "none"
    /\ IF sup.active \in altered
         THEN sup' = [sup EXCEPT !.pc = IF @ = "candidate" THEN "rollback" ELSE "stop"] /\ daemon' = daemon
         ELSE sup' = sup /\ daemon' = [release |-> sup.active, pc |-> "starting"]
    /\ UNCHANGED <<files, faults>> /\ OnlySup

\* The process answers with its release; it has exited, or 30 seconds have passed and
\* it is stopped.
Probe ==
    /\ Launching /\ daemon.pc # "none"
    /\ \/ /\ Serving
          /\ confirmed' = confirmed \cup {daemon.release}
          /\ sup' = [sup EXCEPT !.healthy = TRUE,
                       !.pc = IF @ = "candidate" THEN "confirm" ELSE "watch"]
          /\ IF sup.pc = "candidate" THEN manager' = manager ELSE Beat(sup.active, TRUE)
          /\ request' = IF sup.pc = "restore" THEN NoRequest ELSE request
          /\ UNCHANGED <<current, altered, daemon, inside, budget>>
       \/ /\ daemon.pc \in {"starting", "exit"}
          /\ sup' = [sup EXCEPT !.healthy = FALSE,
                       !.pc = IF @ = "candidate" THEN "rollback" ELSE "stop"]
          /\ daemon' = NoDaemon
          /\ UNCHANGED <<files, inside, budget, confirmed>>

\* The daemon has exited: only its request to be replaced goes on.
DaemonExited ==
    /\ sup.pc = "watch" /\ daemon.pc \in {"exit", "exit75"}
    /\ sup' = [sup EXCEPT !.pc = IF daemon.pc = "exit75" THEN "judge" ELSE "stop"]
    /\ daemon' = NoDaemon
    /\ Beat(sup.active, FALSE)
    /\ UNCHANGED <<request, current, altered, faults>> /\ OnlySup

JudgeRequest ==
    /\ sup.pc = "judge"
    /\ IF request.source = sup.release
          /\ {sup.release, request.target} \cap altered = {}
         THEN /\ sup' = [sup EXCEPT !.pc = "candidate", !.active = request.target]
              /\ Beat(request.target, FALSE)
         ELSE sup' = [sup EXCEPT !.pc = "rollback", !.healthy = FALSE] /\ manager' = manager
    /\ UNCHANGED <<request, current, altered, daemon, faults>> /\ OnlySup

\* The release is confirmed after it has answered; then its request is removed.
ConfirmRelease ==
    /\ sup.pc = "confirm"
    /\ \/ /\ current' = [release |-> sup.active, previous |-> sup.release]
          /\ sup' = [sup EXCEPT !.pc = "settle", !.release = sup.active, !.previous = sup.release]
          /\ Beat(sup.active, TRUE) /\ faults' = faults
       \/ /\ Fault /\ sup' = [sup EXCEPT !.pc = "rollback"]
          /\ UNCHANGED <<current, manager>>
       \/ /\ Fault /\ sup' = [sup EXCEPT !.pc = "stop"]    \* the heartbeat fails
          /\ current' = [release |-> sup.active, previous |-> sup.release]
          /\ manager' = manager
    /\ UNCHANGED <<request, altered, daemon>> /\ OnlySup

SettleRequest ==
    /\ sup.pc = "settle"
    /\ sup' = [sup EXCEPT !.pc = "watch"]
    /\ request' = NoRequest
    /\ UNCHANGED <<current, manager, altered, daemon, faults>> /\ OnlySup

\* A candidate that runs is stopped before the confirmed release is started again.
RollBack ==
    /\ sup.pc = "rollback"
    /\ IF sup.healthy /\ Alive
         THEN /\ daemon' = [daemon EXCEPT !.pc = "exit"] /\ Gone
              /\ UNCHANGED <<sup, manager>>
         ELSE /\ sup' = [sup EXCEPT !.pc = "restore", !.active = sup.release, !.healthy = FALSE]
              /\ daemon' = NoDaemon
              /\ Beat(sup.release, FALSE)
              /\ UNCHANGED inside
    /\ UNCHANGED <<request, current, altered, budget, confirmed>>

\* A heartbeat cannot be written: the supervisor gives up.
HeartbeatFails ==
    /\ sup.pc \in {"judge", "rollback"} /\ Fault
    /\ sup' = [sup EXCEPT !.pc = "stop"]
    /\ UNCHANGED <<files, daemon>> /\ OnlySup

\* The user stops the supervisor, or it gives up: the daemon is stopped first.
SupervisorStops ==
    /\ sup.pc = "stop" \/ sup.pc = "watch"
    /\ IF Alive THEN /\ daemon' = [daemon EXCEPT !.pc = "exit"] /\ Gone
                     /\ UNCHANGED <<sup, manager>>
       ELSE /\ sup' = [sup EXCEPT !.pc = "down"] /\ manager' = NoManager
            /\ daemon' = NoDaemon
            /\ UNCHANGED inside
    /\ UNCHANGED <<request, current, altered, budget, confirmed>>

\* The supervisor dies; its heartbeat grows old and its daemon goes on.
SupervisorDies ==
    /\ sup.pc # "down" /\ Fault
    /\ sup' = [sup EXCEPT !.pc = "down"] /\ manager' = NoManager
    /\ UNCHANGED <<request, current, altered, daemon>> /\ OnlySup

\* The user stops a daemon without its supervisor.
StopDaemon ==
    /\ sup.pc = "down" /\ Alive
    /\ daemon' = [daemon EXCEPT !.pc = "exit"] /\ Gone
    /\ UNCHANGED <<files, sup, budget, confirmed>>

AlterRelease(r) ==
    /\ Fault /\ altered' = altered \cup {r}
    /\ UNCHANGED <<request, current, manager, daemon, sup>> /\ OnlySup

-----------------------------------------------------------------------------
Commanding == \E c \in Clients : CommandEnters(c) \/ CommandAdmitted(c) \/ CommandEnds(c)
Updating ==
    \/ \E r \in Releases : UpdateAsked(r)
    \/ GateTaken \/ CheckRequest \/ WriteRequest \/ AcknowledgeRequest \/ HandlerDropped
    \/ CloseTransports \/ ExitDaemon \/ DaemonDies \/ DaemonServes
Supervising ==
    \/ SupervisorStarts \/ SpawnDaemon \/ Probe \/ DaemonExited \/ JudgeRequest
    \/ ConfirmRelease \/ SettleRequest \/ RollBack \/ HeartbeatFails \/ SupervisorStops \/ SupervisorDies
    \/ StopDaemon \/ \E r \in Releases : AlterRelease(r)

UpdatesNext == Commanding \/ Updating \/ Supervising

UpdatesSpec == UpdatesInit /\ [][UpdatesNext]_updates

-----------------------------------------------------------------------------
\* From the acknowledgement of an activation to the exit of the daemon no command
\* is handled and no execution goes on that the restart would interrupt.
UpdateInterruptsNothing == requested => Handled = {} /\ Leases = {}

\* Whatever dies during an activation, the release that would be started next is
\* one that has answered as itself, and so is the one to return to.
CurrentConfirmed ==
    /\ current.release \in confirmed
    /\ current.previous # None => current.previous \in confirmed

\* An activation interrupts no work and leaves a release that starts.
UpdatesSafe == UpdateInterruptsNothing /\ CurrentConfirmed

-----------------------------------------------------------------------------
(* The strengthening under which UpdatesSafe is inductive.                 *)
Known == Releases \cup {None, First}

SupPlaces == {"down", "boot", "candidate", "restore", "confirm", "watch", "judge",
              "rollback", "settle", "stop"}
SupState == [pc : SupPlaces, active : Known, release : Known, previous : Known,
             healthy : BOOLEAN]

UpdatesTypeOK ==
    /\ request \in [source : Known, target : Known]
    /\ current \in [release : Known, previous : Known]
    /\ daemon \in [release : Known,
                   pc : {"none", "starting", "serving", "draining", "exit", "exit75"}]
    /\ update \in [pc : {"none", "gate", "check", "write", "sync", "closing"}, target : Known]
    /\ cmd \in [Clients -> {"idle", "gated", "admitted", "running"}]
    /\ sup \in SupState
    /\ gate \in BOOLEAN /\ requested \in BOOLEAN
    /\ confirmed \subseteq Known

\* From the moment maintenance is taken to the exit nothing is handled.
QuietFromMaintenance ==
    /\ Maintenance \/ requested => Handled = {} /\ Leases = {}
    /\ requested \/ update.pc = "closing" => gate

\* A handler has a daemon that serves.
UpdateNeedsDaemon == update.pc # "none" => Serving

\* What the supervisor launches is the active release; it has no daemon while it
\* judges, and rolls a daemon back only if it has answered.
DaemonIsActive ==
    /\ Launching /\ daemon.pc # "none" => daemon.release = sup.active
    /\ sup.pc = "judge" => daemon.pc = "none"
    /\ sup.pc = "rollback" /\ ~sup.healthy => daemon.pc = "none"
    /\ sup.pc = "confirm" => sup.healthy

\* The release to return to and the one about to be confirmed have answered.
SupervisorConfirmed ==
    /\ sup.pc # "down" => sup.release \in confirmed
    /\ sup.pc = "confirm" => sup.active \in confirmed

UpdatesInv ==
    /\ UpdatesTypeOK /\ QuietFromMaintenance /\ UpdateNeedsDaemon
    /\ DaemonIsActive /\ SupervisorConfirmed /\ CurrentConfirmed
=============================================================================
