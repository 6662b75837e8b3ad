----------------------------- MODULE Archives ------------------------------
(***************************************************************************)
(* Sessions that leave a data directory and come back                       *)
(* (zf-storage/src/session_archive.rs, zf-execution/src/administration.rs). *)
(*                                                                          *)
(* An export captures an inactive session and replaces a directory of the   *)
(* user's workspace.  An import writes files, checkpoints and records of    *)
(* several sessions one by one, and makes them sessions in one transaction; *)
(* a marker on disk lets a failed or interrupted import be undone.  Every   *)
(* write may fail, the service may die between any two, and the user may    *)
(* edit an exported directory at any time.                                  *)
(*                                                                          *)
(* A bundle stands for its own hash: two archives have one hash when they   *)
(* have the same content.                                                   *)
(***************************************************************************)
EXTENDS Naturals, FiniteSets, FiniteSetsExt

CONSTANTS
    Sessions,   \* identities of sessions
    Home,       \* the session that was started here
    Foreign,    \* archives from elsewhere: sets of bundles
    MaxEvents,  \* bound: events of the table
    MaxTasks,   \* bound: imports and exports
    Faults      \* bound: failed writes, edits, vanished pieces and crashes

\* Archives hold sessions.
ASSUME ArchivesAssumption ==
    Home \in Sessions /\ \A bundles \in Foreign : \A b \in bundles : b.id \in Sessions

VARIABLES
    runs,       \* sessions of the database
    parts,      \* what else is stored under each identity
    events,     \* the event table: sequence number to session
    sequence,   \* the service's counter of events
    markers,    \* .session-imports: [name, phase, bundles]
    svc,        \* the service: recovering or serving
    task,       \* the import under way
    export,     \* the export under way
    target,     \* the exported directory of each session
    backup,     \* its predecessors, each under a .previous name
    late,       \* exports the user edited after they were checked
    lost,       \* exports whose edits were removed
    exported,   \* sessions with an exported directory, once
    missing,    \* pieces the sessions need are absent from the workspace
    tasks, mishaps,
    lagging,    \* an import failed between its commit and its end
    repeated    \* imported sessions resumed with an uncertain effect

db    == <<runs, parts, events, markers>>
disk  == <<target, backup, late, lost, exported>>
archives  == <<db, sequence, svc, task, export, disk, missing, tasks, mishaps, lagging, repeated>>

SessionFiles == "files"  Checkpoints == "checkpoints"  Records == "records"
AllParts == {SessionFiles, Checkpoints, Records}

None == <<>>
Edited == [id |-> None]
NoTask == [pc |-> "none"]

EventsOf(s) == {n \in DOMAIN events : events[n] = s}
LastSeq     == Max(DOMAIN events)

Fault == mishaps < Faults /\ mishaps' = mishaps + 1

ArchivesInit ==
    /\ runs = [s \in Sessions |-> IF s = Home
                 THEN [rev |-> 1, receipt |-> "none", origin |-> None, blocked |-> {}]
                 ELSE None]
    /\ parts = [s \in Sessions |-> IF s = Home THEN AllParts ELSE {}]
    /\ events = [n \in {1} |-> Home]
    /\ sequence = 1
    /\ markers = {}
    /\ svc = "serving" /\ task = NoTask /\ export = NoTask
    /\ target = [s \in Sessions |-> None] /\ backup = [s \in Sessions |-> {}]
    /\ late = {} /\ lost = {} /\ exported = {}
    /\ missing \in BOOLEAN
    /\ tasks = 0 /\ mishaps = 0 /\ lagging = FALSE /\ repeated = {}

-----------------------------------------------------------------------------
(* Bundles                                                                   *)

\* capture: the events, the receipts among the records, and the projection
\* with the archive it came from.
Capture(s) ==
    [id |-> s, events |-> Cardinality(EventsOf(s)),
     receipt |-> runs[s].receipt, origin |-> runs[s].origin]

\* validate_bundle: the inventory holds every byte, an edited one does not.
ValidateBundle(b) == b # Edited

\* A receipt of a call the model sealed for a window or a route of this program;
\* an external tool's effect has no proof.
SealedCall(receipt) == receipt # "external"

\* A window patch is settled when its publication is in the registry, or when
\* the window still has the revision the patch expects.
PatchSettled(receipt) == receipt # "moved"

\* The records of an exported session prove what an uncertain receipt did.
ResumableReceipt(receipt) == SealedCall(receipt) /\ PatchSettled(receipt)

\* hydrate_bundle: the content resolves, and each uncertain receipt without a
\* proof is a reason not to resume the session.
EffectDiagnostics(b) == IF ResumableReceipt(b.receipt) THEN {} ELSE {"effect"}

\* resume_diagnostics; the versions, the anchor and the definition of the
\* archives at hand fit this program.
ResumeDiagnostics(b) == EffectDiagnostics(b)

\* refresh_dependency_diagnostics looks at the workspace again and replaces
\* only the reasons that come from there.
Refreshed(blocked) ==
    (blocked \ {"pieces"}) \cup (IF missing THEN {"pieces"} ELSE {})

\* ensure_resume_allowed.
ResumeAllowed(s) == runs[s].blocked = {}

-----------------------------------------------------------------------------
(* Import                                                                    *)

\* The archives at hand: those from elsewhere, and exported directories.
Archives == Foreign \cup {{target[s]} : s \in {s \in Sessions : target[s] # None}}

Existing(bundles) == {b \in bundles : runs[b.id] # None}

\* A session that is here already has to be the archived one: imported from
\* this archive, or equal to it.
SameSession(b) == runs[b.id].origin = b \/ Capture(b.id) = b

\* No checkpoint, record or directory under an identity that is imported.
IdentityFree(b) == parts[b.id] = {}

\* import_sessions, until the marker's first write.  Whatever is wrong with an
\* archive is found before anything is written.
BeginImport(bundles) ==
    LET pending == bundles \ Existing(bundles) IN
    /\ svc = "serving" /\ task = NoTask /\ export = NoTask /\ tasks < MaxTasks
    /\ \A b \in bundles : ValidateBundle(b)
    /\ \A b \in Existing(bundles) : SameSession(b)
    /\ runs' = [s \in Sessions |->
                  IF \E b \in Existing(bundles) : b.id = s /\ runs[s].origin # None
                  THEN [runs[s] EXCEPT !.blocked = Refreshed(@)] ELSE runs[s]]
    /\ IF pending # {} /\ \A b \in pending : IdentityFree(b)
       THEN /\ markers' = markers \cup {[name |-> tasks, phase |-> "pending", bundles |-> pending]}
            /\ task' = [pc |-> "mark", name |-> tasks, bundles |-> pending]
       ELSE UNCHANGED <<markers, task>>
    /\ tasks' = tasks + 1
    /\ UNCHANGED <<parts, events, sequence, svc, export, disk, missing, mishaps, lagging, repeated>>

\* The rename of the marker authorizes everything that follows.
Mark ==
    /\ task.pc = "mark"
    /\ markers' = {IF m.name = task.name THEN [m EXCEPT !.phase = "marked"] ELSE m : m \in markers}
    /\ task' = [task EXCEPT !.pc = "install"]
    /\ UNCHANGED <<runs, parts, events, sequence, svc, export, disk, missing, tasks, mishaps,
                   lagging, repeated>>

\* Each session's files, then its checkpoints, then its records.
Before(p) == CASE p = SessionFiles -> {} [] p = Checkpoints -> {SessionFiles} [] OTHER -> {SessionFiles, Checkpoints}

Install ==
    /\ task.pc = "install"
    /\ \E b \in task.bundles : \E p \in AllParts \ parts[b.id] :
         /\ parts[b.id] = Before(p)
         /\ parts' = [parts EXCEPT ![b.id] = @ \cup {p}]
    /\ UNCHANGED <<runs, events, markers, sequence, svc, task, export, disk, missing, tasks,
                   mishaps, lagging, repeated>>

\* Fault: every bundle starts from the same number.
CountNothing(bundles) == 0

\* The events of each bundle get the next numbers of the table; the bundles
\* follow each other in the order of their identities.
Count(bundles) == MapThenSumSet(LAMBDA b : b.events, bundles)

Base(b) == LastSeq + Count({c \in task.bundles : c.id < b.id})

Numbers(b) == Base(b) + 1 .. Base(b) + b.events

\* A run without events keeps the anchor 0 of the archive.
NewRun(b) ==
    [rev     |-> IF b.events = 0 THEN 0 ELSE Base(b) + b.events,
     receipt |-> b.receipt, origin |-> b,
     blocked |-> Refreshed(ResumeDiagnostics(b))]

\* The transaction that turns the stored parts into sessions.
Commit ==
    /\ task.pc = "install" /\ \A b \in task.bundles : parts[b.id] = AllParts
    /\ events' = [n \in DOMAIN events \cup UNION {Numbers(b) : b \in task.bundles} |->
                    IF n \in DOMAIN events THEN events[n]
                    ELSE (CHOOSE b \in task.bundles : n \in Numbers(b)).id]
    /\ runs' = [s \in Sessions |-> IF \E b \in task.bundles : b.id = s
                   THEN NewRun(CHOOSE b \in task.bundles : b.id = s) ELSE runs[s]]
    /\ task' = [task EXCEPT !.pc = "unmark"]
    /\ UNCHANGED <<parts, markers, sequence, svc, export, disk, missing, tasks, mishaps,
                   lagging, repeated>>

\* The marker is removed and the service's counter catches up with the table.
\* An error here is reported although the sessions are there.
Unmark ==
    /\ task.pc = "unmark"
    /\ \/ /\ markers' = {m \in markers : m.name # task.name}
          /\ sequence' = Max({sequence, LastSeq})
          /\ UNCHANGED <<mishaps, lagging>>
       \/ /\ Fault /\ lagging' = TRUE
          /\ UNCHANGED <<markers, sequence>>
    /\ task' = NoTask
    /\ UNCHANGED <<runs, parts, events, svc, export, disk, missing, tasks, repeated>>

\* Any write of the installation may fail; the import then undoes itself.
Fail ==
    /\ Fault
    /\ task.pc = "install"
    /\ task' = [pc |-> "recover"]
    /\ UNCHANGED <<db, sequence, svc, export, disk, missing, tasks, lagging, repeated>>

-----------------------------------------------------------------------------
(* recover_imports: at the start of the service, and after a failed import   *)

Recovering == svc = "recovering" \/ task.pc = "recover"

Committed(m) == {b \in m.bundles : runs[b.id] # None}

\* An import that never got its name has written nothing.
DropPending ==
    /\ Recovering
    /\ \E m \in markers : m.phase = "pending" /\ markers' = markers \ {m}
    /\ UNCHANGED <<runs, parts, events, sequence, svc, task, export, disk, missing, tasks,
                   mishaps, lagging, repeated>>

\* Nothing of an uncommitted import stays: records, checkpoints, files.
Erase(m) ==
    /\ Recovering /\ m.phase = "marked" /\ Committed(m) = {}
    /\ \E b \in m.bundles : \E p \in parts[b.id] :
         /\ p = Checkpoints => Records \notin parts[b.id]
         /\ p = SessionFiles => parts[b.id] = {SessionFiles}
         /\ parts' = [parts EXCEPT ![b.id] = @ \ {p}]
    /\ UNCHANGED <<runs, events, markers, sequence, svc, task, export, disk, missing, tasks,
                   mishaps, lagging, repeated>>

RecordsGone(m) ==
    Committed(m) = m.bundles \/ \A b \in m.bundles : Records \notin parts[b.id]

MarkerDone(m) == Committed(m) = m.bundles \/ \A b \in m.bundles : parts[b.id] = {}

\* A marker goes when its import is whole or gone.
DropMarker(m) ==
    /\ Recovering /\ m.phase = "marked" /\ MarkerDone(m)
    /\ markers' = markers \ {m}
    /\ UNCHANGED <<runs, parts, events, sequence, svc, task, export, disk, missing, tasks,
                   mishaps, lagging, repeated>>

\* A failed import answers its caller; its own recovery may fail too, and the
\* marker is left to the next one.
EndRecovery ==
    /\ task.pc = "recover"
    /\ \/ markers = {} /\ UNCHANGED mishaps
       \/ markers # {} /\ Fault
    /\ task' = NoTask
    /\ UNCHANGED <<db, sequence, svc, export, disk, missing, tasks, lagging, repeated>>

Serve ==
    /\ svc = "recovering" /\ markers = {}
    /\ svc' = "serving"
    /\ sequence' = LastSeq /\ lagging' = FALSE
    /\ UNCHANGED <<db, task, export, disk, missing, tasks, mishaps, repeated>>

-----------------------------------------------------------------------------
(* Sessions at work                                                          *)

\* A session is resumed and appends an event.  Its uncertain receipt is
\* resolved by the run, or a new one is left behind by it.
AppendEvent(s) ==
    /\ svc = "serving" /\ task = NoTask /\ runs[s] # None /\ ResumeAllowed(s)
    /\ export.pc # "none" => export.id # s
    /\ sequence < MaxEvents
    /\ sequence' = sequence + 1
    /\ IF sequence' \in DOMAIN events THEN UNCHANGED <<events, runs>>
       ELSE /\ events' = [n \in DOMAIN events \cup {sequence'} |->
                            IF n = sequence' THEN s ELSE events[n]]
            /\ \E r \in {"none", "external", "internal"} :
                 runs' = [runs EXCEPT ![s].rev = sequence', ![s].receipt = r]
    /\ repeated' = IF runs[s].origin # None /\ runs[s].receipt \in {"external", "moved"}
                      /\ runs[s].receipt = runs[s].origin.receipt
                      /\ Cardinality(EventsOf(s)) = runs[s].origin.events
                   THEN repeated \cup {s} ELSE repeated
    /\ UNCHANGED <<parts, markers, svc, task, export, disk, missing, tasks, mishaps, lagging>>

-----------------------------------------------------------------------------
(* Export                                                                    *)

\* ExecutionService::export_sessions, capture and the staged directory.  The
\* writer lock and the run's barrier keep the session still.
BeginExport(s) ==
    /\ svc = "serving" /\ task = NoTask /\ export = NoTask /\ tasks < MaxTasks
    /\ runs[s] # None
    /\ export' = [pc |-> "check", id |-> s, bundle |-> Capture(s), old |-> None]
    /\ tasks' = tasks + 1
    /\ UNCHANGED <<db, sequence, svc, task, disk, missing, mishaps, lagging, repeated>>

\* install_export replaces only a directory that is a valid archive.
CheckTarget ==
    /\ export.pc = "check"
    /\ export' = CASE target[export.id] = None -> [export EXCEPT !.pc = "place"]
                   [] target[export.id] # None /\ ValidateBundle(target[export.id]) ->
                        [export EXCEPT !.pc = "move"]
                   [] OTHER -> NoTask
    /\ UNCHANGED <<db, sequence, svc, task, disk, missing, tasks, mishaps, lagging, repeated>>

MoveTarget ==
    /\ export.pc = "move"
    /\ backup' = [backup EXCEPT ![export.id] = @ \cup {target[export.id]}]
    /\ target' = [target EXCEPT ![export.id] = None]
    /\ export' = [export EXCEPT !.pc = "replace", !.old = target[export.id]]
    /\ UNCHANGED <<db, sequence, svc, task, late, lost, exported, missing, tasks, mishaps, lagging, repeated>>

\* The second rename; when it fails the first is taken back.
PlaceTarget ==
    /\ export.pc \in {"place", "replace"}
    /\ \/ /\ target' = [target EXCEPT ![export.id] = export.bundle]
          /\ export' = IF export.pc = "place" THEN NoTask ELSE [export EXCEPT !.pc = "clean"]
          /\ exported' = exported \cup {export.id}
          /\ UNCHANGED <<backup, mishaps>>
       \/ /\ Fault
          /\ UNCHANGED exported
          /\ IF export.pc = "place" THEN UNCHANGED <<target, backup>>
             ELSE /\ target' = [target EXCEPT ![export.id] = export.old]
                  /\ backup' = [backup EXCEPT ![export.id] = @ \ {export.old}]
          /\ export' = NoTask
    /\ UNCHANGED <<db, sequence, svc, task, late, lost, missing, tasks, lagging, repeated>>

RemoveBackup ==
    /\ export.pc = "clean"
    /\ lost' = IF export.old = Edited THEN lost \cup {export.id} ELSE lost
    /\ backup' = [backup EXCEPT ![export.id] = @ \ {export.old}]
    /\ export' = NoTask
    /\ UNCHANGED <<db, sequence, svc, task, target, late, exported, missing, tasks, mishaps, lagging, repeated>>

-----------------------------------------------------------------------------
(* The environment                                                           *)

\* The user changes a file of an exported directory.
Edit(s) ==
    /\ Fault
    /\ target[s] \notin {None, Edited}
    /\ target' = [target EXCEPT ![s] = Edited]
    /\ late' = IF export.pc \in {"move"} /\ export.id = s THEN late \cup {s} ELSE late
    /\ UNCHANGED <<db, sequence, svc, task, export, backup, lost, exported, missing, tasks, lagging, repeated>>

\* Pieces of the workspace disappear or come back.
Pieces ==
    /\ Fault
    /\ missing' = ~missing
    /\ UNCHANGED <<db, sequence, svc, task, export, disk, tasks, lagging, repeated>>

Crash ==
    /\ Fault
    /\ svc' = "recovering" /\ task' = NoTask /\ export' = NoTask
    /\ UNCHANGED <<db, sequence, disk, missing, tasks, lagging, repeated>>

ArchivesNext ==
    \/ \E bundles \in Archives : BeginImport(bundles)
    \/ Mark \/ Install \/ Commit \/ Unmark \/ Fail
    \/ DropPending \/ EndRecovery \/ Serve
    \/ \E m \in markers : Erase(m) \/ DropMarker(m)
    \/ \E s \in Sessions : AppendEvent(s) \/ BeginExport(s) \/ Edit(s)
    \/ CheckTarget \/ MoveTarget \/ PlaceTarget \/ RemoveBackup
    \/ Pieces \/ Crash

ArchivesSpec == ArchivesInit /\ [][ArchivesNext]_archives

-----------------------------------------------------------------------------
(* Properties                                                                *)

Marked == UNION {m.bundles : m \in {m \in markers : m.phase = "marked"}}

\* Wherever an import fails or dies, once its marker is gone each of its
\* sessions is there with everything that belongs to it, or has left nothing
\* that would stand in the way of another import; and no session that is there
\* ever loses a part to the recovery of an import.
ImportWhole ==
    \A s \in Sessions :
      /\ runs[s] # None => parts[s] = AllParts
      /\ runs[s] = None /\ (\A b \in Marked : b.id # s) => parts[s] = {}

\* The events of an archive are a run's own and all there, its anchor the last of
\* them, and the service never hands out a number that is taken, unless an import
\* failed after its commit.
SequencesFresh ==
    /\ \A s \in Sessions : runs[s] # None /\ runs[s].origin # None =>
         Cardinality(EventsOf(s)) >= runs[s].origin.events
    /\ \A s \in Sessions : runs[s] # None /\ EventsOf(s) # {} => runs[s].rev = Max(EventsOf(s))
    /\ svc = "serving" /\ task = NoTask /\ ~lagging => sequence >= LastSeq

\* A session whose archive holds an effect nobody can vouch for is not resumed,
\* however often it is imported again while pieces come and go.
UncertainNotResumed == repeated = {}

\* A directory the user edited is not removed, unless the edit came after the
\* check; and once a session was exported, an archive of it stays on disk
\* through every failure of a later export.
ExportKept ==
    /\ lost \subseteq late
    /\ \A s \in Sessions : s \in exported => target[s] # None \/ backup[s] # {}

\* Sessions leave and enter whole, and with what is uncertain of them: ImportWhole,
\* UncertainNotResumed and ExportKept.
ArchivesWhole == ImportWhole /\ UncertainNotResumed /\ ExportKept

-----------------------------------------------------------------------------
(* The strengthening under which ArchivesWhole is inductive.                   *)

\* A session that was imported with an effect nobody can vouch for stays blocked.
RunShaped(s) ==
    runs[s] = [rev |-> runs[s].rev, receipt |-> runs[s].receipt, origin |-> runs[s].origin,
               blocked |-> runs[s].blocked]
RunsKept ==
    /\ runs = [s \in Sessions |-> runs[s]]
    /\ \A s \in Sessions : runs[s] # None =>
         /\ RunShaped(s)
         /\ runs[s].origin # None /\ ~ResumableReceipt(runs[s].origin.receipt) =>
              "effect" \in runs[s].blocked

\* Markers are of different imports.
MarkersKept ==
    /\ tasks \in Nat
    /\ \A m \in markers :
         /\ m = [name |-> m.name, phase |-> m.phase, bundles |-> m.bundles]
         /\ m.name \in Nat /\ m.name < tasks
         /\ \A b \in m.bundles : b.id \in Sessions
    /\ \A m, n \in markers : m.name = n.name => m = n

\* An import has its marker from the first write to the last.
Marks(m) == m.name = task.name /\ m.bundles = task.bundles
TaskKept ==
    /\ svc = "recovering" => task.pc = "none"
    /\ task.pc \in {"mark", "install", "unmark"} =>
         /\ task = [pc |-> task.pc, name |-> task.name, bundles |-> task.bundles]
         /\ \E m \in markers : Marks(m) /\ (task.pc # "mark" => m.phase = "marked")
    /\ task.pc = "unmark" => \A b \in task.bundles : runs[b.id] # None

\* An exported directory is absent, edited, or an archive of a session.
Exported(b) == b = Edited \/ b.id \in Sessions
ExportShaped ==
    /\ export = [pc |-> export.pc, id |-> export.id, bundle |-> export.bundle,
                 old |-> export.old]
    /\ export.id \in Sessions /\ export.bundle # None /\ Exported(export.bundle)

\* What an export has moved away is among the backups; it was checked, or edited
\* after the check.
Replacing(b) == b # None /\ Exported(b) /\ (b = Edited => export.id \in late)
TargetsKept ==
    /\ target = [s \in Sessions |-> target[s]] /\ backup = [s \in Sessions |-> backup[s]]
    /\ \A s \in Sessions : target[s] # None => Exported(target[s])
    /\ export.pc # "none" => ExportShaped
    /\ export.pc = "move" => Replacing(target[export.id])
    /\ export.pc \in {"replace", "clean"} =>
         Replacing(export.old) /\ export.old \in backup[export.id]
    /\ export.pc = "clean" => target[export.id] # None

PartsKept == parts \in [Sessions -> SUBSET AllParts]
ArchivesInv ==
    RunsKept /\ MarkersKept /\ TaskKept /\ TargetsKept /\ PartsKept /\ ArchivesWhole
=============================================================================
