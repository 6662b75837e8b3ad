-------------------------- MODULE DataMaintenance --------------------------
(***************************************************************************)
(* Offline maintenance of the data directory (zf-storage/src/migration.rs) *)
(* beside the two other programs that open it: the daemon (ExecutionService*)
(* ::open) and the import of legacy compositions (legacy_compositions.rs). *)
(*                                                                         *)
(* Maintenance copies the directory to a backup, prepares a smaller copy   *)
(* beside it, writes a marker with the inventories of both, and then lets  *)
(* `recover` exchange the directories by two renames.  Every program takes *)
(* the lock that lies beside the directory; a crash releases it and leaves *)
(* the directories and the marker where they are.  Every rename is made    *)
(* durable before the next step, so a loss of power is a crash before or   *)
(* after one of the steps below.                                           *)
(*                                                                         *)
(* A directory is what it holds: sessions, the sessions shown as running,  *)
(* an unfinished session import, the receipt of the legacy import, and     *)
(* whether somebody altered it.  An inventory is the directory it was made *)
(* of.  Directories of an attempt that failed before its marker are never  *)
(* named again; a copy that is only begun differs from none in nothing.    *)
(***************************************************************************)
EXTENDS Integers, FiniteSets

CONSTANTS
    Sessions,       \* identities of sessions
    Existing,       \* sessions of the directory at the beginning
    Archived,       \* sessions that archives bring
    Keep,           \* maintenance: the session to keep
    Cutoff,         \* maintenance: what is older goes
    Created,        \* per session: its creation time, or Undated
    Checkpointed,   \* per session: the times of its checkpoints
    Undated,        \* no creation time
    Absent,         \* no directory
    NoMarker,       \* no marker
    Procs,          \* programs, at different times
    Attempts,       \* bound: maintenance attempts
    Crashes,        \* bound: crashes
    Alterations     \* bound: changes made to a directory by hand

Directory == [sessions : SUBSET Sessions, running : SUBSET Sessions,
              unfinished : BOOLEAN, rows : BOOLEAN,
              receipt : {"none", "started", "complete"}, altered : BOOLEAN]
Numbers == 1..Attempts
Marker == [attempt : Numbers, staging : Directory, backup : Directory]

ASSUME MaintenanceAssumption ==
    /\ Existing \cup Archived \subseteq Sessions /\ Keep \in Sessions
    /\ Cutoff \in Nat /\ Undated \notin Nat
    /\ Created \in [Sessions -> Nat \cup {Undated}]
    /\ Checkpointed \in [Sessions -> SUBSET Nat]
    /\ Absent \notin Directory /\ NoMarker \notin Marker
    /\ Attempts \in Nat /\ Crashes \in Nat /\ Alterations \in Nat

VARIABLES
    data,       \* the data directory, or Absent
    staging,    \* per attempt: the prepared directory, or Absent
    retired,    \* per attempt: the replaced directory, or Absent
    backup,     \* per attempt: the backup, or Absent
    marker,     \* maintenance.json, or NoMarker
    report,     \* attempts with a maintenance-result.json
    attempt,    \* the last attempt's number
    proc,       \* per program: its place, what follows recover, its attempt
    flows,      \* the legacy compositions are published as packages
    made,       \* history: sessions that existed in the directory
    refused,    \* history: recover has refused directories nobody altered
    disturbed,  \* history: the legacy import wrote beside a marker
    crashes,
    alterations

vars == <<data, staging, retired, backup, marker, report, attempt, proc, flows,
          made, refused, disturbed, crashes, alterations>>
dirs == <<data, staging, retired, backup>>
history == <<made, refused, disturbed>>
bounds == <<crashes, alterations>>

Fresh == [sessions |-> {}, running |-> {}, unfinished |-> FALSE, rows |-> FALSE,
          receipt |-> "none", altered |-> FALSE]
Off == [at |-> "off", then |-> "none", attempt |-> 0]

\* A first start, or a directory left by an older daemon, with or without
\* legacy compositions.
Init ==
    /\ \/ data = Absent /\ made = {}
       \/ \E b \in BOOLEAN :
            /\ data = [Fresh EXCEPT !.sessions = Existing, !.rows = b]
            /\ made = Existing
    /\ staging = [a \in Numbers |-> Absent]
    /\ retired = [a \in Numbers |-> Absent]
    /\ backup = [a \in Numbers |-> Absent]
    /\ marker = NoMarker /\ report = {} /\ attempt = 0
    /\ proc = [p \in Procs |-> Off]
    /\ flows = FALSE
    /\ refused = FALSE /\ disturbed = FALSE
    /\ crashes = 0 /\ alterations = 0

At(p, place) == proc[p].at = place
Goto(p, place) == proc' = [proc EXCEPT ![p].at = place]
Stop(p) == proc' = [proc EXCEPT ![p] = Off]

-----------------------------------------------------------------------------
(***************************************************************************)
(* The lock beside the directory.                                          *)
(***************************************************************************)

\* try_lock succeeds: no other program holds the lock.
LockFree == \A q \in Procs : At(q, "off")

\* ExecutionService::open takes the lock and calls recover.
Start(p) ==
    /\ At(p, "off") /\ LockFree
    /\ proc' = [proc EXCEPT ![p] = [at |-> "recover", then |-> "open", attempt |-> 0]]
    /\ UNCHANGED <<dirs, marker, report, attempt, flows, history, bounds>>

\* maintain takes the lock and calls recover.
Maintain(p) ==
    /\ At(p, "off") /\ LockFree
    /\ proc' = [proc EXCEPT ![p] = [at |-> "recover", then |-> "select", attempt |-> 0]]
    /\ UNCHANGED <<dirs, marker, report, attempt, flows, history, bounds>>

\* legacy_compositions::import takes the lock of an existing directory.
Import(p) ==
    /\ At(p, "off") /\ LockFree /\ data # Absent
    /\ proc' = [proc EXCEPT ![p] = [at |-> "import", then |-> "none", attempt |-> 0]]
    /\ UNCHANGED <<dirs, marker, report, attempt, flows, history, bounds>>

-----------------------------------------------------------------------------
(***************************************************************************)
(* recover, a step per change of the file system.                          *)
(***************************************************************************)

\* recover refuses: the program ends and nothing has changed.
Refuse(p) ==
    /\ Stop(p)
    /\ refused' = (refused \/ ~(\/ backup[marker.attempt].altered
                                \/ staging[marker.attempt] # Absent /\ staging[marker.attempt].altered
                                \/ data # Absent /\ data.altered))
    /\ UNCHANGED <<dirs, marker, report, attempt, flows, made, disturbed, bounds>>

\* There is nothing to recover.
RecoverNothing(p) ==
    /\ At(p, "recover") /\ marker = NoMarker
    /\ Goto(p, proc[p].then)
    /\ UNCHANGED <<dirs, marker, report, attempt, flows, history, bounds>>

\* The backup is as it was inventoried ...
BackupVerified == backup[marker.attempt] = marker.backup

\* ... and so is the staging, if it is still there.
StagingVerified ==
    staging[marker.attempt] # Absent => staging[marker.attempt] = marker.staging

\* Exactly one of the directory and its retired form is there.
OneSource == (data # Absent) # (retired[marker.attempt] # Absent)

\* The marker, the directories and the inventories are examined.
RecoverInspect(p) ==
    /\ At(p, "recover") /\ marker # NoMarker
    /\ BackupVerified /\ StagingVerified
    /\ staging[marker.attempt] # Absent => OneSource
    /\ Goto(p, IF staging[marker.attempt] = Absent THEN "verify"
               ELSE IF data # Absent THEN "retire" ELSE "install")
    /\ UNCHANGED <<dirs, marker, report, attempt, flows, history, bounds>>

RecoverRefuses(p) ==
    /\ At(p, "recover") /\ marker # NoMarker
    /\ ~(/\ BackupVerified /\ StagingVerified
         /\ staging[marker.attempt] # Absent => OneSource)
    /\ Refuse(p)

\* The directory is renamed to its retired form.
Retire(p) ==
    /\ At(p, "retire")
    /\ retired' = [retired EXCEPT ![marker.attempt] = data]
    /\ data' = Absent
    /\ Goto(p, "install")
    /\ UNCHANGED <<staging, backup, marker, report, attempt, flows, history, bounds>>

\* The staging is renamed to the directory.
Install(p) ==
    /\ At(p, "install")
    /\ data' = staging[marker.attempt]
    /\ staging' = [staging EXCEPT ![marker.attempt] = Absent]
    /\ Goto(p, "verify")
    /\ UNCHANGED <<retired, backup, marker, report, attempt, flows, history, bounds>>

\* Fault: after the renames only the database is inventoried again, not the
\* files beside it.
InstalledDatabase ==
    /\ data # Absent /\ backup[marker.attempt] # Absent
    /\ [data EXCEPT !.receipt = marker.staging.receipt] = marker.staging

\* The installed directory is what was verified.
Installed == data # Absent /\ backup[marker.attempt] # Absent /\ data = marker.staging

Verify(p) ==
    /\ At(p, "verify") /\ Installed
    /\ Goto(p, "clean")
    /\ UNCHANGED <<dirs, marker, report, attempt, flows, history, bounds>>

VerifyRefuses(p) ==
    /\ At(p, "verify") /\ ~Installed
    /\ Refuse(p)

\* remove_dir_all deletes the retired directory entry by entry ...
CleanPartly(p) ==
    /\ At(p, "clean") /\ retired[marker.attempt] # Absent
    /\ retired' = [retired EXCEPT ![marker.attempt] = [Fresh EXCEPT !.altered = TRUE]]
    /\ UNCHANGED <<data, staging, backup, marker, report, attempt, proc, flows, history, bounds>>

\* ... and then itself.
Clean(p) ==
    /\ At(p, "clean")
    /\ retired' = [retired EXCEPT ![marker.attempt] = Absent]
    /\ Goto(p, "report")
    /\ UNCHANGED <<data, staging, backup, marker, report, attempt, flows, history, bounds>>

\* The result is written, and the marker removed.
Report(p) ==
    /\ At(p, "report")
    /\ report' = report \cup {marker.attempt}
    /\ Goto(p, "unmark")
    /\ UNCHANGED <<dirs, marker, attempt, flows, history, bounds>>

Unmark(p) ==
    /\ At(p, "unmark")
    /\ marker' = NoMarker
    /\ IF proc[p].then = "done" THEN Stop(p) ELSE Goto(p, proc[p].then)
    /\ UNCHANGED <<dirs, report, attempt, flows, history, bounds>>

-----------------------------------------------------------------------------
(***************************************************************************)
(* maintain.                                                               *)
(***************************************************************************)

\* A creation time, or without one a dated checkpoint, proves that a session
\* is older than the cutoff.
Proven(s) ==
    \/ Created[s] # Undated /\ Created[s] < Cutoff
    \/ Created[s] = Undated /\ \E t \in Checkpointed[s] : t < Cutoff

\* Fault: a session without a creation time is taken for an old one.
RemovedUndated == {s \in Sessions : s # Keep /\ (Created[s] = Undated \/ Proven(s))}

\* The sessions that maintenance deletes.
Removed == {s \in Sessions : s # Keep /\ Proven(s)}

\* A directory that maintenance accepts.
Maintainable ==
    /\ data # Absent /\ ~data.unfinished
    /\ Keep \in data.sessions /\ data.running = {}

Select(p) ==
    /\ At(p, "select") /\ Maintainable /\ attempt < Attempts
    /\ attempt' = attempt + 1
    /\ proc' = [proc EXCEPT ![p] = [at |-> "backup", then |-> "done", attempt |-> attempt']]
    /\ UNCHANGED <<dirs, marker, report, flows, history, bounds>>

SelectRefuses(p) ==
    /\ At(p, "select") /\ ~(Maintainable /\ attempt < Attempts)
    /\ Stop(p)
    /\ UNCHANGED <<dirs, marker, report, attempt, flows, history, bounds>>

\* The directory is copied to the backup ...
Backup(p) ==
    /\ At(p, "backup")
    /\ backup' = [backup EXCEPT ![proc[p].attempt] = data]
    /\ Goto(p, "stage")
    /\ UNCHANGED <<data, staging, retired, marker, report, attempt, flows, history, bounds>>

\* ... and the backup to the staging ...
Stage(p) ==
    /\ At(p, "stage")
    /\ staging' = [staging EXCEPT ![proc[p].attempt] = backup[proc[p].attempt]]
    /\ Goto(p, "normalize")
    /\ UNCHANGED <<data, retired, backup, marker, report, attempt, flows, history, bounds>>

\* ... from which the sessions that go are deleted, the others rewritten and
\* compared with the backup.
Normalize(p) ==
    /\ At(p, "normalize")
    /\ staging' = [staging EXCEPT ![proc[p].attempt].sessions = @ \ Removed]
    /\ Goto(p, "mark")
    /\ UNCHANGED <<data, retired, backup, marker, report, attempt, flows, history, bounds>>

\* A comparison fails, or a checkpoint belongs to no session.
NormalizeFails(p) ==
    /\ At(p, "normalize")
    /\ Stop(p)
    /\ UNCHANGED <<dirs, marker, report, attempt, flows, history, bounds>>

\* The marker names the directories and their inventories; recover follows.
Mark(p) ==
    /\ At(p, "mark")
    /\ marker' = [attempt |-> proc[p].attempt,
                  staging |-> staging[proc[p].attempt],
                  backup |-> backup[proc[p].attempt]]
    /\ Goto(p, "recover")
    /\ UNCHANGED <<dirs, report, attempt, flows, history, bounds>>

-----------------------------------------------------------------------------
(***************************************************************************)
(* The daemon.                                                             *)
(***************************************************************************)

\* The rest of ExecutionService::open: the directory is created if it is not
\* there, legacy compositions must have been imported, an unfinished session
\* import is settled and interrupted runs are recovered.
Open(p) ==
    /\ At(p, "open")
    /\ LET found == IF data = Absent THEN Fresh ELSE data
       IN  IF found.receipt = "started" \/ (found.receipt = "none" /\ found.rows)
           THEN data' = found /\ Stop(p)
           ELSE /\ data' = [found EXCEPT !.running = {}, !.unfinished = FALSE]
                /\ Goto(p, "serve")
    /\ UNCHANGED <<staging, retired, backup, marker, report, attempt, flows, history, bounds>>

\* A session is started; it has a creation time.
StartRun(p, s) ==
    /\ At(p, "serve") /\ s \notin made /\ Created[s] # Undated
    /\ data' = [data EXCEPT !.sessions = @ \cup {s}, !.running = @ \cup {s}]
    /\ made' = made \cup {s}
    /\ UNCHANGED <<staging, retired, backup, marker, report, attempt, proc, flows,
                   refused, disturbed, bounds>>

\* It waits or ends.
Settle(p, s) ==
    /\ At(p, "serve") /\ s \in data.running
    /\ data' = [data EXCEPT !.running = @ \ {s}]
    /\ UNCHANGED <<staging, retired, backup, marker, report, attempt, proc, flows,
                   history, bounds>>

\* A session archive is imported: its marker is written, ...
ImportSession(p) ==
    /\ At(p, "serve") /\ ~data.unfinished
    /\ data' = [data EXCEPT !.unfinished = TRUE]
    /\ UNCHANGED <<staging, retired, backup, marker, report, attempt, proc, flows,
                   history, bounds>>

\* ... the session is committed ...
SessionImported(p, s) ==
    /\ At(p, "serve") /\ data.unfinished /\ s \in Archived \ made
    /\ data' = [data EXCEPT !.sessions = @ \cup {s}]
    /\ made' = made \cup {s}
    /\ UNCHANGED <<staging, retired, backup, marker, report, attempt, proc, flows,
                   refused, disturbed, bounds>>

\* ... and the marker is removed, as it is after a failure.
ImportSettled(p) ==
    /\ At(p, "serve") /\ data.unfinished
    /\ data' = [data EXCEPT !.unfinished = FALSE]
    /\ UNCHANGED <<staging, retired, backup, marker, report, attempt, proc, flows,
                   history, bounds>>

\* A shutdown interrupts what runs and releases the lock.
Shutdown(p) ==
    /\ At(p, "serve") /\ ~data.unfinished
    /\ data' = [data EXCEPT !.running = {}]
    /\ Stop(p)
    /\ UNCHANGED <<staging, retired, backup, marker, report, attempt, flows, history, bounds>>

-----------------------------------------------------------------------------
(***************************************************************************)
(* The import of legacy compositions, which does not look at the marker.   *)
(***************************************************************************)

\* The import is complete already, or finds packages it has no receipt for.
ImportEnds(p) ==
    /\ At(p, "import")
    /\ data.receipt = "complete" \/ (data.receipt = "none" /\ flows /\ data.rows)
    /\ Stop(p)
    /\ UNCHANGED <<dirs, marker, report, attempt, flows, history, bounds>>

\* Fault: the receipt is left to the end.
ImportReceiptLater(p) ==
    /\ At(p, "import") /\ data.receipt # "complete" /\ ~(flows /\ data.rows)
    /\ Goto(p, "publish")
    /\ UNCHANGED <<dirs, marker, report, attempt, flows, history, bounds>>

\* A backup of the database and the receipt are left in the directory.
ImportReceipt(p) ==
    /\ At(p, "import")
    /\ \/ /\ data.receipt = "none" /\ ~(flows /\ data.rows)
          /\ data' = [data EXCEPT !.receipt = "started"]
          /\ disturbed' = (disturbed \/ marker # NoMarker)
       \/ data.receipt = "started" /\ UNCHANGED <<data, disturbed>>
    /\ Goto(p, "publish")
    /\ UNCHANGED <<staging, retired, backup, marker, report, attempt, flows,
                   made, refused, bounds>>

\* The compositions are published as packages of the workspace ...
ImportPublish(p) ==
    /\ At(p, "publish")
    /\ flows' = (flows \/ data.rows)
    /\ Goto(p, "complete")
    /\ UNCHANGED <<dirs, marker, report, attempt, history, bounds>>

\* ... and the receipt says so.
ImportComplete(p) ==
    /\ At(p, "complete")
    /\ data' = [data EXCEPT !.receipt = "complete"]
    /\ disturbed' = (disturbed \/ marker # NoMarker)
    /\ Stop(p)
    /\ UNCHANGED <<staging, retired, backup, marker, report, attempt, flows,
                   made, refused, bounds>>

-----------------------------------------------------------------------------
(***************************************************************************)
(* Crashes, and people who change the directories beside the data.         *)
(***************************************************************************)
Crash(p) ==
    /\ ~At(p, "off") /\ crashes < Crashes
    /\ Stop(p)
    /\ crashes' = crashes + 1
    /\ UNCHANGED <<dirs, marker, report, attempt, flows, history, alterations>>

AlterStaging(a) ==
    /\ staging[a] # Absent /\ marker # NoMarker /\ alterations < Alterations
    /\ staging' = [staging EXCEPT ![a].altered = ~@]
    /\ alterations' = alterations + 1
    /\ UNCHANGED <<data, retired, backup, marker, report, attempt, proc, flows,
                   history, crashes>>

AlterBackup(a) ==
    /\ backup[a] # Absent /\ marker # NoMarker /\ alterations < Alterations
    /\ backup' = [backup EXCEPT ![a].altered = ~@]
    /\ alterations' = alterations + 1
    /\ UNCHANGED <<data, staging, retired, marker, report, attempt, proc, flows,
                   history, crashes>>

Recover(p) ==
    \/ RecoverNothing(p) \/ RecoverInspect(p) \/ RecoverRefuses(p)
    \/ Retire(p) \/ Install(p) \/ Verify(p) \/ VerifyRefuses(p)
    \/ CleanPartly(p) \/ Clean(p) \/ Report(p) \/ Unmark(p)

Next ==
    \/ \E p \in Procs :
         \/ Start(p) \/ Maintain(p) \/ Import(p) \/ Crash(p)
         \/ Recover(p)
         \/ Select(p) \/ SelectRefuses(p) \/ Backup(p) \/ Stage(p)
         \/ Normalize(p) \/ NormalizeFails(p) \/ Mark(p)
         \/ Open(p) \/ ImportSession(p) \/ ImportSettled(p) \/ Shutdown(p)
         \/ \E s \in Sessions : StartRun(p, s) \/ Settle(p, s) \/ SessionImported(p, s)
         \/ ImportEnds(p) \/ ImportReceipt(p) \/ ImportPublish(p) \/ ImportComplete(p)
    \/ \E a \in Numbers : AlterStaging(a) \/ AlterBackup(a)

Spec == Init /\ [][Next]_vars

-----------------------------------------------------------------------------
Places == {"off", "recover", "retire", "install", "verify", "clean", "report",
           "unmark", "select", "backup", "stage", "normalize", "mark", "open",
           "serve", "import", "publish", "complete"}
Maybe == Directory \cup {Absent}
Program == [at : Places, then : {"none", "open", "select", "done"}, attempt : 0..Attempts]

\* Every variable has its type.
MaintenanceTypeOK ==
    /\ data \in Maybe
    /\ staging \in [Numbers -> Maybe] /\ retired \in [Numbers -> Maybe]
    /\ backup \in [Numbers -> Maybe]
    /\ marker \in Marker \cup {NoMarker} /\ report \subseteq Numbers
    /\ attempt \in 0..Attempts
    /\ proc \in [Procs -> Program]
    /\ flows \in BOOLEAN /\ made \subseteq Sessions
    /\ refused \in BOOLEAN /\ disturbed \in BOOLEAN
    /\ crashes \in Nat /\ alterations \in Nat

\* Whatever crashes and whatever is altered by hand, a session that existed is
\* in the directory, or in the retired directory of a pending exchange, or it
\* was provably older than the cutoff, not the one to keep, and is in a backup.
SessionsSurvive ==
    \A s \in made :
      \/ data # Absent /\ ~data.altered /\ s \in data.sessions
      \/ /\ marker # NoMarker /\ retired[marker.attempt] # Absent
         /\ s \in retired[marker.attempt].sessions
      \/ /\ s # Keep /\ Proven(s)
         /\ \E a \in Numbers : backup[a] # Absent /\ s \in backup[a].sessions

\* A daemon that serves owns the directory alone, and no exchange is pending
\* that would later replace what it writes.
NothingPendingWhileServing ==
    \A p \in Procs : At(p, "serve") =>
      /\ data # Absent /\ marker = NoMarker
      /\ \A q \in Procs \ {p} : At(q, "off")

\* An exchange ends with the very directory that was verified.
InstalledIsVerified ==
    [][marker # NoMarker /\ marker' = NoMarker => data' = marker.staging]_vars

\* recover can finish from wherever a crash left the directories, unless they
\* were altered or the legacy import wrote into one of them meanwhile.
RecoverFinishes == ~disturbed => ~refused

\* Published packages have a receipt in the directory, or in the one about to
\* be installed: without it neither the import nor the daemon can go on.
ReceiptKept ==
    ~disturbed /\ flows =>
      \/ data # Absent /\ data.receipt # "none"
      \/ data = Absent /\ marker # NoMarker /\ staging[marker.attempt].receipt # "none"

\* However often maintenance and recovery die, one of the next programs finishes
\* them before it serves: NothingPendingWhileServing, RecoverFinishes, ReceiptKept.
RecoveryCompletes ==
    MaintenanceTypeOK /\ NothingPendingWhileServing /\ RecoverFinishes /\ ReceiptKept
-----------------------------------------------------------------------------
(***************************************************************************)
(* What SessionsSurvive and RecoveryCompletes rest on.                     *)
(***************************************************************************)
Preparing == {"backup", "stage", "normalize", "mark"}
Exchanging == {"retire", "install", "verify", "clean", "report", "unmark"}
Importing == {"import", "publish", "complete"}

\* The lock is one program's.
OneProgram == \A p, q \in Procs : ~At(p, "off") /\ ~At(q, "off") => p = q

\* The directories of attempts to come do not exist yet.
NumbersFresh ==
    /\ marker # NoMarker => marker.attempt <= attempt
    /\ \A a \in Numbers : a > attempt =>
         staging[a] = Absent /\ retired[a] = Absent /\ backup[a] = Absent

\* Only a program that came through recover, or the legacy import, goes on.
PlaceFollows(p) ==
    /\ proc[p].at \in {"recover"} \cup Exchanging => proc[p].then # "none"
    /\ At(p, "recover") /\ proc[p].then = "done" => marker # NoMarker
    /\ proc[p].at \in {"select", "open"} => marker = NoMarker
    /\ At(p, "serve") => marker = NoMarker /\ data # Absent
    /\ proc[p].at \in Importing => data # Absent
    /\ proc[p].at \in {"publish", "complete"} => data.receipt # "none"

\* Maintenance copies a directory that nobody writes.
PlacePrepares(p) == proc[p].at \in Preparing =>
    /\ marker = NoMarker /\ data # Absent
    /\ proc[p].then = "done"
    /\ proc[p].attempt = attempt /\ attempt \in Numbers
    /\ retired[attempt] = Absent
    /\ backup[attempt] = IF At(p, "backup") THEN Absent ELSE data
    /\ At(p, "normalize") => staging[attempt] = data
    /\ At(p, "mark") => staging[attempt] = [data EXCEPT !.sessions = @ \ Removed]

\* recover knows which of the renames are done.
PlaceExchanges(p) == proc[p].at \in Exchanging =>
    /\ marker # NoMarker
    /\ At(p, "retire") => staging[marker.attempt] # Absent /\ data # Absent
    /\ At(p, "install") => staging[marker.attempt] # Absent /\ data = Absent
    /\ At(p, "verify") => staging[marker.attempt] = Absent
    /\ proc[p].at \in {"clean", "report", "unmark"} =>
         staging[marker.attempt] = Absent /\ data = marker.staging

PlacesSound ==
    \A p \in Procs : PlaceFollows(p) /\ PlacePrepares(p) /\ PlaceExchanges(p)

\* d is the inventoried directory e, but for the mark of an alteration.
SameBut(d, e) == d # Absent /\ [d EXCEPT !.altered = FALSE] = e

\* While a marker exists the backup holds every session, and there is a whole
\* directory beside it: before the renames, between them and after them.
BackupWhole ==
    /\ ~marker.backup.altered
    /\ marker.staging = [marker.backup EXCEPT !.sessions = @ \ Removed]
    /\ SameBut(backup[marker.attempt], marker.backup)
    /\ staging[marker.attempt] # Absent => SameBut(staging[marker.attempt], marker.staging)

BeforeRenames ==
    staging[marker.attempt] # Absent /\ data # Absent =>
      /\ retired[marker.attempt] = Absent
      /\ ~data.altered /\ data.sessions = marker.backup.sessions
      /\ ~disturbed => data.receipt = marker.backup.receipt

BetweenRenames ==
    data = Absent =>
      /\ staging[marker.attempt] # Absent
      /\ retired[marker.attempt] # Absent
      /\ retired[marker.attempt].sessions = marker.backup.sessions

AfterRenames ==
    staging[marker.attempt] = Absent =>
      /\ data # Absent
      /\ SameBut([data EXCEPT !.receipt = marker.staging.receipt], marker.staging)
      /\ ~disturbed => data.receipt = marker.staging.receipt
      /\ data.altered =>
           /\ retired[marker.attempt] # Absent
           /\ retired[marker.attempt].sessions = marker.backup.sessions

ExchangeSound ==
    /\ marker # NoMarker => BackupWhole /\ BeforeRenames /\ BetweenRenames /\ AfterRenames
    /\ marker = NoMarker /\ data # Absent => ~data.altered

\* A session maintenance deleted: it was to go, and a backup has it.
BackedUp(s) ==
    /\ s \in Removed
    /\ \E a \in Numbers : backup[a] # Absent /\ s \in backup[a].sessions

\* The sessions of the directory, of the one being exchanged while a marker is there.
Held == IF marker # NoMarker THEN marker.backup.sessions
        ELSE IF data # Absent THEN data.sessions ELSE {}

SessionsHeld == \A s \in made : s \in Held \/ BackedUp(s)

MaintenanceInv ==
    /\ MaintenanceTypeOK /\ OneProgram /\ NumbersFresh /\ PlacesSound
    /\ ExchangeSound /\ SessionsHeld
    /\ RecoverFinishes /\ ReceiptKept

=============================================================================
