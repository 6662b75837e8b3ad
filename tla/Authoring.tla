----------------------------- MODULE Authoring -----------------------------
(***************************************************************************)
(* Accepted authoring changes of one workspace: the durable handoff between *)
(* the files of a catalogue and the run heads of the database.              *)
(*                                                                          *)
(* A command of the service prepares a change under the authoring mutex,    *)
(* then a blocking worker takes the workspace's file lock, journals the     *)
(* intent, installs the bytes, the caller publishes one batch of run heads, *)
(* and a last worker removes the journal.  Three journals share the lock:   *)
(* a source (source_acceptance.rs), a package (publication.rs) and an       *)
(* import of several new sources (context_store.rs).  External editors take *)
(* no lock, callers can be cancelled while their worker goes on, and the    *)
(* service can die between any two steps.                                   *)
(*                                                                          *)
(* A file's bytes are a number: Absent, Initial, Edited (an external edit)  *)
(* or the fresh number of the command that proposes them.                   *)
(***************************************************************************)
EXTENDS Naturals, Sequences, FiniteSets, TLC

CONSTANTS
    Procs,      \* tasks of the service
    Sources,    \* strategies, libraries and types a flow is linked with
    Bridge,     \* a bridge definition
    Package,    \* the package of the flow the runs execute
    Imports,    \* the files one import creates together
    Runs,       \* sessions that may be started
    MaxOps,     \* bound: commands, saves, imports and reads
    Faults,     \* bound: external edits, cancelled callers and crashes
    Together,   \* bound: all of these
    Nobody      \* no process, no journal, no head

Absent  == 0
Initial == 1
Edited  == 99

Keys == Sources \cup {Bridge}
Arts == Keys \cup {Package} \cup Imports

VARIABLES
    file,       \* the bytes at each path; a package is one tree
    backup,     \* the tree a package replacement moved to its staging name
    sourceJ,    \* .source-acceptance.json
    packageJ,   \* .package-acceptance.json
    importJ,    \* .source-import.json
    hist,       \* accepted revisions of each artifact, oldest first
    receipts,   \* identities of the batches the database has applied
    base,       \* run documents: the definition captured by start
    revHead,    \* revision-heads
    graphHead,  \* runtime-graph-heads
    proc,       \* the tasks
    mutex,      \* authoring_writer
    excl,       \* exclusive holder of .sources.lock
    shared,     \* shared holders of .sources.lock
    ops, faults,
    edited,     \* artifacts an external editor has touched
    late,       \* artifacts edited between the last comparison and the rename
    lost,       \* artifacts whose unseen bytes were overwritten
    wedged,     \* an installation met bytes that no editor wrote
    since,      \* accepted revisions when a run was admitted
    overtaken   \* runs admitted while a cancelled worker was under way

disk  == <<file, backup, sourceJ, packageJ, importJ, hist>>
db    == <<receipts, base, revHead, graphHead>>
locks == <<mutex, excl, shared>>
ghost == <<edited, late, lost, wedged, since, overtaken>>
vars  == <<disk, db, proc, locks, ops, faults, ghost>>

Idle == [pc |-> "idle", op |-> Nobody, ret |-> Nobody, detached |-> FALSE]

-----------------------------------------------------------------------------
(* What is read                                                              *)

\* The definition a run's next step is linked with: its head, or the document.
Def(r) == IF revHead[r] = Nobody THEN base[r].flow ELSE revHead[r]

BridgeOf(r) == IF graphHead[r] = Nobody THEN base[r].bridge
               ELSE graphHead[r].bridge

Live == {r \in Runs : base[r] # Nobody}

Accepted(k) == {hist[k][i].hash : i \in DOMAIN hist[k]}
Lineage(k)  == Accepted(k) \cup {hist[k][i].prev : i \in DOMAIN hist[k]}

\* check_reference_locked: a reference without history must name the current
\* bytes; otherwise the bytes must be the accepted head, unless they are being
\* accepted, and the reference one of its ancestors.
CheckReference(k, requested, accepting) ==
    IF hist[k] = << >>
    THEN requested = Nobody \/ requested = file[k]
    ELSE /\ accepting \/ hist[k][Len(hist[k])].hash = file[k]
         /\ \/ requested = Nobody
            \/ accepting /\ requested = file[k]
            \/ requested \in Lineage(k)

NoJournal == sourceJ = Nobody /\ packageJ = Nobody /\ importJ = Nobody

\* The definition linked with the sources as they are on disk.
Linked == [k \in Sources |-> file[k]]

-----------------------------------------------------------------------------
(* Control of a task                                                         *)

Holds(p) == excl = p

\* The task goes on at another place.
Go(p, pc) == proc' = [proc EXCEPT ![p].pc = pc]

Unlock(p) == /\ excl' = IF excl = p THEN Nobody ELSE excl
             /\ shared' = shared \ {p}

\* The task ends, on success or with an error: guards and locks are dropped,
\* journals stay where they are.
End(p) ==
    /\ proc' = [proc EXCEPT ![p] = Idle]
    /\ mutex' = IF mutex = p THEN Nobody ELSE mutex
    /\ Unlock(p)

\* A worker returns to its caller, keeping the lock it hands over; without a
\* caller its result is dropped, and the lock with it.
Return(p, pc) ==
    IF proc[p].detached THEN End(p) ELSE Go(p, pc) /\ UNCHANGED locks

\* The same for a worker that has finished with the lock.
Release(p, pc) ==
    IF proc[p].detached THEN End(p)
    ELSE Go(p, pc) /\ Unlock(p) /\ UNCHANGED mutex

Init ==
    /\ file = [x \in Arts |-> IF x \in Imports THEN Absent ELSE Initial]
    /\ backup = Absent
    /\ sourceJ = Nobody /\ packageJ = Nobody /\ importJ = Nobody
    /\ hist = [x \in Arts |-> << >>]
    /\ receipts = {}
    /\ base = [r \in Runs |-> Nobody]
    /\ revHead = [r \in Runs |-> Nobody]
    /\ graphHead = [r \in Runs |-> Nobody]
    /\ proc = [p \in Procs |-> Idle]
    /\ mutex = Nobody /\ excl = Nobody /\ shared = {}
    /\ ops = 0 /\ faults = 0
    /\ edited = {} /\ late = {} /\ lost = {} /\ wedged = FALSE
    /\ since = [r \in Runs |-> Nobody]
    /\ overtaken = {}

-----------------------------------------------------------------------------
(* Entry points                                                              *)

\* store_source, store_bridge, store_flow and start_admitted take the authoring
\* mutex and recover the workspace before anything else.
Command(p) ==
    /\ proc[p].pc = "idle" /\ mutex = Nobody /\ ops < MaxOps /\ ops + faults < Together
    /\ \E op \in [kind : {"accept"}, key : Keys \cup {Package}, new : {ops + 2}]
               \cup [kind : {"start"}, run : Runs \ Live] :
         proc' = [proc EXCEPT ![p] = [Idle EXCEPT !.pc = "recS", !.op = op]]
    /\ mutex' = p /\ ops' = ops + 1
    /\ UNCHANGED <<disk, db, excl, shared, faults, ghost>>

\* SourceStore::save writes one file without a publication, and install_sources
\* creates several; both go straight to their worker.
Save(p) ==
    /\ proc[p].pc = "idle" /\ ops < MaxOps /\ ops + faults < Together
    /\ \E k \in Sources :
         proc' = [proc EXCEPT ![p] = [Idle EXCEPT !.pc = "begin", !.op =
             [kind |-> "accept", key |-> k, new |-> ops + 2, prev |-> file[k],
              pre |-> << >>, pub |-> Nobody]]]
    /\ ops' = ops + 1
    /\ UNCHANGED <<disk, db, locks, faults, ghost>>

Import(p) ==
    /\ proc[p].pc = "idle" /\ ops < MaxOps /\ ops + faults < Together
    /\ proc' = [proc EXCEPT ![p] = [Idle EXCEPT !.pc = "begin", !.op =
                   [kind |-> "import", new |-> ops + 2]]]
    /\ ops' = ops + 1
    /\ UNCHANGED <<disk, db, locks, faults, ghost>>

Read(p) ==
    /\ proc[p].pc = "idle" /\ ops < MaxOps /\ ops + faults < Together
    /\ proc' = [proc EXCEPT ![p] = [Idle EXCEPT !.pc = "read", !.op = [kind |-> "read"]]]
    /\ ops' = ops + 1
    /\ UNCHANGED <<disk, db, locks, faults, ghost>>

-----------------------------------------------------------------------------
(* The file lock                                                             *)

\* workspace_lock_raw for recovery, and the exclusive workspace_lock of a
\* writer or of a reader that met a journal.  What is pending is settled first.
TakeLock(p) ==
    /\ proc[p].pc \in {"recS", "recP", "begin", "upgrade"}
    /\ excl = Nobody /\ shared = {}
    /\ excl' = p
    /\ proc' = [proc EXCEPT ![p].pc = "settle",
                            ![p].ret = IF proc[p].pc = "upgrade" THEN @ ELSE proc[p].pc]
    /\ UNCHANGED <<disk, db, mutex, shared, ops, faults, ghost>>

\* The shared workspace_lock: a reader that finds a journal gives its lock up
\* and comes back for the exclusive one.
ShareLock(p) ==
    /\ proc[p].pc \in {"read", "preflight", "capture"}
    /\ excl = Nobody /\ p \notin shared
    /\ IF NoJournal
       THEN /\ shared' = shared \cup {p}
            /\ UNCHANGED proc
       ELSE /\ proc' = [proc EXCEPT ![p].pc = "upgrade", ![p].ret = proc[p].pc]
            /\ UNCHANGED shared
    /\ UNCHANGED <<disk, db, mutex, excl, ops, faults, ghost>>

\* A catalogue reader is done.
EndRead(p) ==
    /\ proc[p].pc = "read" /\ p \in shared
    /\ End(p)
    /\ UNCHANGED <<disk, db, ops, faults, ghost>>

\* Which journal the holder has to deal with: recovery of sources ignores a
\* package, recovery of packages a source.
Pending(p) ==
    CASE importJ # Nobody                            -> "import"
      [] sourceJ # Nobody /\ proc[p].ret # "recP"    -> "source"
      [] packageJ # Nobody /\ proc[p].ret # "recS"   -> "package"
      [] OTHER                                       -> "none"

\* With nothing pending the holder does what it came for.
Settled(p) ==
    /\ proc[p].pc = "settle" /\ Pending(p) = "none"
    /\ CASE proc[p].ret = "recS"  -> Release(p, "recP")
         [] proc[p].ret = "recP"  ->
              Release(p, IF proc[p].op.kind = "start" THEN "capture" ELSE "preflight")
         [] proc[p].ret = "begin" -> Go(p, "check") /\ UNCHANGED locks
         [] OTHER                 -> Release(p, proc[p].ret)
    /\ UNCHANGED <<disk, db, ops, faults, ghost>>

Settle(p) ==
    /\ proc[p].pc = "settle" /\ Pending(p) \in {"source", "package"}
    /\ Go(p, Pending(p))
    /\ UNCHANGED <<disk, db, locks, ops, faults, ghost>>

-----------------------------------------------------------------------------
(* Preparation, under the authoring mutex and without the exclusive lock     *)

\* accept_source links the current definition of every live run with the
\* sources on disk, the candidate in place of its old bytes.
SourceBatch(k, new) ==
    [rev   |-> [r \in Live |-> [src |-> [Linked EXCEPT ![k] = new], pkg |-> Def(r).pkg]],
     graph |-> << >>]

\* accept_bridge resolves the graph of every live run again.
BridgeBatch(new) ==
    [rev   |-> << >>,
     graph |-> [r \in Live |-> [bridge |-> new, flow |-> Def(r)]]]

\* live_flows::accept replaces the definition of the package's runs.
PackageBatch(new) ==
    [rev   |-> [r \in Live |-> [src |-> Linked, pkg |-> new]],
     graph |-> << >>]

Publications(k, new) ==
    CASE k \in Sources -> SourceBatch(k, new)
      [] k = Bridge    -> BridgeBatch(new)
      [] k = Package   -> PackageBatch(new)

\* Everything the linking reads, except the edited path itself: flows, other
\* sources and other bridges, each with the hash that was read.
Conditions(k) ==
    LET reads == CASE k \in Sources -> (Sources \ {k}) \cup {Package}
                   [] k = Bridge    -> {Package}
                   [] k = Package   -> Sources \cup {Bridge}
    IN [x \in reads |-> file[x]]

\* link_candidate: the sources of every affected definition must resolve.
Linkable(k) ==
    /\ k # Bridge => \A s \in Sources \ {k} : CheckReference(s, Nobody, FALSE)
    /\ k \in Sources => \A r \in Live : \A s \in Sources :
                           CheckReference(s, Def(r).src[s], s = k)

\* The preparation ends with a proposal, or with an error: an unresolved
\* source, an invalid definition or an incompatible live run.
Preflight(p) ==
    /\ proc[p].pc = "preflight" /\ p \in shared
    /\ LET k == proc[p].op.key  new == proc[p].op.new IN
       \/ /\ Linkable(k)
          /\ proc' = [proc EXCEPT ![p].pc = "begin", ![p].op =
                         [kind |-> "accept", key |-> k, new |-> new, prev |-> file[k],
                          pre |-> Conditions(k), pub |-> Publications(k, new)]]
          /\ Unlock(p) /\ UNCHANGED mutex
       \/ End(p)
    /\ UNCHANGED <<disk, db, ops, faults, ghost>>

\* start_admitted captures the definition a new run is frozen with ...
Capture(p) ==
    /\ proc[p].pc = "capture" /\ p \in shared
    /\ IF \A s \in Sources : CheckReference(s, Nobody, FALSE)
       THEN /\ proc' = [proc EXCEPT ![p].pc = "admit", ![p].op =
                  [kind |-> "start", run |-> @.run,
                   doc |-> [flow   |-> [src |-> Linked, pkg |-> file[Package]],
                            bridge |-> file[Bridge]]]]
            /\ Unlock(p) /\ UNCHANGED mutex
       ELSE End(p)
    /\ UNCHANGED <<disk, db, ops, faults, ghost>>

\* A worker without a caller may still publish a batch prepared before this run.
UnderWay == {q \in Procs : proc[q].detached}

\* ... and saves its document unless the package changed meanwhile.
Admit(p) ==
    /\ proc[p].pc = "admit"
    /\ LET r == proc[p].op.run  doc == proc[p].op.doc IN
       IF file[Package] = doc.flow.pkg
       THEN /\ base' = [base EXCEPT ![r] = doc]
            /\ since' = [since EXCEPT ![r] = [x \in Arts |-> Len(hist[x])]]
            /\ overtaken' = IF UnderWay # {} \/ ~NoJournal
                            THEN overtaken \cup {r} ELSE overtaken
       ELSE UNCHANGED <<base, since, overtaken>>
    /\ End(p)
    /\ UNCHANGED <<disk, receipts, revHead, graphHead, ops, faults,
                   edited, late, lost, wedged>>

-----------------------------------------------------------------------------
(* Begin: the checks under the lock, and the intent                          *)

\* Every path that was read still has the bytes that were read.
ConditionsHold(pre) == \A x \in DOMAIN pre : file[x] = pre[x]

\* begin_internal, begin_checked and begin_install.
Begin(p) ==
    /\ proc[p].pc = "check"
    /\ LET op == proc[p].op IN
       \/ /\ op.kind = "accept"
          /\ file[op.key] = op.prev /\ ConditionsHold(op.pre)
          /\ IF op.key = Package
             THEN /\ packageJ' = [id |-> op.new, key |-> Package, hash |-> op.new,
                                  prev |-> op.prev, pub |-> op.pub, pre |-> op.pre,
                                  phase |-> "staging"]
                  /\ UNCHANGED sourceJ
             ELSE /\ sourceJ' = [id |-> op.new, key |-> op.key, hash |-> op.new,
                                 prev |-> op.prev, pub |-> op.pub, installed |-> FALSE]
                  /\ UNCHANGED packageJ
          /\ proc' = [proc EXCEPT ![p].pc = IF op.key = Package THEN "package" ELSE "source",
                                  ![p].ret = "own", ![p].op = [kind |-> "accept", key |-> op.key]]
          /\ UNCHANGED <<importJ, locks>>
       \/ /\ op.kind = "accept"
          /\ ~(file[op.key] = op.prev /\ ConditionsHold(op.pre))
          /\ End(p)
          /\ UNCHANGED <<sourceJ, packageJ, importJ>>
       \/ /\ op.kind = "import"
          /\ IF \A x \in Imports : file[x] = Absent
             THEN /\ importJ' = [hash |-> op.new, phase |-> "installing",
                                 mine |-> {}, changed |-> FALSE]
                  /\ Go(p, "import") /\ UNCHANGED locks
             ELSE End(p) /\ UNCHANGED importJ
          /\ UNCHANGED <<sourceJ, packageJ>>
    /\ UNCHANGED <<file, backup, hist, db, ops, faults, ghost>>

-----------------------------------------------------------------------------
(* Installation of one source (source_acceptance::install)                   *)

\* A conflict leaves the journal to its next reader.  It is expected only when
\* an editor touched the file or something the change was prepared with.
Conflict(p, touched) ==
    /\ End(p)
    /\ wedged' = (wedged \/ touched \cap edited = {})

\* The bytes are the new ones after a crash behind the rename, the replaced
\* ones before it, and otherwise somebody else's.
CompareSource(p) ==
    /\ proc[p].pc = "source" /\ ~sourceJ.installed
    /\ LET k == sourceJ.key IN
       CASE file[k] = sourceJ.hash -> Go(p, "srcRecord") /\ UNCHANGED <<locks, wedged>>
         [] file[k] = sourceJ.prev -> Go(p, "srcSwap") /\ UNCHANGED <<locks, wedged>>
         [] OTHER                  -> Conflict(p, {k})
    /\ UNCHANGED <<disk, db, ops, faults, edited, late, lost, since, overtaken>>

\* A new file is linked, which never replaces one; an old one is replaced by a
\* rename, which does not look at what it replaces.
SwapSource(p) ==
    /\ proc[p].pc = "srcSwap"
    /\ LET k == sourceJ.key IN
       IF sourceJ.prev = Absent /\ file[k] # Absent
       THEN Conflict(p, {k}) /\ UNCHANGED <<file, lost>>
       ELSE /\ file' = [file EXCEPT ![k] = sourceJ.hash]
            /\ lost' = IF file[k] # sourceJ.prev THEN lost \cup {k} ELSE lost
            /\ Go(p, "srcRecord") /\ UNCHANGED <<locks, wedged>>
    /\ UNCHANGED <<backup, sourceJ, packageJ, importJ, hist, db, ops, faults,
                   edited, late, since, overtaken>>

\* The history file, the head and the installed bit.  A head that was written
\* before a crash is written again with the same revision.
RecordSource(p) ==
    /\ proc[p].pc = "srcRecord"
    /\ LET k == sourceJ.key IN
       hist' = IF sourceJ.hash \in Accepted(k) THEN hist
               ELSE [hist EXCEPT ![k] = Append(@, [hash |-> sourceJ.hash, prev |-> sourceJ.prev,
                                                   live |-> sourceJ.pub # Nobody])]
    /\ sourceJ' = [sourceJ EXCEPT !.installed = TRUE]
    /\ Go(p, "source")
    /\ UNCHANGED <<file, backup, packageJ, importJ, db, locks, ops, faults, ghost>>


\* The owner and the daemon's recovery go on to publish.  Whoever only needed
\* the lock (recover_files_locked) may finish a save, never a publication.
SourceInstalled(p) ==
    /\ proc[p].pc = "source" /\ sourceJ.installed
    /\ \/ /\ proc[p].ret \in {"own", "recS"}
          /\ Return(p, "publish") /\ UNCHANGED sourceJ
       \/ /\ proc[p].ret \notin {"own", "recS"}
          /\ IF sourceJ.pub = Nobody
             THEN sourceJ' = Nobody /\ Go(p, "settle") /\ UNCHANGED locks
             ELSE End(p) /\ UNCHANGED sourceJ
    /\ UNCHANGED <<file, backup, packageJ, importJ, hist, db, ops, faults, ghost>>

-----------------------------------------------------------------------------
(* Installation of a package (publication.rs, install)                       *)

\* check_previous, check_preconditions and check_dependencies.
PackageUnchanged == file[Package] = packageJ.prev /\ ConditionsHold(packageJ.pre)

PackageTouched == {Package} \cup DOMAIN packageJ.pre

\* The tree is staged beside the catalogue, then the journal says so.
StagePackage(p) ==
    /\ proc[p].pc = "package" /\ packageJ.phase = "staging"
    /\ IF PackageUnchanged
       THEN /\ packageJ' = [packageJ EXCEPT !.phase = "ready"]
            /\ UNCHANGED <<proc, locks, wedged>>
       ELSE Conflict(p, PackageTouched) /\ UNCHANGED packageJ
    /\ UNCHANGED <<file, backup, sourceJ, importJ, hist, db, ops, faults,
                   edited, late, lost, since, overtaken>>

\* The old tree under the staging name proves an exchange that a crash kept
\* from being recorded.
AlreadyInstalled == file[Package] = packageJ.hash /\ backup = packageJ.prev

ComparePackage(p) ==
    /\ proc[p].pc = "package" /\ packageJ.phase = "ready"
    /\ CASE AlreadyInstalled -> /\ packageJ' = [packageJ EXCEPT !.phase = "installed"]
                                /\ UNCHANGED <<proc, locks, wedged>>
         [] ~AlreadyInstalled /\ PackageUnchanged ->
              Go(p, "pkgSwap") /\ UNCHANGED <<packageJ, locks, wedged>>
         [] OTHER -> Conflict(p, PackageTouched) /\ UNCHANGED packageJ
    /\ UNCHANGED <<file, backup, sourceJ, importJ, hist, db, ops, faults,
                   edited, late, lost, since, overtaken>>

\* RENAME_EXCHANGE keeps whatever was there under the staging name;
\* RENAME_NOREPLACE refuses to replace a tree that appeared.
SwapPackage(p) ==
    /\ proc[p].pc = "pkgSwap"
    /\ IF packageJ.prev = Absent /\ file[Package] # Absent
       THEN Conflict(p, PackageTouched) /\ UNCHANGED <<file, backup, hist>>
       ELSE /\ file' = [file EXCEPT ![Package] = packageJ.hash]
            /\ backup' = file[Package]
            /\ hist' = [hist EXCEPT ![Package] =
                          Append(@, [hash |-> packageJ.hash, prev |-> packageJ.prev, live |-> TRUE])]
            /\ Go(p, "pkgVerify") /\ UNCHANGED <<locks, wedged>>
    /\ UNCHANGED <<sourceJ, packageJ, importJ, db, ops, faults,
                   edited, late, lost, since, overtaken>>

\* What was exchanged must be what was compared.
VerifyPackage(p) ==
    /\ proc[p].pc = "pkgVerify"
    /\ IF AlreadyInstalled
       THEN /\ packageJ' = [packageJ EXCEPT !.phase = "installed"]
            /\ Go(p, "package") /\ UNCHANGED <<locks, wedged>>
       ELSE Conflict(p, {Package}) /\ UNCHANGED packageJ
    /\ UNCHANGED <<file, backup, sourceJ, importJ, hist, db, ops, faults,
                   edited, late, lost, since, overtaken>>

PackageInstalled(p) ==
    /\ proc[p].pc = "package" /\ packageJ.phase \in {"installed", "finishing"}
    /\ IF proc[p].ret \in {"own", "recP"}
       THEN Return(p, "publish")
       ELSE End(p)
    /\ UNCHANGED <<disk, db, ops, faults, ghost>>

-----------------------------------------------------------------------------
(* Publication and end of the handoff                                        *)

ForSource(p) == proc[p].ret = "recS" \/ (proc[p].ret = "own" /\ proc[p].op.key # Package)

Journal(p) == IF ForSource(p) THEN sourceJ ELSE packageJ

\* publish_pending: one transaction installs every head and the receipt of the
\* journal's identity; a batch whose receipt is there changes nothing.
Publish(p) ==
    /\ proc[p].pc = "publish"
    /\ LET j == Journal(p) IN
       IF j.pub = Nobody \/ j.id \in receipts THEN UNCHANGED db
       ELSE /\ receipts' = receipts \cup {j.id}
            /\ revHead' = j.pub.rev @@ revHead
            /\ graphHead' = j.pub.graph @@ graphHead
            /\ UNCHANGED base
    /\ Go(p, "finish")
    /\ UNCHANGED <<disk, locks, ops, faults, ghost>>

\* After its journal is removed, the owner answers its caller and recovery
\* continues; bytes that changed since the installation make both fail.
AfterFinish(p, j) ==
    IF proc[p].ret \in {"recS", "recP"} /\ file[j.key] = j.hash
    THEN Release(p, IF proc[p].ret = "recS" THEN "recP"
                    ELSE IF proc[p].op.kind = "start" THEN "capture" ELSE "preflight")
    ELSE End(p)

\* PendingAcceptance::finish.
FinishSource(p) ==
    /\ proc[p].pc = "finish" /\ ForSource(p)
    /\ sourceJ' = Nobody
    /\ AfterFinish(p, sourceJ)
    /\ UNCHANGED <<file, backup, packageJ, importJ, hist, db, ops, faults, ghost>>

\* publication.rs, finish: the phase is durable before the old tree goes.
FinishPackage(p) ==
    /\ proc[p].pc = "finish" /\ ~ForSource(p) /\ packageJ.phase = "installed"
    /\ IF backup = packageJ.prev
       THEN /\ packageJ' = [packageJ EXCEPT !.phase = "finishing"]
            /\ UNCHANGED <<proc, locks>>
       ELSE End(p) /\ UNCHANGED packageJ
    /\ UNCHANGED <<file, backup, sourceJ, importJ, hist, db, ops, faults, ghost>>

\* cleanup.
CleanPackage(p) ==
    /\ proc[p].pc = "finish" /\ ~ForSource(p) /\ packageJ.phase = "finishing"
    /\ IF backup \in {Absent, packageJ.prev}
       THEN /\ backup' = Absent /\ packageJ' = Nobody
            /\ AfterFinish(p, packageJ)
       ELSE End(p) /\ UNCHANGED <<backup, packageJ>>
    /\ UNCHANGED <<file, sourceJ, importJ, hist, db, ops, faults, ghost>>

-----------------------------------------------------------------------------
(* Import of several new files (context_store.rs, install_sources)           *)

\* Each entry is a hard link to its staged file; an existing target stops the
\* import, which is then rolled back by its own recovery.
LinkEntry(p) ==
    /\ proc[p].pc = "import" /\ importJ.phase = "installing"
    /\ \E x \in Imports \ importJ.mine :
         IF file[x] = Absent
         THEN /\ file' = [file EXCEPT ![x] = importJ.hash]
              /\ importJ' = [importJ EXCEPT !.mine = @ \cup {x}]
              /\ UNCHANGED proc
         ELSE /\ proc' = [proc EXCEPT ![p].pc = "settle", ![p].ret = "end"]
              /\ UNCHANGED <<file, importJ>>
    /\ UNCHANGED <<backup, sourceJ, packageJ, hist, db, locks, ops, faults, ghost>>

CommitImport(p) ==
    /\ proc[p].pc = "import" /\ importJ.mine = Imports
    /\ importJ' = IF \A x \in Imports : file[x] = importJ.hash
                  THEN [importJ EXCEPT !.phase = "committed"] ELSE importJ
    /\ proc' = [proc EXCEPT ![p].pc = "settle", ![p].ret = "end"]
    /\ UNCHANGED <<file, backup, sourceJ, packageJ, hist, db, locks, ops, faults, ghost>>

\* The entries that are still the import's own links.
OwnLinks == {x \in importJ.mine : file[x] = importJ.hash}

\* recover_locked: remove those, and remember in the journal whether anything
\* else was found at a target.
RollBack(p) ==
    /\ proc[p].pc = "settle" /\ importJ # Nobody /\ importJ.phase = "installing"
    /\ file' = [x \in Arts |-> IF x \in OwnLinks THEN Absent ELSE file[x]]
    /\ lost' = lost \cup {x \in Imports : file[x] = Edited /\ file'[x] = Absent}
    /\ importJ' = [importJ EXCEPT !.phase = "rolledBack", !.mine = {},
                      !.changed = \E x \in Imports \ OwnLinks : file[x] # Absent]
    /\ UNCHANGED <<backup, sourceJ, packageJ, hist, db, proc, locks, ops, faults,
                   edited, late, wedged, since, overtaken>>

\* clean_journal.
CleanImport(p) ==
    /\ proc[p].pc = "settle" /\ importJ # Nobody
    /\ importJ.phase \in {"committed", "rolledBack"}
    /\ importJ' = Nobody
    /\ IF importJ.changed \/ proc[p].ret = "end" THEN End(p)
       ELSE UNCHANGED <<proc, locks>>
    /\ UNCHANGED <<file, backup, sourceJ, packageJ, hist, db, ops, faults, ghost>>

-----------------------------------------------------------------------------
(* The environment                                                           *)

\* An external editor writes a file of the catalogue, or creates one.
Edit ==
    /\ faults < Faults /\ ops + faults < Together
    /\ \E x \in Arts :
         /\ file[x] # Edited
         /\ file' = [file EXCEPT ![x] = Edited]
         /\ edited' = edited \cup {x}
         /\ late' = IF \E p \in Procs : proc[p].pc = "srcSwap" /\ sourceJ.key = x
                    THEN late \cup {x} ELSE late
    /\ faults' = faults + 1
    /\ UNCHANGED <<backup, sourceJ, packageJ, importJ, hist, db, proc, locks, ops,
                   lost, wedged, since, overtaken>>

\* A caller's future is dropped.  Its mutex goes at once; a worker that was
\* spawned, even one still waiting for the lock, goes on without it.
Cancel(p) ==
    /\ faults < Faults /\ ops + faults < Together /\ mutex = p
    /\ IF proc[p].pc \in {"preflight", "capture", "admit", "publish", "upgrade"}
       THEN End(p)
       ELSE /\ proc' = [proc EXCEPT ![p].detached = TRUE]
            /\ mutex' = Nobody /\ UNCHANGED <<excl, shared>>
    /\ faults' = faults + 1
    /\ UNCHANGED <<disk, db, ops, ghost>>

\* The service dies and is started again.
Crash ==
    /\ faults < Faults /\ ops + faults < Together
    /\ proc # [p \in Procs |-> Idle]
    /\ proc' = [p \in Procs |-> Idle]
    /\ mutex' = Nobody /\ excl' = Nobody /\ shared' = {}
    /\ faults' = faults + 1
    /\ UNCHANGED <<disk, db, ops, ghost>>

Work(p) ==
    \/ TakeLock(p) \/ ShareLock(p) \/ EndRead(p) \/ Settled(p) \/ Settle(p)
    \/ Preflight(p) \/ Capture(p) \/ Admit(p) \/ Begin(p)
    \/ CompareSource(p) \/ SwapSource(p) \/ RecordSource(p) \/ SourceInstalled(p)
    \/ StagePackage(p) \/ ComparePackage(p) \/ SwapPackage(p) \/ VerifyPackage(p)
    \/ PackageInstalled(p) \/ Publish(p) \/ FinishSource(p) \/ FinishPackage(p)
    \/ CleanPackage(p) \/ LinkEntry(p) \/ CommitImport(p) \/ RollBack(p)
    \/ CleanImport(p)

Next ==
    \/ \E p \in Procs : Command(p) \/ Save(p) \/ Import(p) \/ Read(p) \/ Work(p) \/ Cancel(p)
    \/ Edit \/ Crash

Spec == Init /\ [][Next]_vars

-----------------------------------------------------------------------------
(* Properties                                                                *)

Last(s) == s[Len(s)]

\* What the run's next step is linked with.
Component(r, x) == CASE x \in Sources -> Def(r).src[x]
                     [] x = Package   -> Def(r).pkg
                     [] x = Bridge    -> BridgeOf(r)

Settleable == NoJournal /\ excl = Nobody

\* Once no journal is pending, every run that was live when a revision was
\* accepted by a command has it in its heads: neither a crash, nor a cancelled caller, nor
\* a recovery by another task leaves an accepted source unpublished.
AcceptedReachesRuns ==
    Settleable =>
      \A r \in Live \ overtaken : \A x \in Keys \cup {Package} :
        Len(hist[x]) > since[r][x] /\ Last(hist[x]).live =>
          Component(r, x) = Last(hist[x]).hash

Rank(x, c) == IF \E i \in DOMAIN hist[x] : hist[x][i].hash = c
              THEN CHOOSE i \in DOMAIN hist[x] : hist[x][i].hash = c ELSE 0

\* A batch prepared before another change was accepted is never applied after
\* it: no component of a run's heads goes back to an older revision.
HeadsForward ==
    [][\A r \in Live : \A x \in Keys \cup {Package} :
          Rank(x, Component(r, x))' >= Rank(x, Component(r, x))]_vars

\* Bytes an external editor wrote are only overwritten by a save that compared
\* them, except in the instant between that comparison and the rename.
EditsKept == lost \subseteq late

\* A journal left by a crash can always be finished or rolled back; it refuses
\* only bytes that somebody else wrote.
RecoveryUnobstructed == ~wedged

\* A catalogue reader sees no pending change: each import is there as a whole
\* or not at all, and a package is never half replaced.
ReadersSeeSettled ==
    shared # {} =>
      /\ NoJournal /\ backup \in {Absent, Edited}
      /\ edited \cap Imports = {} =>
           Cardinality({file[x] : x \in Imports}) <= 1

=============================================================================
