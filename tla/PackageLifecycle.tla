-------------------------- MODULE PackageLifecycle --------------------------
(***************************************************************************)
(* Conversion of a legacy flow to a package, and deletion of a package     *)
(* (zf-storage/src/flow_packages/publication/lifecycle.rs), as requested   *)
(* by zf-execution/src/flow_conversion.rs.                                 *)
(*                                                                         *)
(* An operation changes files in several workspaces: the legacy source is  *)
(* retired, the package appears and every bridge that imports the flow is  *)
(* rewritten.  It locks all participating workspaces, writes a journal in  *)
(* the workspace of the flow and a barrier in every other one, prepares    *)
(* private copies, moves them into place by renames and removes its traces.*)
(* A crash releases the locks; whoever meets a journal or a barrier later  *)
(* continues the operation.  Editors ignore the locks.                     *)
(*                                                                         *)
(* Each rename of the code exchanges a public file with a private one,     *)
(* where one of the two may be absent.  A public file is absent, as it was *)
(* ("old"), as the operation leaves it ("new"), or written by an editor.   *)
(***************************************************************************)
EXTENDS Integers, FiniteSets

CONSTANTS
    Workspaces,     \* numbers, in the order of their paths
    Flows,
    Bridges,        \* positive numbers, in the order of their paths
    Home,           \* flow -> the workspace that holds it
    Place,          \* bridge -> its workspace
    Imported,       \* bridge -> the flow it imports
    Workers,        \* tasks of one or several daemons
    Registered,     \* worker -> the workspaces its daemon audits
    Nobody,         \* no worker
    Operations,     \* bound: requests
    WorkerCrashes,  \* bound: crashes
    Edits,          \* bound: files written by editors
    Together        \* bound: crashes and edits

\* The audit covers the bridges that may import a flow (flow_conversion.rs:
\* registered workspaces and the home catalogue).
ASSUME LifecycleAssumption ==
    /\ Workspaces \subseteq Nat /\ IsFiniteSet(Workspaces) /\ Bridges \subseteq Nat \ {0}
    /\ Home \in [Flows -> Workspaces] /\ Place \in [Bridges -> Workspaces]
    /\ Imported \in [Bridges -> Flows]
    /\ Registered \in [Workers -> SUBSET Workspaces] /\ Nobody \notin Workers
    /\ \A k \in Workers, b \in Bridges :
         Home[Imported[b]] \in Registered[k] => Place[b] \in Registered[k]
    /\ Operations \in Nat /\ WorkerCrashes \in Nat /\ Edits \in Nat

Legacy(f) == <<"legacy", f>>
Package(f) == <<"package", f>>
Bridge(b) == <<"bridge", b>>
Files == {Legacy(f) : f \in Flows} \cup {Package(f) : f \in Flows}
            \cup {Bridge(b) : b \in Bridges}
Where(x) == IF x[1] = "bridge" THEN Place[x[2]] ELSE Home[x[2]]

Contents == {"absent", "old", "new", "part", "edited"}
Ids == 1..Operations
NoIntent == [id |-> 0]
NoBarrier == [id |-> 0]

VARIABLES
    disk,       \* public files
    private,    \* per operation: stages and backups
    journal,    \* per workspace: the intent of the operation it coordinates
    barrier,    \* per workspace: the operation it participates in
    lock,       \* per workspace: the worker that holds its lock
    worker,     \* per worker: where it is
    used,       \* requests so far
    workerCrashes,  \* so far
    edited,     \* history: files written by editors
    deleted,    \* history: flows whose deletion was accepted
    conflicted  \* history: a prepared operation met a conflict, without edits

lifecycle == <<disk, private, journal, barrier, lock, worker, used, workerCrashes, edited,
          deleted, conflicted>>
tallies == <<used, workerCrashes, edited, deleted>>

Idle == [pc |-> "idle", o |-> NoIntent, todo |-> {}, fresh |-> FALSE]

LifecycleInit ==
    /\ \E converted \in SUBSET Flows :
         disk = [x \in Files |->
           CASE x[1] = "legacy"  -> IF x[2] \in converted THEN "absent" ELSE "old"
             [] x[1] = "package" -> IF x[2] \in converted THEN "new" ELSE "absent"
             [] OTHER -> IF Imported[x[2]] \in converted THEN "new" ELSE "old"]
    /\ private = [i \in Ids |-> [x \in Files |-> "absent"]]
    /\ journal = [w \in Workspaces |-> NoIntent]
    /\ barrier = [w \in Workspaces |-> NoBarrier]
    /\ lock = [w \in Workspaces |-> Nobody]
    /\ worker = [k \in Workers |-> Idle]
    /\ used = 0 /\ workerCrashes = 0 /\ edited = {} /\ deleted = {} /\ conflicted = FALSE

-----------------------------------------------------------------------------
(***************************************************************************)
(* Intents.                                                                *)
(***************************************************************************)

\* Fault: only the bridges beside the flow are rewritten.
TargetsAtHome(o) ==
    IF o.kind = "delete" THEN {Package(o.flow)}
    ELSE {Legacy(o.flow), Package(o.flow)}
           \cup {Bridge(b) : b \in {c \in Bridges :
                   /\ Imported[c] = o.flow /\ Place[c] = o.home
                   /\ o.pre[Bridge(c)] = "old"}}

\* The files an operation changes, and what it leaves.
Targets(o) ==
    IF o.kind = "delete" THEN {Package(o.flow)}
    ELSE {Legacy(o.flow), Package(o.flow)}
           \cup {Bridge(b) : b \in {c \in Bridges :
                   /\ Imported[c] = o.flow /\ Place[c] \in o.parts
                   /\ o.pre[Bridge(c)] = "old"}}

\* Those that leave a backup.
Backups(o) == {x \in Targets(o) : o.pre[x] # "absent"}

After(o, x) == IF o.kind = "delete" \/ x[1] = "legacy" THEN "absent" ELSE "new"

\* Legacy source, package, then bridges by path.
Rank(x) == CASE x[1] = "legacy" -> -1 [] x[1] = "package" -> 0 [] OTHER -> x[2]
FirstFile(S) == CHOOSE x \in S : \A y \in S : Rank(x) <= Rank(y)
Least(S) == CHOOSE w \in S : \A v \in S : w <= v

\* The catalogues are as they were captured.
Unchanged(o) ==
    \A x \in Files : Where(x) \in o.parts => disk[x] = o.pre[x]

\* The catalogues differ from the captured ones by this operation's own moves.
Progressing(o) ==
    \A x \in Files : Where(x) \in o.parts =>
      disk[x] = o.pre[x] \/ (x \in Targets(o) /\ disk[x] = After(o, x))

Pointer(o) == [id |-> o.id, home |-> o.home]

-----------------------------------------------------------------------------
(***************************************************************************)
(* Locks and markers.                                                      *)
(***************************************************************************)
Free(w) == lock[w] = Nobody
Unmarked(w) == journal[w] = NoIntent /\ barrier[w] = NoBarrier
WorkerAt(k, pc) == worker[k].pc = pc
WorkerGoto(k, pc, todo) ==
    worker' = [worker EXCEPT ![k].pc = pc, ![k].todo = todo]
Remaining(k, S) == worker' = [worker EXCEPT ![k].todo = S]
Release(k) ==
    /\ lock' = [w \in Workspaces |-> IF lock[w] = k THEN Nobody ELSE lock[w]]
    /\ worker' = [worker EXCEPT ![k] = Idle]

\* The operation ends with an error; its journal and barriers stay.
Conflict(k) ==
    /\ Release(k)
    /\ conflicted' = (conflicted \/ (edited = {} /\ worker[k].o.phase # "staging"))

-----------------------------------------------------------------------------
(***************************************************************************)
(* A request: capture the catalogues one by one, audit, lock, journal.     *)
(***************************************************************************)
Ask(k, kind, f) ==
    /\ WorkerAt(k, "idle") /\ used < Operations /\ Home[f] \in Registered[k]
    /\ used' = used + 1
    /\ worker' = [worker EXCEPT ![k] =
         [pc |-> "capture", todo |-> Registered[k], fresh |-> TRUE,
          o |-> [id |-> used', kind |-> kind, flow |-> f, home |-> Home[f],
                 parts |-> Registered[k], pre |-> [x \in Files |-> "absent"],
                 phase |-> "staging"]]]
    /\ UNCHANGED <<disk, private, journal, barrier, lock, workerCrashes, edited, deleted, conflicted>>

\* capture_catalogue_preconditions locks a workspace only while it reads it.
Capture(k) ==
    /\ WorkerAt(k, "capture") /\ worker[k].todo # {}
    /\ LET w == Least(worker[k].todo)
           o == worker[k].o
           found == [x \in Files |-> IF Where(x) = w THEN disk[x] ELSE o.pre[x]]
       IN  /\ Free(w)
           /\ worker' = [worker EXCEPT ![k] =
                IF Unmarked(w)
                THEN [worker[k] EXCEPT !.todo = worker[k].todo \ {w},
                                       !.o = [o EXCEPT !.pre = found]]
                ELSE Idle]
    /\ UNCHANGED <<disk, private, journal, barrier, lock, tallies, conflicted>>

\* A legacy source whose package does not exist; a package nobody imports.
\* The audit reads the files again, but only what agrees with the captured
\* catalogues passes the checks under the locks: it is taken to read those.
Auditable(o) ==
    \/ /\ o.kind = "convert"
       /\ o.pre[Legacy(o.flow)] = "old" /\ o.pre[Package(o.flow)] = "absent"
    \/ /\ o.kind = "delete" /\ o.pre[Package(o.flow)] = "new"
       /\ \A b \in Bridges : Imported[b] = o.flow => o.pre[Bridge(b)] # "new"

Audit(k) ==
    /\ WorkerAt(k, "capture") /\ worker[k].todo = {}
    /\ worker' = [worker EXCEPT ![k] =
         IF Auditable(worker[k].o) THEN [@ EXCEPT !.pc = "lock", !.todo = worker[k].o.parts]
         ELSE Idle]
    /\ UNCHANGED <<disk, private, journal, barrier, lock, tallies, conflicted>>

\* The locks are taken in the order of the paths.
Lock(k) ==
    /\ WorkerAt(k, "lock") /\ worker[k].todo # {}
    /\ LET w == Least(worker[k].todo) IN
         Free(w) /\ lock' = [lock EXCEPT ![w] = k] /\ Remaining(k, worker[k].todo \ {w})
    /\ UNCHANGED <<disk, private, journal, barrier, tallies, conflicted>>

\* Under all locks: no other operation is pending, the catalogues are as
\* captured, and the journal is written.
Begin(k) ==
    /\ WorkerAt(k, "lock") /\ worker[k].todo = {} /\ worker[k].fresh
    /\ LET o == worker[k].o IN
         IF (\A w \in o.parts : Unmarked(w)) /\ Unchanged(o)
         THEN /\ journal' = [journal EXCEPT ![o.home] = o]
              /\ deleted' = deleted \cup (IF o.kind = "delete" THEN {o.flow} ELSE {})
              /\ WorkerGoto(k, "mark", o.parts \ {o.home})
              /\ UNCHANGED lock
         ELSE Release(k) /\ UNCHANGED <<journal, deleted>>
    /\ UNCHANGED <<disk, private, barrier, used, workerCrashes, edited, conflicted>>

-----------------------------------------------------------------------------
(***************************************************************************)
(* recover_lifecycle, from any participant.                                *)
(***************************************************************************)

\* The journal or the barrier of a workspace names the operation; nothing
\* stays locked.
Lookup(k, w) ==
    /\ WorkerAt(k, "idle") /\ w \in Registered[k] /\ Free(w) /\ ~Unmarked(w)
    /\ worker' = [worker EXCEPT ![k] =
         [pc |-> "discover", todo |-> {w}, fresh |-> FALSE,
          o |-> IF journal[w] # NoIntent THEN Pointer(journal[w]) ELSE barrier[w]]]
    /\ UNCHANGED <<disk, private, journal, barrier, lock, tallies, conflicted>>

\* The coordinator's journal tells which locks to take.
Discover(k) ==
    /\ WorkerAt(k, "discover")
    /\ LET o == worker[k].o
           found == journal[o.home]
       IN  /\ Free(o.home)
           /\ worker' = [worker EXCEPT ![k] =
                IF found.id = o.id /\ worker[k].todo \subseteq found.parts
                THEN [@ EXCEPT !.pc = "lock", !.o = found, !.todo = found.parts]
                ELSE Idle]
    /\ UNCHANGED <<disk, private, journal, barrier, lock, tallies, conflicted>>

\* Under the locks the journal is read again; another worker may have gone on.
Reread(k) ==
    /\ WorkerAt(k, "lock") /\ worker[k].todo = {} /\ ~worker[k].fresh
    /\ LET o == journal[worker[k].o.home] IN
         IF o.id = worker[k].o.id
         THEN /\ worker' = [worker EXCEPT ![k].o = o,
                   ![k].pc = IF o.phase = "finishing" THEN "clean" ELSE "mark",
                   ![k].todo = IF o.phase = "finishing" THEN Backups(o)
                               ELSE o.parts \ {o.home}]
              /\ UNCHANGED lock
         ELSE Release(k)
    /\ UNCHANGED <<disk, private, journal, barrier, tallies, conflicted>>

-----------------------------------------------------------------------------
(***************************************************************************)
(* execute.                                                                *)
(***************************************************************************)

\* Fault: no barriers.
MarkNothing(k) ==
    /\ WorkerAt(k, "mark") /\ worker[k].todo # {}
    /\ Remaining(k, {})
    /\ UNCHANGED <<disk, private, journal, barrier, lock, tallies, conflicted>>

\* install_markers: a barrier in every other participant.
InstallMarker(k) ==
    /\ WorkerAt(k, "mark") /\ worker[k].todo # {}
    /\ LET o == worker[k].o
           w == Least(worker[k].todo)
       IN  IF journal[w] = NoIntent /\ barrier[w] \in {NoBarrier, Pointer(o)}
           THEN /\ barrier' = [barrier EXCEPT ![w] = Pointer(o)]
                /\ Remaining(k, worker[k].todo \ {w})
                /\ UNCHANGED <<lock, conflicted>>
           ELSE Conflict(k) /\ UNCHANGED barrier
    /\ UNCHANGED <<disk, private, journal, tallies>>

\* What is left to do depends on the phase that was recorded.
Marked(k) ==
    /\ WorkerAt(k, "mark") /\ worker[k].todo = {}
    /\ LET o == worker[k].o IN
         IF barrier[o.home] = NoBarrier /\ (o.phase = "staging" => Unchanged(o))
         THEN /\ CASE o.phase = "staging" ->
                        WorkerGoto(k, "prepare", {x \in Targets(o) : After(o, x) # "absent"})
                   [] o.phase = "ready" -> WorkerGoto(k, "approve", {})
                   [] OTHER -> WorkerGoto(k, "check", {})
              /\ UNCHANGED <<lock, conflicted>>
         ELSE Conflict(k)
    /\ UNCHANGED <<disk, private, journal, barrier, tallies>>

\* The package is staged file by file, ...
PreparePartly(k) ==
    /\ WorkerAt(k, "prepare") /\ worker[k].todo # {}
    /\ LET o == worker[k].o
           x == FirstFile(worker[k].todo)
       IN  /\ x = Package(o.flow) /\ private[o.id][x] = "absent"
           /\ private' = [private EXCEPT ![o.id][x] = "part"]
    /\ UNCHANGED <<disk, journal, barrier, lock, worker, tallies, conflicted>>

Prepare(k) ==
    /\ WorkerAt(k, "prepare") /\ worker[k].todo # {}
    /\ LET o == worker[k].o
           x == FirstFile(worker[k].todo)
       IN  /\ private' = [private EXCEPT ![o.id][x] = After(o, x)]
           /\ Remaining(k, worker[k].todo \ {x})
    /\ UNCHANGED <<disk, journal, barrier, lock, tallies, conflicted>>

SavePhase(k, phase) ==
    journal' = [journal EXCEPT ![worker[k].o.home].phase = phase]
GotoPhase(k, phase, pc, todo) ==
    worker' = [worker EXCEPT ![k].pc = pc, ![k].todo = todo, ![k].o.phase = phase]

\* ... and if the catalogues are still as captured the operation is ready.
Ready(k) ==
    /\ WorkerAt(k, "prepare") /\ worker[k].todo = {}
    /\ IF Unchanged(worker[k].o)
       THEN /\ SavePhase(k, "ready") /\ GotoPhase(k, "ready", "approve", {})
            /\ UNCHANGED <<lock, conflicted>>
       ELSE Conflict(k) /\ UNCHANGED journal
    /\ UNCHANGED <<disk, private, barrier, tallies>>

\* install checks the catalogues again, ...
Approve(k) ==
    /\ WorkerAt(k, "approve")
    /\ IF Progressing(worker[k].o)
       THEN WorkerGoto(k, "look", Targets(worker[k].o)) /\ UNCHANGED <<lock, conflicted>>
       ELSE Conflict(k)
    /\ UNCHANGED <<disk, private, journal, barrier, tallies>>

\* ... and each file and its private counterpart before it moves them.
Look(k) ==
    /\ WorkerAt(k, "look") /\ worker[k].todo # {}
    /\ LET o == worker[k].o
           x == FirstFile(worker[k].todo)
       IN  CASE disk[x] = o.pre[x] /\ private[o.id][x] = After(o, x) ->
                  WorkerGoto(k, "move", worker[k].todo) /\ UNCHANGED <<lock, conflicted>>
             [] disk[x] = After(o, x) /\ private[o.id][x] = o.pre[x] ->
                  Remaining(k, worker[k].todo \ {x}) /\ UNCHANGED <<lock, conflicted>>
             [] OTHER -> Conflict(k)
    /\ UNCHANGED <<disk, private, journal, barrier, tallies>>

\* A bridge is exchanged with its stage; the other renames refuse to replace
\* a file.  What was moved is compared afterwards.
Move(k) ==
    /\ WorkerAt(k, "move")
    /\ LET o == worker[k].o
           x == FirstFile(worker[k].todo)
           public == disk[x]
           hidden == private[o.id][x]
       IN  IF x[1] # "bridge" /\ public # "absent" /\ hidden # "absent"
           THEN Conflict(k) /\ UNCHANGED <<disk, private>>
           ELSE /\ disk' = [disk EXCEPT ![x] = hidden]
                /\ private' = [private EXCEPT ![o.id][x] = public]
                /\ IF public = o.pre[x] /\ hidden = After(o, x)
                   THEN /\ WorkerGoto(k, "look", worker[k].todo \ {x})
                        /\ UNCHANGED <<lock, conflicted>>
                   ELSE Conflict(k)
    /\ UNCHANGED <<journal, barrier, tallies>>

SaveInstalled(k) ==
    /\ WorkerAt(k, "look") /\ worker[k].todo = {}
    /\ SavePhase(k, "installed") /\ GotoPhase(k, "installed", "check", {})
    /\ UNCHANGED <<disk, private, barrier, lock, tallies, conflicted>>

\* check_installed and check_backups: everything is in place and what it
\* replaced is complete.
Complete(o) ==
    /\ Progressing(o)
    /\ \A x \in Targets(o) : disk[x] = After(o, x)
    /\ \A x \in Backups(o) : private[o.id][x] = o.pre[x]

Check(k) ==
    /\ WorkerAt(k, "check")
    /\ IF Complete(worker[k].o)
       THEN /\ SavePhase(k, "finishing")
            /\ GotoPhase(k, "finishing", "clean", Backups(worker[k].o))
            /\ UNCHANGED <<lock, conflicted>>
       ELSE Conflict(k) /\ UNCHANGED journal
    /\ UNCHANGED <<disk, private, barrier, tallies>>

\* cleanup: backups, a deleted package file by file, ...
CleanFilePartly(k) ==
    /\ WorkerAt(k, "clean") /\ worker[k].todo # {}
    /\ LET o == worker[k].o
           x == FirstFile(worker[k].todo)
       IN  /\ o.kind = "delete" /\ private[o.id][x] = o.pre[x]
           /\ private' = [private EXCEPT ![o.id][x] = "part"]
    /\ UNCHANGED <<disk, journal, barrier, lock, worker, tallies, conflicted>>

CleanFile(k) ==
    /\ WorkerAt(k, "clean") /\ worker[k].todo # {}
    /\ LET o == worker[k].o
           x == FirstFile(worker[k].todo)
       IN  IF private[o.id][x] \in {"absent", "part", o.pre[x]}
           THEN /\ private' = [private EXCEPT ![o.id][x] = "absent"]
                /\ Remaining(k, worker[k].todo \ {x})
                /\ UNCHANGED <<lock, conflicted>>
           ELSE Conflict(k) /\ UNCHANGED private
    /\ UNCHANGED <<disk, journal, barrier, tallies>>

Cleaned(k) ==
    /\ WorkerAt(k, "clean") /\ worker[k].todo = {}
    /\ WorkerGoto(k, "unmark", worker[k].o.parts \ {worker[k].o.home})
    /\ UNCHANGED <<disk, private, journal, barrier, lock, tallies, conflicted>>

\* ... the barriers that are still this operation's, ...
RemoveMarker(k) ==
    /\ WorkerAt(k, "unmark") /\ worker[k].todo # {}
    /\ LET o == worker[k].o
           w == Least(worker[k].todo)
       IN  /\ barrier' = [barrier EXCEPT ![w] = IF @ = Pointer(o) THEN NoBarrier ELSE @]
           /\ Remaining(k, worker[k].todo \ {w})
    /\ UNCHANGED <<disk, private, journal, lock, tallies, conflicted>>

\* ... and at last the journal.
Finish(k) ==
    /\ WorkerAt(k, "unmark") /\ worker[k].todo = {}
    /\ journal' = [journal EXCEPT ![worker[k].o.home] = NoIntent]
    /\ Release(k)
    /\ UNCHANGED <<disk, private, barrier, tallies, conflicted>>

-----------------------------------------------------------------------------
WorkerCrash(k) ==
    /\ ~WorkerAt(k, "idle") /\ workerCrashes < WorkerCrashes
    /\ workerCrashes + Cardinality(edited) < Together
    /\ workerCrashes' = workerCrashes + 1
    /\ Release(k)
    /\ UNCHANGED <<disk, private, journal, barrier, used, edited, deleted, conflicted>>

\* An editor writes a public file, without a lock.  A file edited before a
\* request is an old file; here edits matter to the operations they race, and
\* an edited flow is not asked for again.
Edit(x) ==
    /\ Cardinality(edited) < Edits /\ x \notin edited
    /\ workerCrashes + Cardinality(edited) < Together
    /\ disk' = [disk EXCEPT ![x] = "edited"]
    /\ edited' = edited \cup {x}
    /\ UNCHANGED <<private, journal, barrier, lock, worker, used, workerCrashes, deleted, conflicted>>

LifecycleNext ==
    \/ \E k \in Workers :
         \/ \E f \in Flows, kind \in {"convert", "delete"} : Ask(k, kind, f)
         \/ \E w \in Workspaces : Lookup(k, w)
         \/ Capture(k) \/ Audit(k) \/ Lock(k) \/ Begin(k) \/ Discover(k) \/ Reread(k)
         \/ InstallMarker(k) \/ Marked(k) \/ PreparePartly(k) \/ Prepare(k) \/ Ready(k)
         \/ Approve(k) \/ Look(k) \/ Move(k) \/ SaveInstalled(k) \/ Check(k)
         \/ CleanFilePartly(k) \/ CleanFile(k) \/ Cleaned(k) \/ RemoveMarker(k) \/ Finish(k)
         \/ WorkerCrash(k)
    \/ \E x \in Files : Edit(x)

LifecycleSpec == LifecycleInit /\ [][LifecycleNext]_lifecycle

-----------------------------------------------------------------------------
Phases == {"staging", "ready", "installed", "finishing"}
Intents == [id : Ids, kind : {"convert", "delete"}, flow : Flows,
            home : Workspaces, parts : SUBSET Workspaces,
            pre : [Files -> Contents], phase : Phases]
Pointers == [id : Ids, home : Workspaces]

\* Every variable has its type, and a workspace's journal is its own.
LifecycleTypeOK ==
    /\ disk \in [Files -> Contents \ {"part"}]
    /\ private \in [Ids -> [Files -> Contents]]
    /\ \A w \in Workspaces :
         /\ journal[w] # NoIntent => journal[w] \in Intents /\ journal[w].home = w
         /\ barrier[w] \in Pointers \cup {NoBarrier}
         /\ lock[w] \in Workers \cup {Nobody}
    /\ \A k \in Workers : WorkerAt(k, "idle") \/ worker[k].o \in Intents \cup Pointers
    /\ used \in 0..Operations /\ workerCrashes \in 0..WorkerCrashes
    /\ edited \subseteq Files /\ deleted \subseteq Flows /\ conflicted \in BOOLEAN

\* A catalogue reader holds the lock and meets neither journal nor barrier.
Readable(w) == Free(w) /\ Unmarked(w)

\* Whoever reads catalogues sees an operation as one: a bridge imports a flow
\* that is there in the form it names, and a flow is there in one form.
PlacesWhole ==
    /\ \A b \in Bridges : Readable(Place[b]) /\ Readable(Home[Imported[b]]) =>
         /\ disk[Bridge(b)] = "old" => disk[Legacy(Imported[b])] # "absent"
         /\ disk[Bridge(b)] = "new" => disk[Package(Imported[b])] # "absent"
    /\ \A f \in Flows : Readable(Home[f]) /\ edited = {} =>
         disk[Legacy(f)] = "absent" \/ disk[Package(f)] = "absent"

ReadersSeeWhole == LifecycleTypeOK /\ PlacesWhole

\* Nothing is destroyed that was not asked to be: what an editor wrote is in
\* its place or kept as the private counterpart of a conflict, and a flow whose
\* deletion was not accepted is in its place or the backup of a conversion.
NothingDestroyed ==
    /\ \A x \in edited :
         disk[x] = "edited" \/ \E i \in Ids : private[i][x] = "edited"
    /\ \A f \in Flows \ deleted :
         \/ disk[Legacy(f)] # "absent" \/ disk[Package(f)] # "absent"
         \/ \E i \in Ids : private[i][Legacy(f)] # "absent"

\* A barrier leads to the journal of its operation, from which recovery takes
\* the list of participants.
BarrierHasJournal ==
    \A w \in Workspaces : barrier[w] # NoBarrier =>
      LET o == journal[barrier[w].home] IN o.id = barrier[w].id /\ w \in o.parts

\* Once an operation is prepared, every crash can be recovered from: without
\* edits it never meets a conflict.
PreparedFinishes == ~conflicted

\* No workers wait for each other's locks: of those that collect locks, one
\* needs none that the others hold.
NoLockCycle ==
    \A S \in (SUBSET Workers) \ {{}} : \E k \in S :
      ~WorkerAt(k, "lock") \/ \A w \in worker[k].todo : lock[w] \notin S

\* An operation over several workspaces settles, whoever recovers it, and costs
\* nobody anything: NothingDestroyed, BarrierHasJournal, PreparedFinishes, NoLockCycle.
OperationsSettle ==
    NothingDestroyed /\ BarrierHasJournal /\ PreparedFinishes /\ NoLockCycle
-----------------------------------------------------------------------------
(* The strengthening under which these properties are inductive.               *)

\* From mark on a worker holds the locks of all participants.
ExecutionSteps ==
    {"mark", "prepare", "approve", "look", "move", "check", "clean", "unmark"}
Executes(k) == worker[k].pc \in ExecutionSteps
Asks(k) == worker[k].pc = "capture" \/ (worker[k].pc = "lock" /\ worker[k].fresh)
Collected(k) == worker[k].o.parts \ worker[k].todo
Holds(k, w) ==
    \/ worker[k].pc = "lock" /\ w \in Collected(k)
    \/ Executes(k) /\ w \in worker[k].o.parts

\* The participants hold every bridge to the flow.
Closed(o) ==
    /\ o.home = Home[o.flow] /\ o.home \in o.parts
    /\ \A b \in Bridges : Imported[b] = o.flow => Place[b] \in o.parts
Phased(k) == worker[k].o.phase \in
    CASE worker[k].pc \in {"capture", "prepare"} -> {"staging"}
      [] worker[k].pc = "mark" -> {"staging", "ready", "installed"}
      [] worker[k].pc \in {"approve", "look", "move"} -> {"ready"}
      [] worker[k].pc = "check" -> {"installed"}
      [] worker[k].pc \in {"clean", "unmark"} -> {"finishing"}
      [] OTHER -> IF worker[k].fresh THEN {"staging"} ELSE Phases
Staged(o) == {x \in Targets(o) : After(o, x) # "absent"}
Outstanding(k) ==
    CASE worker[k].pc \in {"capture", "lock"} -> worker[k].o.parts
      [] worker[k].pc \in {"mark", "unmark"} -> worker[k].o.parts \ {worker[k].o.home}
      [] worker[k].pc = "prepare" -> Staged(worker[k].o)
      [] worker[k].pc \in {"look", "move"} -> Targets(worker[k].o)
      [] worker[k].pc = "clean" -> Backups(worker[k].o)
      [] OTHER -> {}

\* A worker is where the code can be, at an intent that fits.
WorkerShaped(k) ==
    /\ worker[k].fresh \in BOOLEAN
    /\ worker[k].pc \in {"idle", "capture", "lock", "discover"} \cup ExecutionSteps
    /\ worker[k].pc = "idle" => worker[k].o = NoIntent
    /\ worker[k].pc = "discover" => worker[k].o \in Pointers /\ ~worker[k].fresh
    /\ worker[k].pc \notin {"idle", "discover"} =>
         /\ worker[k].o \in Intents /\ Closed(worker[k].o) /\ Phased(k)
         /\ worker[k].todo \subseteq Outstanding(k)
    /\ worker[k].pc = "move" => worker[k].todo # {}

\* Locks are taken upwards, and held as far as the worker has come.
OwnLocks(k) ==
    /\ \A w \in Workspaces : lock[w] = k <=> Holds(k, w)
    /\ worker[k].pc = "lock" => \A v \in Collected(k), w \in worker[k].todo : v < w

\* A new request is known to nobody else; whoever continues one has its journal.
SameIntent(o, p) ==
    /\ o.id = p.id /\ o.kind = p.kind /\ o.flow = p.flow
    /\ o.home = p.home /\ o.parts = p.parts /\ o.pre = p.pre
OwnIntent(k) == LET o == worker[k].o IN
    /\ o.id \in 0..used
    /\ Asks(k) =>
         /\ \A w \in Workspaces : journal[w].id # o.id
         /\ \A x \in Files : private[o.id][x] = "absent"
         /\ worker[k].pc = "lock" => Auditable(o)
    /\ worker[k].pc = "lock" /\ ~worker[k].fresh /\ journal[o.home].id = o.id =>
         SameIntent(journal[o.home], o)
    /\ Executes(k) => journal[o.home] = o

\* Marked participants take part in nothing else.
MarkedFor(o, w) == journal[w] = NoIntent /\ barrier[w] = Pointer(o)
AllMarked(o) ==
    barrier[o.home] = NoBarrier /\ \A w \in o.parts \ {o.home} : MarkedFor(o, w)
OwnMarks(k) == LET o == worker[k].o IN
    /\ worker[k].pc = "mark" =>
         \A w \in o.parts \ {o.home} : w \in worker[k].todo \/ MarkedFor(o, w)
    /\ worker[k].pc = "prepare" => AllMarked(o)
    /\ worker[k].pc = "unmark" =>
         \A w \in Workspaces : barrier[w] = Pointer(o) => w \in worker[k].todo

\* How far the files of an operation have come.
ToMove(o, x) == disk[x] = o.pre[x] /\ private[o.id][x] = After(o, x)
Moved(o, x) == disk[x] = After(o, x) /\ private[o.id][x] = o.pre[x]
OwnFiles(k) == LET o == worker[k].o IN
    /\ worker[k].pc = "prepare" =>
         \A x \in Staged(o) \ worker[k].todo : private[o.id][x] = "new"
    /\ worker[k].pc = "move" =>
         LET x == FirstFile(worker[k].todo) IN
           /\ private[o.id][x] = After(o, x)
           /\ disk[x] = o.pre[x] \/ (disk[x] = "edited" /\ edited # {})
    /\ worker[k].pc \in {"look", "move"} /\ edited = {} =>
         \A x \in Targets(o) \ worker[k].todo : Moved(o, x)

WorkerKept(k) ==
    WorkerShaped(k) /\ OwnLocks(k) /\ OwnIntent(k) /\ OwnMarks(k) /\ OwnFiles(k)
WorkersKept ==
    /\ worker = [k \in Workers |-> [pc |-> worker[k].pc, o |-> worker[k].o,
                                    todo |-> worker[k].todo, fresh |-> worker[k].fresh]]
    /\ \A k \in Workers : WorkerKept(k)
    /\ \A k \in Workers : Asks(k) =>
         \A j \in Workers \ {k} : worker[j].o.id # worker[k].o.id

\* A journal is the one of its operation, and what it found was whole.
Journaled(w) == journal[w] # NoIntent
FoundWhole(o) ==
    o.kind = "delete" => \A b \in Bridges : Imported[b] = o.flow /\ o.pre[Bridge(b)] = "old" =>
        o.pre[Legacy(o.flow)] # "absent"
JournalsKept ==
    \A w \in Workspaces : Journaled(w) =>
        /\ journal[w].home = w /\ journal[w].id <= used
        /\ Closed(journal[w]) /\ Auditable(journal[w]) /\ FoundWhole(journal[w])
        /\ journal[w].kind = "delete" => journal[w].flow \in deleted
        /\ \A v \in Workspaces : journal[v].id = journal[w].id => v = w

BarriersKept ==
    /\ BarrierHasJournal
    /\ \A w \in Workspaces :
         /\ barrier[w] # NoBarrier => barrier[w].home # w
         /\ Journaled(w) /\ journal[w].phase \in {"ready", "installed"} => AllMarked(journal[w])

\* Nothing but stages is private to an operation that installs nothing yet.
PrivateKept ==
    /\ \A i \in Ids : i > used => \A x \in Files : private[i][x] = "absent"
    /\ \A w \in Workspaces : Journaled(w) /\ journal[w].phase = "staging" =>
         \A x \in Files : private[journal[w].id][x] \in
           {"absent"} \cup (IF x \in Staged(journal[w]) THEN {"part", "new"} ELSE {})

\* Without edits the files are in one of the two places the operation allows.
InPlace(o) ==
    /\ o.phase \in {"ready", "installed"} =>
         \A x \in Files \ Targets(o) : Where(x) \in o.parts => disk[x] = o.pre[x]
    /\ o.phase = "ready" => \A x \in Targets(o) : ToMove(o, x) \/ Moved(o, x)
    /\ o.phase = "installed" => \A x \in Targets(o) : Moved(o, x)
    /\ o.phase = "finishing" =>
         \A x \in Backups(o) : private[o.id][x] \in {"absent", "part", o.pre[x]}
PlacesKept ==
    edited = {} => \A w \in Workspaces : Journaled(w) => InPlace(journal[w])

\* A flow is whole while no operation on it is installing.
FlowWhole(f) ==
    /\ \A b \in Bridges : Imported[b] = f =>
         /\ disk[Bridge(b)] = "old" => disk[Legacy(f)] # "absent"
         /\ disk[Bridge(b)] = "new" => disk[Package(f)] # "absent"
    /\ edited = {} => disk[Legacy(f)] = "absent" \/ disk[Package(f)] = "absent"
Installing(f) ==
    Journaled(Home[f]) /\ journal[Home[f]].flow = f /\ journal[Home[f]].phase # "finishing"
FlowsKept ==
    /\ \A f \in Flows : Installing(f) \/ FlowWhole(f)
    /\ \A w \in Workspaces :
         Journaled(w) /\ journal[w].phase = "finishing" /\ journal[w].kind = "convert" =>
           disk[Package(journal[w].flow)] # "absent"

StoreTypeOK ==
    /\ disk \in [Files -> Contents \ {"part"}] /\ private \in [Ids -> [Files -> Contents]]
    /\ journal \in [Workspaces -> Intents \cup {NoIntent}]
    /\ barrier \in [Workspaces -> Pointers \cup {NoBarrier}]
    /\ lock \in [Workspaces -> Workers \cup {Nobody}]
    /\ used \in 0..Operations /\ workerCrashes \in 0..WorkerCrashes
    /\ edited \subseteq Files /\ deleted \subseteq Flows /\ conflicted \in BOOLEAN
StoreKept ==
    /\ StoreTypeOK /\ JournalsKept /\ BarriersKept /\ PrivateKept /\ PlacesKept /\ FlowsKept
    /\ NothingDestroyed

LifecycleInv == StoreKept /\ WorkersKept /\ PreparedFinishes
=============================================================================
