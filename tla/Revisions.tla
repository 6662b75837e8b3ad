----------------------------- MODULE Revisions -----------------------------
(***************************************************************************)
(* Which definition a running step executes (zf-runtime/src/revisions.rs,   *)
(* and the loop of service.rs that rebuilds the native executor).           *)
(*                                                                          *)
(* Accepted definitions are published as batches that move a run's head.    *)
(* Each node of a super-step selects a definition: the first selection of a *)
(* step is pinned, an incompatible head is passed over, and a head of       *)
(* another shape stops the graph at a boundary where its executor is built  *)
(* again.  Publications arrive at any time, and the service may die between *)
(* any two writes.                                                          *)
(*                                                                          *)
(* A definition is its shape (what the native executor compiles) and an     *)
(* identity; a frontier is the set of nodes a shape runs in one super-step. *)
(***************************************************************************)
EXTENDS Naturals, FiniteSets

CONSTANTS
    Defs,       \* definitions of one flow
    Shape,      \* the native structure of each
    Sequential, \* shapes that run one node at a time
    Frontier,   \* the nodes of a super-step, by shape
    Prepared,   \* definitions with a model that waits for a prepared context
    MaxStep,    \* bound: super-steps
    MaxBatches, \* bound: publications
    MaxCrashes, \* bound: deaths of the service
    None

Shapes == {Shape[d] : d \in Defs}
Nodes == UNION {Frontier[s] : s \in Shapes}
Steps == 0 .. MaxStep

\* The values of the records that may be absent.
Execs == [base : Defs, todo : SUBSET Nodes, pc : {"select", "activate", "run", "interrupted"},
          node : Nodes \cup {None}, def : Defs \cup {None}, rebuilt : BOOLEAN]
Actives == [step : Steps, def : Defs]
Requests == [def : Defs, node : Nodes]

ASSUME RevisionsAssumption ==
    /\ Sequential \subseteq Shapes /\ Prepared \subseteq Defs /\ MaxStep \in Nat
    /\ None \notin Defs \cup Nodes
    /\ None \notin Execs /\ None \notin Actives /\ None \notin Requests

VARIABLES
    head,       \* revision-heads
    doc,        \* the definition of the run's document
    graphed,    \* whether the run has a runtime graph
    batches,    \* publications: identity to definition
    applied,   \* identities whose batch is in the database
    pin,        \* revision-steps
    graphPin,   \* runtime-graph-steps
    active,     \* revision-active
    boundary,   \* revision-boundaries
    ckpt,       \* the last checkpoint: step, pending nodes, their shape
    busy,       \* what the thread's state holds: tool calls, a prepared context
    exec,       \* the native executor of the run, or None
    crashes,
    ran,        \* definitions the nodes of each step were run with
    moved,      \* a publication between a boundary's request and the next selection
    torn        \* a crash between a step's pin and the active record

stored == <<head, applied, pin, graphPin, active, boundary, ckpt>>
revisions == <<stored, doc, graphed, batches, busy, exec, crashes, ran, moved, torn>>

-----------------------------------------------------------------------------
(* Compatibility                                                             *)

\* compatibility: the same structure is adopted in place, another one where
\* both run a single node at a time, at a boundary.
Compatibility(before, after) ==
    CASE Shape[before] = Shape[after] -> "live"
      [] Shape[before] # Shape[after]
         /\ Shape[before] \in Sequential /\ Shape[after] \in Sequential -> "boundary"
      [] OTHER -> "incompatible"

CanPublish(before, after) == Compatibility(before, after) # "incompatible"

\* The node is still there in the definition.
HasNode(d, n) == n \in Frontier[Shape[d]]

-----------------------------------------------------------------------------
RevisionsInit ==
    /\ doc \in Defs /\ graphed \in BOOLEAN
    /\ head = None
    /\ batches = << >> /\ applied = {}
    /\ pin = [s \in Steps |-> None] /\ graphPin = [s \in Steps |-> None]
    /\ active = None
    /\ boundary = [s \in Steps |-> None]
    /\ ckpt = [step |-> 0, nodes |-> Frontier[Shape[doc]], shape |-> Shape[doc], wait |-> FALSE]
    /\ busy \in {"none", "calls", "prepared"}
    /\ exec = None
    /\ crashes = 0
    /\ ran = [s \in Steps |-> {}]
    /\ moved = FALSE /\ torn = FALSE

-----------------------------------------------------------------------------
(* Publications                                                              *)

\* revision_publications::publish, one transaction: a batch whose receipt is
\* there changes nothing, any other moves the head.
Apply(id, d) ==
    IF id \in applied THEN UNCHANGED <<head, applied>>
    ELSE head' = d /\ applied' = applied \cup {id}

\* publish_batch_impl validates against the run's own definition first.
Publish ==
    /\ Cardinality(DOMAIN batches) < MaxBatches
    /\ \E d \in Defs :
         /\ CanPublish(doc, d)
         /\ LET id == Cardinality(DOMAIN batches) + 1 IN
            /\ batches' = [i \in DOMAIN batches \cup {id} |-> IF i = id THEN d ELSE batches[i]]
            /\ Apply(id, d)
    /\ moved' = (moved \/ (exec # None /\ (exec.rebuilt \/ exec.pc = "interrupted")))
    /\ UNCHANGED <<doc, graphed, pin, graphPin, active, boundary, ckpt, busy,
                   exec, crashes, ran, torn>>

\* A recovery applies the batch of an old journal again.
Replay ==
    /\ \E id \in DOMAIN batches : Apply(id, batches[id])
    /\ UNCHANGED <<doc, graphed, batches, pin, graphPin, active, boundary, ckpt,
                   busy, exec, crashes, ran, moved, torn>>

-----------------------------------------------------------------------------
(* The executor                                                              *)

\* checkpoint_definition: what was selected at the checkpoint's step, or before.
CheckpointDefinition ==
    CASE pin[ckpt.step] # None -> pin[ckpt.step]
      [] pin[ckpt.step] = None /\ active # None /\ active.step <= ckpt.step -> active.def
      [] OTHER -> doc

\* RevisionRuntime::new claims a head where none was published.
Claim(d) == head' = IF head = None THEN d ELSE head

\* A launch, after the run was started, resumed or found by recovery.
Launch ==
    /\ exec = None /\ ckpt.step <= MaxStep
    /\ Claim(CheckpointDefinition)
    /\ exec' = [base |-> CheckpointDefinition, todo |-> ckpt.nodes, pc |-> "select",
                node |-> None, def |-> None, rebuilt |-> FALSE]
    /\ ckpt' = [ckpt EXCEPT !.wait = FALSE]
    /\ moved' = FALSE
    /\ UNCHANGED <<doc, graphed, batches, applied, pin, graphPin, active, boundary,
                   busy, crashes, ran, torn>>

Step == ckpt.step

\* A step that was selected before, by another node or before a crash.
SelectPinned(n) ==
    /\ exec # None /\ exec.pc = "select" /\ n \in exec.todo
    /\ pin[Step] # None
    /\ exec' = [exec EXCEPT !.pc = "run", !.node = n, !.def = pin[Step]]
    /\ UNCHANGED <<stored, doc, graphed, batches, busy, crashes, ran, moved, torn>>

\* latest_runtime_graph: the plan, with the definition of every flow's head.
LatestGraph == head

\* pin_runtime_graph: the first node of a super-step captures the plan.
PinGraph ==
    /\ exec # None /\ exec.pc = "select" /\ exec.todo # {}
    /\ pin[Step] = None /\ graphed /\ graphPin[Step] = None
    /\ graphPin' = [graphPin EXCEPT ![Step] = LatestGraph]
    /\ UNCHANGED <<head, applied, pin, active, boundary, ckpt, doc, graphed, batches,
                   busy, exec, crashes, ran, moved, torn>>

\* A node is about to choose the definition of its step.
Choosing(n) ==
    /\ exec # None /\ exec.pc = "select" /\ n \in exec.todo
    /\ graphed => graphPin[Step] # None

\* The captured plan's definition, or without a runtime graph the head itself.
Candidate == IF graphed THEN graphPin[Step] ELSE head

Fallback == IF active # None THEN active.def ELSE exec.base

\* Pending tool calls and an unconsumed preparation hold another definition off.
HeldOff(c) == /\ c # Fallback
              /\ busy = "calls" \/ (busy = "prepared" /\ c \in Prepared)

\* The definition a node runs when its step is selected now.
Chosen(n) ==
    LET c == Candidate IN
    IF HeldOff(c) \/ Compatibility(exec.base, c) # "live" THEN Fallback ELSE c

AtBoundary(n) ==
    LET c == Candidate IN
    ~HeldOff(c) /\ Compatibility(exec.base, c) = "boundary" /\ HasNode(c, n)

SelectLatest(n) ==
    /\ Choosing(n) /\ ~AtBoundary(n)
    /\ pin' = [pin EXCEPT ![Step] = Chosen(n)]
    /\ exec' = [exec EXCEPT !.pc = "activate", !.node = n, !.def = Chosen(n),
                            !.rebuilt = FALSE]
    /\ UNCHANGED <<head, applied, graphPin, active, boundary, ckpt, doc, graphed, batches,
                   busy, crashes, ran, moved, torn>>

\* The choice is claimed for the step; the selection mutex keeps the other
\* nodes of this executor out, so the claim is this node's.
Select(n) ==
    /\ Choosing(n) /\ pin[Step] = None /\ ~AtBoundary(n)
    /\ pin' = [pin EXCEPT ![Step] = Chosen(n)]
    /\ exec' = [exec EXCEPT !.pc = "activate", !.node = n, !.def = Chosen(n),
                            !.rebuilt = FALSE]
    /\ UNCHANGED <<head, applied, graphPin, active, boundary, ckpt, doc, graphed, batches,
                   busy, crashes, ran, moved, torn>>

\* revision-active follows, unless a later step is already recorded there.
Activate ==
    /\ exec # None /\ exec.pc = "activate"
    /\ active' = IF active = None \/ active.step <= Step
                 THEN [step |-> Step, def |-> exec.def] ELSE active
    /\ exec' = [exec EXCEPT !.pc = "run"]
    /\ UNCHANGED <<head, applied, pin, graphPin, boundary, ckpt, doc, graphed, batches,
                   busy, crashes, ran, moved, torn>>

\* A head of another shape: the request is recorded and the node interrupts.
SelectBoundary(n) ==
    /\ Choosing(n) /\ pin[Step] = None /\ AtBoundary(n)
    /\ boundary' = [boundary EXCEPT ![Step] = [def |-> Candidate, node |-> n]]
    /\ exec' = [exec EXCEPT !.pc = "interrupted", !.node = n, !.def = None]
    /\ UNCHANGED <<head, applied, pin, graphPin, active, ckpt, doc, graphed, batches, busy,
                   crashes, ran, moved, torn>>

\* RevisionNode::execute runs the node of the selected definition.
RunNode ==
    /\ exec # None /\ exec.pc = "run"
    /\ ran' = [ran EXCEPT ![Step] = @ \cup {exec.def}]
    /\ \/ exec' = [exec EXCEPT !.pc = "select", !.todo = @ \ {exec.node}, !.def = None]
       \/ exec' = [exec EXCEPT !.pc = "interrupted"]     \* the node asks the user
    /\ UNCHANGED <<stored, doc, graphed, batches, busy, crashes, moved, torn>>

\* The super-step is complete: its checkpoint holds the next frontier.
Commit ==
    /\ exec # None /\ exec.pc = "select" /\ exec.todo = {}
    /\ LET shape == Shape[exec.base] IN
       /\ ckpt' = [step |-> Step + 1, nodes |-> Frontier[shape], shape |-> shape, wait |-> FALSE]
       /\ exec' = IF Step = MaxStep THEN None ELSE [exec EXCEPT !.todo = Frontier[shape]]
    /\ busy' \in {"none", "calls", "prepared"}
    /\ UNCHANGED <<head, applied, pin, graphPin, active, boundary, doc, graphed,
                   batches, crashes, ran, moved, torn>>

LoadBoundaryKept == boundary[Step]

\* load_boundary: a pinned step has no boundary any more.
LoadBoundary == IF pin[Step] # None THEN None ELSE boundary[Step]

\* The interrupt's checkpoint is committed.  A boundary rebuilds the executor
\* around its definition; anything else is a wait for the user.
Interrupt ==
    /\ exec # None /\ exec.pc = "interrupted"
    /\ LET b == LoadBoundary IN
       IF b = None \/ b.def = exec.base
       THEN /\ ckpt' = [ckpt EXCEPT !.nodes = exec.todo, !.wait = TRUE]
            /\ exec' = None
            /\ UNCHANGED head
       ELSE IF exec.todo = {b.node} /\ Compatibility(exec.base, b.def) = "boundary"
       THEN /\ exec' = [base |-> b.def, todo |-> exec.todo, pc |-> "select",
                        node |-> None, def |-> None, rebuilt |-> TRUE]
            /\ ckpt' = [ckpt EXCEPT !.nodes = exec.todo]
            /\ Claim(b.def)
       ELSE exec' = None /\ UNCHANGED <<ckpt, head>>
    /\ UNCHANGED <<applied, pin, graphPin, active, boundary, doc, graphed, batches,
                   busy, crashes, ran, moved, torn>>

Crash ==
    /\ exec # None /\ crashes < MaxCrashes
    /\ exec' = None
    /\ crashes' = crashes + 1
    /\ torn' = (torn \/ exec.pc = "activate")
    /\ UNCHANGED <<stored, doc, graphed, batches, busy, ran, moved>>

RevisionsNext ==
    \/ Publish \/ Replay \/ Launch \/ PinGraph \/ Activate \/ RunNode \/ Commit \/ Interrupt \/ Crash
    \/ \E n \in Nodes :
         SelectPinned(n) \/ Select(n) \/ SelectBoundary(n)

RevisionsSpec == RevisionsInit /\ [][RevisionsNext]_revisions

-----------------------------------------------------------------------------
(* Properties                                                                *)

\* However publications, parallel nodes, crashes and waits interleave, all the
\* nodes of one super-step, those that run again included, run one definition.
StepFixed == \A s \in Steps : Cardinality(ran[s]) <= 1

\* The definition of a node has the structure its native executor was compiled
\* with, unless a publication arrived between a rebuild and the next selection
\* or a crash separated a pin from the active record.
FitsExecutor ==
    exec # None /\ exec.pc = "run" =>
        Shape[exec.def] = Shape[exec.base] \/ moved \/ torn

\* What a pending interrupt asks of the user is never taken for a boundary: an
\* interrupt of a node that ran ends in a wait.
WaitShownStep ==
    exec # None /\ exec.pc = "interrupted" /\ exec.def # None
      => exec' = exec \/ exec' = None

\* A super-step runs one definition, and one its executor was compiled for.
StepsFit == StepFixed /\ FitsExecutor
-----------------------------------------------------------------------------
(* What StepsFit rests on                                                    *)

Checkpoints == [step : 0 .. MaxStep + 1, nodes : SUBSET Nodes, shape : Shapes, wait : BOOLEAN]

RevisionsTypeOK ==
    /\ head \in Defs \cup {None} /\ doc \in Defs /\ graphed \in BOOLEAN
    /\ pin \in [Steps -> Defs \cup {None}] /\ graphPin \in [Steps -> Defs \cup {None}]
    /\ active \in Actives \cup {None} /\ boundary \in [Steps -> Requests \cup {None}]
    /\ ckpt \in Checkpoints /\ exec \in Execs \cup {None} /\ DOMAIN ran = Steps
    /\ exec # None => ckpt.step \in Steps /\ head # None

\* Every batch has its receipt: a recovery moves no head.
BatchesKept == DOMAIN batches \subseteq applied

\* What ran was pinned, and nothing is pinned ahead of the checkpoint.
PinsKept ==
    /\ \A s \in Steps : \A d \in ran[s] : d = pin[s] /\ d # None
    /\ \A s \in Steps : s > ckpt.step => pin[s] = None
    /\ active # None => active.step <= ckpt.step

\* Between steps the active record is the definition of the last one.
Activating == exec # None /\ exec.pc = "activate"
ActiveKept ==
    ckpt.step \in Steps /\ pin[ckpt.step] # None /\ ~torn /\ ~Activating =>
      active # None /\ active.def = pin[ckpt.step]

ExecKept ==
    exec # None =>
      /\ exec.pc \in {"activate", "run"} => exec.def = pin[Step] /\ exec.def # None
      /\ exec.pc = "interrupted" /\ exec.def # None => pin[Step] # None
      /\ exec.rebuilt => pin[Step] = None /\ exec.todo # {}

\* A candidate that waits for its executor, or has got it.
Adopted(d) ==
    /\ graphed => graphPin[Step] # None
    /\ Candidate = d /\ ~HeldOff(d)

\* An executor runs the shape of its step, or else of the step before, until a
\* boundary gives it the shape of the head.
ShapeKept ==
    exec # None /\ ~moved /\ ~torn =>
      /\ pin[Step] # None => Shape[pin[Step]] = Shape[exec.base]
      /\ pin[Step] = None /\ ~exec.rebuilt /\ active # None =>
           Shape[active.def] = Shape[exec.base]
      /\ pin[Step] = None /\ exec.rebuilt => exec.pc = "select" /\ Adopted(exec.base)
      /\ pin[Step] = None /\ exec.pc = "interrupted" =>
           boundary[Step] # None /\ Adopted(boundary[Step].def)

RevisionsInv == RevisionsTypeOK /\ BatchesKept /\ PinsKept /\ ActiveKept /\ ExecKept /\ ShapeKept

=============================================================================
