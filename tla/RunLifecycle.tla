---------------------------- MODULE RunLifecycle ----------------------------
(***************************************************************************)
(* One run of the execution service: its durable projection, the public    *)
(* commands on it, the launch tasks that own its execution one after the   *)
(* other, and the restart that recovers it.                                *)
(*                                                                         *)
(* A command holds the writer mutex from its load to its commit and is one *)
(* action.  An execution is two tasks: the producer drives the graph and   *)
(* commits checkpoints; the consumer applies what the producer reports to  *)
(* its own copy of the run and persists it in batches, each persist taking *)
(* the writer mutex again.  The graph itself is a nondeterministic choice  *)
(* of what ADK can do next: commit a step, deliver a queued message, wait, *)
(* finish or fail.                                                         *)
(***************************************************************************)
EXTENDS Naturals, Sequences, FiniteSets

CONSTANTS
    Messages,        \* identities of queued messages
    MaxTasks,        \* bound: launches (the start and every claimed resume)
    MaxCheckpoints,  \* bound: the graph's recursion limit, in commits
    MaxRestarts,     \* bound: process restarts
    MaxFaults        \* bound: failures of storage or of the construction of a graph

ASSUME BoundsAssumption ==
    /\ MaxTasks \in Nat \ {0} /\ MaxCheckpoints \in Nat
    /\ MaxRestarts \in Nat /\ MaxFaults \in Nat

Tasks == 1..MaxTasks

VARIABLES
    doc,         \* the durable run projection (runs table and SessionSync head)
    cps,         \* the checkpoint store of the run's own thread, in commit order
    task,        \* launch task -> where it is
    owner,       \* executions[id]: the task that owns the execution, 0 if none
    ex,          \* task -> its execution (consumer and producer)
    services,    \* RunServices objects of the run, in creation order
    current,     \* services[id]: index of the registered object, 0 if none
    closed,      \* ExecutionState.closed
    restarts,    \* history: restarts so far
    faults,      \* history: storage and construction failures so far
    waits,       \* history: wait identities given out
    oldWaits,    \* history: those of the processes that have ended
    answered,    \* history: waits whose answer was accepted
    inputs,      \* history: answers accepted
    incidents    \* history: which of Incidents have happened

vars == <<doc, cps, task, owner, ex, services, current, closed,
          restarts, faults, waits, oldWaits, answered, inputs, incidents>>

commandVars == <<cps, ex, closed, restarts, faults, waits, oldWaits>>

\* Three events that properties set apart: an execution writes its own status
\* over the claim of a launch that is still to run; an execution breaks off with
\* checkpoints its projection never saw; a failure cannot be recorded.
Incidents == {"overwritten claim", "failed execution", "unrecorded failure"}

Statuses == {"running", "waiting", "stopped", "interrupted", "completed", "error"}
WaitKinds == {"none", "inbox", "input", "model_selection"}
NoWait == [id |-> 0, kind |-> "none"]

\* 0 stands for JSON null: no checkpoint, no claim, no input.
NoTask == [st |-> "none", claim |-> 0, resume |-> 0, input |-> 0, target |-> 0]
Gone == [NoTask EXCEPT !.st = "gone"]

NoExecution ==
    [pc |-> "off", prod |-> "off", at |-> 0, held |-> {}, input |-> 0,
     kids |-> FALSE, kidsFailed |-> FALSE, inbox |-> <<>>, stream |-> <<>>, seen |-> 0,
     status |-> "running", wait |-> NoWait, active |-> FALSE,
     claim |-> 0, svc |-> 0, failed |-> FALSE]

Init ==
    /\ doc = [status |-> "running", wait |-> NoWait, checkpoint |-> 0,
              resumeCheckpoint |-> 0, resumeInput |-> 0, resumeClaim |-> 0,
              abort |-> FALSE, active |-> FALSE,
              queue |-> [m \in Messages |-> "absent"]]
    /\ cps = <<>>
    /\ task = [t \in Tasks |-> IF t = 1 THEN [NoTask EXCEPT !.st = "new"] ELSE NoTask]
    /\ owner = 0
    /\ ex = [t \in Tasks |-> NoExecution]
    /\ services = <<>>
    /\ current = 0
    /\ closed = FALSE
    /\ restarts = 0
    /\ faults = 0
    /\ waits = 0
    /\ oldWaits = 0
    /\ answered = {}
    /\ inputs = 0
    /\ incidents = {}

-----------------------------------------------------------------------------
(* Checkpoints.  Each one holds the messages and answers in its state, the *)
(* input applied last and the checkpoint it continues.                     *)

StateConsumed(k) == IF k = 0 THEN {} ELSE cps[k].consumed
StateInputs(k) == IF k = 0 THEN {} ELSE cps[k].inputs

\* consumedMessages of a projection that applied the first k checkpoints: the
\* monotone union of apply_activity.
Consumed(k) == UNION {cps[i].consumed : i \in 1..k}

-----------------------------------------------------------------------------
(* Launching. *)

FreeTask == CHOOSE t \in Tasks : task[t].st = "none" /\ \A u \in 1..(t - 1) : task[u].st # "none"
CanLaunch == \E t \in Tasks : task[t].st = "none"

\* Fault: the claim does not store the answer it continues with.
ClaimedForgettingInput(d, input) ==
    [d EXCEPT !.resumeCheckpoint = d.checkpoint, !.status = "running", !.wait = NoWait,
              !.abort = FALSE, !.resumeClaim = FreeTask]

\* claim_resume: the document that continues d with the given input.
Claimed(d, input) ==
    [d EXCEPT !.resumeInput = input, !.resumeCheckpoint = d.checkpoint,
              !.status = "running", !.wait = NoWait, !.abort = FALSE,
              !.resumeClaim = FreeTask]

\* The rest of claim_resume: commit, drop the services of a stopped run, launch.
ClaimResume(d, input) ==
    /\ CanLaunch
    /\ d.checkpoint # 0
    /\ doc' = Claimed(d, input)
    /\ current' = IF d.status \in {"stopped", "interrupted"} THEN 0 ELSE current
    /\ task' = [task EXCEPT ![FreeTask] =
                  [st |-> "new", claim |-> FreeTask, resume |-> d.checkpoint,
                   input |-> input, target |-> 0]]

-----------------------------------------------------------------------------
(* Public commands, each under the writer mutex.  Any number of them may    *)
(* have been admitted before a shutdown and commit after it: the shutdown   *)
(* waits for their leases, so closed is not a guard here.                   *)

\* No launch of the run is left: what wait_idle waits for.
Quiescent == \A t \in Tasks : task[t].st \in {"none", "gone"}

\* The first answer to the open wait resumes the run; a model choice carries
\* no graph input, a text or a confirmation does.
Answer ==
    LET input == IF doc.wait.kind = "model_selection" THEN 0 ELSE inputs + 1 IN
    /\ doc.status = "waiting"
    /\ ClaimResume(doc, input)
    /\ answered' = answered \union {doc.wait.id}
    /\ inputs' = IF input = 0 THEN inputs ELSE input
    /\ UNCHANGED <<owner, services, incidents>> /\ UNCHANGED commandVars

Pending(d) == {m \in Messages : d.queue[m] = "pending"}
InboxWait(d) == d.status = "waiting" /\ d.wait.kind = "inbox"

\* An idempotent message: it wakes an inbox wait and is otherwise only queued.
Queue(m) ==
    LET d == [doc EXCEPT !.queue[m] = "pending"] IN
    /\ doc.status \notin {"completed", "error"}
    /\ doc.queue[m] = "absent"
    /\ \/ InboxWait(doc) /\ ClaimResume(d, 0)
       \/ ~InboxWait(doc) /\ doc' = d /\ UNCHANGED <<task, current>>
    /\ UNCHANGED <<owner, services, answered, inputs, incidents>> /\ UNCHANGED commandVars

\* Fault: a withdrawal does not ask the services whether a node has the message.
RemoveMessageUnreserved(m) ==
    /\ doc.queue[m] = "pending"
    /\ doc' = [doc EXCEPT !.queue[m] = "cancelled"]
    /\ UNCHANGED <<task, owner, services, current, answered, inputs, incidents>>
    /\ UNCHANGED commandVars

\* A message can be withdrawn while no node has claimed it.
RemoveMessage(m) ==
    /\ doc.queue[m] = "pending"
    /\ current # 0 => m \notin services[current].claimed
    /\ doc' = [doc EXCEPT !.queue[m] = "cancelled"]
    /\ UNCHANGED <<task, owner, services, current, answered, inputs, incidents>>
    /\ UNCHANGED commandVars

\* The durable request comes first, then the token of the registered services.
Cancel ==
    /\ doc.status \in {"running", "waiting"}
    /\ doc' = [doc EXCEPT !.abort = TRUE,
                          !.status = IF @ = "waiting" THEN "stopped" ELSE @]
    /\ services' = IF current = 0 THEN services
                   ELSE [services EXCEPT ![current].cancelled = TRUE]
    /\ UNCHANGED <<task, owner, current, answered, inputs, incidents>> /\ UNCHANGED commandVars

\* An explicit resume replays the stored input; steering text joins the queue.
Resume(steering) ==
    LET d == [doc EXCEPT !.queue = [m \in Messages |->
                IF m \in steering THEN "pending" ELSE doc.queue[m]]] IN
    /\ doc.status \in {"stopped", "interrupted"}
    /\ \A m \in steering : doc.queue[m] = "absent"
    /\ ClaimResume(d, doc.resumeInput)
    /\ UNCHANGED <<owner, services, answered, inputs, incidents>> /\ UNCHANGED commandVars

\* shutdown: no further command, and every registered service is cancelled.
Shutdown ==
    /\ ~closed
    /\ closed' = TRUE
    /\ services' = IF current = 0 THEN services
                   ELSE [services EXCEPT ![current].cancelled = TRUE]
    /\ UNCHANGED <<doc, cps, task, owner, ex, current, restarts, faults, waits, oldWaits, answered, inputs, incidents>>

Command ==
    \/ Answer
    \/ \E m \in Messages : Queue(m) \/ RemoveMessage(m)
    \/ Cancel
    \/ \E S \in SUBSET Messages : Cardinality(S) <= 1 /\ Resume(S)
    \/ Shutdown

-----------------------------------------------------------------------------
(* Launch tasks: become the owner, or offer the resume to the owner. *)

Finished(o) == task[o].st = "gone"
ReceiverGone(o) == Finished(o) \/ ex[o].prod = "ended"

TakeOwnership(t) ==
    /\ task[t].st = "new"
    /\ owner = 0
    /\ owner' = t
    /\ task' = [task EXCEPT ![t].st = "owner"]
    /\ ex' = [ex EXCEPT ![t] = [NoExecution EXCEPT !.pc = "load"]]
    /\ UNCHANGED <<doc, cps, services, current, closed, restarts, faults, waits, oldWaits, answered, inputs, incidents>>

\* The request joins the owner's unbounded channel unless its receiver is gone.
Offer(t) ==
    /\ task[t].st = "new"
    /\ owner # 0
    /\ IF ReceiverGone(owner)
       THEN /\ task' = [task EXCEPT ![t].st = "unaccepted", ![t].target = owner]
            /\ UNCHANGED ex
       ELSE /\ task' = [task EXCEPT ![t].st = "offered", ![t].target = owner]
            /\ ex' = [ex EXCEPT ![owner].inbox = Append(@, t)]
    /\ UNCHANGED <<doc, cps, owner, services, current, closed, restarts, faults, waits,
                   oldWaits, answered, inputs, incidents>>

\* The acknowledgement channel closed without an acceptance.
OfferDropped(t) ==
    /\ task[t].st = "offered"
    /\ ReceiverGone(task[t].target)
    /\ task' = [task EXCEPT ![t].st = "unaccepted"]
    /\ UNCHANGED <<doc, cps, owner, ex, services, current, closed, restarts, faults, waits,
                   oldWaits, answered, inputs, incidents>>

\* Only once the old owner has committed everything is a successor created.
AwaitFinished(t) ==
    /\ task[t].st = "unaccepted"
    /\ Finished(task[t].target)
    /\ task' = [task EXCEPT ![t].st = "new"]
    /\ UNCHANGED <<doc, cps, owner, ex, services, current, closed, restarts, faults, waits,
                   oldWaits, answered, inputs, incidents>>

\* services_for: the registered object while its token is live, else a new one.
\* A resumed run spawns again the launched children that have not ended.
Load(t) ==
    LET reuse == current # 0 /\ ~services[current].cancelled
        s == IF reuse THEN current ELSE Len(services) + 1
        cancelled == doc.abort \/ (closed /\ ~reuse)
    IN
    /\ ex[t].pc = "load"
    /\ current' = s
    /\ services' = IF reuse THEN [services EXCEPT ![s].cancelled = cancelled]
                   ELSE Append(services, [cancelled |-> cancelled, claimed |-> {}])
    /\ \E kids \in IF task[t].resume = 0 THEN {FALSE} ELSE BOOLEAN :
        ex' = [ex EXCEPT ![t] =
                [@ EXCEPT !.pc = "run", !.prod = "run", !.at = task[t].resume, !.kids = kids,
                          !.input = task[t].input, !.seen = doc.checkpoint,
                          !.status = doc.status, !.wait = doc.wait,
                          !.active = doc.active, !.claim = task[t].claim, !.svc = s,
                          !.stream = IF task[t].resume = 0 THEN <<>> ELSE <<"resumed">>]]
    /\ UNCHANGED <<doc, cps, task, owner, closed, restarts, faults, waits, oldWaits, answered, inputs, incidents>>

Fault == faults < MaxFaults /\ faults' = faults + 1

\* launch records a failed execution over the latest run it can read.
Failed ==
    [NoExecution EXCEPT !.pc = "failed", !.prod = "ended", !.seen = doc.checkpoint,
                        !.status = IF closed THEN "interrupted" ELSE "error",
                        !.wait = doc.wait, !.claim = doc.resumeClaim]

\* The run or its services cannot be loaded.
LoadFails(t) ==
    /\ ex[t].pc = "load"
    /\ Fault
    /\ ex' = [ex EXCEPT ![t] = Failed]
    /\ UNCHANGED <<doc, cps, task, owner, services, current, closed, restarts, waits,
                   oldWaits, answered, inputs, incidents>>

\* Building the graph or a storage call fails: the producer is aborted and the
\* children drained before the failure is recorded.
ExecuteFails(t) ==
    /\ ex[t].pc \in {"run", "publish", "wake", "final", "lastWake"}
    /\ services' = [services EXCEPT ![ex[t].svc].cancelled = TRUE]
    /\ ex' = [ex EXCEPT ![t] = Failed]
    /\ Fault
    /\ incidents' = incidents \union {"failed execution"}
    /\ UNCHANGED <<doc, cps, task, owner, current, closed, restarts, waits,
                   oldWaits, answered, inputs>>

-----------------------------------------------------------------------------
(* The producer: what the graph does, one commit or claim at a time. *)

Cancelled(t) == services[ex[t].svc].cancelled
producerVars == <<doc, task, owner, current, closed, restarts, faults, waits, oldWaits, answered, inputs, incidents>>

\* Commit the next checkpoint of t's execution and update its state with f.
Commit(t, f) ==
    LET e == ex[t] IN
    /\ Len(cps) < MaxCheckpoints
    /\ cps' = Append(cps, [from |-> e.at,
                           consumed |-> StateConsumed(e.at) \union e.held,
                           input |-> e.input,
                           inputs |-> StateInputs(e.at) \union ({e.input} \ {0})])
    /\ ex' = [ex EXCEPT ![t] = [f EXCEPT !.at = Len(cps) + 1, !.held = {}, !.input = 0]]

\* A node completes; it may have launched a child flow that keeps running.
ProducerStep(t) ==
    /\ ex[t].prod = "run"
    /\ \E kids \in {ex[t].kids, TRUE} : Commit(t, [ex[t] EXCEPT !.kids = kids])
    /\ UNCHANGED services /\ UNCHANGED producerVars

Claimable(t) == {m \in Pending(doc) : /\ m \notin services[ex[t].svc].claimed
                                      /\ m \notin StateConsumed(ex[t].at)}

\* A steering or inbox node claims a message in memory; the next commit of the
\* graph makes it consumed.
ProducerClaim(t, m) ==
    /\ ex[t].prod = "run" /\ ex[t].held = {}
    /\ ~Cancelled(t)
    /\ m \in Claimable(t)
    /\ services' = [services EXCEPT ![ex[t].svc].claimed = @ \union {m}]
    /\ ex' = [ex EXCEPT ![t].held = {m}]
    /\ UNCHANGED cps /\ UNCHANGED producerVars

\* The inbox finds nothing to deliver, before it commits its wait.
ProducerEmpty(t) ==
    /\ ex[t].prod = "run" /\ ex[t].held = {}
    /\ ~Cancelled(t)
    /\ Claimable(t) = {}
    /\ ex' = [ex EXCEPT ![t].prod = "empty"]
    /\ UNCHANGED <<cps, services>> /\ UNCHANGED producerVars

Park(t, event) ==
    Commit(t, [ex[t] EXCEPT !.prod = "parked", !.stream = Append(@, event)])

\* The graph interrupts: an inbox, an input or a model choice; once the token
\* is cancelled every node stops instead.
ProducerWait(t) ==
    /\ \/ ex[t].prod = "empty" /\ Park(t, "inbox")
       \/ /\ ex[t].prod = "run" /\ ex[t].held = {} /\ ~Cancelled(t)
          /\ \E kind \in {"input", "model_selection"} : Park(t, kind)
       \/ /\ ex[t].prod = "run" /\ ex[t].held = {} /\ Cancelled(t)
          /\ Park(t, "stopped")
    /\ UNCHANGED services /\ UNCHANGED producerVars

ProducerDone(t) ==
    /\ ex[t].prod = "run" /\ ex[t].held = {}
    /\ Commit(t, [ex[t] EXCEPT !.prod = "done"])
    /\ UNCHANGED services /\ UNCHANGED producerVars

\* An error of a node or of the graph (the recursion limit included) cancels
\* the services before it is reported.
ProducerFail(t) ==
    /\ ex[t].prod \in {"run", "empty"}
    /\ services' = [services EXCEPT ![ex[t].svc].cancelled = TRUE]
    /\ ex' = [ex EXCEPT ![t].prod = "draining", ![t].stream = Append(@, "failed")]
    /\ UNCHANGED cps /\ UNCHANGED producerVars

\* The launched children settle, with an error or without.
KidsSettle(t, failed) ==
    /\ ex[t].kids
    /\ ex' = [ex EXCEPT ![t].kids = FALSE, ![t].kidsFailed = @ \/ failed]
    /\ UNCHANGED <<cps, services>> /\ UNCHANGED producerVars

\* Parked on its wait with children alive, the producer prefers a cancelled
\* token to a resume and a resume to the end of the children.
ParkedCancel(t) ==
    /\ ex[t].prod = "parked"
    /\ Cancelled(t)
    /\ ex' = [ex EXCEPT ![t].prod = "draining"]
    /\ UNCHANGED <<cps, services>> /\ UNCHANGED producerVars

Front(t) == Head(ex[t].inbox)

ParkedResume(t) ==
    LET r == Front(t) IN
    /\ ex[t].prod = "parked" /\ ~Cancelled(t)
    /\ ex[t].inbox # <<>>
    /\ task[r].resume = ex[t].at
    /\ ex' = [ex EXCEPT ![t].inbox = Tail(@), ![t].prod = "run",
                        ![t].claim = task[r].claim, ![t].input = task[r].input,
                        ![t].stream = Append(@, "resumed")]
    /\ task' = [task EXCEPT ![r] = Gone]
    /\ UNCHANGED <<doc, cps, owner, services, current, closed, restarts, faults, waits,
                   oldWaits, answered, inputs, incidents>>

\* "Resume checkpoint differs from the active parent frontier".
ParkedResumeRefused(t) ==
    /\ ex[t].prod = "parked" /\ ~Cancelled(t)
    /\ ex[t].inbox # <<>>
    /\ task[Front(t)].resume # ex[t].at
    /\ services' = [services EXCEPT ![ex[t].svc].cancelled = TRUE]
    /\ ex' = [ex EXCEPT ![t].inbox = Tail(@), ![t].prod = "draining",
                        ![t].stream = Append(@, "failed")]
    /\ UNCHANGED cps /\ UNCHANGED producerVars

Drained(t) ==
    /\ ~ex[t].kids
    /\ \/ ex[t].prod = "parked" /\ ~Cancelled(t) /\ ex[t].inbox = <<>>
       \/ ex[t].prod \in {"done", "draining"}

\* The children are drained: the channel of the stream closes, after Done if
\* the graph had finished.
ProducerEnd(t) ==
    /\ Drained(t) /\ ~ex[t].kidsFailed
    /\ ex' = [ex EXCEPT ![t].prod = "ended",
                        ![t].stream = IF ex[t].prod = "done" THEN Append(@, "done") ELSE @]
    /\ UNCHANGED <<cps, services>> /\ UNCHANGED producerVars

\* A failed child turns the drain into the failure of the execution.
ProducerEndFails(t) ==
    /\ Drained(t) /\ ex[t].kidsFailed
    /\ services' = [services EXCEPT ![ex[t].svc].cancelled = TRUE]
    /\ ex' = [ex EXCEPT ![t].prod = "ended", ![t].stream = Append(@, "failed")]
    /\ UNCHANGED cps /\ UNCHANGED producerVars

Producer(t) ==
    \/ ProducerStep(t)
    \/ \E m \in Messages : ProducerClaim(t, m)
    \/ ProducerEmpty(t)
    \/ ProducerWait(t)
    \/ ProducerDone(t)
    \/ ProducerFail(t)
    \/ \E failed \in BOOLEAN : KidsSettle(t, failed)
    \/ ParkedCancel(t)
    \/ ParkedResume(t)
    \/ ParkedResumeRefused(t)
    \/ ProducerEnd(t)
    \/ ProducerEndFails(t)

-----------------------------------------------------------------------------
(* The consumer: its copy of the run, and the writes of that copy. *)

consumerVars == <<cps, owner, services, closed, restarts, faults, oldWaits, answered, inputs, incidents>>

\* persist_batch: observations up to some commit are applied to the latest
\* document; nothing but the checkpoint and what it consumed changes.
Flush(t) ==
    /\ ex[t].pc \in {"run", "publish", "final"}
    /\ \E k \in (doc.checkpoint + 1)..Len(cps) :
          /\ ex[t].seen <= k
          /\ ex' = [ex EXCEPT ![t].seen = k]
          /\ doc' = [doc EXCEPT !.checkpoint = k]
    /\ UNCHANGED <<task, current, waits>> /\ UNCHANGED consumerVars

\* An answer already claims the checkpoint whose wait the execution e reports.
AlreadyClaimed(d, e) ==
    /\ e.status = "waiting" /\ d.status = "running"
    /\ d.resumeClaim # e.claim
    /\ d.wait = NoWait
    /\ d.resumeCheckpoint # 0 /\ d.resumeCheckpoint = e.seen

\* Fault: an abort that raced the wait is forgotten.
MergedOverAbort(d, e) ==
    [d EXCEPT !.status = e.status, !.wait = e.wait, !.checkpoint = e.seen,
              !.active = e.active]

\* persist_event: the execution's copy e merged into the latest document d.
Merged(d, e) ==
    LET claimed == AlreadyClaimed(d, e)
        status == IF claimed THEN "running" ELSE e.status
        applied == d.resumeCheckpoint # 0 /\ e.seen # 0 /\ e.seen # d.resumeCheckpoint
    IN  [d EXCEPT
          !.status = IF d.abort /\ status = "waiting" THEN "stopped" ELSE status,
          !.wait = IF claimed THEN NoWait ELSE e.wait,
          !.checkpoint = e.seen,
          !.active = e.active,
          !.resumeInput = IF applied THEN 0 ELSE @,
          !.resumeCheckpoint = IF applied THEN 0 ELSE @,
          !.queue = [m \in Messages |->
                       IF d.queue[m] = "pending" /\ m \in Consumed(e.seen)
                       THEN "consumed" ELSE d.queue[m]]]

\* The execution e once it reaches pc; nothing is left of a closing one.
After(e, pc) == IF pc = "close" THEN [NoExecution EXCEPT !.pc = pc, !.prod = "ended"]
                ELSE [e EXCEPT !.pc = pc]

ClaimPending == \E u \in Tasks :
    task[u].st \in {"new", "offered", "unaccepted"} /\ task[u].claim = doc.resumeClaim

PersistEvent(t, next) ==
    /\ doc' = Merged(doc, ex[t])
    /\ ex' = [ex EXCEPT ![t] = After(@, next)]
    /\ incidents' = incidents \union
         IF ClaimPending /\ Merged(doc, ex[t]).status # "running"
         THEN {"overwritten claim"} ELSE {}
    /\ UNCHANGED <<task, current, waits, cps, owner, services, closed, restarts,
                   faults, oldWaits, answered, inputs>>

\* wake_queued_input: under the writer, an inbox wait with a message is claimed.
WakeQueuedInput(t, next) ==
    /\ IF InboxWait(doc) /\ Pending(doc) # {} /\ doc.checkpoint # 0
       THEN ClaimResume(doc, 0)
       ELSE UNCHANGED <<doc, task, current>>
    /\ ex' = [ex EXCEPT ![t] = After(@, next)]
    /\ UNCHANGED waits /\ UNCHANGED consumerVars

\* The next event of the graph stream changes the copy.  A wait first consumes
\* the observations through the committed checkpoint, and is published at once
\* while launched children are active.
TakeEvent(t) ==
    LET e == ex[t]
        event == Head(e.stream)
        rest == [e EXCEPT !.stream = Tail(@)]
        wait == [id |-> waits + 1, kind |-> event]
    IN
    /\ e.pc = "run" /\ e.stream # <<>>
    /\ CASE event = "resumed" ->
              /\ ex' = [ex EXCEPT ![t] = [rest EXCEPT !.status = "running", !.wait = NoWait]]
              /\ UNCHANGED waits
         [] event = "done" ->
              /\ ex' = [ex EXCEPT ![t] = [rest EXCEPT !.status = "completed", !.wait = NoWait]]
              /\ UNCHANGED waits
         [] event = "failed" ->
              /\ ex' = [ex EXCEPT ![t] = [rest EXCEPT !.failed = TRUE]]
              /\ UNCHANGED waits
         [] OTHER ->
              /\ ex' = [ex EXCEPT ![t] =
                          [rest EXCEPT !.seen = Len(cps), !.wait = wait,
                             !.status = IF event = "stopped" THEN "stopped" ELSE "waiting",
                             !.active = e.kids,
                             !.pc = IF e.kids THEN "publish" ELSE "run"]]
              /\ waits' = waits + 1
    /\ UNCHANGED <<doc, task, current>> /\ UNCHANGED consumerVars

PublishWait(t) == ex[t].pc = "publish" /\ PersistEvent(t, "wake")

WakePublished(t) == ex[t].pc = "wake" /\ WakeQueuedInput(t, "run")

\* The stream is closed: reconcile the last checkpoint and settle the status
\* from the latest document, which is read without the writer.
StreamClosed(t) ==
    LET e == ex[t]
        failure == IF doc.abort THEN "stopped" ELSE IF closed THEN "interrupted" ELSE "error"
        status == IF e.failed THEN failure ELSE e.status
    IN
    /\ e.pc = "run" /\ e.prod = "ended" /\ e.stream = <<>>
    /\ ex' = [ex EXCEPT ![t] =
                [e EXCEPT !.pc = "final", !.seen = Len(cps), !.active = FALSE,
                   !.status = IF Cancelled(t) /\ doc.abort THEN "stopped"
                              ELSE IF Cancelled(t) /\ closed THEN "interrupted"
                              ELSE status]]
    /\ UNCHANGED <<doc, task, current, waits>> /\ UNCHANGED consumerVars

PersistFinal(t) == ex[t].pc = "final" /\ PersistEvent(t, "lastWake")

WakeFinal(t) == ex[t].pc = "lastWake" /\ WakeQueuedInput(t, "close")

PersistFailure(t) == ex[t].pc = "failed" /\ PersistEvent(t, "close")

\* "Cannot persist run failure": the run stays as it was, without an owner.
PersistFailureFails(t) ==
    /\ ex[t].pc = "failed"
    /\ ex' = [ex EXCEPT ![t] = After(@, "close")]
    /\ Fault
    /\ incidents' = incidents \union {"unrecorded failure"}
    /\ UNCHANGED <<doc, cps, task, owner, services, current, closed, restarts, waits,
                   oldWaits, answered, inputs>>

\* Fault: the entry of the finished owner stays registered.
CloseLeavingOwner(t) ==
    /\ ex[t].pc = "close"
    /\ task' = [task EXCEPT ![t] = Gone]
    /\ ex' = [ex EXCEPT ![t] = NoExecution]
    /\ UNCHANGED <<doc, cps, owner, services, current, closed, restarts, faults, waits, oldWaits,
                   answered, inputs, incidents>>

\* executions.remove, then finished.
Close(t) ==
    /\ ex[t].pc = "close"
    /\ owner' = 0
    /\ task' = [task EXCEPT ![t] = Gone]
    /\ ex' = [ex EXCEPT ![t] = NoExecution]
    /\ UNCHANGED <<doc, cps, services, current, closed, restarts, faults, waits, oldWaits, answered, inputs, incidents>>

Consumer(t) ==
    \/ Flush(t)
    \/ TakeEvent(t)
    \/ PublishWait(t)
    \/ WakePublished(t)
    \/ StreamClosed(t)
    \/ PersistFinal(t)
    \/ WakeFinal(t)
    \/ PersistFailure(t)
    \/ PersistFailureFails(t)
    \/ Close(t)

Launch(t) ==
    \/ TakeOwnership(t)
    \/ Offer(t)
    \/ OfferDropped(t)
    \/ AwaitFinished(t)
    \/ Load(t)
    \/ LoadFails(t)
    \/ ExecuteFails(t)

-----------------------------------------------------------------------------
(* Restart. *)

\* Fault: a run is marked interrupted without looking at its checkpoints.
RecoveredWithoutReplay(d) ==
    [d EXCEPT !.status = IF @ = "running" THEN "interrupted" ELSE @, !.active = FALSE]

\* Fault: only the runs with active children are recovered.
RecoveredIfActive(d) ==
    IF d.active THEN RecoveredWithoutReplay([d EXCEPT !.checkpoint = Len(cps)]) ELSE d

\* recover_interrupted: committed checkpoints are replayed into a run that was
\* executing, whatever its projection had seen.
Recovered(d) ==
    LET frontier == Len(cps)
        applied == d.resumeCheckpoint # 0 /\ frontier # 0 /\ d.resumeCheckpoint # frontier
    IN  IF d.status = "running" \/ d.active
        THEN [d EXCEPT
               !.checkpoint = frontier,
               !.resumeInput = IF applied THEN 0 ELSE @,
               !.resumeCheckpoint = IF applied THEN 0 ELSE @,
               !.queue = [m \in Messages |->
                            IF d.queue[m] = "pending" /\ m \in Consumed(frontier)
                            THEN "consumed" ELSE d.queue[m]],
               !.status = IF @ = "running" THEN "interrupted" ELSE @,
               !.active = FALSE]
        ELSE d

\* The process dies anywhere, or ends its shutdown, and another one opens.
Restart ==
    /\ restarts < MaxRestarts
    /\ restarts' = restarts + 1
    /\ doc' = Recovered(doc)
    /\ task' = [t \in Tasks |-> IF task[t].st = "none" THEN NoTask
                                ELSE Gone]
    /\ owner' = 0
    /\ ex' = [t \in Tasks |-> NoExecution]
    /\ services' = <<>>
    /\ current' = 0
    /\ closed' = FALSE
    /\ oldWaits' = waits
    /\ incidents' = incidents \ {"unrecorded failure"}
    /\ UNCHANGED <<cps, faults, waits, answered, inputs>>

Next ==
    \/ Command
    \/ \E t \in Tasks : Launch(t) \/ Producer(t) \/ Consumer(t)
    \/ Restart

Spec == Init /\ [][Next]_vars

-----------------------------------------------------------------------------
(* Properties. *)

\* No launch was overtaken by the status of another and no execution broke off.
Undisturbed == incidents = {}

StreamEvents == {"resumed", "inbox", "input", "model_selection", "stopped", "done", "failed"}
Waits == [id : Nat, kind : WaitKinds \union {"stopped"}]
MessageStates == {"absent", "pending", "consumed", "cancelled"}

Documents ==
    [status : Statuses, wait : Waits, checkpoint : Nat, resumeCheckpoint : Nat,
     resumeInput : Nat, resumeClaim : 0..MaxTasks, abort : BOOLEAN, active : BOOLEAN,
     queue : [Messages -> MessageStates]]
Checkpoints == [from : Nat, consumed : SUBSET Messages, input : Nat, inputs : SUBSET Nat]
Launches ==
    [st : {"none", "new", "offered", "unaccepted", "owner", "gone"}, claim : 0..MaxTasks,
     resume : Nat, input : Nat, target : 0..MaxTasks]
Executions ==
    [pc : {"off", "load", "run", "publish", "wake", "final", "lastWake", "failed", "close"},
     prod : {"off", "run", "empty", "parked", "done", "draining", "ended"},
     at : Nat, held : SUBSET Messages, input : Nat, kids : BOOLEAN, kidsFailed : BOOLEAN,
     inbox : Seq(Tasks), stream : Seq(StreamEvents), seen : Nat, status : Statuses,
     wait : Waits, active : BOOLEAN, claim : 0..MaxTasks, svc : Nat, failed : BOOLEAN]

Shapes ==
    /\ doc \in Documents
    /\ cps \in Seq(Checkpoints)
    /\ task \in [Tasks -> Launches]
    /\ owner \in 0..MaxTasks
    /\ ex \in [Tasks -> Executions]
    /\ services \in Seq([cancelled : BOOLEAN, claimed : SUBSET Messages])
    /\ closed \in BOOLEAN
    /\ current \in Nat /\ restarts \in Nat /\ faults \in Nat
    /\ waits \in Nat /\ oldWaits \in Nat /\ inputs \in Nat
    /\ answered \in SUBSET Nat /\ incidents \in SUBSET Incidents

\* The shape of every variable, and that every reference between them (a
\* checkpoint, a services object, an input, a wait) names something that exists.
RunTypeOK ==
    /\ Shapes
    /\ doc.wait.id <= waits /\ doc.resumeInput <= inputs
    /\ doc.checkpoint <= Len(cps) /\ doc.resumeCheckpoint <= Len(cps)
    /\ \A k \in 1..Len(cps) :
         cps[k].from < k /\ cps[k].input <= inputs /\ cps[k].inputs \subseteq 1..inputs
    /\ \A t \in Tasks :
         /\ task[t].resume <= Len(cps) /\ task[t].input <= inputs
         /\ task[t].claim \in {0, t}
         /\ ex[t].at <= Len(cps) /\ ex[t].seen <= Len(cps) /\ ex[t].input <= inputs
         /\ ex[t].wait.id <= waits /\ ex[t].svc <= Len(services)
    /\ current <= Len(services)
    /\ answered \subseteq 1..waits /\ oldWaits <= waits

\* Every checkpoint continues the one committed before it: whatever commands,
\* handovers and restarts happen, no two executions continue one checkpoint, so
\* no node of the graph is executed again from an old state.
LinearHistory == Undisturbed => \A k \in 1..Len(cps) : cps[k].from = k - 1

\* A wait that accepted an answer never opens again: neither a late publication
\* of the wait nor the final flush of the execution that parked on it undoes the
\* claim.
AnswerOnce == doc.status = "waiting" => doc.wait.id \notin answered

\* A run recorded as running has a launch that will settle it.  Nothing else
\* would: only a stopped, interrupted or waiting run accepts a command.  Where
\* even the failure could not be recorded, the next start settles the run.
NoOrphan ==
    doc.status = "running" /\ "unrecorded failure" \notin incidents => ~Quiescent

\* Types, and NoOrphan.
RunsAreOwned == RunTypeOK /\ NoOrphan

\* A message accepted while an inbox was deciding to wait is never left behind
\* an idle inbox by the process that accepted it, unless that process could not
\* look at the queue again.
NoLostWakeup ==
    /\ Quiescent /\ InboxWait(doc) /\ doc.wait.id > oldWaits
    /\ "unrecorded failure" \notin incidents
    => Pending(doc) = {}

\* A run that a command can continue names the last committed checkpoint, also
\* after a crash between a commit and its observation.
FrontierSaved ==
    Undisturbed /\ Quiescent /\ doc.status \in {"waiting", "stopped", "interrupted"}
        => doc.checkpoint = Len(cps)

\* An accepted answer is in the graph state or is still stored for the resume
\* that replays it, unless the run has failed.
AnswerNotLost == Undisturbed => \A i \in 1..inputs :
    \/ doc.status = "error"
    \/ doc.resumeInput = i
    \/ i \in StateInputs(Len(cps))

Appliers(i) == {k \in 1..Len(cps) : cps[k].input = i}

\* An accepted answer enters the graph state at one checkpoint only, however
\* often the run is stopped, resumed or recovered around it.
AnswerAppliedOnce == Undisturbed => \A i \in 1..inputs : Cardinality(Appliers(i)) <= 1

\* A queued message enters the graph state at most once, and not at all once its
\* sender was told that it is cancelled.
DeliveredOnce == Undisturbed => \A m \in Messages :
    /\ Cardinality({k \in 1..Len(cps) :
          m \in cps[k].consumed \ StateConsumed(cps[k].from)}) <= 1
    /\ doc.queue[m] = "cancelled" => m \notin Consumed(Len(cps))

\* Every accepted message is delivered or still expected: NoLostWakeup and
\* DeliveredOnce.
MessagesSettled == NoLostWakeup /\ DeliveredOnce

\* An accepted answer continues its run exactly once, from the checkpoint it was
\* given at: LinearHistory, AnswerOnce, AnswerNotLost and AnswerAppliedOnce.
AnswersKept == LinearHistory /\ AnswerOnce /\ AnswerNotLost /\ AnswerAppliedOnce

\* A run whose user asked for a stop is never shown waiting for that user, even
\* when the abort races the publication of the wait.
AbortWins == doc.abort => doc.status # "waiting"

\* Claim of sessions.rs: the final flush of an execution "must preserve an
\* answer already claiming that checkpoint".
AnswerClaimPreserved == \A t \in Tasks :
    /\ task[t].st \in {"new", "offered", "unaccepted"} /\ task[t].input # 0
    /\ task[t].claim = doc.resumeClaim /\ ~doc.abort
    => doc.status = "running"

-----------------------------------------------------------------------------
(* Liveness.  The tasks are spawned on a fair runtime; nodes and children end  *)
(* (their timeouts and the recursion limit bound them); commands are free.    *)

\* Tasks run and a graph that goes on meets its limit, the bound on checkpoints;
\* that a write, a load or a node fails is never relied on.
LaunchRuns(t) ==
    \/ TakeOwnership(t) \/ Offer(t) \/ OfferDropped(t) \/ AwaitFinished(t) \/ Load(t)
ProducerRuns(t) ==
    Producer(t) /\ (ProducerFail(t) => Len(cps) = MaxCheckpoints)
ConsumerRuns(t) == Consumer(t) /\ ~PersistFailureFails(t)

Fairness == \A t \in Tasks :
    /\ WF_vars(LaunchRuns(t)) /\ WF_vars(ProducerRuns(t)) /\ WF_vars(ConsumerRuns(t))

FairSpec == Spec /\ Fairness

\* Every launch ends: an owner settles its run, and a resume is accepted by the
\* owner or becomes the next one.  No handover leaves two tasks waiting for each
\* other.
LaunchesEnd == \A t \in Tasks : task[t].st = "new" ~> task[t].st = "gone"

-----------------------------------------------------------------------------
(* The strengthening under which RunsAreOwned is inductive. *)

PendingTask(u) == task[u].st \in {"new", "offered", "unaccepted"}
Producing(t) == ex[t].prod \in {"run", "empty", "parked", "done", "draining"}

\* One execution at a time: the owner's.
OneOwner ==
    /\ \A t \in Tasks : /\ task[t].st = "owner" <=> owner = t
                        /\ owner = t <=> ex[t].pc # "off"
                        /\ Producing(t) => ex[t].pc \in {"run", "publish", "wake"}
                        /\ ex[t].pc = "load" => ex[t].prod = "off"

\* A resume that can still be accepted waits once, in the channel of its owner.
OffersQueued ==
    \A t \in Tasks :
        /\ ex[t].pc = "off" => ex[t].inbox = <<>> /\ ex[t].prod = "off"
        /\ ex[t].prod # "ended" => \A n \in 1..Len(ex[t].inbox) :
             /\ task[ex[t].inbox[n]].st = "offered" /\ task[ex[t].inbox[n]].target = t
             /\ \A m \in 1..Len(ex[t].inbox) : ex[t].inbox[m] = ex[t].inbox[n] => m = n

\* Tasks are used in order, and a claim is the number of its task.
ClaimsInOrder ==
    /\ \A t \in Tasks : task[t].st = "none" =>
         doc.resumeClaim < t /\ \A u \in Tasks : t < u => task[u].st = "none"
    /\ \A t \in Tasks : task[t].claim <= doc.resumeClaim /\ ex[t].claim <= doc.resumeClaim

\* The projection never returns to an older checkpoint, so a later claim
\* continues a later one.
CheckpointsForward ==
    /\ \A t \in Tasks : task[t].resume <= doc.checkpoint
    /\ \A t, u \in Tasks : task[t].claim < task[u].claim => task[t].resume <= task[u].resume
    /\ \A t \in Tasks : ex[t].pc \in {"run", "publish", "wake", "final", "failed"} =>
         doc.checkpoint <= ex[t].seen

\* An execution that has been given a claim has passed the checkpoints of the
\* earlier ones, when it next takes a resume.
EarlierClaimsPassed ==
    \A o, r \in Tasks :
        Producing(o) /\ task[r].claim < ex[o].claim =>
            /\ task[r].resume <= ex[o].at
            /\ ex[o].prod = "parked" => task[r].resume < ex[o].at

\* The last event of a producer that has stopped says what its run became.
StreamSettles ==
    \A t \in Tasks :
        /\ ex[t].pc \in {"run", "publish", "wake"} /\ ex[t].prod \in {"parked", "draining", "ended"} =>
             IF ex[t].stream = <<>> THEN ex[t].failed \/ ex[t].status # "running"
             ELSE ex[t].stream[Len(ex[t].stream)] # "resumed"
        /\ ex[t].pc \in {"publish", "final", "failed"} => ex[t].status # "running"
        /\ ex[t].pc = "failed" => ex[t].status # "waiting"

\* A wait that is shown, or about to be, has been given an identity.
WaitsNamed ==
    /\ doc.status = "waiting" => doc.wait.id # 0
    /\ \A t \in Tasks : ex[t].status = "waiting" => ex[t].wait.id # 0

\* The claim of a task that executes.
ClaimOf(o) == IF ex[o].pc = "load" THEN task[o].claim ELSE ex[o].claim

\* The claim of a running run is still to be launched or is the one being executed.
ToLaunch(u) == PendingTask(u) /\ task[u].claim = doc.resumeClaim
InExecution(o) ==
    \/ ex[o].pc = "failed"
    \/ /\ ex[o].pc \in {"load", "run", "publish", "wake", "final"}
       /\ ClaimOf(o) = doc.resumeClaim
RunningIsClaimed ==
    doc.status = "running" /\ "unrecorded failure" \notin incidents =>
        \E u \in Tasks : ToLaunch(u) \/ InExecution(u)

RunInv ==
    /\ RunTypeOK /\ OneOwner /\ OffersQueued /\ ClaimsInOrder /\ CheckpointsForward
    /\ EarlierClaimsPassed /\ StreamSettles /\ WaitsNamed /\ RunningIsClaimed
-----------------------------------------------------------------------------
(* The strengthening under which AnswersKept, FrontierSaved and MessagesSettled *)
(* are inductive.  Some of it holds whatever happens: what an execution waits   *)
(* for is what is shown, or has been answered.                                  *)

WaitEvents == (WaitKinds \ {"none"}) \union {"stopped"}
Executing(t) == ex[t].pc \in {"run", "publish", "wake", "final"}
Sent(t) == 1..Len(ex[t].stream)
Resumes(t) == \E n \in Sent(t) : ex[t].stream[n] = "resumed"
Halted(t) == ex[t].prod \in {"parked", "draining", "ended"}

\* An execution that will not go on but through an answer.
Awaits(t) == Executing(t) /\ ex[t].status = "waiting" /\ ~Resumes(t)

\* A wait on its way has a checkpoint, and nothing is committed before a resume.
WaitsCommitted ==
    \A t \in Tasks : \A n \in Sent(t) : ex[t].stream[n] \in WaitEvents =>
        /\ Len(cps) # 0
        /\ Halted(t) \/ \E j \in n..Len(ex[t].stream) : ex[t].stream[j] = "resumed"

\* A stream that nobody reads is empty.
StreamsRead ==
    \A t \in Tasks : ex[t].pc \notin {"run", "publish", "wake"} => ex[t].stream = <<>>

\* The claim of an answered wait is recognized when the execution settles.
AnsweredIsClaimed ==
    \A t \in Tasks : Awaits(t) =>
        /\ ex[t].seen = Len(cps) /\ Halted(t)
        /\ ex[t].wait.id \in answered =>
             /\ doc.status = "running" /\ doc.wait = NoWait
             /\ doc.resumeClaim # ex[t].claim /\ doc.resumeCheckpoint = ex[t].seen
        /\ doc.status = "waiting" /\ doc.wait.id = ex[t].wait.id => doc.checkpoint = ex[t].seen

\* A wait is published under an identity that was never shown.
PublishedAfresh ==
    \A t \in Tasks : ex[t].pc = "publish" =>
        ex[t].wait.id \notin answered \union {0, doc.wait.id}

\* The launch of a new run is alone.
FirstLaunchAlone ==
    \A t \in Tasks : (PendingTask(t) \/ ex[t].pc = "load") /\ task[t].resume = 0 =>
        doc.status = "running" /\ \A u \in Tasks \ {t} : task[u].st = "none"

\* Nobody waits before the first checkpoint.
WaitingHasCheckpoint ==
    /\ doc.status = "waiting" => doc.checkpoint # 0
    /\ \A t \in Tasks : Executing(t) /\ ex[t].status = "waiting" => ex[t].seen # 0

\* An inbox that no execution will look at again has nothing to deliver.
Unattended == owner = 0 \/ ex[owner].pc \in {"load", "close"}
InboxSwept ==
    /\ Unattended /\ InboxWait(doc) /\ doc.wait.id > oldWaits
    /\ "unrecorded failure" \notin incidents
    => Pending(doc) = {}

WaitInv ==
    /\ WaitsCommitted /\ StreamsRead /\ AnsweredIsClaimed /\ PublishedAfresh /\ FirstLaunchAlone
    /\ WaitingHasCheckpoint /\ InboxSwept /\ AnswerOnce

(* The rest holds while no claim is overwritten and no execution breaks off:    *)
(* there is one line of work, and whoever continues it stands at its end.       *)

Calm == incidents \subseteq {"unrecorded failure"}
NonePending == \A u \in Tasks : ~PendingTask(u)
Carrier(u) == PendingTask(u) \/ ex[u].pc = "load"

\* One launch carries the claim of the document to the last checkpoint.
CarrierKept ==
    \A u \in Tasks : Carrier(u) =>
        /\ doc.status = "running" /\ doc.checkpoint = Len(cps)
        /\ task[u].resume = Len(cps) /\ doc.resumeCheckpoint = Len(cps)
        /\ task[u].input = doc.resumeInput
        /\ PendingTask(u) => task[u].claim = doc.resumeClaim
        /\ \A w \in Tasks : Carrier(w) => w = u

\* The graph goes on from the last checkpoint, and only while the run is running.
Working(t) == ex[t].prod \in {"run", "empty"}
FrontKept ==
    \A t \in Tasks :
        /\ Working(t) \/ ex[t].prod = "parked" => ex[t].at = Len(cps)
        /\ Working(t) \/ ex[t].prod = "done" => doc.status = "running" /\ NonePending
        /\ Working(t) =>
             /\ ex[t].input # 0 => doc.resumeCheckpoint = Len(cps)
             /\ doc.resumeCheckpoint = Len(cps) => ex[t].input = doc.resumeInput

\* A wait that is still to be shown leaves the run running and unclaimed, and is
\* the only one.
Unshown(t) == ex[t].pc = "publish" \/ \E n \in Sent(t) : ex[t].stream[n] \in WaitEvents
ShownKept ==
    \A t \in Tasks :
        /\ Unshown(t) => /\ doc.status = "running" /\ NonePending /\ Halted(t)
                         /\ doc.resumeCheckpoint # Len(cps)
        /\ \A n, j \in Sent(t) :
             ex[t].stream[n] \in WaitEvents /\ ex[t].stream[j] \in WaitEvents => n = j
        /\ ex[t].pc = "publish" => \A n \in Sent(t) : ex[t].stream[n] \notin WaitEvents
        /\ Awaits(t) /\ NonePending => doc.resumeCheckpoint # Len(cps)
        /\ ex[t].pc \in {"publish", "final", "failed"} => ex[t].seen = Len(cps)

\* A run that does not run names the last checkpoint, and an answer it still
\* stores has not been applied.
RestKept ==
    /\ doc.status # "running" =>
         /\ doc.checkpoint = Len(cps)
         /\ doc.resumeInput # 0 => doc.resumeCheckpoint = Len(cps)
    /\ doc.status = "waiting" => doc.resumeInput = 0
    /\ doc.resumeCheckpoint = 0 => doc.resumeInput = 0

\* The history is one line; an answer is stored until a checkpoint applies it.
HistoryKept ==
    /\ \A k \in 1..Len(cps) : cps[k].from = k - 1
    /\ \A i \in 1..inputs : doc.resumeInput = i \/ i \in StateInputs(Len(cps))
    /\ doc.resumeInput # 0 =>
         IF doc.resumeCheckpoint = Len(cps) THEN Appliers(doc.resumeInput) = {}
         ELSE doc.resumeInput \in StateInputs(Len(cps))
    /\ \A j, k \in 1..Len(cps) : cps[j].input = cps[k].input => j = k \/ cps[j].input = 0

LineInv == Calm => CarrierKept /\ FrontKept /\ ShownKept /\ RestKept /\ HistoryKept

(* Messages, on the same line.                                                  *)

\* A stopped run's services are cancelled, and those of a working one registered.
ServicesKept ==
    \A t \in Tasks : Producing(t) =>
        /\ ex[t].svc \in 1..Len(services)
        /\ Cancelled(t) \/ (current = ex[t].svc /\ ~doc.abort
                            /\ doc.status \notin {"stopped", "interrupted"}
                            /\ ex[t].status # "stopped"
                            /\ \A n \in Sent(t) : ex[t].stream[n] # "stopped")
        /\ Working(t) => current = ex[t].svc
        /\ ex[t].pc = "publish" => ex[t].status \in {"waiting", "stopped"}

\* What a node holds is claimed, and cannot be withdrawn.
HeldKept ==
    \A t \in Tasks :
        /\ ex[t].prod = "run" => \A m \in ex[t].held :
             m \in services[ex[t].svc].claimed /\ doc.queue[m] \in {"pending", "consumed"}
        /\ ex[t].prod \in {"off", "empty", "parked"} => ex[t].held = {}

\* What is consumed is known to the document, or claimed until it is.
QueueKept ==
    \A m \in Consumed(Len(cps)) :
        /\ doc.queue[m] \in {"pending", "consumed"}
        /\ doc.queue[m] = "pending" =>
             /\ current # 0 /\ m \in services[current].claimed
             /\ doc.status = "running" /\ \A u \in Tasks : ~Carrier(u)

\* What a state has consumed stays consumed.
ConsumedKept ==
    \A i, j \in 0..Len(cps) : i <= j => StateConsumed(i) \subseteq StateConsumed(j)

MessageInv == Calm => ServicesKept /\ HeldKept /\ QueueKept /\ ConsumedKept
=============================================================================
