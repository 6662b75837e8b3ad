----------------------------- MODULE EventSink -----------------------------
(***************************************************************************)
(* The bounded channel that carries a run's observations from its nodes to *)
(* the consumer that persists them (zf-runtime/src/event_sink.rs).         *)
(*                                                                         *)
(* Durable events wait for room in a bounded queue.  Tool previews share   *)
(* one slot, where a newer one replaces an older one.  Every compiled node *)
(* owns a terminal slot: an attempt that was admitted holds the slot's     *)
(* only permit, and its completion can always be left there, without       *)
(* waiting, even by a future that is being dropped.  An attempt that finds *)
(* the slot taken is rejected, and the rejections are counted in one event.*)
(*                                                                         *)
(* An event is the order number it was given.  The mutex `enqueue` covers  *)
(* the choice of the number and the placing of the event, and the          *)
(* receiver's choice of the smallest number, so each is one step.          *)
(***************************************************************************)
EXTENDS Integers, Sequences

CONSTANTS
    Nodes,      \* compiled nodes, one terminal slot each
    Capacity,   \* places of the queue (64 in the code)
    Events,     \* bound: order numbers
    Attempts    \* bound: rejected attempts of a node

ASSUME SinkAssumption ==
    /\ Capacity \in Nat \ {0} /\ Events \in Nat /\ Attempts \in Nat

None == -1

VARIABLES
    next,       \* Core.next
    queue,      \* the mpsc queue: order numbers
    promised,   \* places of the queue reserved by senders
    preview,    \* Core.preview: an order number or None
    slot,       \* per node: "free", "held" by an attempt, or "pending"
    terminal,   \* per node: the pending terminal's order, or None
    rejected,   \* per node: the rejection event's order, or None
    attempts,   \* per node: rejections counted in that event
    buffer,     \* EventReceiver.buffer: an order number or None
    recv,       \* the receiver's place in recv
    wake,       \* its registration with Notify: "no", "consumed", "notified"
    token,      \* the notification stored in Notify
    sinks,      \* an EventSink exists
    kept,       \* history: durable events and terminals accepted
    got,        \* history: the events the receiver returned
    last,       \* history: the newest of them
    refused,    \* history, per node: attempts rejected
    told        \* history, per node: rejections reported

vars == <<next, queue, promised, preview, slot, terminal, rejected, attempts,
          buffer, recv, wake, token, sinks, kept, got, last, refused, told>>
history == <<kept, got, last, refused, told>>
receiver == <<buffer, recv>>

Init ==
    /\ next = 0 /\ queue = <<>> /\ promised = 0 /\ preview = None
    /\ slot = [n \in Nodes |-> "free"]
    /\ terminal = [n \in Nodes |-> None]
    /\ rejected = [n \in Nodes |-> None]
    /\ attempts = [n \in Nodes |-> 0]
    /\ buffer = None /\ recv = "idle" /\ wake = "no" /\ token = FALSE
    /\ sinks = TRUE
    /\ kept = {} /\ got = {} /\ last = None
    /\ refused = [n \in Nodes |-> 0] /\ told = [n \in Nodes |-> 0]

Open == recv # "dropped"
Registered == recv \in {"try", "check", "both", "closed"}

-----------------------------------------------------------------------------
(***************************************************************************)
(* tokio's Notify with one waiter: notify_one completes a registered       *)
(* waiter that has not been completed yet, and is stored otherwise.        *)
(***************************************************************************)
NotifyOne ==
    IF Registered /\ wake = "no"
    THEN wake' = "notified" /\ UNCHANGED token
    ELSE token' = TRUE /\ UNCHANGED wake

\* The registration is dropped; a notification it has not used is passed on.
Unregister ==
    /\ wake' = "no"
    /\ token' = (token \/ wake = "notified")

\* tokio's mpsc: a place that is neither filled nor promised.
HasRoom == Len(queue) + promised < Capacity

\* Receiver::is_closed: every EventSink is gone (or the receiver closed it).
Closed == ~sinks

-----------------------------------------------------------------------------
(***************************************************************************)
(* The sending side.                                                       *)
(***************************************************************************)

\* EventSink::send waits for a place ...
SendReserve ==
    /\ sinks /\ Open /\ HasRoom
    /\ promised' = promised + 1
    /\ UNCHANGED <<next, queue, preview, slot, terminal, rejected, attempts,
                   receiver, wake, token, sinks, history>>

\* ... and takes its number and the place under the lock.
SendEnqueue ==
    /\ promised > 0 /\ next < Events
    /\ promised' = promised - 1
    /\ queue' = Append(queue, next)
    /\ next' = next + 1
    /\ kept' = kept \cup {next}
    /\ UNCHANGED <<preview, slot, terminal, rejected, attempts, receiver,
                   wake, token, sinks, got, last, refused, told>>

\* EventSink::emit replaces the preview.
Emit ==
    /\ sinks /\ Open /\ next < Events
    /\ preview' = next
    /\ next' = next + 1
    /\ NotifyOne
    /\ UNCHANGED <<queue, promised, slot, terminal, rejected, attempts,
                   receiver, sinks, history>>

\* TerminalSlot::try_reserve succeeds: an attempt is admitted.  The observed
\* node owns a sink beside its slot.
Admit(n) ==
    /\ sinks /\ slot[n] = "free" /\ Open
    /\ slot' = [slot EXCEPT ![n] = "held"]
    /\ UNCHANGED <<next, queue, promised, preview, terminal, rejected, attempts,
                   receiver, wake, token, sinks, history>>

\* TerminalSlot::try_reserve fails and TerminalSlot::reject counts the attempt.
Reject(n) ==
    /\ sinks /\ slot[n] # "free" /\ Open /\ refused[n] < Attempts
    /\ IF rejected[n] # None
       THEN UNCHANGED <<rejected, next>>
       ELSE /\ next < Events
            /\ rejected' = [rejected EXCEPT ![n] = next]
            /\ next' = next + 1
    /\ attempts' = [attempts EXCEPT ![n] = @ + 1]
    /\ refused' = [refused EXCEPT ![n] = @ + 1]
    /\ NotifyOne
    /\ UNCHANGED <<queue, promised, preview, slot, terminal, receiver, sinks,
                   kept, got, last, told>>

\* TerminalPermit::send with room in the queue: the permit returns at once.
Complete(n) ==
    /\ slot[n] = "held" /\ Open /\ next < Events
    /\ sinks /\ HasRoom
    /\ queue' = Append(queue, next)
    /\ next' = next + 1
    /\ kept' = kept \cup {next}
    /\ slot' = [slot EXCEPT ![n] = "free"]
    /\ NotifyOne
    /\ UNCHANGED <<promised, preview, terminal, rejected, attempts, receiver,
                   sinks, got, last, refused, told>>

\* Fault: the permit returns although its terminal is still in the slot.
CompleteInSlotFreed(n) ==
    /\ slot[n] = "held" /\ Open /\ next < Events
    /\ ~(sinks /\ HasRoom)
    /\ terminal' = [terminal EXCEPT ![n] = next]
    /\ next' = next + 1
    /\ kept' = kept \cup {next}
    /\ slot' = [slot EXCEPT ![n] = "free"]
    /\ NotifyOne
    /\ UNCHANGED <<queue, promised, preview, rejected, attempts, receiver,
                   sinks, got, last, refused, told>>

\* Fault: the terminal is left in the slot and the receiver is not told.
CompleteInSlotSilently(n) ==
    /\ slot[n] = "held" /\ Open /\ next < Events
    /\ ~(sinks /\ HasRoom)
    /\ terminal' = [terminal EXCEPT ![n] = next]
    /\ next' = next + 1
    /\ kept' = kept \cup {next}
    /\ slot' = [slot EXCEPT ![n] = "pending"]
    /\ UNCHANGED <<queue, promised, preview, rejected, attempts, receiver,
                   wake, token, sinks, got, last, refused, told>>

\* TerminalPermit::send without room: the terminal keeps the permit.
CompleteInSlot(n) ==
    /\ slot[n] = "held" /\ Open /\ next < Events
    /\ ~(sinks /\ HasRoom)
    /\ terminal' = [terminal EXCEPT ![n] = next]
    /\ next' = next + 1
    /\ kept' = kept \cup {next}
    /\ slot' = [slot EXCEPT ![n] = "pending"]
    /\ NotifyOne
    /\ UNCHANGED <<queue, promised, preview, rejected, attempts, receiver,
                   sinks, got, last, refused, told>>

\* A permit is dropped without a completion (TerminalPermit's Drop).
PermitDropped(n) ==
    /\ slot[n] = "held"
    /\ slot' = [slot EXCEPT ![n] = "free"]
    /\ NotifyOne
    /\ UNCHANGED <<next, queue, promised, preview, terminal, rejected, attempts,
                   receiver, sinks, history>>

\* The last EventSink is dropped; nobody is notified.
SinksDropped ==
    /\ sinks /\ promised = 0
    /\ sinks' = FALSE
    /\ UNCHANGED <<next, queue, promised, preview, slot, terminal, rejected,
                   attempts, receiver, wake, token, history>>

-----------------------------------------------------------------------------
(***************************************************************************)
(* The receiving side: EventReceiver::recv and try_recv.                   *)
(***************************************************************************)

\* recv registers with Notify before it looks at the queues.
RecvEnable ==
    /\ recv = "idle"
    /\ recv' = "try"
    /\ wake' = (IF token THEN "consumed" ELSE "no")
    /\ token' = FALSE
    /\ UNCHANGED <<next, queue, promised, preview, slot, terminal, rejected,
                   attempts, buffer, sinks, history>>

\* The head of the queue moves to the buffer when that is empty.
Buffered == IF buffer = None /\ queue # <<>> THEN Head(queue) ELSE buffer
Shifted == IF buffer = None /\ queue # <<>> THEN Tail(queue) ELSE queue

\* Everything try_recv chooses from.
Candidates ==
    ({Buffered, preview} \cup {terminal[n] : n \in Nodes}
        \cup {rejected[n] : n \in Nodes}) \ {None}

\* Fault: the queue is served before the slots.
FirstFromQueue(o) ==
    /\ o \in Candidates
    /\ Buffered # None => o = Buffered
    /\ Buffered = None => \A c \in Candidates : o <= c

\* The smallest order number.
First(o) ==
    /\ o \in Candidates
    /\ \A c \in Candidates : o <= c

\* try_recv returns an event.
TryRecv(o) ==
    /\ recv = "try" /\ First(o)
    /\ recv' = "idle"
    /\ Unregister
    /\ queue' = Shifted
    /\ buffer' = (IF Buffered = o THEN None ELSE Buffered)
    /\ preview' = (IF preview = o THEN None ELSE preview)
    /\ slot' = [n \in Nodes |-> IF terminal[n] = o THEN "free" ELSE slot[n]]
    /\ terminal' = [n \in Nodes |-> IF terminal[n] = o THEN None ELSE terminal[n]]
    /\ rejected' = [n \in Nodes |-> IF rejected[n] = o THEN None ELSE rejected[n]]
    /\ attempts' = [n \in Nodes |-> IF rejected[n] = o THEN 0 ELSE attempts[n]]
    /\ told' = [n \in Nodes |-> IF rejected[n] = o THEN told[n] + attempts[n]
                                ELSE told[n]]
    /\ got' = got \cup {o}
    /\ last' = o
    /\ UNCHANGED <<next, promised, sinks, kept, refused>>

\* try_recv finds nothing, the channel is closed and no attempt is active.
TryRecvEnded ==
    /\ recv = "try" /\ Candidates = {}
    /\ Closed /\ \A n \in Nodes : slot[n] = "free"
    /\ recv' = "ended"
    /\ Unregister
    /\ UNCHANGED <<next, queue, promised, preview, slot, terminal, rejected,
                   attempts, buffer, sinks, history>>

\* try_recv finds nothing yet.
TryRecvEmpty ==
    /\ recv = "try" /\ Candidates = {}
    /\ ~(Closed /\ \A n \in Nodes : slot[n] = "free")
    /\ recv' = "check"
    /\ UNCHANGED <<next, queue, promised, preview, slot, terminal, rejected,
                   attempts, buffer, wake, token, sinks, history>>

\* recv asks again whether the channel is closed, and waits accordingly.
RecvPark ==
    /\ recv = "check"
    /\ recv' = IF Closed THEN "closed" ELSE "both"
    /\ UNCHANGED <<next, queue, promised, preview, slot, terminal, rejected,
                   attempts, buffer, wake, token, sinks, history>>

\* Fault: while the queue is open, recv waits for the queue alone.
RecvNotifiedWhenClosed ==
    /\ recv = "closed" /\ wake # "no"
    /\ recv' = "idle" /\ wake' = "no"
    /\ UNCHANGED <<next, queue, promised, preview, slot, terminal, rejected,
                   attempts, buffer, token, sinks, history>>

\* The select! of recv: a notification, an event of the queue, or its end.
RecvNotified ==
    /\ recv \in {"both", "closed"} /\ wake # "no"
    /\ recv' = "idle" /\ wake' = "no"
    /\ UNCHANGED <<next, queue, promised, preview, slot, terminal, rejected,
                   attempts, buffer, token, sinks, history>>

RecvQueued ==
    /\ recv = "both" /\ (queue # <<>> \/ Closed)
    /\ recv' = "idle"
    /\ Unregister
    /\ buffer' = (IF queue # <<>> THEN Head(queue) ELSE None)
    /\ queue' = (IF queue # <<>> THEN Tail(queue) ELSE queue)
    /\ UNCHANGED <<next, promised, preview, slot, terminal, rejected, attempts,
                   sinks, history>>

\* The future of recv is dropped, at one of its waits, by its caller's select!.
RecvCancelled ==
    /\ recv \in {"both", "closed"}
    /\ recv' = "idle"
    /\ Unregister
    /\ UNCHANGED <<next, queue, promised, preview, slot, terminal, rejected,
                   attempts, buffer, sinks, history>>

\* EventReceiver's Drop: the slots are emptied and closed.
ReceiverDropped ==
    /\ recv \in {"idle", "ended"}
    /\ recv' = "dropped"
    /\ terminal' = [n \in Nodes |-> None]
    /\ rejected' = [n \in Nodes |-> None]
    /\ slot' = [n \in Nodes |-> IF slot[n] = "pending" THEN "free" ELSE slot[n]]
    /\ UNCHANGED <<next, queue, promised, preview, attempts, buffer, wake, token,
                   sinks, history>>

Receive ==
    \/ RecvEnable \/ (\E o \in 0..(Events - 1) : TryRecv(o)) \/ TryRecvEnded \/ TryRecvEmpty
    \/ RecvPark \/ RecvNotified \/ RecvQueued

Next ==
    \/ SendReserve \/ SendEnqueue \/ Emit \/ SinksDropped
    \/ \E n \in Nodes :
         Admit(n) \/ Reject(n) \/ Complete(n) \/ CompleteInSlot(n) \/ PermitDropped(n)
    \/ RecvEnable
    \/ \E o \in 0..(Events - 1) : TryRecv(o)
    \/ TryRecvEnded \/ TryRecvEmpty \/ RecvPark \/ RecvNotified \/ RecvQueued
    \/ RecvCancelled \/ ReceiverDropped

Spec == Init /\ [][Next]_vars

(***************************************************************************)
(* The receiver is a task of a fair executor whose owner calls recv again  *)
(* after every event and every cancelled call.                             *)
(***************************************************************************)
FairSpec == Spec /\ WF_vars(Receive)

-----------------------------------------------------------------------------
Orders == 0..(Events - 1)
MaybeOrders == Orders \cup {None}

QueueTypeOK ==
    /\ next \in 0..Events /\ queue \in Seq(Orders)
    /\ promised \in Nat /\ Len(queue) + promised <= Capacity

PlacesTypeOK ==
    /\ preview \in MaybeOrders /\ buffer \in MaybeOrders /\ last \in MaybeOrders
    /\ slot \in [Nodes -> {"free", "held", "pending"}]
    /\ terminal \in [Nodes -> MaybeOrders]
    /\ rejected \in [Nodes -> MaybeOrders]

CountsTypeOK ==
    attempts \in [Nodes -> Nat] /\ refused \in [Nodes -> Nat] /\ told \in [Nodes -> Nat]

ReceiverTypeOK ==
    /\ recv \in {"idle", "try", "check", "both", "closed", "ended", "dropped"}
    /\ wake \in {"no", "consumed", "notified"}
    /\ token \in BOOLEAN /\ sinks \in BOOLEAN

\* Every variable has its type, and the queue its bound.
SinkTypeOK ==
    /\ QueueTypeOK /\ PlacesTypeOK /\ CountsTypeOK /\ ReceiverTypeOK
    /\ kept \subseteq Orders /\ got \subseteq Orders

\* The places where an accepted event can be.
InQueue(o) == \E i \in DOMAIN queue : queue[i] = o
InSlot(o) == \E n \in Nodes : terminal[n] = o
Waiting(o) == InQueue(o) \/ buffer = o \/ InSlot(o)

\* A durable event and the completion of an admitted attempt are never lost:
\* while the receiver lives, each is waiting or was returned.
NothingLost == Open => \A o \in kept : o \in got \/ Waiting(o)

\* The receiver returns events in the order in which they were accepted,
\* although they come from four places.
InOrder == [][got' # got => last' > last]_vars

\* Every rejected attempt is reported, once.
RejectionsCounted ==
    Open => \A n \in Nodes : refused[n] = told[n] + attempts[n]

\* What was accepted is delivered or waits, what was refused is reported: no
\* event and no attempt disappears in the channel.
AllAccounted == NothingLost /\ RejectionsCounted

\* A receiver that waits and will not be woken has no terminal, no rejection
\* and no preview to return: no completion is missed between try_recv and
\* the wait.
GuardsWakeReceiver ==
    recv \in {"check", "both", "closed"} /\ wake = "no" =>
      /\ preview = None
      /\ \A n \in Nodes : terminal[n] = None /\ rejected[n] = None

\* A node's slot is taken for as long as its terminal waits in it, so that a
\* second completion can never overwrite the first.
SlotGuardsTerminal ==
    \A n \in Nodes : (terminal[n] # None) <=> (slot[n] = "pending")

\* Everything that waits is newer than what was returned, ...
QueueOrdered ==
    /\ \A i \in DOMAIN queue : last < queue[i] /\ queue[i] < next
    /\ \A i, j \in DOMAIN queue : i < j => queue[i] < queue[j]

BufferOrdered ==
    buffer # None => /\ last < buffer /\ buffer < next
                     /\ \A i \in DOMAIN queue : buffer < queue[i]

SlotsOrdered ==
    /\ preview # None => last < preview /\ preview < next
    /\ \A n \in Nodes : terminal[n] # None => last < terminal[n] /\ terminal[n] < next
    /\ \A n \in Nodes : rejected[n] # None => last < rejected[n] /\ rejected[n] < next

\* ... the queue is sorted, and the buffer precedes it.
OrderInv == last < next /\ QueueOrdered /\ BufferOrdered /\ SlotsOrdered

\* A receiver that waits has returned what it had buffered.
BufferInv == recv \in {"check", "both", "closed"} => buffer = None

\* The inductive invariant.
SinkInv ==
    /\ SinkTypeOK /\ OrderInv /\ BufferInv /\ SlotGuardsTerminal
    /\ NothingLost /\ RejectionsCounted /\ GuardsWakeReceiver

\* A completion left in a slot is returned, and frees the slot for the next
\* attempt of the node, unless the receiver goes away.
SlotsAreEmptied == \A n \in Nodes : slot[n] = "pending" ~> slot[n] # "pending"

\* Once every sink is gone and no attempt is active, recv returns None (the
\* tests of event_sink.rs; the event log of an export waits for it).
EndIsReported ==
    (~sinks /\ \A n \in Nodes : slot[n] = "free") ~> recv \in {"ended", "dropped"}
=============================================================================
