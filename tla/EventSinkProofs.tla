-------------------------- MODULE EventSinkProofs --------------------------
(***************************************************************************)
(* The observation channel for every number of nodes, every capacity and   *)
(* every number of events: SinkInv is inductive, accepted events are never *)
(* lost, and they are returned in the order of their acceptance.           *)
(***************************************************************************)
EXTENDS EventSink, TLAPS

\* Orders are naturals, and None is none of them.
LEMMA OrdersFacts ==
    /\ Orders \subseteq Nat /\ None = -1 /\ None \notin Orders
    /\ MaybeOrders \subseteq Int /\ MaybeOrders = Orders \cup {None}
    /\ next \in 0..Events /\ next < Events => next \in Orders /\ next + 1 \in 0..Events
  BY SinkAssumption DEF Orders, MaybeOrders, None

\* Appending to a sequence.
LEMMA AppendFacts ==
    ASSUME NEW S, NEW q \in Seq(S), NEW e \in S
    PROVE  /\ Append(q, e) \in Seq(S)
           /\ Len(Append(q, e)) = Len(q) + 1
           /\ DOMAIN q = 1..Len(q) /\ Len(q) \in Nat
           /\ DOMAIN Append(q, e) = 1..(Len(q) + 1)
           /\ \A i \in 1..Len(q) : Append(q, e)[i] = q[i]
           /\ Append(q, e)[Len(q) + 1] = e
  OBVIOUS

\* Removing the head of a sequence.
LEMMA TailFacts ==
    ASSUME NEW S, NEW q \in Seq(S), q # <<>>
    PROVE  /\ Tail(q) \in Seq(S) /\ Head(q) \in S
           /\ Len(q) \in Nat \ {0} /\ Len(Tail(q)) = Len(q) - 1
           /\ DOMAIN q = 1..Len(q)
           /\ DOMAIN Tail(q) = 1..(Len(q) - 1)
           /\ Head(q) = q[1]
           /\ \A i \in 1..(Len(q) - 1) : Tail(q)[i] = q[i + 1]
  OBVIOUS

\* A notification keeps the types and wakes a receiver that waits.
LEMMA NotifyFacts ==
    ASSUME ReceiverTypeOK, NotifyOne
    PROVE  /\ wake' \in {"no", "consumed", "notified"} /\ token' \in BOOLEAN
           /\ Registered => wake' # "no"
  BY DEF ReceiverTypeOK, NotifyOne

\* So does the end of a registration.
LEMMA UnregisterFacts ==
    ASSUME ReceiverTypeOK, Unregister
    PROVE  wake' = "no" /\ token' \in BOOLEAN
  BY DEF ReceiverTypeOK, Unregister

\* A try_recv that finds nothing has looked everywhere.
LEMMA NoCandidates ==
    ASSUME SinkTypeOK, Candidates = {}
    PROVE  /\ buffer = None /\ preview = None
           /\ \A n \in Nodes : terminal[n] = None /\ rejected[n] = None
<1>1. Buffered = None /\ preview = None
  BY DEF Candidates
<1>2. \A n \in Nodes : terminal[n] = None /\ rejected[n] = None
  BY DEF Candidates
<1>3. queue # <<>> => Head(queue) \in Orders
  BY TailFacts DEF SinkTypeOK, QueueTypeOK
<1>4. buffer = None
  BY <1>1, <1>3, OrdersFacts DEF Buffered
<1> QED
  BY <1>1, <1>2, <1>4

\* What waits is a number.
LEMMA IntegerPlaces ==
    ASSUME SinkTypeOK
    PROVE  /\ next \in Nat /\ last \in Int /\ buffer \in Int /\ preview \in Int
           /\ \A n \in Nodes : terminal[n] \in Int /\ rejected[n] \in Int
           /\ \A i \in DOMAIN queue : queue[i] \in Int
<1>1. next \in Nat
  BY DEF SinkTypeOK, QueueTypeOK
<1>2. /\ last \in Int /\ buffer \in Int /\ preview \in Int
      /\ \A n \in Nodes : terminal[n] \in Int /\ rejected[n] \in Int
  BY OrdersFacts DEF SinkTypeOK, PlacesTypeOK
<1>3. \A i \in DOMAIN queue : queue[i] \in Orders
  BY DEF SinkTypeOK, QueueTypeOK
<1> QED
  BY <1>1, <1>2, <1>3, OrdersFacts

\* The invariant holds initially.
LEMMA SinkInit == Init => SinkInv
<1> SUFFICES ASSUME Init PROVE SinkInv
  OBVIOUS
<1>1. SinkTypeOK
  <2>1. QueueTypeOK
    BY SinkAssumption DEF Init, QueueTypeOK
  <2>2. PlacesTypeOK
    BY DEF Init, PlacesTypeOK, MaybeOrders
  <2>3. CountsTypeOK /\ ReceiverTypeOK /\ kept \subseteq Orders /\ got \subseteq Orders
    BY DEF Init, CountsTypeOK, ReceiverTypeOK
  <2> QED
    BY <2>1, <2>2, <2>3 DEF SinkTypeOK
<1>2. OrderInv
  BY OrdersFacts DEF Init, OrderInv, QueueOrdered, BufferOrdered, SlotsOrdered
<1>3. BufferInv /\ SlotGuardsTerminal /\ NothingLost /\ RejectionsCounted /\ GuardsWakeReceiver
  BY DEF Init, BufferInv, SlotGuardsTerminal, NothingLost, RejectionsCounted, GuardsWakeReceiver
<1> QED
  BY <1>1, <1>2, <1>3 DEF SinkInv

\* A sender is promised a place.
LEMMA SendReserveStep ==
    ASSUME SinkInv, SendReserve
    PROVE  SinkInv'
<1> USE DEF SendReserve, history, receiver
<1>a. SinkTypeOK /\ QueueTypeOK /\ PlacesTypeOK /\ CountsTypeOK /\ ReceiverTypeOK
  BY DEF SinkInv, SinkTypeOK
<1>1. SinkTypeOK'
  <2>1. QueueTypeOK'
    BY <1>a, SinkAssumption DEF QueueTypeOK, HasRoom
  <2>2. PlacesTypeOK'
    BY <1>a, OrdersFacts DEF QueueTypeOK, PlacesTypeOK
  <2>3. CountsTypeOK'
    BY <1>a DEF CountsTypeOK
  <2>4. ReceiverTypeOK'
    BY <1>a DEF ReceiverTypeOK
  <2>5. (kept \subseteq Orders /\ got \subseteq Orders)'
    BY <1>a, OrdersFacts DEF SinkTypeOK, QueueTypeOK
  <2> QED
    BY <2>1, <2>2, <2>3, <2>4, <2>5 DEF SinkTypeOK
<1>2. OrderInv'
  BY <1>a, OrdersFacts DEF SinkInv, OrderInv, QueueOrdered, BufferOrdered, SlotsOrdered, QueueTypeOK, PlacesTypeOK
<1>3. NothingLost'
  BY <1>a, OrdersFacts DEF SinkInv, NothingLost, Open, Waiting, InQueue, InSlot, SlotGuardsTerminal, PlacesTypeOK
<1>4. (BufferInv /\ SlotGuardsTerminal)'
  BY <1>a, OrdersFacts DEF SinkInv, BufferInv, SlotGuardsTerminal, PlacesTypeOK, QueueTypeOK
<1>5. RejectionsCounted'
  BY <1>a DEF SinkInv, RejectionsCounted, Open, CountsTypeOK
<1>6. GuardsWakeReceiver'
  BY <1>a DEF SinkInv, GuardsWakeReceiver, Registered, PlacesTypeOK
<1> QED
  BY <1>1, <1>2, <1>3, <1>4, <1>5, <1>6 DEF SinkInv

\* A durable event is the newest of all.
LEMMA SendEnqueueStep ==
    ASSUME SinkInv, SendEnqueue
    PROVE  SinkInv'
<1> USE DEF SendEnqueue, history, receiver
<1>a. SinkTypeOK /\ QueueTypeOK /\ PlacesTypeOK /\ CountsTypeOK /\ ReceiverTypeOK
  BY DEF SinkInv, SinkTypeOK
<1>b. next \in Orders /\ next + 1 \in 0..Events /\ queue \in Seq(Orders)
  BY <1>a, OrdersFacts DEF QueueTypeOK
<1>c. /\ queue' \in Seq(Orders) /\ Len(queue') = Len(queue) + 1
      /\ DOMAIN queue = 1..Len(queue) /\ Len(queue) \in Nat
      /\ DOMAIN queue' = 1..(Len(queue) + 1)
      /\ \A i \in 1..Len(queue) : queue'[i] = queue[i]
      /\ queue'[Len(queue) + 1] = next
  BY <1>b, AppendFacts
<1>1. SinkTypeOK'
  <2>1. QueueTypeOK'
    BY <1>a, <1>b, <1>c, SinkAssumption DEF QueueTypeOK, HasRoom
  <2>2. PlacesTypeOK'
    BY <1>a, <1>b, <1>c, OrdersFacts DEF QueueTypeOK, PlacesTypeOK
  <2>3. CountsTypeOK'
    BY <1>a, <1>b, <1>c DEF CountsTypeOK
  <2>4. ReceiverTypeOK'
    BY <1>a, <1>b, <1>c DEF ReceiverTypeOK
  <2>5. (kept \subseteq Orders /\ got \subseteq Orders)'
    BY <1>a, <1>b, <1>c, OrdersFacts DEF SinkTypeOK, QueueTypeOK
  <2> QED
    BY <2>1, <2>2, <2>3, <2>4, <2>5 DEF SinkTypeOK
<1>2. OrderInv'
  <2>1. /\ next \in Nat /\ last \in Int /\ buffer \in Int /\ preview \in Int
        /\ \A m \in Nodes : terminal[m] \in Int /\ rejected[m] \in Int
        /\ \A i \in DOMAIN queue : queue[i] \in Int
    BY <1>a, IntegerPlaces
  <2>2. last < next /\ QueueOrdered /\ BufferOrdered /\ SlotsOrdered
    BY DEF SinkInv, OrderInv
  <2>3. last' = last /\ next' \in Nat /\ next <= next' /\ last' < next'
    BY <2>1, <2>2
  <2>4. QueueOrdered'
    BY <1>b, <1>c, <2>1, <2>2, <2>3 DEF QueueOrdered
  <2>5. BufferOrdered'
    BY <1>b, <1>c, <2>1, <2>2, <2>3 DEF BufferOrdered
  <2>6. SlotsOrdered'
    BY <1>a, <2>1, <2>2, <2>3 DEF SlotsOrdered, PlacesTypeOK
  <2> QED
    BY <2>3, <2>4, <2>5, <2>6 DEF OrderInv
<1>3. NothingLost'
  BY <1>a, <1>b, <1>c DEF SinkInv, NothingLost, Open, Waiting, InQueue, InSlot, SlotGuardsTerminal, PlacesTypeOK
<1>4. (BufferInv /\ SlotGuardsTerminal)'
  BY <1>a, <1>b, <1>c, OrdersFacts DEF SinkInv, BufferInv, SlotGuardsTerminal, PlacesTypeOK, QueueTypeOK
<1>5. RejectionsCounted'
  BY <1>a, <1>b, <1>c DEF SinkInv, RejectionsCounted, Open, CountsTypeOK
<1>6. GuardsWakeReceiver'
  BY <1>a, <1>b, <1>c DEF SinkInv, GuardsWakeReceiver, Registered, PlacesTypeOK
<1> QED
  BY <1>1, <1>2, <1>3, <1>4, <1>5, <1>6 DEF SinkInv

\* A preview is the newest event, and wakes the receiver.
LEMMA EmitStep ==
    ASSUME SinkInv, Emit
    PROVE  SinkInv'
<1> USE DEF Emit, history, receiver
<1>a. SinkTypeOK /\ QueueTypeOK /\ PlacesTypeOK /\ CountsTypeOK /\ ReceiverTypeOK
  BY DEF SinkInv, SinkTypeOK
<1>d. /\ wake' \in {"no", "consumed", "notified"} /\ token' \in BOOLEAN
      /\ Registered => wake' # "no"
  BY <1>a, NotifyFacts
<1>1. SinkTypeOK'
  <2>1. QueueTypeOK'
    BY <1>a, <1>d, SinkAssumption DEF QueueTypeOK, HasRoom
  <2>2. PlacesTypeOK'
    BY <1>a, <1>d, OrdersFacts DEF QueueTypeOK, PlacesTypeOK
  <2>3. CountsTypeOK'
    BY <1>a, <1>d DEF CountsTypeOK
  <2>4. ReceiverTypeOK'
    BY <1>a, <1>d DEF ReceiverTypeOK
  <2>5. (kept \subseteq Orders /\ got \subseteq Orders)'
    BY <1>a, <1>d, OrdersFacts DEF SinkTypeOK, QueueTypeOK
  <2> QED
    BY <2>1, <2>2, <2>3, <2>4, <2>5 DEF SinkTypeOK
<1>2. OrderInv'
  <2>1. /\ next \in Nat /\ last \in Int /\ buffer \in Int /\ preview \in Int
        /\ \A m \in Nodes : terminal[m] \in Int /\ rejected[m] \in Int
        /\ \A i \in DOMAIN queue : queue[i] \in Int
    BY <1>a, IntegerPlaces
  <2>2. last < next /\ QueueOrdered /\ BufferOrdered /\ SlotsOrdered
    BY DEF SinkInv, OrderInv
  <2>3. last' = last /\ next' \in Nat /\ next <= next' /\ last' < next'
    BY <2>1, <2>2
  <2>4. QueueOrdered'
    BY <2>1, <2>2, <2>3 DEF QueueOrdered
  <2>5. BufferOrdered'
    BY <2>1, <2>2, <2>3 DEF BufferOrdered
  <2>6. SlotsOrdered'
    BY <1>a, <2>1, <2>2, <2>3 DEF SlotsOrdered, PlacesTypeOK
  <2> QED
    BY <2>3, <2>4, <2>5, <2>6 DEF OrderInv
<1>3. NothingLost'
  BY <1>a, <1>d, OrdersFacts DEF SinkInv, NothingLost, Open, Waiting, InQueue, InSlot, SlotGuardsTerminal, PlacesTypeOK
<1>4. (BufferInv /\ SlotGuardsTerminal)'
  BY <1>a, <1>d, OrdersFacts DEF SinkInv, BufferInv, SlotGuardsTerminal, PlacesTypeOK, QueueTypeOK
<1>5. RejectionsCounted'
  BY <1>a, <1>d DEF SinkInv, RejectionsCounted, Open, CountsTypeOK
<1>6. GuardsWakeReceiver'
  BY <1>a, <1>d DEF SinkInv, GuardsWakeReceiver, Registered, PlacesTypeOK
<1> QED
  BY <1>1, <1>2, <1>3, <1>4, <1>5, <1>6 DEF SinkInv

\* An attempt takes the free slot of its node.
LEMMA AdmitStep ==
    ASSUME SinkInv, NEW n \in Nodes, Admit(n)
    PROVE  SinkInv'
<1> USE DEF Admit, history, receiver
<1>a. SinkTypeOK /\ QueueTypeOK /\ PlacesTypeOK /\ CountsTypeOK /\ ReceiverTypeOK
  BY DEF SinkInv, SinkTypeOK
<1>1. SinkTypeOK'
  <2>1. QueueTypeOK'
    BY <1>a, SinkAssumption DEF QueueTypeOK, HasRoom
  <2>2. PlacesTypeOK'
    BY <1>a, OrdersFacts DEF QueueTypeOK, PlacesTypeOK
  <2>3. CountsTypeOK'
    BY <1>a DEF CountsTypeOK
  <2>4. ReceiverTypeOK'
    BY <1>a DEF ReceiverTypeOK
  <2>5. (kept \subseteq Orders /\ got \subseteq Orders)'
    BY <1>a, OrdersFacts DEF SinkTypeOK, QueueTypeOK
  <2> QED
    BY <2>1, <2>2, <2>3, <2>4, <2>5 DEF SinkTypeOK
<1>2. OrderInv'
  BY <1>a, OrdersFacts DEF SinkInv, OrderInv, QueueOrdered, BufferOrdered, SlotsOrdered, QueueTypeOK, PlacesTypeOK
<1>3. NothingLost'
  BY <1>a, OrdersFacts DEF SinkInv, NothingLost, Open, Waiting, InQueue, InSlot, SlotGuardsTerminal, PlacesTypeOK
<1>4. (BufferInv /\ SlotGuardsTerminal)'
  BY <1>a, OrdersFacts DEF SinkInv, BufferInv, SlotGuardsTerminal, PlacesTypeOK, QueueTypeOK
<1>5. RejectionsCounted'
  BY <1>a DEF SinkInv, RejectionsCounted, Open, CountsTypeOK
<1>6. GuardsWakeReceiver'
  BY <1>a DEF SinkInv, GuardsWakeReceiver, Registered, PlacesTypeOK
<1> QED
  BY <1>1, <1>2, <1>3, <1>4, <1>5, <1>6 DEF SinkInv

\* A rejected attempt is counted, and wakes the receiver.
LEMMA RejectStep ==
    ASSUME SinkInv, NEW n \in Nodes, Reject(n)
    PROVE  SinkInv'
<1> USE DEF Reject, history, receiver
<1>a. SinkTypeOK /\ QueueTypeOK /\ PlacesTypeOK /\ CountsTypeOK /\ ReceiverTypeOK
  BY DEF SinkInv, SinkTypeOK
<1>d. /\ wake' \in {"no", "consumed", "notified"} /\ token' \in BOOLEAN
      /\ Registered => wake' # "no"
  BY <1>a, NotifyFacts
<1>1. SinkTypeOK'
  <2>1. QueueTypeOK'
    BY <1>a, <1>d, SinkAssumption DEF QueueTypeOK, HasRoom
  <2>2. PlacesTypeOK'
    BY <1>a, <1>d, OrdersFacts DEF QueueTypeOK, PlacesTypeOK
  <2>3. CountsTypeOK'
    BY <1>a, <1>d DEF CountsTypeOK
  <2>4. ReceiverTypeOK'
    BY <1>a, <1>d DEF ReceiverTypeOK
  <2>5. (kept \subseteq Orders /\ got \subseteq Orders)'
    BY <1>a, <1>d, OrdersFacts DEF SinkTypeOK, QueueTypeOK
  <2> QED
    BY <2>1, <2>2, <2>3, <2>4, <2>5 DEF SinkTypeOK
<1>2. OrderInv'
  <2>1. /\ next \in Nat /\ last \in Int /\ buffer \in Int /\ preview \in Int
        /\ \A m \in Nodes : terminal[m] \in Int /\ rejected[m] \in Int
        /\ \A i \in DOMAIN queue : queue[i] \in Int
    BY <1>a, IntegerPlaces
  <2>2. last < next /\ QueueOrdered /\ BufferOrdered /\ SlotsOrdered
    BY DEF SinkInv, OrderInv
  <2>3. last' = last /\ next' \in Nat /\ next <= next' /\ last' < next'
    BY <2>1, <2>2
  <2>4. QueueOrdered'
    BY <2>1, <2>2, <2>3 DEF QueueOrdered
  <2>5. BufferOrdered'
    BY <2>1, <2>2, <2>3 DEF BufferOrdered
  <2>6. SlotsOrdered'
    BY <1>a, <2>1, <2>2, <2>3 DEF SlotsOrdered, PlacesTypeOK
  <2> QED
    BY <2>3, <2>4, <2>5, <2>6 DEF OrderInv
<1>3. NothingLost'
  BY <1>a, <1>d, OrdersFacts DEF SinkInv, NothingLost, Open, Waiting, InQueue, InSlot, SlotGuardsTerminal, PlacesTypeOK
<1>4. (BufferInv /\ SlotGuardsTerminal)'
  BY <1>a, <1>d, OrdersFacts DEF SinkInv, BufferInv, SlotGuardsTerminal, PlacesTypeOK, QueueTypeOK
<1>5. RejectionsCounted'
  BY <1>a, <1>d DEF SinkInv, RejectionsCounted, Open, CountsTypeOK
<1>6. GuardsWakeReceiver'
  BY <1>a, <1>d DEF SinkInv, GuardsWakeReceiver, Registered, PlacesTypeOK
<1> QED
  BY <1>1, <1>2, <1>3, <1>4, <1>5, <1>6 DEF SinkInv

\* A completion that finds room is the newest event.
LEMMA CompleteStep ==
    ASSUME SinkInv, NEW n \in Nodes, Complete(n)
    PROVE  SinkInv'
<1> USE DEF Complete, history, receiver
<1>a. SinkTypeOK /\ QueueTypeOK /\ PlacesTypeOK /\ CountsTypeOK /\ ReceiverTypeOK
  BY DEF SinkInv, SinkTypeOK
<1>b. next \in Orders /\ next + 1 \in 0..Events /\ queue \in Seq(Orders)
  BY <1>a, OrdersFacts DEF QueueTypeOK
<1>c. /\ queue' \in Seq(Orders) /\ Len(queue') = Len(queue) + 1
      /\ DOMAIN queue = 1..Len(queue) /\ Len(queue) \in Nat
      /\ DOMAIN queue' = 1..(Len(queue) + 1)
      /\ \A i \in 1..Len(queue) : queue'[i] = queue[i]
      /\ queue'[Len(queue) + 1] = next
  BY <1>b, AppendFacts
<1>d. /\ wake' \in {"no", "consumed", "notified"} /\ token' \in BOOLEAN
      /\ Registered => wake' # "no"
  BY <1>a, NotifyFacts
<1>1. SinkTypeOK'
  <2>1. QueueTypeOK'
    BY <1>a, <1>b, <1>c, <1>d, SinkAssumption DEF QueueTypeOK, HasRoom
  <2>2. PlacesTypeOK'
    BY <1>a, <1>b, <1>c, <1>d, OrdersFacts DEF QueueTypeOK, PlacesTypeOK
  <2>3. CountsTypeOK'
    BY <1>a, <1>b, <1>c, <1>d DEF CountsTypeOK
  <2>4. ReceiverTypeOK'
    BY <1>a, <1>b, <1>c, <1>d DEF ReceiverTypeOK
  <2>5. (kept \subseteq Orders /\ got \subseteq Orders)'
    BY <1>a, <1>b, <1>c, <1>d, OrdersFacts DEF SinkTypeOK, QueueTypeOK
  <2> QED
    BY <2>1, <2>2, <2>3, <2>4, <2>5 DEF SinkTypeOK
<1>2. OrderInv'
  <2>1. /\ next \in Nat /\ last \in Int /\ buffer \in Int /\ preview \in Int
        /\ \A m \in Nodes : terminal[m] \in Int /\ rejected[m] \in Int
        /\ \A i \in DOMAIN queue : queue[i] \in Int
    BY <1>a, IntegerPlaces
  <2>2. last < next /\ QueueOrdered /\ BufferOrdered /\ SlotsOrdered
    BY DEF SinkInv, OrderInv
  <2>3. last' = last /\ next' \in Nat /\ next <= next' /\ last' < next'
    BY <2>1, <2>2
  <2>4. QueueOrdered'
    BY <1>b, <1>c, <2>1, <2>2, <2>3 DEF QueueOrdered
  <2>5. BufferOrdered'
    BY <1>b, <1>c, <2>1, <2>2, <2>3 DEF BufferOrdered
  <2>6. SlotsOrdered'
    BY <1>a, <2>1, <2>2, <2>3 DEF SlotsOrdered, PlacesTypeOK
  <2> QED
    BY <2>3, <2>4, <2>5, <2>6 DEF OrderInv
<1>3. NothingLost'
  BY <1>a, <1>b, <1>c, <1>d DEF SinkInv, NothingLost, Open, Waiting, InQueue, InSlot, SlotGuardsTerminal, PlacesTypeOK
<1>4. (BufferInv /\ SlotGuardsTerminal)'
  BY <1>a, <1>b, <1>c, <1>d, OrdersFacts DEF SinkInv, BufferInv, SlotGuardsTerminal, PlacesTypeOK, QueueTypeOK
<1>5. RejectionsCounted'
  BY <1>a, <1>b, <1>c, <1>d DEF SinkInv, RejectionsCounted, Open, CountsTypeOK
<1>6. GuardsWakeReceiver'
  BY <1>a, <1>b, <1>c, <1>d DEF SinkInv, GuardsWakeReceiver, Registered, PlacesTypeOK
<1> QED
  BY <1>1, <1>2, <1>3, <1>4, <1>5, <1>6 DEF SinkInv

\* A completion without room fills the empty slot of its node.
LEMMA CompleteInSlotStep ==
    ASSUME SinkInv, NEW n \in Nodes, CompleteInSlot(n)
    PROVE  SinkInv'
<1> USE DEF CompleteInSlot, history, receiver
<1>a. SinkTypeOK /\ QueueTypeOK /\ PlacesTypeOK /\ CountsTypeOK /\ ReceiverTypeOK
  BY DEF SinkInv, SinkTypeOK
<1>d. /\ wake' \in {"no", "consumed", "notified"} /\ token' \in BOOLEAN
      /\ Registered => wake' # "no"
  BY <1>a, NotifyFacts
<1>1. SinkTypeOK'
  <2>1. QueueTypeOK'
    BY <1>a, <1>d, SinkAssumption DEF QueueTypeOK, HasRoom
  <2>2. PlacesTypeOK'
    BY <1>a, <1>d, OrdersFacts DEF QueueTypeOK, PlacesTypeOK
  <2>3. CountsTypeOK'
    BY <1>a, <1>d DEF CountsTypeOK
  <2>4. ReceiverTypeOK'
    BY <1>a, <1>d DEF ReceiverTypeOK
  <2>5. (kept \subseteq Orders /\ got \subseteq Orders)'
    BY <1>a, <1>d, OrdersFacts DEF SinkTypeOK, QueueTypeOK
  <2> QED
    BY <2>1, <2>2, <2>3, <2>4, <2>5 DEF SinkTypeOK
<1>2. OrderInv'
  <2>1. /\ next \in Nat /\ last \in Int /\ buffer \in Int /\ preview \in Int
        /\ \A m \in Nodes : terminal[m] \in Int /\ rejected[m] \in Int
        /\ \A i \in DOMAIN queue : queue[i] \in Int
    BY <1>a, IntegerPlaces
  <2>2. last < next /\ QueueOrdered /\ BufferOrdered /\ SlotsOrdered
    BY DEF SinkInv, OrderInv
  <2>3. last' = last /\ next' \in Nat /\ next <= next' /\ last' < next'
    BY <2>1, <2>2
  <2>4. QueueOrdered'
    BY <2>1, <2>2, <2>3 DEF QueueOrdered
  <2>5. BufferOrdered'
    BY <2>1, <2>2, <2>3 DEF BufferOrdered
  <2>6. SlotsOrdered'
    BY <1>a, <2>1, <2>2, <2>3 DEF SlotsOrdered, PlacesTypeOK
  <2> QED
    BY <2>3, <2>4, <2>5, <2>6 DEF OrderInv
<1>3. NothingLost'
  <2> SUFFICES ASSUME NEW x \in kept', x \notin got
               PROVE  Waiting(x)'
    BY DEF NothingLost
  <2>1. terminal[n] = None /\ terminal'[n] = next
    BY <1>a DEF SinkInv, SlotGuardsTerminal, PlacesTypeOK
  <2>2. \A m \in Nodes : m # n => terminal'[m] = terminal[m]
    BY <1>a DEF PlacesTypeOK
  <2>3. CASE x = next
    BY <2>1, <2>3 DEF Waiting, InSlot
  <2>4. CASE x \in kept
    <3>1. x # None
      BY <1>a, <2>4, OrdersFacts DEF SinkTypeOK
    <3>2. Waiting(x)
      BY <2>4 DEF SinkInv, NothingLost
    <3> QED
      BY <2>1, <2>2, <3>1, <3>2 DEF Waiting, InQueue, InSlot
  <2> QED
    BY <2>3, <2>4
<1>4. (BufferInv /\ SlotGuardsTerminal)'
  BY <1>a, <1>d, OrdersFacts DEF SinkInv, BufferInv, SlotGuardsTerminal, PlacesTypeOK, QueueTypeOK
<1>5. RejectionsCounted'
  BY <1>a, <1>d DEF SinkInv, RejectionsCounted, Open, CountsTypeOK
<1>6. GuardsWakeReceiver'
  BY <1>a, <1>d DEF SinkInv, GuardsWakeReceiver, Registered, PlacesTypeOK
<1> QED
  BY <1>1, <1>2, <1>3, <1>4, <1>5, <1>6 DEF SinkInv

\* A dropped permit frees the slot.
LEMMA PermitDroppedStep ==
    ASSUME SinkInv, NEW n \in Nodes, PermitDropped(n)
    PROVE  SinkInv'
<1> USE DEF PermitDropped, history, receiver
<1>a. SinkTypeOK /\ QueueTypeOK /\ PlacesTypeOK /\ CountsTypeOK /\ ReceiverTypeOK
  BY DEF SinkInv, SinkTypeOK
<1>d. /\ wake' \in {"no", "consumed", "notified"} /\ token' \in BOOLEAN
      /\ Registered => wake' # "no"
  BY <1>a, NotifyFacts
<1>1. SinkTypeOK'
  <2>1. QueueTypeOK'
    BY <1>a, <1>d, SinkAssumption DEF QueueTypeOK, HasRoom
  <2>2. PlacesTypeOK'
    BY <1>a, <1>d, OrdersFacts DEF QueueTypeOK, PlacesTypeOK
  <2>3. CountsTypeOK'
    BY <1>a, <1>d DEF CountsTypeOK
  <2>4. ReceiverTypeOK'
    BY <1>a, <1>d DEF ReceiverTypeOK
  <2>5. (kept \subseteq Orders /\ got \subseteq Orders)'
    BY <1>a, <1>d, OrdersFacts DEF SinkTypeOK, QueueTypeOK
  <2> QED
    BY <2>1, <2>2, <2>3, <2>4, <2>5 DEF SinkTypeOK
<1>2. OrderInv'
  BY <1>a, <1>d, OrdersFacts DEF SinkInv, OrderInv, QueueOrdered, BufferOrdered, SlotsOrdered, QueueTypeOK, PlacesTypeOK
<1>3. NothingLost'
  BY <1>a, <1>d, OrdersFacts DEF SinkInv, NothingLost, Open, Waiting, InQueue, InSlot, SlotGuardsTerminal, PlacesTypeOK
<1>4. (BufferInv /\ SlotGuardsTerminal)'
  BY <1>a, <1>d, OrdersFacts DEF SinkInv, BufferInv, SlotGuardsTerminal, PlacesTypeOK, QueueTypeOK
<1>5. RejectionsCounted'
  BY <1>a, <1>d DEF SinkInv, RejectionsCounted, Open, CountsTypeOK
<1>6. GuardsWakeReceiver'
  BY <1>a, <1>d DEF SinkInv, GuardsWakeReceiver, Registered, PlacesTypeOK
<1> QED
  BY <1>1, <1>2, <1>3, <1>4, <1>5, <1>6 DEF SinkInv

\* The last sink goes away.
LEMMA SinksDroppedStep ==
    ASSUME SinkInv, SinksDropped
    PROVE  SinkInv'
<1> USE DEF SinksDropped, history, receiver
<1>a. SinkTypeOK /\ QueueTypeOK /\ PlacesTypeOK /\ CountsTypeOK /\ ReceiverTypeOK
  BY DEF SinkInv, SinkTypeOK
<1>1. SinkTypeOK'
  <2>1. QueueTypeOK'
    BY <1>a, SinkAssumption DEF QueueTypeOK, HasRoom
  <2>2. PlacesTypeOK'
    BY <1>a, OrdersFacts DEF QueueTypeOK, PlacesTypeOK
  <2>3. CountsTypeOK'
    BY <1>a DEF CountsTypeOK
  <2>4. ReceiverTypeOK'
    BY <1>a DEF ReceiverTypeOK
  <2>5. (kept \subseteq Orders /\ got \subseteq Orders)'
    BY <1>a, OrdersFacts DEF SinkTypeOK, QueueTypeOK
  <2> QED
    BY <2>1, <2>2, <2>3, <2>4, <2>5 DEF SinkTypeOK
<1>2. OrderInv'
  BY <1>a, OrdersFacts DEF SinkInv, OrderInv, QueueOrdered, BufferOrdered, SlotsOrdered, QueueTypeOK, PlacesTypeOK
<1>3. NothingLost'
  BY <1>a, OrdersFacts DEF SinkInv, NothingLost, Open, Waiting, InQueue, InSlot, SlotGuardsTerminal, PlacesTypeOK
<1>4. (BufferInv /\ SlotGuardsTerminal)'
  BY <1>a, OrdersFacts DEF SinkInv, BufferInv, SlotGuardsTerminal, PlacesTypeOK, QueueTypeOK
<1>5. RejectionsCounted'
  BY <1>a DEF SinkInv, RejectionsCounted, Open, CountsTypeOK
<1>6. GuardsWakeReceiver'
  BY <1>a DEF SinkInv, GuardsWakeReceiver, Registered, PlacesTypeOK
<1> QED
  BY <1>1, <1>2, <1>3, <1>4, <1>5, <1>6 DEF SinkInv

\* The receiver registers.
LEMMA RecvEnableStep ==
    ASSUME SinkInv, RecvEnable
    PROVE  SinkInv'
<1> USE DEF RecvEnable, history, receiver
<1>a. SinkTypeOK /\ QueueTypeOK /\ PlacesTypeOK /\ CountsTypeOK /\ ReceiverTypeOK
  BY DEF SinkInv, SinkTypeOK
<1>1. SinkTypeOK'
  <2>1. QueueTypeOK'
    BY <1>a, SinkAssumption DEF QueueTypeOK, HasRoom
  <2>2. PlacesTypeOK'
    BY <1>a, OrdersFacts DEF QueueTypeOK, PlacesTypeOK
  <2>3. CountsTypeOK'
    BY <1>a DEF CountsTypeOK
  <2>4. ReceiverTypeOK'
    BY <1>a DEF ReceiverTypeOK
  <2>5. (kept \subseteq Orders /\ got \subseteq Orders)'
    BY <1>a, OrdersFacts DEF SinkTypeOK, QueueTypeOK
  <2> QED
    BY <2>1, <2>2, <2>3, <2>4, <2>5 DEF SinkTypeOK
<1>2. OrderInv'
  BY <1>a, OrdersFacts DEF SinkInv, OrderInv, QueueOrdered, BufferOrdered, SlotsOrdered, QueueTypeOK, PlacesTypeOK
<1>3. NothingLost'
  BY <1>a, OrdersFacts DEF SinkInv, NothingLost, Open, Waiting, InQueue, InSlot, SlotGuardsTerminal, PlacesTypeOK
<1>4. (BufferInv /\ SlotGuardsTerminal)'
  BY <1>a, OrdersFacts DEF SinkInv, BufferInv, SlotGuardsTerminal, PlacesTypeOK, QueueTypeOK
<1>5. RejectionsCounted'
  BY <1>a DEF SinkInv, RejectionsCounted, Open, CountsTypeOK
<1>6. GuardsWakeReceiver'
  BY <1>a DEF SinkInv, GuardsWakeReceiver, Registered, PlacesTypeOK
<1> QED
  BY <1>1, <1>2, <1>3, <1>4, <1>5, <1>6 DEF SinkInv

\* The receiver reports the end.
LEMMA TryRecvEndedStep ==
    ASSUME SinkInv, TryRecvEnded
    PROVE  SinkInv'
<1> USE DEF TryRecvEnded, history, receiver
<1>a. SinkTypeOK /\ QueueTypeOK /\ PlacesTypeOK /\ CountsTypeOK /\ ReceiverTypeOK
  BY DEF SinkInv, SinkTypeOK
<1>d. wake' = "no" /\ token' \in BOOLEAN
  BY <1>a, UnregisterFacts
<1>1. SinkTypeOK'
  <2>1. QueueTypeOK'
    BY <1>a, <1>d, SinkAssumption DEF QueueTypeOK, HasRoom
  <2>2. PlacesTypeOK'
    BY <1>a, <1>d, OrdersFacts DEF QueueTypeOK, PlacesTypeOK
  <2>3. CountsTypeOK'
    BY <1>a, <1>d DEF CountsTypeOK
  <2>4. ReceiverTypeOK'
    BY <1>a, <1>d DEF ReceiverTypeOK
  <2>5. (kept \subseteq Orders /\ got \subseteq Orders)'
    BY <1>a, <1>d, OrdersFacts DEF SinkTypeOK, QueueTypeOK
  <2> QED
    BY <2>1, <2>2, <2>3, <2>4, <2>5 DEF SinkTypeOK
<1>2. OrderInv'
  BY <1>a, <1>d, OrdersFacts DEF SinkInv, OrderInv, QueueOrdered, BufferOrdered, SlotsOrdered, QueueTypeOK, PlacesTypeOK
<1>3. NothingLost'
  BY <1>a, <1>d, OrdersFacts DEF SinkInv, NothingLost, Open, Waiting, InQueue, InSlot, SlotGuardsTerminal, PlacesTypeOK
<1>4. (BufferInv /\ SlotGuardsTerminal)'
  BY <1>a, <1>d, OrdersFacts DEF SinkInv, BufferInv, SlotGuardsTerminal, PlacesTypeOK, QueueTypeOK
<1>5. RejectionsCounted'
  BY <1>a, <1>d DEF SinkInv, RejectionsCounted, Open, CountsTypeOK
<1>6. GuardsWakeReceiver'
  BY <1>a, <1>d DEF SinkInv, GuardsWakeReceiver, Registered, PlacesTypeOK
<1> QED
  BY <1>1, <1>2, <1>3, <1>4, <1>5, <1>6 DEF SinkInv

\* The receiver finds nothing.
LEMMA TryRecvEmptyStep ==
    ASSUME SinkInv, TryRecvEmpty
    PROVE  SinkInv'
<1> USE DEF TryRecvEmpty, history, receiver
<1>a. SinkTypeOK /\ QueueTypeOK /\ PlacesTypeOK /\ CountsTypeOK /\ ReceiverTypeOK
  BY DEF SinkInv, SinkTypeOK
<1>e. /\ buffer = None /\ preview = None
      /\ \A n \in Nodes : terminal[n] = None /\ rejected[n] = None
  BY <1>a, NoCandidates
<1>1. SinkTypeOK'
  <2>1. QueueTypeOK'
    BY <1>a, <1>e, SinkAssumption DEF QueueTypeOK, HasRoom
  <2>2. PlacesTypeOK'
    BY <1>a, <1>e, OrdersFacts DEF QueueTypeOK, PlacesTypeOK
  <2>3. CountsTypeOK'
    BY <1>a, <1>e DEF CountsTypeOK
  <2>4. ReceiverTypeOK'
    BY <1>a, <1>e DEF ReceiverTypeOK
  <2>5. (kept \subseteq Orders /\ got \subseteq Orders)'
    BY <1>a, <1>e, OrdersFacts DEF SinkTypeOK, QueueTypeOK
  <2> QED
    BY <2>1, <2>2, <2>3, <2>4, <2>5 DEF SinkTypeOK
<1>2. OrderInv'
  BY <1>a, <1>e, OrdersFacts DEF SinkInv, OrderInv, QueueOrdered, BufferOrdered, SlotsOrdered, QueueTypeOK, PlacesTypeOK
<1>3. NothingLost'
  BY <1>a, <1>e, OrdersFacts DEF SinkInv, NothingLost, Open, Waiting, InQueue, InSlot, SlotGuardsTerminal, PlacesTypeOK
<1>4. (BufferInv /\ SlotGuardsTerminal)'
  BY <1>a, <1>e, OrdersFacts DEF SinkInv, BufferInv, SlotGuardsTerminal, PlacesTypeOK, QueueTypeOK
<1>5. RejectionsCounted'
  BY <1>a, <1>e DEF SinkInv, RejectionsCounted, Open, CountsTypeOK
<1>6. GuardsWakeReceiver'
  BY <1>a, <1>e DEF SinkInv, GuardsWakeReceiver, Registered, PlacesTypeOK
<1> QED
  BY <1>1, <1>2, <1>3, <1>4, <1>5, <1>6 DEF SinkInv

\* The receiver chooses what to wait for.
LEMMA RecvParkStep ==
    ASSUME SinkInv, RecvPark
    PROVE  SinkInv'
<1> USE DEF RecvPark, history, receiver
<1>a. SinkTypeOK /\ QueueTypeOK /\ PlacesTypeOK /\ CountsTypeOK /\ ReceiverTypeOK
  BY DEF SinkInv, SinkTypeOK
<1>1. SinkTypeOK'
  <2>1. QueueTypeOK'
    BY <1>a, SinkAssumption DEF QueueTypeOK, HasRoom
  <2>2. PlacesTypeOK'
    BY <1>a, OrdersFacts DEF QueueTypeOK, PlacesTypeOK
  <2>3. CountsTypeOK'
    BY <1>a DEF CountsTypeOK
  <2>4. ReceiverTypeOK'
    BY <1>a DEF ReceiverTypeOK
  <2>5. (kept \subseteq Orders /\ got \subseteq Orders)'
    BY <1>a, OrdersFacts DEF SinkTypeOK, QueueTypeOK
  <2> QED
    BY <2>1, <2>2, <2>3, <2>4, <2>5 DEF SinkTypeOK
<1>2. OrderInv'
  BY <1>a, OrdersFacts DEF SinkInv, OrderInv, QueueOrdered, BufferOrdered, SlotsOrdered, QueueTypeOK, PlacesTypeOK
<1>3. NothingLost'
  BY <1>a, OrdersFacts DEF SinkInv, NothingLost, Open, Waiting, InQueue, InSlot, SlotGuardsTerminal, PlacesTypeOK
<1>4. (BufferInv /\ SlotGuardsTerminal)'
  BY <1>a, OrdersFacts DEF SinkInv, BufferInv, SlotGuardsTerminal, PlacesTypeOK, QueueTypeOK
<1>5. RejectionsCounted'
  BY <1>a DEF SinkInv, RejectionsCounted, Open, CountsTypeOK
<1>6. GuardsWakeReceiver'
  BY <1>a DEF SinkInv, GuardsWakeReceiver, Registered, PlacesTypeOK
<1> QED
  BY <1>1, <1>2, <1>3, <1>4, <1>5, <1>6 DEF SinkInv

\* The receiver is woken.
LEMMA RecvNotifiedStep ==
    ASSUME SinkInv, RecvNotified
    PROVE  SinkInv'
<1> USE DEF RecvNotified, history, receiver
<1>a. SinkTypeOK /\ QueueTypeOK /\ PlacesTypeOK /\ CountsTypeOK /\ ReceiverTypeOK
  BY DEF SinkInv, SinkTypeOK
<1>1. SinkTypeOK'
  <2>1. QueueTypeOK'
    BY <1>a, SinkAssumption DEF QueueTypeOK, HasRoom
  <2>2. PlacesTypeOK'
    BY <1>a, OrdersFacts DEF QueueTypeOK, PlacesTypeOK
  <2>3. CountsTypeOK'
    BY <1>a DEF CountsTypeOK
  <2>4. ReceiverTypeOK'
    BY <1>a DEF ReceiverTypeOK
  <2>5. (kept \subseteq Orders /\ got \subseteq Orders)'
    BY <1>a, OrdersFacts DEF SinkTypeOK, QueueTypeOK
  <2> QED
    BY <2>1, <2>2, <2>3, <2>4, <2>5 DEF SinkTypeOK
<1>2. OrderInv'
  BY <1>a, OrdersFacts DEF SinkInv, OrderInv, QueueOrdered, BufferOrdered, SlotsOrdered, QueueTypeOK, PlacesTypeOK
<1>3. NothingLost'
  BY <1>a, OrdersFacts DEF SinkInv, NothingLost, Open, Waiting, InQueue, InSlot, SlotGuardsTerminal, PlacesTypeOK
<1>4. (BufferInv /\ SlotGuardsTerminal)'
  BY <1>a, OrdersFacts DEF SinkInv, BufferInv, SlotGuardsTerminal, PlacesTypeOK, QueueTypeOK
<1>5. RejectionsCounted'
  BY <1>a DEF SinkInv, RejectionsCounted, Open, CountsTypeOK
<1>6. GuardsWakeReceiver'
  BY <1>a DEF SinkInv, GuardsWakeReceiver, Registered, PlacesTypeOK
<1> QED
  BY <1>1, <1>2, <1>3, <1>4, <1>5, <1>6 DEF SinkInv

\* A wait is cancelled.
LEMMA RecvCancelledStep ==
    ASSUME SinkInv, RecvCancelled
    PROVE  SinkInv'
<1> USE DEF RecvCancelled, history, receiver
<1>a. SinkTypeOK /\ QueueTypeOK /\ PlacesTypeOK /\ CountsTypeOK /\ ReceiverTypeOK
  BY DEF SinkInv, SinkTypeOK
<1>d. wake' = "no" /\ token' \in BOOLEAN
  BY <1>a, UnregisterFacts
<1>1. SinkTypeOK'
  <2>1. QueueTypeOK'
    BY <1>a, <1>d, SinkAssumption DEF QueueTypeOK, HasRoom
  <2>2. PlacesTypeOK'
    BY <1>a, <1>d, OrdersFacts DEF QueueTypeOK, PlacesTypeOK
  <2>3. CountsTypeOK'
    BY <1>a, <1>d DEF CountsTypeOK
  <2>4. ReceiverTypeOK'
    BY <1>a, <1>d DEF ReceiverTypeOK
  <2>5. (kept \subseteq Orders /\ got \subseteq Orders)'
    BY <1>a, <1>d, OrdersFacts DEF SinkTypeOK, QueueTypeOK
  <2> QED
    BY <2>1, <2>2, <2>3, <2>4, <2>5 DEF SinkTypeOK
<1>2. OrderInv'
  BY <1>a, <1>d, OrdersFacts DEF SinkInv, OrderInv, QueueOrdered, BufferOrdered, SlotsOrdered, QueueTypeOK, PlacesTypeOK
<1>3. NothingLost'
  BY <1>a, <1>d, OrdersFacts DEF SinkInv, NothingLost, Open, Waiting, InQueue, InSlot, SlotGuardsTerminal, PlacesTypeOK
<1>4. (BufferInv /\ SlotGuardsTerminal)'
  BY <1>a, <1>d, OrdersFacts DEF SinkInv, BufferInv, SlotGuardsTerminal, PlacesTypeOK, QueueTypeOK
<1>5. RejectionsCounted'
  BY <1>a, <1>d DEF SinkInv, RejectionsCounted, Open, CountsTypeOK
<1>6. GuardsWakeReceiver'
  BY <1>a, <1>d DEF SinkInv, GuardsWakeReceiver, Registered, PlacesTypeOK
<1> QED
  BY <1>1, <1>2, <1>3, <1>4, <1>5, <1>6 DEF SinkInv

\* The receiver goes away.
LEMMA ReceiverDroppedStep ==
    ASSUME SinkInv, ReceiverDropped
    PROVE  SinkInv'
<1> USE DEF ReceiverDropped, history, receiver
<1>a. SinkTypeOK /\ QueueTypeOK /\ PlacesTypeOK /\ CountsTypeOK /\ ReceiverTypeOK
  BY DEF SinkInv, SinkTypeOK
<1>1. SinkTypeOK'
  <2>1. QueueTypeOK'
    BY <1>a, SinkAssumption DEF QueueTypeOK, HasRoom
  <2>2. PlacesTypeOK'
    BY <1>a, OrdersFacts DEF QueueTypeOK, PlacesTypeOK
  <2>3. CountsTypeOK'
    BY <1>a DEF CountsTypeOK
  <2>4. ReceiverTypeOK'
    BY <1>a DEF ReceiverTypeOK
  <2>5. (kept \subseteq Orders /\ got \subseteq Orders)'
    BY <1>a, OrdersFacts DEF SinkTypeOK, QueueTypeOK
  <2> QED
    BY <2>1, <2>2, <2>3, <2>4, <2>5 DEF SinkTypeOK
<1>2. OrderInv'
  BY <1>a, OrdersFacts DEF SinkInv, OrderInv, QueueOrdered, BufferOrdered, SlotsOrdered, QueueTypeOK, PlacesTypeOK
<1>3. NothingLost'
  BY <1>a, OrdersFacts DEF SinkInv, NothingLost, Open, Waiting, InQueue, InSlot, SlotGuardsTerminal, PlacesTypeOK
<1>4. (BufferInv /\ SlotGuardsTerminal)'
  BY <1>a, OrdersFacts DEF SinkInv, BufferInv, SlotGuardsTerminal, PlacesTypeOK, QueueTypeOK
<1>5. RejectionsCounted'
  BY <1>a DEF SinkInv, RejectionsCounted, Open, CountsTypeOK
<1>6. GuardsWakeReceiver'
  BY <1>a DEF SinkInv, GuardsWakeReceiver, Registered, PlacesTypeOK
<1> QED
  BY <1>1, <1>2, <1>3, <1>4, <1>5, <1>6 DEF SinkInv

\* What try_recv does to the queue and the buffer: together they hold what
\* they held, the buffer first.
LEMMA ShiftFacts ==
    ASSUME SinkInv
    PROVE  /\ Shifted \in Seq(Orders) /\ Len(Shifted) \in Nat /\ Len(Shifted) <= Len(queue)
           /\ Buffered \in MaybeOrders
           /\ Buffered = None => DOMAIN Shifted = {}
           /\ Buffered # None =>
                /\ last < Buffered /\ Buffered < next
                /\ \A i \in DOMAIN Shifted : Buffered < Shifted[i]
           /\ \A i \in DOMAIN Shifted : Shifted[i] \in Orders /\ Shifted[i] < next
           /\ \A i, j \in DOMAIN Shifted : i < j => Shifted[i] < Shifted[j]
           /\ \A x \in Orders : InQueue(x) \/ buffer = x =>
                x = Buffered \/ \E i \in DOMAIN Shifted : Shifted[i] = x
<1>1. queue \in Seq(Orders) /\ buffer \in MaybeOrders
  BY DEF SinkInv, SinkTypeOK, QueueTypeOK, PlacesTypeOK
<1>2. Len(queue) \in Nat /\ \A i \in DOMAIN queue : queue[i] \in Orders
  BY <1>1
<1>3. last < next /\ QueueOrdered /\ BufferOrdered
  BY DEF SinkInv, OrderInv
<1>4. CASE buffer = None /\ queue # <<>>
  <2>1. Shifted = Tail(queue) /\ Buffered = Head(queue)
    BY <1>4 DEF Shifted, Buffered
  <2>2. /\ Tail(queue) \in Seq(Orders) /\ Head(queue) \in Orders
        /\ Len(queue) \in Nat \ {0} /\ Len(Tail(queue)) = Len(queue) - 1
        /\ DOMAIN queue = 1..Len(queue)
        /\ DOMAIN Tail(queue) = 1..(Len(queue) - 1)
        /\ Head(queue) = queue[1]
        /\ \A i \in 1..(Len(queue) - 1) : Tail(queue)[i] = queue[i + 1]
    BY <1>1, <1>4, TailFacts
  <2>3. Shifted \in Seq(Orders) /\ Len(Shifted) \in Nat /\ Len(Shifted) <= Len(queue)
    BY <2>1, <2>2
  <2>4. Buffered \in MaybeOrders /\ Buffered # None
    BY <2>1, <2>2, OrdersFacts
  <2>5. /\ last < Buffered /\ Buffered < next
        /\ \A i \in DOMAIN Shifted : Buffered < Shifted[i]
    BY <1>3, <2>1, <2>2 DEF QueueOrdered
  <2>6. /\ \A i \in DOMAIN Shifted : Shifted[i] \in Orders /\ Shifted[i] < next
        /\ \A i, j \in DOMAIN Shifted : i < j => Shifted[i] < Shifted[j]
    BY <1>2, <1>3, <2>1, <2>2 DEF QueueOrdered
  <2>7. ASSUME NEW x \in Orders, InQueue(x) \/ buffer = x
        PROVE  x = Buffered \/ \E i \in DOMAIN Shifted : Shifted[i] = x
    <3>1. PICK k \in DOMAIN queue : queue[k] = x
      BY <1>4, <2>7, OrdersFacts DEF InQueue
    <3>2. CASE k = 1
      BY <2>1, <2>2, <3>1, <3>2
    <3>3. CASE k # 1
      <4>1. k - 1 \in 1..(Len(queue) - 1) /\ (k - 1) + 1 = k
        BY <2>2, <3>1, <3>3
      <4>2. Tail(queue)[k - 1] = x
        BY <2>2, <3>1, <4>1
      <4> QED
        BY <2>1, <2>2, <4>1, <4>2
    <3> QED
      BY <3>2, <3>3
  <2> QED
    BY <2>3, <2>4, <2>5, <2>6, <2>7
<1>5. CASE ~(buffer = None /\ queue # <<>>)
  <2>1. Shifted = queue /\ Buffered = buffer
    BY <1>5 DEF Shifted, Buffered
  <2>2. Buffered = None => DOMAIN Shifted = {}
    BY <1>1, <1>5, <2>1
  <2>3. \A x \in Orders : InQueue(x) \/ buffer = x =>
          x = Buffered \/ \E i \in DOMAIN Shifted : Shifted[i] = x
    BY <2>1 DEF InQueue
  <2>4. Buffered # None =>
          /\ last < Buffered /\ Buffered < next
          /\ \A i \in DOMAIN Shifted : Buffered < Shifted[i]
    BY <1>3, <2>1 DEF BufferOrdered
  <2>5. /\ \A i \in DOMAIN Shifted : Shifted[i] \in Orders /\ Shifted[i] < next
        /\ \A i, j \in DOMAIN Shifted : i < j => Shifted[i] < Shifted[j]
    BY <1>2, <1>3, <2>1 DEF QueueOrdered
  <2> QED
    BY <1>1, <1>2, <2>1, <2>2, <2>3, <2>4, <2>5
<1> QED
  BY <1>4, <1>5

\* The event try_recv returns is the oldest of all that wait.
LEMMA FirstFacts ==
    ASSUME SinkInv, NEW o \in Orders, First(o)
    PROVE  /\ last < o /\ o < next
           /\ Buffered # None => o <= Buffered
           /\ preview # None => o <= preview
           /\ \A n \in Nodes : terminal[n] # None => o <= terminal[n]
           /\ \A n \in Nodes : rejected[n] # None => o <= rejected[n]
           /\ \A i \in DOMAIN Shifted : o < Shifted[i]
<1>1. o \in Candidates /\ \A c \in Candidates : o <= c
  BY DEF First
<1>2. /\ Buffered # None => o <= Buffered
      /\ preview # None => o <= preview
      /\ \A n \in Nodes : terminal[n] # None => o <= terminal[n]
      /\ \A n \in Nodes : rejected[n] # None => o <= rejected[n]
  BY <1>1 DEF Candidates
<1>3. o # None
  BY OrdersFacts
<1>4. Buffered # None => last < Buffered /\ Buffered < next
  BY ShiftFacts
<1>5. SlotsOrdered
  BY DEF SinkInv, OrderInv
<1>6. last < o /\ o < next
  <2>1. \/ o = Buffered \/ o = preview
        \/ \E n \in Nodes : o = terminal[n]
        \/ \E n \in Nodes : o = rejected[n]
    BY <1>1 DEF Candidates
  <2> QED
    BY <1>3, <1>4, <1>5, <2>1 DEF SlotsOrdered
<1>7. ASSUME NEW i \in DOMAIN Shifted
      PROVE  o < Shifted[i]
  <2>1. Buffered # None /\ Buffered < Shifted[i] /\ Shifted[i] \in Orders /\ Buffered \in MaybeOrders
    BY ShiftFacts
  <2>2. o \in Int /\ Buffered \in Int /\ Shifted[i] \in Int
    BY <2>1, OrdersFacts
  <2> QED
    BY <1>2, <2>1, <2>2
<1> QED
  BY <1>2, <1>6, <1>7

\* The receiver returns an event.
LEMMA TryRecvStep ==
    ASSUME SinkInv, NEW o \in Orders, TryRecv(o)
    PROVE  SinkInv' /\ last' > last
<1> USE DEF TryRecv
<1>a. SinkTypeOK /\ QueueTypeOK /\ PlacesTypeOK /\ CountsTypeOK /\ ReceiverTypeOK
  BY DEF SinkInv, SinkTypeOK
<1>b. /\ Shifted \in Seq(Orders) /\ Len(Shifted) \in Nat /\ Len(Shifted) <= Len(queue)
      /\ Buffered \in MaybeOrders
      /\ Buffered # None =>
           /\ last < Buffered /\ Buffered < next
           /\ \A i \in DOMAIN Shifted : Buffered < Shifted[i]
      /\ \A i \in DOMAIN Shifted : Shifted[i] \in Orders /\ Shifted[i] < next
      /\ \A i, j \in DOMAIN Shifted : i < j => Shifted[i] < Shifted[j]
      /\ \A x \in Orders : InQueue(x) \/ buffer = x =>
           x = Buffered \/ \E i \in DOMAIN Shifted : Shifted[i] = x
  BY ShiftFacts
<1>c. /\ last < o /\ o < next
      /\ Buffered # None => o <= Buffered
      /\ preview # None => o <= preview
      /\ \A n \in Nodes : terminal[n] # None => o <= terminal[n]
      /\ \A n \in Nodes : rejected[n] # None => o <= rejected[n]
      /\ \A i \in DOMAIN Shifted : o < Shifted[i]
  BY FirstFacts
<1>d. wake' = "no" /\ token' \in BOOLEAN
  BY <1>a, UnregisterFacts
<1>1. SinkTypeOK'
  <2>1. QueueTypeOK'
    BY <1>a, <1>b, SinkAssumption DEF QueueTypeOK
  <2>2. PlacesTypeOK'
    <3>1. preview' \in MaybeOrders /\ buffer' \in MaybeOrders /\ last' \in MaybeOrders
      BY <1>a, <1>b, OrdersFacts DEF PlacesTypeOK
    <3>2. slot' \in [Nodes -> {"free", "held", "pending"}]
      BY <1>a DEF PlacesTypeOK
    <3>3. /\ terminal' \in [Nodes -> MaybeOrders]
          /\ rejected' \in [Nodes -> MaybeOrders]
      BY <1>a, OrdersFacts DEF PlacesTypeOK
    <3> QED
      BY <3>1, <3>2, <3>3 DEF PlacesTypeOK
  <2>3. CountsTypeOK'
    BY <1>a DEF CountsTypeOK
  <2>4. ReceiverTypeOK'
    BY <1>a, <1>d DEF ReceiverTypeOK
  <2>5. (kept \subseteq Orders /\ got \subseteq Orders)'
    BY <1>a DEF SinkTypeOK
  <2> QED
    BY <2>1, <2>2, <2>3, <2>4, <2>5 DEF SinkTypeOK
<1>2. OrderInv'
  <2>1. /\ next \in Nat /\ last \in Int /\ buffer \in Int /\ preview \in Int
        /\ \A m \in Nodes : terminal[m] \in Int /\ rejected[m] \in Int
    BY <1>a, IntegerPlaces
  <2>2. /\ o \in Int /\ Buffered \in Int /\ \A i \in DOMAIN Shifted : Shifted[i] \in Int
    BY <1>b, OrdersFacts
  <2>3. SlotsOrdered
    BY DEF SinkInv, OrderInv
  <2>4. last' = o /\ next' = next /\ last' < next' /\ queue' = Shifted
    BY <1>c
  <2>5. QueueOrdered'
    BY <1>b, <1>c, <2>4 DEF QueueOrdered
  <2>6. BufferOrdered'
    BY <1>b, <1>c, <2>1, <2>2, <2>4 DEF BufferOrdered
  <2>7. SlotsOrdered'
    BY <1>a, <1>c, <2>1, <2>2, <2>3, <2>4 DEF SlotsOrdered, PlacesTypeOK
  <2> QED
    BY <2>4, <2>5, <2>6, <2>7 DEF OrderInv
<1>3. NothingLost'
  <2> SUFFICES ASSUME NEW x \in kept, x \notin got'
               PROVE  Waiting(x)'
    BY DEF NothingLost
  <2>1. x # o /\ x \in Orders /\ x # None
    BY <1>a, OrdersFacts DEF SinkTypeOK
  <2>2. Waiting(x)
    BY DEF SinkInv, NothingLost, Open
  <2>3. CASE InQueue(x) \/ buffer = x
    <3>1. x = Buffered \/ \E i \in DOMAIN Shifted : Shifted[i] = x
      BY <1>b, <2>1, <2>3
    <3> QED
      BY <2>1, <3>1 DEF Waiting, InQueue
  <2>4. CASE InSlot(x)
    BY <2>1, <2>4 DEF Waiting, InSlot
  <2> QED
    BY <2>2, <2>3, <2>4 DEF Waiting
<1>4. (BufferInv /\ SlotGuardsTerminal)'
  BY <1>a, OrdersFacts DEF SinkInv, BufferInv, SlotGuardsTerminal, PlacesTypeOK
<1>5. RejectionsCounted'
  BY <1>a DEF SinkInv, RejectionsCounted, Open, CountsTypeOK
<1>6. GuardsWakeReceiver'
  BY DEF GuardsWakeReceiver
<1>7. last' > last
  <2>1. last \in Int /\ o \in Int
    BY <1>a, IntegerPlaces, OrdersFacts
  <2> QED
    BY <1>c, <2>1
<1> QED
  BY <1>1, <1>2, <1>3, <1>4, <1>5, <1>6, <1>7 DEF SinkInv

\* The receiver, waiting, takes the head of the queue into its empty buffer.
LEMMA RecvQueuedStep ==
    ASSUME SinkInv, RecvQueued
    PROVE  SinkInv'
<1> USE DEF RecvQueued, history
<1>a. SinkTypeOK /\ QueueTypeOK /\ PlacesTypeOK /\ CountsTypeOK /\ ReceiverTypeOK
  BY DEF SinkInv, SinkTypeOK
<1>b. buffer = None
  BY DEF SinkInv, BufferInv
<1>c. queue' = Shifted /\ buffer' = Buffered
  BY <1>b DEF Shifted, Buffered
<1>d. wake' = "no" /\ token' \in BOOLEAN
  BY <1>a, UnregisterFacts
<1>e. /\ Shifted \in Seq(Orders) /\ Len(Shifted) \in Nat /\ Len(Shifted) <= Len(queue)
      /\ Buffered \in MaybeOrders
      /\ Buffered # None =>
           /\ last < Buffered /\ Buffered < next
           /\ \A i \in DOMAIN Shifted : Buffered < Shifted[i]
      /\ Buffered = None => DOMAIN Shifted = {}
      /\ \A i \in DOMAIN Shifted : Shifted[i] \in Orders /\ Shifted[i] < next
      /\ \A i, j \in DOMAIN Shifted : i < j => Shifted[i] < Shifted[j]
      /\ \A x \in Orders : InQueue(x) \/ buffer = x =>
           x = Buffered \/ \E i \in DOMAIN Shifted : Shifted[i] = x
  BY ShiftFacts
<1>f. /\ next' = next /\ last' = last /\ preview' = preview /\ terminal' = terminal
      /\ rejected' = rejected /\ slot' = slot /\ kept' = kept /\ got' = got
      /\ attempts' = attempts /\ refused' = refused /\ told' = told
      /\ promised' = promised /\ sinks' = sinks /\ recv = "both" /\ recv' = "idle"
  OBVIOUS
<1> HIDE DEF RecvQueued
<1>1. SinkTypeOK'
  <2>1. QueueTypeOK'
    BY <1>a, <1>c, <1>e, <1>f, SinkAssumption DEF QueueTypeOK
  <2>2. PlacesTypeOK' /\ CountsTypeOK'
    BY <1>a, <1>c, <1>e, <1>f DEF PlacesTypeOK, CountsTypeOK
  <2>3. ReceiverTypeOK'
    BY <1>a, <1>d, <1>f DEF ReceiverTypeOK
  <2> QED
    BY <1>a, <1>f, <2>1, <2>2, <2>3 DEF SinkTypeOK
<1>2. OrderInv'
  <2>1. last < next /\ SlotsOrdered
    BY DEF SinkInv, OrderInv
  <2>2. ASSUME NEW i \in DOMAIN Shifted
        PROVE  last < Shifted[i]
    <3>1. Buffered # None /\ last < Buffered /\ Buffered < Shifted[i]
      BY <1>e
    <3>2. last \in Int /\ Buffered \in Int /\ Shifted[i] \in Int
      BY <1>a, <1>e, IntegerPlaces, OrdersFacts
    <3> QED
      BY <3>1, <3>2
  <2>3. QueueOrdered' /\ BufferOrdered'
    BY <1>c, <1>e, <1>f, <2>2 DEF QueueOrdered, BufferOrdered
  <2>4. (last < next)' /\ SlotsOrdered'
    BY <1>f, <2>1 DEF SlotsOrdered
  <2> QED
    BY <2>3, <2>4 DEF OrderInv
<1>3. NothingLost'
  <2> SUFFICES ASSUME NEW x \in kept, x \notin got
               PROVE  Waiting(x)'
    BY <1>f DEF NothingLost
  <2>1. x \in Orders
    BY <1>a DEF SinkTypeOK
  <2>2. Waiting(x)
    BY <1>f DEF SinkInv, NothingLost, Open
  <2>3. CASE InQueue(x) \/ buffer = x
    BY <1>c, <1>e, <2>1, <2>3 DEF Waiting, InQueue
  <2>4. CASE InSlot(x)
    BY <1>f, <2>4 DEF Waiting, InSlot
  <2> QED
    BY <2>2, <2>3, <2>4 DEF Waiting
<1>4. (BufferInv /\ SlotGuardsTerminal)'
  BY <1>f DEF SinkInv, BufferInv, SlotGuardsTerminal
<1>5. RejectionsCounted'
  BY <1>f DEF SinkInv, RejectionsCounted, Open
<1>6. GuardsWakeReceiver'
  BY <1>f DEF GuardsWakeReceiver
<1> QED
  BY <1>1, <1>2, <1>3, <1>4, <1>5, <1>6 DEF SinkInv

\* Steps that change nothing.
LEMMA SinkStutter ==
    ASSUME SinkInv, UNCHANGED vars
    PROVE  SinkInv'
<1> USE DEF vars
<1>1. SinkTypeOK'
  BY DEF SinkInv, SinkTypeOK, QueueTypeOK, PlacesTypeOK, CountsTypeOK, ReceiverTypeOK
<1>2. OrderInv'
  BY DEF SinkInv, OrderInv, QueueOrdered, BufferOrdered, SlotsOrdered
<1>3. NothingLost'
  BY DEF SinkInv, NothingLost, Open, Waiting, InQueue, InSlot
<1>4. (BufferInv /\ SlotGuardsTerminal)' /\ RejectionsCounted' /\ GuardsWakeReceiver'
  BY DEF SinkInv, BufferInv, SlotGuardsTerminal, RejectionsCounted, Open, GuardsWakeReceiver
<1> QED
  BY <1>1, <1>2, <1>3, <1>4 DEF SinkInv

\* Every step preserves the invariant.
LEMMA SinkStep == SinkInv /\ [Next]_vars => SinkInv'
<1> SUFFICES ASSUME SinkInv, [Next]_vars PROVE SinkInv'
  OBVIOUS
<1>1. CASE SendReserve \/ SendEnqueue \/ Emit \/ SinksDropped
  BY <1>1, SendReserveStep, SendEnqueueStep, EmitStep, SinksDroppedStep
<1>2. ASSUME NEW n \in Nodes,
             Admit(n) \/ Reject(n) \/ Complete(n) \/ CompleteInSlot(n) \/ PermitDropped(n)
      PROVE  SinkInv'
  BY <1>2, AdmitStep, RejectStep, CompleteStep, CompleteInSlotStep, PermitDroppedStep
<1>3. CASE RecvEnable \/ TryRecvEnded \/ TryRecvEmpty \/ RecvPark \/ RecvNotified
  BY <1>3, RecvEnableStep, TryRecvEndedStep, TryRecvEmptyStep, RecvParkStep, RecvNotifiedStep
<1>4. CASE RecvQueued \/ RecvCancelled \/ ReceiverDropped
  BY <1>4, RecvQueuedStep, RecvCancelledStep, ReceiverDroppedStep
<1>5. ASSUME NEW o \in 0..(Events - 1), TryRecv(o)
      PROVE  SinkInv'
  BY <1>5, TryRecvStep DEF Orders
<1>6. CASE UNCHANGED vars
  BY <1>6, SinkStutter
<1> QED
  BY <1>1, <1>2, <1>3, <1>4, <1>5, <1>6 DEF Next

\* The channel's state is consistent whatever its senders, its attempts and
\* its receiver do: types, order, slots, counts and wake-ups (event_sink.rs).
THEOREM SinkInvariant == Spec => []SinkInv
<1>1. Init => SinkInv
  BY SinkInit
<1>2. SinkInv /\ [Next]_vars => SinkInv'
  BY SinkStep
<1> QED
  BY <1>1, <1>2, PTL DEF Spec

\* While the receiver lives, no durable event and no completion of an admitted
\* attempt is lost, and every rejected attempt is in one report, returned or
\* waiting (EventSink::send, TerminalPermit::send, TerminalSlot::reject).
THEOREM AllIsAccounted == Spec => []AllAccounted
<1>1. SinkInv => AllAccounted
  BY DEF SinkInv, AllAccounted
<1> QED
  BY <1>1, SinkInvariant, PTL

\* A receiver that waits unwoken has no slot to empty: the registration made
\* before try_recv misses no completion (EventReceiver::recv).
THEOREM NoWakeupIsMissed == Spec => []GuardsWakeReceiver
<1>1. SinkInv => GuardsWakeReceiver
  BY DEF SinkInv
<1> QED
  BY <1>1, SinkInvariant, PTL

\* A step that returns an event returns a newer one than the last.
LEMMA OrderStep ==
    SinkInv /\ [Next]_vars => [got' # got => last' > last]_vars
<1> SUFFICES ASSUME SinkInv, Next, got' # got PROVE last' > last
  BY DEF vars
<1>1. PICK o \in 0..(Events - 1) : TryRecv(o)
  BY DEF Next, SendReserve, SendEnqueue, Emit, SinksDropped, Admit, Reject, Complete,
         CompleteInSlot, PermitDropped, RecvEnable, TryRecvEnded, TryRecvEmpty, RecvPark,
         RecvNotified, RecvQueued, RecvCancelled, ReceiverDropped, history
<1> QED
  BY <1>1, TryRecvStep DEF Orders

\* Events are returned in the order in which they were accepted, whichever of
\* the four places they waited in (EventReceiver::try_recv).
THEOREM DeliveredInOrder == Spec => InOrder
<1>1. SinkInv /\ [Next]_vars => [got' # got => last' > last]_vars
  BY OrderStep
<1> QED
  BY <1>1, SinkInvariant, PTL DEF Spec, InOrder

=============================================================================
