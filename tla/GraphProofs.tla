---------------------------- MODULE GraphProofs ----------------------------
(***************************************************************************)
(* What is repeated by the graph stays what it was.  Routes: for all       *)
(* calls, routes, plans and faults a call keeps its route and its child's  *)
(* input, no launched child is forgotten, and the revisions of a dataset   *)
(* form one line.  Turns: for all layouts, answers, texts and faults a     *)
(* passage shows its model one window, and each call of a model is run as  *)
(* it was recorded and answered once.                                      *)
(***************************************************************************)
EXTENDS Routes, Turns, FiniteSetTheorems, SequenceTheorems, TLAPS

CallRecords == [pc : CallStages, plan : 0..Plans]
Dispatches == [plan : 0..Plans, route : RouteIds \cup {"none", "skip"}]
Steps == {Step[c] : c \in Calls}

LEMMA VisitIs ==
    /\ \A v \in Visits : v[1] \in Calls /\ v[2] \in RouteIds /\ v = <<v[1], v[2]>>
    /\ \A c \in Calls, r \in RouteIds : /\ <<c, r>> \in Visits
                                        /\ <<c, r>>[1] = c /\ <<c, r>>[2] = r
    BY DEF Visits

LEMMA RunnerIs ==
    /\ \A x \in Runners : x[1] \in Visits /\ x[2] \in Slots /\ x = <<x[1], x[2]>>
    /\ \A v \in Visits, s \in Slots : /\ <<v, s>> \in Runners
                                      /\ <<v, s>>[1] = v /\ <<v, s>>[2] = s
    /\ Nobody \notin Runners
    BY NobodyAssumption DEF Runners, Procs

LEMMA RunnersFinite == IsFiniteSet(Runners)
    <1>1. IsFiniteSet(Visits) BY RoutesAssumption, FS_Product DEF Visits
    <1>2. IsFiniteSet(Slots)
        <2>1. IsFiniteSet({}) BY FS_EmptySet
        <2>2. IsFiniteSet({} \cup {"inline"}) BY <2>1, FS_AddElement
        <2>3. IsFiniteSet(({} \cup {"inline"}) \cup {"task"}) BY <2>2, FS_AddElement
        <2>4. IsFiniteSet((({} \cup {"inline"}) \cup {"task"}) \cup {"again"})
            BY <2>3, FS_AddElement
        <2>5. (({} \cup {"inline"}) \cup {"task"}) \cup {"again"} = Slots BY DEF Slots
        <2> QED BY <2>4, <2>5
    <1> QED BY <1>1, <1>2, FS_Product DEF Runners

LEMMA LiveFinite == IsFiniteSet(Live) /\ Cardinality(Live) \in Nat
    <1>1. Live \subseteq Runners BY DEF Live
    <1>2. IsFiniteSet(Live) BY <1>1, RunnersFinite, FS_Subset
    <1> QED BY <1>2, FS_CardinalityType

-----------------------------------------------------------------------------
(***************************************************************************)
(* What a step leaves alone keeps its part of the invariant.               *)
(***************************************************************************)
LEMMA RouteSame ==
    ASSUME RouteKept, UNCHANGED <<pin, captured, dispatch, visit>> PROVE RouteKept'
    BY DEF RouteKept

LEMMA FedSame ==
    ASSUME FedKept, UNCHANGED <<fed, bound>> PROVE FedKept'
    BY DEF FedKept

LEMMA LockSame ==
    ASSUME LockKept, UNCHANGED <<run, lock, status>> PROVE LockKept'
    BY DEF LockKept, Terminal

LEMMA LaunchSame ==
    ASSUME LaunchKept, UNCHANGED <<tasks, taken, aborting, run, active>> PROVE LaunchKept'
    BY DEF LaunchKept, Live

LEMMA InlineSame ==
    ASSUME InlineKept, UNCHANGED <<run, call, dispatch>> PROVE InlineKept'
    BY DEF InlineKept

LEMMA CallSame ==
    ASSUME CallKept, UNCHANGED <<call, pin, captured, dispatch>> PROVE CallKept'
    BY DEF CallKept, CallFits

LEMMA PhaseSame ==
    ASSUME PhaseKept, UNCHANGED <<phase, aborting, call, run, woken>> PROVE PhaseKept'
    BY DEF PhaseKept, Finished

LEMMA AccountsSame ==
    ASSUME LaunchesAccounted, UNCHANGED <<phase, visit, status, woken, call, active, run, changed>>
    PROVE  LaunchesAccounted'
    BY DEF LaunchesAccounted, LaunchesRespawned, CleanupComplete, Unfinished, Terminal, Launched

routed == <<graph, pin, captured, dispatch, visit, status, phase, call, run, lock, tasks,
            taken, aborting, active, changed, woken, fed, bound>>

LEMMA TypesSame ==
    ASSUME RoutesTypeOK, UNCHANGED routed PROVE RoutesTypeOK'
    BY DEF RoutesTypeOK, routed

LEMMA AllSame ==
    ASSUME RoutesInv, UNCHANGED routed PROVE RoutesInv'
    <1>1. UNCHANGED <<graph, pin, captured, dispatch, visit, status, phase, call, run, lock,
                      tasks, taken, aborting, active, changed, woken, fed, bound>>
        BY DEF routed
    <1> QED BY <1>1, TypesSame, RouteSame, FedSame, LockSame, LaunchSame, InlineSame, CallSame,
               PhaseSame, AccountsSame DEF RoutesInv

\* Publications and edits touch the registry only.
LEMMA PublicationStep ==
    ASSUME RoutesInv, NEW p \in Procs, Publication(p) PROVE RoutesInv'
    <1>1. UNCHANGED routed
        BY DEF Publication, PubIntent, PubRegistry, PubView, PubGrant, routed, launches, history
    <1> QED BY <1>1, AllSame

-----------------------------------------------------------------------------
(***************************************************************************)
(* invoke_branch.  A call is under way only while the owner serves.        *)
(***************************************************************************)
LEMMA Serving ==
    ASSUME RoutesInv, NEW c \in Calls, call[c].pc \notin {"idle", "done", "waiting", "failed"}
    PROVE  phase = "serving"
    <1>1. phase \in {"boot", "serving", "cleaning", "waiting", "over", "down"}
        BY DEF RoutesInv, RoutesTypeOK
    <1>2. phase \notin {"boot", "down"} BY DEF RoutesInv, PhaseKept
    <1>3. phase \notin {"cleaning", "waiting"} BY DEF RoutesInv, PhaseKept
    <1>4. phase # "over" BY DEF RoutesInv, PhaseKept, Finished
    <1> QED BY <1>1, <1>2, <1>3, <1>4

LEMMA CallIs ==
    ASSUME RoutesInv, NEW c \in Calls
    PROVE  /\ call \in [Calls -> CallRecords] /\ call[c] \in CallRecords
           /\ call[c].pc \in CallStages /\ call[c].plan \in 0..Plans
           /\ pin \in [Steps -> 0..Plans] /\ Step[c] \in Steps /\ pin[Step[c]] \in 0..Plans
           /\ captured \in [Calls -> 0..Plans] /\ captured[c] \in 0..Plans
           /\ dispatch \in [Calls -> Dispatches] /\ dispatch[c] \in Dispatches
           /\ graph \in 1..Plans
           /\ CallFits(c)
    <1>1. call \in [Calls -> CallRecords] /\ call[c] \in CallRecords
        BY DEF RoutesInv, RoutesTypeOK, CallRecords
    <1>2. call[c].pc \in CallStages /\ call[c].plan \in 0..Plans BY <1>1 DEF CallRecords
    <1>3. Step[c] \in Steps BY DEF Steps
    <1>4. pin \in [Steps -> 0..Plans] BY DEF RoutesInv, RoutesTypeOK, Steps
    <1>5. /\ captured \in [Calls -> 0..Plans] /\ dispatch \in [Calls -> Dispatches]
          /\ graph \in 1..Plans
        BY DEF RoutesInv, RoutesTypeOK, Dispatches
    <1>6. CallFits(c) BY DEF RoutesInv, CallKept
    <1> QED BY <1>1, <1>2, <1>3, <1>4, <1>5, <1>6

\* What is recorded once stays as it is.
Grows ==
    /\ \A s \in Steps : pin[s] # 0 => pin'[s] = pin[s]
    /\ \A d \in Calls : captured[d] # 0 => captured'[d] = captured[d]
    /\ \A d \in Calls : dispatch[d] # Undecided => dispatch'[d] = dispatch[d]

\* The other calls keep what they go on with.
LEMMA OthersFit ==
    ASSUME RoutesInv, NEW d \in Calls, call'[d] = call[d], Grows
    PROVE  CallFits(d)'
    <1>1. CallFits(d) /\ Step[d] \in Steps BY CallIs
    <1>2. pin[Step[d]] # 0 => pin'[Step[d]] = pin[Step[d]] BY <1>1 DEF Grows
    <1>3. /\ captured[d] # 0 => captured'[d] = captured[d]
          /\ dispatch[d] # Undecided => dispatch'[d] = dispatch[d]
        BY DEF Grows
    <1> QED BY <1>1, <1>2, <1>3 DEF CallFits

LEMMA CallMoves ==
    ASSUME RoutesInv, NEW c \in Calls, NEW w \in CallRecords, call' = [call EXCEPT ![c] = w],
           phase = "serving", call[c].pc \notin {"running", "spawn"},
           pin' \in [Steps -> 0..Plans], captured' \in [Calls -> 0..Plans],
           dispatch' \in [Calls -> Dispatches],
           UNCHANGED <<graph, visit, status, phase, run, lock, tasks, taken, aborting, active,
                       changed, woken, fed, bound>>,
           Grows, RouteKept', CallFits(c)'
    PROVE  RoutesInv'
    <1>1. call \in [Calls -> CallRecords] BY CallIs
    <1>2. call'[c] = w /\ \A d \in Calls : d # c => call'[d] = call[d] BY <1>1
    <1>3. call' \in [Calls -> CallRecords] BY <1>1
    <1>4. RoutesTypeOK'
        BY <1>3 DEF RoutesInv, RoutesTypeOK, CallRecords, Steps, Dispatches
    <1>5. CallKept' BY <1>2, OthersFit DEF CallKept
    <1>6. InlineKept'
        <2> SUFFICES ASSUME NEW v \in Visits, run[<<v, "inline">>] # "off"
                     PROVE  call'[v[1]].pc = "running" /\ dispatch'[v[1]].route = v[2]
            BY DEF InlineKept
        <2>1. /\ call[v[1]].pc = "running" /\ dispatch[v[1]].route = v[2]
              /\ v[1] \in Calls
            BY VisitIs DEF RoutesInv, InlineKept
        <2>2. v[1] # c BY <2>1
        <2>3. dispatch[v[1]] # Undecided BY <2>1 DEF RoutesInv, CallKept, CallFits
        <2>4. dispatch'[v[1]] = dispatch[v[1]] BY <2>1, <2>3 DEF Grows
        <2> QED BY <1>2, <2>1, <2>2, <2>4
    <1>7. PhaseKept' BY DEF RoutesInv, PhaseKept
    <1>8. LaunchesAccounted'
        <2>1. Unfinished' = Unfinished BY DEF Unfinished, Terminal, Launched
        <2>2. ASSUME NEW v \in Unfinished PROVE v \in woken \/ call'[v[1]].pc = "spawn"
            <3>1. v \in woken \/ call[v[1]].pc = "spawn"
                BY DEF RoutesInv, LaunchesAccounted, LaunchesRespawned
            <3>2. v \in Visits BY DEF Unfinished
            <3> QED BY <1>2, <3>1, <3>2, VisitIs
        <2> QED BY <2>1, <2>2 DEF LaunchesAccounted, LaunchesRespawned, CleanupComplete
    <1> QED BY <1>4, <1>5, <1>6, <1>7, <1>8, FedSame, LockSame, LaunchSame DEF RoutesInv

LEMMA RecordMade ==
    ASSUME NEW x \in CallStages, NEW n \in 0..Plans
    PROVE  \E w \in CallRecords : w = [pc |-> x, plan |-> n] /\ w.pc = x /\ w.plan = n
    <1>1. [pc |-> x, plan |-> n] \in CallRecords BY DEF CallRecords
    <1> QED BY <1>1

LEMMA RecordMoved ==
    ASSUME NEW w \in CallRecords, NEW x \in CallStages
    PROVE  \E e \in CallRecords : e = [w EXCEPT !.pc = x] /\ e.pc = x /\ e.plan = w.plan
    <1>1. /\ [w EXCEPT !.pc = x] \in CallRecords /\ [w EXCEPT !.pc = x].pc = x
          /\ [w EXCEPT !.pc = x].plan = w.plan
        BY DEF CallRecords
    <1> QED BY <1>1

LEMMA DispatchMade ==
    ASSUME NEW n \in 0..Plans, NEW r \in RouteIds \cup {"none", "skip"}
    PROVE  \E e \in Dispatches : e = [plan |-> n, route |-> r] /\ e.plan = n /\ e.route = r
    <1>1. [plan |-> n, route |-> r] \in Dispatches BY DEF Dispatches
    <1> QED BY <1>1

LEMMA StageNames ==
    /\ CallStages = {"idle", "capture", "capturing", "publish", "pin", "claim", "visit",
                     "spawn", "running", "waiting", "done", "failed"}
    /\ 0 \in 0..Plans
    BY RoutesAssumption DEF CallStages

LEMMA IdleIs == Idle \in CallRecords /\ Idle.pc = "idle"
    BY RoutesAssumption DEF Idle, CallRecords, CallStages

LEMMA CallPlaced ==
    ASSUME RoutesInv, NEW c \in Calls, NEW x \in CallStages, To(c, x)
    PROVE  \E w \in CallRecords : call' = [call EXCEPT ![c] = w] /\ w.pc = x
    <1>1. call[c] \in CallRecords /\ call \in [Calls -> CallRecords] BY CallIs
    <1>2. PICK w \in CallRecords : w = [call[c] EXCEPT !.pc = x] /\ w.pc = x
        BY <1>1, RecordMoved
    <1>3. call' = [call EXCEPT ![c] = w] BY <1>1, <1>2 DEF To
    <1> QED BY <1>2, <1>3

\* The plan of a super-step is read, and claimed once.
LEMMA PinClaimed ==
    ASSUME RoutesInv, NEW c \in Calls, ClaimPin(c), call[c].pc \in {"capture", "pin"},
           UNCHANGED <<captured, dispatch>>
    PROVE  /\ pin' \in [Steps -> 0..Plans] /\ Grows /\ Pinned(c) # 0 /\ Pinned(c) \in 0..Plans
           /\ (visit' = visit => RouteKept')
    <1>1. pin' = [pin EXCEPT ![Step[c]] = IF pin[Step[c]] = 0 THEN call[c].plan ELSE pin[Step[c]]]
        BY DEF ClaimPin
    <1>2. PICK n \in 0..Plans : /\ n = IF pin[Step[c]] = 0 THEN call[c].plan ELSE pin[Step[c]]
                                /\ n # 0
        <2>1. call[c].plan # 0 BY CallIs DEF CallFits
        <2> QED BY <2>1, CallIs
    <1>3. pin' = [pin EXCEPT ![Step[c]] = n] BY <1>1, <1>2
    <1>4. /\ pin' \in [Steps -> 0..Plans] /\ pin'[Step[c]] = n
          /\ \A s \in Steps : s # Step[c] => pin'[s] = pin[s]
        BY <1>3, CallIs
    <1>5. \A s \in Steps : pin[s] # 0 => pin'[s] = pin[s] BY <1>2, <1>4
    <1>6. Grows BY <1>5 DEF Grows
    <1>7. ASSUME visit' = visit PROVE RouteKept'
        <2>1. \A d \in Calls : Step[d] \in Steps BY DEF Steps
        <2>2. ASSUME NEW d \in Calls, dispatch[d] # Undecided
              PROVE  /\ dispatch[d].plan # 0 /\ dispatch[d].plan = pin'[Step[d]]
                     /\ dispatch[d].route \in RouteIds \cup {"skip"}
            BY <1>5, <2>1, <2>2 DEF RoutesInv, RouteKept
        <2>3. ASSUME NEW d \in Calls, captured[d] # 0 PROVE captured[d] = pin'[Step[d]]
            BY <1>5, <2>1, <2>3 DEF RoutesInv, RouteKept
        <2> QED BY <1>7, <2>2, <2>3 DEF RoutesInv, RouteKept
    <1> QED BY <1>2, <1>4, <1>6, <1>7 DEF Pinned

LEMMA ReadPlanIs ==
    ASSUME RoutesInv, NEW c \in Calls
    PROVE  ReadPlan(c) \in 0..Plans /\ ReadPlan(c) # 0
    <1>1. graph \in 0..Plans /\ graph # 0 BY CallIs, RoutesAssumption
    <1>2. pin[Step[c]] \in 0..Plans BY CallIs
    <1> QED BY <1>1, <1>2 DEF ReadPlan

LEMMA NothingRecorded ==
    ASSUME RoutesInv, UNCHANGED <<pin, captured, dispatch>>
    PROVE  /\ Grows /\ pin' \in [Steps -> 0..Plans] /\ captured' \in [Calls -> 0..Plans]
           /\ dispatch' \in [Calls -> Dispatches]
           /\ (visit' = visit => RouteKept')
    <1>1. /\ pin' \in [Steps -> 0..Plans] /\ captured' \in [Calls -> 0..Plans]
          /\ dispatch' \in [Calls -> Dispatches]
        BY DEF RoutesInv, RoutesTypeOK, Steps, Dispatches
    <1> QED BY <1>1, RouteSame DEF Grows, RoutesInv

\* What no step of a call before its visit touches.
aside == <<graph, visit, status, phase, run, lock, tasks, taken, aborting, active, changed,
           woken, fed, bound>>

LEMMA CallInvokes ==
    ASSUME RoutesInv, NEW c \in Calls, Invoke(c) PROVE RoutesInv'
    <1>1. phase = "serving" /\ call[c].pc = "idle" BY DEF Invoke
    <1>2. UNCHANGED aside /\ UNCHANGED <<pin, captured, dispatch>>
        BY DEF Invoke, aside, NotCalling, routing, launches, history
    <1>3. CASE c \in Tools /\ captured[c] = 0
        <2>1. PICK w \in CallRecords : w = [pc |-> "capture", plan |-> ReadPlan(c)]
                                       /\ w.pc = "capture" /\ w.plan # 0
            <3>1. PICK n \in 0..Plans : n = ReadPlan(c) /\ n # 0 BY ReadPlanIs
            <3> QED BY <3>1, RecordMade, StageNames
        <2>2. call' = [call EXCEPT ![c] = w] BY <1>3, <2>1 DEF Invoke
        <2>3. call'[c] = w BY <2>2, CallIs
        <2>4. CallFits(c)' BY <2>1, <2>3 DEF CallFits
        <2> QED BY <1>1, <1>2, <2>2, <2>4, NothingRecorded, CallMoves DEF aside
    <1>4. CASE ~(c \in Tools /\ captured[c] = 0)
        <2>0. To(c, "publish") BY <1>4 DEF Invoke
        <2>1. PICK w \in CallRecords : call' = [call EXCEPT ![c] = w] /\ w.pc = "publish"
            BY <2>0, CallPlaced, StageNames
        <2>2. call' = [call EXCEPT ![c] = w] BY <2>1
        <2>3. call'[c] = w BY <2>2, CallIs
        <2>4. CallFits(c)' BY <1>2, <1>4, <2>1, <2>3 DEF CallFits
        <2> QED BY <1>1, <1>2, <2>2, <2>4, NothingRecorded, CallMoves DEF aside
    <1> QED BY <1>3, <1>4

LEMMA CallPins ==
    ASSUME RoutesInv, NEW c \in Calls, Capture(c) \/ PinPlan(c) PROVE RoutesInv'
    <1>1. call[c].pc \in {"capture", "pin"} BY DEF Capture, PinPlan
    <1>2. phase = "serving" BY <1>1, Serving
    <1>3. ClaimPin(c) /\ UNCHANGED aside /\ UNCHANGED <<captured, dispatch>>
        BY DEF Capture, PinPlan, aside, NotCalling, launches, history
    <1>4. PICK w \in CallRecords : /\ call' = [call EXCEPT ![c] = w] /\ w.plan = Pinned(c)
                                   /\ w.pc \in {"capturing", "claim"}
        <2>1. PICK n \in 0..Plans : n = Pinned(c) BY <1>1, <1>3, PinClaimed
        <2>2. CASE Capture(c)
            <3>1. PICK w \in CallRecords : /\ w = [pc |-> "capturing", plan |-> n]
                                           /\ w.pc = "capturing" /\ w.plan = n
                BY RecordMade, StageNames
            <3> QED BY <2>1, <2>2, <3>1 DEF Capture
        <2>3. CASE PinPlan(c)
            <3>1. PICK w \in CallRecords : /\ w = [pc |-> "claim", plan |-> n]
                                           /\ w.pc = "claim" /\ w.plan = n
                BY RecordMade, StageNames
            <3> QED BY <2>1, <2>3, <3>1 DEF PinPlan
        <2> QED BY <2>2, <2>3
    <1>5. call'[c] = w BY <1>4, CallIs
    <1>6. CallFits(c)' BY <1>1, <1>3, <1>4, <1>5, PinClaimed DEF CallFits, Pinned
    <1>7. captured' \in [Calls -> 0..Plans] /\ dispatch' \in [Calls -> Dispatches]
        BY <1>3, CallIs
    <1> QED BY <1>1, <1>2, <1>3, <1>4, <1>6, <1>7, PinClaimed, CallMoves DEF aside

LEMMA CallCaptured ==
    ASSUME RoutesInv, NEW c \in Calls, Captured(c) PROVE RoutesInv'
    <1>1. call[c].pc = "capturing" /\ call' = [call EXCEPT ![c] = Idle]
          /\ captured' = [captured EXCEPT ![c] = call[c].plan]
        BY DEF Captured
    <1>2. phase = "serving" BY <1>1, Serving
    <1>3. UNCHANGED aside /\ UNCHANGED <<pin, dispatch>>
        BY DEF Captured, aside, NotCalling, launches, history
    <1>4. call[c].plan # 0 /\ call[c].plan = pin[Step[c]] BY <1>1, CallIs DEF CallFits
    <1>5. /\ captured' \in [Calls -> 0..Plans] /\ captured'[c] = call[c].plan
          /\ \A d \in Calls : d # c => captured'[d] = captured[d]
        BY <1>1, CallIs
    <1>6. captured[c] # 0 => captured[c] = pin[Step[c]] BY DEF RoutesInv, RouteKept
    <1>7. Grows BY <1>3, <1>4, <1>5, <1>6 DEF Grows
    <1>8. RouteKept'
        <2>1. \A d \in Calls : captured'[d] # 0 => captured'[d] = pin[Step[d]]
            BY <1>4, <1>5 DEF RoutesInv, RouteKept
        <2> QED BY <1>3, <2>1 DEF RoutesInv, RouteKept, aside
    <1>9. call'[c] = Idle BY <1>1, CallIs
    <1>10. CallFits(c)' BY <1>9, IdleIs DEF CallFits
    <1>11. pin' \in [Steps -> 0..Plans] /\ dispatch' \in [Calls -> Dispatches]
        BY <1>3, CallIs
    <1> QED BY <1>1, <1>2, <1>3, <1>5, <1>7, <1>8, <1>10, <1>11, IdleIs, CallMoves DEF aside

LEMMA CallPublished ==
    ASSUME RoutesInv, NEW c \in Calls, Published(c) PROVE RoutesInv'
    <1>1. call[c].pc = "publish" BY DEF Published
    <1>2. phase = "serving" BY <1>1, Serving
    <1>3. UNCHANGED aside /\ UNCHANGED <<pin, captured, dispatch>>
        BY DEF Published, aside, NotCalling, routing, launches, history
    <1>4. PICK w \in CallRecords :
            /\ call' = [call EXCEPT ![c] = w]
            /\ \/ w.pc = "visit" /\ dispatch[c] # Undecided
               \/ w.pc = "claim" /\ w.plan # 0 /\ w.plan = pin[Step[c]]
               \/ w.pc = "pin" /\ w.plan # 0
        <2>1. CASE dispatch[c] # Undecided
            <3>1. PICK w \in CallRecords : w = [pc |-> "visit", plan |-> 0] /\ w.pc = "visit"
                BY RecordMade, StageNames
            <3> QED BY <2>1, <3>1 DEF Published
        <2>2. CASE dispatch[c] = Undecided /\ c \in Tools
            <3>1. captured[c] # 0 BY <1>1, <2>2, CallIs DEF CallFits
            <3>2. captured[c] = pin[Step[c]] BY <3>1 DEF RoutesInv, RouteKept
            <3>3. PICK n \in 0..Plans : n = captured[c] /\ n # 0 BY <3>1, CallIs
            <3>4. PICK w \in CallRecords : /\ w = [pc |-> "claim", plan |-> n] /\ w.pc = "claim"
                                           /\ w.plan = n
                BY RecordMade, StageNames
            <3> QED BY <2>2, <3>2, <3>3, <3>4 DEF Published
        <2>3. CASE dispatch[c] = Undecided /\ c \notin Tools
            <3>1. PICK n \in 0..Plans : n = ReadPlan(c) /\ n # 0 BY ReadPlanIs
            <3>2. PICK w \in CallRecords : /\ w = [pc |-> "pin", plan |-> n] /\ w.pc = "pin"
                                           /\ w.plan = n
                BY RecordMade, StageNames
            <3> QED BY <2>3, <3>1, <3>2 DEF Published
        <2> QED BY <2>1, <2>2, <2>3
    <1>5. call'[c] = w BY <1>4, CallIs
    <1>6. CallFits(c)' BY <1>3, <1>4, <1>5 DEF CallFits
    <1> QED BY <1>1, <1>2, <1>3, <1>4, <1>6, NothingRecorded, CallMoves DEF aside

LEMMA CallStops ==
    ASSUME RoutesInv, NEW c \in Calls, CallFails(c) PROVE RoutesInv'
    <1>1. call[c].pc \in {"publish", "capturing"} BY DEF CallFails
    <1>2. phase = "serving" BY <1>1, Serving
    <1>3. UNCHANGED aside /\ UNCHANGED <<pin, captured, dispatch>>
        BY DEF CallFails, aside, NotCalling, routing, launches, history
    <1>4. PICK w \in CallRecords : call' = [call EXCEPT ![c] = w] /\ w.pc = "failed"
        <2>1. To(c, "failed") BY DEF CallFails
        <2> QED BY <2>1, CallPlaced, StageNames
    <1>5. call' = [call EXCEPT ![c] = w] BY <1>4
    <1>6. call'[c] = w BY <1>5, CallIs
    <1>7. CallFits(c)' BY <1>4, <1>6 DEF CallFits
    <1> QED BY <1>1, <1>2, <1>3, <1>5, <1>7, NothingRecorded, CallMoves DEF aside

LEMMA CallAnswered ==
    ASSUME RoutesInv, NEW c \in Calls, Answer(c) PROVE RoutesInv'
    <1>1. phase = "serving" /\ call[c].pc = "waiting" /\ call' = [call EXCEPT ![c] = Idle]
        BY DEF Answer
    <1>2. UNCHANGED aside /\ UNCHANGED <<pin, captured, dispatch>>
        BY DEF Answer, aside, NotCalling, routing, launches, history
    <1>3. call'[c] = Idle BY <1>1, CallIs
    <1>4. CallFits(c)' BY <1>3, IdleIs DEF CallFits
    <1> QED BY <1>1, <1>2, <1>4, IdleIs, NothingRecorded, CallMoves DEF aside

\* A call selects its route once.
LEMMA CallDispatches ==
    ASSUME RoutesInv, NEW c \in Calls, ClaimDispatch(c) PROVE RoutesInv'
    <1> DEFINE routes == Eligible[call[c].plan][c]
               fits == Cardinality(routes) = 1 \/ (routes = {} /\ c \in Conditions)
    <1>1. call[c].pc = "claim" BY DEF ClaimDispatch
    <1>2. phase = "serving" BY <1>1, Serving
    <1>3. UNCHANGED aside /\ UNCHANGED <<pin, captured>>
        BY DEF ClaimDispatch, aside, NotCalling, launches, history
    <1>4. call[c].plan # 0 /\ call[c].plan = pin[Step[c]] BY <1>1, CallIs DEF CallFits
    <1>5. routes \subseteq RouteIds
        <2>1. call[c].plan \in 1..Plans BY <1>4, CallIs, RoutesAssumption
        <2> QED BY <2>1, RoutesAssumption
    <1>6. CASE fits
        <2>1. PICK r \in RouteIds \cup {"skip"} :
                r = IF routes = {} THEN "skip" ELSE CHOOSE q \in routes : TRUE
            <3>1. routes # {} => (CHOOSE q \in routes : TRUE) \in routes OBVIOUS
            <3> QED BY <1>5, <3>1
        <2>2. PICK e \in Dispatches : /\ e = [plan |-> call[c].plan, route |-> r]
                                      /\ e.plan = call[c].plan /\ e.route = r
            BY CallIs, DispatchMade
        <2>3. e # Undecided BY <1>4, <2>2 DEF Undecided
        <2>4. PICK f \in Dispatches : f = IF dispatch[c] # Undecided THEN dispatch[c] ELSE e
            BY CallIs
        <2>5. dispatch' = [dispatch EXCEPT ![c] = f]
            BY <1>6, <2>1, <2>2, <2>4 DEF ClaimDispatch
        <2>6. /\ dispatch' \in [Calls -> Dispatches] /\ dispatch'[c] = f
              /\ \A d \in Calls : d # c => dispatch'[d] = dispatch[d]
            BY <2>5, CallIs
        <2>7. PICK w \in CallRecords : w = [pc |-> "visit", plan |-> 0] /\ w.pc = "visit"
            BY RecordMade, StageNames
        <2>8. call' = [call EXCEPT ![c] = w] BY <1>6, <2>7 DEF ClaimDispatch
        <2>9. call'[c] = w BY <2>8, CallIs
        <2>10. f # Undecided BY <2>3, <2>4
        <2>11. CallFits(c)' BY <2>6, <2>7, <2>9, <2>10 DEF CallFits
        <2>12. Grows BY <1>3, <2>4, <2>6 DEF Grows
        <2>13. RouteKept'
            <3>1. f.plan # 0 /\ f.plan = pin[Step[c]] /\ f.route \in RouteIds \cup {"skip"}
                BY <1>4, <2>1, <2>2, <2>4 DEF RoutesInv, RouteKept
            <3>2. \A d \in Calls : dispatch'[d] # Undecided =>
                    /\ dispatch'[d].plan # 0 /\ dispatch'[d].plan = pin[Step[d]]
                    /\ dispatch'[d].route \in RouteIds \cup {"skip"}
                BY <2>6, <3>1 DEF RoutesInv, RouteKept
            <3>3. ASSUME NEW v \in Visits, visit[v] # 0
                  PROVE  dispatch'[v[1]].plan = visit[v] /\ dispatch'[v[1]].route = v[2]
                <4>1. dispatch[v[1]].plan = visit[v] /\ dispatch[v[1]].route = v[2] /\ v[1] \in Calls
                    BY <3>3, VisitIs DEF RoutesInv, RouteKept
                <4>2. dispatch[v[1]] # Undecided BY <3>3, <4>1 DEF Undecided
                <4> QED BY <2>12, <4>1, <4>2 DEF Grows
            <3> QED BY <1>3, <3>2, <3>3 DEF RoutesInv, RouteKept, aside
        <2>14. pin' \in [Steps -> 0..Plans] /\ captured' \in [Calls -> 0..Plans]
            BY <1>3, CallIs
        <2> QED BY <1>1, <1>2, <1>3, <2>6, <2>8, <2>11, <2>12, <2>13, <2>14, CallMoves DEF aside
    <1>7. CASE ~fits
        <2>0. To(c, "failed") /\ dispatch' = dispatch BY <1>7 DEF ClaimDispatch
        <2>1. PICK w \in CallRecords : call' = [call EXCEPT ![c] = w] /\ w.pc = "failed"
            BY <2>0, CallPlaced, StageNames
        <2>2. call' = [call EXCEPT ![c] = w] /\ dispatch' = dispatch BY <2>0, <2>1
        <2>3. call'[c] = w BY <2>2, CallIs
        <2>4. CallFits(c)' BY <2>1, <2>3 DEF CallFits
        <2> QED BY <1>1, <1>2, <1>3, <2>2, <2>4, NothingRecorded, CallMoves DEF aside
    <1> QED BY <1>6, <1>7

-----------------------------------------------------------------------------
(***************************************************************************)
(* Runners: a run in place, and the launched ones that are counted.        *)
(***************************************************************************)
LEMMA RunIs ==
    ASSUME RoutesInv, NEW x \in Runners
    PROVE  /\ run \in [Runners -> RunStages] /\ run[x] \in RunStages
           /\ lock \in [Visits -> Runners \cup {Nobody}] /\ x[1] \in Visits
           /\ status \in [Visits -> {"none", "waiting", "running", "completed", "failed"}]
           /\ active \in Nat
    BY RunnerIs DEF RoutesInv, RoutesTypeOK

\* The runners that count, after a step of one of them.
LEMMA LiveMoves ==
    ASSUME RoutesInv, NEW x \in Runners, NEW s \in RunStages, run' = [run EXCEPT ![x] = s]
    PROVE  /\ run' \in [Runners -> RunStages] /\ run'[x] = s
           /\ \A y \in Runners : y # x => run'[y] = run[y]
           /\ x[2] = "inline" => Live' = Live
           /\ x[2] # "inline" /\ s \in {"off", "end"} => Live' = Live \ {x}
           /\ x[2] # "inline" /\ s \notin {"off", "end"} => Live' = Live \cup {x}
    <1>1. run \in [Runners -> RunStages] BY RunIs
    <1>2. /\ run' \in [Runners -> RunStages] /\ run'[x] = s
          /\ \A y \in Runners : y # x => run'[y] = run[y]
        BY <1>1
    <1>3. Live' = {y \in Runners : y[2] # "inline" /\ run'[y] \notin {"off", "end"}}
        BY DEF Live
    <1>4. x[2] = "inline" => Live' = Live BY <1>2, <1>3 DEF Live
    <1>5. x[2] # "inline" /\ s \in {"off", "end"} => Live' = Live \ {x} BY <1>2, <1>3 DEF Live
    <1>6. x[2] # "inline" /\ s \notin {"off", "end"} => Live' = Live \cup {x}
        BY <1>2, <1>3 DEF Live
    <1> QED BY <1>2, <1>4, <1>5, <1>6

LEMMA LiveCounts ==
    ASSUME RoutesInv, NEW x \in Runners
    PROVE  /\ active = Cardinality(Live)
           /\ x \in Live => Cardinality(Live \ {x}) = active - 1 /\ active - 1 \in Nat
           /\ x \notin Live => Cardinality(Live \cup {x}) = active + 1
           /\ x \in Live => Live \cup {x} = Live
           /\ x \notin Live => Live \ {x} = Live
           /\ active = 0 => Live = {}
    <1>1. active = Cardinality(Live) BY DEF RoutesInv, LaunchKept
    <1>2. IsFiniteSet(Live) /\ active \in Nat BY <1>1, LiveFinite
    <1>3. ASSUME x \in Live PROVE Cardinality(Live \ {x}) = active - 1 /\ active - 1 \in Nat
        <2>1. IsFiniteSet(Live \ {x}) /\ Cardinality(Live \ {x}) = Cardinality(Live) - 1
            BY <1>2, <1>3, FS_RemoveElement
        <2>2. Cardinality(Live \ {x}) \in Nat BY <2>1, FS_CardinalityType
        <2> QED BY <1>1, <2>1, <2>2
    <1>4. ASSUME x \notin Live PROVE Cardinality(Live \cup {x}) = active + 1
        BY <1>1, <1>2, <1>4, FS_AddElement
    <1>5. active = 0 => Live = {} BY <1>1, <1>2, FS_EmptySet
    <1> QED BY <1>1, <1>3, <1>4, <1>5

\* A step of a runner that has started and not ended.
LEMMA RunMoves ==
    ASSUME RoutesInv, NEW x \in Runners, NEW s \in RunStages \ {"off"},
           run[x] \notin {"off", "end"}, run' = [run EXCEPT ![x] = s],
           lock[x[1]] \in {x, Nobody}, lock' \in [Visits -> Runners \cup {Nobody}],
           \A v \in Visits : v # x[1] => lock'[v] = lock[v] /\ status'[v] = status[v],
           status' \in [Visits -> {"none", "waiting", "running", "completed", "failed"}],
           status'[x[1]] = status[x[1]] \/ ~Terminal(x[1]),
           s \in Held => lock'[x[1]] = x /\ status'[x[1]] # "completed",
           IF s = "end" /\ x[2] # "inline"
             THEN active' = active - 1 /\ changed' = (phase = "cleaning" \/ phase = "waiting")
             ELSE UNCHANGED <<active, changed>>,
           UNCHANGED <<graph, pin, captured, dispatch, visit, phase, call, tasks, taken, aborting,
                       woken>>,
           DOMAIN fed' = Visits, DOMAIN bound' = Visits, FedKept'
    PROVE  RoutesInv'
    <1>1. /\ run' \in [Runners -> RunStages] /\ run'[x] = s /\ x[1] \in Visits
          /\ \A y \in Runners : y # x => run'[y] = run[y]
        BY ZenonT(60), LiveMoves, RunnerIs
    <1>2. x[2] # "inline" => x \in Live BY DEF Live
    <1>3. s \notin {"off"} OBVIOUS
    <1>4. /\ active' = Cardinality(Live') /\ active' \in Nat
          /\ s = "end" /\ x[2] # "inline" => Live' = Live \ {x}
          /\ ~(s = "end" /\ x[2] # "inline") => Live' = Live
        <2>1. CASE s = "end" /\ x[2] # "inline"
            <3>1. Live' = Live \ {x} BY <2>1, LiveMoves
            <3>2. Cardinality(Live \ {x}) = active - 1 /\ active - 1 \in Nat
                BY <1>2, <2>1, LiveCounts
            <3> QED BY <2>1, <3>1, <3>2
        <2>2. CASE ~(s = "end" /\ x[2] # "inline")
            <3>1. Live' = Live BY <1>2, <1>3, <2>2, LiveMoves, LiveCounts
            <3> QED BY <2>2, <3>1, LiveCounts, RunIs
        <2> QED BY <2>1, <2>2
    <1>5. changed' \in BOOLEAN BY DEF RoutesInv, RoutesTypeOK
    <1>6. RoutesTypeOK' BY <1>1, <1>4, <1>5 DEF RoutesInv, RoutesTypeOK
    <1>7. LockKept'
        <2> SUFFICES ASSUME NEW y \in Runners, run'[y] \in Held
                     PROVE  lock'[y[1]] = y /\ status'[y[1]] # "completed"
            BY DEF LockKept, Terminal
        <2>1. CASE y = x BY <1>1, <2>1
        <2>2. CASE y # x
            <3>1. lock[y[1]] = y /\ status[y[1]] # "completed" /\ y[1] \in Visits
                BY <1>1, <2>2, RunnerIs DEF RoutesInv, LockKept, Terminal
            <3>2. y[1] # x[1] BY <2>2, <3>1, RunnerIs
            <3> QED BY <3>1, <3>2
        <2> QED BY <2>1, <2>2
    <1>8. LaunchKept'
        <2>1. \A y \in tasks \cup taken \cup aborting : y[2] # "inline" /\ run'[y] # "off"
            <3> SUFFICES ASSUME NEW y \in tasks \cup taken \cup aborting
                         PROVE  y[2] # "inline" /\ run'[y] # "off"
                OBVIOUS
            <3>1. y \in Runners BY DEF RoutesInv, RoutesTypeOK
            <3>2. y[2] # "inline" /\ run[y] # "off" BY DEF RoutesInv, LaunchKept
            <3> QED BY <1>1, <1>3, <3>1, <3>2
        <2>2. Live' \subseteq Live BY <1>4
        <2> QED BY <1>4, <2>1, <2>2 DEF RoutesInv, LaunchKept
    <1>9. InlineKept'
        <2> SUFFICES ASSUME NEW v \in Visits, run'[<<v, "inline">>] # "off"
                     PROVE  call[v[1]].pc = "running" /\ dispatch[v[1]].route = v[2]
            BY DEF InlineKept
        <2>1. <<v, "inline">> \in Runners BY RunnerIs DEF Slots
        <2>2. run[<<v, "inline">>] # "off" BY <1>1, <2>1
        <2> QED BY <2>2 DEF RoutesInv, InlineKept
    <1>10. PhaseKept'
        <2>1. \A y \in Runners : run'[y] # "off" => run[y] # "off" BY <1>1
        <2> QED BY <2>1 DEF RoutesInv, PhaseKept, Finished
    <1>11. LaunchesAccounted'
        <2>1. Unfinished' \subseteq Unfinished
            <3> SUFFICES ASSUME NEW v \in Visits, visit[v] # 0, Launched(v),
                                status'[v] # "completed"
                         PROVE  status[v] # "completed"
                BY DEF Unfinished, Terminal, Launched
            <3> QED BY DEF Terminal
        <2>2. LaunchesRespawned' BY <2>1 DEF RoutesInv, LaunchesAccounted, LaunchesRespawned
        <2>3. phase # "over" BY DEF RoutesInv, LaunchesAccounted, CleanupComplete
        <2>4. phase = "waiting" /\ active' = 0 => changed'
            BY DEF RoutesInv, LaunchesAccounted, CleanupComplete
        <2> QED BY <2>2, <2>3, <2>4 DEF LaunchesAccounted, CleanupComplete
    <1> QED BY <1>6, <1>7, <1>8, <1>9, <1>10, <1>11, RouteSame, CallSame DEF RoutesInv

\* run_visit leaves: the lock is released and a launched runner is not counted.
LEMMA RunLeaves ==
    ASSUME RoutesInv, NEW x \in Runners, Leave(x), run[x] \notin {"off", "end"},
           lock[x[1]] \in {x, Nobody},
           status' \in [Visits -> {"none", "waiting", "running", "completed", "failed"}],
           \A v \in Visits : v # x[1] => status'[v] = status[v],
           status'[x[1]] = status[x[1]] \/ ~Terminal(x[1]),
           UNCHANGED <<graph, pin, captured, dispatch, visit, phase, call, tasks, taken, aborting,
                       woken, fed, bound>>
    PROVE  RoutesInv'
    <1>0. PICK s \in RunStages \ {"off"} : s = "end" BY DEF RunStages
    <1>1. run' = [run EXCEPT ![x] = s] /\ lock' = [lock EXCEPT ![x[1]] = Nobody]
        BY <1>0 DEF Leave, Move
    <1>2. IF s = "end" /\ x[2] # "inline"
             THEN active' = active - 1 /\ changed' = (phase = "cleaning" \/ phase = "waiting")
             ELSE UNCHANGED <<active, changed>>
        BY <1>0 DEF Leave
    <1>3. /\ lock' \in [Visits -> Runners \cup {Nobody}]
          /\ \A v \in Visits : v # x[1] => lock'[v] = lock[v] /\ status'[v] = status[v]
        BY <1>1, RunIs
    <1>4. s \in Held => lock'[x[1]] = x /\ status'[x[1]] # "completed" BY <1>0 DEF Held
    <1>5. DOMAIN fed' = Visits /\ DOMAIN bound' = Visits BY DEF RoutesInv, RoutesTypeOK
    <1>6. FedKept' BY FedSame DEF RoutesInv
    <1> QED BY <1>1, <1>2, <1>3, <1>4, <1>5, <1>6, RunMoves

LEMMA HeldLock ==
    ASSUME RoutesInv, NEW x \in Runners, run[x] \in Held
    PROVE  lock[x[1]] = x /\ ~Terminal(x[1]) /\ run[x] \notin {"off", "end"}
    BY DEF RoutesInv, LockKept, Held

\* A stage under the lock.
LEMMA RunGoesOn ==
    ASSUME RoutesInv, NEW x \in Runners, NEW s \in Held, run[x] \notin {"off", "end"},
           run' = [run EXCEPT ![x] = s],
           lock[x[1]] \in {x, Nobody}, lock' = [lock EXCEPT ![x[1]] = x],
           status' \in [Visits -> {"none", "waiting", "running", "completed", "failed"}],
           \A v \in Visits : v # x[1] => status'[v] = status[v],
           ~Terminal(x[1]), status'[x[1]] # "completed",
           UNCHANGED <<active, changed, graph, pin, captured, dispatch, visit, phase, call, tasks,
                       taken, aborting, woken>>,
           DOMAIN fed' = Visits, DOMAIN bound' = Visits, FedKept'
    PROVE  RoutesInv'
    <1>1. /\ lock' \in [Visits -> Runners \cup {Nobody}] /\ lock'[x[1]] = x
          /\ \A v \in Visits : v # x[1] => lock'[v] = lock[v] /\ status'[v] = status[v]
        BY RunIs
    <1>2. s \in RunStages \ {"off"} /\ s # "end" BY DEF RunStages, Held
    <1>3. s \in Held => lock'[x[1]] = x /\ status'[x[1]] # "completed" BY <1>1
    <1>4. IF s = "end" /\ x[2] # "inline"
             THEN active' = active - 1 /\ changed' = (phase = "cleaning" \/ phase = "waiting")
             ELSE UNCHANGED <<active, changed>>
        BY <1>2
    <1>5. status'[x[1]] = status[x[1]] \/ ~Terminal(x[1]) OBVIOUS
    <1> QED BY <1>1, <1>2, <1>3, <1>4, <1>5, RunMoves

LEMMA LockUnmoved ==
    ASSUME RoutesInv, NEW x \in Runners, lock[x[1]] = x, lock' = lock
    PROVE  lock' = [lock EXCEPT ![x[1]] = x]
    BY RunIs

\* The input is bound once, and a fresh child is started with it.
LEMMA RunBinds ==
    ASSUME RoutesInv, NEW x \in Runners, RunBind(x) PROVE RoutesInv'
    <1> DEFINE v == x[1]
               r == IF ckpt[v] = 0 THEN CaptureInput(v) ELSE bound[v]
    <1>1. run[x] = "bind" BY DEF RunBind
    <1>2. lock[v] = x /\ ~Terminal(v) /\ run[x] \notin {"off", "end"}
        BY <1>1, HeldLock DEF Held
    <1>3. UNCHANGED <<graph, pin, captured, dispatch, visit, phase, call, tasks, taken, aborting,
                      woken>>
        BY DEF RunBind, NotRunning
    <1>4. v \in Visits BY RunnerIs
    <1>5. CASE r = None
        <2>1. Leave(x) /\ status' = [status EXCEPT ![v] = "waiting"] /\ UNCHANGED <<bound, fed>>
            BY <1>5 DEF RunBind
        <2>2. /\ status' \in [Visits -> {"none", "waiting", "running", "completed", "failed"}]
              /\ \A u \in Visits : u # v => status'[u] = status[u]
            BY <2>1, RunIs
        <2> QED BY <1>2, <1>3, <2>1, <2>2, RunLeaves
    <1>6. CASE r # None
        <2>1. /\ run' = [run EXCEPT ![x] = "child"] /\ UNCHANGED <<lock, active, changed>>
              /\ bound' = [bound EXCEPT ![v] = r] /\ status' = [status EXCEPT ![v] = "running"]
              /\ fed' = [fed EXCEPT ![v] = IF ckpt[v] = 0 THEN fed[v] \cup {r} ELSE fed[v]]
            BY <1>6 DEF RunBind, Move, Stay
        <2>2. /\ status' \in [Visits -> {"none", "waiting", "running", "completed", "failed"}]
              /\ status'[v] = "running"
              /\ \A u \in Visits : u # v => status'[u] = status[u]
            BY <1>4, <2>1, RunIs
        <2>3. DOMAIN fed = Visits /\ DOMAIN bound = Visits BY DEF RoutesInv, RoutesTypeOK
        <2>4. /\ DOMAIN fed' = Visits /\ DOMAIN bound' = Visits /\ bound'[v] = r
              /\ fed'[v] = IF ckpt[v] = 0 THEN fed[v] \cup {r} ELSE fed[v]
              /\ \A u \in Visits : u # v => fed'[u] = fed[u] /\ bound'[u] = bound[u]
            BY <1>4, <2>1, <2>3
        <2>5. bound[v] # None => r = bound[v] BY DEF CaptureInput
        <2>6. \A q \in fed'[v] : q = r
            <3>1. \A q \in fed[v] : q = bound[v] /\ bound[v] # None
                BY <1>4 DEF RoutesInv, FedKept
            <3> QED BY <2>4, <2>5, <3>1
        <2>7. FedKept'
            <3> SUFFICES ASSUME NEW u \in Visits
                         PROVE  /\ \A q \in fed'[u] : q = bound'[u]
                                /\ bound'[u] = None => fed'[u] = {}
                BY DEF FedKept
            <3>1. CASE u = v BY <1>6, <2>4, <2>6, <3>1
            <3>2. CASE u # v BY <2>4, <3>2 DEF RoutesInv, FedKept
            <3> QED BY <3>1, <3>2
        <2>8. lock' = [lock EXCEPT ![x[1]] = x] BY <1>2, <2>1, LockUnmoved
        <2>9. "child" \in Held BY DEF Held
        <2> QED BY <1>2, <1>3, <2>1, <2>2, <2>4, <2>7, <2>8, <2>9, RunGoesOn
    <1> QED BY <1>5, <1>6

LEMMA RunStep ==
    ASSUME RoutesInv, NEW x \in Runners, Running(x) PROVE RoutesInv'
    <1>0. /\ DOMAIN fed = Visits /\ DOMAIN bound = Visits /\ FedKept /\ x[1] \in Visits
          /\ status \in [Visits -> {"none", "waiting", "running", "completed", "failed"}]
        BY RunnerIs DEF RoutesInv, RoutesTypeOK
    <1>1. CASE RunStart(x)
        <2>1. /\ run[x] = "lock" /\ lock[x[1]] = Nobody
              /\ UNCHANGED <<graph, pin, captured, dispatch, visit, phase, call, tasks, taken,
                             aborting, woken, status, bound, fed>>
            BY <1>1 DEF RunStart, NotRunning
        <2>2. FedKept' BY <1>0, <2>1, FedSame
        <2>3. CASE Terminal(x[1])
            <3>1. Leave(x) BY <1>1, <2>3 DEF RunStart
            <3> QED BY <1>0, <2>1, <3>1, RunLeaves
        <2>4. CASE ~Terminal(x[1])
            <3>1. /\ lock' = [lock EXCEPT ![x[1]] = x] /\ run' = [run EXCEPT ![x] = "bind"]
                  /\ UNCHANGED <<active, changed>>
                BY <1>1, <2>4 DEF RunStart, Move
            <3>2. "bind" \in Held BY DEF Held
            <3>3. status'[x[1]] # "completed" BY <2>1, <2>4 DEF Terminal
            <3> QED BY <1>0, <2>1, <2>2, <2>4, <3>1, <3>2, <3>3, RunGoesOn
        <2> QED BY <2>3, <2>4
    <1>2. CASE RunBind(x) BY <1>2, RunBinds
    <1>3. CASE ChildWaits(x) \/ ChildFails(x)
        <2>1. /\ run[x] = "child" /\ Leave(x)
              /\ UNCHANGED <<graph, pin, captured, dispatch, visit, phase, call, tasks, taken,
                             aborting, woken, bound, fed>>
              /\ \/ status' = [status EXCEPT ![x[1]] = "waiting"]
                 \/ status' = [status EXCEPT ![x[1]] = "failed"]
            BY <1>3 DEF ChildWaits, ChildFails, NotRunning
        <2>2. lock[x[1]] = x /\ ~Terminal(x[1]) /\ run[x] \notin {"off", "end"}
            BY <2>1, HeldLock DEF Held
        <2>3. /\ status' \in [Visits -> {"none", "waiting", "running", "completed", "failed"}]
              /\ \A u \in Visits : u # x[1] => status'[u] = status[u]
            BY <1>0, <2>1
        <2> QED BY <2>1, <2>2, <2>3, RunLeaves
    <1>4. CASE ChildEnds(x)
        <2>1. /\ run[x] = "child" /\ run' = [run EXCEPT ![x] = "publish"]
              /\ UNCHANGED <<graph, pin, captured, dispatch, visit, phase, call, tasks, taken,
                             aborting, woken, bound, fed, lock, active, changed, status>>
            BY <1>4 DEF ChildEnds, NotRunning, Stay, Move
        <2>2. lock[x[1]] = x /\ ~Terminal(x[1]) /\ run[x] \notin {"off", "end"}
            BY <2>1, HeldLock DEF Held
        <2>3. lock' = [lock EXCEPT ![x[1]] = x] BY <2>1, <2>2, LockUnmoved
        <2>4. "publish" \in Held BY DEF Held
        <2>5. status'[x[1]] # "completed" BY <2>1, <2>2 DEF Terminal
        <2>6. FedKept' BY <1>0, <2>1, FedSame
        <2> QED BY <1>0, <2>1, <2>2, <2>3, <2>4, <2>5, <2>6, RunGoesOn
    <1>5. CASE RunEnds(x)
        <2>1. /\ run[x] = "publish" /\ Leave(x)
              /\ UNCHANGED <<graph, pin, captured, dispatch, visit, phase, call, tasks, taken,
                             aborting, woken, bound, fed>>
              /\ \/ status' = [status EXCEPT ![x[1]] = "completed"]
                 \/ status' = [status EXCEPT ![x[1]] = "failed"]
            BY <1>5 DEF RunEnds, NotRunning
        <2>2. lock[x[1]] = x /\ ~Terminal(x[1]) /\ run[x] \notin {"off", "end"}
            BY <2>1, HeldLock DEF Held
        <2>3. /\ status' \in [Visits -> {"none", "waiting", "running", "completed", "failed"}]
              /\ \A u \in Visits : u # x[1] => status'[u] = status[u]
            BY <1>0, <2>1
        <2> QED BY <2>1, <2>2, <2>3, RunLeaves
    <1> QED BY <1>1, <1>2, <1>3, <1>4, <1>5 DEF Running

-----------------------------------------------------------------------------
(***************************************************************************)
(* A call that runs its visit in place or launches it.                     *)
(***************************************************************************)

\* A visit of a call is the one it was dispatched to.
LEMMA CallTurns ==
    ASSUME RoutesInv, NEW c \in Calls, NEW w \in CallRecords, call' = [call EXCEPT ![c] = w],
           phase = "serving",
           UNCHANGED <<graph, pin, captured, dispatch, status, phase, lock, taken, aborting,
                       changed, fed, bound>>,
           visit' \in [Visits -> 0..Plans], run' \in [Runners -> RunStages],
           tasks' \subseteq Runners, active' \in Nat, woken' \subseteq Visits,
           RouteKept', CallFits(c)', LockKept', LaunchKept', InlineKept', LaunchesRespawned'
    PROVE  RoutesInv'
    <1>1. call \in [Calls -> CallRecords] BY CallIs
    <1>2. call'[c] = w /\ \A d \in Calls : d # c => call'[d] = call[d] BY <1>1
    <1>3. call' \in [Calls -> CallRecords] BY <1>1
    <1>4. RoutesTypeOK' BY <1>3 DEF RoutesInv, RoutesTypeOK, CallRecords
    <1>5. Grows BY DEF Grows
    <1>6. CallKept' BY <1>2, <1>5, OthersFit DEF CallKept
    <1>7. PhaseKept' BY DEF RoutesInv, PhaseKept
    <1>8. LaunchesAccounted' BY DEF LaunchesAccounted, CleanupComplete
    <1> QED BY <1>4, <1>6, <1>7, <1>8, FedSame DEF RoutesInv

LEMMA InlineIs ==
    ASSUME NEW v \in Visits
    PROVE  \E x \in Runners : x = <<v, "inline">> /\ x[1] = v /\ x[2] = "inline"
    <1>1. /\ <<v, "inline">> \in Runners /\ <<v, "inline">>[1] = v
          /\ <<v, "inline">>[2] = "inline"
        BY RunnerIs DEF Slots
    <1> QED BY <1>1

LEMMA LockUnheld ==
    ASSUME RoutesInv, NEW x \in Runners, NEW s \in RunStages \ Held,
           run' = [run EXCEPT ![x] = s], UNCHANGED <<lock, status>>
    PROVE  LockKept'
    <1>1. run'[x] = s /\ \A y \in Runners : y # x => run'[y] = run[y] BY LiveMoves
    <1> QED BY <1>1 DEF RoutesInv, LockKept, Terminal

\* A run in place has no handle and is not counted.
LEMMA InlineUncounted ==
    ASSUME RoutesInv, NEW x \in Runners, x[2] = "inline", NEW s \in RunStages,
           run' = [run EXCEPT ![x] = s], UNCHANGED <<tasks, taken, aborting, active>>
    PROVE  LaunchKept'
    <1>1. /\ run'[x] = s /\ \A y \in Runners : y # x => run'[y] = run[y]
          /\ Live' = Live
        BY LiveMoves
    <1>2. \A y \in tasks \cup taken \cup aborting : y[2] # "inline" /\ run'[y] # "off"
        <2> SUFFICES ASSUME NEW y \in tasks \cup taken \cup aborting
                     PROVE  y[2] # "inline" /\ run'[y] # "off"
            OBVIOUS
        <2>1. y \in Runners BY DEF RoutesInv, RoutesTypeOK
        <2>2. y[2] # "inline" /\ run[y] # "off" BY DEF RoutesInv, LaunchKept
        <2> QED BY <1>1, <2>1, <2>2
    <1> QED BY <1>1, <1>2 DEF RoutesInv, LaunchKept

\* A run in place starts or ends with its call.
LEMMA InlineMoves ==
    ASSUME RoutesInv, NEW c \in Calls, NEW r \in RouteIds, NEW s \in {"lock", "off"},
           NEW w \in CallRecords,
           dispatch[c].route = r, dispatch' = dispatch, call' = [call EXCEPT ![c] = w],
           run' = [run EXCEPT ![<<<<c, r>>, "inline">>] = s],
           s = "lock" => w.pc = "running"
    PROVE  InlineKept'
    <1>1. PICK v \in Visits : v = <<c, r>> /\ v[1] = c /\ v[2] = r BY VisitIs
    <1>2. PICK x \in Runners : x = <<v, "inline">> /\ x[1] = v /\ x[2] = "inline"
        BY InlineIs
    <1>3. run'[x] = s /\ \A y \in Runners : y # x => run'[y] = run[y]
        <2>1. s \in RunStages BY DEF RunStages
        <2> QED BY <1>1, <1>2, <2>1, LiveMoves
    <1>4. call'[c] = w /\ \A d \in Calls : d # c => call'[d] = call[d] BY CallIs
    <1> SUFFICES ASSUME NEW u \in Visits, run'[<<u, "inline">>] # "off"
                 PROVE  call'[u[1]].pc = "running" /\ dispatch[u[1]].route = u[2]
        BY DEF InlineKept
    <1>5. /\ <<u, "inline">> \in Runners /\ <<u, "inline">>[1] = u /\ u[1] \in Calls
          /\ u = <<u[1], u[2]>>
        BY RunnerIs, VisitIs DEF Slots
    <1>6. CASE u = v BY <1>1, <1>2, <1>3, <1>4, <1>6
    <1>7. CASE u # v
        <2>1. <<u, "inline">> # x BY <1>2, <1>5, <1>7
        <2>2. run[<<u, "inline">>] # "off" BY <1>3, <1>5, <2>1
        <2>3. call[u[1]].pc = "running" /\ dispatch[u[1]].route = u[2]
            BY <2>2 DEF RoutesInv, InlineKept
        <2>4. u[1] # c BY <1>1, <1>5, <1>7, <2>3
        <2> QED BY <1>4, <1>5, <2>3, <2>4
    <1> QED BY <1>6, <1>7

\* The visit of a call is recorded once, with the plan of its dispatch.
LEMMA VisitRecorded ==
    ASSUME RoutesInv, NEW c \in Calls, NEW v \in Visits, v[1] = c, v[2] = dispatch[c].route,
           dispatch[c] # Undecided, UNCHANGED <<pin, captured, dispatch>>,
           visit' = [visit EXCEPT ![v] = IF visit[v] = 0 THEN dispatch[c].plan ELSE visit[v]]
    PROVE  /\ visit' \in [Visits -> 0..Plans] /\ RouteKept'
           /\ \A u \in Visits : u # v => visit'[u] = visit[u]
    <1>1. visit \in [Visits -> 0..Plans] BY DEF RoutesInv, RoutesTypeOK
    <1>2. PICK n \in 0..Plans : n = IF visit[v] = 0 THEN dispatch[c].plan ELSE visit[v]
        BY <1>1, CallIs DEF Dispatches
    <1>3. /\ visit' \in [Visits -> 0..Plans] /\ visit'[v] = n
          /\ \A u \in Visits : u # v => visit'[u] = visit[u]
        BY <1>1, <1>2
    <1>4. dispatch[c].plan = n /\ dispatch[c].route = v[2]
        BY <1>2 DEF RoutesInv, RouteKept
    <1>5. \A u \in Visits : visit'[u] # 0 =>
            dispatch[u[1]].plan = visit'[u] /\ dispatch[u[1]].route = u[2]
        BY <1>3, <1>4 DEF RoutesInv, RouteKept
    <1> QED BY <1>3, <1>5 DEF RoutesInv, RouteKept

LEMMA CallVisits ==
    ASSUME RoutesInv, NEW c \in Calls, Visit(c) PROVE RoutesInv'
    <1>1. call[c].pc = "visit" BY DEF Visit
    <1>2. phase = "serving" BY <1>1, Serving
    <1>3. UNCHANGED <<graph, pin, captured, dispatch, status, phase, lock, tasks, taken, aborting,
                      active, changed, woken, fed, bound>>
        BY DEF Visit, NotCalling, launches, history
    <1>4. dispatch[c] # Undecided BY <1>1, CallIs DEF CallFits
    <1>5. CASE dispatch[c].route = "skip"
        <2>1. To(c, "done") /\ UNCHANGED <<visit, run>> BY <1>5 DEF Visit
        <2>2. PICK w \in CallRecords : call' = [call EXCEPT ![c] = w] /\ w.pc = "done"
            BY <2>1, CallPlaced, StageNames
        <2>3. call' = [call EXCEPT ![c] = w] BY <2>2
        <2>4. call'[c] = w BY <2>3, CallIs
        <2>5. CallFits(c)' BY <1>3, <1>4, <2>2, <2>4 DEF CallFits
        <2> QED BY <1>1, <1>2, <1>3, <2>1, <2>3, <2>5, NothingRecorded, CallMoves
    <1>6. CASE dispatch[c].route # "skip"
        <2>1. PICK r \in RouteIds : r = dispatch[c].route
            BY <1>4, <1>6 DEF RoutesInv, RouteKept
        <2>2. PICK v \in Visits : v = <<c, r>> /\ v[1] = c /\ v[2] = r BY VisitIs
        <2>3. visit' = [visit EXCEPT ![v] = IF visit[v] = 0 THEN dispatch[c].plan ELSE visit[v]]
            BY <1>6, <2>1, <2>2 DEF Visit
        <2>4. /\ visit' \in [Visits -> 0..Plans] /\ RouteKept'
              /\ \A u \in Visits : u # v => visit'[u] = visit[u]
            BY <1>3, <1>4, <2>1, <2>2, <2>3, VisitRecorded
        <2>5. /\ tasks' \subseteq Runners /\ active' \in Nat /\ woken' \subseteq Visits
              /\ run \in [Runners -> RunStages]
            BY <1>3 DEF RoutesInv, RoutesTypeOK
        <2>6. ASSUME NEW u \in Unfinished', u # v PROVE u \in Unfinished
            BY <1>3, <2>4, <2>6 DEF Unfinished, Terminal, Launched
        <2>7. ASSUME NEW w \in CallRecords, call' = [call EXCEPT ![c] = w],
                     v \in Unfinished' => w.pc = "spawn"
              PROVE  LaunchesRespawned'
            <3>1. call'[c] = w /\ \A d \in Calls : d # c => call'[d] = call[d]
                BY <2>7, CallIs
            <3> SUFFICES ASSUME NEW u \in Unfinished'
                         PROVE  u \in woken' \/ call'[u[1]].pc = "spawn"
                BY DEF LaunchesRespawned
            <3>2. CASE u = v BY <2>2, <2>7, <3>1, <3>2
            <3>3. CASE u # v
                <4>1. u \in Unfinished BY <2>6, <3>3
                <4>2. u \in woken \/ call[u[1]].pc = "spawn"
                    BY <1>2, <4>1 DEF RoutesInv, LaunchesAccounted, LaunchesRespawned
                <4>3. u[1] \in Calls BY <4>1, VisitIs DEF Unfinished
                <4> QED BY <1>1, <1>3, <3>1, <4>2, <4>3
            <3> QED BY <3>2, <3>3
        <2>8. CASE Launched(v)
            <3>1. To(c, "spawn") /\ run' = run BY <1>6, <2>1, <2>2, <2>8 DEF Visit
            <3>2. PICK w \in CallRecords : call' = [call EXCEPT ![c] = w] /\ w.pc = "spawn"
                BY <3>1, CallPlaced, StageNames
            <3>3. call' = [call EXCEPT ![c] = w] BY <3>2
            <3>4. call'[c] = w /\ \A d \in Calls : d # c => call'[d] = call[d] BY <3>3, CallIs
            <3>5. CallFits(c)' BY <1>3, <1>4, <2>1, <3>2, <3>4 DEF CallFits
            <3>6. LaunchesRespawned' BY <2>7, <3>2, <3>3
            <3>7. InlineKept'
                BY <1>1, <1>3, <3>1, <3>4, VisitIs DEF RoutesInv, InlineKept
            <3>8. LockKept' /\ LaunchKept' BY <1>3, <3>1, LockSame, LaunchSame DEF RoutesInv
            <3>9. run' \in [Runners -> RunStages] BY <2>5, <3>1
            <3> QED BY <1>2, <1>3, <2>4, <2>5, <3>3, <3>5, <3>6, <3>7, <3>8, <3>9, CallTurns
        <2>9. CASE ~Launched(v)
            <3>1. To(c, "running") /\ run' = [run EXCEPT ![<<<<c, r>>, "inline">>] = "lock"]
                BY <1>6, <2>1, <2>2, <2>9 DEF Visit
            <3>2. PICK w \in CallRecords : call' = [call EXCEPT ![c] = w] /\ w.pc = "running"
                BY <3>1, CallPlaced, StageNames
            <3>3. call' = [call EXCEPT ![c] = w] BY <3>2
            <3>4. call'[c] = w BY <3>3, CallIs
            <3>5. CallFits(c)' BY <1>3, <1>4, <2>1, <3>2, <3>4 DEF CallFits
            <3>6. v \notin Unfinished' BY <2>9 DEF Unfinished, Launched
            <3>7. LaunchesRespawned' BY <2>7, <3>3, <3>6
            <3>8. InlineKept' BY <1>3, <2>1, <3>1, <3>2, <3>3, InlineMoves
            <3>9. PICK x \in Runners : x = <<v, "inline">> /\ x[1] = v /\ x[2] = "inline"
                BY InlineIs
            <3>10. PICK s \in RunStages \ Held : s = "lock" BY DEF RunStages, Held
            <3>11. run' = [run EXCEPT ![x] = s] BY <2>2, <3>1, <3>9, <3>10
            <3>12. LockKept' BY <1>3, <3>11, LockUnheld
            <3>13. LaunchKept' BY <1>3, <3>9, <3>11, InlineUncounted
            <3>14. run' \in [Runners -> RunStages] BY <3>11, LiveMoves
            <3> QED BY <1>2, <1>3, <2>4, <2>5, <3>3, <3>5, <3>7, <3>8, <3>12, <3>13, <3>14,
                       CallTurns
        <2> QED BY <2>8, <2>9
    <1> QED BY <1>5, <1>6

\* spawn_visit: one handle, one more active launch, or nothing.
LEMMA SpawnCounts ==
    ASSUME RoutesInv, NEW v \in Visits, Spawned(v), CanSpawn(v),
           UNCHANGED <<lock, status, taken, aborting>>
    PROVE  /\ run' \in [Runners -> RunStages] /\ tasks' \subseteq Runners /\ active' \in Nat
           /\ LockKept' /\ LaunchKept'
           /\ \A u \in Visits : run'[<<u, "inline">>] = run[<<u, "inline">>]
           /\ \A y \in Runners : run'[y] # "off" => run[y] # "off" \/ y[1] = v
    <1>0. /\ run \in [Runners -> RunStages] /\ tasks \subseteq Runners /\ taken \subseteq Runners
          /\ aborting \subseteq Runners /\ active \in Nat
        BY DEF RoutesInv, RoutesTypeOK
    <1>1. CASE Terminal(v) \/ \E x \in tasks : x[1] = v
        <2>1. UNCHANGED <<run, tasks, active>> BY <1>1 DEF Spawned
        <2> QED BY <1>0, <2>1, LockSame, LaunchSame DEF RoutesInv
    <1>2. CASE ~(Terminal(v) \/ \E x \in tasks : x[1] = v)
        <2>1. PICK f : f = FreeSlot(v) OBVIOUS
        <2>2. f \in {"task", "again"} /\ run[<<v, f>>] = "off"
            <3>1. \E s \in {"task", "again"} :
                    run[<<v, s>>] = "off" /\ (run[<<v, "task">>] = "off" => s = "task")
                BY DEF CanSpawn
            <3> QED BY <2>1, <3>1 DEF FreeSlot
        <2>3. PICK x \in Runners : x = <<v, f>> /\ x[1] = v /\ x[2] = f
            <3>1. <<v, f>> \in Runners /\ <<v, f>>[1] = v /\ <<v, f>>[2] = f
                BY <2>2, RunnerIs DEF Slots
            <3> QED BY <3>1
        <2>4. PICK s \in RunStages \ Held : s = "lock" BY DEF RunStages, Held
        <2>5. run' = [run EXCEPT ![x] = s] /\ tasks' = tasks \cup {x} /\ active' = active + 1
            BY <1>2, <2>1, <2>3, <2>4 DEF Spawned
        <2>6. x[2] # "inline" /\ run[x] = "off" BY <2>2, <2>3
        <2>7. /\ run' \in [Runners -> RunStages] /\ run'[x] = s
              /\ \A y \in Runners : y # x => run'[y] = run[y]
              /\ Live' = Live \cup {x}
            BY ZenonT(60), <2>4, <2>5, <2>6, LiveMoves
        <2>8. x \notin Live BY <2>6 DEF Live
        <2>9. active' = Cardinality(Live') /\ active' \in Nat
            <3>1. Cardinality(Live \cup {x}) = active + 1 BY <2>8, LiveCounts
            <3>2. Cardinality(Live') = active + 1 BY <2>7, <3>1
            <3> QED BY <1>0, <2>5, <3>2
        <2>10. x \notin tasks \cup taken \cup aborting BY <2>6 DEF RoutesInv, LaunchKept
        <2>11. \A y \in tasks' \cup taken' \cup aborting' : y[2] # "inline" /\ run'[y] # "off"
            <3> SUFFICES ASSUME NEW y \in tasks' \cup taken' \cup aborting'
                         PROVE  y[2] # "inline" /\ run'[y] # "off"
                OBVIOUS
            <3>1. CASE y = x BY <2>4, <2>6, <2>7, <3>1
            <3>2. CASE y # x
                <4>1. y \in tasks \cup taken \cup aborting BY <2>5, <3>2
                <4>2. y \in Runners BY <1>0, <4>1
                <4>3. y[2] # "inline" /\ run[y] # "off" BY <4>1 DEF RoutesInv, LaunchKept
                <4> QED BY <2>7, <3>2, <4>2, <4>3
            <3> QED BY <3>1, <3>2
        <2>12. Live' \subseteq tasks' \cup taken' \cup aborting'
            BY <2>5, <2>7 DEF RoutesInv, LaunchKept
        <2>13. /\ \A y \in tasks' : y \notin taken' /\ y \notin aborting'
               /\ \A y \in taken' : y \notin aborting'
            BY <2>5, <2>10 DEF RoutesInv, LaunchKept
        <2>14. LaunchKept' BY <2>9, <2>11, <2>12, <2>13 DEF LaunchKept
        <2>15. LockKept' BY <2>5, LockUnheld
        <2>16. \A u \in Visits : run'[<<u, "inline">>] = run[<<u, "inline">>]
            <3> SUFFICES ASSUME NEW u \in Visits
                         PROVE  run'[<<u, "inline">>] = run[<<u, "inline">>]
                OBVIOUS
            <3>1. PICK y \in Runners : y = <<u, "inline">> /\ y[1] = u /\ y[2] = "inline"
                BY InlineIs
            <3> QED BY <2>6, <2>7, <3>1
        <2>17. tasks' \subseteq Runners BY <1>0, <2>5
        <2>18. \A y \in Runners : run'[y] # "off" => run[y] # "off" \/ y[1] = v
            BY <2>3, <2>7
        <2> QED BY <2>7, <2>9, <2>14, <2>15, <2>16, <2>17, <2>18
    <1> QED BY <1>1, <1>2

\* A call awaits at most the visit it was dispatched to.
LEMMA CallSpawns ==
    ASSUME RoutesInv, NEW c \in Calls, Spawn(c) PROVE RoutesInv'
    <1>1. call[c].pc = "spawn" /\ To(c, "done") BY DEF Spawn
    <1>2. phase = "serving" BY <1>1, Serving
    <1>3. UNCHANGED <<graph, pin, captured, dispatch, visit, status, phase, lock, taken, aborting,
                      changed, fed, bound>>
        BY DEF Spawn, NotCalling, routing
    <1>4. dispatch[c] # Undecided /\ dispatch[c].route \in RouteIds
        BY <1>1, CallIs DEF CallFits
    <1>5. PICK v \in Visits : v = <<c, dispatch[c].route>> /\ v[1] = c /\ v[2] = dispatch[c].route
        <2>1. PICK r \in RouteIds : r = dispatch[c].route BY <1>4
        <2>2. <<c, r>> \in Visits /\ <<c, r>>[1] = c /\ <<c, r>>[2] = r BY VisitIs
        <2> QED BY <2>1, <2>2
    <1>6. Spawned(v) /\ CanSpawn(v) /\ woken' = woken \cup {v} BY <1>5 DEF Spawn
    <1>7. PICK w \in CallRecords : call' = [call EXCEPT ![c] = w] /\ w.pc = "done"
        BY <1>1, CallPlaced, StageNames
    <1>8. call' = [call EXCEPT ![c] = w] BY <1>7
    <1>9. call'[c] = w /\ \A d \in Calls : d # c => call'[d] = call[d] BY <1>8, CallIs
    <1>10. CallFits(c)' BY <1>3, <1>4, <1>7, <1>9 DEF CallFits
    <1>11. /\ run' \in [Runners -> RunStages] /\ tasks' \subseteq Runners /\ active' \in Nat
           /\ LockKept' /\ LaunchKept'
           /\ \A u \in Visits : run'[<<u, "inline">>] = run[<<u, "inline">>]
        BY <1>3, <1>6, SpawnCounts
    <1>12. InlineKept'
        <2> SUFFICES ASSUME NEW u \in Visits, run'[<<u, "inline">>] # "off"
                     PROVE  call'[u[1]].pc = "running" /\ dispatch'[u[1]].route = u[2]
            BY DEF InlineKept
        <2>1. call[u[1]].pc = "running" /\ dispatch[u[1]].route = u[2] /\ u[1] \in Calls
            BY <1>11, VisitIs DEF RoutesInv, InlineKept
        <2> QED BY <1>1, <1>3, <1>9, <2>1
    <1>13. LaunchesRespawned'
        <2> SUFFICES ASSUME NEW u \in Unfinished'
                     PROVE  u \in woken' \/ call'[u[1]].pc = "spawn"
            BY DEF LaunchesRespawned
        <2>1. u \in Unfinished BY <1>3 DEF Unfinished, Terminal, Launched
        <2>2. u \in Visits /\ visit[u] # 0 BY <2>1 DEF Unfinished
        <2>3. u \in woken \/ call[u[1]].pc = "spawn"
            BY <1>2, <2>1 DEF RoutesInv, LaunchesAccounted, LaunchesRespawned
        <2>4. u[1] = c => u = v
            <3>1. dispatch[u[1]].route = u[2] BY <2>2 DEF RoutesInv, RouteKept
            <3> QED BY <1>5, <2>2, <3>1, VisitIs
        <2> QED BY <1>6, <1>9, <2>2, <2>3, <2>4, VisitIs
    <1>14. visit' \in [Visits -> 0..Plans] /\ woken' \subseteq Visits
        BY <1>3, <1>6 DEF RoutesInv, RoutesTypeOK
    <1>15. RouteKept' BY <1>3, RouteSame DEF RoutesInv
    <1> QED BY <1>2, <1>3, <1>8, <1>10, <1>11, <1>12, <1>13, <1>14, <1>15, CallTurns

\* A run in place starts (await_visit) or has ended (its caller goes on).
LEMMA CallInPlace ==
    ASSUME RoutesInv, NEW c \in Calls, AwaitVisit(c) \/ Return(c) PROVE RoutesInv'
    <1>1. call[c].pc \in {"done", "running"} BY DEF AwaitVisit, Return
    <1>2. phase = "serving" BY <1>1, Serving DEF AwaitVisit, Return
    <1>3. UNCHANGED <<graph, pin, captured, dispatch, visit, status, phase, lock, tasks, taken,
                      aborting, active, changed, woken, fed, bound>>
        BY DEF AwaitVisit, Return, NotCalling, routing, launches, history
    <1>4. dispatch[c] # Undecided BY <1>1, CallIs DEF CallFits
    <1>5. PICK r \in RouteIds : r = dispatch[c].route
        <2>1. dispatch[c].route \in RouteIds \/ dispatch[c].route = "skip"
            BY <1>4 DEF RoutesInv, RouteKept
        <2>2. call[c].pc = "running" => dispatch[c].route \in RouteIds BY CallIs DEF CallFits
        <2> QED BY <2>1, <2>2 DEF AwaitVisit, Return
    <1>6. PICK v \in Visits : v = <<c, r>> /\ v[1] = c /\ v[2] = r BY VisitIs
    <1>7. PICK w \in CallRecords, s \in {"lock", "off"} :
            /\ call' = [call EXCEPT ![c] = w]
            /\ run' = [run EXCEPT ![<<<<c, r>>, "inline">>] = s]
            /\ s = "lock" => w.pc = "running"
            /\ w.pc \in {"running", "done", "waiting", "failed"}
        <2>1. CASE AwaitVisit(c)
            <3>1. To(c, "running") /\ run' = [run EXCEPT ![<<<<c, r>>, "inline">>] = "lock"]
                BY <1>5, <2>1 DEF AwaitVisit
            <3> QED BY <3>1, CallPlaced, StageNames
        <2>2. CASE Return(c)
            <3>1. PICK p : p = CASE status[v] = "completed" -> "done"
                                 [] status[v] = "waiting" -> "waiting" [] OTHER -> "failed"
                OBVIOUS
            <3>2. To(c, p) /\ run' = [run EXCEPT ![<<<<c, r>>, "inline">>] = "off"]
                BY <1>5, <1>6, <2>2, <3>1 DEF Return
            <3>3. p \in {"done", "waiting", "failed"} BY <3>1
            <3>4. p \in CallStages BY <3>3, StageNames
            <3>5. PICK e \in CallRecords : call' = [call EXCEPT ![c] = e] /\ e.pc = p
                BY <3>2, <3>4, CallPlaced
            <3> QED BY <3>2, <3>3, <3>5
        <2> QED BY <2>1, <2>2
    <1>8. call' = [call EXCEPT ![c] = w] /\ s = "lock" => w.pc = "running" BY <1>7
    <1>9. call'[c] = w /\ \A d \in Calls : d # c => call'[d] = call[d] BY <1>7, CallIs
    <1>10. CallFits(c)' BY <1>3, <1>4, <1>5, <1>7, <1>9 DEF CallFits
    <1>11. InlineKept' BY <1>3, <1>5, <1>7, InlineMoves
    <1>12. PICK x \in Runners : x = <<v, "inline">> /\ x[1] = v /\ x[2] = "inline"
        BY InlineIs
    <1>13. PICK t \in RunStages \ Held : t = s BY DEF RunStages, Held
    <1>14. run' = [run EXCEPT ![x] = t] BY <1>6, <1>7, <1>12, <1>13
    <1>15. LockKept' BY <1>3, <1>14, LockUnheld
    <1>16. LaunchKept' BY <1>3, <1>12, <1>14, InlineUncounted
    <1>17. run' \in [Runners -> RunStages] BY <1>14, LiveMoves
    <1>18. LaunchesRespawned'
        <2> SUFFICES ASSUME NEW u \in Unfinished'
                     PROVE  u \in woken' \/ call'[u[1]].pc = "spawn"
            BY DEF LaunchesRespawned
        <2>1. u \in Unfinished BY <1>3 DEF Unfinished, Terminal, Launched
        <2>2. u[1] \in Calls BY <2>1, VisitIs DEF Unfinished
        <2>3. u \in woken \/ call[u[1]].pc = "spawn"
            BY <1>2, <2>1 DEF RoutesInv, LaunchesAccounted, LaunchesRespawned
        <2> QED BY <1>1, <1>3, <1>9, <2>2, <2>3
    <1>19. /\ visit' \in [Visits -> 0..Plans] /\ woken' \subseteq Visits
           /\ tasks' \subseteq Runners /\ active' \in Nat
        BY <1>3 DEF RoutesInv, RoutesTypeOK
    <1>20. RouteKept' BY <1>3, RouteSame DEF RoutesInv
    <1> QED BY <1>2, <1>3, <1>7, <1>10, <1>11, <1>15, <1>16, <1>17, <1>18, <1>19, <1>20,
               CallTurns

LEMMA CallStep ==
    ASSUME RoutesInv, NEW c \in Calls, Calling(c) PROVE RoutesInv'
    BY CallInvokes, CallPins, CallCaptured, CallPublished, CallStops, CallDispatches, CallVisits,
       CallSpawns, CallInPlace, CallAnswered
    DEF Calling

-----------------------------------------------------------------------------
(***************************************************************************)
(* The owner.                                                              *)
(***************************************************************************)
kept == <<graph, pin, captured, dispatch, visit, status, bound, fed>>

\* The owner touches no record of a route.
LEMMA OwnerStep ==
    ASSUME RoutesInv, UNCHANGED kept,
           phase' \in {"boot", "serving", "cleaning", "waiting", "over", "down"},
           call' \in [Calls -> CallRecords], \A c \in Calls : call'[c] \in {call[c], Idle},
           run' \in [Runners -> RunStages], lock' \in [Visits -> Runners \cup {Nobody}],
           tasks' \subseteq Runners, taken' \subseteq Runners, aborting' \subseteq Runners,
           active' \in Nat, changed' \in BOOLEAN, woken' \subseteq Visits,
           LockKept', LaunchKept', InlineKept', PhaseKept', LaunchesAccounted'
    PROVE  RoutesInv'
    <1>1. UNCHANGED <<graph, pin, captured, dispatch, visit, status, bound, fed>> BY DEF kept
    <1>2. RoutesTypeOK' BY <1>1 DEF RoutesInv, RoutesTypeOK, CallRecords
    <1>3. CallKept'
        <2> SUFFICES ASSUME NEW c \in Calls PROVE CallFits(c)' BY DEF CallKept
        <2>1. CASE call'[c] = call[c]
            <3>1. Grows BY <1>1 DEF Grows
            <3> QED BY <2>1, <3>1, OthersFit
        <2>2. CASE call'[c] = Idle BY <2>2, IdleIs DEF CallFits
        <2> QED BY <2>1, <2>2
    <1> QED BY <1>1, <1>2, <1>3, RouteSame, FedSame DEF RoutesInv

LEMMA OwnedIs ==
    ASSUME RoutesInv
    PROVE  /\ phase \in {"boot", "serving", "cleaning", "waiting", "over", "down"}
           /\ call \in [Calls -> CallRecords]
           /\ run \in [Runners -> RunStages] /\ lock \in [Visits -> Runners \cup {Nobody}]
           /\ tasks \subseteq Runners /\ taken \subseteq Runners /\ aborting \subseteq Runners
           /\ active \in Nat /\ changed \in BOOLEAN /\ woken \subseteq Visits
           /\ \A y \in tasks \cup taken \cup aborting : y[2] # "inline" /\ run[y] # "off"
    BY DEF RoutesInv, RoutesTypeOK, CallRecords, LaunchKept

\* With no call under way and no launch active, nothing runs.
LEMMA NothingRuns ==
    ASSUME RoutesInv, active = 0, Finished
    PROVE  \A x \in Runners : run[x] \in {"off", "end"}
    <1> SUFFICES ASSUME NEW x \in Runners PROVE run[x] \in {"off", "end"} OBVIOUS
    <1>1. CASE x[2] = "inline"
        <2>1. x = <<x[1], "inline">> /\ x[1] \in Visits /\ x[1][1] \in Calls
            BY <1>1, RunnerIs, VisitIs
        <2>2. call[x[1][1]].pc # "running" BY <2>1 DEF Finished
        <2> QED BY <2>1, <2>2 DEF RoutesInv, InlineKept
    <1>2. CASE x[2] # "inline"
        <2>1. x \notin Live BY LiveCounts
        <2> QED BY <1>2, <2>1 DEF Live
    <1> QED BY <1>1, <1>2

LEMMA Seeds ==
    ASSUME RoutesInv, BootSeed \/ EditRead \/ EditPublish PROVE RoutesInv'
    <1>1. UNCHANGED routed
        BY DEF BootSeed, EditRead, EditPublish, routed, NotOwning, launches, durable, history
    <1> QED BY <1>1, AllSame

LEMMA Boots ==
    ASSUME RoutesInv, BootSpawn PROVE RoutesInv'
    <1> DEFINE vs == Unfinished \ woken
    <1>1. /\ phase = "boot" /\ UNCHANGED kept /\ UNCHANGED <<call, lock, taken, aborting, changed>>
        BY DEF BootSpawn, NotOwning, kept
    <1>2. CASE vs = {}
        <2>1. phase' = "serving" /\ UNCHANGED <<run, tasks, active, woken>> BY <1>2 DEF BootSpawn
        <2>2. UNCHANGED <<visit, status, dispatch>> BY <1>1 DEF kept
        <2>3. LockKept' /\ LaunchKept' /\ InlineKept'
            BY <1>1, <2>1, <2>2, LockSame, LaunchSame, InlineSame DEF RoutesInv
        <2>4. PhaseKept' BY <1>1, <2>1 DEF RoutesInv, PhaseKept
        <2>5. Unfinished' = Unfinished BY <2>2 DEF Unfinished, Terminal, Launched
        <2>6. LaunchesAccounted'
            BY <1>2, <2>1, <2>5 DEF LaunchesAccounted, LaunchesRespawned, CleanupComplete
        <2> QED BY <1>1, <2>1, <2>3, <2>4, <2>6, OwnedIs, OwnerStep
    <1>3. CASE vs # {}
        <2>1. PICK v \in vs : Spawned(v) /\ woken' = woken \cup {v} /\ phase' = phase
            BY <1>3 DEF BootSpawn
        <2>2. v \in Visits /\ v \notin woken BY <2>1 DEF Unfinished
        <2>3. CanSpawn(v)
            <3>1. <<v, "task">> \in Runners /\ <<v, "task">>[1] = v
                BY <2>2, RunnerIs DEF Slots
            <3>2. run[<<v, "task">>] = "off" BY <1>1, <2>2, <3>1 DEF RoutesInv, PhaseKept
            <3> QED BY <3>2 DEF CanSpawn
        <2>4. UNCHANGED <<visit, status, dispatch>> BY <1>1 DEF kept
        <2>5. /\ run' \in [Runners -> RunStages] /\ tasks' \subseteq Runners /\ active' \in Nat
              /\ LockKept' /\ LaunchKept'
              /\ \A u \in Visits : run'[<<u, "inline">>] = run[<<u, "inline">>]
              /\ \A y \in Runners : run'[y] # "off" => run[y] # "off" \/ y[1] = v
            BY <1>1, <2>1, <2>2, <2>3, <2>4, SpawnCounts
        <2>6. InlineKept' BY <1>1, <2>4, <2>5 DEF RoutesInv, InlineKept
        <2>7. \A y \in Runners : run'[y] # "off" => y[1] \in woken'
            BY <1>1, <2>1, <2>5 DEF RoutesInv, PhaseKept
        <2>8. PhaseKept' BY <1>1, <2>1, <2>7 DEF RoutesInv, PhaseKept
        <2>9. LaunchesAccounted'
            BY <1>1, <2>1 DEF LaunchesAccounted, LaunchesRespawned, CleanupComplete
        <2>10. woken' \subseteq Visits BY <2>1, <2>2, OwnedIs
        <2> QED BY <1>1, <2>1, <2>5, <2>6, <2>8, <2>9, <2>10, OwnedIs, OwnerStep
    <1> QED BY <1>2, <1>3

LEMMA Drains ==
    ASSUME RoutesInv, DrainTake PROVE RoutesInv'
    <1>1. /\ UNCHANGED kept /\ taken = {} /\ taken' = tasks /\ tasks' = {}
          /\ UNCHANGED <<phase, call, run, lock, aborting, active, changed, woken>>
        BY DEF DrainTake, NotOwning, kept
    <1>2. UNCHANGED <<visit, status, dispatch>> BY <1>1 DEF kept
    <1>3. Live' = Live BY <1>1 DEF Live
    <1>4. LaunchKept' BY <1>1, <1>3 DEF RoutesInv, LaunchKept
    <1>5. LockKept' /\ InlineKept' /\ PhaseKept' /\ LaunchesAccounted'
        BY <1>1, <1>2, LockSame, InlineSame, PhaseSame, AccountsSame DEF RoutesInv
    <1> QED BY <1>1, <1>4, <1>5, OwnedIs, OwnerStep

\* A runner that has ended is off: joined, or dropped with its handle.
LEMMA EndedOff ==
    ASSUME RoutesInv, NEW x \in tasks \cup taken \cup aborting, run[x] = "end",
           run' = [run EXCEPT ![x] = "off"], UNCHANGED kept,
           UNCHANGED <<phase, call, lock, active, changed, woken>>,
           tasks' \cup taken' \cup aborting' = (tasks \cup taken \cup aborting) \ {x},
           \A y \in tasks' : y \notin taken' /\ y \notin aborting',
           \A y \in taken' : y \notin aborting', aborting' \subseteq aborting
    PROVE  RoutesInv'
    <1>1. x \in Runners /\ x[2] # "inline" BY OwnedIs
    <1>2. PICK s \in RunStages \ Held : s = "off" BY DEF RunStages, Held
    <1>3. run' = [run EXCEPT ![x] = s] BY <1>2
    <1>4. /\ run' \in [Runners -> RunStages] /\ run'[x] = "off"
          /\ \A y \in Runners : y # x => run'[y] = run[y]
          /\ Live' = Live \ {x}
        BY <1>1, <1>2, <1>3, LiveMoves
    <1>5. Live' = Live BY <1>4 DEF Live
    <1>6. UNCHANGED <<visit, status, dispatch>> BY DEF kept
    <1>7. LockKept' BY <1>1, <1>3, <1>6, LockUnheld
    <1>8. LaunchKept'
        <2>1. \A y \in tasks' \cup taken' \cup aborting' : y[2] # "inline" /\ run'[y] # "off"
            <3> SUFFICES ASSUME NEW y \in (tasks \cup taken \cup aborting) \ {x}
                         PROVE  y[2] # "inline" /\ run'[y] # "off"
                OBVIOUS
            <3>1. y \in Runners /\ y[2] # "inline" /\ run[y] # "off" /\ y # x BY OwnedIs
            <3> QED BY <1>4, <3>1
        <2>2. Live' \subseteq tasks' \cup taken' \cup aborting'
            <3>1. x \notin Live' BY <1>4
            <3>2. Live \subseteq tasks \cup taken \cup aborting BY DEF RoutesInv, LaunchKept
            <3> QED BY <1>5, <3>1, <3>2
        <2>3. active' = Cardinality(Live') BY <1>5 DEF RoutesInv, LaunchKept
        <2> QED BY <2>1, <2>2, <2>3 DEF LaunchKept
    <1>9. InlineKept'
        <2> SUFFICES ASSUME NEW u \in Visits, run'[<<u, "inline">>] # "off"
                     PROVE  call'[u[1]].pc = "running" /\ dispatch'[u[1]].route = u[2]
            BY DEF InlineKept
        <2>1. <<u, "inline">> \in Runners BY RunnerIs DEF Slots
        <2>2. run[<<u, "inline">>] # "off" BY <1>4, <2>1
        <2> QED BY <1>6, <2>2 DEF RoutesInv, InlineKept
    <1>10. \A y \in Runners : run'[y] # "off" => run[y] # "off" BY <1>4
    <1>11. PhaseKept' BY <1>10 DEF RoutesInv, PhaseKept, Finished
    <1>12. LaunchesAccounted'
        <2>1. Unfinished' = Unfinished BY <1>6 DEF Unfinished, Terminal, Launched
        <2>2. LaunchesRespawned'
            BY <2>1 DEF RoutesInv, LaunchesAccounted, LaunchesRespawned
        <2>3. phase = "over" => active = 0 /\ \A y \in Runners : run[y] \in {"off", "end"}
            BY DEF RoutesInv, LaunchesAccounted, CleanupComplete
        <2>4. phase = "over" => active = 0 /\ \A y \in Runners : run'[y] \in {"off", "end"}
            BY <1>4, <2>3
        <2>5. phase = "waiting" /\ active = 0 => changed
            BY DEF RoutesInv, LaunchesAccounted, CleanupComplete
        <2> QED BY <2>2, <2>4, <2>5 DEF LaunchesAccounted, CleanupComplete
    <1>13. tasks' \subseteq Runners /\ taken' \subseteq Runners /\ aborting' \subseteq Runners
        BY OwnedIs
    <1> QED BY <1>4, <1>7, <1>8, <1>9, <1>11, <1>12, <1>13, OwnedIs, OwnerStep

LEMMA Joins ==
    ASSUME RoutesInv, NEW x \in Runners, DrainJoin(x) PROVE RoutesInv'
    <1>1. /\ x \in taken /\ run[x] = "end" /\ run' = [run EXCEPT ![x] = "off"]
          /\ UNCHANGED <<phase, call, lock, aborting, active, changed, woken>>
        BY DEF DrainJoin, Move
    <1>2. UNCHANGED kept BY DEF DrainJoin, NotOwning, kept
    <1>3. \/ taken = {x} /\ taken' = tasks /\ tasks' = {}
          \/ taken' = taken \ {x} /\ tasks' = tasks
        BY DEF DrainJoin
    <1>4. /\ \A y \in tasks : y \notin taken /\ y \notin aborting
          /\ \A y \in taken : y \notin aborting
        BY DEF RoutesInv, LaunchKept
    <1>5. /\ tasks' \cup taken' \cup aborting' = (tasks \cup taken \cup aborting) \ {x}
          /\ \A y \in tasks' : y \notin taken' /\ y \notin aborting'
          /\ \A y \in taken' : y \notin aborting'
        BY <1>1, <1>3, <1>4
    <1> QED BY <1>1, <1>2, <1>5, EndedOff

LEMMA Closes ==
    ASSUME RoutesInv, Close PROVE RoutesInv'
    <1>1. /\ phase = "serving" /\ Finished /\ tasks = {} /\ taken = {} /\ phase' = "over"
          /\ UNCHANGED <<call, run, lock, tasks, taken, aborting, active, changed, woken>>
        BY DEF Close, launches
    <1>2. UNCHANGED kept /\ UNCHANGED <<visit, status, dispatch>>
        BY DEF Close, NotOwning, kept
    <1>3. aborting = {} BY <1>1 DEF RoutesInv, PhaseKept
    <1>4. active = 0
        <2>1. Live = {} BY <1>1, <1>3 DEF RoutesInv, LaunchKept
        <2> QED BY <2>1, FS_EmptySet DEF RoutesInv, LaunchKept
    <1>5. \A x \in Runners : run[x] \in {"off", "end"} BY <1>1, <1>4, NothingRuns
    <1>6. LockKept' /\ LaunchKept' /\ InlineKept'
        BY <1>1, <1>2, LockSame, LaunchSame, InlineSame DEF RoutesInv
    <1>7. PhaseKept' BY <1>1 DEF PhaseKept, Finished
    <1>8. LaunchesAccounted'
        BY <1>1, <1>4, <1>5 DEF LaunchesAccounted, LaunchesRespawned, CleanupComplete
    <1> QED BY <1>1, <1>2, <1>6, <1>7, <1>8, OwnedIs, OwnerStep

LEMMA Cleans ==
    ASSUME RoutesInv, CleanupCheck \/ CleanupWakes PROVE RoutesInv'
    <1>1. /\ phase \in {"cleaning", "waiting"}
          /\ UNCHANGED <<call, run, lock, tasks, taken, aborting, active, woken>>
        BY DEF CleanupCheck, CleanupWakes, launches
    <1>2. UNCHANGED kept /\ UNCHANGED <<visit, status, dispatch>>
        BY DEF CleanupCheck, CleanupWakes, NotOwning, kept
    <1>3. \A c \in Calls : call[c].pc = "idle" BY <1>1 DEF RoutesInv, PhaseKept
    <1>4. Finished BY <1>3 DEF Finished
    <1>5. /\ phase' \in {"over", "waiting", "cleaning"} /\ changed' \in BOOLEAN
          /\ phase' = "over" => active = 0
          /\ phase' = "waiting" => active # 0
        BY OwnedIs DEF CleanupCheck, CleanupWakes, launches
    <1>6. LockKept' /\ LaunchKept' /\ InlineKept'
        BY <1>1, <1>2, LockSame, LaunchSame, InlineSame DEF RoutesInv
    <1>7. PhaseKept'
        <2>1. Finished' BY <1>1, <1>4 DEF Finished
        <2> QED BY <1>1, <1>3, <1>5, <2>1 DEF PhaseKept
    <1>8. LaunchesAccounted'
        <2>1. phase' = "over" => active' = 0 /\ \A x \in Runners : run'[x] \in {"off", "end"}
            BY <1>1, <1>4, <1>5, NothingRuns
        <2> QED BY <1>1, <1>5, <2>1 DEF LaunchesAccounted, LaunchesRespawned, CleanupComplete
    <1> QED BY <1>1, <1>2, <1>5, <1>6, <1>7, <1>8, OwnedIs, OwnerStep

\* A dropped handle aborts its runner: the lock and the count go with it.
LEMMA Aborts ==
    ASSUME RoutesInv, NEW x \in Runners, Aborted(x) PROVE RoutesInv'
    <1>1. /\ x \in aborting /\ aborting' = aborting \ {x} /\ run' = [run EXCEPT ![x] = "off"]
          /\ UNCHANGED <<phase, call, tasks, taken, woken>>
        BY DEF Aborted, Move
    <1>2. UNCHANGED kept /\ UNCHANGED <<visit, status, dispatch>>
        BY DEF Aborted, NotOwning, kept
    <1>3. /\ \A y \in tasks : y \notin taken /\ y \notin aborting
          /\ \A y \in taken : y \notin aborting
        BY DEF RoutesInv, LaunchKept
    <1>4. /\ tasks' \cup taken' \cup aborting' = (tasks \cup taken \cup aborting) \ {x}
          /\ \A y \in tasks' : y \notin taken' /\ y \notin aborting'
          /\ \A y \in taken' : y \notin aborting'
        BY <1>1, <1>3
    <1>5. CASE run[x] = "end"
        <2>1. UNCHANGED <<lock, active, changed>> BY <1>5 DEF Aborted
        <2> QED BY <1>1, <1>2, <1>4, <1>5, <2>1, EndedOff
    <1>6. CASE run[x] # "end"
        <2>1. /\ lock' = [lock EXCEPT ![x[1]] = IF lock[x[1]] = x THEN Nobody ELSE lock[x[1]]]
              /\ active' = active - 1 /\ changed' = (phase = "cleaning" \/ phase = "waiting")
            BY <1>6 DEF Aborted
        <2>2. x[2] # "inline" /\ run[x] # "off" BY <1>1, OwnedIs
        <2>3. x \in Live BY <1>6, <2>2 DEF Live
        <2>4. PICK s \in RunStages : s = "off" BY DEF RunStages
        <2>5. run' = [run EXCEPT ![x] = s] BY <1>1, <2>4
        <2>6. /\ run' \in [Runners -> RunStages] /\ run'[x] = "off"
              /\ \A y \in Runners : y # x => run'[y] = run[y]
              /\ Live' = Live \ {x}
            BY <2>2, <2>4, <2>5, LiveMoves
        <2>7. active' = Cardinality(Live') /\ active' \in Nat
            <3>1. Cardinality(Live \ {x}) = active - 1 /\ active - 1 \in Nat
                BY <2>3, LiveCounts
            <3>2. Cardinality(Live') = active - 1 BY <2>6, <3>1
            <3> QED BY <2>1, <3>1, <3>2
        <2>8. lock \in [Visits -> Runners \cup {Nobody}] /\ x[1] \in Visits BY RunIs
        <2>9. PICK h \in Runners \cup {Nobody} :
                h = IF lock[x[1]] = x THEN Nobody ELSE lock[x[1]]
            BY <2>8
        <2>10. /\ lock' \in [Visits -> Runners \cup {Nobody}] /\ lock'[x[1]] = h
               /\ \A v \in Visits : v # x[1] => lock'[v] = lock[v]
            BY <2>1, <2>8, <2>9
        <2>11. LockKept'
            <3> SUFFICES ASSUME NEW y \in Runners, run'[y] \in Held
                         PROVE  lock'[y[1]] = y /\ status'[y[1]] # "completed"
                BY DEF LockKept, Terminal
            <3>1. y # x BY <2>6 DEF Held
            <3>2. lock[y[1]] = y /\ status[y[1]] # "completed" /\ y[1] \in Visits
                BY <2>6, <3>1, RunnerIs DEF RoutesInv, LockKept, Terminal
            <3>3. lock'[y[1]] = y
                <4>1. CASE y[1] = x[1] BY <2>9, <2>10, <3>1, <3>2, <4>1
                <4>2. CASE y[1] # x[1] BY <2>10, <3>2, <4>2
                <4> QED BY <4>1, <4>2
            <3> QED BY <1>2, <3>2, <3>3
        <2>12. LaunchKept'
            <3>1. \A y \in tasks' \cup taken' \cup aborting' : y[2] # "inline" /\ run'[y] # "off"
                <4> SUFFICES ASSUME NEW y \in (tasks \cup taken \cup aborting) \ {x}
                             PROVE  y[2] # "inline" /\ run'[y] # "off"
                    BY <1>4
                <4>1. y \in Runners /\ y[2] # "inline" /\ run[y] # "off" /\ y # x BY OwnedIs
                <4> QED BY <2>6, <4>1
            <3>2. Live' \subseteq tasks' \cup taken' \cup aborting'
                BY <1>4, <2>6 DEF RoutesInv, LaunchKept
            <3> QED BY <1>4, <2>7, <3>1, <3>2 DEF LaunchKept
        <2>13. InlineKept'
            <3> SUFFICES ASSUME NEW u \in Visits, run'[<<u, "inline">>] # "off"
                         PROVE  call'[u[1]].pc = "running" /\ dispatch'[u[1]].route = u[2]
                BY DEF InlineKept
            <3>1. <<u, "inline">> \in Runners BY RunnerIs DEF Slots
            <3>2. run[<<u, "inline">>] # "off" BY <2>6, <3>1
            <3> QED BY <1>1, <1>2, <3>2 DEF RoutesInv, InlineKept
        <2>14. \A y \in Runners : run'[y] # "off" => run[y] # "off" BY <2>6
        <2>15. PhaseKept' BY <1>1, <2>14 DEF RoutesInv, PhaseKept, Finished
        <2>16. LaunchesAccounted'
            <3>1. Unfinished' = Unfinished BY <1>2 DEF Unfinished, Terminal, Launched
            <3>2. LaunchesRespawned'
                BY <1>1, <3>1 DEF RoutesInv, LaunchesAccounted, LaunchesRespawned
            <3>3. phase # "over"
                BY <1>6, <2>2 DEF RoutesInv, LaunchesAccounted, CleanupComplete
            <3>4. phase = "waiting" => changed' BY <2>1
            <3> QED BY <1>1, <3>2, <3>3, <3>4 DEF LaunchesAccounted, CleanupComplete
        <2>17. changed' \in BOOLEAN BY <2>1
        <2>18. tasks' \subseteq Runners /\ taken' \subseteq Runners /\ aborting' \subseteq Runners
            BY <1>1, OwnedIs
        <2> QED BY <1>1, <1>2, <2>6, <2>7, <2>10, <2>11, <2>12, <2>13, <2>15, <2>16, <2>17, <2>18,
                   OwnedIs, OwnerStep
    <1> QED BY <1>5, <1>6

LEMMA Fails ==
    ASSUME RoutesInv, Fail PROVE RoutesInv'
    <1>1. /\ phase' = "cleaning" /\ call' = [c \in Calls |-> Idle]
          /\ run' = [x \in Runners |-> IF x[2] = "inline" THEN "off" ELSE run[x]]
          /\ lock' = [v \in Visits |-> IF lock[v] = <<v, "inline">> THEN Nobody ELSE lock[v]]
          /\ aborting' = aborting \cup taken /\ taken' = {}
          /\ UNCHANGED <<tasks, active, changed, woken>>
        BY DEF Fail
    <1>2. UNCHANGED kept /\ UNCHANGED <<visit, status, dispatch>> BY DEF Fail, NotOwning, kept
    <1>3. /\ call' \in [Calls -> CallRecords] /\ \A c \in Calls : call'[c] = Idle
        BY <1>1, IdleIs
    <1>4. "off" \in RunStages BY DEF RunStages
    <1>5. /\ run' \in [Runners -> RunStages]
          /\ \A x \in Runners : run'[x] = IF x[2] = "inline" THEN "off" ELSE run[x]
        BY <1>1, <1>4, OwnedIs
    <1>6. /\ lock' \in [Visits -> Runners \cup {Nobody}]
          /\ \A v \in Visits : lock'[v] = IF lock[v] = <<v, "inline">> THEN Nobody ELSE lock[v]
        BY <1>1, OwnedIs
    <1>7. LockKept'
        <2> SUFFICES ASSUME NEW y \in Runners, run'[y] \in Held
                     PROVE  lock'[y[1]] = y /\ status'[y[1]] # "completed"
            BY DEF LockKept, Terminal
        <2>1. y[2] # "inline" /\ run[y] \in Held BY <1>5 DEF Held
        <2>2. lock[y[1]] = y /\ status[y[1]] # "completed" /\ y[1] \in Visits
            BY <2>1, RunnerIs DEF RoutesInv, LockKept, Terminal
        <2>3. y # <<y[1], "inline">> BY <2>1, <2>2, RunnerIs DEF Slots
        <2> QED BY <1>2, <1>6, <2>2, <2>3
    <1>8. LaunchKept'
        <2>1. Live' = Live BY <1>5 DEF Live
        <2>2. \A y \in tasks' \cup taken' \cup aborting' : y[2] # "inline" /\ run'[y] # "off"
            <3> SUFFICES ASSUME NEW y \in tasks \cup taken \cup aborting
                         PROVE  y[2] # "inline" /\ run'[y] # "off"
                BY <1>1
            <3>1. y \in Runners /\ y[2] # "inline" /\ run[y] # "off" BY OwnedIs
            <3> QED BY <1>5, <3>1
        <2> QED BY <1>1, <2>1, <2>2 DEF RoutesInv, LaunchKept
    <1>9. InlineKept'
        <2>1. \A u \in Visits : run'[<<u, "inline">>] = "off"
            BY <1>5, RunnerIs DEF Slots
        <2> QED BY <2>1 DEF InlineKept
    <1>10. PhaseKept' BY <1>1, <1>3, IdleIs DEF PhaseKept
    <1>11. LaunchesAccounted'
        BY <1>1 DEF LaunchesAccounted, LaunchesRespawned, CleanupComplete
    <1>12. tasks' \subseteq Runners /\ taken' \subseteq Runners /\ aborting' \subseteq Runners
        BY <1>1, OwnedIs
    <1> QED BY <1>1, <1>2, <1>3, <1>5, <1>6, <1>7, <1>8, <1>9, <1>10, <1>11, <1>12, OwnedIs,
               OwnerStep

\* With no runner nothing is held or counted.
LEMMA NobodyRuns ==
    ASSUME NEW f, f = [x \in Runners |-> "off"], run' = f, tasks' = {}, taken' = {},
           aborting' = {}, active' = 0
    PROVE  /\ run' \in [Runners -> RunStages] /\ \A x \in Runners : run'[x] = "off"
           /\ LockKept' /\ LaunchKept' /\ InlineKept'
    <1>1. \A x \in Runners : run'[x] = "off" OBVIOUS
    <1>2. run' \in [Runners -> RunStages] BY DEF RunStages
    <1>3. LockKept' BY <1>1 DEF LockKept, Held
    <1>4. Live' = {} BY <1>1 DEF Live
    <1>5. LaunchKept' BY <1>4, FS_EmptySet DEF LaunchKept
    <1>6. InlineKept' BY <1>1, RunnerIs DEF InlineKept, Slots
    <1> QED BY <1>1, <1>2, <1>3, <1>5, <1>6

LEMMA Crashes ==
    ASSUME RoutesInv, Crash PROVE RoutesInv'
    <1>1. /\ phase' = "down" /\ run' = [x \in Runners |-> "off"]
          /\ lock' = [v \in Visits |-> Nobody] /\ tasks' = {} /\ taken' = {} /\ aborting' = {}
          /\ active' = 0 /\ changed' = FALSE /\ woken' = {}
        BY DEF Crash
    <1>2. UNCHANGED kept BY DEF Crash, durable, kept
    <1>3. PICK passed \in BOOLEAN :
            call' = [c \in Calls |-> IF passed /\ call[c].pc = "done" THEN call[c] ELSE Idle]
        BY DEF Crash
    <1>4. /\ call' \in [Calls -> CallRecords] /\ \A c \in Calls : call'[c] \in {call[c], Idle}
          /\ \A c \in Calls : call'[c].pc \in {"idle", "done"}
        BY <1>3, OwnedIs, IdleIs
    <1>5. /\ run' \in [Runners -> RunStages] /\ \A x \in Runners : run'[x] = "off"
          /\ LockKept' /\ LaunchKept' /\ InlineKept'
        BY <1>1, NobodyRuns
    <1>6. PhaseKept' BY <1>1, <1>4, <1>5 DEF PhaseKept
    <1>7. LaunchesAccounted' BY <1>1 DEF LaunchesAccounted, LaunchesRespawned, CleanupComplete
    <1>8. lock' \in [Visits -> Runners \cup {Nobody}] BY <1>1
    <1> QED BY <1>1, <1>2, <1>4, <1>5, <1>6, <1>7, <1>8, OwnerStep

LEMMA Restarts ==
    ASSUME RoutesInv, Restart PROVE RoutesInv'
    <1>1. /\ phase = "down" /\ phase' = "boot"
          /\ UNCHANGED <<call, run, lock, tasks, taken, aborting, active, changed, woken>>
        BY DEF Restart, launches
    <1>2. UNCHANGED kept /\ UNCHANGED <<visit, status, dispatch>>
        BY DEF Restart, durable, kept
    <1>3. LockKept' /\ LaunchKept' /\ InlineKept'
        BY <1>1, <1>2, LockSame, LaunchSame, InlineSame DEF RoutesInv
    <1>4. PhaseKept' BY <1>1 DEF RoutesInv, PhaseKept
    <1>5. LaunchesAccounted' BY <1>1 DEF LaunchesAccounted, LaunchesRespawned, CleanupComplete
    <1> QED BY <1>1, <1>2, <1>3, <1>4, <1>5, OwnedIs, OwnerStep

LEMMA GraphMoves ==
    ASSUME RoutesInv, PublishGraph PROVE RoutesInv'
    <1>1. UNCHANGED <<pin, captured, dispatch, visit, status, phase, call, run, lock, tasks, taken,
                      aborting, active, changed, woken, fed, bound>>
        BY DEF PublishGraph, launches, history
    <1>2. graph' \in 1..Plans
        <2>1. graph \in 1..Plans /\ graph < Plans /\ graph' = graph + 1
            BY DEF RoutesInv, RoutesTypeOK, PublishGraph
        <2>2. Plans \in Nat BY RoutesAssumption
        <2> QED BY <2>1, <2>2
    <1>3. RoutesTypeOK' BY <1>1, <1>2 DEF RoutesInv, RoutesTypeOK
    <1> QED BY <1>1, <1>3, RouteSame, FedSame, LockSame, LaunchSame, InlineSame, CallSame,
               PhaseSame, AccountsSame DEF RoutesInv

LEMMA OwnStep ==
    ASSUME RoutesInv, Owning PROVE RoutesInv'
    BY Seeds, Boots, Drains, Joins, Closes, Cleans, Aborts, Fails, Crashes, Restarts, GraphMoves
    DEF Owning

-----------------------------------------------------------------------------
(***************************************************************************)
(* The theorems.                                                           *)
(***************************************************************************)
LEMMA RoutesStart ==
    ASSUME Init PROVE RoutesInv
    <1>1. /\ graph = 1 /\ pin = [s \in Steps |-> 0] /\ captured = [c \in Calls |-> 0]
          /\ dispatch = [c \in Calls |-> Undecided] /\ visit = [v \in Visits |-> 0]
          /\ status = [v \in Visits |-> "none"] /\ phase = "boot"
          /\ bound = [v \in Visits |-> None] /\ fed = [v \in Visits |-> {}]
          /\ call = [c \in Calls |-> Idle] /\ run = [x \in Runners |-> "off"]
          /\ lock = [v \in Visits |-> Nobody]
          /\ tasks = {} /\ taken = {} /\ aborting = {} /\ active = 0 /\ changed = FALSE
          /\ woken = {}
        BY DEF Init, Quiet, Steps
    <1>2. Plans \in Nat \ {0} BY RoutesAssumption
    <1>3. Undecided \in Dispatches BY <1>2 DEF Undecided, Dispatches
    <1>4. \A c \in Calls : call[c].pc = "idle" BY <1>1, IdleIs
    <1>5. \A x \in Runners : run[x] = "off" BY <1>1
    <1>6. RoutesTypeOK
        <2>1. /\ graph \in 1..Plans /\ pin \in [Steps -> 0..Plans]
              /\ captured \in [Calls -> 0..Plans] /\ visit \in [Visits -> 0..Plans]
            BY <1>1, <1>2
        <2>2. dispatch \in [Calls -> Dispatches] /\ call \in [Calls -> CallRecords]
            BY <1>1, <1>3, IdleIs
        <2>3. run \in [Runners -> RunStages] BY <1>1 DEF RunStages
        <2> QED BY <1>1, <2>1, <2>2, <2>3 DEF RoutesTypeOK, Steps, Dispatches, CallRecords
    <1>7. RouteKept BY <1>1 DEF RouteKept
    <1>8. CallKept BY <1>4 DEF CallKept, CallFits
    <1>9. FedKept BY <1>1 DEF FedKept
    <1>10. LockKept BY <1>5 DEF LockKept, Held
    <1>11. LaunchKept
        <2>1. Live = {} BY <1>5 DEF Live
        <2> QED BY <1>1, <2>1, FS_EmptySet DEF LaunchKept
    <1>12. InlineKept BY <1>5, RunnerIs DEF InlineKept, Slots
    <1>13. PhaseKept BY <1>1, <1>4, <1>5 DEF PhaseKept
    <1>14. LaunchesAccounted
        BY <1>1 DEF LaunchesAccounted, LaunchesRespawned, CleanupComplete
    <1> QED BY <1>6, <1>7, <1>8, <1>9, <1>10, <1>11, <1>12, <1>13, <1>14 DEF RoutesInv

LEMMA RoutesStep ==
    ASSUME RoutesInv, [Next]_vars PROVE RoutesInv'
    <1>1. CASE vars' = vars
        <2>1. UNCHANGED routed BY <1>1 DEF vars, routed
        <2> QED BY <2>1, AllSame
    <1>2. CASE Next BY <1>2, PublicationStep, CallStep, RunStep, OwnStep DEF Next
    <1> QED BY <1>1, <1>2

\* The invariant the theorems rest on: records follow the plan of their
\* super-step, calls go on with what is recorded, a visit is run by the holder
\* of its lock, every launched runner has one handle and is counted once.
THEOREM RoutesInvariant == Spec => []RoutesInv
    BY RoutesStart, RoutesStep, PTL DEF Spec

LEMMA RoutesAreFixed == RoutesInv => VisitsFixed
    <1> SUFFICES ASSUME RoutesInv PROVE VisitsFixed OBVIOUS
    <1>1. ASSUME NEW v \in Visits, visit[v] # 0
          PROVE  visit[v] = pin[Step[v[1]]] /\ v[2] = dispatch[v[1]].route
        <2>1. dispatch[v[1]].plan = visit[v] /\ dispatch[v[1]].route = v[2] /\ v[1] \in Calls
            BY <1>1, VisitIs DEF RoutesInv, RouteKept
        <2>2. dispatch[v[1]] # Undecided BY <1>1, <2>1 DEF Undecided
        <2> QED BY <2>1, <2>2 DEF RoutesInv, RouteKept
    <1>2. RouteFixed BY <1>1, VisitIs DEF RouteFixed
    <1>3. InputCapturedOnce
        <2> SUFFICES ASSUME NEW v \in Visits PROVE Cardinality(fed[v]) <= 1
            BY DEF InputCapturedOnce
        <2>1. fed[v] \subseteq {bound[v]} BY DEF RoutesInv, FedKept
        <2>2. IsFiniteSet({bound[v]}) /\ Cardinality({bound[v]}) = 1 BY FS_Singleton
        <2>3. Cardinality(fed[v]) <= Cardinality({bound[v]}) BY <2>1, <2>2, FS_Subset
        <2> QED BY <2>2, <2>3
    <1> QED BY <1>2, <1>3 DEF VisitsFixed

\* A call keeps the route it took first, the calls of a super-step follow one
\* plan, and a child is started with the input captured first: for all calls,
\* routes, plans, crashes and repetitions (pinned_plan, route-dispatches,
\* route-bindings).
THEOREM VisitsAlwaysFixed == Spec => []VisitsFixed
    BY RoutesInvariant, RoutesAreFixed, PTL

\* No launched child is forgotten by a restart, and the cleanup of a failed run
\* leaves nothing running and does not sleep through the end of the last
\* launch (initialize, cancel_and_drain).
THEOREM LaunchesAlwaysAccounted == Spec => []LaunchesAccounted
    <1>1. RoutesInv => LaunchesAccounted BY DEF RoutesInv
    <1> QED BY <1>1, RoutesInvariant, PTL

LEMMA StatusMoves ==
    ASSUME RoutesInv, [Next]_vars, NEW v \in Visits, Terminal(v)
    PROVE  status'[v] = status[v]
    <1>1. CASE status' = status BY <1>1
    <1>2. ASSUME NEW x \in Runners, Running(x) PROVE status'[v] = status[v]
        <2>1. status \in [Visits -> {"none", "waiting", "running", "completed", "failed"}]
            BY RunIs
        <2>2. \/ status' = status
              \/ run[x] \in Held /\ \E s \in {"waiting", "running", "completed", "failed"} :
                   status' = [status EXCEPT ![x[1]] = s]
            BY <1>2 DEF Running, RunStart, RunBind, ChildWaits, ChildEnds, ChildFails, RunEnds, Held
        <2>3. run[x] \in Held => x[1] # v BY DEF RoutesInv, LockKept
        <2> QED BY <2>1, <2>2, <2>3
    <1>3. ASSUME NEW c \in Calls, Calling(c) PROVE status' = status
        BY <1>3 DEF Calling, Invoke, Capture, Captured, Published, CallFails, PinPlan,
                    ClaimDispatch, Visit, Spawn, AwaitVisit, Return, Answer, NotCalling
    <1>4. ASSUME Owning PROVE status' = status
        BY <1>4 DEF Owning, BootSeed, BootSpawn, DrainTake, Close, CleanupCheck, CleanupWakes,
                    DrainJoin, Aborted, Fail, Crash, Restart, PublishGraph, EditRead, EditPublish,
                    NotOwning, durable
    <1>5. ASSUME NEW p \in Procs, Publication(p) PROVE status' = status
        BY <1>5 DEF Publication
    <1>6. ASSUME vars' = vars PROVE status' = status BY <1>6 DEF vars
    <1> QED BY <1>1, <1>2, <1>3, <1>4, <1>5, <1>6 DEF Next

\* A visit that has completed keeps its result, whoever runs it again
\* (run_visit, terminal).
THEOREM ResultsAreFinal == Spec => ResultFinal
    <1>1. RoutesInv /\ [Next]_vars =>
            [\A v \in Visits : Terminal(v) => status'[v] = status[v]]_vars
        BY StatusMoves
    <1> QED BY <1>1, RoutesInvariant, PTL DEF Spec, ResultFinal

-----------------------------------------------------------------------------
(***************************************************************************)
(* The data registry: what an operation adds to any registry.              *)
(***************************************************************************)
LEMMA LatestIs ==
    ASSUME NEW S \in SUBSET Nat, NEW m \in S, \A i \in S : i <= m
    PROVE  Latest(S) = m
    <1>1. PICK l : l = CHOOSE i \in S : \A j \in S : j <= i OBVIOUS
    <1>2. l \in S /\ \A j \in S : j <= l BY <1>1
    <1>3. l \in Nat /\ m \in Nat /\ l <= m /\ m <= l BY <1>2
    <1>4. l = m BY <1>3
    <1> QED BY <1>1, <1>4 DEF Latest

\* Rows are kept.
Grow(r, s) ==
    /\ \A a \in DOMAIN r.alias : a \in DOMAIN s.alias /\ s.alias[a] = r.alias[a]
    /\ \A i \in 1..Len(r.revs) : i \in 1..Len(s.revs) /\ s.revs[i] = r.revs[i]

\* One revision n of the entity behind a.
Adds(r, s, a, n, value, by) ==
    /\ RegistryKept(s) /\ Grow(r, s) /\ s.pub = r.pub /\ Known(s, a)
    /\ n \in 1..Len(s.revs) /\ s.revs[n].entity = s.alias[a].entity
    /\ s.revs[n].value = value /\ s.revs[n].by = by
    /\ \A i \in 1..Len(s.revs) : i # n => i \in 1..Len(r.revs) /\ s.revs[i] = r.revs[i]

LEMMA RevMade ==
    ASSUME NEW e \in Nat, NEW d \in Nat, NEW v \in Stored, NEW b \in PubIds \cup {<<"edit">>}
    PROVE  \E w \in RevRecords : /\ w = [entity |-> e, parent |-> d, value |-> v, by |-> b]
                                 /\ w.entity = e /\ w.parent = d /\ w.value = v /\ w.by = b
    <1>1. [entity |-> e, parent |-> d, value |-> v, by |-> b] \in RevRecords BY DEF RevRecords
    <1> QED BY <1>1

RevsOf(q, e) == {i \in 1..Len(q) : q[i].entity = e}

\* A revision after those of its entity keeps the lines.
LEMMA RevAppended ==
    ASSUME NEW q \in Seq(RevRecords), Lines(q), NEW w \in RevRecords, NEW e, w.entity = e,
           w.parent = Latest(RevsOf(q, e))
    PROVE  \E t \in Seq(RevRecords), k \in Nat :
             /\ t = Append(q, w) /\ k = Len(q) /\ Len(t) = k + 1 /\ t[k + 1] = w
             /\ \A i \in 1..k : i \in 1..Len(t) /\ t[i] = q[i]
             /\ \A i \in 1..Len(t) : i # k + 1 => i \in 1..k
             /\ Lines(t)
    <1>0. PICK t \in Seq(RevRecords), k \in Nat : t = Append(q, w) /\ k = Len(q)
        BY LenProperties, AppendProperties
    <1>1. k \in Nat /\ k = Len(q) BY <1>0
    <1>2. /\ t \in Seq(RevRecords) /\ Len(t) = k + 1 /\ t[k + 1] = w
          /\ \A i \in 1..k : t[i] = q[i]
        BY <1>0, AppendProperties
    <1>3. /\ \A i \in 1..k : i \in 1..k + 1
          /\ \A i \in 1..k + 1 : i # k + 1 => i \in 1..k
        BY <1>1
    <1>4. Lines(t)
        <2> SUFFICES ASSUME NEW j \in 1..k + 1
                     PROVE  t[j].parent = Latest({i \in 1..j - 1 : t[i].entity = t[j].entity})
            BY <1>2 DEF Lines
        <2>1. CASE j \in 1..k
            <3>1. \A i \in 1..j - 1 : i \in 1..k BY <1>1, <2>1
            <3>2. {i \in 1..j - 1 : t[i].entity = t[j].entity}
                    = {i \in 1..j - 1 : q[i].entity = q[j].entity}
                BY <1>2, <2>1, <3>1
            <3> QED BY <1>0, <1>2, <2>1, <3>2 DEF Lines
        <2>2. CASE j = k + 1
            <3>1. j - 1 = k BY <1>1, <2>2
            <3>2. {i \in 1..j - 1 : t[i].entity = t[j].entity} = RevsOf(q, e)
                BY <1>1, <1>2, <2>2, <3>1 DEF RevsOf
            <3> QED BY <1>2, <2>2, <3>2
        <2> QED BY <1>3, <2>1, <2>2
    <1> QED BY <1>0, <1>2, <1>3, <1>4

\* The head of an entity is the latest of its revisions.
LEMMA HeadIsLatest ==
    ASSUME NEW r, RegistryKept(r), NEW e \in 1..Len(r.head)
    PROVE  /\ r.head[e] \in 1..Len(r.revs) /\ r.head[e] \in Nat /\ r.revs[r.head[e]].entity = e
           /\ r.head[e] = Latest(RevsOf(r.revs, e))
    <1>0. PICK S : S = RevsOf(r.revs, e) OBVIOUS
    <1>1. HeadsLast(r) /\ Len(r.revs) \in Nat BY LenProperties DEF RegistryKept
    <1>2. r.head[e] \in 1..Len(r.revs) /\ r.revs[r.head[e]].entity = e BY <1>1 DEF HeadsLast
    <1>3. S \in SUBSET Nat /\ r.head[e] \in S BY <1>0, <1>1, <1>2 DEF RevsOf
    <1>4. \A i \in S : i <= r.head[e] BY <1>0, <1>1 DEF HeadsLast, RevsOf
    <1>5. r.head[e] = Latest(S) BY <1>3, <1>4, LatestIs
    <1> QED BY <1>0, <1>2, <1>3, <1>5

LEMMA KnownHead ==
    ASSUME NEW r, RegistryKept(r), NEW a, Known(r, a)
    PROVE  /\ r.alias[a].entity \in 1..Len(r.head)
           /\ HeadOf(r, a) = r.head[r.alias[a].entity]
           /\ HeadOf(r, a) \in 1..Len(r.revs) /\ HeadOf(r, a) \in Nat
           /\ r.revs[HeadOf(r, a)].entity = r.alias[a].entity
           /\ \A i \in 1..Len(r.revs) : r.revs[i].entity = r.alias[a].entity => i <= HeadOf(r, a)
    <1>1. HeadsLast(r) BY DEF RegistryKept
    <1>2. r.alias[a].entity \in 1..Len(r.head) BY <1>1 DEF HeadsLast, Known
    <1>3. HeadOf(r, a) = r.head[r.alias[a].entity] BY DEF HeadOf
    <1>4. \A i \in 1..Len(r.revs) : r.revs[i].entity = r.alias[a].entity => i <= HeadOf(r, a)
        BY <1>1, <1>3 DEF HeadsLast
    <1>5. PICK e \in 1..Len(r.head) : e = r.alias[a].entity BY <1>2
    <1>6. r.head[e] \in 1..Len(r.revs) /\ r.head[e] \in Nat /\ r.revs[r.head[e]].entity = e
        BY HeadIsLatest
    <1> QED BY <1>2, <1>3, <1>4, <1>5, <1>6

LEMMA InsertAdds ==
    ASSUME NEW r, RegistryKept(r), NEW i \in Instances, ~Known(r, Data(i)), NEW v \in Stored,
           NEW b \in PubIds \cup {<<"edit">>}
    PROVE  Adds(r, Insert(r, Data(i), v, b), Data(i), Len(r.revs) + 1, v, b)
    <1>1. /\ r = [revs |-> r.revs, head |-> r.head, alias |-> r.alias, pub |-> r.pub]
          /\ r.revs \in Seq(RevRecords) /\ r.head \in Seq(Nat) /\ HeadsLast(r)
        BY DEF RegistryKept
    <1>0. PICK k \in Nat, h \in Nat : k = Len(r.revs) /\ h = Len(r.head)
        BY <1>1, LenProperties
    <1>2. PICK a, row : /\ k = Len(r.revs) /\ h = Len(r.head) /\ a = Data(i)
                        /\ row = [entity |-> h + 1, write |-> TRUE]
        BY <1>0
    <1>3. PICK w \in RevRecords :
            /\ w = [entity |-> h + 1, parent |-> None, value |-> v, by |-> b]
            /\ w.entity = h + 1 /\ w.parent = None /\ w.value = v /\ w.by = b
        <2>1. h + 1 \in Nat /\ None \in Nat BY DEF None
        <2> QED BY <2>1, RevMade
    <1>4. PICK s : s = Insert(r, a, v, b) OBVIOUS
    <1>5. /\ s.revs = Append(r.revs, w) /\ s.head = Append(r.head, k + 1)
          /\ s.alias = AddRow(r.alias, a, row) /\ s.pub = r.pub
          /\ s = [revs |-> s.revs, head |-> s.head, alias |-> s.alias, pub |-> s.pub]
        BY <1>1, <1>2, <1>3, <1>4 DEF Insert
    <1>6. w.parent = Latest(RevsOf(r.revs, w.entity))
        <2>1. \A j \in 1..k : r.revs[j].entity # h + 1 BY <1>1, <1>2 DEF HeadsLast
        <2>2. RevsOf(r.revs, w.entity) = {} BY <1>2, <1>3, <2>1 DEF RevsOf
        <2> QED BY <1>3, <2>2 DEF Latest
    <1>7. /\ s.revs \in Seq(RevRecords) /\ Len(s.revs) = k + 1 /\ s.revs[k + 1] = w
          /\ \A j \in 1..k : j \in 1..Len(s.revs) /\ s.revs[j] = r.revs[j]
          /\ \A j \in 1..Len(s.revs) : j # k + 1 => j \in 1..k
          /\ Lines(s.revs)
        <2>1. PICK q \in Seq(RevRecords) : q = r.revs BY <1>1
        <2>2. Lines(q) /\ w.entity = h + 1 /\ w.parent = Latest(RevsOf(q, h + 1))
            BY <1>0, <1>5, <1>6, <1>3, <2>1 DEF RegistryKept
        <2>3. PICK t \in Seq(RevRecords), n \in Nat :
                /\ t = Append(q, w) /\ n = Len(q) /\ Len(t) = n + 1 /\ t[n + 1] = w
                /\ \A j \in 1..n : j \in 1..Len(t) /\ t[j] = q[j]
                /\ \A j \in 1..Len(t) : j # n + 1 => j \in 1..n
                /\ Lines(t)
            BY <2>2, RevAppended
        <2>4. n = k /\ t = s.revs BY <1>0, <1>5, <1>6, <2>1, <2>3
        <2> QED BY <2>1, <2>3, <2>4
    <1>8. /\ s.head \in Seq(Nat) /\ Len(s.head) = h + 1 /\ s.head[h + 1] = k + 1
          /\ \A e \in 1..h : s.head[e] = r.head[e]
        BY <1>1, <1>2, <1>5, AppendProperties
    <1>9. /\ DOMAIN s.alias = DOMAIN r.alias \cup {a}
          /\ \A c \in DOMAIN r.alias : s.alias[c] = r.alias[c]
          /\ s.alias[a] = row
        <2>1. s.alias = AddRow(r.alias, a, row) BY <1>5
        <2>2. a \notin DOMAIN r.alias BY <1>2 DEF Known
        <2> QED BY <2>1, <2>2 DEF AddRow
    <1>10. row.entity = h + 1 /\ row.write BY <1>2
    <1>11. HeadsLast(s)
        <2>1. ASSUME NEW e \in 1..h + 1
              PROVE  s.head[e] \in 1..k + 1 /\ s.revs[s.head[e]].entity = e
            <3>1. CASE e = h + 1
                <4>1. s.head[e] = k + 1 /\ s.revs[k + 1].entity = e BY <1>3, <1>7, <1>8, <3>1
                <4> QED BY <1>0, <4>1
            <3>2. CASE e # h + 1
                <4>1. e \in 1..h BY <1>2, <3>2
                <4>2. s.head[e] = r.head[e] /\ r.head[e] \in 1..k /\ r.revs[r.head[e]].entity = e
                    BY <1>1, <1>2, <1>8, <4>1 DEF HeadsLast
                <4> QED BY <1>2, <1>7, <4>2
            <3> QED BY <3>1, <3>2
        <2>2. ASSUME NEW j \in 1..k + 1
              PROVE  s.revs[j].entity \in 1..h + 1 /\ j <= s.head[s.revs[j].entity]
            <3>1. CASE j = k + 1
                <4>1. s.revs[j].entity = h + 1 /\ s.head[h + 1] = j BY <1>3, <1>7, <1>8, <3>1
                <4> QED BY <1>2, <4>1
            <3>2. CASE j # k + 1
                <4>1. j \in 1..k /\ s.revs[j] = r.revs[j] BY <1>7, <3>2
                <4>2. r.revs[j].entity \in 1..h /\ j <= r.head[r.revs[j].entity]
                    BY <1>1, <1>2, <4>1 DEF HeadsLast
                <4>3. s.head[s.revs[j].entity] = r.head[r.revs[j].entity] BY <1>8, <4>1, <4>2
                <4> QED BY <1>2, <4>1, <4>2, <4>3
            <3> QED BY <3>1, <3>2
        <2>3. ASSUME NEW c \in DOMAIN s.alias PROVE s.alias[c].entity \in 1..h + 1
            <3>1. CASE c \in DOMAIN r.alias
                <4>1. r.alias[c].entity \in 1..h /\ s.alias[c] = r.alias[c]
                    BY <1>1, <1>2, <1>9, <3>1 DEF HeadsLast
                <4> QED BY <1>2, <4>1
            <3>2. CASE c = a BY <1>2, <1>9, <1>10, <3>2
            <3> QED BY <1>9, <3>1, <3>2
        <2> QED BY <1>7, <1>8, <2>1, <2>2, <2>3 DEF HeadsLast
    <1>12. \A c \in Instances : Known(s, Data(c)) => s.alias[Data(c)].write
        BY <1>2, <1>9, <1>10 DEF Known, RegistryKept
    <1>13. RegistryKept(s) BY <1>5, <1>7, <1>8, <1>11, <1>12 DEF RegistryKept
    <1>14. Grow(r, s) BY <1>2, <1>7, <1>9 DEF Grow
    <1>15. Known(s, a) /\ s.revs[k + 1].entity = s.alias[a].entity
        BY <1>3, <1>7, <1>9, <1>10 DEF Known
    <1>16. k + 1 \in 1..Len(s.revs) BY <1>2, <1>7
    <1>17. Adds(r, s, a, k + 1, v, b)
        BY <1>2, <1>3, <1>5, <1>7, <1>13, <1>14, <1>15, <1>16 DEF Adds
    <1> QED BY <1>2, <1>4, <1>17

LEMMA AdvanceAdds ==
    ASSUME NEW r, RegistryKept(r), NEW a, Known(r, a), NEW v \in Stored,
           NEW b \in PubIds \cup {<<"edit">>}
    PROVE  Adds(r, Advance(r, a, HeadOf(r, a), v, b), a, Len(r.revs) + 1, v, b)
    <1>1. /\ r = [revs |-> r.revs, head |-> r.head, alias |-> r.alias, pub |-> r.pub]
          /\ r.revs \in Seq(RevRecords) /\ r.head \in Seq(Nat) /\ HeadsLast(r)
        BY DEF RegistryKept
    <1>2. PICK k \in Nat, h \in Nat, e \in 1..Len(r.head), d \in Nat :
            /\ k = Len(r.revs) /\ h = Len(r.head) /\ e = r.alias[a].entity
            /\ d = HeadOf(r, a) /\ d = r.head[e]
        BY <1>1, LenProperties, KnownHead
    <1>3. e \in 1..h /\ e \in Nat BY <1>2
    <1>4. PICK w \in RevRecords :
            /\ w = [entity |-> e, parent |-> d, value |-> v, by |-> b]
            /\ w.entity = e /\ w.parent = d /\ w.value = v /\ w.by = b
        BY <1>3, RevMade
    <1>5. PICK s : s = Advance(r, a, d, v, b) OBVIOUS
    <1>6. /\ s.revs = Append(r.revs, w) /\ s.head = [r.head EXCEPT ![e] = k + 1]
          /\ s.alias = r.alias /\ s.pub = r.pub
          /\ s = [revs |-> s.revs, head |-> s.head, alias |-> s.alias, pub |-> s.pub]
        BY <1>1, <1>2, <1>4, <1>5 DEF Advance
    <1>7. w.parent = Latest(RevsOf(r.revs, w.entity)) BY <1>2, <1>4, HeadIsLatest
    <1>8. /\ s.revs \in Seq(RevRecords) /\ Len(s.revs) = k + 1 /\ s.revs[k + 1] = w
          /\ \A j \in 1..k : j \in 1..Len(s.revs) /\ s.revs[j] = r.revs[j]
          /\ \A j \in 1..Len(s.revs) : j # k + 1 => j \in 1..k
          /\ Lines(s.revs)
        <2>1. PICK q \in Seq(RevRecords) : q = r.revs BY <1>1
        <2>2. Lines(q) /\ w.entity = e /\ w.parent = Latest(RevsOf(q, e))
            BY <1>2, <1>6, <1>7, <1>4, <2>1 DEF RegistryKept
        <2>3. PICK t \in Seq(RevRecords), n \in Nat :
                /\ t = Append(q, w) /\ n = Len(q) /\ Len(t) = n + 1 /\ t[n + 1] = w
                /\ \A j \in 1..n : j \in 1..Len(t) /\ t[j] = q[j]
                /\ \A j \in 1..Len(t) : j # n + 1 => j \in 1..n
                /\ Lines(t)
            BY <2>2, RevAppended
        <2>4. n = k /\ t = s.revs BY <1>2, <1>6, <1>7, <2>1, <2>3
        <2> QED BY <2>1, <2>3, <2>4
    <1>9. /\ s.head \in Seq(Nat) /\ Len(s.head) = h /\ s.head[e] = k + 1
          /\ \A f \in 1..h : f # e => s.head[f] = r.head[f]
        BY <1>1, <1>2, <1>3, <1>6, ExceptSeq
    <1>10. HeadsLast(s)
        <2>1. ASSUME NEW f \in 1..h
              PROVE  s.head[f] \in 1..k + 1 /\ s.revs[s.head[f]].entity = f
            <3>1. CASE f = e
                <4>1. s.head[f] = k + 1 /\ s.revs[k + 1].entity = f BY <1>4, <1>8, <1>9, <3>1
                <4> QED BY <1>2, <4>1
            <3>2. CASE f # e
                <4>1. s.head[f] = r.head[f] /\ r.head[f] \in 1..k /\ r.revs[r.head[f]].entity = f
                    BY <1>1, <1>2, <1>9, <3>2 DEF HeadsLast
                <4> QED BY <1>2, <1>8, <4>1
            <3> QED BY <3>1, <3>2
        <2>2. ASSUME NEW j \in 1..k + 1
              PROVE  s.revs[j].entity \in 1..h /\ j <= s.head[s.revs[j].entity]
            <3>1. CASE j = k + 1
                <4>1. s.revs[j].entity = e /\ s.head[e] = j BY <1>4, <1>8, <1>9, <3>1
                <4> QED BY <1>2, <1>3, <4>1
            <3>2. CASE j # k + 1
                <4>1. j \in 1..k /\ s.revs[j] = r.revs[j] BY <1>8, <3>2
                <4>2. r.revs[j].entity \in 1..h /\ j <= r.head[r.revs[j].entity]
                    BY <1>1, <1>2, <4>1 DEF HeadsLast
                <4>3. CASE r.revs[j].entity = e BY <1>2, <1>9, <4>1, <4>2, <4>3
                <4>4. CASE r.revs[j].entity # e BY <1>9, <4>1, <4>2, <4>4
                <4> QED BY <4>3, <4>4
            <3> QED BY <3>1, <3>2
        <2> QED BY <1>1, <1>2, <1>6, <1>8, <1>9, <2>1, <2>2 DEF HeadsLast
    <1>11. RegistryKept(s) BY <1>6, <1>8, <1>9, <1>10 DEF RegistryKept, Known
    <1>12. Grow(r, s) BY <1>2, <1>6, <1>8 DEF Grow
    <1>13. Known(s, a) /\ s.revs[k + 1].entity = s.alias[a].entity
        BY <1>2, <1>4, <1>6, <1>8 DEF Known
    <1>14. k + 1 \in 1..Len(s.revs) BY <1>2, <1>8
    <1>15. Adds(r, s, a, k + 1, v, b)
        BY <1>2, <1>4, <1>6, <1>8, <1>11, <1>12, <1>13, <1>14 DEF Adds
    <1> QED BY <1>2, <1>5, <1>15

LEMMA CommittedIs ==
    ASSUME NEW d, NEW s, NEW n, d = Committed(s, n)
    PROVE  d.reg = s /\ d.rev = n /\ d.err = "none"
    BY DEF Committed

\* Each operation adds one revision and reports no error, or changes nothing.
LEMMA CreateIs ==
    ASSUME NEW r, RegistryKept(r), NEW i \in Instances, NEW v \in Stored,
           NEW b \in PubIds \cup {<<"edit">>}, NEW d, d = Create(r, Data(i), v, b)
    PROVE  \/ d.err = "none" /\ Adds(r, d.reg, Data(i), d.rev, v, b)
           \/ d.err # "none" /\ d.reg = r /\ Known(r, Data(i))
    <1>1. CASE Known(r, Data(i))
        <2>1. d = Rejected(r, "alias_exists") BY <1>1 DEF Create, RequireFree
        <2>2. d.reg = r /\ d.err = "alias_exists" BY <2>1 DEF Rejected
        <2> QED BY <1>1, <2>2
    <1>2. CASE ~Known(r, Data(i))
        <2>1. PICK s, n : s = Insert(r, Data(i), v, b) /\ n = Len(r.revs) + 1 OBVIOUS
        <2>2. d = Committed(s, n) BY <1>2, <2>1 DEF Create, RequireFree
        <2>3. d.reg = s /\ d.rev = n /\ d.err = "none" BY <2>2, CommittedIs
        <2>4. Adds(r, s, Data(i), n, v, b) BY <1>2, <2>1, InsertAdds
        <2> QED BY <2>3, <2>4
    <1> QED BY <1>1, <1>2

LEMMA PublishIs ==
    ASSUME NEW r, RegistryKept(r), NEW a, NEW x, NEW v \in Stored,
           NEW b \in PubIds \cup {<<"edit">>}, NEW d, d = Publish(r, a, x, v, b)
    PROVE  \/ d.err = "none" /\ Adds(r, d.reg, a, d.rev, v, b)
           \/ d.err # "none" /\ d.reg = r /\ (Known(r, a) /\ r.alias[a].write => HeadOf(r, a) # x)
    <1>1. CASE ~Known(r, a)
        <2>1. d = Rejected(r, "not_found") BY <1>1 DEF Publish, RequireWritable
        <2>2. d.reg = r /\ d.err = "not_found" BY <2>1 DEF Rejected
        <2> QED BY <1>1, <2>2
    <1>2. CASE Known(r, a) /\ ~r.alias[a].write
        <2>1. d = Rejected(r, "permission_denied") BY <1>2 DEF Publish, RequireWritable
        <2>2. d.reg = r /\ d.err = "permission_denied" BY <2>1 DEF Rejected
        <2> QED BY <1>2, <2>2
    <1>3. CASE Known(r, a) /\ r.alias[a].write /\ HeadOf(r, a) # x
        <2>1. d = Rejected(r, "conflict") BY <1>3 DEF Publish, RequireWritable
        <2>2. d.reg = r /\ d.err = "conflict" BY <2>1 DEF Rejected
        <2> QED BY <1>3, <2>2
    <1>4. CASE Known(r, a) /\ r.alias[a].write /\ HeadOf(r, a) = x
        <2>1. PICK s, n : s = Advance(r, a, HeadOf(r, a), v, b) /\ n = Len(r.revs) + 1 OBVIOUS
        <2>2. d = Committed(s, n) BY <1>4, <2>1 DEF Publish, RequireWritable
        <2>3. d.reg = s /\ d.rev = n /\ d.err = "none" BY <2>2, CommittedIs
        <2>4. Adds(r, s, a, n, v, b) BY <1>4, <2>1, AdvanceAdds
        <2> QED BY <2>3, <2>4
    <1> QED BY <1>1, <1>2, <1>3, <1>4

\* A grant adds an alias of a known entity.
LEMMA GrantIs ==
    ASSUME NEW r, RegistryKept(r), NEW a, NEW c, NEW u \in BOOLEAN, NEW d,
           d = Grant(r, a, c, u), \A i \in Instances : c # Data(i)
    PROVE  RegistryKept(d.reg) /\ Grow(r, d.reg) /\ d.reg.pub = r.pub /\ d.reg.revs = r.revs
    <1>0. Grow(r, r) BY DEF Grow
    <1>1. CASE RequireWritable(r, a) # "none" \/ RequireFree(r, c) # "none"
        <2>1. \E why : d = Rejected(r, why) BY <1>1 DEF Grant
        <2>2. d.reg = r BY <2>1 DEF Rejected
        <2> QED BY <1>0, <2>2
    <1>2. CASE ~(RequireWritable(r, a) # "none" \/ RequireFree(r, c) # "none")
        <2>1. Known(r, a) /\ ~Known(r, c) BY <1>2 DEF RequireWritable, RequireFree
        <2>2. PICK row : row = [entity |-> r.alias[a].entity, write |-> u] OBVIOUS
        <2>3. PICK s : s = [r EXCEPT !.alias = AddRow(r.alias, c, row)] OBVIOUS
        <2>4. d = Committed(s, None) BY <1>2, <2>2, <2>3 DEF Grant
        <2>5. d.reg = s BY <2>4, CommittedIs
        <2>6. /\ r = [revs |-> r.revs, head |-> r.head, alias |-> r.alias, pub |-> r.pub]
              /\ r.revs \in Seq(RevRecords) /\ r.head \in Seq(Nat) /\ HeadsLast(r)
              /\ Lines(r.revs)
            BY DEF RegistryKept
        <2>7. /\ s.revs = r.revs /\ s.head = r.head /\ s.pub = r.pub
              /\ s.alias = AddRow(r.alias, c, row)
              /\ s = [revs |-> s.revs, head |-> s.head, alias |-> s.alias, pub |-> s.pub]
            BY <2>3, <2>6
        <2>8. row.entity = r.alias[a].entity BY <2>2
        <2>9. /\ DOMAIN s.alias = DOMAIN r.alias \cup {c}
              /\ \A x \in DOMAIN r.alias : s.alias[x] = r.alias[x]
              /\ s.alias[c] = row
            <3>1. s.alias = AddRow(r.alias, c, row) BY <2>7
            <3>2. c \notin DOMAIN r.alias BY <2>1 DEF Known
            <3> QED BY <3>1, <3>2 DEF AddRow
        <2>10. r.alias[a].entity \in 1..Len(r.head) BY <2>1, KnownHead
        <2>11. HeadsLast(s)
            <3>1. ASSUME NEW x \in DOMAIN s.alias PROVE s.alias[x].entity \in 1..Len(s.head)
                <4>1. CASE x = c BY <2>7, <2>8, <2>9, <2>10, <4>1
                <4>2. CASE x # c BY <2>6, <2>7, <2>9, <4>2 DEF HeadsLast
                <4> QED BY <4>1, <4>2
            <3>2. /\ \A e \in 1..Len(s.head) :
                       s.head[e] \in 1..Len(s.revs) /\ s.revs[s.head[e]].entity = e
                  /\ \A i \in 1..Len(s.revs) :
                       s.revs[i].entity \in 1..Len(s.head) /\ i <= s.head[s.revs[i].entity]
                BY <2>6, <2>7 DEF HeadsLast
            <3> QED BY <3>1, <3>2 DEF HeadsLast
        <2>12. \A i \in Instances : Known(s, Data(i)) => s.alias[Data(i)].write
            BY <2>9 DEF Known, RegistryKept
        <2>13. RegistryKept(s) BY <2>6, <2>7, <2>11, <2>12 DEF RegistryKept
        <2>14. Grow(r, s) BY <2>7, <2>9 DEF Grow
        <2> QED BY <2>5, <2>7, <2>13, <2>14
    <1> QED BY <1>1, <1>2

\* The identity of a publication is recorded with its revision.
WithPub(r, id, row) == [r EXCEPT !.pub = AddRow(r.pub, id, row)]

LEMMA PubRecorded ==
    ASSUME NEW r, RegistryKept(r), NEW id, NEW row, id \notin DOMAIN r.pub, NEW s,
           s = WithPub(r, id, row)
    PROVE  /\ RegistryKept(s) /\ s.revs = r.revs /\ s.alias = r.alias
           /\ DOMAIN s.pub = DOMAIN r.pub \cup {id}
           /\ \A x \in DOMAIN r.pub : s.pub[x] = r.pub[x]
           /\ s.pub[id] = row
    <1>1. /\ r = [revs |-> r.revs, head |-> r.head, alias |-> r.alias, pub |-> r.pub]
          /\ r.revs \in Seq(RevRecords) /\ r.head \in Seq(Nat) /\ HeadsLast(r)
          /\ Lines(r.revs)
        BY DEF RegistryKept
    <1>2. /\ s.revs = r.revs /\ s.head = r.head /\ s.alias = r.alias
          /\ s.pub = AddRow(r.pub, id, row)
          /\ s = [revs |-> s.revs, head |-> s.head, alias |-> s.alias, pub |-> s.pub]
        BY <1>1 DEF WithPub
    <1>3. /\ DOMAIN s.pub = DOMAIN r.pub \cup {id}
          /\ \A x \in DOMAIN r.pub : s.pub[x] = r.pub[x]
          /\ s.pub[id] = row
        <2>1. s.pub = AddRow(r.pub, id, row) BY <1>2
        <2> QED BY <2>1 DEF AddRow
    <1>4. HeadsLast(s) BY <1>1, <1>2 DEF HeadsLast
    <1>5. \A i \in Instances : Known(s, Data(i)) => s.alias[Data(i)].write
        BY <1>2 DEF Known, RegistryKept
    <1>6. RegistryKept(s) BY <1>1, <1>2, <1>4, <1>5 DEF RegistryKept
    <1> QED BY <1>2, <1>3, <1>6

\* A revision of a dataset stays one.
LEMMA RevisionStays ==
    ASSUME NEW r, NEW s, Grow(r, s), NEW i \in Instances, NEW n, RevisionOf(r, i, n)
    PROVE  RevisionOf(s, i, n)
    BY DEF RevisionOf, Grow, Known

LEMMA HeadIsRevision ==
    ASSUME NEW r, RegistryKept(r), NEW i \in Instances
    PROVE  RevisionOf(r, i, HeadOf(r, Data(i))) /\ HeadOf(r, Data(i)) \in Nat
    <1>1. CASE Known(r, Data(i)) BY <1>1, KnownHead DEF RevisionOf
    <1>2. CASE ~Known(r, Data(i)) BY <1>2 DEF HeadOf, RevisionOf, None
    <1> QED BY <1>1, <1>2

-----------------------------------------------------------------------------
(***************************************************************************)
(* Publications in progress.                                               *)
(***************************************************************************)
JobStages == {"intent", "registry", "view", "grant", "ok", "failed"}

LEMMA JobIs ==
    ASSUME NEW j \in Jobs
    PROVE  /\ j.stage \in JobStages /\ j.inst \in Instances /\ j.id \in PubIds
           /\ j.value \in Stored /\ j.heads \in Int /\ j.rev \in Nat /\ j.todo \in 1..2
           /\ j # NoJob /\ j.stage # "none"
    <1>1. /\ j.stage \in JobStages /\ j.inst \in Instances /\ j.id \in PubIds
          /\ j.value \in Stored /\ j.heads \in Int /\ j.rev \in Nat /\ j.todo \in 1..2
        BY DEF Jobs, JobStages
    <1>2. j.stage # "none" BY <1>1 DEF JobStages
    <1>3. NoJob.stage = "none" BY DEF NoJob
    <1> QED BY <1>1, <1>2, <1>3

\* A process whose publication is at a stage has one.
LEMMA JobAt ==
    ASSUME JobKept, NEW p \in Procs, NEW s \in JobStages, At(p, s)
    PROVE  \E j \in Jobs : j = job[p] /\ j.stage = s /\ JobFits(j)
    <1>1. job[p] \in Jobs \cup {NoJob} BY DEF JobKept
    <1>2. job[p].stage = s /\ s # "none" BY DEF At, JobStages
    <1>3. NoJob.stage = "none" BY DEF NoJob
    <1>4. job[p] \in Jobs /\ job[p] # NoJob BY <1>1, <1>2, <1>3
    <1>5. JobFits(job[p]) BY <1>4 DEF JobKept
    <1> QED BY <1>2, <1>4, <1>5

LEMMA JobStaged ==
    ASSUME NEW j \in Jobs, NEW s \in JobStages
    PROVE  \E w \in Jobs : /\ w = [j EXCEPT !.stage = s] /\ w.stage = s /\ w.inst = j.inst
                           /\ w.id = j.id /\ w.value = j.value /\ w.heads = j.heads /\ w.rev = j.rev
    <1>1. PICK w : w = [j EXCEPT !.stage = s] OBVIOUS
    <1>2. w \in Jobs BY <1>1 DEF Jobs, JobStages
    <1>3. /\ w.stage = s /\ w.inst = j.inst /\ w.id = j.id /\ w.value = j.value
          /\ w.heads = j.heads /\ w.rev = j.rev
        BY <1>1 DEF Jobs
    <1> QED BY <1>1, <1>2, <1>3

Commits(j, n) == [j EXCEPT !.stage = "view", !.rev = n]
Grants(j, n) == [j EXCEPT !.stage = "grant", !.todo = n]

LEMMA JobCommitted ==
    ASSUME NEW j \in Jobs, NEW n \in Nat
    PROVE  \E w \in Jobs : /\ w = Commits(j, n) /\ w.stage = "view" /\ w.inst = j.inst
                           /\ w.id = j.id /\ w.value = j.value /\ w.heads = j.heads /\ w.rev = n
    <1>1. PICK w : w = Commits(j, n) OBVIOUS
    <1>2. w \in Jobs BY <1>1 DEF Jobs, Commits
    <1>3. /\ w.stage = "view" /\ w.inst = j.inst /\ w.id = j.id /\ w.value = j.value
          /\ w.heads = j.heads /\ w.rev = n
        BY <1>1 DEF Jobs, Commits
    <1> QED BY <1>1, <1>2, <1>3

LEMMA JobGranting ==
    ASSUME NEW j \in Jobs, NEW n \in 1..2
    PROVE  \E w \in Jobs : /\ w = Grants(j, n) /\ w.stage = "grant" /\ w.inst = j.inst
                           /\ w.id = j.id /\ w.value = j.value /\ w.heads = j.heads
                           /\ w.rev = j.rev
    <1>1. PICK w : w = Grants(j, n) OBVIOUS
    <1>2. w \in Jobs BY <1>1 DEF Jobs, Grants
    <1>3. /\ w.stage = "grant" /\ w.inst = j.inst /\ w.id = j.id /\ w.value = j.value
          /\ w.heads = j.heads /\ w.rev = j.rev
        BY <1>1 DEF Jobs, Grants
    <1> QED BY <1>1, <1>2, <1>3

\* publish_values starts with what fits.
LEMMA JobStarts ==
    ASSUME NEW id \in PubIds, NEW v \in Stored, NEW h \in Int,
           h = NoHeads \/ RevisionOf(reg, InstOf(id), h)
    PROVE  Publishing(InstOf(id), id, v, h) \in Jobs /\ JobFits(Publishing(InstOf(id), id, v, h))
    <1>1. PICK i, w : i = InstOf(id) /\ w = Publishing(i, id, v, h) OBVIOUS
    <1>2. i \in Instances BY <1>1 DEF InstOf, Instances
    <1>3. /\ w.stage = "intent" /\ w.inst = i /\ w.id = id /\ w.heads = h
          /\ w.stage # "registry" /\ w.stage # "view"
        BY <1>1 DEF Publishing
    <1>4. None \in Nat /\ 1 \in 1..2 BY DEF None
    <1>5. w \in Jobs BY <1>1, <1>2, <1>4 DEF Publishing, Jobs
    <1>6. JobFits(w) BY <1>1, <1>3 DEF JobFits
    <1> QED BY <1>1, <1>5, <1>6

-----------------------------------------------------------------------------
(***************************************************************************)
(* How the invariant of the registry is kept.                              *)
(***************************************************************************)
IntentGrows == \A id \in DOMAIN intent : id \in DOMAIN intent' /\ intent'[id] = intent[id]

\* A publication in progress fits while rows are added.
LEMMA FitsStill ==
    ASSUME NEW j \in Jobs, JobFits(j), Grow(reg, reg'), IntentGrows
    PROVE  JobFits(j)'
    <1>1. j.inst = InstOf(j.id) /\ j.inst \in Instances BY JobIs DEF JobFits
    <1>2. j.heads = NoHeads \/ RevisionOf(reg', j.inst, j.heads)
        BY <1>1, RevisionStays DEF JobFits
    <1>3. j.stage = "view" => RevisionOf(reg', j.inst, j.rev) BY <1>1, RevisionStays DEF JobFits
    <1>4. j.stage = "registry" => j.id \in DOMAIN intent' /\ intent'[j.id].value = j.value
        BY DEF JobFits, IntentGrows
    <1> QED BY <1>1, <1>2, <1>3, <1>4 DEF JobFits

LEMMA HeadsStay ==
    ASSUME HeadsKept, Grow(reg, reg'), UNCHANGED heads PROVE HeadsKept'
    <1>1. ASSUME NEW v \in Visits, heads[v] # NoHeads PROVE RevisionOf(reg', "kid", heads[v])
        <2>1. RevisionOf(reg, "kid", heads[v]) BY <1>1 DEF HeadsKept
        <2>2. "kid" \in Instances BY DEF Instances
        <2> QED BY <2>1, <2>2, RevisionStays
    <1> QED BY <1>1 DEF HeadsKept

\* A step of a publication.
LEMMA RegistryMoves ==
    ASSUME RegistryInv, RegistryKept(reg)', ByKnown(reg)', Grow(reg, reg'), IntentGrows,
           IntentKept', PubKept', ViewKept', NoSelfConflict', UNCHANGED <<heads, seed>>,
           NEW p \in Procs, NEW w \in Jobs, job' = [job EXCEPT ![p] = w], JobFits(w)'
    PROVE  RegistryInv'
    <1>1. HeadsKept' BY HeadsStay DEF RegistryInv
    <1>2. JobKept'
        <2>1. job \in [Procs -> Jobs \cup {NoJob}] BY DEF RegistryInv, JobKept
        <2>2. job' \in [Procs -> Jobs \cup {NoJob}] BY <2>1
        <2>3. ASSUME NEW q \in Procs, job'[q] # NoJob PROVE JobFits(job[q])'
            <3>1. CASE q = p
                <4>1. job'[q] = w BY <2>1, <3>1
                <4> QED BY <4>1 DEF JobFits
            <3>2. CASE q # p
                <4>1. PICK j \in Jobs : j = job[q] /\ j = job'[q] /\ JobFits(j)
                    BY <2>1, <2>2, <2>3, <3>2 DEF RegistryInv, JobKept
                <4>2. JobFits(j)' BY <4>1, FitsStill
                <4> QED BY <4>1, <4>2 DEF JobFits
            <3> QED BY <3>1, <3>2
        <2> QED BY <2>2, <2>3 DEF JobKept
    <1> QED BY <1>1, <1>2 DEF RegistryInv

\* Any other step.
LEMMA JobsMove ==
    ASSUME RegistryInv, UNCHANGED <<reg, intent, view, clashes>>, seed' \in Stored, HeadsKept',
           job' \in [Procs -> Jobs \cup {NoJob}],
           \A p \in Procs : job'[p] = NoJob \/ job'[p] = job[p] \/ JobFits(job'[p])
    PROVE  RegistryInv'
    <1>1. JobKept'
        <2>1. ASSUME NEW q \in Procs, job'[q] # NoJob PROVE JobFits(job[q])'
            <3>1. PICK j \in Jobs : j = job'[q] BY <2>1
            <3>2. JobFits(j) BY <2>1, <3>1 DEF RegistryInv, JobKept
            <3>3. JobFits(j)' BY <3>2 DEF JobFits
            <3> QED BY <3>1, <3>3 DEF JobFits
        <2> QED BY <2>1 DEF JobKept
    <1>2. RegistryKept(reg)' /\ ByKnown(reg)' BY DEF RegistryInv
    <1>3. IntentKept' /\ ViewKept' /\ PubKept' /\ NoSelfConflict'
        BY DEF RegistryInv, IntentKept, ViewKept, PubKept, NoSelfConflict
    <1> QED BY <1>1, <1>2, <1>3 DEF RegistryInv

LEMMA HeadsSame ==
    ASSUME HeadsKept, UNCHANGED <<reg, heads>> PROVE HeadsKept'
    BY DEF HeadsKept

published == <<reg, intent, view, clashes, heads, seed>>

\* A process starts a publication, or publications end.
LEMMA JobStarted ==
    ASSUME RegistryInv, UNCHANGED <<reg, intent, view, clashes, heads>>, seed' \in Stored,
           NEW p \in Procs, NEW w \in Jobs, JobFits(w), job' = [job EXCEPT ![p] = w]
    PROVE  RegistryInv'
    <1>1. job \in [Procs -> Jobs \cup {NoJob}] BY DEF RegistryInv, JobKept
    <1>2. job' \in [Procs -> Jobs \cup {NoJob}] BY <1>1
    <1>3. \A q \in Procs : job'[q] = NoJob \/ job'[q] = job[q] \/ JobFits(job'[q])
        <2> SUFFICES ASSUME NEW q \in Procs
                     PROVE  job'[q] = NoJob \/ job'[q] = job[q] \/ JobFits(job'[q])
            OBVIOUS
        <2>1. CASE q = p
            <3>1. job'[q] = w BY <1>1, <2>1
            <3> QED BY <3>1
        <2>2. CASE q # p BY <1>1, <2>2
        <2> QED BY <2>1, <2>2
    <1>4. HeadsKept' BY HeadsSame DEF RegistryInv
    <1> QED BY <1>2, <1>3, <1>4, JobsMove

LEMMA JobsEnded ==
    ASSUME RegistryInv, UNCHANGED published, DOMAIN job' = Procs, job' = [p \in Procs |-> job'[p]],
           \A p \in Procs : job'[p] = NoJob \/ job'[p] = job[p]
    PROVE  RegistryInv'
    <1>1. UNCHANGED <<reg, intent, view, clashes, heads, seed>> BY DEF published
    <1>2. job \in [Procs -> Jobs \cup {NoJob}] BY DEF RegistryInv, JobKept
    <1>3. job' \in [Procs -> Jobs \cup {NoJob}] BY <1>2
    <1>4. HeadsKept' BY <1>1, HeadsSame DEF RegistryInv
    <1>5. seed' \in Stored BY <1>1 DEF RegistryInv
    <1> QED BY <1>1, <1>3, <1>4, <1>5, JobsMove

LEMMA JobsSame ==
    ASSUME RegistryInv, UNCHANGED <<published, job>> PROVE RegistryInv'
    <1>1. UNCHANGED published /\ job' = job OBVIOUS
    <1>2. DOMAIN job' = Procs /\ job' = [p \in Procs |-> job'[p]] BY <1>1 DEF RegistryInv, JobKept
    <1> QED BY <1>1, <1>2, JobsEnded

-----------------------------------------------------------------------------
(***************************************************************************)
(* publish_values, step by step.                                           *)
(***************************************************************************)

\* What a publication expects is a revision of the publisher's dataset.
LEMMA ExpectationIs ==
    ASSUME RegistryInv, NEW j \in Jobs, JobFits(j)
    PROVE  RevisionOf(reg, j.inst, Expectation(j).rev)
    <1>0. j.inst \in Instances BY JobIs
    <1>1. CASE j.heads # NoHeads
        <2>1. Expectation(j).rev = j.heads BY <1>1 DEF Expectation
        <2> QED BY <1>1, <2>1 DEF JobFits
    <1>2. CASE j.heads = NoHeads /\ view[j.inst] # NoView
        <2>1. Expectation(j).rev = view[j.inst].rev BY <1>2 DEF Expectation
        <2> QED BY <1>0, <2>1 DEF RegistryInv, ViewKept
    <1>3. CASE j.heads = NoHeads /\ view[j.inst] = NoView
        <2>1. Expectation(j).rev = HeadOf(reg, Data(j.inst)) BY <1>3 DEF Expectation
        <2>2. RegistryKept(reg) BY DEF RegistryInv
        <2> QED BY <1>0, <2>1, <2>2, HeadIsRevision
    <1> QED BY <1>1, <1>2, <1>3

LEMMA JobSet ==
    ASSUME JobKept, NEW p \in Procs, NEW j, j = job[p], NEW s
    PROVE  [job EXCEPT ![p].stage = s] = [job EXCEPT ![p] = [j EXCEPT !.stage = s]]
    BY DEF JobKept

\* A publication goes on, or gives up, without touching a record.
LEMMA JobGoes ==
    ASSUME RegistryInv, UNCHANGED published, NEW p \in Procs, NEW j \in Jobs, j = job[p], JobFits(j),
           NEW s \in JobStages \ {"registry", "view"}, Goto(p, s)
    PROVE  RegistryInv'
    <1>1. UNCHANGED <<reg, intent, view, clashes, heads, seed>> BY DEF published
    <1>2. PICK w \in Jobs : /\ w = [j EXCEPT !.stage = s] /\ w.stage = s /\ w.inst = j.inst
                            /\ w.id = j.id /\ w.value = j.value /\ w.heads = j.heads
                            /\ w.rev = j.rev
        BY JobStaged
    <1>3. JobFits(w) BY <1>2 DEF JobFits
    <1>4. job' = [job EXCEPT ![p] = w] BY <1>2, JobSet DEF Goto, RegistryInv
    <1>5. seed' \in Stored BY <1>1 DEF RegistryInv
    <1> QED BY <1>1, <1>3, <1>4, <1>5, JobStarted

LEMMA PubIntentStep ==
    ASSUME RegistryInv, NEW p \in Procs, PubIntent(p), UNCHANGED <<heads, seed>>
    PROVE  RegistryInv'
    <1>1. PICK j \in Jobs : j = job[p] /\ j.stage = "intent" /\ JobFits(j)
        <2>1. JobKept /\ At(p, "intent") /\ "intent" \in JobStages
            BY DEF RegistryInv, PubIntent, JobStages
        <2> QED BY <2>1, JobAt
    <1>2. UNCHANGED <<reg, view, clashes>> BY DEF PubIntent
    <1>3. CASE Goto(p, "failed") /\ intent' = intent
        <2>1. UNCHANGED published BY <1>2, <1>3 DEF published
        <2>2. "failed" \in JobStages \ {"registry", "view"} BY DEF JobStages
        <2> QED BY <1>1, <1>3, <2>1, <2>2, JobGoes
    <1>4. CASE /\ j.id \in DOMAIN intent => intent[j.id].value = j.value
               /\ intent' = AddRow(intent, j.id, [value |-> j.value,
                                expected |-> Expectation(j).rev,
                                unchanged |-> Expectation(j).same])
               /\ Goto(p, "registry")
        <2>0. PICK e : e = Expectation(j) OBVIOUS
        <2>1. PICK row : /\ row = [value |-> j.value, expected |-> e.rev, unchanged |-> e.same]
                         /\ row.value = j.value /\ row.expected = e.rev
            <3>1. PICK q : q = [value |-> j.value, expected |-> e.rev, unchanged |-> e.same]
                OBVIOUS
            <3>2. q.value = j.value /\ q.expected = e.rev BY <3>1
            <3> QED BY <3>1, <3>2
        <2>2. intent' = AddRow(intent, j.id, row) BY <1>4, <2>0, <2>1
        <2>3. /\ DOMAIN intent' = DOMAIN intent \cup {j.id} /\ IntentGrows
              /\ j.id \notin DOMAIN intent => intent'[j.id] = row
            <3>1. PICK f : f = AddRow(intent, j.id, row) OBVIOUS
            <3>2. /\ DOMAIN f = DOMAIN intent \cup {j.id} /\ \A i \in DOMAIN intent : f[i] = intent[i]
                  /\ j.id \notin DOMAIN intent => f[j.id] = row
                BY <3>1 DEF AddRow
            <3>3. intent' = f BY <2>2, <3>1
            <3> QED BY <3>2, <3>3 DEF IntentGrows
        <2>4. j.id \in DOMAIN intent' /\ intent'[j.id].value = j.value
            BY <1>4, <2>1, <2>3 DEF IntentGrows
        <2>5. j.id \in PubIds /\ j.inst = InstOf(j.id) BY <1>1, JobIs DEF JobFits
        <2>6. IntentKept'
            <3>1. ASSUME NEW id \in DOMAIN intent'
                  PROVE  RevisionOf(reg', InstOf(id), intent'[id].expected)
                <4>1. CASE id \in DOMAIN intent
                    <5>1. intent'[id] = intent[id] BY <2>3, <4>1 DEF IntentGrows
                    <5>2. RevisionOf(reg, InstOf(id), intent[id].expected)
                        BY <4>1 DEF RegistryInv, IntentKept
                    <5> QED BY <1>2, <5>1, <5>2
                <4>2. CASE id \notin DOMAIN intent
                    <5>1. id = j.id /\ intent'[id] = row BY <2>3, <4>2
                    <5>2. RevisionOf(reg, j.inst, row.expected) BY <1>1, <2>0, <2>1, ExpectationIs
                    <5> QED BY <1>2, <2>5, <5>1, <5>2
                <4> QED BY <4>1, <4>2
            <3>2. DOMAIN intent' \subseteq PubIds BY <2>3, <2>5 DEF RegistryInv, IntentKept
            <3> QED BY <3>1, <3>2 DEF IntentKept
        <2>7. PubKept' BY <1>2, <2>3 DEF RegistryInv, PubKept, IntentGrows
        <2>8. PICK w \in Jobs : /\ w = [j EXCEPT !.stage = "registry"] /\ w.stage = "registry"
                                /\ w.inst = j.inst /\ w.id = j.id /\ w.value = j.value
                                /\ w.heads = j.heads /\ w.rev = j.rev
            <3>1. "registry" \in JobStages BY DEF JobStages
            <3> QED BY <3>1, JobStaged
        <2>9. JobFits(w)' BY <1>1, <1>2, <2>4, <2>8 DEF JobFits
        <2>10. job' = [job EXCEPT ![p] = w] BY <1>1, <1>4, <2>8, JobSet DEF Goto, RegistryInv
        <2>11. RegistryKept(reg)' /\ ByKnown(reg)' /\ ViewKept' /\ NoSelfConflict'
            BY <1>2 DEF RegistryInv, ViewKept, NoSelfConflict
        <2>12. Grow(reg, reg') BY <1>2 DEF Grow
        <2> QED BY <2>3, <2>6, <2>7, <2>9, <2>10, <2>11, <2>12, RegistryMoves
    <1> QED BY <1>1, <1>3, <1>4 DEF PubIntent

LEMMA EditIsNoPublication == \A id \in PubIds : id # <<"edit">> /\ id[1] # "edit"
    <1> SUFFICES ASSUME NEW id \in PubIds PROVE id[1] # "edit" OBVIOUS
    <1>1. CASE id = <<"seed">> BY <1>1
    <1>2. CASE id \in {"branch", "inference"} \X Calls BY <1>2
    <1>3. CASE id \in {"result"} \X Visits BY <1>3
    <1> QED BY <1>1, <1>2, <1>3 DEF PubIds

\* A publication that is recorded is answered with its revision.
LEMMA ReplayIs ==
    ASSUME NEW r, RegistryKept(r), NEW i \in Instances, NEW x, NEW v, NEW id, id \in DOMAIN r.pub,
           r.pub[id].alias = Data(i), r.pub[id].expected = x, r.pub[id].rev # None,
           RevisionOf(r, i, r.pub[id].rev), r.revs[r.pub[id].rev].value = v, NEW d,
           d = PublishUnique(r, Data(i), x, v, id)
    PROVE  d.reg = r /\ d.rev = r.pub[id].rev /\ d.err = "none"
    <1>1. PICK n : n = r.pub[id].rev OBVIOUS
    <1>2. Known(r, Data(i)) /\ r.revs[n].entity = r.alias[Data(i)].entity
        BY <1>1 DEF RevisionOf
    <1>3. RequireWritable(r, Data(i)) = "none" BY <1>2 DEF RequireWritable, RegistryKept
    <1>4. Replay(r, Data(i), x, v, id) = Committed(r, n)
        BY <1>1, <1>2, <1>3 DEF Replay, ValueAt
    <1>5. d = Committed(r, n) BY <1>4 DEF PublishUnique
    <1> QED BY <1>1, <1>5, CommittedIs

\* What a new publication leaves behind.
PublishedNow(r, s, i, x, v, id, n) ==
    /\ RegistryKept(s) /\ ByKnown(s) /\ Grow(r, s)
    /\ DOMAIN s.pub = DOMAIN r.pub \cup {id} /\ \A k \in DOMAIN r.pub : s.pub[k] = r.pub[k]
    /\ s.pub[id].alias = Data(i) /\ s.pub[id].expected = x /\ s.pub[id].rev = n
    /\ n # None /\ n \in Nat /\ RevisionOf(s, i, n) /\ s.revs[n].value = v

LEMMA RecordedIs ==
    ASSUME NEW r, ByKnown(r), NEW q, NEW i \in Instances, NEW x, NEW v, NEW id \in PubIds,
           id \notin DOMAIN r.pub, NEW n, Adds(r, q, Data(i), n, v, id), NEW row,
           row.alias = Data(i), row.expected = x, row.rev = n, NEW s,
           s = WithPub(q, id, row)
    PROVE  PublishedNow(r, s, i, x, v, id, n)
    <1>1. /\ RegistryKept(q) /\ Grow(r, q) /\ q.pub = r.pub /\ Known(q, Data(i))
          /\ n \in 1..Len(q.revs) /\ q.revs[n].entity = q.alias[Data(i)].entity
          /\ q.revs[n].value = v /\ q.revs[n].by = id
          /\ \A j \in 1..Len(q.revs) : j # n => j \in 1..Len(r.revs) /\ q.revs[j] = r.revs[j]
        BY DEF Adds
    <1>3. id \notin DOMAIN q.pub BY <1>1
    <1>5. /\ RegistryKept(s) /\ s.revs = q.revs /\ s.alias = q.alias
          /\ DOMAIN s.pub = DOMAIN q.pub \cup {id}
          /\ \A k \in DOMAIN q.pub : s.pub[k] = q.pub[k]
          /\ s.pub[id] = row
        BY <1>1, <1>3, PubRecorded
    <1>6. Grow(r, s) BY <1>1, <1>5 DEF Grow
    <1>7. ByKnown(s)
        <2> SUFFICES ASSUME NEW j \in 1..Len(q.revs)
                     PROVE  q.revs[j].by = <<"edit">> \/ q.revs[j].by \in DOMAIN s.pub
            BY <1>5 DEF ByKnown
        <2>1. CASE j = n BY <1>1, <1>5, <2>1
        <2>2. CASE j # n
            <3>1. j \in 1..Len(r.revs) /\ q.revs[j] = r.revs[j] BY <1>1, <2>2
            <3> QED BY <1>1, <1>5, <3>1 DEF ByKnown
        <2> QED BY <2>1, <2>2
    <1>8. Len(q.revs) \in Nat BY <1>1, LenProperties DEF RegistryKept
    <1>9. n \in Nat /\ n # None BY <1>1, <1>8 DEF None
    <1>10. RevisionOf(s, i, n) BY <1>1, <1>5 DEF RevisionOf, Known
    <1> QED BY <1>1, <1>5, <1>6, <1>7, <1>9, <1>10 DEF PublishedNow

\* A refusal is for what somebody else published after the expected revision.
LEMMA RefusedForOthers ==
    ASSUME NEW r, RegistryKept(r), ByKnown(r), NEW i \in Instances, Known(r, Data(i)),
           NEW id \in PubIds, id \notin DOMAIN r.pub, NEW x, RevisionOf(r, i, x),
           HeadOf(r, Data(i)) # x
    PROVE  Others(r, Data(i), x, id)
    <1>1. PICK h, a : h = HeadOf(r, Data(i)) /\ a = Data(i) OBVIOUS
    <1>2. /\ h \in 1..Len(r.revs) /\ h \in Nat /\ r.revs[h].entity = r.alias[a].entity
          /\ \A j \in 1..Len(r.revs) : r.revs[j].entity = r.alias[a].entity => j <= h
        BY <1>1, KnownHead
    <1>3. h > x
        <2>0. Len(r.revs) \in Nat BY LenProperties DEF RegistryKept
        <2>1. CASE x = None BY <1>2, <2>0, <2>1 DEF None
        <2>2. CASE x # None
            <3>1. x \in 1..Len(r.revs) /\ r.revs[x].entity = r.alias[a].entity
                BY <1>1, <2>2 DEF RevisionOf
            <3>2. x <= h /\ x # h BY <1>1, <1>2, <3>1
            <3> QED BY <1>2, <2>0, <3>1, <3>2
        <2> QED BY <2>1, <2>2
    <1>4. r.revs[h].by # id BY <1>2, EditIsNoPublication DEF ByKnown
    <1> QED BY <1>1, <1>2, <1>3, <1>4 DEF Others

LEMMA FreshIs ==
    ASSUME NEW r, RegistryKept(r), ByKnown(r), NEW i \in Instances, NEW x, RevisionOf(r, i, x),
           NEW v \in Stored, NEW id \in PubIds, id \notin DOMAIN r.pub, NEW d,
           d = PublishUnique(r, Data(i), x, v, id)
    PROVE  \/ d.err = "none" /\ PublishedNow(r, d.reg, i, x, v, id, d.rev)
           \/ d.err # "none" /\ d.reg = r /\ Others(r, Data(i), x, id)
    <1>1. PICK f : f = IF x = None THEN Create(r, Data(i), v, id)
                       ELSE Publish(r, Data(i), x, v, id)
        OBVIOUS
    <1>2. \/ f.err = "none" /\ Adds(r, f.reg, Data(i), f.rev, v, id)
          \/ f.err # "none" /\ f.reg = r /\ Others(r, Data(i), x, id)
        <2>1. CASE x = None
            <3>1. f = Create(r, Data(i), v, id) BY <1>1, <2>1
            <3>2. \/ f.err = "none" /\ Adds(r, f.reg, Data(i), f.rev, v, id)
                  \/ f.err # "none" /\ f.reg = r /\ Known(r, Data(i))
                BY <3>1, CreateIs
            <3>3. ASSUME Known(r, Data(i)) PROVE Others(r, Data(i), x, id)
                <4>1. HeadOf(r, Data(i)) \in 1..Len(r.revs) BY <3>3, KnownHead
                <4>2. Len(r.revs) \in Nat BY LenProperties DEF RegistryKept
                <4>3. HeadOf(r, Data(i)) # x BY <2>1, <4>1, <4>2 DEF None
                <4> QED BY <3>3, <4>3, RefusedForOthers
            <3> QED BY <3>2, <3>3
        <2>2. CASE x # None
            <3>1. f = Publish(r, Data(i), x, v, id) BY <1>1, <2>2
            <3>2. Known(r, Data(i)) /\ r.alias[Data(i)].write BY <2>2 DEF RevisionOf, RegistryKept
            <3>3. \/ f.err = "none" /\ Adds(r, f.reg, Data(i), f.rev, v, id)
                  \/ /\ f.err # "none" /\ f.reg = r
                     /\ Known(r, Data(i)) /\ r.alias[Data(i)].write => HeadOf(r, Data(i)) # x
                BY <3>1, PublishIs
            <3> QED BY <3>2, <3>3, RefusedForOthers
        <2> QED BY <2>1, <2>2
    <1>3. CASE f.err # "none"
        <2>1. d = f BY <1>1, <1>3 DEF PublishUnique
        <2> QED BY <1>2, <1>3, <2>1
    <1>4. CASE f.err = "none"
        <2>1. PICK q, n : q = f.reg /\ n = f.rev OBVIOUS
        <2>0. PICK row : row = [alias |-> Data(i), expected |-> x, rev |-> n] OBVIOUS
        <2>2. PICK s : s = WithPub(q, id, row) OBVIOUS
        <2>3. d = Committed(s, n) BY <1>1, <1>4, <2>0, <2>1, <2>2 DEF PublishUnique, WithPub
        <2>4. d.reg = s /\ d.rev = n /\ d.err = "none" BY <2>3, CommittedIs
        <2>5. Adds(r, q, Data(i), n, v, id) BY <1>2, <1>4, <2>1
        <2>7. row.alias = Data(i) /\ row.expected = x /\ row.rev = n BY <2>0
        <2>6. PublishedNow(r, s, i, x, v, id, n) BY <2>2, <2>5, <2>7, RecordedIs
        <2> QED BY <2>4, <2>6
    <1> QED BY <1>3, <1>4

LEMMA RevisionIsNat ==
    ASSUME NEW r, RegistryKept(r), NEW i, NEW n, RevisionOf(r, i, n)
    PROVE  n \in Nat
    <1>1. Len(r.revs) \in Nat BY LenProperties DEF RegistryKept
    <1> QED BY <1>1 DEF RevisionOf, None

\* Records about a dataset stay right while rows are added.
LEMMA RecordsStay ==
    ASSUME RegistryInv, Grow(reg, reg'), UNCHANGED <<intent, view>>
    PROVE  IntentKept' /\ ViewKept'
    <1>1. \A id \in PubIds : InstOf(id) \in Instances BY DEF InstOf, Instances
    <1>2. ASSUME NEW id \in DOMAIN intent
          PROVE  RevisionOf(reg', InstOf(id), intent[id].expected)
        <2>1. InstOf(id) \in Instances BY <1>1, <1>2 DEF RegistryInv, IntentKept
        <2>2. RevisionOf(reg, InstOf(id), intent[id].expected) BY <1>2 DEF RegistryInv, IntentKept
        <2> QED BY <2>1, <2>2, RevisionStays
    <1>3. ASSUME NEW i \in Instances PROVE RevisionOf(reg', i, view[i].rev)
        <2>1. RevisionOf(reg, i, view[i].rev) BY <1>3 DEF RegistryInv, ViewKept
        <2> QED BY <2>1, RevisionStays
    <1> QED BY <1>2, <1>3 DEF RegistryInv, IntentKept, ViewKept

\* The three ends of a publication: its revision is there, it is new, or
\* somebody else has published.
LEMMA PublicationEnds ==
    ASSUME RegistryInv, NEW j \in Jobs, JobFits(j), j.stage = "registry", NEW k, k = intent[j.id],
           NEW d, d = IF k.unchanged THEN Committed(reg, k.expected)
                      ELSE PublishUnique(reg, Data(j.inst), k.expected, j.value, j.id)
    PROVE  \/ d.err = "none" /\ d.reg = reg /\ d.rev \in Nat /\ RevisionOf(reg, j.inst, d.rev)
           \/ /\ d.err = "none" /\ j.id \notin DOMAIN reg.pub
              /\ PublishedNow(reg, d.reg, j.inst, k.expected, j.value, j.id, d.rev)
           \/ d.err # "none" /\ d.reg = reg /\ Others(reg, Data(j.inst), k.expected, j.id)
    <1>1. /\ j.id \in PubIds /\ j.inst \in Instances /\ j.value \in Stored
          /\ j.inst = InstOf(j.id) /\ j.id \in DOMAIN intent /\ k.value = j.value
        BY JobIs DEF JobFits
    <1>2. RegistryKept(reg) /\ ByKnown(reg) BY DEF RegistryInv
    <1>3. PICK i, x, v, id : i = j.inst /\ x = k.expected /\ v = j.value /\ id = j.id OBVIOUS
    <1>4. /\ i \in Instances /\ v \in Stored /\ id \in PubIds /\ i = InstOf(id)
          /\ RevisionOf(reg, i, x)
        BY <1>1, <1>3 DEF RegistryInv, IntentKept
    <1>5. CASE k.unchanged
        <2>1. d = Committed(reg, x) BY <1>3, <1>5
        <2>2. d.reg = reg /\ d.rev = x /\ d.err = "none" BY <2>1, CommittedIs
        <2>3. x \in Nat BY <1>2, <1>4, RevisionIsNat
        <2> QED BY <1>3, <1>4, <2>2, <2>3
    <1>6. CASE ~k.unchanged /\ id \in DOMAIN reg.pub
        <2>1. d = PublishUnique(reg, Data(i), x, v, id) BY <1>3, <1>6
        <2>2. /\ reg.pub[id].alias = Data(i) /\ reg.pub[id].expected = x
              /\ reg.pub[id].rev # None /\ RevisionOf(reg, i, reg.pub[id].rev)
              /\ reg.revs[reg.pub[id].rev].value = v
            BY <1>1, <1>3, <1>4, <1>6 DEF RegistryInv, PubKept
        <2>3. d.reg = reg /\ d.rev = reg.pub[id].rev /\ d.err = "none"
            BY <1>2, <1>4, <1>6, <2>1, <2>2, ReplayIs
        <2>4. d.rev \in Nat BY <1>2, <2>2, <2>3, RevisionIsNat
        <2> QED BY <1>3, <2>2, <2>3, <2>4
    <1>7. CASE ~k.unchanged /\ id \notin DOMAIN reg.pub
        <2>1. d = PublishUnique(reg, Data(i), x, v, id) BY <1>3, <1>7
        <2>2. \/ d.err = "none" /\ PublishedNow(reg, d.reg, i, x, v, id, d.rev)
              \/ d.err # "none" /\ d.reg = reg /\ Others(reg, Data(i), x, id)
            BY <1>2, <1>4, <1>7, <2>1, FreshIs
        <2> QED BY <1>3, <1>7, <2>2
    <1> QED BY <1>5, <1>6, <1>7

LEMMA PubRegistryStep ==
    ASSUME RegistryInv, NEW p \in Procs, PubRegistry(p), UNCHANGED <<heads, seed>>
    PROVE  RegistryInv'
    <1>1. PICK j \in Jobs : j = job[p] /\ j.stage = "registry" /\ JobFits(j)
        <2>1. JobKept /\ At(p, "registry") /\ "registry" \in JobStages
            BY DEF RegistryInv, PubRegistry, JobStages
        <2> QED BY <2>1, JobAt
    <1>2. PICK k : k = intent[j.id] OBVIOUS
    <1>3. PICK d : d = IF k.unchanged THEN Committed(reg, k.expected)
                       ELSE PublishUnique(reg, Data(j.inst), k.expected, j.value, j.id)
        OBVIOUS
    <1>4. reg' = d.reg /\ UNCHANGED <<intent, view>> BY <1>1, <1>2, <1>3 DEF PubRegistry
    <1>5. /\ d.err = "none" =>
               job' = [job EXCEPT ![p].stage = "view", ![p].rev = d.rev] /\ clashes' = clashes
          /\ d.err # "none" =>
               /\ Goto(p, "failed")
               /\ clashes' = clashes \cup
                    {[id |-> j.id, others |-> Others(reg, Data(j.inst), k.expected, j.id)]}
        BY <1>1, <1>2, <1>3 DEF PubRegistry
    <1>6. /\ j.id \in PubIds /\ j.inst \in Instances /\ j.inst = InstOf(j.id)
          /\ j.id \in DOMAIN intent /\ k.value = j.value
        BY <1>1, <1>2, JobIs DEF JobFits
    <1>7. IntentGrows BY <1>4 DEF IntentGrows
    <1>8. ASSUME Grow(reg, reg'), RegistryKept(reg)', ByKnown(reg)', PubKept',
                 d.err = "none", d.rev \in Nat, RevisionOf(reg', j.inst, d.rev)
          PROVE  RegistryInv'
        <2>1. IntentKept' /\ ViewKept' BY <1>4, <1>8, RecordsStay
        <2>2. NoSelfConflict' BY <1>5, <1>8 DEF RegistryInv, NoSelfConflict
        <2>0. PICK n \in Nat : n = d.rev BY <1>8
        <2>3. PICK w \in Jobs : /\ w = Commits(j, n) /\ w.stage = "view" /\ w.inst = j.inst
                                /\ w.id = j.id /\ w.value = j.value /\ w.heads = j.heads
                                /\ w.rev = n
            BY JobCommitted
        <2>4. job' = [job EXCEPT ![p] = w]
            <3>1. job' = [job EXCEPT ![p].stage = "view", ![p].rev = n] BY <1>5, <1>8, <2>0
            <3>2. JobKept BY DEF RegistryInv
            <3> QED BY <1>1, <2>3, <3>1, <3>2 DEF JobKept, Commits
        <2>5. JobFits(j)' BY <1>1, <1>7, <1>8, FitsStill
        <2>6. JobFits(w)' BY <1>8, <2>0, <2>3, <2>5 DEF JobFits
        <2> QED BY <1>7, <1>8, <2>1, <2>2, <2>4, <2>6, RegistryMoves
    <1>9. CASE d.err = "none" /\ d.reg = reg /\ d.rev \in Nat /\ RevisionOf(reg, j.inst, d.rev)
        <2>1. reg' = reg BY <1>4, <1>9
        <2>2. Grow(reg, reg') /\ RegistryKept(reg)' /\ ByKnown(reg)' BY <2>1 DEF Grow, RegistryInv
        <2>3. PubKept' BY <1>4, <2>1 DEF RegistryInv, PubKept
        <2> QED BY <1>8, <1>9, <2>1, <2>2, <2>3
    <1>10. CASE /\ d.err = "none" /\ j.id \notin DOMAIN reg.pub
                /\ PublishedNow(reg, d.reg, j.inst, k.expected, j.value, j.id, d.rev)
        <2>1. PublishedNow(reg, reg', j.inst, k.expected, j.value, j.id, d.rev) BY <1>4, <1>10
        <2>2. /\ Grow(reg, reg') /\ RegistryKept(reg') /\ ByKnown(reg')
              /\ d.rev \in Nat /\ RevisionOf(reg', j.inst, d.rev)
            BY <2>1 DEF PublishedNow
        <2>3. PubKept'
            <3> SUFFICES ASSUME NEW id \in DOMAIN reg'.pub
                         PROVE  /\ id \in DOMAIN intent /\ reg'.pub[id].alias = Data(InstOf(id))
                                /\ reg'.pub[id].expected = intent[id].expected
                                /\ reg'.pub[id].rev # None
                                /\ RevisionOf(reg', InstOf(id), reg'.pub[id].rev)
                                /\ reg'.revs[reg'.pub[id].rev].value = intent[id].value
                BY <1>4 DEF PubKept
            <3>1. CASE id = j.id BY <1>2, <1>6, <2>1, <3>1 DEF PublishedNow
            <3>2. CASE id # j.id
                <4>1. id \in DOMAIN reg.pub /\ reg'.pub[id] = reg.pub[id]
                    BY <2>1, <3>2 DEF PublishedNow
                <4>2. /\ id \in DOMAIN intent /\ reg.pub[id].alias = Data(InstOf(id))
                      /\ reg.pub[id].expected = intent[id].expected
                      /\ reg.pub[id].rev # None /\ RevisionOf(reg, InstOf(id), reg.pub[id].rev)
                      /\ reg.revs[reg.pub[id].rev].value = intent[id].value
                    BY <4>1 DEF RegistryInv, PubKept
                <4>3. InstOf(id) \in Instances BY DEF InstOf, Instances
                <4>4. RevisionOf(reg', InstOf(id), reg.pub[id].rev)
                    BY <2>2, <4>2, <4>3, RevisionStays
                <4>5. reg.pub[id].rev \in 1..Len(reg.revs) BY <4>2 DEF RevisionOf
                <4>6. reg'.revs[reg.pub[id].rev] = reg.revs[reg.pub[id].rev]
                    BY <2>2, <4>5 DEF Grow
                <4> QED BY <4>1, <4>2, <4>4, <4>6
            <3> QED BY <3>1, <3>2
        <2>4. RegistryKept(reg)' /\ ByKnown(reg)' BY <2>2
        <2> QED BY <1>8, <1>10, <2>2, <2>3, <2>4
    <1>11. CASE d.err # "none" /\ d.reg = reg /\ Others(reg, Data(j.inst), k.expected, j.id)
        <2>1. reg' = reg BY <1>4, <1>11
        <2>2. Grow(reg, reg') /\ RegistryKept(reg)' /\ ByKnown(reg)' BY <2>1 DEF Grow, RegistryInv
        <2>3. PubKept' BY <1>4, <2>1 DEF RegistryInv, PubKept
        <2>4. IntentKept' /\ ViewKept' BY <1>4, <2>2, RecordsStay
        <2>5. NoSelfConflict'
            <3>1. \A c \in clashes : c.others BY DEF RegistryInv, NoSelfConflict
            <3>2. PICK m : m = [id |-> j.id,
                               others |-> Others(reg, Data(j.inst), k.expected, j.id)]
                OBVIOUS
            <3>3. m.others BY <1>11, <3>2
            <3>4. clashes' = clashes \cup {m} BY <1>5, <1>11, <3>2
            <3> QED BY <3>1, <3>3, <3>4 DEF NoSelfConflict
        <2>6. PICK w \in Jobs : /\ w = [j EXCEPT !.stage = "failed"] /\ w.stage = "failed"
                                /\ w.inst = j.inst /\ w.id = j.id /\ w.value = j.value
                                /\ w.heads = j.heads /\ w.rev = j.rev
            <3>1. "failed" \in JobStages BY DEF JobStages
            <3> QED BY <3>1, JobStaged
        <2>7. job' = [job EXCEPT ![p] = w] BY <1>1, <1>5, <1>11, <2>6, JobSet DEF Goto, RegistryInv
        <2>8. JobFits(w)' BY <1>1, <2>1, <2>6 DEF JobFits
        <2> QED BY <1>7, <2>2, <2>3, <2>4, <2>5, <2>7, <2>8, RegistryMoves
    <1> QED BY SMTT(60), <1>1, <1>2, <1>3, <1>9, <1>10, <1>11, PublicationEnds

LEMMA BindingIs ==
    /\ Len(Bindings) = 2
    /\ \A n \in 1..2 : /\ Bindings[n].write \in BOOLEAN
                       /\ \A i \in Instances : Bindings[n].to # Data(i)
    <1>1. \A i \in Instances : Shared # Data(i) /\ Input # Data(i) BY DEF Shared, Input, Data
    <1>2. /\ Bindings[1].to = Shared /\ Bindings[1].write = TRUE
          /\ Bindings[2].to = Input /\ Bindings[2].write = FALSE
        BY DEF Bindings
    <1>3. \A n \in 1..2 : n = 1 \/ n = 2 OBVIOUS
    <1>4. Len(Bindings) = 2 BY DEF Bindings
    <1> QED BY <1>1, <1>2, <1>3, <1>4

LEMMA MissingFirst ==
    ASSUME NEW r, Missing(r) # {} PROVE First(Missing(r)) \in 1..2
    <1>1. PICK S : S = Missing(r) OBVIOUS
    <1>2. S \subseteq 1..2 /\ S # {} BY <1>1, BindingIs DEF Missing
    <1>3. \E n \in S : \A m \in S : n <= m
        <2>1. CASE 1 \in S BY <1>2, <2>1
        <2>2. CASE 1 \notin S
            <3>1. \A m \in S : m = 2 BY <1>2, <2>2
            <3>2. PICK n \in S : TRUE BY <1>2
            <3>3. n = 2 /\ \A m \in S : n <= m BY <3>1, <3>2
            <3> QED BY <3>2, <3>3
        <2> QED BY <2>1, <2>2
    <1>4. First(S) \in S BY <1>3 DEF First
    <1> QED BY <1>1, <1>2, <1>4

\* share moves the publication on.
LEMMA ShareIs ==
    ASSUME JobKept, NEW p \in Procs, NEW j \in Jobs, j = job[p], NEW r, Share(p, r)
    PROVE  \E w \in Jobs : /\ job' = [job EXCEPT ![p] = w] /\ w.stage # "registry" /\ w.stage # "view"
                           /\ w.inst = j.inst /\ w.id = j.id /\ w.heads = j.heads
    <1>1. CASE Missing(r) # {}
        <2>1. PICK n \in 1..2 : n = First(Missing(r)) BY <1>1, MissingFirst
        <2>2. PICK w \in Jobs : /\ w = Grants(j, n) /\ w.stage = "grant" /\ w.inst = j.inst
                                /\ w.id = j.id /\ w.value = j.value /\ w.heads = j.heads
                                /\ w.rev = j.rev
            BY JobGranting
        <2>3. job' = [job EXCEPT ![p].stage = "grant", ![p].todo = n] BY <1>1, <2>1 DEF Share
        <2>4. job' = [job EXCEPT ![p] = w] BY <2>2, <2>3 DEF JobKept, Grants
        <2>5. w.stage # "registry" /\ w.stage # "view" BY <2>2
        <2> QED BY <2>2, <2>4, <2>5
    <1>2. CASE Missing(r) = {}
        <2>1. PICK s \in {"ok", "failed"} : Goto(p, s) BY <1>2 DEF Share
        <2>2. s \in JobStages /\ s # "registry" /\ s # "view" BY <2>1 DEF JobStages
        <2>3. PICK w \in Jobs : /\ w = [j EXCEPT !.stage = s] /\ w.stage = s /\ w.inst = j.inst
                                /\ w.id = j.id /\ w.value = j.value /\ w.heads = j.heads
                                /\ w.rev = j.rev
            BY <2>2, JobStaged
        <2>4. job' = [job EXCEPT ![p] = w] BY <2>1, <2>3, JobSet DEF Goto
        <2> QED BY <2>2, <2>3, <2>4
    <1> QED BY <1>1, <1>2

LEMMA PubViewStep ==
    ASSUME RegistryInv, NEW p \in Procs, PubView(p), UNCHANGED <<heads, seed>>
    PROVE  RegistryInv'
    <1>1. PICK j \in Jobs : j = job[p] /\ j.stage = "view" /\ JobFits(j)
        <2>1. JobKept /\ At(p, "view") /\ "view" \in JobStages
            BY DEF RegistryInv, PubView, JobStages
        <2> QED BY <2>1, JobAt
    <1>2. UNCHANGED <<reg, intent, clashes>> /\ Share(p, reg) /\ JobKept
        BY DEF PubView, RegistryInv
    <1>3. PICK w \in Jobs : /\ job' = [job EXCEPT ![p] = w] /\ w.stage # "registry"
                            /\ w.stage # "view" /\ w.inst = j.inst /\ w.id = j.id
                            /\ w.heads = j.heads
        BY <1>1, <1>2, ShareIs
    <1>4. ViewKept'
        <2>1. /\ view \in [Instances -> [rev : Nat, value : Stored]]
              /\ \A i \in Instances : RevisionOf(reg, i, view[i].rev)
            BY DEF RegistryInv, ViewKept
        <2>2. CASE view' = view BY <1>2, <2>1, <2>2 DEF ViewKept
        <2>3. CASE view' = [view EXCEPT ![j.inst] = [rev |-> j.rev, value |-> j.value]]
            <3>1. j.rev \in Nat /\ j.value \in Stored /\ j.inst \in Instances BY JobIs
            <3>2. PICK x \in [rev : Nat, value : Stored] :
                    x = [rev |-> j.rev, value |-> j.value] /\ x.rev = j.rev
                <4>1. [rev |-> j.rev, value |-> j.value] \in [rev : Nat, value : Stored] BY <3>1
                <4> QED BY <4>1
            <3>3. view' = [view EXCEPT ![j.inst] = x] BY <2>3, <3>2
            <3>4. RevisionOf(reg, j.inst, j.rev) BY <1>1 DEF JobFits
            <3>5. view' \in [Instances -> [rev : Nat, value : Stored]] BY <2>1, <3>1, <3>3
            <3>6. \A i \in Instances : RevisionOf(reg, i, view'[i].rev)
                BY <2>1, <3>1, <3>2, <3>3, <3>4
            <3> QED BY <1>2, <3>5, <3>6 DEF ViewKept
        <2> QED BY <1>1, <2>2, <2>3 DEF PubView
    <1>5. JobFits(w)' BY <1>1, <1>2, <1>3 DEF JobFits
    <1>6. RegistryKept(reg)' /\ ByKnown(reg)' /\ IntentKept' /\ PubKept' /\ NoSelfConflict'
        BY <1>2 DEF RegistryInv, IntentKept, PubKept, NoSelfConflict
    <1>7. Grow(reg, reg') /\ IntentGrows BY <1>2 DEF Grow, IntentGrows
    <1> QED BY <1>3, <1>4, <1>5, <1>6, <1>7, RegistryMoves

\* Rows of aliases and of an edit leave publications alone.
LEMMA PublicationsStay ==
    ASSUME RegistryInv, Grow(reg, reg'), reg'.pub = reg.pub, UNCHANGED intent
    PROVE  PubKept'
    <1> SUFFICES ASSUME NEW id \in DOMAIN reg.pub
                 PROVE  /\ id \in DOMAIN intent /\ reg.pub[id].alias = Data(InstOf(id))
                        /\ reg.pub[id].expected = intent[id].expected
                        /\ reg.pub[id].rev # None
                        /\ RevisionOf(reg', InstOf(id), reg.pub[id].rev)
                        /\ reg'.revs[reg.pub[id].rev].value = intent[id].value
        BY DEF PubKept
    <1>1. /\ id \in DOMAIN intent /\ reg.pub[id].alias = Data(InstOf(id))
          /\ reg.pub[id].expected = intent[id].expected
          /\ reg.pub[id].rev # None /\ RevisionOf(reg, InstOf(id), reg.pub[id].rev)
          /\ reg.revs[reg.pub[id].rev].value = intent[id].value
        BY DEF RegistryInv, PubKept
    <1>2. InstOf(id) \in Instances BY DEF InstOf, Instances
    <1>3. RevisionOf(reg', InstOf(id), reg.pub[id].rev) BY <1>1, <1>2, RevisionStays
    <1>4. reg.pub[id].rev \in 1..Len(reg.revs) BY <1>1 DEF RevisionOf
    <1>5. reg'.revs[reg.pub[id].rev] = reg.revs[reg.pub[id].rev] BY <1>4 DEF Grow
    <1> QED BY <1>1, <1>3, <1>5

LEMMA PubGrantStep ==
    ASSUME RegistryInv, NEW p \in Procs, PubGrant(p), UNCHANGED <<heads, seed>>
    PROVE  RegistryInv'
    <1>1. PICK j \in Jobs : j = job[p] /\ j.stage = "grant" /\ JobFits(j)
        <2>1. JobKept /\ At(p, "grant") /\ "grant" \in JobStages
            BY DEF RegistryInv, PubGrant, JobStages
        <2> QED BY <2>1, JobAt
    <1>2. PICK b : b = Bindings[j.todo] OBVIOUS
    <1>3. PICK a, c : a = b.from /\ c = b.to OBVIOUS
    <1>0. PICK u \in BOOLEAN : u = b.write BY <1>2, JobIs, BindingIs
    <1>4. PICK d : d = Grant(reg, a, c, u) OBVIOUS
    <1>5. /\ reg' = d.reg /\ UNCHANGED <<intent, view, clashes>> /\ JobKept
          /\ Share(p, d.reg) \/ Goto(p, "failed")
        BY <1>0, <1>1, <1>2, <1>3, <1>4 DEF PubGrant, RegistryInv
    <1>6. \A i \in Instances : c # Data(i) BY <1>2, <1>3, JobIs, BindingIs
    <1>7. RegistryKept(d.reg) /\ Grow(reg, d.reg) /\ d.reg.pub = reg.pub /\ d.reg.revs = reg.revs
        BY <1>4, <1>6, GrantIs DEF RegistryInv
    <1>8. PICK w \in Jobs : /\ job' = [job EXCEPT ![p] = w] /\ w.stage # "registry"
                            /\ w.stage # "view" /\ w.inst = j.inst /\ w.id = j.id
                            /\ w.heads = j.heads
        <2>1. CASE Share(p, d.reg) BY <1>1, <1>5, <2>1, ShareIs
        <2>2. CASE Goto(p, "failed")
            <3>1. "failed" \in JobStages BY DEF JobStages
            <3>2. PICK w \in Jobs : /\ w = [j EXCEPT !.stage = "failed"] /\ w.stage = "failed"
                                    /\ w.inst = j.inst /\ w.id = j.id /\ w.value = j.value
                                    /\ w.heads = j.heads /\ w.rev = j.rev
                BY <3>1, JobStaged
            <3>3. job' = [job EXCEPT ![p] = w] BY <1>1, <1>5, <2>2, <3>2, JobSet DEF Goto
            <3>4. w.stage # "registry" /\ w.stage # "view" BY <3>2
            <3> QED BY <3>2, <3>3, <3>4
        <2> QED BY <1>5, <2>1, <2>2
    <1>9. Grow(reg, reg') /\ IntentGrows BY <1>5, <1>7 DEF IntentGrows
    <1>10. RegistryKept(reg)' BY <1>5, <1>7
    <1>11. ByKnown(reg)' BY <1>5, <1>7 DEF RegistryInv, ByKnown
    <1>12. IntentKept' /\ ViewKept' BY <1>5, <1>9, RecordsStay
    <1>13. PubKept' BY <1>5, <1>7, <1>9, PublicationsStay
    <1>14. NoSelfConflict' BY <1>5 DEF RegistryInv, NoSelfConflict
    <1>15. JobFits(j)' BY <1>1, <1>9, FitsStill
    <1>16. JobFits(w)' BY <1>8, <1>15 DEF JobFits
    <1> QED BY <1>8, <1>9, <1>10, <1>11, <1>12, <1>13, <1>14, <1>16, RegistryMoves

\* An edit through the shared alias adds a revision of its own.
LEMMA EditStep ==
    ASSUME RegistryInv, EditPublish PROVE RegistryInv'
    <1>1. UNCHANGED <<intent, view, clashes, heads, seed, job>> BY DEF EditPublish
    <1>2. PICK d : d = Publish(reg, Shared, editor, Edit, <<"edit">>) OBVIOUS
    <1>3. reg' = d.reg BY <1>2 DEF EditPublish
    <1>4. /\ RegistryKept(reg) /\ Edit \in Stored /\ <<"edit">> \in PubIds \cup {<<"edit">>}
        BY RoutesAssumption DEF RegistryInv, Stored
    <1>5. \/ d.err = "none" /\ Adds(reg, d.reg, Shared, d.rev, Edit, <<"edit">>)
          \/ d.err # "none" /\ d.reg = reg
        BY <1>2, <1>4, PublishIs
    <1>6. CASE d.err # "none" /\ d.reg = reg
        <2>1. UNCHANGED <<published, job>> BY <1>1, <1>3, <1>6 DEF published
        <2> QED BY <2>1, JobsSame
    <1>7. CASE Adds(reg, d.reg, Shared, d.rev, Edit, <<"edit">>)
        <2>1. PICK n : n = d.rev OBVIOUS
        <2>2. /\ RegistryKept(reg') /\ Grow(reg, reg') /\ reg'.pub = reg.pub
              /\ reg'.revs[n].by = <<"edit">>
              /\ \A i \in 1..Len(reg'.revs) :
                   i # n => i \in 1..Len(reg.revs) /\ reg'.revs[i] = reg.revs[i]
            BY <1>3, <1>7, <2>1 DEF Adds
        <2>3. RegistryKept(reg)' BY <2>2
        <2>4. ByKnown(reg)'
            <3>1. ASSUME NEW i \in 1..Len(reg'.revs)
                  PROVE  reg'.revs[i].by = <<"edit">> \/ reg'.revs[i].by \in DOMAIN reg.pub
                <4>1. CASE i = n BY <2>2, <4>1
                <4>2. CASE i # n
                    <5>1. i \in 1..Len(reg.revs) /\ reg'.revs[i] = reg.revs[i] BY <2>2, <4>2
                    <5> QED BY <5>1 DEF RegistryInv, ByKnown
                <4> QED BY <4>1, <4>2
            <3> QED BY <2>2, <3>1 DEF ByKnown
        <2>5. IntentKept' /\ ViewKept' BY <1>1, <2>2, RecordsStay
        <2>6. PubKept' BY <1>1, <2>2, PublicationsStay
        <2>7. HeadsKept' BY <1>1, <2>2, HeadsStay DEF RegistryInv
        <2>8. JobKept'
            <3>1. IntentGrows BY <1>1 DEF IntentGrows
            <3>2. ASSUME NEW q \in Procs, job[q] # NoJob PROVE JobFits(job[q])'
                <4>1. PICK j \in Jobs : j = job[q] /\ JobFits(j)
                    BY <3>2 DEF RegistryInv, JobKept
                <4>2. JobFits(j)' BY <2>2, <3>1, <4>1, FitsStill
                <4> QED BY <1>1, <4>1, <4>2 DEF JobFits
            <3> QED BY <1>1, <3>2 DEF RegistryInv, JobKept
        <2>9. NoSelfConflict' /\ seed' \in Stored BY <1>1 DEF RegistryInv, NoSelfConflict
        <2> QED BY <2>3, <2>4, <2>5, <2>6, <2>7, <2>8, <2>9 DEF RegistryInv
    <1> QED BY <1>5, <1>6, <1>7

LEMMA PublishingStep ==
    ASSUME RegistryInv, NEW p \in Procs, Publication(p) PROVE RegistryInv'
    <1>1. UNCHANGED <<heads, seed>> BY DEF Publication
    <1>2. PubIntent(p) \/ PubRegistry(p) \/ PubView(p) \/ PubGrant(p) BY DEF Publication
    <1> QED BY <1>1, <1>2, PubIntentStep, PubRegistryStep, PubViewStep, PubGrantStep

-----------------------------------------------------------------------------
(***************************************************************************)
(* Every other step starts a publication that fits, or ends one.           *)
(***************************************************************************)
LEMMA IdIs ==
    /\ <<"seed">> \in PubIds /\ InstOf(<<"seed">>) = "root"
    /\ \A c \in Calls : /\ <<"branch", c>> \in PubIds /\ InstOf(<<"branch", c>>) = "root"
                        /\ <<"inference", c>> \in PubIds /\ InstOf(<<"inference", c>>) = "root"
    /\ \A v \in Visits : <<"result", v>> \in PubIds /\ InstOf(<<"result", v>>) = "kid"
    BY DEF PubIds, InstOf

\* The parent publishes.
LEMMA RootStarts ==
    ASSUME NEW id \in PubIds, InstOf(id) = "root", NEW v \in Stored
    PROVE  Publishing("root", id, v, NoHeads) \in Jobs /\ JobFits(Publishing("root", id, v, NoHeads))
    <1>1. PICK h \in Int : h = NoHeads BY DEF NoHeads
    <1>2. Publishing(InstOf(id), id, v, h) \in Jobs /\ JobFits(Publishing(InstOf(id), id, v, h))
        BY <1>1, JobStarts
    <1> QED BY <1>1, <1>2

LEMMA JobDropped ==
    ASSUME RegistryInv, UNCHANGED published, NEW p \in Procs, job' = [job EXCEPT ![p] = NoJob]
    PROVE  RegistryInv'
    <1>1. job \in [Procs -> Jobs \cup {NoJob}] BY DEF RegistryInv, JobKept
    <1>2. DOMAIN job' = Procs /\ job' = [q \in Procs |-> job'[q]] BY <1>1
    <1>3. \A q \in Procs : job'[q] = NoJob \/ job'[q] = job[q] BY <1>1
    <1> QED BY <1>2, <1>3, JobsEnded

LEMMA CallingPublishes ==
    ASSUME RegistryInv, NEW c \in Calls, Calling(c) PROVE RegistryInv'
    <1>0. c \in Procs /\ RootValue[c] \in Stored BY RoutesAssumption DEF Procs, Stored
    <1>1. UNCHANGED published
        BY DEF Calling, Invoke, Capture, Captured, Published, CallFails, PinPlan, ClaimDispatch,
               Visit, Spawn, AwaitVisit, Return, Answer, NotCalling, NotPublishing, published
    <1>2. UNCHANGED <<reg, intent, view, clashes, heads, seed>> /\ seed' \in Stored
        BY <1>1 DEF published, RegistryInv
    <1>3. CASE job' = job
        <2>1. UNCHANGED <<published, job>> BY <1>1, <1>3
        <2> QED BY <2>1, JobsSame
    <1>4. CASE job' = [job EXCEPT ![c] = NoJob] BY <1>0, <1>1, <1>4, JobDropped
    <1>5. ASSUME NEW id \in PubIds, InstOf(id) = "root",
                 job' = [job EXCEPT ![c] = Publishing("root", id, RootValue[c], NoHeads)]
          PROVE  RegistryInv'
        <2>1. PICK w : w = Publishing("root", id, RootValue[c], NoHeads) OBVIOUS
        <2>2. w \in Jobs /\ JobFits(w) BY <1>0, <1>5, <2>1, RootStarts
        <2>3. job' = [job EXCEPT ![c] = w] BY <1>5, <2>1
        <2> QED BY <1>0, <1>2, <2>2, <2>3, JobStarted
    <1>6. CASE Invoke(c)
        <2>1. \/ job' = job
              \/ job' = [job EXCEPT ![c] = Publishing("root", <<"branch", c>>, RootValue[c], NoHeads)]
            BY <1>6 DEF Invoke
        <2> QED BY <1>3, <1>5, <2>1, IdIs
    <1>7. CASE Capture(c)
        <2>1. job' = [job EXCEPT ![c] = Publishing("root", <<"inference", c>>, RootValue[c], NoHeads)]
            BY <1>7 DEF Capture
        <2> QED BY <1>5, <2>1, IdIs
    <1>8. CASE Captured(c) \/ Published(c) \/ CallFails(c)
        BY <1>4, <1>8 DEF Captured, Published, CallFails
    <1>9. CASE \/ PinPlan(c) \/ ClaimDispatch(c) \/ Visit(c) \/ Spawn(c) \/ AwaitVisit(c)
               \/ Return(c) \/ Answer(c)
        BY <1>3, <1>9 DEF PinPlan, ClaimDispatch, Visit, Spawn, AwaitVisit, Return, Answer,
                          NotPublishing
    <1> QED BY <1>6, <1>7, <1>8, <1>9 DEF Calling

LEMMA RunningPublishes ==
    ASSUME RegistryInv, NEW x \in Runners, Running(x) PROVE RegistryInv'
    <1>0. x \in Procs /\ x[1] \in Visits /\ x[1][1] \in Calls BY RunnerIs, VisitIs DEF Procs
    <1>1. UNCHANGED <<reg, intent, view, clashes, seed>>
        BY DEF Running, RunStart, RunBind, ChildWaits, ChildEnds, ChildFails, RunEnds, NotRunning,
               NotPublishing
    <1>2. PICK v \in Visits : v = x[1] BY <1>0
    <1>3. DOMAIN heads = Visits /\ (heads[v] = NoHeads \/ RevisionOf(reg, "kid", heads[v]))
        BY DEF RegistryInv, HeadsKept
    <1>4. CASE RunStart(x) \/ ChildWaits(x) \/ ChildFails(x)
        <2>1. heads' = heads /\ job' = job
            BY <1>4 DEF RunStart, ChildWaits, ChildFails, NotPublishing
        <2>2. UNCHANGED <<published, job>> BY <1>1, <2>1 DEF published
        <2> QED BY <2>2, JobsSame
    <1>5. CASE RunEnds(x)
        <2>1. heads' = heads /\ job' = [job EXCEPT ![x] = NoJob] BY <1>5 DEF RunEnds
        <2>2. UNCHANGED published BY <1>1, <2>1 DEF published
        <2> QED BY <1>0, <2>1, <2>2, JobDropped
    <1>6. CASE ChildEnds(x)
        <2>1. PICK id \in PubIds, a \in Stored :
                /\ id = <<"result", v>> /\ InstOf(id) = "kid" /\ a = KidValue[v[1]]
            <3>1. KidValue[v[1]] \in Stored BY <1>0, <1>2, RoutesAssumption DEF Stored
            <3> QED BY <3>1, IdIs
        <2>2. PICK h \in Int : h = heads[v]
            <3>1. NoHeads \in Int BY DEF NoHeads
            <3>2. RegistryKept(reg) BY DEF RegistryInv
            <3>3. RevisionOf(reg, "kid", heads[v]) => heads[v] \in Nat BY <3>2, RevisionIsNat
            <3> QED BY <1>3, <3>1, <3>3
        <2>3. PICK w : w = Publishing("kid", id, a, h) OBVIOUS
        <2>4. w \in Jobs /\ JobFits(w) BY <1>3, <2>1, <2>2, <2>3, JobStarts
        <2>5. job' = [job EXCEPT ![x] = w] /\ heads' = heads
            BY <1>2, <1>6, <2>1, <2>2, <2>3 DEF ChildEnds
        <2>6. seed' \in Stored BY <1>1 DEF RegistryInv
        <2> QED BY <1>0, <1>1, <2>4, <2>5, <2>6, JobStarted
    <1>7. CASE RunBind(x)
        <2>1. job' = job BY <1>7 DEF RunBind, NotPublishing
        <2>2. \/ heads' = heads
              \/ heads' = [heads EXCEPT ![v] = IF heads[v] = NoHeads THEN HeadOf(reg, Data("kid"))
                                               ELSE heads[v]]
            BY <1>2, <1>7 DEF RunBind
        <2>3. HeadsKept'
            <3>1. CASE heads' = heads BY <1>1, <3>1, HeadsSame DEF RegistryInv
            <3>2. CASE heads' = [heads EXCEPT ![v] = IF heads[v] = NoHeads
                                                     THEN HeadOf(reg, Data("kid")) ELSE heads[v]]
                <4>1. "kid" \in Instances /\ RegistryKept(reg) BY DEF Instances, RegistryInv
                <4>2. RevisionOf(reg, "kid", HeadOf(reg, Data("kid"))) BY <4>1, HeadIsRevision
                <4>3. \A u \in Visits : heads[u] = NoHeads \/ RevisionOf(reg, "kid", heads[u])
                    BY DEF RegistryInv, HeadsKept
                <4>4. DOMAIN heads' = Visits BY <1>3, <3>2
                <4>5. ASSUME NEW u \in Visits
                      PROVE  heads'[u] = NoHeads \/ RevisionOf(reg, "kid", heads'[u])
                    <5>1. CASE u = v /\ heads[v] = NoHeads
                        <6>1. heads'[u] = HeadOf(reg, Data("kid")) BY <1>3, <3>2, <5>1
                        <6> QED BY <4>2, <6>1
                    <5>2. CASE ~(u = v /\ heads[v] = NoHeads)
                        <6>1. heads'[u] = heads[u] BY <1>3, <3>2, <5>2
                        <6> QED BY <4>3, <6>1
                    <5> QED BY <5>1, <5>2
                <4> QED BY <1>1, <4>4, <4>5 DEF HeadsKept
            <3> QED BY <2>2, <3>1, <3>2
        <2>4. job' \in [Procs -> Jobs \cup {NoJob}] /\ seed' \in Stored
            BY <1>1, <2>1 DEF RegistryInv, JobKept
        <2>5. \A q \in Procs : job'[q] = NoJob \/ job'[q] = job[q] \/ JobFits(job'[q]) BY <2>1
        <2> QED BY <1>1, <2>3, <2>4, <2>5, JobsMove
    <1> QED BY <1>4, <1>5, <1>6, <1>7 DEF Running

LEMMA OwningPublishes ==
    ASSUME RegistryInv, Owning PROVE RegistryInv'
    <1>0. job \in [Procs -> Jobs \cup {NoJob}] BY DEF RegistryInv, JobKept
    <1>1. CASE UNCHANGED <<reg, intent, view, clashes, heads, seed, job>>
        <2>1. UNCHANGED <<published, job>> BY <1>1 DEF published
        <2> QED BY <2>1, JobsSame
    <1>2. CASE BootSeed
        <2>1. UNCHANGED <<reg, intent, view, clashes, heads>> BY <1>2 DEF BootSeed, NotOwning
        <2>2. seed' \in Stored
            <3>1. seed' = Inputs[1] \/ seed' = seed BY <1>2 DEF BootSeed
            <3>2. Inputs[1] \in Stored BY RoutesAssumption DEF Stored
            <3> QED BY <3>1, <3>2 DEF RegistryInv
        <2>3. PICK a \in Stored : a = seed' BY <2>2
        <2>4. PICK w : w = Publishing("root", <<"seed">>, a, NoHeads) OBVIOUS
        <2>5. w \in Jobs /\ JobFits(w) BY <2>4, IdIs, RootStarts
        <2>6. job' = [job EXCEPT ![Boot] = w] /\ Boot \in Procs
            BY <1>2, <2>3, <2>4 DEF BootSeed, Procs
        <2> QED BY <2>1, <2>2, <2>5, <2>6, JobStarted
    <1>3. CASE BootSpawn \/ DrainTake \/ Close \/ CleanupCheck \/ CleanupWakes
        BY <1>1, <1>3 DEF BootSpawn, DrainTake, Close, CleanupCheck, CleanupWakes, NotOwning,
                          NotPublishing
    <1>4. ASSUME NEW x \in Runners, DrainJoin(x) PROVE RegistryInv'
        BY <1>1, <1>4 DEF DrainJoin, NotOwning, NotPublishing
    <1>5. ASSUME NEW x \in Runners, Aborted(x) PROVE RegistryInv'
        <2>1. UNCHANGED published BY <1>5 DEF Aborted, NotOwning, published
        <2>2. job' = job \/ job' = [job EXCEPT ![x] = NoJob] BY <1>5 DEF Aborted
        <2>3. x \in Procs BY DEF Procs
        <2>4. CASE job' = job
            <3>1. UNCHANGED <<published, job>> BY <2>1, <2>4
            <3> QED BY <3>1, JobsSame
        <2>5. CASE job' = [job EXCEPT ![x] = NoJob] BY <2>1, <2>3, <2>5, JobDropped
        <2> QED BY <2>2, <2>4, <2>5
    <1>6. CASE Fail \/ Crash
        <2>1. UNCHANGED published BY <1>6 DEF Fail, Crash, NotOwning, durable, published
        <2>2. /\ DOMAIN job' = Procs /\ job' = [p \in Procs |-> job'[p]]
              /\ \A p \in Procs : job'[p] = NoJob \/ job'[p] = job[p]
            BY <1>6 DEF Fail, Crash
        <2> QED BY <2>1, <2>2, JobsEnded
    <1>7. CASE Restart \/ PublishGraph \/ EditRead
        BY <1>1, <1>7 DEF Restart, PublishGraph, EditRead, durable
    <1>8. CASE EditPublish BY <1>8, EditStep
    <1> QED BY <1>2, <1>3, <1>4, <1>5, <1>6, <1>7, <1>8 DEF Owning

LEMMA RegistryStep ==
    ASSUME RegistryInv, [Next]_vars PROVE RegistryInv'
    <1>1. CASE UNCHANGED vars
        <2>1. UNCHANGED <<published, job>> BY <1>1 DEF vars, published
        <2> QED BY <2>1, JobsSame
    <1>2. ASSUME NEW p \in Procs, Publication(p) PROVE RegistryInv' BY <1>2, PublishingStep
    <1>3. ASSUME NEW c \in Calls, Calling(c) PROVE RegistryInv' BY <1>3, CallingPublishes
    <1>4. ASSUME NEW x \in Runners, Running(x) PROVE RegistryInv' BY <1>4, RunningPublishes
    <1>5. CASE Owning BY <1>5, OwningPublishes
    <1> QED BY <1>1, <1>2, <1>3, <1>4, <1>5 DEF Next

LEMMA RegistryStart ==
    ASSUME Init PROVE RegistryInv
    <1>1. PICK r : r = EmptyRegistry OBVIOUS
    <1>2. /\ r.revs = <<>> /\ r.head = <<>> /\ r.alias = <<>> /\ r.pub = <<>>
          /\ r = [revs |-> r.revs, head |-> r.head, alias |-> r.alias, pub |-> r.pub]
        BY <1>1 DEF EmptyRegistry
    <1>3. /\ <<>> \in Seq(RevRecords) /\ <<>> \in Seq(Nat) /\ Len(<<>>) = 0
          /\ DOMAIN <<>> = {}
        BY EmptySeq
    <1>4. \A i \in 1..0 : FALSE OBVIOUS
    <1>5. HeadsLast(r) /\ Lines(r.revs) /\ ByKnown(r)
        BY <1>2, <1>3, <1>4 DEF HeadsLast, Lines, ByKnown
    <1>6. \A a : ~Known(r, a) BY <1>2, <1>3 DEF Known
    <1>7. RegistryKept(r) BY <1>2, <1>3, <1>5, <1>6 DEF RegistryKept
    <1>8. reg = r BY <1>1 DEF Init
    <1>9. IntentKept /\ PubKept BY <1>2, <1>3, <1>8 DEF Init, IntentKept, PubKept
    <1>10. ViewKept
        <2>1. NoView \in [rev : Nat, value : Stored] /\ NoView.rev = None
            BY DEF NoView, None, Stored
        <2>2. \A i \in Instances : view[i] = NoView BY DEF Init, Instances
        <2>3. view \in [Instances -> [rev : Nat, value : Stored]]
            BY <2>1 DEF Init, Instances
        <2> QED BY <2>1, <2>2, <2>3 DEF ViewKept, RevisionOf
    <1>11. HeadsKept BY DEF Init, HeadsKept
    <1>12. JobKept BY DEF Init, Quiet, JobKept
    <1>13. seed \in Stored /\ NoSelfConflict BY DEF Init, Stored, NoSelfConflict
    <1> QED BY <1>5, <1>7, <1>8, <1>9, <1>10, <1>11, <1>12, <1>13 DEF RegistryInv

\* The registry is kept: heads are last, the revisions of an entity form one
\* line, and whatever an intent, a view, a captured head, a recorded
\* publication or one in progress names is a revision of its dataset.
THEOREM RegistryInvariant == Spec => []RegistryInv
    <1>1. Init => RegistryInv BY RegistryStart
    <1>2. RegistryInv /\ [Next]_vars => RegistryInv' BY RegistryStep
    <1> QED BY <1>1, <1>2, PTL DEF Spec

\* Nobody publishes over a revision it has not seen, and a publication is
\* refused only for what somebody else published: publish_unique after a crash
\* never meets its own revision.
THEOREM PublicationsAlwaysLinear == Spec => []PublicationsLinear
    <1>1. RegistryInv => PublicationsLinear
        <2>1. RegistryKept(reg) => Lines(reg.revs) BY DEF RegistryKept
        <2> QED BY <2>1 DEF RegistryInv, PublicationsLinear, RevisionsLinear, Lines
    <1> QED BY <1>1, RegistryInvariant, PTL

-----------------------------------------------------------------------------
(***************************************************************************)
(* The registry of a run's windows and products.                           *)
(***************************************************************************)

LEMMA RevisionAppended ==
    ASSUME NEW s, NEW n \in Nat, Len(s) = n, s = [i \in 1..n |-> s[i]], NEW w, NEW t,
           t = Append(s, w)
    PROVE  /\ Len(t) = n + 1 /\ t = [i \in 1..Len(t) |-> t[i]] /\ t[n + 1] = w
           /\ \A i \in 1..n : t[i] = s[i]
    <1>1. PICK S : S = {s[i] : i \in 1..n} \cup {w} OBVIOUS
    <1>2. s \in Seq(S) /\ w \in S BY <1>1
    <1>3. t \in Seq(S) /\ Len(t) = n + 1 /\ t[n + 1] = w /\ \A i \in 1..n : t[i] = s[i]
        BY <1>2
    <1> QED BY <1>3

\* Revisions stay what they are.
Extends(r, s) ==
    /\ RegistryShaped(s) /\ Len(r.revs) <= Len(s.revs)
    /\ \A i \in 1..Len(r.revs) : s.revs[i] = r.revs[i]

LEMMA ShowsStays ==
    ASSUME NEW r, NEW s, RegistryShaped(r), Extends(r, s), NEW n, NEW v, Shows(r, n, v)
    PROVE  Shows(s, n, v)
    BY DEF RegistryShaped, Extends, Shows, ValueAt

LEMMA RevisionMade ==
    ASSUME NEW r, RegistryShaped(r), NEW w, NEW s, s.revs = Append(r.revs, w), s.pub = r.pub,
           s = [revs |-> s.revs, head |-> s.head, alias |-> s.alias, pub |-> s.pub]
    PROVE  Extends(r, s) /\ Shows(s, Len(r.revs) + 1, w.value)
    <1>1. PICK n \in Nat : n = Len(r.revs) BY DEF RegistryShaped
    <1>2. PICK q, t : q = r.revs /\ t = s.revs OBVIOUS
    <1>3. Len(q) = n /\ q = [i \in 1..n |-> q[i]] /\ t = Append(q, w)
        BY <1>1, <1>2 DEF RegistryShaped
    <1>4. /\ Len(t) = n + 1 /\ t = [i \in 1..Len(t) |-> t[i]] /\ t[n + 1] = w
          /\ \A i \in 1..n : t[i] = q[i]
        BY <1>3, RevisionAppended
    <1>5. \A id \in DOMAIN s.pub : s.pub[id].rev \in 1..n + 1
        BY <1>1 DEF RegistryShaped
    <1>6. RegistryShaped(s) BY <1>2, <1>4, <1>5 DEF RegistryShaped
    <1> QED BY <1>1, <1>2, <1>4, <1>6 DEF Extends, Shows, ValueAt

LEMMA Inserted ==
    ASSUME NEW r, RegistryShaped(r), NEW a, NEW v, NEW b, NEW s, s = Insert(r, a, v, b)
    PROVE  Extends(r, s) /\ Shows(s, Len(r.revs) + 1, v)
    <1>1. PICK w : w = [entity |-> Len(r.head) + 1, parent |-> None, value |-> v, by |-> b]
        OBVIOUS
    <1>2. /\ s.revs = Append(r.revs, w) /\ s.pub = r.pub
          /\ s = [revs |-> s.revs, head |-> s.head, alias |-> s.alias, pub |-> s.pub]
        BY <1>1 DEF Insert, RegistryShaped
    <1>3. w.value = v BY <1>1
    <1> QED BY <1>2, <1>3, RevisionMade

LEMMA Advanced ==
    ASSUME NEW r, RegistryShaped(r), NEW a, NEW x, NEW v, NEW b, NEW s,
           s = Advance(r, a, x, v, b)
    PROVE  Extends(r, s) /\ Shows(s, Len(r.revs) + 1, v)
    <1>1. PICK w : w = [entity |-> r.alias[a].entity, parent |-> x, value |-> v, by |-> b]
        OBVIOUS
    <1>2. /\ s.revs = Append(r.revs, w) /\ s.pub = r.pub
          /\ s = [revs |-> s.revs, head |-> s.head, alias |-> s.alias, pub |-> s.pub]
        BY <1>1 DEF Advance, RegistryShaped
    <1>3. w.value = v BY <1>1
    <1> QED BY <1>2, <1>3, RevisionMade

LEMMA SameExtends ==
    ASSUME NEW r, RegistryShaped(r)
    PROVE  Extends(r, r)
    BY DEF Extends, RegistryShaped

\* A publication either is refused or shows the value it was asked to publish, also
\* when it was made earlier.
LEMMA PublishedShows ==
    ASSUME NEW r, RegistryShaped(r), NEW a, NEW x, NEW v, NEW id, NEW d,
           d = PublishUnique(r, a, x, v, id)
    PROVE  Extends(r, d.reg) /\ (d.err = "none" => Shows(d.reg, d.rev, v))
    <1>1. CASE id \in DOMAIN r.pub
        <2>1. d = Replay(r, a, x, v, id) BY <1>1 DEF PublishUnique
        <2>2. \/ \E why \in {"publication_mismatch", RequireWritable(r, a)} :
                    why # "none" /\ d = Rejected(r, why)
              \/ d = Committed(r, r.pub[id].rev) /\ ValueAt(r, r.pub[id].rev) = v
            BY <2>1 DEF Replay
        <2>3. d.reg = r /\ (d.err = "none" => Shows(d.reg, d.rev, v))
            BY <1>1, <2>2 DEF Rejected, Committed, RegistryShaped, Shows
        <2> QED BY <2>3, SameExtends
    <1>2. CASE id \notin DOMAIN r.pub
        <2>1. PICK e : e = IF x = None THEN Create(r, a, v, id) ELSE Publish(r, a, x, v, id)
            OBVIOUS
        <2>2. \/ e.err # "none" /\ e.reg = r
              \/ \E s : e = Committed(s, Len(r.revs) + 1)
                        /\ (s = Insert(r, a, v, id) \/ s = Advance(r, a, x, v, id))
            BY <2>1 DEF Create, Publish, RequireFree, RequireWritable, Rejected
        <2>3. CASE e.err # "none" /\ e.reg = r
            <3>1. d = e BY <1>2, <2>1, <2>3 DEF PublishUnique
            <3> QED BY <2>3, <3>1, SameExtends
        <2>4. CASE \E s : e = Committed(s, Len(r.revs) + 1)
                          /\ (s = Insert(r, a, v, id) \/ s = Advance(r, a, x, v, id))
            <3>1. PICK s : e = Committed(s, Len(r.revs) + 1)
                           /\ (s = Insert(r, a, v, id) \/ s = Advance(r, a, x, v, id))
                BY <2>4
            <3>2. Extends(r, s) /\ Shows(s, Len(r.revs) + 1, v) BY <3>1, Inserted, Advanced
            <3>3. e.err = "none" /\ e.reg = s /\ e.rev = Len(r.revs) + 1
                BY <3>1 DEF Committed
            <3>4. PICK row : row = [alias |-> a, expected |-> x, rev |-> e.rev] OBVIOUS
            <3>5. PICK t : t = [s EXCEPT !.pub = AddRow(@, id, row)] OBVIOUS
            <3>6. d = Committed(t, e.rev)
                BY <1>2, <2>1, <3>3, <3>4, <3>5 DEF PublishUnique
            <3>7. d.reg = t /\ d.rev = e.rev BY <3>6 DEF Committed
            <3>8. /\ t.revs = s.revs /\ t.pub = AddRow(s.pub, id, row)
                  /\ t = [revs |-> t.revs, head |-> t.head, alias |-> t.alias, pub |-> t.pub]
                BY <3>2, <3>5 DEF Extends, RegistryShaped
            <3>9. \A i \in DOMAIN t.pub : t.pub[i].rev \in 1..Len(s.revs)
                <4>1. row.rev \in 1..Len(s.revs) BY <3>2, <3>3, <3>4 DEF Shows
                <4>2. PICK p : p = t.pub OBVIOUS
                <4>3. p = AddRow(s.pub, id, row) BY <3>8, <4>2
                <4>4. \A i \in DOMAIN p : p[i] = row \/ (i \in DOMAIN s.pub /\ p[i] = s.pub[i])
                    BY <4>3 DEF AddRow
                <4> QED BY <3>2, <4>1, <4>2, <4>4 DEF Extends, RegistryShaped
            <3>10. Extends(r, t) /\ Shows(t, e.rev, v)
                BY <3>2, <3>3, <3>8, <3>9 DEF Extends, RegistryShaped, Shows, ValueAt
            <3> QED BY <3>7, <3>10
        <2> QED BY <2>2, <2>3, <2>4
    <1> QED BY <1>1, <1>2

-----------------------------------------------------------------------------
(***************************************************************************)
(* Records keep their fields.                                              *)
(***************************************************************************)

LEMMA ShapedPrepare ==
    ASSUME Shaped, Prepare
    PROVE  Shaped'
    <1>1. CASE BeginContext BY <1>1 DEF Shaped, BeginContext, Resting
    <1>2. CASE Produce
        <2>1. CASE at.src \in DOMAIN rec.results BY <1>2, <2>1 DEF Shaped, Produce, Go
        <2>2. CASE ~(at.src \in DOMAIN rec.results) BY <1>2, <2>2 DEF Shaped, Produce, Go
        <2> QED BY <2>1, <2>2
    <1>3. CASE PublishProduct
        <2>1. at' = Resting \/ \E n : at' = [at EXCEPT !.rev = n, !.pc = "keep"]
            BY <1>3 DEF PublishProduct, Ended
        <2>2. CASE at' = Resting BY <1>3, <2>2 DEF Shaped, PublishProduct, Resting
        <2>3. CASE \E n : at' = [at EXCEPT !.rev = n, !.pc = "keep"]
            BY <1>3, <2>3 DEF Shaped, PublishProduct
        <2> QED BY <2>1, <2>2, <2>3
    <1>4. CASE KeepProduct BY <1>4 DEF Shaped, KeepProduct
    <1>5. CASE OpenWindow
        <2>1. CASE Occurrence \in DOMAIN rec.windows BY <1>5, <2>1 DEF Shaped, OpenWindow, Go
        <2>2. CASE ~(Occurrence \in DOMAIN rec.windows) BY <1>5, <2>2 DEF Shaped, OpenWindow, Go
        <2> QED BY <2>1, <2>2
    <1>6. CASE ClaimSelection BY <1>6 DEF Shaped, ClaimSelection, Claimed, Go
    <1>7. CASE SelectWindow
        <2>1. CASE rec.choice[Occurrence] # None BY <1>7, <2>1 DEF Shaped, SelectWindow, Go
        <2>2. CASE ~(rec.choice[Occurrence] # None) BY <1>7, <2>2 DEF Shaped, SelectWindow, Go
        <2> QED BY <2>1, <2>2
    <1>8. CASE PublishWindow
        <2>1. at' = Resting \/ \E n, pc : at' = [at EXCEPT !.rev = n, !.pc = pc]
            BY <1>8 DEF PublishWindow, Ended
        <2>2. CASE at' = Resting BY <1>8, <2>2 DEF Shaped, PublishWindow, Resting
        <2>3. CASE \E n, pc : at' = [at EXCEPT !.rev = n, !.pc = pc]
            BY <1>8, <2>3 DEF Shaped, PublishWindow
        <2> QED BY <2>1, <2>2, <2>3
    <1>9. CASE PrepareWindow BY <1>9 DEF Shaped, PrepareWindow
    <1>10. CASE FixWindow
        <2>1. CASE Reusable(rec.windows, Occurrence, at.rev) BY <1>10, <2>1 DEF Shaped, FixWindow, Go, Ended, Resting
        <2>2. CASE ~(Reusable(rec.windows, Occurrence, at.rev)) BY <1>10, <2>2 DEF Shaped, FixWindow, Go, Ended, Resting
        <2> QED BY <2>1, <2>2
    <1>11. CASE SavePreparation
        <2>1. CASE layout.paired BY <1>11, <2>1 DEF Shaped, SavePreparation, Go
        <2>2. CASE ~(layout.paired) BY <1>11, <2>2 DEF Shaped, SavePreparation, Go
        <2> QED BY <2>1, <2>2
    <1>12. CASE CommitContext BY <1>12 DEF Shaped, CommitContext, Ended, Resting
    <1> QED BY <1>1, <1>2, <1>3, <1>4, <1>5, <1>6, <1>7, <1>8, <1>9, <1>10, <1>11, <1>12
            DEF Prepare

LEMMA ShapedStep ==
    ASSUME Shaped, [TurnsNext]_turns
    PROVE  Shaped'
    <1>1. CASE BeginModel BY <1>1 DEF Shaped, BeginModel, Resting
    <1>2. CASE RecordRequest
        <2>1. CASE Reusable(rec.requests, at.inv, at.id) BY <1>2, <2>1 DEF Shaped, RecordRequest, Go, Ended, Resting
        <2>2. CASE ~(Reusable(rec.requests, at.inv, at.id)) BY <1>2, <2>2 DEF Shaped, RecordRequest, Go, Ended, Resting
        <2> QED BY <2>1, <2>2
    <1>3. CASE Generate
        <2>1. at' = Resting \/ \E calls : at' = [at EXCEPT !.pc = "seal", !.calls = calls]
            BY <1>3 DEF Generate, Ended
        <2>2. CASE at' = Resting BY <1>3, <2>2 DEF Shaped, Generate, Resting
        <2>3. CASE \E calls : at' = [at EXCEPT !.pc = "seal", !.calls = calls]
            BY <1>3, <2>3 DEF Shaped, Generate
        <2> QED BY <2>1, <2>2, <2>3
    <1>4. CASE SealCalls
        <2>1. at' = [at EXCEPT !.pc = "commit"] /\ state' = state BY <1>4 DEF SealCalls, Go
        <2>2. rec' = rec \/ \E t : rec' = [rec EXCEPT !.sealed = t] BY <1>4 DEF SealCalls
        <2> QED BY <2>1, <2>2 DEF Shaped
    <1>5. CASE CommitModel BY <1>5 DEF Shaped, CommitModel, Ended, Resting
    <1>6. CASE BeginTools BY <1>6 DEF Shaped, BeginTools, Resting
    <1>7. CASE DenyCall BY <1>7 DEF Shaped, DenyCall, Answered
    <1>8. CASE PatchCall BY <1>8 DEF Shaped, PatchCall, Answered
    <1>9. CASE RouteCall
        <2>1. CASE Answered BY <1>9, <2>1 DEF Shaped, RouteCall, Answered
        <2>2. CASE \E n, s : at' = [at EXCEPT !.done = n, !.over = TRUE, !.replies = s]
            BY <1>9, <2>2 DEF Shaped, RouteCall
        <2> QED BY <1>9, <2>1, <2>2 DEF RouteCall
    <1>10. CASE RouteWaits BY <1>10 DEF Shaped, RouteWaits, Ended, Resting
    <1>11. CASE CommitTools BY <1>11 DEF Shaped, CommitTools, Ended, Resting
    <1>12. CASE Drop BY <1>12 DEF Shaped, Drop, Ended, Resting
    <1>13. CASE Stop
        <2>1. CASE at.node = "tools" BY <1>13, <2>1 DEF Shaped, Stop, Resting
        <2>2. CASE ~(at.node = "tools") BY <1>13, <2>2 DEF Shaped, Stop, Resting
        <2> QED BY <2>1, <2>2
    <1>14. CASE Resume BY <1>14 DEF Shaped, Resume
    <1>15. CASE EditFile BY <1>15 DEF Shaped, EditFile
    <1>16. CASE PatchByOther BY <1>16 DEF Shaped, PatchByOther
    <1>17. CASE RewriteCalls
        <2>1. at' = at /\ rec' = rec BY <1>17 DEF RewriteCalls
        <2>2. PICK prov : state' = [state EXCEPT !.calls[1].args = "rewritten",
                                                 !.calls[1].provenance = prov]
            BY <1>17 DEF RewriteCalls
        <2>3. PICK cs : cs = [state.calls EXCEPT ![1].args = "rewritten", ![1].provenance = prov]
            OBVIOUS
        <2>4. state' = [state EXCEPT !.calls = cs] BY <2>2, <2>3 DEF Shaped
        <2> QED BY <2>1, <2>4 DEF Shaped
    <1>18. CASE \E c \in Commands : QueueSelection(c) BY <1>18 DEF Shaped, QueueSelection
    <1>19. CASE UNCHANGED turns BY <1>19 DEF Shaped, turns
    <1>20. CASE BeginPlain BY <1>20 DEF Shaped, BeginPlain, Resting
    <1>21. CASE ToolCall BY <1>21 DEF Shaped, ToolCall, Answered
    <1> QED BY <1>1, <1>2, <1>3, <1>4, <1>5, <1>6, <1>7, <1>8, <1>9, <1>10, <1>11, <1>12,
               <1>13, <1>14, <1>15, <1>16, <1>17, <1>18, <1>19, <1>20, <1>21, ShapedPrepare
            DEF TurnsNext, Ask, RunCalls, Outsiders

-----------------------------------------------------------------------------
(***************************************************************************)
(* Products.                                                               *)
(***************************************************************************)

\* An execution that goes on with what it has read, or is over.
KeepsProduct ==
    \/ at'.node # "context"
    \/ UNCHANGED at
    \/ /\ at.node = "context" /\ at.pc \notin {"produce", "publish", "keep"}
       /\ at'.pc \notin {"produce", "publish", "keep"}
       /\ at'.src = at.src /\ at'.res = at.res
    \/ at'.pc \in {"produce", "publish"}

LEMMA ProductsQuiet ==
    ASSUME ProductsInv, KeepsProduct, rec'.results = rec.results,
           rec'.prepared = rec.prepared, Extends(registry, registry')
    PROVE  ProductsInv'
    <1>1. \A k \in DOMAIN rec.results : Shows(registry', rec.results[k], k)
        BY ShowsStays DEF ProductsInv
    <1>2. at'.node = "context" /\ at'.pc = "keep" => Shows(registry', at'.rev, at'.src)
        BY ShowsStays DEF ProductsInv, KeepsProduct
    <1>3. at'.node = "context" /\ at'.pc \notin {"produce", "publish", "keep"} =>
            at'.res = at'.src
        BY DEF ProductsInv, KeepsProduct
    <1>4. ProducedFromRead' BY DEF ProductsInv, ProducedFromRead
    <1>5. RegistryShaped(registry') BY DEF Extends
    <1> QED BY <1>1, <1>2, <1>3, <1>4, <1>5 DEF ProductsInv, RegistryShaped, Shows, ValueAt

LEMMA ProductsUnmoved ==
    ASSUME ProductsInv, KeepsProduct, rec'.results = rec.results,
           rec'.prepared = rec.prepared, registry' = registry
    PROVE  ProductsInv'
    BY ProductsQuiet, SameExtends DEF ProductsInv

LEMMA ProduceKeeps ==
    ASSUME Shaped, ProductsInv, Produce
    PROVE  ProductsInv'
    <1>1. CASE at.src \in DOMAIN rec.results
        <2>1. /\ at'.pc = "window" /\ at'.src = at.src /\ at'.res = Produced(at.src)
              /\ rec' = rec /\ registry' = registry
            BY <1>1 DEF Shaped, Produce
        <2>2. at'.res = at'.src BY <1>1, <2>1 DEF ProductsInv, Shows, Produced
        <2> QED BY <2>1, <2>2
                DEF ProductsInv, ProducedFromRead, RegistryShaped, Shows, ValueAt
    <1>2. CASE at.src \notin DOMAIN rec.results
        <2>1. /\ at'.pc = "publish" /\ registry' = registry
              /\ rec'.results = rec.results /\ rec'.prepared = rec.prepared
            BY <1>2 DEF Shaped, Produce, Go
        <2> QED BY <2>1, ProductsUnmoved DEF KeepsProduct
    <1> QED BY <1>1, <1>2

LEMMA PublishProductKeeps ==
    ASSUME Shaped, ProductsInv, PublishProduct
    PROVE  ProductsInv'
    <1>1. PICK d : d = PublishUnique(registry, "produced", rec.productions[at.src], at.src,
                                     <<"producer", at.src, 0>>)
        OBVIOUS
    <1>2. /\ rec' = rec /\ registry' = d.reg
          /\ IF d.err # "none" THEN at' = Resting
             ELSE at' = [at EXCEPT !.rev = d.rev, !.pc = "keep"]
        BY <1>1 DEF PublishProduct, Ended
    <1>3. Extends(registry, d.reg) /\ (d.err = "none" => Shows(d.reg, d.rev, at.src))
        BY <1>1, PublishedShows DEF ProductsInv
    <1>4. CASE d.err # "none"
        BY <1>2, <1>3, <1>4, ProductsQuiet DEF KeepsProduct, Resting
    <1>5. CASE d.err = "none"
        <2>1. at'.pc = "keep" /\ at'.src = at.src /\ at'.rev = d.rev
            BY <1>2, <1>5 DEF Shaped
        <2>2. Shows(registry', at'.rev, at'.src) BY <1>2, <1>3, <1>5, <2>1
        <2>3. \A k \in DOMAIN rec.results : Shows(registry', rec.results[k], k)
            BY <1>2, <1>3, ShowsStays DEF ProductsInv
        <2>4. RegistryShaped(registry') BY <1>2, <1>3 DEF Extends
        <2> QED BY <1>2, <2>1, <2>2, <2>3, <2>4
                DEF ProductsInv, ProducedFromRead, RegistryShaped, Shows, ValueAt
    <1> QED BY <1>4, <1>5

LEMMA KeepProductKeeps ==
    ASSUME Shaped, ProductsInv, KeepProduct
    PROVE  ProductsInv'
    <1>1. /\ Shows(registry, at.rev, at.src) /\ registry' = registry
          /\ rec'.results = AddRow(rec.results, at.src, at.rev)
          /\ rec'.prepared = rec.prepared
          /\ at'.res = ValueAt(registry, at.rev) /\ at'.src = at.src /\ at'.pc = "window"
        BY DEF Shaped, ProductsInv, KeepProduct, Placed, ClaimRecord
    <1>2. \A k \in DOMAIN rec'.results : Shows(registry, rec'.results[k], k)
        <2>1. PICK p : p = rec'.results OBVIOUS
        <2>2. p = AddRow(rec.results, at.src, at.rev) BY <1>1, <2>1
        <2>3. \A k \in DOMAIN p : (k = at.src /\ p[k] = at.rev)
                                 \/ (k \in DOMAIN rec.results /\ p[k] = rec.results[k])
            BY <2>2 DEF AddRow
        <2>4. \A k \in DOMAIN p : Shows(registry, p[k], k)
            BY <1>1, <2>3 DEF ProductsInv
        <2> QED BY <2>1, <2>4
    <1>3. at'.res = at'.src BY <1>1 DEF Shows
    <1> QED BY <1>1, <1>2, <1>3
            DEF ProductsInv, ProducedFromRead, RegistryShaped, Shows, ValueAt

LEMMA SaveKeepsProducts ==
    ASSUME Shaped, ProductsInv, SavePreparation
    PROVE  ProductsInv'
    <1>1. PICK row : row = [rev |-> at.rev, src |-> at.src, res |-> at.res] OBVIOUS
    <1>2. /\ rec'.results = rec.results /\ registry' = registry
          /\ rec'.prepared = AddRow(rec.prepared, at.inv, row)
          /\ at'.src = at.src /\ at'.res = at.res
          /\ at'.pc = "commit" \/ at'.node = "model"
          /\ at.node = "context" /\ at.pc = "save"
        BY <1>1 DEF Shaped, SavePreparation, Placed, ClaimRecord, Go
    <1>3. at.res = at.src BY <1>2 DEF ProductsInv
    <1>4. \A i \in DOMAIN rec'.prepared : rec'.prepared[i].res = rec'.prepared[i].src
        <2>1. PICK p : p = rec'.prepared OBVIOUS
        <2>2. p = AddRow(rec.prepared, at.inv, row) BY <1>2, <2>1
        <2>3. row.res = row.src BY <1>1, <1>3
        <2>4. \A i \in DOMAIN p : p[i] = row
                                 \/ (i \in DOMAIN rec.prepared /\ p[i] = rec.prepared[i])
            BY <2>2 DEF AddRow
        <2>5. \A i \in DOMAIN p : p[i].res = p[i].src
            BY <2>3, <2>4 DEF ProductsInv, ProducedFromRead
        <2> QED BY <2>1, <2>5
    <1>5. at'.node = "context" => at'.pc = "commit" BY <1>2 DEF SavePreparation, Shaped, Go
    <1> QED BY <1>2, <1>3, <1>4, <1>5
            DEF ProductsInv, ProducedFromRead, RegistryShaped, Shows, ValueAt

LEMMA WindowPublished ==
    ASSUME Shaped, ProductsInv, PublishWindow \/ PatchCall \/ PatchByOther
    PROVE  ProductsInv'
    <1>1. rec' = rec /\ \E a, x, v, id : registry' = PublishUnique(registry, a, x, v, id).reg
        BY DEF PublishWindow, PatchCall, PatchByOther
    <1>2. Extends(registry, registry')
        <2>1. PICK a, x, v, id, d : d = PublishUnique(registry, a, x, v, id) /\ registry' = d.reg
            BY <1>1
        <2> QED BY <2>1, PublishedShows DEF ProductsInv
    <1>3. KeepsProduct
        <2>1. CASE PublishWindow
            <3>1. at' = Resting \/ \E n : \E pc \in {"prepare", "fix"} :
                                      at' = [at EXCEPT !.rev = n, !.pc = pc]
                <4>1. CASE layout.route BY <2>1, <4>1 DEF PublishWindow, Ended
                <4>2. CASE ~layout.route BY <2>1, <4>2 DEF PublishWindow, Ended
                <4> QED BY <4>1, <4>2
            <3>2. at.node = "context" /\ at.pc = "capture" BY <2>1 DEF PublishWindow, Placed
            <3>3. CASE at' = Resting BY <3>3 DEF KeepsProduct, Resting
            <3>4. CASE \E n : \E pc \in {"prepare", "fix"} : at' = [at EXCEPT !.rev = n, !.pc = pc]
                BY <3>2, <3>4 DEF KeepsProduct, Shaped
            <3> QED BY <3>1, <3>3, <3>4
        <2>2. CASE PatchCall BY <2>2 DEF PatchCall, CallNext, Placed, Answered, Shaped, KeepsProduct
        <2>3. CASE PatchByOther BY <2>3 DEF PatchByOther, KeepsProduct
        <2> QED BY <2>1, <2>2, <2>3
    <1> QED BY <1>1, <1>2, <1>3, ProductsQuiet

LEMMA ProductsStep ==
    ASSUME Shaped, ProductsInv, [TurnsNext]_turns
    PROVE  ProductsInv'
    <1> DEFINE Still == /\ KeepsProduct /\ registry' = registry
                        /\ rec'.results = rec.results /\ rec'.prepared = rec.prepared
    <1>0. Still => ProductsInv' BY ProductsUnmoved
    <1>1. CASE BeginContext
        <2>1. Still BY <1>1 DEF Shaped, KeepsProduct, BeginContext, Resting
        <2> QED BY <1>0, <2>1
    <1>2. CASE BeginModel
        <2>1. Still BY <1>2 DEF Shaped, KeepsProduct, BeginModel, Resting
        <2> QED BY <1>0, <2>1
    <1>3. CASE BeginTools
        <2>1. Still BY <1>3 DEF Shaped, KeepsProduct, BeginTools, Resting
        <2> QED BY <1>0, <2>1
    <1>4. CASE OpenWindow
        <2>1. Still
            <3>1. CASE Occurrence \in DOMAIN rec.windows BY <1>4, <3>1 DEF Shaped, KeepsProduct, OpenWindow, Placed, Go
            <3>2. CASE ~(Occurrence \in DOMAIN rec.windows) BY <1>4, <3>2 DEF Shaped, KeepsProduct, OpenWindow, Placed, Go
            <3> QED BY <3>1, <3>2
        <2> QED BY <1>0, <2>1
    <1>5. CASE ClaimSelection
        <2>1. Still BY <1>5 DEF Shaped, KeepsProduct, ClaimSelection, Claimed, Placed, Go
        <2> QED BY <1>0, <2>1
    <1>6. CASE SelectWindow
        <2>1. Still
            <3>1. CASE rec.choice[Occurrence] # None BY <1>6, <3>1 DEF Shaped, KeepsProduct, SelectWindow, Placed, Go
            <3>2. CASE ~(rec.choice[Occurrence] # None) BY <1>6, <3>2 DEF Shaped, KeepsProduct, SelectWindow, Placed, Go
            <3> QED BY <3>1, <3>2
        <2> QED BY <1>0, <2>1
    <1>7. CASE PrepareWindow
        <2>1. Still BY <1>7 DEF Shaped, KeepsProduct, PrepareWindow, Placed
        <2> QED BY <1>0, <2>1
    <1>8. CASE FixWindow
        <2>1. Still
            <3>1. CASE Reusable(rec.windows, Occurrence, at.rev) BY <1>8, <3>1 DEF Shaped, KeepsProduct, FixWindow, Placed, Go, Ended, Resting
            <3>2. CASE ~(Reusable(rec.windows, Occurrence, at.rev)) BY <1>8, <3>2 DEF Shaped, KeepsProduct, FixWindow, Placed, Go, Ended, Resting
            <3> QED BY <3>1, <3>2
        <2> QED BY <1>0, <2>1
    <1>9. CASE CommitContext
        <2>1. Still BY <1>9 DEF Shaped, KeepsProduct, CommitContext, Ended, Resting
        <2> QED BY <1>0, <2>1
    <1>10. CASE CommitModel
        <2>1. Still BY <1>10 DEF Shaped, KeepsProduct, CommitModel, Ended, Resting
        <2> QED BY <1>0, <2>1
    <1>11. CASE CommitTools
        <2>1. Still BY <1>11 DEF Shaped, KeepsProduct, CommitTools, Ended, Resting
        <2> QED BY <1>0, <2>1
    <1>12. CASE RouteWaits
        <2>1. Still BY <1>12 DEF Shaped, KeepsProduct, RouteWaits, Ended, Resting
        <2> QED BY <1>0, <2>1
    <1>13. CASE RecordRequest
        <2>1. Still
            <3>1. CASE Reusable(rec.requests, at.inv, at.id) BY <1>13, <3>1 DEF Shaped, KeepsProduct, RecordRequest, Placed, Go, Ended, Resting
            <3>2. CASE ~(Reusable(rec.requests, at.inv, at.id)) BY <1>13, <3>2 DEF Shaped, KeepsProduct, RecordRequest, Placed, Go, Ended, Resting
            <3> QED BY <3>1, <3>2
        <2> QED BY <1>0, <2>1
    <1>14. CASE Generate
        <2>1. at' = Resting \/ \E calls : at' = [at EXCEPT !.pc = "seal", !.calls = calls]
            BY <1>14 DEF Generate, Ended
        <2>2. at.node = "model" /\ registry' = registry /\ rec' = rec
            BY <1>14 DEF Generate, Placed
        <2>3. at'.node # "context"
            <3>1. CASE at' = Resting BY <3>1 DEF Resting
            <3>2. CASE \E calls : at' = [at EXCEPT !.pc = "seal", !.calls = calls]
                <4>1. PICK calls : at' = [at EXCEPT !.pc = "seal", !.calls = calls] BY <3>2
                <4> QED BY <2>2, <4>1 DEF Shaped
            <3> QED BY <2>1, <3>1, <3>2
        <2>4. KeepsProduct BY <2>3 DEF KeepsProduct
        <2> QED BY <1>0, <2>2, <2>4
    <1>15. CASE SealCalls
        <2>1. Still
            <3>1. CASE layout.snapshots
                BY <1>15, <3>1 DEF Shaped, KeepsProduct, SealCalls, Placed, Go
            <3>2. CASE ~layout.snapshots
                BY <1>15, <3>2 DEF Shaped, KeepsProduct, SealCalls, Placed, Go
            <3> QED BY <3>1, <3>2
        <2> QED BY <1>0, <2>1
    <1>16. CASE DenyCall
        <2>1. Still BY <1>16 DEF Shaped, KeepsProduct, DenyCall, CallNext, Placed, Answered
        <2> QED BY <1>0, <2>1
    <1>17. CASE RouteCall
        <2>1. Answered \/ \E k, s : at' = [at EXCEPT !.done = k, !.over = TRUE, !.replies = s]
            BY <1>17 DEF RouteCall
        <2>2. at.node = "tools" /\ registry' = registry /\ rec' = rec
            BY <1>17 DEF RouteCall, CallNext, Placed
        <2>3. KeepsProduct BY <2>1, <2>2 DEF Shaped, KeepsProduct, Answered
        <2> QED BY <1>0, <2>2, <2>3
    <1>18. CASE Drop
        <2>1. Still BY <1>18 DEF Shaped, KeepsProduct, Drop, Ended, Resting
        <2> QED BY <1>0, <2>1
    <1>19. CASE Stop
        <2>1. Still
            <3>1. CASE at.node = "tools" BY <1>19, <3>1 DEF Shaped, KeepsProduct, Stop, Resting
            <3>2. CASE ~(at.node = "tools") BY <1>19, <3>2 DEF Shaped, KeepsProduct, Stop, Resting
            <3> QED BY <3>1, <3>2
        <2> QED BY <1>0, <2>1
    <1>20. CASE Resume
        <2>1. Still BY <1>20 DEF Shaped, KeepsProduct, Resume
        <2> QED BY <1>0, <2>1
    <1>21. CASE EditFile
        <2>1. Still BY <1>21 DEF Shaped, KeepsProduct, EditFile
        <2> QED BY <1>0, <2>1
    <1>22. CASE RewriteCalls
        <2>1. at' = at /\ rec' = rec /\ registry' = registry BY <1>22 DEF RewriteCalls
        <2>2. Still BY <2>1 DEF KeepsProduct
        <2> QED BY <1>0, <2>2
    <1>23. CASE \E c \in Commands : QueueSelection(c)
        <2>1. Still BY <1>23 DEF Shaped, KeepsProduct, QueueSelection
        <2> QED BY <1>0, <2>1
    <1>24. CASE UNCHANGED turns
        <2>1. Still BY <1>24 DEF Shaped, KeepsProduct, turns
        <2> QED BY <1>0, <2>1
    <1>25. CASE BeginPlain
        <2>1. Still BY <1>25 DEF Shaped, KeepsProduct, BeginPlain, Resting
        <2> QED BY <1>0, <2>1
    <1>26. CASE ToolCall
        <2>1. Still BY <1>26 DEF Shaped, KeepsProduct, ToolCall, CallNext, Placed, Answered
        <2> QED BY <1>0, <2>1
    <1> QED BY <1>1, <1>2, <1>3, <1>4, <1>5, <1>6, <1>7, <1>8, <1>9, <1>10, <1>11, <1>12, <1>13, <1>14, <1>15, <1>16, <1>17, <1>18, <1>19, <1>20, <1>21, <1>22, <1>23, <1>24, <1>25, <1>26,
               ProduceKeeps, PublishProductKeeps,
               KeepProductKeeps, SaveKeepsProducts, WindowPublished
            DEF TurnsNext, Prepare, Ask, RunCalls, Outsiders

-----------------------------------------------------------------------------
(***************************************************************************)
(* Windows.                                                                *)
(***************************************************************************)

\* An execution that is where it was, or not between its claim and its preparation.
KeepsWindow ==
    \/ UNCHANGED at /\ state'.step = state.step
    \/ at'.node # "context"
    \/ at'.pc \in {"produce", "publish", "keep", "window", "commit"}

SameWindows ==
    /\ rec'.windows = rec.windows /\ rec'.choice = rec.choice
    /\ rec'.selections = rec.selections /\ rec'.used = rec.used

LEMMA WindowsQuiet ==
    ASSUME WindowsInv, KeepsWindow, SameWindows, shown' = shown
    PROVE  WindowsInv'
    <1>1. ShownKept' BY DEF WindowsInv, ShownKept, SameWindows
    <1>2. ChoicesKept'
        BY DEF WindowsInv, ChoicesKept, SelectionUsedOnce, Pending, SameWindows
    <1>3. Preparing'
        BY DEF WindowsInv, Preparing, KeepsWindow, SameWindows, Occurrence
    <1> QED BY <1>1, <1>2, <1>3 DEF WindowsInv

LEMMA SameChoices ==
    ASSUME WindowsInv, SameWindows, shown' = shown, Preparing'
    PROVE  WindowsInv'
    <1>1. ShownKept' BY DEF WindowsInv, ShownKept, SameWindows
    <1>2. ChoicesKept'
        BY DEF WindowsInv, ChoicesKept, SelectionUsedOnce, Pending, SameWindows
    <1> QED BY <1>1, <1>2 DEF WindowsInv

LEMMA OpenKeeps ==
    ASSUME Shaped, WindowsInv, OpenWindow
    PROVE  WindowsInv'
    <1>1. SameWindows /\ shown' = shown /\ Occurrence' = Occurrence
        BY DEF Shaped, OpenWindow, SameWindows, Occurrence
    <1>2. CASE Occurrence \in DOMAIN rec.windows
        <2>1. at'.pc = "save" /\ at'.rev = rec.windows[Occurrence]
            BY <1>2 DEF Shaped, OpenWindow
        <2>2. Preparing' BY <1>1, <1>2, <2>1 DEF Preparing, SameWindows
        <2> QED BY <1>1, <2>2, SameChoices
    <1>3. CASE Occurrence \notin DOMAIN rec.windows
        <2>1. at'.pc = "claim" BY <1>3 DEF Shaped, OpenWindow, Go
        <2>2. Preparing' BY <1>1, <1>3, <2>1 DEF Preparing, SameWindows
        <2> QED BY <1>1, <2>2, SameChoices
    <1> QED BY <1>2, <1>3

\* One selection at most is pending, so that the command given is it.
LEMMA PendingChosen ==
    ASSUME WindowsInv, Pending # {}
    PROVE  (CHOOSE x \in Pending : \A y \in Pending : x <= y) \in Pending \ {None}
    <1>1. PICK x \in Pending : TRUE OBVIOUS
    <1>2. Pending \subseteq Nat \ {None}
        BY TurnsAssumption DEF WindowsInv, ChoicesKept, Pending
    <1>3. \A y \in Pending : x <= y BY <1>1, <1>2 DEF WindowsInv, ChoicesKept
    <1> QED BY <1>1, <1>2, <1>3

LEMMA ClaimKeeps ==
    ASSUME Shaped, WindowsInv, ClaimSelection
    PROVE  WindowsInv'
    <1>1. /\ rec' = Claimed(Occurrence) /\ shown' = shown /\ Occurrence' = Occurrence
          /\ at'.pc = "select" /\ Occurrence \notin DOMAIN rec.windows
        BY DEF Shaped, WindowsInv, Preparing, ClaimSelection, Placed, Go, Occurrence
    <1>2. CASE Occurrence \in DOMAIN rec.choice
        <2>1. SameWindows BY <1>1, <1>2 DEF Claimed, SameWindows
        <2>2. Preparing' BY <1>1, <1>2, <2>1 DEF Preparing, SameWindows
        <2> QED BY <1>1, <2>1, <2>2, SameChoices
    <1>3. CASE Occurrence \notin DOMAIN rec.choice
        <2>1. PICK c : c = IF Pending = {} THEN None
                           ELSE CHOOSE x \in Pending : \A y \in Pending : x <= y
            OBVIOUS
        <2>2. c = None \/ c \in Pending \ {None} BY <2>1, PendingChosen
        <2>3. PICK t : t = AddRow(rec.choice, Occurrence, c) OBVIOUS
        <2>4. PICK u : u = IF c = None THEN rec.used ELSE rec.used \cup {c} OBVIOUS
        <2>5. /\ rec'.choice = t /\ rec'.used = u
              /\ rec'.windows = rec.windows /\ rec'.selections = rec.selections
            BY <1>1, <1>3, <2>1, <2>3, <2>4 DEF Shaped, Claimed
        <2>6. /\ DOMAIN t = DOMAIN rec.choice \cup {Occurrence} /\ t[Occurrence] = c
              /\ \A o \in DOMAIN rec.choice : t[o] = rec.choice[o]
            BY <1>3, <2>3 DEF AddRow
        <2>7. rec.used \subseteq u /\ (c # None => c \in u)  BY <2>4
        <2>8. \A x, y \in Pending' : x = y
            BY <2>5, <2>7 DEF WindowsInv, ChoicesKept, Pending
        <2>9. \A o \in DOMAIN t : t[o] # None => t[o] \in DOMAIN rec.selections \cap u
            BY <2>2, <2>6, <2>7 DEF WindowsInv, ChoicesKept, Pending
        <2>10. \A o, p \in DOMAIN t : t[o] # None /\ t[o] = t[p] => o = p
            BY <2>2, <2>6 DEF WindowsInv, ChoicesKept, SelectionUsedOnce, Pending
        <2>11. \A o \in DOMAIN t \cap DOMAIN rec.windows :
                  t[o] # None => rec.windows[o] = rec.selections[t[o]]
            BY <1>1, <2>6 DEF WindowsInv, ChoicesKept, SelectionUsedOnce
        <2>12. ChoicesKept'
            BY <2>5, <2>8, <2>9, <2>10, <2>11 DEF WindowsInv, ChoicesKept, SelectionUsedOnce
        <2>13. Preparing' BY <1>1, <2>5, <2>6 DEF Preparing
        <2>14. ShownKept' BY <1>1, <2>5 DEF WindowsInv, ShownKept
        <2> QED BY <2>12, <2>13, <2>14 DEF WindowsInv
    <1> QED BY <1>2, <1>3

LEMMA SelectKeeps ==
    ASSUME Shaped, WindowsInv, SelectWindow
    PROVE  WindowsInv'
    <1>1. /\ SameWindows /\ shown' = shown /\ Occurrence' = Occurrence
          /\ Occurrence \in DOMAIN rec.choice
        <2>1. CASE rec.choice[Occurrence] # None
            BY <2>1 DEF Shaped, SelectWindow, SameWindows, Occurrence, Placed, WindowsInv, Preparing
        <2>2. CASE rec.choice[Occurrence] = None
            BY <2>2 DEF Shaped, SelectWindow, SameWindows, Occurrence, Placed, WindowsInv, Preparing
        <2> QED BY <2>1, <2>2
    <1>2. CASE rec.choice[Occurrence] # None
        <2>1. at'.pc = "fix" /\ at'.rev = rec.selections[rec.choice[Occurrence]]
            BY <1>2 DEF Shaped, SelectWindow
        <2>2. Preparing' BY <1>1, <2>1 DEF Preparing, SameWindows
        <2> QED BY <1>1, <2>2, SameChoices
    <1>3. CASE rec.choice[Occurrence] = None
        <2>1. at'.pc = "capture" BY <1>3 DEF Shaped, SelectWindow, Go
        <2>2. Preparing' BY <1>1, <1>3, <2>1 DEF Preparing, SameWindows
        <2> QED BY <1>1, <2>2, SameChoices
    <1> QED BY <1>2, <1>3

LEMMA CaptureKeeps ==
    ASSUME Shaped, WindowsInv, PublishWindow \/ PrepareWindow
    PROVE  WindowsInv'
    <1>1. /\ SameWindows /\ shown' = shown /\ Occurrence' = Occurrence
          /\ Occurrence \in DOMAIN rec.choice /\ rec.choice[Occurrence] = None
        BY DEF PublishWindow, PrepareWindow, SameWindows, Occurrence, Placed, WindowsInv, Preparing
    <1>2. at' = Resting \/ \E n : \E pc \in {"prepare", "fix"} :
                              at' = [at EXCEPT !.rev = n, !.pc = pc]
        <2>1. CASE PrepareWindow BY <2>1 DEF PrepareWindow
        <2>2. CASE PublishWindow /\ layout.route BY <2>2 DEF PublishWindow, Ended
        <2>3. CASE PublishWindow /\ ~layout.route BY <2>3 DEF PublishWindow, Ended
        <2> QED BY <2>1, <2>2, <2>3
    <1>3. CASE at' = Resting
        BY <1>1, <1>3, WindowsQuiet DEF KeepsWindow, Resting
    <1>4. CASE \E n : \E pc \in {"prepare", "fix"} : at' = [at EXCEPT !.rev = n, !.pc = pc]
        <2>1. at'.pc \in {"prepare", "fix"} BY <1>4 DEF Shaped
        <2>2. Preparing' BY <1>1, <2>1 DEF Preparing, SameWindows
        <2> QED BY <1>1, <2>2, SameChoices
    <1> QED BY <1>2, <1>3, <1>4

LEMMA FixKeeps ==
    ASSUME Shaped, WindowsInv, FixWindow
    PROVE  WindowsInv'
    <1>1. CASE ~Reusable(rec.windows, Occurrence, at.rev)
        <2>1. SameWindows /\ shown' = shown /\ at' = Resting
            BY <1>1 DEF FixWindow, SameWindows, Ended
        <2> QED BY <2>1, WindowsQuiet DEF KeepsWindow, Resting
    <1>2. CASE Reusable(rec.windows, Occurrence, at.rev)
        <2>1. PICK t : t = AddRow(rec.windows, Occurrence, at.rev) OBVIOUS
        <2>2. /\ rec'.windows = t /\ rec'.choice = rec.choice
              /\ rec'.selections = rec.selections /\ rec'.used = rec.used
              /\ shown' = shown /\ Occurrence' = Occurrence
              /\ at'.pc = "save" /\ at'.rev = at.rev
            BY <1>2, <2>1 DEF Shaped, FixWindow, ClaimRecord, Go, Occurrence
        <2>3. /\ DOMAIN t = DOMAIN rec.windows \cup {Occurrence} /\ t[Occurrence] = at.rev
              /\ \A o \in DOMAIN rec.windows : t[o] = rec.windows[o]
            BY <1>2, <2>1 DEF AddRow, Reusable
        <2>4. ShownKept' BY <2>2, <2>3 DEF WindowsInv, ShownKept
        <2>5. \A o \in DOMAIN rec.choice \cap DOMAIN t :
                rec.choice[o] # None => t[o] = rec.selections[rec.choice[o]]
            <3>1. TAKE o \in DOMAIN rec.choice \cap DOMAIN t
            <3>2. CASE o = Occurrence
                BY <2>3, <3>2 DEF WindowsInv, Preparing, FixWindow, Placed
            <3>3. CASE o \in DOMAIN rec.windows
                BY <2>3, <3>3 DEF WindowsInv, ChoicesKept, SelectionUsedOnce
            <3> QED BY <2>3, <3>2, <3>3
        <2>6. ChoicesKept'
            BY <2>2, <2>5 DEF WindowsInv, ChoicesKept, SelectionUsedOnce, Pending
        <2>7. Preparing' BY <2>2, <2>3 DEF Preparing
        <2> QED BY <2>4, <2>6, <2>7 DEF WindowsInv
    <1> QED BY <1>1, <1>2

LEMMA SaveKeepsWindows ==
    ASSUME Shaped, WindowsInv, SavePreparation
    PROVE  WindowsInv'
    <1>1. SameWindows BY DEF Shaped, SavePreparation, SameWindows
    <1>2. at'.node # "context" \/ at'.pc = "commit"
        <2>1. CASE layout.paired BY <2>1 DEF Shaped, SavePreparation, Go
        <2>2. CASE ~layout.paired BY <2>2 DEF Shaped, SavePreparation
        <2> QED BY <2>1, <2>2
    <1>3. Occurrence \in DOMAIN rec.windows /\ at.rev = rec.windows[Occurrence]
        BY DEF WindowsInv, Preparing, SavePreparation, Placed
    <1>4. shown' = [shown EXCEPT ![state.step] = @ \cup {at.rev}] BY DEF SavePreparation
    <1>5. shown' = [s \in 1..MaxSteps |-> shown'[s]] BY <1>4 DEF WindowsInv, ShownKept
    <1>6. \A s \in 1..MaxSteps : \A v \in shown'[s] : v \in shown[s] \/ (s = state.step /\ v = at.rev)
        BY <1>4 DEF WindowsInv, ShownKept
    <1>7. ShownKept' BY <1>1, <1>3, <1>5, <1>6 DEF WindowsInv, ShownKept, SameWindows, Occurrence
    <1>8. ChoicesKept'
        BY <1>1 DEF WindowsInv, ChoicesKept, SelectionUsedOnce, Pending, SameWindows
    <1>9. Preparing' BY <1>2 DEF Preparing
    <1> QED BY <1>7, <1>8, <1>9 DEF WindowsInv

LEMMA QueueKeeps ==
    ASSUME Shaped, WindowsInv, NEW c \in Commands, QueueSelection(c)
    PROVE  WindowsInv'
    <1>1. PICK rev : rec' = [rec EXCEPT !.selections = AddRow(@, c, rev)] BY DEF QueueSelection
    <1>2. PICK t : t = AddRow(rec.selections, c, rev) OBVIOUS
    <1>3. /\ rec'.selections = t /\ rec'.choice = rec.choice
          /\ rec'.windows = rec.windows /\ rec'.used = rec.used
          /\ shown' = shown /\ UNCHANGED <<at, state>> /\ Pending = {}
          /\ c \notin DOMAIN rec.selections
        BY <1>1, <1>2 DEF Shaped, QueueSelection
    <1>4. /\ DOMAIN t = DOMAIN rec.selections \cup {c}
          /\ \A x \in DOMAIN rec.selections : t[x] = rec.selections[x]
        BY <1>2 DEF AddRow
    <1>5. ShownKept' BY <1>3 DEF WindowsInv, ShownKept
    <1>6. DOMAIN t \subseteq Commands BY <1>4 DEF WindowsInv, ChoicesKept
    <1>7. \A x, y \in Pending' : x = y BY <1>3, <1>4 DEF Pending
    <1>8. \A o \in DOMAIN rec.choice : rec.choice[o] # None =>
            /\ rec.choice[o] \in DOMAIN rec.selections /\ rec.choice[o] \in rec.used
            /\ t[rec.choice[o]] = rec.selections[rec.choice[o]]
        BY <1>4 DEF WindowsInv, ChoicesKept
    <1>9. ChoicesKept'
        BY <1>3, <1>4, <1>6, <1>7, <1>8 DEF WindowsInv, ChoicesKept, SelectionUsedOnce
    <1>10. Preparing' BY <1>3, <1>8 DEF WindowsInv, Preparing, Occurrence
    <1> QED BY <1>5, <1>9, <1>10 DEF WindowsInv

LEMMA WindowsStep ==
    ASSUME Shaped, WindowsInv, [TurnsNext]_turns
    PROVE  WindowsInv'
    <1> DEFINE Still == KeepsWindow /\ SameWindows /\ shown' = shown
    <1>0. Still => WindowsInv' BY WindowsQuiet
    <1>1. CASE BeginContext
        <2>1. Still BY <1>1 DEF Shaped, KeepsWindow, SameWindows, BeginContext, Resting
        <2> QED BY <1>0, <2>1
    <1>2. CASE Produce
        <2>1. Still
            <3>1. CASE at.src \in DOMAIN rec.results
                BY <1>2, <3>1 DEF Shaped, KeepsWindow, SameWindows, Produce, Go
            <3>2. CASE ~(at.src \in DOMAIN rec.results)
                BY <1>2, <3>2 DEF Shaped, KeepsWindow, SameWindows, Produce, Go
            <3> QED BY <3>1, <3>2
        <2> QED BY <1>0, <2>1
    <1>3. CASE PublishProduct
        <2>1. at' = Resting \/ \E k : at' = [at EXCEPT !.rev = k, !.pc = "keep"]
            BY <1>3 DEF PublishProduct, Ended, Answered
        <2>2. TRUE /\ SameWindows /\ shown' = shown
            BY <1>3 DEF PublishProduct, CallNext, Placed, SameWindows
        <2>3. CASE at' = Resting BY <1>0, <2>2, <2>3 DEF KeepsWindow, Resting
        <2>4. CASE \E k : at' = [at EXCEPT !.rev = k, !.pc = "keep"]
            <3>1. at'.node # "context" \/ at'.pc = "keep" BY <2>2, <2>4 DEF Shaped
            <3> QED BY <1>0, <2>2, <3>1 DEF KeepsWindow
        <2> QED BY <2>1, <2>3, <2>4
    <1>4. CASE KeepProduct
        <2>1. Still BY <1>4 DEF Shaped, KeepsWindow, SameWindows, KeepProduct
        <2> QED BY <1>0, <2>1
    <1>5. CASE CommitContext
        <2>1. Still BY <1>5 DEF Shaped, KeepsWindow, SameWindows, CommitContext, Ended, Resting
        <2> QED BY <1>0, <2>1
    <1>6. CASE BeginModel
        <2>1. Still BY <1>6 DEF Shaped, KeepsWindow, SameWindows, BeginModel, Resting
        <2> QED BY <1>0, <2>1
    <1>7. CASE RecordRequest
        <2>1. Still
            <3>1. CASE Reusable(rec.requests, at.inv, at.id)
                BY <1>7, <3>1 DEF Shaped, KeepsWindow, SameWindows, RecordRequest, Placed, Go, Ended, Resting
            <3>2. CASE ~(Reusable(rec.requests, at.inv, at.id))
                BY <1>7, <3>2 DEF Shaped, KeepsWindow, SameWindows, RecordRequest, Placed, Go, Ended, Resting
            <3> QED BY <3>1, <3>2
        <2> QED BY <1>0, <2>1
    <1>8. CASE Generate
        <2>1. at' = Resting \/ \E calls : at' = [at EXCEPT !.pc = "seal", !.calls = calls]
            BY <1>8 DEF Generate, Ended, Answered
        <2>2. at.node = "model" /\ SameWindows /\ shown' = shown
            BY <1>8 DEF Generate, CallNext, Placed, SameWindows
        <2>3. CASE at' = Resting BY <1>0, <2>2, <2>3 DEF KeepsWindow, Resting
        <2>4. CASE \E calls : at' = [at EXCEPT !.pc = "seal", !.calls = calls]
            <3>1. at'.node # "context" \/ at'.pc = "keep" BY <2>2, <2>4 DEF Shaped
            <3> QED BY <1>0, <2>2, <3>1 DEF KeepsWindow
        <2> QED BY <2>1, <2>3, <2>4
    <1>9. CASE SealCalls
        <2>1. Still
            <3>1. CASE layout.snapshots
                BY <1>9, <3>1 DEF Shaped, KeepsWindow, SameWindows, SealCalls, Placed, Go
            <3>2. CASE ~layout.snapshots
                BY <1>9, <3>2 DEF Shaped, KeepsWindow, SameWindows, SealCalls, Placed, Go
            <3> QED BY <3>1, <3>2
        <2> QED BY <1>0, <2>1
    <1>10. CASE CommitModel
        <2>1. Still BY <1>10 DEF Shaped, KeepsWindow, SameWindows, CommitModel, Ended, Resting
        <2> QED BY <1>0, <2>1
    <1>11. CASE BeginTools
        <2>1. Still BY <1>11 DEF Shaped, KeepsWindow, SameWindows, BeginTools, Resting
        <2> QED BY <1>0, <2>1
    <1>12. CASE DenyCall
        <2>1. Still BY <1>12 DEF Shaped, KeepsWindow, SameWindows, DenyCall, CallNext, Placed, Answered
        <2> QED BY <1>0, <2>1
    <1>13. CASE PatchCall
        <2>1. Still BY <1>13 DEF Shaped, KeepsWindow, SameWindows, PatchCall, CallNext, Placed, Answered
        <2> QED BY <1>0, <2>1
    <1>14. CASE RouteCall
        <2>1. at.node = "tools" /\ SameWindows /\ shown' = shown
            BY <1>14 DEF RouteCall, CallNext, Placed, SameWindows
        <2>2. at'.node = "tools"
            <3>1. CASE Answered BY <2>1, <3>1 DEF Shaped, Answered
            <3>2. CASE \E k, s : at' = [at EXCEPT !.done = k, !.over = TRUE, !.replies = s]
                BY <2>1, <3>2 DEF Shaped
            <3> QED BY <1>14, <3>1, <3>2 DEF RouteCall
        <2> QED BY <1>0, <2>1, <2>2 DEF KeepsWindow
    <1>15. CASE RouteWaits
        <2>1. Still BY <1>15 DEF Shaped, KeepsWindow, SameWindows, RouteWaits, Ended, Resting
        <2> QED BY <1>0, <2>1
    <1>16. CASE CommitTools
        <2>1. Still BY <1>16 DEF Shaped, KeepsWindow, SameWindows, CommitTools, Ended, Resting
        <2> QED BY <1>0, <2>1
    <1>17. CASE Drop
        <2>1. Still BY <1>17 DEF Shaped, KeepsWindow, SameWindows, Drop, Ended, Resting
        <2> QED BY <1>0, <2>1
    <1>18. CASE Stop
        <2>1. Still
            <3>1. CASE at.node = "tools"
                BY <1>18, <3>1 DEF Shaped, KeepsWindow, SameWindows, Stop, Resting
            <3>2. CASE ~(at.node = "tools")
                BY <1>18, <3>2 DEF Shaped, KeepsWindow, SameWindows, Stop, Resting
            <3> QED BY <3>1, <3>2
        <2> QED BY <1>0, <2>1
    <1>19. CASE Resume
        <2>1. Still BY <1>19 DEF Shaped, KeepsWindow, SameWindows, Resume
        <2> QED BY <1>0, <2>1
    <1>20. CASE EditFile
        <2>1. Still BY <1>20 DEF Shaped, KeepsWindow, SameWindows, EditFile
        <2> QED BY <1>0, <2>1
    <1>21. CASE PatchByOther
        <2>1. Still BY <1>21 DEF Shaped, KeepsWindow, SameWindows, PatchByOther
        <2> QED BY <1>0, <2>1
    <1>22. CASE RewriteCalls
        <2>1. at' = at /\ rec' = rec /\ shown' = shown BY <1>22 DEF RewriteCalls
        <2>2. state'.step = state.step
            <3>1. PICK prov : state' = [state EXCEPT !.calls[1].args = "rewritten",
                                                     !.calls[1].provenance = prov]
                BY <1>22 DEF RewriteCalls
            <3> QED BY <3>1 DEF Shaped
        <2>3. Still BY <2>1, <2>2 DEF KeepsWindow, SameWindows
        <2> QED BY <1>0, <2>3
    <1>23. CASE UNCHANGED turns
        <2>1. Still BY <1>23 DEF Shaped, KeepsWindow, SameWindows, turns
        <2> QED BY <1>0, <2>1
    <1>24. CASE BeginPlain
        <2>1. Still BY <1>24 DEF Shaped, KeepsWindow, SameWindows, BeginPlain, Resting
        <2> QED BY <1>0, <2>1
    <1>25. CASE ToolCall
        <2>1. Still BY <1>25 DEF Shaped, KeepsWindow, SameWindows, ToolCall, CallNext, Placed, Answered
        <2> QED BY <1>0, <2>1
    <1> QED BY <1>1, <1>2, <1>3, <1>4, <1>5, <1>6, <1>7, <1>8, <1>9, <1>10, <1>11, <1>12, <1>13, <1>14, <1>15,
               <1>16, <1>17, <1>18, <1>19, <1>20, <1>21, <1>22, <1>23, <1>24, <1>25,
               OpenKeeps, ClaimKeeps, SelectKeeps, CaptureKeeps, FixKeeps,
               SaveKeepsWindows, QueueKeeps
            DEF TurnsNext, Prepare, Ask, RunCalls, Outsiders

-----------------------------------------------------------------------------
(***************************************************************************)
(* Calls and their answers in a history.                                   *)
(***************************************************************************)

Once(h) == \A i, j \in DOMAIN h : h[i] = h[j] => i = j
Asked(h, x) == \E i \in DOMAIN h : h[i].kind = "call" /\ h[i].id = x
Given(h, x) == \E i \in DOMAIN h : h[i].kind = "result" /\ h[i].id = x
InOrder(h) == \A i \in DOMAIN h : h[i].kind = "result" =>
                \E j \in DOMAIN h : h[j].kind = "call" /\ j < i /\ h[j].id = h[i].id
Among(cs, x) == \E i \in DOMAIN cs : x = CallId(cs[i])

LEMMA PairedIs ==
    ASSUME NEW h, NEW cs
    PROVE  Paired(h, cs) <=> /\ Once(h) /\ InOrder(h)
                             /\ \A x : Among(cs, x) <=> (Asked(h, x) /\ ~Given(h, x))
    <1>1. PICK calls, results : /\ calls = {i \in DOMAIN h : h[i].kind = "call"}
                                /\ results = {i \in DOMAIN h : h[i].kind = "result"}
        OBVIOUS
    <1>2. PICK open, left : /\ open = {h[i].id : i \in calls} \ {h[i].id : i \in results}
                            /\ left = {CallId(cs[i]) : i \in DOMAIN cs}
        OBVIOUS
    <1>3. Paired(h, cs) <=>
            /\ Once(h)
            /\ \A i \in results : \E j \in calls : j < i /\ h[j].id = h[i].id
            /\ open = left
        BY <1>1, <1>2 DEF Paired, Once
    <1>4. (\A i \in results : \E j \in calls : j < i /\ h[j].id = h[i].id) <=> InOrder(h)
        BY <1>1 DEF InOrder
    <1>5. \A x : x \in open <=> Asked(h, x) /\ ~Given(h, x)
        BY <1>1, <1>2 DEF Asked, Given
    <1>6. \A x : x \in left <=> Among(cs, x) BY <1>2 DEF Among
    <1>7. open = left <=> \A x : x \in left <=> x \in open OBVIOUS
    <1> QED BY <1>3, <1>4, <1>5, <1>6, <1>7

\* What a call carries besides its identity does not matter.
LEMMA SamePaired ==
    ASSUME NEW h, NEW cs, NEW ds, Paired(h, cs), DOMAIN ds = DOMAIN cs,
           \A i \in DOMAIN cs : CallId(ds[i]) = CallId(cs[i])
    PROVE  Paired(h, ds)
    <1>1. \A x : Among(ds, x) <=> Among(cs, x) BY DEF Among
    <1> QED BY <1>1, PairedIs

LEMMA CallIdIs ==
    ASSUME NEW c \in ToolCalls
    PROVE  CallId(c) \in Nat \X Nat
    BY DEF ToolCalls, CallId

LEMMA SaidIs ==
    ASSUME NEW cs \in Seq(ToolCalls)
    PROVE  /\ Said(cs) \in Seq(Messages) /\ Len(Said(cs)) = Len(cs)
           /\ \A i \in 1..Len(cs) : Said(cs)[i] = [kind |-> "call", id |-> CallId(cs[i])]
    <1>1. \A i \in 1..Len(cs) : CallId(cs[i]) \in Nat \X Nat
        <2>1. \A i \in 1..Len(cs) : cs[i] \in ToolCalls OBVIOUS
        <2> QED BY <2>1, CallIdIs
    <1>2. PICK t : t = [i \in 1..Len(cs) |-> [kind |-> "call", id |-> CallId(cs[i])]] OBVIOUS
    <1>3. t = Said(cs) BY <1>2 DEF Said
    <1>4. \A i \in 1..Len(cs) : t[i] \in Messages BY <1>1, <1>2 DEF Messages
    <1>5. t \in Seq(Messages) /\ Len(t) = Len(cs) BY <1>2, <1>4
    <1> QED BY <1>2, <1>3, <1>5

\* The first k of a sequence of calls, answered.
FirstReplies(cs, k) == [i \in 1..k |-> Reply(cs[i])]

LEMMA RepliesAre ==
    ASSUME NEW cs \in Seq(ToolCalls), NEW k \in 0..Len(cs)
    PROVE  /\ FirstReplies(cs, k) \in Seq(Messages) /\ Len(FirstReplies(cs, k)) = k
           /\ \A i \in 1..k : FirstReplies(cs, k)[i] = [kind |-> "result", id |-> CallId(cs[i])]
    <1>1. \A i \in 1..k : CallId(cs[i]) \in Nat \X Nat
        <2>1. \A i \in 1..k : cs[i] \in ToolCalls OBVIOUS
        <2> QED BY <2>1, CallIdIs
    <1>2. PICK t : t = [i \in 1..k |-> [kind |-> "result", id |-> CallId(cs[i])]] OBVIOUS
    <1>3. t = FirstReplies(cs, k) BY <1>2 DEF FirstReplies, Reply
    <1>4. \A i \in 1..k : t[i] \in Messages BY <1>1, <1>2 DEF Messages
    <1>5. t \in Seq(Messages) /\ Len(t) = k BY <1>2, <1>4
    <1> QED BY <1>2, <1>3, <1>5

LEMMA ReplyAppended ==
    ASSUME NEW cs \in Seq(ToolCalls), NEW k \in 0..Len(cs), k < Len(cs)
    PROVE  Append(FirstReplies(cs, k), Reply(cs[k + 1])) = FirstReplies(cs, k + 1)
    <1>1. PICK s, t : s = FirstReplies(cs, k) /\ t = FirstReplies(cs, k + 1) OBVIOUS
    <1>2. PICK m : m = [kind |-> "result", id |-> CallId(cs[k + 1])] OBVIOUS
    <1>3. s \in Seq(Messages) /\ Len(s) = k /\ t \in Seq(Messages) /\ Len(t) = k + 1
        BY <1>1, RepliesAre
    <1>4. t[k + 1] = m /\ \A i \in 1..k : t[i] = s[i]
        BY <1>1, <1>2 DEF FirstReplies, Reply
    <1>5. m \in Messages BY <1>3, <1>4
    <1>6. Append(s, m) \in Seq(Messages) /\ Len(Append(s, m)) = k + 1
          /\ \A i \in 1..k + 1 : Append(s, m)[i] = t[i]
        BY <1>3, <1>4, <1>5
    <1>7. Append(s, m) = t BY <1>3, <1>6
    <1> QED BY <1>1, <1>2, <1>7 DEF Reply

LEMMA RestAnswered ==
    ASSUME NEW cs \in Seq(ToolCalls), NEW k \in 0..Len(cs)
    PROVE  FirstReplies(cs, k) \o [i \in 1..(Len(cs) - k) |-> Reply(cs[k + i])]
             = FirstReplies(cs, Len(cs))
    <1>1. PICK n \in Nat : n = Len(cs) OBVIOUS
    <1>2. PICK s, t : s = FirstReplies(cs, k) /\ t = FirstReplies(cs, n) OBVIOUS
    <1>3. PICK r : r = [i \in 1..(n - k) |-> Reply(cs[k + i])] OBVIOUS
    <1>4. s \in Seq(Messages) /\ Len(s) = k /\ t \in Seq(Messages) /\ Len(t) = n
        BY <1>1, <1>2, RepliesAre
    <1>5. \A i \in 1..(n - k) : r[i] = t[k + i]
        BY <1>1, <1>2, <1>3 DEF FirstReplies
    <1>6. \A i \in 1..(n - k) : r[i] \in Messages BY <1>1, <1>4, <1>5
    <1>7. r \in Seq(Messages) /\ Len(r) = n - k BY <1>1, <1>3, <1>6
    <1>8. \A i \in 1..k : s[i] = t[i]
        <2>1. 1..k \subseteq 1..n BY <1>1
        <2> QED BY <1>2, <2>1 DEF FirstReplies
    <1>0. k \in Nat /\ k <= n BY <1>1
    <1>9. s \o r \in Seq(Messages) /\ Len(s \o r) = n
        <2>1. s \o r \in Seq(Messages) BY <1>4, <1>7
        <2>2. Len(s \o r) = Len(s) + Len(r)
            <3>1. \A x, y \in Seq(Messages) : Len(x \o y) = Len(x) + Len(y) OBVIOUS
            <3> QED BY ONLY <1>4, <1>7, <3>1
        <2>3. k + (n - k) = n BY <1>0, <1>1
        <2> QED BY <1>4, <1>7, <2>1, <2>2, <2>3
    <1>10. \A i \in 1..n : (s \o r)[i] = t[i]
        <2>1. TAKE i \in 1..n
        <2>2. CASE i <= k
            <3>1. i \in 1..k BY <1>0, <1>1, <2>1, <2>2
            <3>2. (s \o r)[i] = s[i] BY <1>0, <1>4, <1>7, <3>1
            <3> QED BY <1>8, <3>1, <3>2
        <2>3. CASE i > k
            <3>1. i - k \in 1..(n - k) /\ i = k + (i - k) BY <1>0, <1>1, <2>3
            <3>2. (s \o r)[i] = r[i - k] BY <1>1, <1>4, <1>7, <2>3
            <3> QED BY <1>5, <3>1, <3>2
        <2>4. i <= k \/ i > k BY <1>0, <1>1, <2>1
        <2> QED BY <2>2, <2>3, <2>4
    <1>11. s \o r = t
        <2>1. \A x, y \in Seq(Messages) :
                 Len(x) = Len(y) /\ (\A i \in 1..Len(x) : x[i] = y[i]) => x = y
            OBVIOUS
        <2> QED BY <1>4, <1>9, <1>10, <2>1
    <1> QED BY <1>1, <1>2, <1>3, <1>11

\* The two parts of a history that has been continued.
LEMMA Continued ==
    ASSUME NEW h \in Seq(Messages), NEW t \in Seq(Messages)
    PROVE  /\ h \o t \in Seq(Messages)
           /\ \A i \in DOMAIN h : i \in DOMAIN (h \o t) /\ (h \o t)[i] = h[i]
           /\ \A i \in DOMAIN t : /\ Len(h) + i \in DOMAIN (h \o t)
                                  /\ (h \o t)[Len(h) + i] = t[i]
           /\ \A i \in DOMAIN (h \o t) :
                i \in DOMAIN h \/ \E j \in DOMAIN t : i = Len(h) + j
    <1>1. h \o t \in Seq(Messages) /\ Len(h \o t) = Len(h) + Len(t) OBVIOUS
    <1>2. DOMAIN h = 1..Len(h) /\ DOMAIN t = 1..Len(t)
          /\ DOMAIN (h \o t) = 1..(Len(h) + Len(t))
        BY <1>1
    <1>3. Len(h) \in Nat /\ Len(t) \in Nat OBVIOUS
    <1>4. \A n, m \in Nat : \A i \in 1..(n + m) :
            i \in 1..n \/ \E j \in 1..m : i = n + j
        <2>1. SUFFICES ASSUME NEW n \in Nat, NEW m \in Nat, NEW i \in 1..(n + m), i \notin 1..n
                       PROVE  \E j \in 1..m : i = n + j
            OBVIOUS
        <2>2. i - n \in 1..m /\ i = n + (i - n) BY <2>1
        <2> QED BY <2>2
    <1>5. \A i \in DOMAIN h : i \in DOMAIN (h \o t) /\ (h \o t)[i] = h[i] BY <1>2, <1>3
    <1>6. \A i \in DOMAIN t : /\ Len(h) + i \in DOMAIN (h \o t)
                              /\ (h \o t)[Len(h) + i] = t[i]
        BY <1>2, <1>3
    <1>7. \A i \in DOMAIN (h \o t) : i \in DOMAIN h \/ \E j \in DOMAIN t : i = Len(h) + j
        <2>1. PICK n, m \in Nat : n = Len(h) /\ m = Len(t) BY <1>3
        <2>2. DOMAIN (h \o t) = 1..(n + m) /\ DOMAIN h = 1..n /\ DOMAIN t = 1..m BY <1>2, <2>1
        <2>3. \A i \in 1..(n + m) : i \in 1..n \/ \E j \in 1..m : i = n + j BY <1>4, <2>1
        <2> QED BY ONLY <2>1, <2>2, <2>3
    <1> QED BY <1>1, <1>5, <1>6, <1>7

\* A model that has answered all its calls asks for new ones.
LEMMA Asking ==
    ASSUME NEW h \in Seq(Messages), NEW cs \in Seq(ToolCalls), Paired(h, <<>>), Distinct(cs),
           \A i \in DOMAIN h : \A j \in DOMAIN cs : h[i].id # CallId(cs[j])
    PROVE  Paired(h \o Said(cs), cs)
    <1>1. PICK t : t = Said(cs) OBVIOUS
    <1>2. /\ t \in Seq(Messages) /\ DOMAIN t = DOMAIN cs
          /\ \A i \in DOMAIN t : t[i].kind = "call" /\ t[i].id = CallId(cs[i])
        <2>1. t \in Seq(Messages) /\ Len(t) = Len(cs)
              /\ \A i \in 1..Len(cs) : t[i] = [kind |-> "call", id |-> CallId(cs[i])]
            BY <1>1, SaidIs
        <2>2. DOMAIN t = 1..Len(cs) /\ DOMAIN cs = 1..Len(cs) BY <2>1
        <2> QED BY <2>1, <2>2
    <1>3. PICK g : g = h \o t OBVIOUS
    <1>4. PICK n : n = Len(h) OBVIOUS
    <1>5. /\ \A i \in DOMAIN h : i \in DOMAIN g /\ g[i] = h[i]
          /\ \A i \in DOMAIN t : n + i \in DOMAIN g /\ g[n + i] = t[i]
          /\ \A i \in DOMAIN g : i \in DOMAIN h \/ \E j \in DOMAIN t : i = n + j
        <2>1. /\ \A i \in DOMAIN h : i \in DOMAIN (h \o t) /\ (h \o t)[i] = h[i]
              /\ \A i \in DOMAIN t : /\ Len(h) + i \in DOMAIN (h \o t)
                                      /\ (h \o t)[Len(h) + i] = t[i]
              /\ \A i \in DOMAIN (h \o t) :
                    i \in DOMAIN h \/ \E j \in DOMAIN t : i = Len(h) + j
            BY <1>2, Continued
        <2> QED BY ONLY <1>3, <1>4, <2>1
    <1>6. /\ Once(h) /\ InOrder(h)
          /\ \A x : Among(<<>>, x) <=> (Asked(h, x) /\ ~Given(h, x))
        BY PairedIs
    <1>7. Once(g)
        <2>1. SUFFICES ASSUME NEW i \in DOMAIN g, NEW j \in DOMAIN g, g[i] = g[j] PROVE i = j
            BY DEF Once
        <2>2. CASE i \in DOMAIN h /\ j \in DOMAIN h BY <1>5, <1>6, <2>1, <2>2 DEF Once
        <2>3. CASE i \notin DOMAIN h \/ j \notin DOMAIN h
            <3>1. CASE \E k, l \in DOMAIN t : i = n + k /\ j = n + l
                <4>1. PICK k, l \in DOMAIN t : i = n + k /\ j = n + l BY <3>1
                <4>2. CallId(cs[k]) = CallId(cs[l]) BY <1>2, <1>5, <2>1, <4>1
                <4> QED BY <1>2, <4>1, <4>2 DEF Distinct
            <3>2. ASSUME NEW a \in DOMAIN h, NEW l \in DOMAIN t PROVE g[a] # g[n + l]
                <4>1. g[a] = h[a] /\ g[n + l] = t[l] BY <1>5
                <4>2. t[l].id = CallId(cs[l]) /\ l \in DOMAIN cs BY <1>2
                <4>3. h[a].id # t[l].id BY <4>2
                <4> QED BY <4>1, <4>3
            <3> QED BY <1>5, <2>1, <2>3, <3>1, <3>2
        <2> QED BY <2>2, <2>3
    <1>8. InOrder(g)
        <2>1. SUFFICES ASSUME NEW i \in DOMAIN g, g[i].kind = "result"
                       PROVE  \E j \in DOMAIN g : /\ g[j].kind = "call"
                                                  /\ j < i /\ g[j].id = g[i].id
            BY DEF InOrder
        <2>2. i \in DOMAIN h
            <3>1. \A j \in DOMAIN t : g[n + j].kind # "result" BY <1>2, <1>5
            <3> QED BY <1>5, <2>1, <3>1
        <2> QED BY <1>5, <1>6, <2>1, <2>2 DEF InOrder
    <1>9. \A x : Among(cs, x) => Asked(g, x) /\ ~Given(g, x)
        <2>1. SUFFICES ASSUME NEW k \in DOMAIN cs, NEW x, x = CallId(cs[k])
                       PROVE  Asked(g, x) /\ ~Given(g, x)
            BY DEF Among
        <2>2. Asked(g, x)
            <3>1. k \in DOMAIN t /\ t[k].kind = "call" /\ t[k].id = x BY <1>2, <2>1
            <3>2. n + k \in DOMAIN g /\ g[n + k] = t[k] BY <1>5, <3>1
            <3> QED BY <3>1, <3>2 DEF Asked
        <2>3. \A i \in DOMAIN g : g[i].kind = "result" => g[i].id # x
            <3>1. TAKE i \in DOMAIN g
            <3>2. CASE i \in DOMAIN h BY <1>5, <2>1, <3>2
            <3>3. CASE \E j \in DOMAIN t : i = n + j BY <1>2, <1>5, <3>3
            <3> QED BY <1>5, <3>2, <3>3
        <2> QED BY <2>2, <2>3 DEF Given
    <1>10. \A x : Asked(g, x) /\ ~Given(g, x) => Among(cs, x)
        <2>1. SUFFICES ASSUME NEW x, Asked(g, x), ~Given(g, x), ~Among(cs, x) PROVE FALSE
            OBVIOUS
        <2>2. PICK i \in DOMAIN g : g[i].kind = "call" /\ g[i].id = x BY <2>1 DEF Asked
        <2>3. i \in DOMAIN h
            <3>1. \A j \in DOMAIN t : g[n + j].id # x BY <1>2, <1>5, <2>1 DEF Among
            <3> QED BY <1>5, <2>2, <3>1
        <2>4. Asked(h, x) BY <1>5, <2>2, <2>3 DEF Asked
        <2>5. ~Given(h, x) BY <1>5, <2>1 DEF Given
        <2>6. Among(<<>>, x) BY <1>6, <2>4, <2>5
        <2> QED BY <2>6 DEF Among
    <1> QED BY <1>1, <1>3, <1>7, <1>8, <1>9, <1>10, PairedIs

LEMMA FirstAnswers ==
    ASSUME NEW cs \in Seq(ToolCalls), NEW k \in 0..Len(cs)
    PROVE  /\ FirstReplies(cs, k) \in Seq(Messages) /\ DOMAIN FirstReplies(cs, k) = 1..k
           /\ \A i \in 1..k : /\ FirstReplies(cs, k)[i].kind = "result"
                              /\ FirstReplies(cs, k)[i].id = CallId(cs[i])
    <1>1. PICK t : t = FirstReplies(cs, k) OBVIOUS
    <1>2. /\ t \in Seq(Messages) /\ Len(t) = k
          /\ \A i \in 1..k : t[i] = [kind |-> "result", id |-> CallId(cs[i])]
        BY <1>1, RepliesAre
    <1>3. DOMAIN t = 1..k BY <1>2
    <1> QED BY ONLY <1>1, <1>2, <1>3

LEMMA Rest ==
    ASSUME NEW cs \in Seq(ToolCalls), NEW k \in 0..Len(cs), NEW ds,
           ds = SubSeq(cs, k + 1, Len(cs))
    PROVE  /\ ds \in Seq(ToolCalls) /\ Len(ds) = Len(cs) - k
           /\ \A j \in DOMAIN ds : k + j \in DOMAIN cs /\ k < k + j /\ ds[j] = cs[k + j]
           /\ \A i \in DOMAIN cs : i > k => i - k \in DOMAIN ds /\ ds[i - k] = cs[i]
    <1>1. PICK n \in Nat : n = Len(cs) OBVIOUS
    <1>2. k \in Nat /\ k <= n BY <1>1
    <1>3. ds \in Seq(ToolCalls) /\ Len(ds) = n - k BY <1>1, <1>2
    <1>4. DOMAIN ds = 1..(n - k) /\ DOMAIN cs = 1..n BY <1>1, <1>3
    <1>5. \A j \in 1..(n - k) : ds[j] = cs[k + j] BY <1>1, <1>2
    <1>6. \A j \in DOMAIN ds : k + j \in DOMAIN cs /\ k < k + j /\ ds[j] = cs[k + j]
        <2>1. \A j \in 1..(n - k) : k + j \in 1..n /\ k < k + j BY <1>1, <1>2
        <2> QED BY <1>4, <1>5, <2>1
    <1>7. ASSUME NEW i \in DOMAIN cs, i > k PROVE i - k \in DOMAIN ds /\ ds[i - k] = cs[i]
        <2>1. i \in 1..n BY <1>4
        <2>2. i - k \in 1..(n - k) /\ k + (i - k) = i BY <1>1, <1>2, <1>7, <2>1
        <2> QED BY <1>4, <1>5, <2>2
    <1> QED BY <1>1, <1>3, <1>6, <1>7

\* Answering the first of the open calls leaves the others open.
LEMMA Answering ==
    ASSUME NEW h \in Seq(Messages), NEW cs \in Seq(ToolCalls), Paired(h, cs), Distinct(cs),
           NEW k \in 0..Len(cs)
    PROVE  Paired(h \o FirstReplies(cs, k), SubSeq(cs, k + 1, Len(cs)))
    <1>1. PICK t : t = FirstReplies(cs, k) OBVIOUS
    <1>2. /\ t \in Seq(Messages) /\ DOMAIN t = 1..k
          /\ \A i \in 1..k : t[i].kind = "result" /\ t[i].id = CallId(cs[i])
        BY <1>1, FirstAnswers
    <1>3. 1..k \subseteq DOMAIN cs
        <2>1. PICK n \in Nat : n = Len(cs) OBVIOUS
        <2>2. DOMAIN cs = 1..n BY <2>1
        <2> QED BY <2>1, <2>2
    <1>4. PICK g, n : g = h \o t /\ n = Len(h) OBVIOUS
    <1>5. /\ \A i \in DOMAIN h : i \in DOMAIN g /\ g[i] = h[i]
          /\ \A i \in DOMAIN t : n + i \in DOMAIN g /\ g[n + i] = t[i]
          /\ \A i \in DOMAIN g : i \in DOMAIN h \/ \E j \in DOMAIN t : i = n + j
        <2>1. /\ \A i \in DOMAIN h : i \in DOMAIN (h \o t) /\ (h \o t)[i] = h[i]
              /\ \A i \in DOMAIN t : /\ Len(h) + i \in DOMAIN (h \o t)
                                     /\ (h \o t)[Len(h) + i] = t[i]
              /\ \A i \in DOMAIN (h \o t) :
                   i \in DOMAIN h \/ \E j \in DOMAIN t : i = Len(h) + j
            BY <1>2, Continued
        <2> QED BY ONLY <1>4, <2>1
    <1>6. /\ Once(h) /\ InOrder(h)
          /\ \A x : Among(cs, x) <=> (Asked(h, x) /\ ~Given(h, x))
        BY PairedIs
    <1>7. \A i \in 1..k : Asked(h, t[i].id) /\ ~Given(h, t[i].id)
        BY <1>2, <1>3, <1>6 DEF Among
    <1>8. Once(g)
        <2>1. SUFFICES ASSUME NEW i \in DOMAIN g, NEW j \in DOMAIN g, g[i] = g[j] PROVE i = j
            BY DEF Once
        <2>2. CASE i \in DOMAIN h /\ j \in DOMAIN h BY <1>5, <1>6, <2>1, <2>2 DEF Once
        <2>3. CASE \E l, m \in DOMAIN t : i = n + l /\ j = n + m
            <3>1. PICK l, m \in DOMAIN t : i = n + l /\ j = n + m BY <2>3
            <3>2. t[l] = t[m] BY <1>5, <2>1, <3>1
            <3>3. CallId(cs[l]) = CallId(cs[m]) BY <1>2, <3>2
            <3>4. l \in DOMAIN cs /\ m \in DOMAIN cs BY <1>2, <1>3
            <3>5. l = m BY <3>3, <3>4 DEF Distinct
            <3> QED BY <3>1, <3>5
        <2>4. ASSUME NEW a \in DOMAIN h, NEW l \in DOMAIN t PROVE g[a] # g[n + l]
            <3>1. g[a] = h[a] /\ g[n + l] = t[l] BY <1>5
            <3>2. t[l].kind = "result" /\ ~Given(h, t[l].id) BY <1>2, <1>7
            <3> QED BY <3>1, <3>2 DEF Given
        <2> QED BY <1>5, <2>1, <2>2, <2>3, <2>4
    <1>9. InOrder(g)
        <2>1. SUFFICES ASSUME NEW i \in DOMAIN g, g[i].kind = "result"
                       PROVE  \E j \in DOMAIN g : /\ g[j].kind = "call"
                                                  /\ j < i /\ g[j].id = g[i].id
            BY DEF InOrder
        <2>2. CASE i \in DOMAIN h BY <1>5, <1>6, <2>1, <2>2 DEF InOrder
        <2>3. CASE \E l \in DOMAIN t : i = n + l
            <3>1. PICK l \in DOMAIN t : i = n + l BY <2>3
            <3>2. PICK j \in DOMAIN h : h[j].kind = "call" /\ h[j].id = t[l].id
                BY <1>2, <1>7 DEF Asked
            <3>3. j < n + l
                <4>1. n \in Nat /\ j \in 1..n BY <1>4
                <4>2. l \in Nat /\ l > 0 BY <1>2
                <4> QED BY <4>1, <4>2
            <3> QED BY <1>5, <3>1, <3>2, <3>3
        <2> QED BY <1>5, <2>2, <2>3
    <1>10. PICK ds : ds = SubSeq(cs, k + 1, Len(cs)) OBVIOUS
    <1>11. /\ \A j \in DOMAIN ds : k + j \in DOMAIN cs /\ k < k + j /\ ds[j] = cs[k + j]
           /\ \A i \in DOMAIN cs : i > k => \E j \in DOMAIN ds : ds[j] = cs[i]
        <2>1. \A j \in DOMAIN ds : k + j \in DOMAIN cs /\ k < k + j /\ ds[j] = cs[k + j]
            BY <1>10, Rest
        <2>2. \A i \in DOMAIN cs : i > k => i - k \in DOMAIN ds /\ ds[i - k] = cs[i]
            BY <1>10, Rest
        <2> QED BY <2>1, <2>2
    <1>12. \A x : Asked(g, x) <=> Asked(h, x)
        <2>1. ASSUME NEW x, Asked(g, x) PROVE Asked(h, x)
            <3>1. PICK i \in DOMAIN g : g[i].kind = "call" /\ g[i].id = x BY <2>1 DEF Asked
            <3>2. i \in DOMAIN h
                <4>1. \A l \in DOMAIN t : g[n + l].kind # "call" BY <1>2, <1>5
                <4> QED BY <1>5, <3>1, <4>1
            <3> QED BY <1>5, <3>1, <3>2 DEF Asked
        <2>2. ASSUME NEW x, Asked(h, x) PROVE Asked(g, x) BY <1>5, <2>2 DEF Asked
        <2> QED BY <2>1, <2>2
    <1>13. \A x : Given(g, x) <=> Given(h, x) \/ \E i \in 1..k : x = CallId(cs[i])
        <2>1. ASSUME NEW x, Given(g, x) PROVE Given(h, x) \/ \E i \in 1..k : x = CallId(cs[i])
            <3>1. PICK i \in DOMAIN g : g[i].kind = "result" /\ g[i].id = x BY <2>1 DEF Given
            <3>2. CASE i \in DOMAIN h BY <1>5, <3>1, <3>2 DEF Given
            <3>3. CASE \E l \in DOMAIN t : i = n + l BY <1>2, <1>5, <3>1, <3>3
            <3> QED BY <1>5, <3>2, <3>3
        <2>2. ASSUME NEW x, Given(h, x) PROVE Given(g, x) BY <1>5, <2>2 DEF Given
        <2>3. ASSUME NEW i \in 1..k PROVE Given(g, CallId(cs[i]))
            <3>1. n + i \in DOMAIN g /\ g[n + i] = t[i] BY <1>2, <1>5
            <3>2. t[i].kind = "result" /\ t[i].id = CallId(cs[i]) BY <1>2
            <3> QED BY <3>1, <3>2 DEF Given
        <2> QED BY <2>1, <2>2, <2>3
    <1>14. ASSUME NEW x, Among(ds, x) PROVE Asked(g, x) /\ ~Given(g, x)
        <2>1. PICK j \in DOMAIN ds : x = CallId(ds[j]) BY <1>14 DEF Among
        <2>2. k + j \in DOMAIN cs /\ k < k + j /\ x = CallId(cs[k + j]) BY <1>11, <2>1
        <2>3. Asked(h, x) /\ ~Given(h, x) BY <1>6, <2>2 DEF Among
        <2>4. \A i \in 1..k : x # CallId(cs[i])
            <3>1. TAKE i \in 1..k
            <3>2. i # k + j BY <2>2, <3>1
            <3> QED BY <1>3, <2>2, <3>1, <3>2 DEF Distinct
        <2> QED BY <1>12, <1>13, <2>3, <2>4
    <1>15. ASSUME NEW x, Asked(g, x), ~Given(g, x) PROVE Among(ds, x)
        <2>1. Asked(h, x) /\ ~Given(h, x) /\ ~\E i \in 1..k : x = CallId(cs[i])
            BY <1>12, <1>13, <1>15
        <2>2. PICK i \in DOMAIN cs : x = CallId(cs[i]) BY <1>6, <2>1 DEF Among
        <2>3. i > k
            <3>1. i \in Nat /\ i >= 1 OBVIOUS
            <3>2. i \notin 1..k BY <2>1, <2>2
            <3> QED BY <3>1, <3>2
        <2>4. \E j \in DOMAIN ds : ds[j] = cs[i] BY <1>11, <2>3
        <2> QED BY <2>2, <2>4 DEF Among
    <1>16. \A x : Among(ds, x) <=> (Asked(g, x) /\ ~Given(g, x)) BY <1>14, <1>15
    <1>17. Paired(g, ds) BY <1>8, <1>9, <1>16, PairedIs
    <1> QED BY <1>1, <1>4, <1>10, <1>17

LEMMA DistinctRest ==
    ASSUME NEW cs \in Seq(ToolCalls), Distinct(cs), NEW k \in 0..Len(cs), NEW ds,
           ds = SubSeq(cs, k + 1, Len(cs))
    PROVE  Distinct(ds)
    <1>1. \A j \in DOMAIN ds : k + j \in DOMAIN cs /\ ds[j] = cs[k + j] BY Rest
    <1>2. \A i, j \in DOMAIN ds : CallId(ds[i]) = CallId(ds[j]) => k + i = k + j
        BY <1>1 DEF Distinct
    <1>3. ds \in Seq(ToolCalls) BY Rest
    <1>4. \A i, j \in DOMAIN ds : k + i = k + j => i = j BY <1>3
    <1> QED BY <1>2, <1>4 DEF Distinct

-----------------------------------------------------------------------------
(***************************************************************************)
(* Effects are only those of recorded calls.                               *)
(***************************************************************************)

LEMMA LayoutFixed ==
    ASSUME [TurnsNext]_turns
    PROVE  layout' = layout
    <1>1. CASE Prepare
        BY <1>1 DEF Prepare, BeginContext, Produce, PublishProduct, KeepProduct, OpenWindow,
                    ClaimSelection, SelectWindow, PublishWindow, PrepareWindow, FixWindow,
                    SavePreparation, CommitContext
    <1>2. CASE Ask
        BY <1>2 DEF Ask, BeginModel, BeginPlain, RecordRequest, Generate, SealCalls, CommitModel
    <1>3. CASE RunCalls
        BY <1>3 DEF RunCalls, BeginTools, DenyCall, ToolCall, PatchCall, RouteCall, RouteWaits,
                    CommitTools
    <1>4. CASE Outsiders
        BY <1>4 DEF Outsiders, Drop, Stop, Resume, EditFile, PatchByOther, RewriteCalls,
                    QueueSelection
    <1> QED BY <1>1, <1>2, <1>3, <1>4 DEF TurnsNext, turns

LEMMA SealedStep ==
    ASSUME Shaped, OnlySealedCallsRun, [TurnsNext]_turns
    PROVE  OnlySealedCallsRun'
    <1>0. layout' = layout BY LayoutFixed
    <1>1. CASE ran' = ran /\ rec'.sealed = rec.sealed
        BY <1>0, <1>1 DEF OnlySealedCallsRun, Sealed, NeedsInvocation
    <1>2. ASSUME ran' = ran \cup {Current}, rec' = rec,
                 layout.v2 \/ Current.provenance \/ NeedsInvocation(Current) => Sealed(Current)
          PROVE  OnlySealedCallsRun'
        <2>1. PICK c : c = Current OBVIOUS
        <2> QED BY <1>0, <1>2, <2>1 DEF OnlySealedCallsRun, Sealed, NeedsInvocation
    <1>3. CASE SealCalls
        <2>1. PICK t : t = AddRow(rec.sealed, at.inv, at.calls) OBVIOUS
        <2>2. rec'.sealed \in {t, rec.sealed} /\ ran' = ran
            <3>1. CASE layout.snapshots BY <1>3, <2>1, <3>1 DEF Shaped, SealCalls, ClaimRecord
            <3>2. CASE ~layout.snapshots BY <1>3, <3>2 DEF SealCalls
            <3> QED BY <3>1, <3>2
        <2>3. \A i \in DOMAIN rec.sealed : i \in DOMAIN t /\ t[i] = rec.sealed[i]
            BY <2>1 DEF AddRow
        <2> QED BY <1>0, <1>1, <2>2, <2>3 DEF OnlySealedCallsRun, Sealed, NeedsInvocation
    <1>4. CASE PatchCall \/ RouteCall \/ RouteWaits
        <2>1. AuthorizeCall(Current) /\ ran' = ran \cup {Current} /\ rec' = rec
            BY <1>4 DEF PatchCall, RouteCall, RouteWaits
        <2>2. Sealed(Current) BY <2>1 DEF AuthorizeCall, Sealed
        <2> QED BY <1>2, <2>1, <2>2
    <1>10. CASE ToolCall
        <2>1. Permitted(Current) /\ ran' = ran \cup {Current} /\ rec' = rec
            BY <1>10 DEF ToolCall
        <2>2. layout.v2 \/ Current.provenance \/ NeedsInvocation(Current) => Sealed(Current)
            BY <2>1 DEF Permitted, Exempt, AuthorizeCall, Sealed
        <2> QED BY <1>2, <2>1, <2>2
    <1>5. CASE Prepare
        <2>1. ran' = ran
            BY <1>5 DEF Prepare, BeginContext, Produce, PublishProduct, KeepProduct, OpenWindow,
                        ClaimSelection, SelectWindow, PublishWindow, PrepareWindow, FixWindow,
                        SavePreparation, CommitContext
        <2>2. CASE BeginContext \/ PublishProduct \/ PublishWindow \/ PrepareWindow \/ CommitContext
            BY <1>1, <2>1, <2>2
               DEF BeginContext, PublishProduct, PublishWindow, PrepareWindow, CommitContext
        <2>3. CASE Produce BY <1>1, <2>1, <2>3 DEF Shaped, Produce
        <2>4. CASE KeepProduct BY <1>1, <2>1, <2>4 DEF Shaped, KeepProduct
        <2>5. CASE OpenWindow BY <1>1, <2>1, <2>5 DEF Shaped, OpenWindow
        <2>6. CASE ClaimSelection BY <1>1, <2>1, <2>6 DEF Shaped, ClaimSelection, Claimed
        <2>7. CASE SelectWindow
            <3>1. rec'.sealed = rec.sealed
                <4>1. CASE rec.choice[Occurrence] # None BY <2>7, <4>1 DEF SelectWindow
                <4>2. CASE rec.choice[Occurrence] = None BY <2>7, <4>2 DEF Shaped, SelectWindow
                <4> QED BY <4>1, <4>2
            <3> QED BY <1>1, <2>1, <3>1
        <2>8. CASE FixWindow BY <1>1, <2>1, <2>8 DEF Shaped, FixWindow
        <2>9. CASE SavePreparation BY <1>1, <2>1, <2>9 DEF Shaped, SavePreparation
        <2> QED BY <1>5, <2>2, <2>3, <2>4, <2>5, <2>6, <2>7, <2>8, <2>9 DEF Prepare
    <1>6. CASE BeginModel \/ BeginPlain \/ RecordRequest \/ Generate \/ CommitModel
        <2>1. CASE RecordRequest BY <1>1, <2>1 DEF Shaped, RecordRequest
        <2>2. CASE ~RecordRequest BY <1>1, <1>6, <2>2 DEF BeginModel, BeginPlain, Generate, CommitModel
        <2> QED BY <2>1, <2>2
    <1>7. CASE BeginTools \/ DenyCall \/ CommitTools
        BY <1>1, <1>7 DEF BeginTools, DenyCall, CommitTools
    <1>8. CASE Drop \/ Stop \/ Resume \/ EditFile \/ PatchByOther \/ RewriteCalls
               \/ UNCHANGED turns
        BY <1>1, <1>8 DEF Drop, Stop, Resume, EditFile, PatchByOther, RewriteCalls, turns
    <1>9. CASE \E c \in Commands : QueueSelection(c)
        BY <1>1, <1>9 DEF Shaped, QueueSelection
    <1> QED BY <1>3, <1>4, <1>5, <1>6, <1>7, <1>8, <1>9, <1>10
            DEF TurnsNext, Ask, RunCalls, Outsiders

-----------------------------------------------------------------------------
(***************************************************************************)
(* The calls of a model and their answers.                                 *)
(***************************************************************************)

Turning == Numbered /\ PlacedAt /\ Spoken /\ Working

\* Within a node, or out of it without a commit.
StaysPut ==
    /\ state' = state /\ tries' = tries
    /\ \/ at' = Resting
       \/ at' = at
       \/ at.node = "context" /\ at'.node = "context" /\ at'.inv = at.inv
       \/ at.node = "context" /\ at'.node = "model" /\ at'.inv = at.inv /\ at'.pc = "request"
       \/ at.node = "model" /\ at'.node = "model" /\ at'.inv = at.inv /\ at'.pc = "generate"

LEMMA SpokenSame ==
    ASSUME Spoken, state' = state
    PROVE  Spoken'
    BY DEF Spoken, CallsPaired

LEMMA StaysPutKeeps ==
    ASSUME Turning, StaysPut
    PROVE  Turning'
    <1>1. Numbered' BY DEF Turning, Numbered, StaysPut, Resting
    <1>2. PlacedAt' BY DEF Turning, PlacedAt, StaysPut, Resting
    <1>3. Spoken' BY SpokenSame DEF Turning, StaysPut
    <1>4. Working' BY DEF Turning, Working, StaysPut, Resting
    <1> QED BY <1>1, <1>2, <1>3, <1>4 DEF Turning

LEMMA AtRest ==
    ASSUME at' = Resting
    PROVE  PlacedAt' /\ Working'
    BY DEF PlacedAt, Working, Resting

LEMMA BeginContextTurns ==
    ASSUME Turning, BeginContext
    PROVE  Turning'
    <1>1. at'.node = "context" /\ at'.inv = tries + 1 /\ tries' = tries + 1 /\ state' = state
          /\ state.node = "context"
        BY DEF BeginContext, Resting
    <1>2. Numbered' BY <1>1 DEF Turning, Numbered
    <1>3. PlacedAt' /\ Working' BY <1>1 DEF PlacedAt, Working
    <1> QED BY <1>1, <1>2, <1>3, SpokenSame DEF Turning

LEMMA CommitContextTurns ==
    ASSUME Shaped, Turning, CommitContext
    PROVE  Turning'
    <1>1. /\ state'.node = "model" /\ state'.prepared = at.inv
          /\ state'.consumed = state.consumed /\ state'.calls = state.calls
          /\ state'.history = state.history /\ tries' = tries /\ at' = Resting
          /\ at.node = "context" /\ state.node = "context"
        BY DEF Shaped, CommitContext, Ended, Placed, Turning, PlacedAt
    <1>2. Numbered' BY <1>1 DEF Turning, Numbered, Resting
    <1>3. Spoken' BY <1>1 DEF Turning, Spoken, CallsPaired
    <1> QED BY <1>1, <1>2, <1>3, AtRest DEF Turning

LEMMA BeginModelTurns ==
    ASSUME Turning, BeginModel
    PROVE  Turning'
    <1>1. /\ at'.node = "model" /\ at'.pc = "request" /\ at'.inv = state.prepared
          /\ tries' = tries + 1 /\ state' = state /\ state.node = "model"
        BY DEF BeginModel, Resting
    <1>2. Numbered' BY <1>1 DEF Turning, Numbered
    <1>3. PlacedAt' /\ Working' BY <1>1 DEF PlacedAt, Working
    <1> QED BY <1>1, <1>2, <1>3, SpokenSame DEF Turning

LEMMA BeginPlainTurns ==
    ASSUME Turning, BeginPlain
    PROVE  Turning'
    <1>1. /\ at'.node = "model" /\ at'.pc = "request" /\ at'.inv = tries + 1
          /\ tries' = tries + 1 /\ state' = state /\ state.node = "context"
        BY DEF BeginPlain, Resting
    <1>2. Numbered' BY <1>1 DEF Turning, Numbered
    <1>3. PlacedAt' /\ Working' BY <1>1 DEF PlacedAt, Working
    <1> QED BY <1>1, <1>2, <1>3, SpokenSame DEF Turning

LEMMA GenerateTurns ==
    ASSUME layout \in Layouts, Shaped, Turning, Generate
    PROVE  Turning'
    <1>1. CASE at' = Resting BY <1>1, StaysPutKeeps DEF Generate, StaysPut
    <1>2. CASE at' # Resting
        <2>11. PICK made \in BOOLEAN : made = layout.snapshots BY TurnsAssumption
        <2>1. PICK names \in Answers :
                at' = [at EXCEPT !.pc = "seal", !.calls =
                        [i \in DOMAIN names |-> [inv |-> at.inv, index |-> i,
                                                 name |-> names[i], args |-> "asked",
                                                 provenance |-> made]]]
            BY <1>2, <2>11 DEF Generate, Ended
        <2>2. PICK cs : cs = [i \in DOMAIN names |-> [inv |-> at.inv, index |-> i,
                                                 name |-> names[i], args |-> "asked",
                                                 provenance |-> made]]
            OBVIOUS
        <2>3. /\ at'.calls = cs /\ at'.inv = at.inv /\ at'.node = "model"
              /\ at.node = "model" /\ state' = state /\ tries' = tries
            BY <2>1, <2>2 DEF Shaped, Generate, Placed
        <2>4. names \in Seq(STRING) /\ at.inv \in Nat
            BY <2>3, TurnsAssumption DEF Turning, Numbered
        <2>5. cs = [i \in 1..Len(names) |-> [inv |-> at.inv, index |-> i,
                                             name |-> names[i], args |-> "asked",
                                             provenance |-> made]]
            BY <2>2, <2>4
        <2>6. \A i \in 1..Len(names) : cs[i] \in ToolCalls
            BY <2>4, <2>5 DEF ToolCalls
        <2>7. cs \in Seq(ToolCalls) BY <2>4, <2>5, <2>6
        <2>8. \A i \in DOMAIN cs : CallId(cs[i]) = <<at.inv, i>> BY <2>2 DEF CallId
        <2>9. Working' BY <2>3, <2>7, <2>8 DEF Working
        <2>10. Numbered' /\ PlacedAt' BY <2>3 DEF Turning, Numbered, PlacedAt
        <2> QED BY <2>3, <2>9, <2>10, SpokenSame DEF Turning
    <1> QED BY <1>1, <1>2

LEMMA SealTurns ==
    ASSUME Shaped, Turning, SealCalls
    PROVE  Turning'
    <1>1. /\ at'.calls = at.calls /\ at'.inv = at.inv /\ at'.node = "model"
          /\ at.node = "model" /\ at.pc = "seal" /\ state' = state /\ tries' = tries
        BY DEF Shaped, SealCalls, Placed, Go
    <1>2. Working' BY <1>1 DEF Turning, Working
    <1>3. Numbered' /\ PlacedAt' BY <1>1 DEF Turning, Numbered, PlacedAt
    <1> QED BY <1>1, <1>2, <1>3, SpokenSame DEF Turning

LEMMA CommitModelTurns ==
    ASSUME Shaped, Turning, CommitModel
    PROVE  Turning'
    <1>1. PICK cs, h : cs = at.calls /\ h = state.history OBVIOUS
    <1>2. /\ state'.node = IF cs # <<>> THEN "tools" ELSE "context"
          /\ state'.calls = cs /\ state'.consumed = at.inv /\ state'.prepared = state.prepared
          /\ state'.history = h \o Said(cs)
          /\ at' = Resting /\ tries' = tries /\ at.node = "model" /\ at.pc = "commit"
        BY <1>1 DEF Shaped, CommitModel, Placed, Ended
    <1>3. /\ at.inv \in Nat /\ state.consumed < at.inv /\ at.inv <= tries
          /\ state.consumed \in Nat
        BY <1>2 DEF Turning, Numbered
    <1>4. cs \in Seq(ToolCalls) /\ \A i \in DOMAIN cs : CallId(cs[i]) = <<at.inv, i>>
        BY <1>1, <1>2 DEF Turning, Working
    <1>5. /\ state.calls = <<>> /\ h \in Seq(Messages) /\ Paired(h, <<>>)
          /\ \A i \in DOMAIN h : h[i].id[1] <= state.consumed
        BY <1>1, <1>2 DEF Turning, PlacedAt, Spoken, CallsPaired
    <1>6. Distinct(cs) BY <1>4 DEF Distinct
    <1>7. \A i \in DOMAIN h : \A j \in DOMAIN cs : h[i].id # CallId(cs[j])
        <2>1. SUFFICES ASSUME NEW i \in DOMAIN h, NEW j \in DOMAIN cs
                       PROVE  h[i].id # CallId(cs[j])
            OBVIOUS
        <2>2. h[i].id[1] \in Nat
            <3>1. h[i] \in Messages BY <1>5
            <3> QED BY <3>1 DEF Messages
        <2>3. h[i].id[1] # at.inv BY <1>3, <1>5, <2>2
        <2>4. CallId(cs[j])[1] = at.inv BY <1>4
        <2> QED BY <2>3, <2>4
    <1>8. Paired(h \o Said(cs), cs) BY <1>4, <1>5, <1>6, <1>7, Asking
    <1>9. Said(cs) \in Seq(Messages) /\ h \o Said(cs) \in Seq(Messages)
        <2>1. Said(cs) \in Seq(Messages) BY <1>4, SaidIs
        <2> QED BY <1>5, <2>1
    <1>10. \A i \in DOMAIN (h \o Said(cs)) : (h \o Said(cs))[i].id[1] <= at.inv
        <2>1. PICK t : t = Said(cs) OBVIOUS
        <2>2. t \in Seq(Messages) /\ DOMAIN t = DOMAIN cs
              /\ \A i \in DOMAIN t : t[i].id = CallId(cs[i])
            BY <2>1, <1>9 DEF Said
        <2>3. ASSUME NEW i \in DOMAIN h PROVE h[i].id[1] <= at.inv
            <3>1. h[i] \in Messages BY <1>5
            <3>2. h[i].id[1] \in Nat BY <3>1 DEF Messages
            <3> QED BY <1>3, <1>5, <3>2
        <2>4. \A i \in DOMAIN t : t[i].id[1] <= at.inv BY <1>3, <1>4, <2>2
        <2>5. /\ \A i \in DOMAIN h : (h \o t)[i] = h[i]
              /\ \A i \in DOMAIN t : (h \o t)[Len(h) + i] = t[i]
            BY <1>5, <2>2, Continued
        <2>6. \A i \in DOMAIN (h \o t) : i \in DOMAIN h \/ \E j \in DOMAIN t : i = Len(h) + j
            BY <1>5, <2>2, Continued
        <2>7. \A i \in DOMAIN (h \o t) : (h \o t)[i].id[1] <= at.inv
            BY <2>3, <2>4, <2>5, <2>6
        <2> QED BY ONLY <2>1, <2>7
    <1>11. Spoken'
        <2>1. \A i \in DOMAIN state'.history : state'.history[i].id[1] <= state'.consumed
            BY <1>2, <1>10
        <2>2. state'.calls # <<>> <=> state'.node = "tools" BY <1>2
        <2> QED BY <1>2, <1>4, <1>6, <1>8, <1>9, <2>1, <2>2 DEF Spoken, CallsPaired
    <1>12. Numbered' BY <1>2, <1>3 DEF Turning, Numbered, Resting
    <1> QED BY <1>2, <1>11, <1>12, AtRest DEF Turning

LEMMA BeginToolsTurns ==
    ASSUME Turning, BeginTools
    PROVE  Turning'
    <1>1. /\ at'.node = "tools" /\ at'.calls = state.calls /\ at'.done = 0
          /\ at'.replies = <<>> /\ at'.over = FALSE
          /\ tries' = tries + 1 /\ state' = state /\ state.node = "tools"
        BY DEF BeginTools, Resting
    <1>2. Numbered' BY <1>1 DEF Turning, Numbered
    <1>3. PlacedAt' BY <1>1 DEF PlacedAt
    <1>4. state.calls \in Seq(ToolCalls) BY DEF Turning, Spoken
    <1>5. PICK cs : cs = state.calls OBVIOUS
    <1>6. <<>> = [i \in 1..0 |-> Reply(cs[i])] OBVIOUS
    <1>7. Working' BY <1>1, <1>4, <1>5, <1>6 DEF Working
    <1> QED BY <1>1, <1>2, <1>3, <1>7, SpokenSame DEF Turning

\* What the tool node has before it.
LEMMA CallsAtHand ==
    ASSUME Turning, at.node = "tools"
    PROVE  /\ at.calls = state.calls /\ state.node = "tools"
           /\ at.calls \in Seq(ToolCalls) /\ at.calls # <<>> /\ Distinct(at.calls)
           /\ at.done \in 0..Len(at.calls) /\ at.replies = FirstReplies(at.calls, at.done)
           /\ at.over => at.done = Len(at.calls)
           /\ state.history \in Seq(Messages) /\ Paired(state.history, at.calls)
    BY DEF Turning, PlacedAt, Spoken, CallsPaired, Working, FirstReplies

LEMMA OneMore ==
    ASSUME Turning, CallNext
    PROVE  at.done < Len(at.calls)
    <1>1. /\ at.calls \in Seq(ToolCalls) /\ at.calls # <<>> /\ at.done \in 0..Len(at.calls)
          /\ at.done < Last
        BY CallsAtHand DEF CallNext, Placed
    <1>2. Len(at.calls) >= 1 BY <1>1
    <1> QED BY <1>1, <1>2 DEF Last

LEMMA AnsweredTurns ==
    ASSUME Shaped, Turning, CallNext, Answered, state' = state, tries' = tries
    PROVE  Turning'
    <1>1. PICK cs, k : cs = at.calls /\ k = at.done OBVIOUS
    <1>2. /\ cs \in Seq(ToolCalls) /\ k \in 0..Len(cs) /\ k < Len(cs)
          /\ at.replies = FirstReplies(cs, k) /\ cs = state.calls /\ state.node = "tools"
          /\ at.node = "tools" /\ ~at.over
        BY <1>1, CallsAtHand, OneMore DEF CallNext, Placed
    <1>3. /\ at'.node = "tools" /\ at'.calls = cs /\ at'.done = k + 1 /\ at'.over = at.over
          /\ at'.replies = Append(FirstReplies(cs, k), Reply(cs[k + 1]))
        BY <1>1, <1>2 DEF Shaped, Answered, Current
    <1>4. at'.replies = FirstReplies(cs, k + 1) BY <1>2, <1>3, ReplyAppended
    <1>5. k + 1 \in 0..Len(cs) BY <1>2
    <1>6. Working' BY <1>2, <1>3, <1>4, <1>5 DEF Working, FirstReplies
    <1>7. Numbered' BY <1>3 DEF Turning, Numbered
    <1>8. PlacedAt' BY <1>2, <1>3 DEF PlacedAt
    <1> QED BY <1>6, <1>7, <1>8, SpokenSame DEF Turning

LEMMA TakenOver ==
    ASSUME Shaped, Turning, CallNext, state' = state, tries' = tries,
           at' = [at EXCEPT !.done = Len(at.calls), !.over = TRUE, !.replies =
                   @ \o [i \in 1..(Len(at.calls) - at.done) |-> Reply(at.calls[at.done + i])]]
    PROVE  Turning'
    <1>1. PICK cs, k : cs = at.calls /\ k = at.done OBVIOUS
    <1>2. /\ cs \in Seq(ToolCalls) /\ k \in 0..Len(cs)
          /\ at.replies = FirstReplies(cs, k) /\ cs = state.calls /\ state.node = "tools"
          /\ at.node = "tools"
        BY <1>1, CallsAtHand DEF CallNext, Placed
    <1>3. /\ at'.node = "tools" /\ at'.calls = cs /\ at'.done = Len(cs)
          /\ at'.replies = FirstReplies(cs, k) \o [i \in 1..(Len(cs) - k) |-> Reply(cs[k + i])]
        BY <1>1, <1>2 DEF Shaped
    <1>4. at'.replies = FirstReplies(cs, Len(cs)) BY <1>2, <1>3, RestAnswered
    <1>5. Len(cs) \in 0..Len(cs) BY <1>2
    <1>6. Working' BY <1>2, <1>3, <1>4, <1>5 DEF Working, FirstReplies
    <1>7. Numbered' BY <1>3 DEF Turning, Numbered
    <1>8. PlacedAt' BY <1>2, <1>3 DEF PlacedAt
    <1> QED BY <1>6, <1>7, <1>8, SpokenSame DEF Turning

\* A commit of the tool node: the first k calls are answered, or all of them.
LEMMA AnsweredCommit ==
    ASSUME Turning, at.node = "tools", at' = Resting, tries' = tries,
           state'.prepared = state.prepared, state'.consumed = state.consumed,
           state'.node # "model", NEW k \in 0..Len(at.calls),
           state'.history = state.history \o FirstReplies(at.calls, k),
           state'.calls = SubSeq(at.calls, k + 1, Len(at.calls)),
           (k < Len(at.calls)) <=> (state'.node = "tools")
    PROVE  Turning'
    <1>1. PICK cs, h, ds : /\ cs = at.calls /\ h = state.history
                           /\ ds = SubSeq(cs, k + 1, Len(cs))
        OBVIOUS
    <1>2. PICK t : t = FirstReplies(cs, k) OBVIOUS
    <1>3. /\ cs \in Seq(ToolCalls) /\ Distinct(cs) /\ k \in 0..Len(cs)
          /\ h \in Seq(Messages) /\ Paired(h, cs)
          /\ \A i \in DOMAIN h : h[i].id[1] <= state.consumed
        BY <1>1, CallsAtHand DEF Turning, Spoken
    <1>4. /\ t \in Seq(Messages) /\ DOMAIN t = 1..k
          /\ \A i \in 1..k : t[i].id = CallId(cs[i])
        <2>1. t \in Seq(Messages) /\ DOMAIN t = 1..k BY <1>2, <1>3, FirstAnswers
        <2>2. \A i \in 1..k : t[i].id = CallId(cs[i]) BY <1>2 DEF FirstReplies, Reply
        <2> QED BY <2>1, <2>2
    <1>5. ds \in Seq(ToolCalls) /\ Distinct(ds) /\ Len(ds) = Len(cs) - k
        BY <1>1, <1>3, Rest, DistinctRest
    <1>6. Paired(h \o t, ds) BY <1>1, <1>2, <1>3, Answering
    <1>7. \A i \in 1..k : t[i].id[1] <= state.consumed
        <2>1. TAKE i \in 1..k
        <2>2. i \in DOMAIN cs BY <1>3, <2>1
        <2>3. Asked(h, CallId(cs[i])) BY <1>3, <2>2, PairedIs DEF Among
        <2>4. PICK j \in DOMAIN h : h[j].id = CallId(cs[i]) BY <2>3 DEF Asked
        <2> QED BY <1>3, <1>4, <2>1, <2>4
    <1>8. PICK g : g = h \o t OBVIOUS
    <1>9. g \in Seq(Messages) BY <1>3, <1>4, <1>8
    <1>10. \A i \in DOMAIN g : g[i].id[1] <= state.consumed
        <2>1. /\ \A i \in DOMAIN h : (h \o t)[i] = h[i]
              /\ \A i \in DOMAIN t : (h \o t)[Len(h) + i] = t[i]
            BY <1>3, <1>4, Continued
        <2>2. \A i \in DOMAIN (h \o t) : i \in DOMAIN h \/ \E j \in DOMAIN t : i = Len(h) + j
            BY <1>3, <1>4, Continued
        <2>3. \A i \in DOMAIN (h \o t) : (h \o t)[i].id[1] <= state.consumed
            BY <1>3, <1>4, <1>7, <2>1, <2>2
        <2> QED BY ONLY <1>8, <2>3
    <1>11. state'.history = g /\ state'.calls = ds BY <1>1, <1>2, <1>8
    <1>12. ds # <<>> <=> state'.node = "tools"
        <2>1. ds # <<>> <=> Len(ds) # 0 BY <1>5
        <2>2. Len(cs) \in Nat /\ k \in Nat /\ k <= Len(cs) BY <1>3
        <2>3. Len(ds) # 0 <=> k < Len(cs) BY <1>5, <2>2
        <2> QED BY <1>1, <2>1, <2>3
    <1>13. Spoken'
        BY <1>5, <1>6, <1>8, <1>9, <1>10, <1>11, <1>12 DEF Spoken, CallsPaired
    <1>14. Numbered' BY DEF Turning, Numbered, Resting
    <1> QED BY <1>13, <1>14, AtRest DEF Turning

LEMMA RouteWaitsTurns ==
    ASSUME Shaped, Turning, RouteWaits
    PROVE  Turning'
    <1>1. PICK cs, k : cs = at.calls /\ k = at.done OBVIOUS
    <1>2. /\ cs \in Seq(ToolCalls) /\ k \in 0..Len(cs) /\ k < Len(cs)
          /\ at.replies = FirstReplies(cs, k) /\ cs = state.calls /\ state.node = "tools"
          /\ at.node = "tools"
        BY <1>1, CallsAtHand, OneMore DEF RouteWaits, CallNext, Placed
    <1>3. /\ state'.history = state.history \o FirstReplies(cs, k)
          /\ state'.calls = SubSeq(cs, k + 1, Len(cs))
          /\ state'.node = state.node /\ state'.prepared = state.prepared
          /\ state'.consumed = state.consumed /\ at' = Resting /\ tries' = tries
        BY <1>1, <1>2 DEF Shaped, RouteWaits, Ended
    <1> QED BY <1>1, <1>2, <1>3, AnsweredCommit

LEMMA CommitToolsTurns ==
    ASSUME Shaped, Turning, CommitTools
    PROVE  Turning'
    <1>1. PICK cs, k : cs = at.calls /\ k = at.done OBVIOUS
    <1>2. PICK n \in Nat : n = Len(cs)
        BY <1>1, CallsAtHand DEF CommitTools, Placed
    <1>3. /\ cs \in Seq(ToolCalls) /\ k \in 0..n /\ at.replies = FirstReplies(cs, k)
          /\ at.node = "tools" /\ (at.over => k = n)
        BY <1>1, <1>2, CallsAtHand DEF CommitTools, Placed
    <1>4. PICK left : left = IF cancelled \/ at.over THEN <<>>
                             ELSE SubSeq(at.calls, at.done + 1, Len(at.calls))
        OBVIOUS
    <1>5. /\ state'.node = IF at.over THEN "end" ELSE IF left # <<>> THEN "tools" ELSE "context"
          /\ state'.calls = left /\ state'.history = state.history \o Closed
          /\ state'.prepared = state.prepared /\ state'.consumed = state.consumed
          /\ at' = Resting /\ tries' = tries
        BY <1>4 DEF Shaped, CommitTools, Ended
    <1>6. SubSeq(cs, n + 1, n) = <<>> BY <1>2, <1>3
    <1>7. CASE cancelled \/ at.over
        <2>1. Closed = FirstReplies(cs, n)
            <3>1. CASE cancelled
                <4>1. Closed = FirstReplies(cs, k) \o [i \in 1..(n - k) |-> Reply(cs[k + i])]
                    BY <1>1, <1>2, <1>3, <3>1 DEF Closed
                <4> QED BY <1>2, <1>3, <4>1, RestAnswered
            <3>2. CASE ~cancelled BY <1>3, <1>7, <3>2 DEF Closed
            <3> QED BY <3>1, <3>2
        <2>2. left = SubSeq(cs, n + 1, n) BY <1>4, <1>6, <1>7
        <2>3. state'.node # "tools" /\ state'.node # "model" BY <1>4, <1>5, <1>7
        <2>4. n \in 0..n /\ ~(n < n) BY <1>2
        <2> QED BY <1>1, <1>2, <1>3, <1>5, <2>1, <2>2, <2>3, <2>4, AnsweredCommit
    <1>8. CASE ~cancelled /\ ~at.over
        <2>1. Closed = FirstReplies(cs, k) BY <1>3, <1>8 DEF Closed
        <2>2. left = SubSeq(cs, k + 1, n) BY <1>1, <1>2, <1>4, <1>8
        <2>3. left # <<>> <=> k < n
            <3>1. left \in Seq(ToolCalls) /\ Len(left) = n - k
                BY <1>2, <1>3, <2>2, Rest
            <3> QED BY <1>2, <1>3, <3>1
        <2>4. state'.node # "model" /\ (state'.node = "tools" <=> k < n)
            BY <1>5, <1>8, <2>3
        <2> QED BY <1>1, <1>2, <1>3, <1>5, <2>1, <2>2, <2>4, AnsweredCommit
    <1> QED BY <1>7, <1>8

LEMMA RewriteTurns ==
    ASSUME Shaped, Turning, RewriteCalls
    PROVE  Turning'
    <1>14. PICK prov \in {state.calls[1].provenance, FALSE} :
             state' = [state EXCEPT !.calls[1].args = "rewritten", !.calls[1].provenance = prov]
        BY DEF RewriteCalls
    <1>1. PICK cs, ds :
            /\ cs = state.calls
            /\ ds = [cs EXCEPT ![1].args = "rewritten", ![1].provenance = prov]
        OBVIOUS
    <1>2. /\ state'.node = state.node /\ state'.prepared = state.prepared
          /\ state'.consumed = state.consumed /\ state'.history = state.history
          /\ state'.calls = ds /\ tries' = tries /\ at' = Resting
          /\ state.node = "tools"
        BY <1>1, <1>14 DEF Shaped, RewriteCalls
    <1>3. cs \in Seq(ToolCalls) /\ Distinct(cs) /\ Paired(state.history, cs) /\ cs # <<>>
        BY <1>1, <1>2 DEF Turning, Spoken, CallsPaired
    <1>4. PICK c : c = [cs[1] EXCEPT !.args = "rewritten", !.provenance = prov] OBVIOUS
    <1>5. ds = [cs EXCEPT ![1] = c] BY <1>1, <1>4
    <1>6. 1 \in DOMAIN cs /\ cs[1] \in ToolCalls BY <1>3
    <1>7. c \in ToolCalls /\ CallId(c) = CallId(cs[1])
        <2>1. prov \in BOOLEAN BY <1>1, <1>6, <1>14 DEF ToolCalls
        <2> QED BY <1>4, <1>6, <2>1 DEF ToolCalls, CallId
    <1>8. DOMAIN ds = DOMAIN cs /\ \A i \in DOMAIN cs : CallId(ds[i]) = CallId(cs[i])
        BY <1>5, <1>6, <1>7
    <1>9. ds \in Seq(ToolCalls) /\ ds # <<>> BY <1>3, <1>5, <1>6, <1>7
    <1>10. Distinct(ds) BY <1>3, <1>8 DEF Distinct
    <1>11. Paired(state.history, ds) BY <1>3, <1>8, SamePaired
    <1>12. Spoken' BY <1>2, <1>9, <1>10, <1>11 DEF Turning, Spoken, CallsPaired
    <1>13. Numbered' BY <1>2 DEF Turning, Numbered, Resting
    <1> QED BY <1>2, <1>12, <1>13, AtRest DEF Turning

LEMMA TurningStep ==
    ASSUME layout \in Layouts, Shaped, Turning, [TurnsNext]_turns
    PROVE  Turning'
    <1>0. StaysPut => Turning' BY StaysPutKeeps
    <1>1. CASE Produce
        <2>1. StaysPut
            <3>1. CASE at.src \in DOMAIN rec.results
                BY <1>1, <3>1 DEF Shaped, StaysPut, Produce, Placed, Go
            <3>2. CASE ~(at.src \in DOMAIN rec.results)
                BY <1>1, <3>2 DEF Shaped, StaysPut, Produce, Placed, Go
            <3> QED BY <3>1, <3>2
        <2> QED BY <1>0, <2>1
    <1>2. CASE PublishProduct
        <2>1. at' = Resting \/ \E k : at' = [at EXCEPT !.rev = k, !.pc = "keep"]
            BY <1>2 DEF PublishProduct, Ended
        <2>2. state' = state /\ tries' = tries /\ at.node = "context"
            BY <1>2 DEF PublishProduct, Placed
        <2>3. CASE at' = Resting BY <1>0, <2>2, <2>3 DEF StaysPut
        <2>4. CASE \E k : at' = [at EXCEPT !.rev = k, !.pc = "keep"]
            <3>1. at'.node = "context" /\ at'.inv = at.inv BY <2>2, <2>4 DEF Shaped
            <3> QED BY <1>0, <2>2, <3>1 DEF StaysPut
        <2> QED BY <2>1, <2>3, <2>4
    <1>3. CASE KeepProduct
        <2>1. StaysPut BY <1>3 DEF Shaped, StaysPut, KeepProduct, Placed
        <2> QED BY <1>0, <2>1
    <1>4. CASE OpenWindow
        <2>1. StaysPut
            <3>1. CASE Occurrence \in DOMAIN rec.windows
                BY <1>4, <3>1 DEF Shaped, StaysPut, OpenWindow, Placed, Go
            <3>2. CASE ~(Occurrence \in DOMAIN rec.windows)
                BY <1>4, <3>2 DEF Shaped, StaysPut, OpenWindow, Placed, Go
            <3> QED BY <3>1, <3>2
        <2> QED BY <1>0, <2>1
    <1>5. CASE ClaimSelection
        <2>1. StaysPut BY <1>5 DEF Shaped, StaysPut, ClaimSelection, Placed, Go
        <2> QED BY <1>0, <2>1
    <1>6. CASE SelectWindow
        <2>1. StaysPut
            <3>1. CASE rec.choice[Occurrence] # None
                BY <1>6, <3>1 DEF Shaped, StaysPut, SelectWindow, Placed, Go
            <3>2. CASE ~(rec.choice[Occurrence] # None)
                BY <1>6, <3>2 DEF Shaped, StaysPut, SelectWindow, Placed, Go
            <3> QED BY <3>1, <3>2
        <2> QED BY <1>0, <2>1
    <1>7. CASE PublishWindow
        <2>1. at' = Resting \/ \E k, pc : at' = [at EXCEPT !.rev = k, !.pc = pc]
            BY <1>7 DEF PublishWindow, Ended
        <2>2. state' = state /\ tries' = tries /\ at.node = "context"
            BY <1>7 DEF PublishWindow, Placed
        <2>3. CASE at' = Resting BY <1>0, <2>2, <2>3 DEF StaysPut
        <2>4. CASE \E k, pc : at' = [at EXCEPT !.rev = k, !.pc = pc]
            <3>1. at'.node = "context" /\ at'.inv = at.inv BY <2>2, <2>4 DEF Shaped
            <3> QED BY <1>0, <2>2, <3>1 DEF StaysPut
        <2> QED BY <2>1, <2>3, <2>4
    <1>8. CASE PrepareWindow
        <2>1. StaysPut BY <1>8 DEF Shaped, StaysPut, PrepareWindow, Placed
        <2> QED BY <1>0, <2>1
    <1>9. CASE FixWindow
        <2>1. StaysPut
            <3>1. CASE Reusable(rec.windows, Occurrence, at.rev)
                BY <1>9, <3>1 DEF Shaped, StaysPut, FixWindow, Placed, Go, Ended
            <3>2. CASE ~(Reusable(rec.windows, Occurrence, at.rev))
                BY <1>9, <3>2 DEF Shaped, StaysPut, FixWindow, Placed, Go, Ended
            <3> QED BY <3>1, <3>2
        <2> QED BY <1>0, <2>1
    <1>10. CASE SavePreparation
        <2>1. StaysPut
            <3>1. CASE layout.paired
                BY <1>10, <3>1 DEF Shaped, StaysPut, SavePreparation, Placed, Go
            <3>2. CASE ~(layout.paired)
                BY <1>10, <3>2 DEF Shaped, StaysPut, SavePreparation, Placed, Go
            <3> QED BY <3>1, <3>2
        <2> QED BY <1>0, <2>1
    <1>11. CASE RecordRequest
        <2>1. StaysPut
            <3>1. CASE Reusable(rec.requests, at.inv, at.id)
                BY <1>11, <3>1 DEF Shaped, StaysPut, RecordRequest, Placed, Go, Ended
            <3>2. CASE ~(Reusable(rec.requests, at.inv, at.id))
                BY <1>11, <3>2 DEF Shaped, StaysPut, RecordRequest, Placed, Go, Ended
            <3> QED BY <3>1, <3>2
        <2> QED BY <1>0, <2>1
    <1>12. CASE Drop
        <2>1. StaysPut BY <1>12 DEF Shaped, StaysPut, Drop, Ended
        <2> QED BY <1>0, <2>1
    <1>13. CASE Stop
        <2>1. StaysPut
            <3>1. CASE at.node = "tools"
                BY <1>13, <3>1 DEF Shaped, StaysPut, Stop
            <3>2. CASE ~(at.node = "tools")
                BY <1>13, <3>2 DEF Shaped, StaysPut, Stop
            <3> QED BY <3>1, <3>2
        <2> QED BY <1>0, <2>1
    <1>14. CASE Resume
        <2>1. StaysPut BY <1>14 DEF Shaped, StaysPut, Resume
        <2> QED BY <1>0, <2>1
    <1>15. CASE EditFile
        <2>1. StaysPut BY <1>15 DEF Shaped, StaysPut, EditFile
        <2> QED BY <1>0, <2>1
    <1>16. CASE PatchByOther
        <2>1. StaysPut BY <1>16 DEF Shaped, StaysPut, PatchByOther
        <2> QED BY <1>0, <2>1
    <1>17. CASE \E c \in Commands : QueueSelection(c)
        <2>1. StaysPut BY <1>17 DEF Shaped, StaysPut, QueueSelection
        <2> QED BY <1>0, <2>1
    <1>18. CASE UNCHANGED turns
        <2>1. StaysPut BY <1>18 DEF Shaped, StaysPut, turns
        <2> QED BY <1>0, <2>1
    <1>19. CASE DenyCall \/ ToolCall \/ PatchCall
        BY <1>19, AnsweredTurns DEF DenyCall, ToolCall, PatchCall
    <1>20. CASE RouteCall
        <2>1. CallNext /\ state' = state /\ tries' = tries BY <1>20 DEF RouteCall
        <2> QED BY <1>20, <2>1, AnsweredTurns, TakenOver DEF RouteCall
    <1> QED BY <1>1, <1>2, <1>3, <1>4, <1>5, <1>6, <1>7, <1>8, <1>9, <1>10, <1>11, <1>12, <1>13, <1>14,
               <1>15, <1>16, <1>17, <1>18, <1>19, <1>20,
               BeginContextTurns, CommitContextTurns, BeginModelTurns, BeginPlainTurns, GenerateTurns, SealTurns,
               CommitModelTurns, BeginToolsTurns, RouteWaitsTurns, CommitToolsTurns, RewriteTurns
            DEF TurnsNext, Prepare, Ask, RunCalls, Outsiders

-----------------------------------------------------------------------------
(***************************************************************************)
(* The invariant of the turns.                                             *)
(***************************************************************************)

LEMMA InvariantHolds ==
    ASSUME TurnsInit
    PROVE  TurnsInv
    <1>1. Shaped
        <2>1. PICK a, c, r : a = at /\ c = state /\ r = rec OBVIOUS
        <2>2. a = [node |-> a.node, pc |-> a.pc, id |-> a.id, inv |-> a.inv, src |-> a.src,
                   res |-> a.res, rev |-> a.rev, calls |-> a.calls, done |-> a.done,
                   replies |-> a.replies, over |-> a.over]
            BY <2>1 DEF TurnsInit, Resting
        <2>3. c = [node |-> c.node, step |-> c.step, prepared |-> c.prepared,
                   consumed |-> c.consumed, calls |-> c.calls, history |-> c.history]
            BY <2>1 DEF TurnsInit
        <2>4. r = [productions |-> r.productions, results |-> r.results, owner |-> r.owner,
                   selections |-> r.selections, used |-> r.used, choice |-> r.choice,
                   captures |-> r.captures, windows |-> r.windows, prepared |-> r.prepared,
                   requests |-> r.requests, sealed |-> r.sealed]
            BY <2>1 DEF TurnsInit
        <2> QED BY <2>1, <2>2, <2>3, <2>4 DEF Shaped
    <1>2. Numbered BY DEF TurnsInit, Numbered, Resting, None
    <1>3. PlacedAt /\ Working BY DEF TurnsInit, PlacedAt, Working, Resting
    <1>4. Spoken
        <2>1. PICK e : e = <<>> OBVIOUS
        <2>2. state.calls = e /\ state.history = e /\ state.node = "context" BY <2>1 DEF TurnsInit
        <2>3. e \in Seq(ToolCalls) /\ e \in Seq(Messages) /\ DOMAIN e = {} BY <2>1
        <2>4. Paired(e, e)
            <3>1. Once(e) /\ InOrder(e) BY <2>3 DEF Once, InOrder
            <3>2. \A x : Among(e, x) <=> (Asked(e, x) /\ ~Given(e, x))
                BY <2>3 DEF Among, Asked
            <3> QED BY <3>1, <3>2, PairedIs
        <2>5. Distinct(e) BY <2>3 DEF Distinct
        <2> QED BY <2>1, <2>2, <2>3, <2>4, <2>5 DEF Spoken, CallsPaired
    <1>5. OnlySealedCallsRun BY DEF TurnsInit, OnlySealedCallsRun
    <1>6. WindowsInv
        BY DEF TurnsInit, WindowsInv, ShownKept, ChoicesKept, SelectionUsedOnce, Preparing, Pending,
               Resting, Nothing
    <1>7. ProductsInv
        <2>1. RegistryShaped(registry) BY DEF TurnsInit, RegistryShaped, EmptyRegistry
        <2> QED BY <2>1 DEF TurnsInit, ProductsInv, ProducedFromRead, Resting, Nothing
    <1>8. layout \in Layouts BY DEF TurnsInit
    <1> QED BY <1>1, <1>2, <1>3, <1>4, <1>5, <1>6, <1>7, <1>8 DEF TurnsInv, CallsInv

LEMMA InvariantKept ==
    ASSUME TurnsInv, [TurnsNext]_turns
    PROVE  TurnsInv'
    <1>1. Turning' BY TurningStep DEF TurnsInv, CallsInv, Turning
    <1>2. layout' \in Layouts BY LayoutFixed DEF TurnsInv
    <1> QED BY <1>1, <1>2, ShapedStep, SealedStep, WindowsStep, ProductsStep
            DEF TurnsInv, CallsInv, Turning

\* In every state of every flow layout, whatever the model answers and others do, the
\* records, the window of a passage and the calls of a model fit together.
THEOREM TurnsInvariant == TurnsSpec => []TurnsInv
    <1> QED BY InvariantHolds, InvariantKept, PTL DEF TurnsSpec

LEMMA PassagesFixed ==
    ASSUME TurnsInv
    PROVE  PassagesRepeat
    <1>1. PassageFixed
        <2>1. SUFFICES ASSUME NEW s \in DOMAIN shown PROVE Cardinality(shown[s]) <= 1
            BY DEF PassageFixed
        <2>2. PICK w : w = rec.windows[<<s, 0>>] OBVIOUS
        <2>3. \A v \in shown[s] : v = w BY <2>2 DEF TurnsInv, WindowsInv, ShownKept
        <2>4. shown[s] = {} \/ shown[s] = {w} BY <2>3
        <2> QED BY <2>4, FS_EmptySet, FS_Singleton
    <1> QED BY <1>1 DEF TurnsInv, WindowsInv, ChoicesKept, ProductsInv, PassagesRepeat

\* However often a passage is executed, and whatever others do to the window and the
\* files in between, its model is shown one window; a selection serves one passage; and a
\* product in a preparation was made from the text which that preparation read.
THEOREM PassagesAlwaysRepeat == TurnsSpec => []PassagesRepeat
    <1> QED BY TurnsInvariant, PassagesFixed, PTL

\* From format 2 on the tool node starts an effect only for a call a model invocation
\* recorded, in format 1 only calls without provenance are exempt and no window or flow
\* is among them (operations.rs, agent_capabilities.rs); and in every checkpoint a call
\* has its one answer or is still requested.
THEOREM CallsAlwaysSound == TurnsSpec => []CallsSound
    <1>1. TurnsInv => CallsSound BY DEF TurnsInv, CallsInv, Spoken, CallsSound
    <1> QED BY <1>1, TurnsInvariant, PTL
=============================================================================
