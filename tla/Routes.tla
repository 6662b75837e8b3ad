------------------------------- MODULE Routes -------------------------------
(***************************************************************************)
(* Routes between the flows of one runtime: how a node of the parent flow  *)
(* ("root") selects a route and runs or launches a child flow ("kid"), and *)
(* how both publish their datasets (zf-execution/src/route_runtime.rs over *)
(* zf-storage/src/data.rs).                                                *)
(*                                                                         *)
(* Records of the content store are variables: claim_record and            *)
(* persist_record set an absent record once, put_record overwrites.  A     *)
(* call of a node is re-executed with the same identity after a crash or   *)
(* an answer.  A visit is the pair of a call and the route it took; it is  *)
(* run by its caller ("inline") or by a task, under a lock of its own.     *)
(* The definitions of a plan, types, schemas and the depth of nested       *)
(* visits are left out.                                                    *)
(***************************************************************************)
EXTENDS DataRegistry, FiniteSets

CONSTANTS
    Calls,          \* invocations of the parent's nodes
    Tools,          \* the calls made by a model: captured before the model
    Conditions,     \* the calls that may select no route
    Step,           \* call -> the super-step it belongs to
    RouteIds,
    Mode,           \* route -> "call" | "launch"
    Eligible,       \* plan -> call -> the routes its condition admits
    Asks,           \* calls whose child waits for an answer
    Values,
    RootValue,      \* call -> the parent's dataset at that call
    KidValue,       \* call -> the child's dataset at its end
    Nobody,         \* no process
    Boot,           \* the process of initialize
    Plans,          \* bound: revisions of the runtime graph
    Inputs,         \* the parent's dataset in the input of the first execution
                    \* and of the later ones
    Faults,         \* bound: crashes, failed projections, failed children
                    \* and edits, together
    Edit            \* the value an edit through the shared alias writes

ASSUME RoutesAssumption ==
    /\ Tools \subseteq Calls /\ Conditions \subseteq Calls /\ Asks \subseteq Calls
    /\ RootValue \in [Calls -> Values] /\ KidValue \in [Calls -> Values]
    /\ Mode \in [RouteIds -> {"call", "launch"}]
    /\ Plans \in Nat \ {0} /\ Faults \in Nat /\ Edit \in Values
    /\ Inputs \in [1..2 -> Values]
    /\ Eligible \in [1..Plans -> [Calls -> SUBSET RouteIds]]
    /\ IsFiniteSet(Calls) /\ IsFiniteSet(RouteIds)

Data(i) == <<i, "data">>            \* the dataset an instance exports
Input == <<"kid", "in">>            \* the resource the child requires
Shared == <<"root", "out">>         \* the child's dataset, writable by the parent
\* The bindings of the runtime graph, in their order.
Bindings == <<[from |-> Data("kid"), to |-> Shared, write |-> TRUE],
              [from |-> Data("root"), to |-> Input, write |-> FALSE]>>

Visits == Calls \X RouteIds
Slots == {"inline", "task", "again"}
Runners == Visits \X Slots
Procs == {Boot} \cup Calls \cup Runners
ASSUME NobodyAssumption == Nobody \notin Procs

NoView == [rev |-> None, value |-> "none"]
NoHeads == -1
Undecided == [plan |-> 0, route |-> "none"]
NoJob == [stage |-> "none"]

VARIABLES
    reg,        \* the data registry
    graph,      \* runtime-graph-heads: the current plan
    pin,        \* runtime-graph-steps: super-step -> plan
    captured,   \* route-inputs: tool call -> plan
    dispatch,   \* route-dispatches: call -> plan and route
    visit,      \* route-visits: the plan a visit was recorded with
    status,     \* route-status
    bound,      \* route-bindings: the revision of the input
    heads,      \* route-output-heads
    resume,     \* route-resume: an answer for the child
    ckpt,       \* checkpoints of the child thread: 0 none, 1 paused, 2 ended
    intent,     \* route-publications
    view,       \* route-channel-views
    seed,       \* route-runtime seed
    phase,      \* of the owner: boot, serving, cleaning, waiting, over, down
    call,       \* per call: where invoke_branch is, and the plan it read
    answered,   \* calls whose node was resumed with an answer
    run,        \* per runner: where run_visit is
    lock,       \* per visit: the runner that holds its lock
    dataLock,   \* per instance: the process that publishes
    job,        \* per process: its publication in progress
    tasks,      \* the task map: handles of launched runners
    taken,      \* handles owned by the drain
    aborting,   \* runners whose handle was dropped
    active,     \* active_launches
    changed,    \* launch_changes: a change the subscribed cleanup has not seen
    editor,     \* an edit in progress
    woken,      \* history: visits spawned by this owner
    fed,        \* history: input revisions a fresh child was started with
    clashes,    \* history: refused publications
    faults

durable == <<reg, graph, pin, captured, dispatch, visit, status, bound, heads,
             resume, ckpt, intent, view, seed>>
routing == <<pin, captured, dispatch, visit, resume>>
launches == <<tasks, taken, aborting, active, changed>>
history == <<woken, fed, faults>>
vars == <<reg, graph, pin, captured, dispatch, visit, status, bound, heads, resume,
          ckpt, intent, view, seed, phase, call, answered, run, lock, dataLock, job,
          tasks, taken, aborting, active, changed, editor, woken, fed, clashes,
          faults>>

Idle == [pc |-> "idle", plan |-> 0]
Quiet ==
    /\ call = [c \in Calls |-> Idle]
    /\ run = [x \in Runners |-> "off"]
    /\ lock = [v \in Visits |-> Nobody]
    /\ dataLock = [i \in {"root", "kid"} |-> Nobody]
    /\ job = [p \in Procs |-> NoJob]
    /\ tasks = {} /\ taken = {} /\ aborting = {} /\ active = 0 /\ changed = FALSE
    /\ woken = {}

Init ==
    /\ reg = EmptyRegistry /\ graph = 1
    /\ pin = [s \in {Step[c] : c \in Calls} |-> 0]
    /\ captured = [c \in Calls |-> 0]
    /\ dispatch = [c \in Calls |-> Undecided]
    /\ visit = [v \in Visits |-> 0]
    /\ status = [v \in Visits |-> "none"]
    /\ bound = [v \in Visits |-> None]
    /\ heads = [v \in Visits |-> NoHeads]
    /\ resume = [v \in Visits |-> FALSE]
    /\ ckpt = [v \in Visits |-> 0]
    /\ intent = <<>> /\ view = [i \in {"root", "kid"} |-> NoView]
    /\ seed = "none" /\ phase = "boot" /\ answered = {}
    /\ editor = NoHeads /\ fed = [v \in Visits |-> {}] /\ clashes = {}
    /\ faults = 0 /\ Quiet

Terminal(v) == status[v] = "completed"
Launched(v) == Mode[v[2]] = "launch"

-----------------------------------------------------------------------------
(***************************************************************************)
(* publish_values and share, by any process.                               *)
(***************************************************************************)

Publishing(i, id, value, captures) ==
    [stage |-> "intent", inst |-> i, id |-> id, value |-> value, heads |-> captures,
     rev |-> None, todo |-> 1]
At(p, stage) == job[p].stage = stage
Goto(p, stage) == job' = [job EXCEPT ![p].stage = stage]

NotPublishing == <<reg, intent, view, dataLock, job, clashes>>

\* What the publication expects: the channel's view, else the head of the
\* registry; heads captured before the child ran replace both, and then an
\* equal value is not taken for an unchanged channel.
Expectation(j) ==
    IF j.heads # NoHeads THEN [rev |-> j.heads, same |-> FALSE]
    ELSE IF view[j.inst] # NoView
      THEN [rev |-> view[j.inst].rev, same |-> view[j.inst].value = j.value]
    ELSE LET h == HeadOf(reg, Data(j.inst))
         IN [rev |-> h, same |-> h # None /\ ValueAt(reg, h) = j.value]

\* The instance's publications take turns; the intent is recorded once, and a
\* repetition must publish the same values.
PubIntent(p) ==
    LET j == job[p] IN
    /\ At(p, "intent") /\ dataLock[j.inst] = Nobody
    /\ \/ /\ j.id \in DOMAIN intent /\ intent[j.id].value # j.value
          /\ Goto(p, "failed") /\ UNCHANGED <<intent, dataLock>>
       \/ /\ j.id \in DOMAIN intent => intent[j.id].value = j.value
          /\ intent' = AddRow(intent, j.id, [value |-> j.value,
                            expected |-> Expectation(j).rev,
                            unchanged |-> Expectation(j).same])
          /\ Goto(p, "registry") /\ dataLock' = [dataLock EXCEPT ![j.inst] = p]
    /\ UNCHANGED <<reg, view, clashes>>

\* Has anybody else published to the entity since the expected revision?
Others(r, a, expected, id) ==
    \E i \in 1..Len(r.revs) :
      Known(r, a) /\ r.revs[i].entity = r.alias[a].entity /\ i > expected
        /\ r.revs[i].by # id

PubRegistry(p) ==
    LET j == job[p]
        k == intent[j.id]
        a == Data(j.inst)
        done == IF k.unchanged THEN Committed(reg, k.expected)
                ELSE PublishUnique(reg, a, k.expected, j.value, j.id)
    IN
    /\ At(p, "registry") /\ reg' = done.reg
    /\ IF done.err = "none"
         THEN /\ job' = [job EXCEPT ![p].stage = "view", ![p].rev = done.rev]
              /\ UNCHANGED <<dataLock, clashes>>
         ELSE /\ Goto(p, "failed")
              /\ dataLock' = [dataLock EXCEPT ![j.inst] = Nobody]
              /\ clashes' = clashes \cup
                   {[id |-> j.id, others |-> Others(reg, a, k.expected, j.id)]}
    /\ UNCHANGED <<intent, view>>

\* share: the bindings are granted one by one; a binding whose source does not
\* exist yet is skipped, and an alias of another entity is an error.
Missing(r) == {n \in 1..Len(Bindings) :
    Known(r, Bindings[n].from) /\ ~Known(r, Bindings[n].to)}
Replaced(r) == \E n \in 1..Len(Bindings) :
    /\ Known(r, Bindings[n].from) /\ Known(r, Bindings[n].to)
    /\ r.alias[Bindings[n].from].entity # r.alias[Bindings[n].to].entity
First(S) == CHOOSE n \in S : \A m \in S : n <= m

Share(p, r) ==
    IF Missing(r) # {}
      THEN /\ job' = [job EXCEPT ![p].stage = "grant", ![p].todo = First(Missing(r))]
           /\ UNCHANGED dataLock
      ELSE /\ Goto(p, IF Replaced(r) THEN "failed" ELSE "ok")
           /\ dataLock' = [dataLock EXCEPT ![job[p].inst] = Nobody]

\* A replayed publication leaves the view of a later one alone.
PubView(p) ==
    LET j == job[p] IN
    /\ At(p, "view") /\ Share(p, reg)
    /\ view' = IF view[j.inst] = NoView \/ view[j.inst].rev = intent[j.id].expected
                 THEN [view EXCEPT ![j.inst] = [rev |-> j.rev, value |-> j.value]]
                 ELSE view
    /\ UNCHANGED <<reg, intent, clashes>>

\* The grant fails when another publication granted the alias in between.
PubGrant(p) ==
    LET b == Bindings[job[p].todo]
        done == Grant(reg, b.from, b.to, b.write)
    IN
    /\ At(p, "grant") /\ reg' = done.reg
    /\ IF done.err = "none" THEN Share(p, done.reg)
       ELSE Goto(p, "failed") /\ dataLock' = [dataLock EXCEPT ![job[p].inst] = Nobody]
    /\ UNCHANGED <<intent, view, clashes>>

Publication(p) ==
    /\ PubIntent(p) \/ PubRegistry(p) \/ PubView(p) \/ PubGrant(p)
    /\ UNCHANGED <<graph, pin, captured, dispatch, visit, status, bound, heads,
                   resume, ckpt, seed, phase, call, answered, run, lock, launches,
                   editor, history>>

-----------------------------------------------------------------------------
(***************************************************************************)
(* invoke_branch.                                                          *)
(***************************************************************************)

NotCalling == <<graph, status, bound, heads, ckpt, seed, phase, lock, editor>>
To(c, pc) == call' = [call EXCEPT ![c].pc = pc]

\* pinned_plan: the plan of the super-step, else the current one, claimed.
ReadPlan(c) == IF pin[Step[c]] # 0 THEN pin[Step[c]] ELSE graph

\* Fault: the current plan is used whatever was claimed.
PinnedLatest(c) == graph

Pinned(c) == pin'[Step[c]]
ClaimPin(c) == pin' = [pin EXCEPT ![Step[c]] = IF @ = 0 THEN call[c].plan ELSE @]

\* A super-step follows the end of the earlier ones.  A tool call is preceded
\* by capture, unless the state is captured already.
Invoke(c) ==
    /\ phase = "serving" /\ call[c].pc = "idle"
    /\ \A d \in Calls : Step[d] < Step[c] => call[d].pc = "done"
    /\ IF c \in Tools /\ captured[c] = 0
         THEN /\ call' = [call EXCEPT ![c] = [pc |-> "capture", plan |-> ReadPlan(c)]]
              /\ UNCHANGED job
         ELSE /\ To(c, "publish")
              /\ job' = [job EXCEPT ![c] =
                   Publishing("root", <<"branch", c>>, RootValue[c], NoHeads)]
    /\ UNCHANGED <<NotCalling, routing, reg, intent, view, dataLock, clashes,
                   answered, run, launches, history>>

Capture(c) ==
    /\ call[c].pc = "capture" /\ ClaimPin(c)
    /\ call' = [call EXCEPT ![c] = [pc |-> "capturing", plan |-> Pinned(c)]]
    /\ job' = [job EXCEPT ![c] =
         Publishing("root", <<"inference", c>>, RootValue[c], NoHeads)]
    /\ UNCHANGED <<NotCalling, captured, dispatch, visit, resume, reg, intent, view,
                   dataLock, clashes, answered, run, launches, history>>

\* The model replies with the tool call.
Captured(c) ==
    /\ call[c].pc = "capturing" /\ At(c, "ok")
    /\ captured' = [captured EXCEPT ![c] = call[c].plan]
    /\ call' = [call EXCEPT ![c] = Idle] /\ job' = [job EXCEPT ![c] = NoJob]
    /\ UNCHANGED <<NotCalling, pin, dispatch, visit, resume, reg, intent, view,
                   dataLock, clashes, answered, run, launches, history>>

\* The parent's datasets are published whether a route is selected or not.
\* Then the recorded dispatch, the captured plan or the pinned one is used.
Published(c) ==
    /\ call[c].pc = "publish" /\ At(c, "ok")
    /\ call' = [call EXCEPT ![c] =
         IF dispatch[c] # Undecided THEN [pc |-> "visit", plan |-> 0]
         ELSE IF c \in Tools THEN [pc |-> "claim", plan |-> captured[c]]
         ELSE [pc |-> "pin", plan |-> ReadPlan(c)]]
    /\ job' = [job EXCEPT ![c] = NoJob]
    /\ UNCHANGED <<NotCalling, routing, reg, intent, view, dataLock, clashes,
                   answered, run, launches, history>>

PinPlan(c) ==
    /\ call[c].pc = "pin" /\ ClaimPin(c)
    /\ call' = [call EXCEPT ![c] = [pc |-> "claim", plan |-> Pinned(c)]]
    /\ UNCHANGED <<NotCalling, captured, dispatch, visit, resume, NotPublishing,
                   answered, run, launches, history>>

CallFails(c) ==
    /\ call[c].pc \in {"publish", "capturing"} /\ At(c, "failed")
    /\ To(c, "failed") /\ job' = [job EXCEPT ![c] = NoJob]
    /\ UNCHANGED <<NotCalling, routing, reg, intent, view, dataLock, clashes,
                   answered, run, launches, history>>

\* Exactly one route, or none for a condition; the claim is read back.
ClaimDispatch(c) ==
    LET routes == Eligible[call[c].plan][c] IN
    /\ call[c].pc = "claim"
    /\ IF Cardinality(routes) = 1 \/ (routes = {} /\ c \in Conditions)
         THEN /\ dispatch' = [dispatch EXCEPT ![c] =
                   IF @ # Undecided THEN @
                   ELSE [plan |-> call[c].plan,
                         route |-> IF routes = {} THEN "skip" ELSE CHOOSE r \in routes : TRUE]]
              /\ call' = [call EXCEPT ![c] = [pc |-> "visit", plan |-> 0]]
         ELSE To(c, "failed") /\ UNCHANGED dispatch
    /\ UNCHANGED <<NotCalling, pin, captured, visit, resume, NotPublishing,
                   answered, run, launches, history>>

\* The recorded visit, or a new one with the plan of the dispatch; the answer
\* for the child (save_resume); then run_visit in place or a launch.
Visit(c) ==
    LET v == <<c, dispatch[c].route>> IN
    /\ call[c].pc = "visit"
    /\ \/ /\ dispatch[c].route = "skip" /\ To(c, "done") /\ UNCHANGED <<visit, resume, run>>
       \/ /\ dispatch[c].route # "skip"
          /\ visit' = [visit EXCEPT ![v] = IF @ = 0 THEN dispatch[c].plan ELSE @]
          /\ resume' = [resume EXCEPT ![v] = @ \/ c \in answered]
          /\ IF Launched(v) THEN To(c, "spawn") /\ UNCHANGED run
             ELSE /\ To(c, "running")
                  /\ run' = [run EXCEPT ![<<v, "inline">>] = "lock"]
    /\ UNCHANGED <<NotCalling, pin, captured, dispatch, NotPublishing, answered,
                   launches, history>>

\* spawn_visit: nothing when the task map has the visit or it has ended.  A
\* visit whose handle a drain has taken gets a second task.
FreeSlot(v) == CHOOSE s \in {"task", "again"} :
    run[<<v, s>>] = "off" /\ (run[<<v, "task">>] = "off" => s = "task")
CanSpawn(v) == \E s \in {"task", "again"} : run[<<v, s>>] = "off"
Spawned(v) ==
    IF Terminal(v) \/ \E x \in tasks : x[1] = v
      THEN UNCHANGED <<run, tasks, active>>
      ELSE LET x == <<v, FreeSlot(v)>> IN
           /\ run' = [run EXCEPT ![x] = "lock"]
           /\ tasks' = tasks \cup {x} /\ active' = active + 1

Spawn(c) ==
    LET v == <<c, dispatch[c].route>> IN
    /\ call[c].pc = "spawn" /\ CanSpawn(v) /\ Spawned(v) /\ To(c, "done")
    /\ woken' = woken \cup {v}
    /\ UNCHANGED <<NotCalling, routing, NotPublishing, answered, taken, aborting,
                   changed, fed, faults>>

\* A later node awaits a launched visit (await_visit).
AwaitVisit(c) ==
    LET v == <<c, dispatch[c].route>> IN
    /\ phase = "serving" /\ call[c].pc = "done" /\ dispatch[c].route # "skip"
    /\ Launched(v) /\ run[<<v, "inline">>] = "off"
    /\ resume' = [resume EXCEPT ![v] = @ \/ c \in answered]
    /\ To(c, "running") /\ run' = [run EXCEPT ![<<v, "inline">>] = "lock"]
    /\ UNCHANGED <<NotCalling, pin, captured, dispatch, visit, NotPublishing,
                   answered, launches, history>>

\* The inline run ends; a waiting child interrupts the parent.
Return(c) ==
    LET v == <<c, dispatch[c].route>> IN
    /\ call[c].pc = "running" /\ run[<<v, "inline">>] = "end"
    /\ To(c, CASE status[v] = "completed" -> "done" [] status[v] = "waiting" -> "waiting"
               [] OTHER -> "failed")
    /\ run' = [run EXCEPT ![<<v, "inline">>] = "off"]
    /\ UNCHANGED <<NotCalling, routing, NotPublishing, answered, launches, history>>

\* The parent is resumed with the child's answer and runs the node again.
Answer(c) ==
    /\ phase = "serving" /\ call[c].pc = "waiting" /\ c \notin answered
    /\ answered' = answered \cup {c} /\ call' = [call EXCEPT ![c] = Idle]
    /\ UNCHANGED <<NotCalling, routing, NotPublishing, run, launches, history>>

Calling(c) ==
    \/ Invoke(c) \/ Capture(c) \/ Captured(c) \/ Published(c) \/ CallFails(c)
    \/ PinPlan(c) \/ ClaimDispatch(c) \/ Visit(c) \/ Spawn(c) \/ AwaitVisit(c)
    \/ Return(c) \/ Answer(c)

-----------------------------------------------------------------------------
(***************************************************************************)
(* run_visit.                                                              *)
(***************************************************************************)

NotRunning == <<graph, pin, captured, dispatch, visit, resume, seed, phase, call,
                answered, tasks, taken, aborting, editor, woken>>
Fault == faults < Faults /\ faults' = faults + 1
Move(x, stage) == run' = [run EXCEPT ![x] = stage]

\* The end of a task drops its ActiveLaunch.
Leave(x) ==
    /\ Move(x, "end") /\ lock' = [lock EXCEPT ![x[1]] = Nobody]
    /\ IF x[2] = "inline" THEN UNCHANGED <<active, changed>>
       ELSE active' = active - 1 /\ changed' = (phase = "cleaning" \/ phase = "waiting")
Stay == UNCHANGED <<lock, active, changed>>

\* Fault: a visit that ended is run again.
RunStartAgain(x) ==
    LET v == x[1] IN
    /\ run[x] = "lock" /\ lock[v] = Nobody
    /\ lock' = [lock EXCEPT ![v] = x]
    /\ Move(x, "bind")
    /\ UNCHANGED <<NotRunning, NotPublishing, active, changed, status, bound, heads,
                   ckpt, fed>>

\* Under the visit's lock; a visit that ended returns its result.
RunStart(x) ==
    LET v == x[1] IN
    /\ run[x] = "lock" /\ lock[v] = Nobody
    /\ IF Terminal(v) THEN Leave(x)
       ELSE /\ lock' = [lock EXCEPT ![v] = x]
            /\ Move(x, "bind")
            /\ UNCHANGED <<active, changed>>
    /\ UNCHANGED <<NotRunning, NotPublishing, status, bound, heads, ckpt, fed>>

\* The input of a child without a checkpoint is captured once, before the
\* child runs.
CaptureInput(v) == IF bound[v] # None THEN bound[v] ELSE HeadOf(reg, Input)

\* Without the required input the visit waits.  The heads of the outputs are
\* captured once as well, then the child graph is started.
RunBind(x) ==
    LET v == x[1]
        r == IF ckpt[v] = 0 THEN CaptureInput(v) ELSE bound[v]
    IN
    /\ run[x] = "bind"
    /\ \/ /\ r = None /\ Leave(x)
          /\ status' = [status EXCEPT ![v] = "waiting"]
          /\ UNCHANGED <<bound, heads, fed>>
       \/ /\ r # None /\ Move(x, "child") /\ Stay
          /\ bound' = [bound EXCEPT ![v] = r]
          /\ heads' = [heads EXCEPT ![v] =
                         IF @ = NoHeads THEN HeadOf(reg, Data("kid")) ELSE @]
          /\ status' = [status EXCEPT ![v] = "running"]
          /\ fed' = [fed EXCEPT ![v] = IF ckpt[v] = 0 THEN @ \cup {r} ELSE @]
    /\ UNCHANGED <<NotRunning, NotPublishing, ckpt>>

\* The child waits for an answer it does not have, with a checkpoint ...
ChildWaits(x) ==
    LET v == x[1] IN
    /\ run[x] = "child" /\ v[1] \in Asks /\ ~resume[v]
    /\ ckpt' = [ckpt EXCEPT ![v] = 1]
    /\ status' = [status EXCEPT ![v] = "waiting"] /\ Leave(x)
    /\ UNCHANGED <<NotRunning, NotPublishing, bound, heads, fed>>

\* ... ends ...
ChildEnds(x) ==
    LET v == x[1] IN
    /\ run[x] = "child" /\ (v[1] \in Asks => resume[v])
    /\ ckpt' = [ckpt EXCEPT ![v] = 2]
    /\ job' = [job EXCEPT ![x] =
         Publishing("kid", <<"result", v>>, KidValue[v[1]], heads[v])]
    /\ Move(x, "publish") /\ Stay
    /\ UNCHANGED <<NotRunning, reg, intent, view, dataLock, clashes, status, bound, heads,
                   fed>>

\* ... or fails.
ChildFails(x) ==
    /\ run[x] = "child" /\ Fault /\ Leave(x)
    /\ status' = [status EXCEPT ![x[1]] = "failed"]
    /\ UNCHANGED <<NotRunning, NotPublishing, bound, heads, ckpt, fed>>

RunEnds(x) ==
    /\ run[x] = "publish" /\ job[x].stage \in {"ok", "failed"}
    /\ job' = [job EXCEPT ![x] = NoJob] /\ Leave(x)
    /\ status' = [status EXCEPT ![x[1]] = IF At(x, "ok") THEN "completed" ELSE "failed"]
    /\ UNCHANGED <<NotRunning, reg, intent, view, dataLock, clashes, bound, heads,
                   ckpt, fed>>

Running(x) ==
    \/ /\ \/ RunStart(x) \/ RunBind(x) \/ ChildWaits(x)
          \/ ChildEnds(x) \/ RunEnds(x)
       /\ UNCHANGED faults
    \/ ChildFails(x)

-----------------------------------------------------------------------------
(***************************************************************************)
(* The owner: initialize, drain, cancel_and_drain, crash.                  *)
(***************************************************************************)

NotOwning == <<graph, pin, captured, dispatch, visit, status, bound, heads, resume,
               ckpt, answered, editor, fed>>

\* The seed recorded first is kept: a later execution starts with another
\* input, an answer for instance.
BootSeed ==
    /\ phase = "boot" /\ job[Boot] = NoJob
    /\ seed' = IF seed = "none" THEN Inputs[1] ELSE seed
    /\ job' = [job EXCEPT ![Boot] = Publishing("root", <<"seed">>, seed', NoHeads)]
    /\ UNCHANGED <<NotOwning, reg, intent, view, dataLock, clashes, phase, call, run,
                   lock, launches, woken>>

Unfinished == {v \in Visits : visit[v] # 0 /\ Launched(v) /\ ~Terminal(v)}

\* Fault: only the visits that were running are spawned.
BootSpawnRunning ==
    /\ phase = "boot" /\ At(Boot, "ok")
    /\ LET vs == {v \in Unfinished \ woken : status[v] = "running"} IN
       IF vs = {} THEN phase' = "serving" /\ UNCHANGED <<run, tasks, active, woken>>
       ELSE \E v \in vs : Spawned(v) /\ woken' = woken \cup {v} /\ UNCHANGED phase
    /\ UNCHANGED <<NotOwning, NotPublishing, seed, call, lock, taken, aborting,
                   changed>>

\* Every launch that has not ended is spawned, then the parent continues.
BootSpawn ==
    /\ phase = "boot" /\ At(Boot, "ok")
    /\ LET vs == Unfinished \ woken IN
       IF vs = {} THEN phase' = "serving" /\ UNCHANGED <<run, tasks, active, woken>>
       ELSE \E v \in vs : Spawned(v) /\ woken' = woken \cup {v} /\ UNCHANGED phase
    /\ UNCHANGED <<NotOwning, NotPublishing, seed, call, lock, taken, aborting,
                   changed>>

Finished == \A c \in Calls : call[c].pc \in {"idle", "done", "waiting", "failed"}

\* drain, when the parent ends or pauses and in the cleanup: it takes the
\* whole map, joins every handle and takes again.
DrainTake ==
    /\ phase = "cleaning" \/ (phase = "serving" /\ Finished)
    /\ taken = {} /\ tasks # {} /\ taken' = tasks /\ tasks' = {}
    /\ UNCHANGED <<NotOwning, NotPublishing, seed, phase, call, run, lock, aborting,
                   active, changed, woken>>

DrainJoin(x) ==
    /\ x \in taken /\ run[x] = "end" /\ Move(x, "off")
    /\ IF taken = {x} THEN taken' = tasks /\ tasks' = {}
       ELSE taken' = taken \ {x} /\ UNCHANGED tasks
    /\ UNCHANGED <<NotOwning, NotPublishing, seed, phase, call, lock, aborting,
                   active, changed, woken>>

\* The parent has ended or pauses; its drain ends with nothing left to join.
Close ==
    /\ phase = "serving" /\ Finished /\ tasks = {} /\ taken = {} /\ phase' = "over"
    /\ UNCHANGED <<NotOwning, NotPublishing, seed, call, run, lock, launches, woken>>

\* A failed projection aborts the producer with everything it runs in place,
\* and the drain it spawned, whose handles abort the launched tasks.
Fail ==
    /\ phase \in {"boot", "serving"} /\ Fault /\ phase' = "cleaning"
    /\ call' = [c \in Calls |-> Idle]
    /\ run' = [x \in Runners |-> IF x[2] = "inline" THEN "off" ELSE run[x]]
    /\ lock' = [v \in Visits |-> IF lock[v] = <<v, "inline">> THEN Nobody ELSE lock[v]]
    /\ job' = [p \in Procs |-> IF p \in Runners /\ p[2] # "inline" THEN job[p] ELSE NoJob]
    /\ dataLock' = [i \in DOMAIN dataLock |->
         IF dataLock[i] \in {y \in Runners : y[2] # "inline"} THEN dataLock[i] ELSE Nobody]
    /\ aborting' = aborting \cup taken /\ taken' = {}
    /\ UNCHANGED <<NotOwning, reg, intent, view, clashes, seed, tasks, active, changed,
                   woken>>

\* An aborted task stops at its next await, without a status.
Aborted(x) ==
    /\ x \in aborting /\ aborting' = aborting \ {x}
    /\ IF run[x] = "end" THEN Move(x, "off") /\ UNCHANGED <<lock, job, dataLock, active, changed>>
       ELSE /\ Move(x, "off")
            /\ lock' = [lock EXCEPT ![x[1]] = IF @ = x THEN Nobody ELSE @]
            /\ job' = [job EXCEPT ![x] = NoJob]
            /\ dataLock' = [i \in DOMAIN dataLock |->
                              IF dataLock[i] = x THEN Nobody ELSE dataLock[i]]
            /\ active' = active - 1 /\ changed' = (phase = "cleaning" \/ phase = "waiting")
    /\ UNCHANGED <<NotOwning, reg, intent, view, clashes, seed, phase, call, tasks,
                   taken, woken>>

\* cancel_and_drain after its drain: while launches are active it waits for a
\* change since it subscribed, which was before the drain.
CleanupCheck ==
    /\ phase = "cleaning" /\ tasks = {} /\ taken = {}
    /\ phase' = IF active = 0 THEN "over" ELSE "waiting"
    /\ UNCHANGED <<NotOwning, NotPublishing, seed, call, run, lock, launches, woken>>

CleanupWakes ==
    /\ phase = "waiting" /\ changed
    /\ changed' = FALSE /\ phase' = "cleaning"
    /\ UNCHANGED <<NotOwning, NotPublishing, seed, call, run, lock, tasks, taken,
                   aborting, active, woken>>

\* The next execution resumes the parent at a checkpoint before or after the
\* calls that had returned.
Crash ==
    /\ phase # "down" /\ Fault /\ phase' = "down" /\ editor' = NoHeads
    /\ \E passed \in BOOLEAN : call' = [c \in Calls |->
         IF passed /\ call[c].pc = "done" THEN call[c] ELSE Idle]
    /\ run' = [x \in Runners |-> "off"]
    /\ lock' = [v \in Visits |-> Nobody]
    /\ dataLock' = [i \in {"root", "kid"} |-> Nobody]
    /\ job' = [p \in Procs |-> NoJob]
    /\ tasks' = {} /\ taken' = {} /\ aborting' = {} /\ active' = 0 /\ changed' = FALSE
    /\ woken' = {}
    /\ UNCHANGED <<durable, answered, fed, clashes>>

\* The next execution of the run.
Restart ==
    /\ phase = "down" /\ phase' = "boot"
    /\ UNCHANGED <<durable, call, answered, run, lock, dataLock, job, launches, editor,
                   woken, fed, clashes, faults>>

\* A revision of the runtime graph is published.
PublishGraph ==
    /\ graph < Plans /\ graph' = graph + 1
    /\ UNCHANGED <<reg, pin, captured, dispatch, visit, status, bound, heads, resume,
                   ckpt, intent, view, seed, phase, call, answered, run, lock, dataLock,
                   job, launches, editor, clashes, history>>

\* An edit through the writable alias (WindowRegistry::patch): the head is
\* read, and published over if it is still the head.
EditRead ==
    /\ phase = "serving" /\ Fault /\ editor = NoHeads /\ Known(reg, Shared)
    /\ editor' = HeadOf(reg, Shared)
    /\ UNCHANGED <<durable, phase, call, answered, run, lock, dataLock, job, launches,
                   woken, fed, clashes>>

EditPublish ==
    /\ editor # NoHeads /\ editor' = NoHeads
    /\ reg' = Publish(reg, Shared, editor, Edit, <<"edit">>).reg
    /\ UNCHANGED <<graph, pin, captured, dispatch, visit, status, bound, heads, resume,
                   ckpt, intent, view, seed, phase, call, answered, run, lock, dataLock,
                   job, launches, clashes, history>>

Owning ==
    \/ /\ \/ BootSeed \/ BootSpawn \/ DrainTake \/ Close \/ CleanupCheck \/ CleanupWakes
          \/ \E x \in Runners : DrainJoin(x) \/ Aborted(x)
       /\ UNCHANGED faults
    \/ Fail \/ Crash \/ Restart \/ PublishGraph
    \/ EditRead \/ EditPublish

Next ==
    \/ \E p \in Procs : Publication(p)
    \/ \E c \in Calls : Calling(c)
    \/ \E x \in Runners : Running(x)
    \/ Owning

Spec == Init /\ [][Next]_vars

-----------------------------------------------------------------------------
(***************************************************************************)
(* Properties.                                                             *)
(***************************************************************************)

\* A call keeps the route it took first, and all calls of a super-step follow
\* one plan, through revisions of the graph, crashes and repetitions
\* (pinned_plan, route-dispatches).
RouteFixed ==
    /\ \A v, w \in Visits : visit[v] # 0 /\ visit[w] # 0 /\ v[1] = w[1] => v = w
    /\ \A v \in Visits : visit[v] # 0 => visit[v] = pin[Step[v[1]]]

Latest(S) == IF S = {} THEN None ELSE CHOOSE i \in S : \A j \in S : j <= i

\* Revisions of an entity form one line: nobody publishes over a revision it
\* has not seen (publish, publish_unique).
RevisionsLinear ==
    \A j \in 1..Len(reg.revs) :
      reg.revs[j].parent =
        Latest({i \in 1..j - 1 : reg.revs[i].entity = reg.revs[j].entity})

\* A publication is refused only for what somebody else published: repeating
\* one after a crash never meets its own revision.
NoSelfConflict == \A k \in clashes : k.others

\* A child is started with the input captured first, however often it has to
\* be started before its first checkpoint (route-bindings).
InputCapturedOnce == \A v \in Visits : Cardinality(fed[v]) <= 1

\* Every launch that has not ended runs again once the parent does
\* (initialize).
LaunchesRespawned ==
    phase = "serving" => \A v \in Unfinished :
      v \in woken \/ call[v[1]].pc = "spawn"

\* After the cleanup of a failed run nothing it launched is running, and the
\* cleanup never sleeps through the end of the last launch (cancel_and_drain).
CleanupComplete ==
    /\ phase = "over" => active = 0 /\ \A x \in Runners : run[x] \in {"off", "end"}
    /\ phase = "waiting" /\ active = 0 => changed

\* The result of a visit is final (run_visit, terminal).
ResultFinal == [][\A v \in Visits : Terminal(v) => status'[v] = status[v]]_vars

\* The view of a channel moves only to a revision derived from the one it had.
ViewForward ==
    [][\A i \in DOMAIN view : view'[i] # view[i] /\ view[i] # NoView =>
         view[i].rev \in Ancestors(reg', view'[i].rev)]_vars

\* Repeating a call repeats what it did first: its route and its child's input.
VisitsFixed == RouteFixed /\ InputCapturedOnce

\* No launched child is forgotten: not by a restart, not by the cleanup.
LaunchesAccounted == LaunchesRespawned /\ CleanupComplete

\* Publications extend what their publisher has seen, and are refused only for
\* what somebody else published meanwhile.
PublicationsLinear == RevisionsLinear /\ NoSelfConflict

\* What has been recorded of a visit or a channel is not taken back.
RecordsForward == ResultFinal /\ ViewForward
-----------------------------------------------------------------------------
(***************************************************************************)
(* What VisitsFixed and LaunchesAccounted rest on.                         *)
(***************************************************************************)

CallStages == {"idle", "capture", "capturing", "publish", "pin", "claim", "visit",
               "spawn", "running", "waiting", "done", "failed"}
Held == {"bind", "child", "publish"}      \* the stages under a visit's lock
RunStages == {"off", "lock", "end"} \cup Held

RoutesTypeOK ==
    /\ graph \in 1..Plans /\ pin \in [{Step[c] : c \in Calls} -> 0..Plans]
    /\ captured \in [Calls -> 0..Plans] /\ visit \in [Visits -> 0..Plans]
    /\ dispatch \in [Calls -> [plan : 0..Plans, route : RouteIds \cup {"none", "skip"}]]
    /\ status \in [Visits -> {"none", "waiting", "running", "completed", "failed"}]
    /\ phase \in {"boot", "serving", "cleaning", "waiting", "over", "down"}
    /\ call \in [Calls -> [pc : CallStages, plan : 0..Plans]]
    /\ run \in [Runners -> RunStages] /\ lock \in [Visits -> Runners \cup {Nobody}]
    /\ tasks \subseteq Runners /\ taken \subseteq Runners /\ aborting \subseteq Runners
    /\ active \in Nat /\ changed \in BOOLEAN /\ woken \subseteq Visits
    /\ DOMAIN fed = Visits /\ DOMAIN bound = Visits

\* A dispatch and a capture follow the plan of their super-step, a visit its
\* call's dispatch.
RouteKept ==
    /\ \A c \in Calls : dispatch[c] # Undecided =>
         /\ dispatch[c].plan # 0 /\ dispatch[c].plan = pin[Step[c]]
         /\ dispatch[c].route \in RouteIds \cup {"skip"}
    /\ \A c \in Calls : captured[c] # 0 => captured[c] = pin[Step[c]]
    /\ \A v \in Visits : visit[v] # 0 =>
         dispatch[v[1]].plan = visit[v] /\ dispatch[v[1]].route = v[2]

\* A call that goes on with a plan goes on with the super-step's.
CallFits(c) ==
    /\ call[c].pc \in {"capture", "pin"} => call[c].plan # 0
    /\ call[c].pc \in {"capturing", "claim"} =>
         call[c].plan # 0 /\ call[c].plan = pin[Step[c]]
    /\ call[c].pc = "publish" /\ c \in Tools => captured[c] # 0
    /\ call[c].pc \in {"visit", "spawn", "running", "waiting", "done"} =>
         dispatch[c] # Undecided
    /\ call[c].pc \in {"spawn", "running"} => dispatch[c].route \in RouteIds
CallKept == \A c \in Calls : CallFits(c)

\* The input a child was started with is the one that is bound.
FedKept == \A v \in Visits :
    /\ \A r \in fed[v] : r = bound[v]
    /\ bound[v] = None => fed[v] = {}

\* A visit is run by the holder of its lock, and it has not ended.
LockKept == \A x \in Runners :
    run[x] \in Held => lock[x[1]] = x /\ ~Terminal(x[1])

\* The launched runners that count as active.
Live == {x \in Runners : x[2] # "inline" /\ run[x] \notin {"off", "end"}}

\* A launched runner has one handle, and a running one is counted once.
LaunchKept ==
    /\ \A x \in tasks : x \notin taken /\ x \notin aborting
    /\ \A x \in taken : x \notin aborting
    /\ \A x \in tasks \cup taken \cup aborting : x[2] # "inline" /\ run[x] # "off"
    /\ Live \subseteq tasks \cup taken \cup aborting
    /\ active = Cardinality(Live)

\* A visit is run in place by the call that took its route.
InlineKept == \A v \in Visits :
    run[<<v, "inline">>] # "off" =>
      call[v[1]].pc = "running" /\ dispatch[v[1]].route = v[2]

PhaseKept ==
    /\ phase \in {"boot", "serving", "down"} => aborting = {}
    /\ phase \in {"boot", "down"} =>
         /\ \A c \in Calls : call[c].pc \in {"idle", "done"}
         /\ \A x \in Runners : run[x] # "off" => x[1] \in woken
    /\ phase \in {"cleaning", "waiting"} => \A c \in Calls : call[c].pc = "idle"
    /\ phase = "over" => Finished

RoutesInv ==
    /\ RoutesTypeOK /\ RouteKept /\ CallKept /\ FedKept /\ LockKept
    /\ LaunchKept /\ InlineKept /\ PhaseKept
    /\ LaunchesAccounted

-----------------------------------------------------------------------------
(***************************************************************************)
(* What PublicationsLinear rests on.                                       *)
(***************************************************************************)
Instances == {"root", "kid"}
PubIds == {<<"seed">>} \cup ({"branch", "inference"} \X Calls) \cup ({"result"} \X Visits)
InstOf(id) == IF id[1] = "result" THEN "kid" ELSE "root"
Stored == Values \cup {"none"}
RevRecords == [entity : Nat, parent : Nat, value : Stored, by : PubIds \cup {<<"edit">>}]
Jobs == [stage : {"intent", "registry", "view", "grant", "ok", "failed"}, inst : Instances,
         id : PubIds, value : Stored, heads : Int, rev : Nat, todo : 1..2]

\* The head of an entity is its last revision, and an instance may write what
\* it exports.
HeadsLast(r) ==
    /\ \A e \in 1..Len(r.head) :
         r.head[e] \in 1..Len(r.revs) /\ r.revs[r.head[e]].entity = e
    /\ \A i \in 1..Len(r.revs) :
         r.revs[i].entity \in 1..Len(r.head) /\ i <= r.head[r.revs[i].entity]
    /\ \A a \in DOMAIN r.alias : r.alias[a].entity \in 1..Len(r.head)
Lines(revs) == \A j \in 1..Len(revs) :
    revs[j].parent = Latest({i \in 1..j - 1 : revs[i].entity = revs[j].entity})
RegistryKept(r) ==
    /\ r = [revs |-> r.revs, head |-> r.head, alias |-> r.alias, pub |-> r.pub]
    /\ r.revs \in Seq(RevRecords) /\ r.head \in Seq(Nat) /\ HeadsLast(r) /\ Lines(r.revs)
    /\ \A i \in Instances : Known(r, Data(i)) => r.alias[Data(i)].write

\* What is published under an identity is recorded with it.
ByKnown(r) == \A i \in 1..Len(r.revs) :
    r.revs[i].by = <<"edit">> \/ r.revs[i].by \in DOMAIN r.pub

\* No revision, or one of the dataset an instance exports.
RevisionOf(r, i, rev) ==
    rev = None \/ (/\ Known(r, Data(i)) /\ rev \in 1..Len(r.revs)
                   /\ r.revs[rev].entity = r.alias[Data(i)].entity)

\* Whatever a publication expects or a channel shows is a revision of the
\* publisher's dataset.
IntentKept ==
    /\ DOMAIN intent \subseteq PubIds
    /\ \A id \in DOMAIN intent : RevisionOf(reg, InstOf(id), intent[id].expected)
ViewKept ==
    /\ view \in [Instances -> [rev : Nat, value : Stored]]
    /\ \A i \in Instances : RevisionOf(reg, i, view[i].rev)
HeadsKept ==
    /\ DOMAIN heads = Visits
    /\ \A v \in Visits : heads[v] = NoHeads \/ RevisionOf(reg, "kid", heads[v])

\* A publication of the registry is the one its intent says.
PubKept == \A id \in DOMAIN reg.pub :
    /\ id \in DOMAIN intent /\ reg.pub[id].alias = Data(InstOf(id))
    /\ reg.pub[id].expected = intent[id].expected
    /\ reg.pub[id].rev # None /\ RevisionOf(reg, InstOf(id), reg.pub[id].rev)
    /\ reg.revs[reg.pub[id].rev].value = intent[id].value

JobFits(j) ==
    /\ j.inst = InstOf(j.id) /\ (j.heads = NoHeads \/ RevisionOf(reg, j.inst, j.heads))
    /\ j.stage = "registry" => j.id \in DOMAIN intent /\ intent[j.id].value = j.value
    /\ j.stage = "view" => RevisionOf(reg, j.inst, j.rev)
JobKept ==
    /\ job \in [Procs -> Jobs \cup {NoJob}]
    /\ \A p \in Procs : job[p] # NoJob => JobFits(job[p])

RegistryInv ==
    /\ RegistryKept(reg) /\ ByKnown(reg) /\ IntentKept /\ ViewKept /\ HeadsKept /\ PubKept /\ JobKept
    /\ seed \in Stored /\ NoSelfConflict
=============================================================================
