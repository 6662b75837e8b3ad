------------------------------- MODULE Turns -------------------------------
(***************************************************************************)
(* The turns of an agent: its context is prepared from durable records     *)
(* (zf-runtime/src/resources.rs, inference.rs), the model is asked once    *)
(* per node execution (models.rs), and the graph's tool node runs the      *)
(* calls the model sealed (operations.rs, agent_capabilities.rs).          *)
(*                                                                         *)
(* The graph commits a node's updates with its checkpoint; an execution    *)
(* that fails, waits, is dropped or dies with the process is executed      *)
(* again from the checkpoint, under a new occurrence identity.  In between *)
(* others go on: files change, the window is patched by another agent of   *)
(* the flow, the user selects a window for the next passage or stops the   *)
(* run.  What an execution has put into the record store stays there, and  *)
(* a record identity is never given a second value.                        *)
(*                                                                         *)
(* A flow lays its agent out as a Context node with its Model node or as   *)
(* one agent node, runs all calls of an answer in one passage or one at a  *)
(* time, and may prepare windows by a route.  In a flow of format 1 calls  *)
(* are authorized only when they carry provenance, and an agent without a  *)
(* context program has no preparation and seals nothing.  What a called    *)
(* flow does is the matter of Routes, receipts of ToolReceipts.            *)
(***************************************************************************)
EXTENDS DataRegistry, FiniteSets

CONSTANTS
    Texts,          \* what the file behind the reader may hold: numbers
    Layouts,        \* the layouts of the flow
    Answers,        \* the answers of the model: sequences of tool names
    Granted,        \* tools the agent may use
    Commands,       \* identities of window selections
    MaxSteps,       \* bound: graph steps
    MaxTries,       \* bound: node executions
    Mishaps,        \* bound: crashes, failures, waits and stops
    Outside,        \* bound: changes made by others
    Together        \* bound: faults and changes

\* A model's answer names tools; commands are identified by numbers, never by none; an
\* agent of the formats from 2 on captures a snapshot for each invocation.
ASSUME TurnsAssumption ==
    /\ Answers \subseteq Seq(STRING) /\ Commands \subseteq Nat \ {None}
    /\ Layouts \subseteq [paired : BOOLEAN, single : BOOLEAN, route : BOOLEAN,
                          v2 : BOOLEAN, snapshots : BOOLEAN]
    /\ \A l \in Layouts : l.v2 \/ l.paired => l.snapshots

VARIABLES
    layout,
    state,          \* the last checkpoint
    at,             \* the node execution under way
    tries,          \* node executions so far: the occurrence identities
    file,           \* the text of the source file
    registry,       \* the data registry
    rec,            \* zf_records, by kind
    cancelled,      \* RunServices.cancel
    mishaps, outside,
    shown,          \* history: step -> window revisions given to the model
    ran,            \* history: the calls whose effect was started
    refused         \* history: an execution met the request of an earlier one

turns == <<layout, state, at, tries, file, registry, rec, cancelled, mishaps, outside,
          shown, ran, refused>>

Disturbable == mishaps + outside < Together
Nothing == <<>>     \* the empty function
Resting == [node |-> "none", pc |-> "none", id |-> None, inv |-> None, src |-> None,
         res |-> None, rev |-> None, calls |-> <<>>, done |-> 0,
         replies |-> <<>>, over |-> FALSE]

TurnsInit ==
    /\ layout \in Layouts
    /\ state = [node |-> "context", step |-> 1, prepared |-> None, consumed |-> None,
                calls |-> <<>>, history |-> <<>>]
    /\ at = Resting /\ tries = 0
    /\ file = CHOOSE t \in Texts : TRUE
    /\ registry = EmptyRegistry
    /\ rec = [productions |-> Nothing, results |-> Nothing, owner |-> FALSE,
              selections |-> Nothing, used |-> {}, choice |-> Nothing,
              captures |-> Nothing, windows |-> Nothing, prepared |-> Nothing,
              requests |-> Nothing, sealed |-> Nothing]
    /\ cancelled = FALSE /\ mishaps = 0 /\ outside = 0
    /\ shown = [s \in 1..MaxSteps |-> {}] /\ ran = {} /\ refused = FALSE

-----------------------------------------------------------------------------
(***************************************************************************)
(* Records: claim_record inserts once; persist_record refuses an identity  *)
(* that already has another value.                                         *)
(***************************************************************************)
ClaimRecord(table, key, value) == AddRow(table, key, value)
Reusable(table, key, value) == key \in DOMAIN table => table[key] = value

Ended == at' = Resting
Go(pc) == at' = [at EXCEPT !.pc = pc]
Placed(node, pc) == at.node = node /\ at.pc = pc

\* Fault: a preparation is identified with the execution that makes it.
OccurrencePerTry == <<state.step, at.id>>

\* The passage a window is prepared for: node path, thread, step and program.
Occurrence == <<state.step, 0>>

-----------------------------------------------------------------------------
(***************************************************************************)
(* Preparing the context.                                                  *)
(***************************************************************************)

\* A reader returns what its source holds at this moment, or fails (Drop).
ReadSource == file

\* A node is executed under a new occurrence; the sources it reads are read now.
BeginContext ==
    /\ at = Resting /\ state.node = "context" /\ layout.snapshots
    /\ ~cancelled /\ tries < MaxTries
    /\ tries' = tries + 1
    /\ at' = [Resting EXCEPT !.node = "context", !.pc = "produce", !.id = tries + 1,
                          !.inv = tries + 1, !.src = ReadSource]
    /\ UNCHANGED <<layout, state, file, registry, rec, cancelled, mishaps, outside,
                   shown, ran, refused>>

\* The producer's key covers the input and the provenance it was made from.
Produced(key) == ValueAt(registry, rec.results[key])

Produce ==
    /\ Placed("context", "produce")
    /\ IF at.src \in DOMAIN rec.results
         THEN at' = [at EXCEPT !.res = Produced(at.src), !.pc = "window"] /\ rec' = rec
         ELSE /\ rec' = [rec EXCEPT !.productions =
                            ClaimRecord(@, at.src, HeadOf(registry, "produced"))]
              /\ Go("publish")
    /\ UNCHANGED <<layout, state, tries, file, registry, cancelled, mishaps, outside,
                   shown, ran, refused>>

\* The route of the producer returns its result, which is published once; when the
\* route waits or fails the node will be executed again (Drop).
PublishProduct ==
    /\ Placed("context", "publish")
    /\ LET done == PublishUnique(registry, "produced", rec.productions[at.src], at.src,
                                 <<"producer", at.src, 0>>)
       IN /\ registry' = done.reg
          /\ IF done.err # "none" THEN Ended
             ELSE at' = [at EXCEPT !.rev = done.rev, !.pc = "keep"]
    /\ UNCHANGED <<layout, state, tries, file, rec, cancelled, mishaps, outside,
                   shown, ran, refused>>

KeepProduct ==
    /\ Placed("context", "keep")
    /\ rec' = [rec EXCEPT !.results = ClaimRecord(@, at.src, at.rev)]
    /\ at' = [at EXCEPT !.res = ValueAt(registry, at.rev), !.rev = None, !.pc = "window"]
    /\ UNCHANGED <<layout, state, tries, file, registry, cancelled, mishaps, outside,
                   shown, ran, refused>>

\* The agent owns its alias; a passage that has its window keeps it.
OpenWindow ==
    /\ Placed("context", "window")
    /\ rec' = [rec EXCEPT !.owner = TRUE]
    /\ IF Occurrence \in DOMAIN rec.windows
         THEN at' = [at EXCEPT !.rev = rec.windows[Occurrence], !.pc = "save"]
         ELSE Go("claim")
    /\ UNCHANGED <<layout, state, tries, file, registry, cancelled, mishaps, outside,
                   shown, ran, refused>>

Pending == DOMAIN rec.selections \ rec.used

\* One transaction gives the passage its command, or none, for good.
Claimed(o) ==
    IF o \in DOMAIN rec.choice THEN rec
    ELSE LET c == IF Pending = {} THEN None
                  ELSE CHOOSE x \in Pending : \A y \in Pending : x <= y
         IN [rec EXCEPT !.choice = AddRow(@, o, c),
                        !.used = IF c = None THEN @ ELSE @ \cup {c}]

ClaimSelection ==
    /\ Placed("context", "claim")
    /\ rec' = Claimed(Occurrence)
    /\ Go("select")
    /\ UNCHANGED <<layout, state, tries, file, registry, cancelled, mishaps, outside,
                   shown, ran, refused>>

\* The selected revision, or a capture of what was evaluated, whose base is kept.
SelectWindow ==
    /\ Placed("context", "select")
    /\ LET c == rec.choice[Occurrence] IN
       IF c # None
         THEN at' = [at EXCEPT !.rev = rec.selections[c], !.pc = "fix"] /\ rec' = rec
         ELSE /\ rec' = [rec EXCEPT !.captures = ClaimRecord(@, Occurrence,
                            [expected |-> HeadOf(registry, "window"), window |-> <<at.res, 0>>])]
              /\ Go("capture")
    /\ UNCHANGED <<layout, state, tries, file, registry, cancelled, mishaps, outside,
                   shown, ran, refused>>

PublishWindow ==
    /\ Placed("context", "capture")
    /\ LET saved == rec.captures[Occurrence]
           done == PublishUnique(registry, "window", saved.expected, saved.window,
                                 <<"capture", Occurrence[1], Occurrence[2]>>)
       IN /\ registry' = done.reg
          /\ IF done.err # "none" THEN Ended
             ELSE at' = [at EXCEPT !.rev = done.rev,
                                   !.pc = IF layout.route THEN "prepare" ELSE "fix"]
    /\ UNCHANGED <<layout, state, tries, file, rec, cancelled, mishaps, outside,
                   shown, ran, refused>>

\* The preparation flow has completed; the window is what the alias shows now.
PrepareWindow ==
    /\ Placed("context", "prepare")
    /\ at' = [at EXCEPT !.rev = HeadOf(registry, "window"), !.pc = "fix"]
    /\ UNCHANGED <<layout, state, tries, file, registry, rec, cancelled, mishaps, outside,
                   shown, ran, refused>>

FixWindow ==
    /\ Placed("context", "fix")
    /\ IF Reusable(rec.windows, Occurrence, at.rev)
         THEN rec' = [rec EXCEPT !.windows = ClaimRecord(@, Occurrence, at.rev)] /\ Go("save")
         ELSE rec' = rec /\ Ended
    /\ UNCHANGED <<layout, state, tries, file, registry, cancelled, mishaps, outside,
                   shown, ran, refused>>

\* The snapshot of the invocation; a Context node keeps the whole request with it.
SavePreparation ==
    /\ Placed("context", "save")
    /\ rec' = [rec EXCEPT !.prepared = ClaimRecord(@, at.inv,
                  [rev |-> at.rev, src |-> at.src, res |-> at.res])]
    /\ shown' = [shown EXCEPT ![state.step] = @ \cup {at.rev}]
    /\ IF layout.paired THEN Go("commit")
       ELSE at' = [at EXCEPT !.node = "model", !.pc = "request"]
    /\ UNCHANGED <<layout, state, tries, file, registry, cancelled, mishaps, outside, ran, refused>>

CommitContext ==
    /\ Placed("context", "commit")
    /\ state' = [state EXCEPT !.node = "model", !.prepared = at.inv, !.step = @ + 1]
    /\ Ended
    /\ UNCHANGED <<layout, tries, file, registry, rec, cancelled, mishaps, outside,
                   shown, ran, refused>>

-----------------------------------------------------------------------------
(***************************************************************************)
(* Asking the model.                                                       *)
(***************************************************************************)

\* A preparation of the checkpoint serves one model passage.
Unconsumed == state.consumed # state.prepared

\* A Model node takes the preparation of the checkpoint, once.
BeginModel ==
    /\ at = Resting /\ state.node = "model" /\ ~cancelled /\ tries < MaxTries
    /\ Unconsumed
    /\ tries' = tries + 1
    /\ at' = [Resting EXCEPT !.node = "model", !.pc = "request", !.id = tries + 1,
                          !.inv = state.prepared]
    /\ UNCHANGED <<layout, state, file, registry, rec, cancelled, mishaps, outside,
                   shown, ran, refused>>

\* Without a snapshot the request is made from the channels of the state, under a new
\* invocation each time.
BeginPlain ==
    /\ at = Resting /\ state.node = "context" /\ ~layout.snapshots
    /\ ~cancelled /\ tries < MaxTries
    /\ tries' = tries + 1
    /\ at' = [Resting EXCEPT !.node = "model", !.pc = "request", !.id = tries + 1,
                          !.inv = tries + 1]
    /\ UNCHANGED <<layout, state, file, registry, rec, cancelled, mishaps, outside,
                   shown, ran, refused>>

\* The manifest of the request names the occurrence that makes it.
RecordRequest ==
    /\ Placed("model", "request")
    /\ IF Reusable(rec.requests, at.inv, at.id)
         THEN /\ rec' = [rec EXCEPT !.requests = ClaimRecord(@, at.inv, at.id)]
              /\ Go("generate") /\ refused' = refused
         ELSE rec' = rec /\ Ended /\ refused' = TRUE
    /\ UNCHANGED <<layout, state, tries, file, registry, cancelled, mishaps, outside, shown, ran>>

\* The provider's complete answer; a tool the agent does not have fails the node.
Generate ==
    /\ Placed("model", "generate")
    /\ \E names \in Answers :
          IF \E i \in DOMAIN names : names[i] \notin Granted THEN Ended
          ELSE at' = [at EXCEPT !.pc = "seal", !.calls =
                        [i \in DOMAIN names |-> [inv |-> at.inv, index |-> i,
                                                 name |-> names[i], args |-> "asked",
                                                 provenance |-> layout.snapshots]]]
    /\ UNCHANGED <<layout, state, tries, file, registry, rec, cancelled, mishaps, outside,
                   shown, ran, refused>>

\* With a snapshot the calls get their provenance and are recorded.
SealCalls ==
    /\ Placed("model", "seal")
    /\ rec' = IF layout.snapshots
                THEN [rec EXCEPT !.sealed = ClaimRecord(@, at.inv, at.calls)] ELSE rec
    /\ Go("commit")
    /\ UNCHANGED <<layout, state, tries, file, registry, cancelled, mishaps, outside,
                   shown, ran, refused>>

CallId(call) == <<call.inv, call.index>>
Said(calls) == [i \in DOMAIN calls |-> [kind |-> "call", id |-> CallId(calls[i])]]
Reply(call) == [kind |-> "result", id |-> CallId(call)]

CommitModel ==
    /\ Placed("model", "commit")
    /\ state' = [state EXCEPT
          !.node = IF at.calls # <<>> THEN "tools" ELSE "context",
          !.calls = at.calls, !.consumed = at.inv, !.step = @ + 1,
          !.history = @ \o Said(at.calls)]
    /\ Ended
    /\ UNCHANGED <<layout, tries, file, registry, rec, cancelled, mishaps, outside,
                   shown, ran, refused>>

-----------------------------------------------------------------------------
(***************************************************************************)
(* Running the calls.                                                      *)
(***************************************************************************)

BeginTools ==
    /\ at = Resting /\ state.node = "tools" /\ tries < MaxTries
    /\ tries' = tries + 1
    /\ at' = [Resting EXCEPT !.node = "tools", !.pc = "call", !.id = tries + 1,
                          !.calls = state.calls]
    /\ UNCHANGED <<layout, state, file, registry, rec, cancelled, mishaps, outside,
                   shown, ran, refused>>

\* Fault: any call of a known invocation is authorized.
KnownInvocation(call) == call.inv \in DOMAIN rec.sealed

\* The call must be, to its arguments, the one recorded for the invocation.
AuthorizeCall(call) ==
    /\ call.inv \in DOMAIN rec.sealed
    /\ call.index \in DOMAIN rec.sealed[call.inv]
    /\ rec.sealed[call.inv][call.index] = call
    /\ call.name \in Granted

\* A tool node of format 1 asks for no authorization of a call without provenance.
Exempt(call) == ~layout.v2 /\ ~call.provenance
\* Windows and flows are only served to the call of a recorded invocation.
NeedsInvocation(call) == call.name \in {"patch", "flow"}
Permitted(call) == AuthorizeCall(call) \/ (Exempt(call) /\ ~NeedsInvocation(call))

Last == IF layout.single THEN 1 ELSE Len(at.calls)
Current == at.calls[at.done + 1]
Answered == at' = [at EXCEPT !.done = @ + 1, !.replies = Append(@, Reply(Current))]
CallNext == /\ Placed("tools", "call") /\ ~at.over /\ at.done < Last
            /\ (at.done > 0 => ~cancelled)

\* A refused or cancelled call is answered without an effect.
DenyCall ==
    /\ CallNext
    /\ ~Permitted(Current) \/ cancelled
    /\ Answered
    /\ UNCHANGED <<layout, state, tries, file, registry, rec, cancelled, mishaps, outside,
                   shown, ran, refused>>

\* A workspace tool.
ToolCall ==
    /\ CallNext
    /\ Permitted(Current) /\ ~cancelled /\ ~NeedsInvocation(Current)
    /\ ran' = ran \cup {Current}
    /\ Answered
    /\ UNCHANGED <<layout, state, tries, file, registry, rec, cancelled, mishaps, outside,
                   shown, refused>>

\* A window patch names the revision the model was shown; a conflict is its result.
PatchCall ==
    /\ CallNext
    /\ AuthorizeCall(Current) /\ ~cancelled /\ Current.name = "patch"
    /\ LET base == rec.prepared[Current.inv].rev
           window == ValueAt(registry, base)
       IN registry' = PublishUnique(registry, "window", base, <<window[1], window[2] + 1>>,
                               <<"patch", Current.inv, Current.index>>).reg
    /\ ran' = ran \cup {Current}
    /\ Answered
    /\ UNCHANGED <<layout, state, tries, file, rec, cancelled, mishaps, outside,
                   shown, refused>>

\* A called flow returns, or takes the control over: the other calls are not run.
RouteCall ==
    /\ CallNext
    /\ AuthorizeCall(Current) /\ ~cancelled /\ Current.name = "flow"
    /\ ran' = ran \cup {Current}
    /\ \/ Answered
       \/ at' = [at EXCEPT !.done = Len(at.calls), !.over = TRUE, !.replies =
                   @ \o [i \in 1..(Len(at.calls) - at.done) |-> Reply(at.calls[at.done + i])]]
    /\ UNCHANGED <<layout, state, tries, file, registry, rec, cancelled, mishaps, outside,
                   shown, refused>>

\* A called flow waits: what was answered is committed, the rest stays requested.
RouteWaits ==
    /\ CallNext
    /\ AuthorizeCall(Current) /\ ~cancelled /\ Current.name = "flow"
    /\ Disturbable /\ mishaps < Mishaps /\ mishaps' = mishaps + 1
    /\ ran' = ran \cup {Current}
    /\ state' = [state EXCEPT !.history = @ \o at.replies,
                              !.calls = SubSeq(@, at.done + 1, Len(@))]
    /\ Ended
    /\ UNCHANGED <<layout, tries, file, registry, rec, cancelled, outside, shown, refused>>

\* An abort closes every request of the batch.
Closed ==
    IF cancelled
      THEN at.replies \o [i \in 1..(Len(at.calls) - at.done) |-> Reply(at.calls[at.done + i])]
      ELSE at.replies

CommitTools ==
    /\ Placed("tools", "call")
    /\ at.over \/ at.done >= Last \/ (cancelled /\ at.done > 0)
    /\ LET left == IF cancelled \/ at.over THEN <<>>
                   ELSE SubSeq(at.calls, at.done + 1, Len(at.calls))
       IN state' = [state EXCEPT
             !.node = IF at.over THEN "end" ELSE IF left # <<>> THEN "tools" ELSE "context",
             !.calls = left, !.step = @ + 1, !.history = @ \o Closed]
    /\ Ended
    /\ UNCHANGED <<layout, tries, file, registry, rec, cancelled, mishaps, outside,
                   shown, ran, refused>>

-----------------------------------------------------------------------------
(***************************************************************************)
(* Faults and others.                                                      *)
(***************************************************************************)

\* The process dies, the node times out, its provider or its route fails, or a
\* route of the preparation waits: the node will be executed again.
Drop ==
    /\ at # Resting /\ Disturbable /\ mishaps < Mishaps
    /\ mishaps' = mishaps + 1
    /\ Ended
    /\ cancelled' \in {cancelled, FALSE}
    /\ UNCHANGED <<layout, state, tries, file, registry, rec, outside, shown, ran, refused>>

\* The user stops the run.  A context or model execution is abandoned at once.
Stop ==
    /\ ~cancelled /\ Disturbable /\ mishaps < Mishaps
    /\ mishaps' = mishaps + 1
    /\ cancelled' = TRUE
    /\ at' = IF at.node = "tools" THEN at ELSE Resting
    /\ UNCHANGED <<layout, state, tries, file, registry, rec, outside, shown, ran, refused>>

Resume ==
    /\ cancelled /\ at = Resting
    /\ cancelled' = FALSE
    /\ UNCHANGED <<layout, state, at, tries, file, registry, rec, mishaps, outside,
                   shown, ran, refused>>

ByOthers == Disturbable /\ outside < Outside /\ outside' = outside + 1

EditFile ==
    /\ ByOthers
    /\ file' \in Texts \ {file}
    /\ UNCHANGED <<layout, state, at, tries, registry, rec, cancelled, mishaps,
                   shown, ran, refused>>

\* Another agent of the flow, or a preparation flow, patches the window.
PatchByOther ==
    /\ ByOthers
    /\ Known(registry, "window")
    /\ LET head == HeadOf(registry, "window") IN
       registry' = PublishUnique(registry, "window", head,
                <<ValueAt(registry, head)[1], ValueAt(registry, head)[2] + 1>>,
                <<"other", outside, 0>>).reg
    /\ UNCHANGED <<layout, state, at, tries, file, rec, cancelled, mishaps,
                   shown, ran, refused>>

\* A node of the flow rewrites the channel the tool node reads its calls from: the
\* arguments of a call, or the whole call, which then has no provenance.
RewriteCalls ==
    /\ ByOthers
    /\ at = Resting /\ state.node = "tools"
    /\ \E kept \in {state.calls[1].provenance, FALSE} :
         state' = [state EXCEPT !.calls[1].args = "rewritten", !.calls[1].provenance = kept]
    /\ UNCHANGED <<layout, at, tries, file, registry, rec, cancelled, mishaps,
                   shown, ran, refused>>

\* queue_selection: the agent has prepared this window, the revision exists, and
\* no earlier selection waits.
QueueSelection(c) ==
    /\ c \notin DOMAIN rec.selections
    /\ rec.owner /\ Known(registry, "window")
    /\ Pending = {}
    /\ \E rev \in DOMAIN registry.revs :
          /\ registry.revs[rev].entity = registry.alias["window"].entity
          /\ rec' = [rec EXCEPT !.selections = AddRow(@, c, rev)]
    /\ UNCHANGED <<layout, state, at, tries, file, registry, cancelled, mishaps, outside,
                   shown, ran, refused>>

Prepare ==
    \/ BeginContext \/ Produce \/ PublishProduct \/ KeepProduct
    \/ OpenWindow \/ ClaimSelection \/ SelectWindow \/ PublishWindow \/ PrepareWindow
    \/ FixWindow \/ SavePreparation \/ CommitContext
Ask == BeginModel \/ BeginPlain \/ RecordRequest \/ Generate \/ SealCalls \/ CommitModel
RunCalls ==
    BeginTools \/ DenyCall \/ ToolCall \/ PatchCall \/ RouteCall \/ RouteWaits \/ CommitTools
Outsiders ==
    \/ Drop \/ Stop \/ Resume \/ EditFile \/ PatchByOther \/ RewriteCalls
    \/ \E c \in Commands : QueueSelection(c)

TurnsNext == state.step < MaxSteps /\ (Prepare \/ Ask \/ RunCalls \/ Outsiders)

TurnsSpec == TurnsInit /\ [][TurnsNext]_turns

-----------------------------------------------------------------------------
(***************************************************************************)
(* What must hold.                                                         *)
(***************************************************************************)

\* However often a passage is executed, and whatever happens to the window in
\* between, its model is given one and the same window revision.
PassageFixed == \A s \in DOMAIN shown : Cardinality(shown[s]) <= 1

\* A selection is used by one passage at most, and that passage shows it.
SelectionUsedOnce ==
    /\ \A o, p \in DOMAIN rec.choice :
          rec.choice[o] # None /\ rec.choice[o] = rec.choice[p] => o = p
    /\ \A o \in DOMAIN rec.choice \cap DOMAIN rec.windows :
          rec.choice[o] # None => rec.windows[o] = rec.selections[rec.choice[o]]

\* A produced resource in a preparation was made from the source text that this
\* preparation read, also when the text has come back to an earlier one.
ProducedFromRead ==
    \A i \in DOMAIN rec.prepared : rec.prepared[i].res = rec.prepared[i].src

\* From format 2 on an effect is started only for a call some model invocation
\* recorded, with its arguments; in format 1, for a call with provenance, for a
\* patched window and for a called flow.
Sealed(c) == c.inv \in DOMAIN rec.sealed /\ rec.sealed[c.inv][c.index] = c
OnlySealedCallsRun ==
    \A c \in ran : layout.v2 \/ c.provenance \/ NeedsInvocation(c) => Sealed(c)

Paired(history, calls) ==
    LET Of(kind) == {i \in DOMAIN history : history[i].kind = kind}
        open == {history[i].id : i \in Of("call")} \ {history[i].id : i \in Of("result")}
    IN /\ \A i, j \in DOMAIN history : history[i] = history[j] => i = j
       /\ \A i \in Of("result") :
            \E j \in Of("call") : j < i /\ history[j].id = history[i].id
       /\ open = {CallId(calls[i]) : i \in DOMAIN calls}

\* In every checkpoint the calls without an answer are those still requested,
\* none is answered twice and none is answered before it is made.
CallsPaired == Paired(state.history, state.calls)

\* A node that is executed again, under its retry policy or after a restart,
\* gets to its model again.
RetryReachesModel == ~refused

\* The context of a passage: repeated executions show the model one window, a
\* selection serves one passage, and products belong to the text that was read.
PassagesRepeat == PassageFixed /\ SelectionUsedOnce /\ ProducedFromRead

\* The calls of a model: where they are authorized only recorded ones run, and in
\* every checkpoint each call has its one answer or is still requested.
CallsSound == OnlySealedCallsRun /\ CallsPaired

-----------------------------------------------------------------------------
(* The strengthening under which PassagesRepeat and CallsSound are inductive.  *)

Shaped ==
    /\ at = [node |-> at.node, pc |-> at.pc, id |-> at.id, inv |-> at.inv, src |-> at.src,
             res |-> at.res, rev |-> at.rev, calls |-> at.calls, done |-> at.done,
             replies |-> at.replies, over |-> at.over]
    /\ state = [node |-> state.node, step |-> state.step, prepared |-> state.prepared,
                consumed |-> state.consumed, calls |-> state.calls, history |-> state.history]
    /\ rec = [productions |-> rec.productions, results |-> rec.results, owner |-> rec.owner,
              selections |-> rec.selections, used |-> rec.used, choice |-> rec.choice,
              captures |-> rec.captures, windows |-> rec.windows, prepared |-> rec.prepared,
              requests |-> rec.requests, sealed |-> rec.sealed]

\* An execution belongs to the node of the checkpoint; a preparation is newer than
\* what the model has consumed, until it is consumed.
Numbered ==
    /\ tries \in Nat /\ state.prepared \in Nat /\ state.consumed \in Nat
    /\ state.prepared <= tries /\ state.consumed <= tries
    /\ state.node = "model" => state.consumed < state.prepared
    /\ at.node \in {"context", "model"} =>
         at.inv \in Nat /\ state.consumed < at.inv /\ at.inv <= tries
PlacedAt ==
    /\ at.node \in {"none", "context", "model", "tools"}
    /\ at.node = "context" => state.node = "context"
    /\ at.node = "model" => state.node \in {"context", "model"}
    /\ at.node = "tools" => state.node = "tools"

ToolCalls == [inv : Nat, index : Nat, name : STRING, args : {"asked", "rewritten"},
              provenance : BOOLEAN]
Messages == [kind : {"call", "result"}, id : Nat \X Nat]

\* The calls of an invocation differ by their index, and only the tool node has any.
Distinct(calls) == \A i, j \in DOMAIN calls : CallId(calls[i]) = CallId(calls[j]) => i = j
Spoken ==
    /\ state.calls \in Seq(ToolCalls) /\ state.history \in Seq(Messages)
    /\ Distinct(state.calls)
    /\ state.calls # <<>> <=> state.node = "tools"
    /\ \A i \in DOMAIN state.history : state.history[i].id[1] <= state.consumed
    /\ CallsPaired

\* What the model said is of its invocation; what the tool node has answered are the
\* first of the checkpoint's calls, in their order.
Working ==
    /\ at.node = "model" /\ at.pc \in {"seal", "commit"} =>
         /\ at.calls \in Seq(ToolCalls)
         /\ \A i \in DOMAIN at.calls : CallId(at.calls[i]) = <<at.inv, i>>
    /\ at.node = "tools" =>
         /\ at.calls = state.calls /\ at.done \in 0..Len(at.calls)
         /\ at.replies = [i \in 1..at.done |-> Reply(at.calls[i])]
         /\ at.over => at.done = Len(at.calls)

CallsInv == Numbered /\ PlacedAt /\ Spoken /\ Working /\ OnlySealedCallsRun

\* What a passage has shown is the window it is recorded with, and a window that a
\* selection gave is that selection's.
ShownKept ==
    /\ shown = [s \in 1..MaxSteps |-> shown[s]]
    /\ \A s \in 1..MaxSteps : \A v \in shown[s] :
         <<s, 0>> \in DOMAIN rec.windows /\ v = rec.windows[<<s, 0>>]
ChoicesKept ==
    /\ DOMAIN rec.selections \subseteq Commands
    /\ \A x, y \in Pending : x = y
    /\ \A o \in DOMAIN rec.choice : rec.choice[o] # None =>
         rec.choice[o] \in DOMAIN rec.selections \cap rec.used
    /\ SelectionUsedOnce
Preparing ==
    at.node = "context" =>
      /\ at.pc = "save" => Occurrence \in DOMAIN rec.windows /\ at.rev = rec.windows[Occurrence]
      /\ at.pc = "claim" => Occurrence \notin DOMAIN rec.windows
      /\ at.pc \in {"select", "capture", "prepare", "fix"} => Occurrence \in DOMAIN rec.choice
      /\ at.pc \in {"capture", "prepare"} => rec.choice[Occurrence] = None
      /\ at.pc = "fix" /\ rec.choice[Occurrence] # None =>
           at.rev = rec.selections[rec.choice[Occurrence]]

WindowsInv == ShownKept /\ ChoicesKept /\ Preparing

\* A recorded product is a revision with the text it was made from.
RegistryShaped(r) ==
    /\ r = [revs |-> r.revs, head |-> r.head, alias |-> r.alias, pub |-> r.pub]
    /\ Len(r.revs) \in Nat /\ r.revs = [i \in 1..Len(r.revs) |-> r.revs[i]]
    /\ \A id \in DOMAIN r.pub : r.pub[id].rev \in 1..Len(r.revs)
Shows(r, rev, value) == rev \in 1..Len(r.revs) /\ ValueAt(r, rev) = value
ProductsInv ==
    /\ RegistryShaped(registry)
    /\ \A k \in DOMAIN rec.results : Shows(registry, rec.results[k], k)
    /\ at.node = "context" /\ at.pc = "keep" => Shows(registry, at.rev, at.src)
    /\ at.node = "context" /\ at.pc \notin {"produce", "publish", "keep"} => at.res = at.src
    /\ ProducedFromRead

TurnsInv == layout \in Layouts /\ Shaped /\ CallsInv /\ WindowsInv /\ ProductsInv
=============================================================================
