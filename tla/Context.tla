------------------------------ MODULE Context ------------------------------
(***************************************************************************)
(* The preparation of one context: an accepted strategy is evaluated       *)
(* against the resources acquired so far, what it still needs is acquired, *)
(* the complete evaluation is captured as a window, and the window is      *)
(* edited.                                                                 *)
(***************************************************************************)
EXTENDS ContextWindows, ContextSource

CONSTANTS
    Strategies,      \* the strategies considered
    External,        \* the type registry of the scope
    Library,         \* the functions of the scope
    Candidates,      \* for each resource, the values a reader may return
    LimitSets,       \* the evaluation limits considered
    Generous,        \* limits no considered evaluation meets
    Representations, \* the formats and values of representation edits
    MaxEdits         \* bound on the number of edits submitted

VARIABLES
    strategy,        \* the strategy
    resources,       \* the resources acquired: a function on their names
    limits,          \* the evaluation's limits
    evaluation,      \* the last ContextEvaluation
    window,          \* the captured window, or NoWindow
    edits            \* the edits submitted so far

vars == <<strategy, resources, limits, evaluation, window, edits>>

Run(s, res, lim) == Evaluate(s, res, External, Library, lim)

Init ==
    /\ strategy \in {s \in Strategies : ValidateStrategy(s, External, Library)}
    /\ resources = <<>>
    /\ limits \in LimitSets
    /\ evaluation = Run(strategy, <<>>, limits)
    /\ window = NoWindow
    /\ edits = <<>>

\* A reader returns one resource the evaluation needs; the strategy is evaluated again.
Acquire(r) ==
    /\ r \in evaluation.needs
    /\ ~window.ok
    /\ \E v \in Candidates[r] :
           /\ resources' = (r :> v) @@ resources
           /\ evaluation' = Run(strategy, resources', limits)
    /\ UNCHANGED <<strategy, limits, window, edits>>

CaptureWindow ==
    /\ evaluation.complete
    /\ ~window.ok
    /\ window' = Capture(evaluation, evaluation.reads)
    /\ UNCHANGED <<strategy, resources, limits, evaluation, edits>>

\* The edits an agent may submit for the items it sees; parents and indexes may be wrong.
EditsOf(w) ==
    LET ids == ToSet(ItemIds(w.items))
    IN  {[op |-> "move", id |-> i, parent |-> p, index |-> n] :
             i \in ids, p \in ids \cup {Top}, n \in 0..2}
        \cup {[op |-> "remove", id |-> i] : i \in ids}
        \cup {[op |-> "replace", id |-> i, item |-> Found(w.items, j)[1]] : i, j \in ids}
        \cup {[op |-> "representation", id |-> i, format |-> r.format, value |-> r.value] :
                  i \in ids, r \in Representations}

\* A refused edit leaves the window as it was.
Edit ==
    /\ window.ok
    /\ Len(edits) < MaxEdits
    /\ \E e \in EditsOf(window) :
           /\ LET w == Patched(window, <<e>>)
              IN  window' = IF w.ok THEN w ELSE window
           /\ edits' = Append(edits, e)
    /\ UNCHANGED <<strategy, resources, limits, evaluation>>

Next ==
    \/ \E r \in DOMAIN strategy.req : Acquire(r)
    \/ CaptureWindow
    \/ Edit

Spec == Init /\ [][Next]_vars
-----------------------------------------------------------------------------
(* Properties. *)

WellTyped == \A r \in DOMAIN resources :
                 ValidValue(strategy.req[r], resources[r], ResolvedTypes(strategy, External))

RECURSIVE Fragments(_)
Fragments(items) ==
    UNION {IF items[i].kind = "group" THEN Fragments(items[i].items) ELSE {items[i]} :
               i \in DOMAIN items}

\* Every snapshot that differs from the resources in one resource at most.
OtherSnapshots ==
    {[q \in DOMAIN resources \ {r} |-> resources[q]] : r \in DOMAIN strategy.req}
    \cup UNION {{(r :> v) @@ resources : v \in Candidates[r]} : r \in DOMAIN strategy.req}

\* A strategy the checker accepted does not go wrong: with well-typed resources and
\* room to spare no diagnostic appears, and whenever an evaluation calls itself
\* complete every emitted block that ran has its item and every condition its outcome.
\* An error without a diagnostic would leave a window with a piece missing.
NothingMissing ==
    /\ WellTyped /\ limits = Generous => ~evaluation.diag
    /\ evaluation.complete =>
           \A i \in DOMAIN evaluation.trace :
               LET t == evaluation.trace[i]
               IN  /\ t.op = "emit" => t.outputs = <<t.id>>
                   /\ t.op = "if" => t.outcome # "none"

\* The resources recorded as read, absent ones included, decide the evaluation: any
\* snapshot that agrees on them gives the same result.  The captured revisions of
\* a window are those of these resources.
ReadsDecide ==
    \A s \in OtherSnapshots :
        (\A r \in evaluation.reads :
             (r \in DOMAIN s) = (r \in DOMAIN resources)
             /\ (r \in DOMAIN s => s[r] = resources[r]))
        => Run(strategy, s, limits) = evaluation

\* The sources of a fragment decide its value: when another resource changes, the
\* same occurrence, if it is still there, says the same.
SourcesDecide ==
    limits = Generous => \A s \in OtherSnapshots :
        LET changed == {r \in DOMAIN strategy.req :
                            \/ (r \in DOMAIN s) # (r \in DOMAIN resources)
                            \/ r \in DOMAIN s /\ s[r] # resources[r]}
            other == Fragments(Run(strategy, s, limits).items)
        IN  \A f \in Fragments(evaluation.items), g \in other :
                f.id = g.id /\ f.sources \cap changed = {} => f.value = g.value

\* A budget that runs out is never taken for completion: what a bounded evaluation
\* calls complete is what the unbounded one gives.
LimitsHonest ==
    evaluation.complete => evaluation.items = Run(strategy, resources, Generous).items

\* The levels below a list of items.  A group has one even when it is empty.
RECURSIVE GroupLevels(_)
GroupLevels(items) ==
    Max({0} \cup {1 + GroupLevels(items[i].items) : i \in {j \in DOMAIN items : items[j].kind = "group"}})

\* Needs are only what has not been acquired, and a complete evaluation that has
\* neither more items nor more levels than a window can be captured: its identifiers
\* are distinct even when a loop repeats a block.
Capturable ==
    /\ evaluation.needs \cap DOMAIN resources = {}
    /\ /\ evaluation.complete
       /\ Len(ItemIds(evaluation.items)) <= MaxWindowItems
       /\ GroupLevels(evaluation.items) <= MaxDepth
       => Capture(evaluation, evaluation.reads).ok

\* The levels below an expression, and below a program, as its author counts them in
\* the source: one for each call, and one more for a table of names or for a program
\* inside a block, whatever they hold.
RECURSIVE Levels(_)
Levels(e) ==
    Max({0} \cup {1 + Levels(e.args[i]) : i \in DOMAIN e.args})
    + IF e.op \in {"record", "template", "call"} THEN 1 ELSE 0

Inside(b) == CASE b.op \in {"group", "forEach"} -> {b.items}
               [] b.op = "if" -> {b.then, b.otherwise}
               [] b.op = "emit" -> {}
RECURSIVE ProgramLevels(_)
ProgramLevels(bs) ==
    Max({0} \cup UNION {{1 + Levels(bs[i].args[j]) : j \in DOMAIN bs[i].args}
                          \cup {1 + ProgramLevels(p) : p \in Inside(bs[i])} : i \in DOMAIN bs})

\* What the editor saves is what it reads back: a strategy that passes the structural
\* check is generated as Rust source that parses to the same strategy, and so is
\* each function of the library, as long as the source has no more levels than a
\* program may have; beyond, it is refused and never read as something else.
RoundTrip ==
    /\ ValidateStructure(strategy) =>
           Parse(Generate(strategy)) =
             IF ProgramLevels(strategy.program) <= MaxDepth THEN strategy ELSE Unparsed
    /\ \A f \in DOMAIN Library :
           LET alone == f :> Library[f]
           IN  ValidateLibraryStructure(alone) =>
                  ParseLibrary(GenerateLibrary(alone)) =
                    IF Levels(Library[f].body) <= MaxDepth THEN alone ELSE <<>>

\* An accepted edit touches one item: the others keep their places and contents, and
\* a moved item keeps its subtree and is not lost.
EditsAreLocalStep ==
    edits' # edits =>
        LET e == edits'[Len(edits')]
        IN  /\ Removed(window'.items, e.id) = Removed(window.items, e.id)
            /\ e.op = "move" => Found(window'.items, e.id) = Found(window.items, e.id)
            /\ e.op # "replace" => ToSet(ItemIds(window'.items)) \subseteq ToSet(ItemIds(window.items))
EditsAreLocal == [][EditsAreLocalStep]_vars

\* An evaluation that calls itself complete is the whole answer and can be
\* captured, and what it says it depends on is what it depends on.
EvaluationSound ==
    NothingMissing /\ Capturable /\ LimitsHonest /\ ReadsDecide /\ SourcesDecide
=============================================================================
