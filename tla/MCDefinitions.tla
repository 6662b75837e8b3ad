--------------------------- MODULE MCDefinitions ---------------------------
(***************************************************************************)
(* What a run is made of and works with.  A behaviour explores one of four *)
(* parts, which share no state: the acceptance of sources, bridges and     *)
(* packages, the definitions of a run's super-steps, the evaluation of a   *)
(* context strategy, or the values of the content store.                   *)
(***************************************************************************)
EXTENDS Context, Revisions

CONSTANTS
    Procs, Sources, Bridge, Package, Imports, Runs, Nobody,     \* see Authoring
    Tasks                                                       \* see ContentStore

VARIABLES scenario,
    file, backup, sourceJ, packageJ, importJ, hist, receipts, base, revHead, graphHead,
    proc, mutex, excl, shared, ops, faults, edited, late, lost, wedged, since, overtaken,
    content, edges, records, known, task, stores, aborts, wrote

-----------------------------------------------------------------------------
(***************************************************************************)
(* Strategies built from two resources, a list of notes and a tag, one and *)
(* two operations deep, ill-typed combinations included.                   *)
(***************************************************************************)
MCNames == <<"a", "b", "contentRef", "items", "key", "mediaType">>
Registry == [Tag |-> Text, Note |-> Record([a |-> Named("Tag"), b |-> Number])]
MCExternal == <<>>      \* a strategy brings its schemas

Requirements == [notes |-> List(Named("Note")), tag |-> Named("Tag")]

note(a, b) == Obj([a |-> Str(a), b |-> b])
wide == Obj([a |-> Str(<<1>>), b |-> Int2(1), key |-> Bool(TRUE)])
MCCandidates ==
    [notes |-> {Arr(<<>>), Arr(<<note(<<2, 3>>, Half(1)), wide, note(<<1>>, Int2(1))>>), Str(<<1>>)},
     tag |-> {Str(<<1>>), Str(<<2, 3>>)}]

MCLibrary ==
    [head |-> [params |-> [x |-> Named("Tag")], output |-> Text, body |-> Truncate(Variable("x"), 1)],
     tags |-> [params |-> [x |-> List(Named("Note"))], output |-> List(Named("Tag")),
               body |-> Keyed("map", Variable("x"), "y", Field(Variable("y"), "a"))],
     twice |-> [params |-> [x |-> Text], output |-> List(Text),
                body |-> ListOf(Text, <<Variable("x"), Variable("x")>>)]]

R1 == Resource("notes")
R2 == Resource("tag")
VX == Variable("x")
One == Literal(Number, Int2(1))
Letter == Literal(Text, Str(<<1>>))
Numbers == Literal(List(Number), Arr(<<Int2(1), Half(-1), Half(1), Int2(0)>>))
A == Field(VX, "a")
B == Field(VX, "b")

Unary(S) ==
    UNION {{Field(e, "a"), Project(e, <<"a">>), Project(e, <<"b", "a">>), Construct("Tag", e),
            Construct("Note", e), Take(e, 1), Truncate(e, 1), ToJson(e), Measure(e, "bytes"),
            Measure(e, "items"), Measure(e, "media"), Call("head", <<"x">>, <<e>>), Call("tags", <<"x">>, <<e>>),
            Call("twice", <<"x">>, <<e>>), RecordOf(<<"a", "b">>, <<e, One>>), ListOf(Text, <<e, Letter>>),
            ListOf(Record([b |-> Number]), <<e>>),
            Template(<<Chars(<<1>>), Open, Name("a"), Close>>, <<"a">>, <<e>>)} : e \in S}

Closed == {Present(R2), Negate(Present(R1)), Includes(R2, R2), Equal(Field(RecordOf(<<"a">>, <<R2>>), "a"), R2),
           Includes(Call("tags", <<"x">>, <<R1>>), R2), Or(<<Present(R2), Present(R1)>>),
           And(<<Present(R2), Includes(ToJson(R1), Letter)>>)}
OnItem == {Equal(A, R2), Compare(B, "gt", One), Compare(VX, "lte", One), Compare(A, "ne", R2),
           Compare(A, "lt", R2), Includes(R1, VX), Present(R2)}

Keys == {VX, A, B, R2, ToJson(VX)}
Lists == {R1, Numbers, R2}
Collections ==
    {Filter(e, "x", p) : e \in Lists, p \in OnItem}
    \cup {Keyed(op, e, "x", k) : op \in {"map", "groupBy", "dedup"}, e \in Lists, k \in Keys}
    \cup {Sort(e, "x", k, d) : e \in {R1, Numbers}, k \in Keys, d \in BOOLEAN}

Picture == Literal(Media, MediaRef(5))
Atoms == {R1, R2, One, Letter, Numbers, Picture}
Level1 == Atoms \cup Unary(Atoms) \cup Collections
Level2 == Unary(Collections \cup {Take(R1, 1), Call("tags", <<"x">>, <<R1>>), ToJson(R1)})

data(id, format, e) == Emit(id, "data", format, e)
e1 == Id("e1")
loop == Id("loop")
\* An authored identifier that reads like the first occurrence of e1 in the loop.
lookalike == [b |-> "e1", at |-> <<<<1, 11, 1>>>>, u |-> 0]

Single == {<<data(e1, f, e)>> : f \in {"text", "json"}, e \in Level1 \cup Level2}
             \cup {<<data(e1, f, e)>> : f \in {"adkMessages", "media"}, e \in Level1}
Loops ==
    {<<ForEach(loop, s, "x", <<data(e1, f, e)>>), data(Id("e2"), "json", R2)>> :
         s \in {R1, Filter(R1, "x", Equal(A, R2)), R2},
         f \in {"text", "json"}, e \in {VX, A, B, ToJson(VX), Construct("Note", VX)}}
    \cup {<<ForEach(loop, Numbers, "x", <<data(e1, "json", e)>>), data(lookalike, "json", Letter)>> :
              e \in {VX, A, ToJson(VX)}}
    \cup {<<ForEach(loop, R1, "x", <<Group(Id("g"), <<If(Id("i"), p, <<data(e1, "json", A)>>, <<>>)>>)>>)>> :
              p \in OnItem}
Branches ==
    {<<If(Id("i"), p, <<data(e1, "json", e)>>, <<data(Id("e2"), "text", Letter)>>), data(Id("e3"), "json", R1)>> :
         p \in Closed, e \in {R1, R2}}
Trees ==
    {<<Group(Id("g1"), <<data(e1, "text", Letter), Group(Id("g2"), <<data(Id("e2"), "json", One)>>)>>),
       data(Id("e3"), "json", Numbers)>>}

\* Groups in groups, as deep as the checker allows and one level less: the parser
\* reads the second, and a window has room for it.
RECURSIVE Nested(_)
Nested(n) == IF n = 0 THEN <<>> ELSE <<Group([b |-> "g", at |-> <<n>>, u |-> 0], Nested(n - 1))>>
Deep == {Nested(n) : n \in MaxDepth..(MaxDepth + 2)}

Programs == Single \cup Loops \cup Branches \cup Trees \cup Deep
MCStrategies ==
    {[types |-> Registry, req |-> Requirements, program |-> p] :
         p \in Programs}

MCGenerous == [steps |-> 1000, items |-> 1000, bytes |-> 100000]
MCLimitSets == {MCGenerous, [steps |-> 9, items |-> 1000, bytes |-> 100000],
                [steps |-> 1000, items |-> 3, bytes |-> 12]}
MCRepresentations == {[format |-> "json", value |-> Str(<<2>>)], [format |-> "text", value |-> Int2(1)]}

-----------------------------------------------------------------------------
Auth == INSTANCE Authoring WITH MaxOps <- 3, Faults <- 2, Together <- 4

files == <<file, backup, sourceJ, packageJ, importJ, hist, receipts, base, revHead,
           graphHead, proc, mutex, excl, shared, ops, faults, edited, late, lost,
           wedged, since, overtaken>>

\* Two definitions of a sequential shape, two other sequential shapes, one of
\* them without the first one's node, and two parallel definitions.
ShapeOf == [d \in {"a1", "a2", "b", "c", "p1", "p2"} |->
               CASE d \in {"a1", "a2"} -> "A"
                 [] d = "b"            -> "B"
                 [] d = "c"            -> "C"
                 [] OTHER              -> "P"]

NodesOf == [s \in {"A", "B", "C", "P"} |->
               CASE s = "C" -> {"m"} [] s = "P" -> {"n", "m"} [] OTHER -> {"n"}]

MCDefs == DOMAIN ShapeOf

\* A short and a chunked text, an array and its extension, an object over them.
short == [kind |-> "text", s |-> <<1>>]
long == [kind |-> "text", s |-> <<1, 2, 1>>]
items(x) == [kind |-> "list", items |-> x]

Store == INSTANCE ContentStore WITH
           Values <- {short, long, items(<<short, long>>),
                      [kind |-> "map", fields |-> [a |-> items(<<short>>), b |-> long]]},
           Keys <- {"k"}, Lists <- {"l"}, Chunk <- 2, CacheLimit <- 5,
           MaxOps <- 3, MaxFaults <- 1, ops <- stores, faults <- aborts

values == <<content, edges, records, known, task, stores, aborts, wrote>>

-----------------------------------------------------------------------------
\* The parts that are not explored have one initial state.
MCInit ==
    /\ scenario \in {"files", "steps", "context", "content"}
    /\ IF scenario = "context" THEN TRUE
       ELSE /\ strategy = [types |-> Registry, req |-> Requirements,
                           program |-> <<data(e1, "text", Letter)>>]
            /\ limits = MCGenerous
    /\ IF scenario = "steps" THEN TRUE ELSE doc = "a1" /\ graphed = FALSE /\ busy = "none"
    /\ Init /\ Auth!Init /\ RevisionsInit /\ Store!Init

MCNext ==
    /\ scenario' = scenario
    /\ \/ /\ scenario = "files" /\ Auth!Next
          /\ UNCHANGED vars /\ UNCHANGED revisions /\ UNCHANGED values
       \/ /\ scenario = "steps" /\ RevisionsNext
          /\ UNCHANGED vars /\ UNCHANGED files /\ UNCHANGED values
       \/ /\ scenario = "context" /\ Next
          /\ UNCHANGED files /\ UNCHANGED revisions /\ UNCHANGED values
       \/ /\ scenario = "content" /\ Store!Next
          /\ UNCHANGED vars /\ UNCHANGED files /\ UNCHANGED revisions

MCSpec == MCInit /\ [][MCNext]_<<scenario, vars, files, revisions, values>>

Symmetry == Permutations(Procs)

\* ContentStore: what is stored reads back.
ContentKept == Store!ContentKept
\* Context: what an evaluation claims.  Capture and edits leave the evaluation as
\* it is, so it is asked before them.
ContextSound == scenario = "context" /\ ~window.ok => EvaluationSound
\* Context: a saved strategy reads back as it was.  It never changes, so this is
\* asked where its evaluation begins.
SourcesReadBack == scenario = "context" /\ resources = <<>> => RoundTrip

\* What a step may never do: take the heads of a run back to an older revision
\* (Authoring), take a node's interrupt for a boundary (Revisions), or let an
\* edit of a window change an item it does not name (Context).
StepsKeep ==
    /\ Auth!HeadsForward
    /\ [][WaitShownStep]_revisions
    /\ EditsAreLocal
=============================================================================
