--------------------------- MODULE ContextSource ---------------------------
(***************************************************************************)
(* The readable Rust source of a context strategy                          *)
(* (zf-context/src/context_source.rs): the builder calls that generate     *)
(* writes and the parser that accepts only those.  A source is the tree of *)
(* its calls, macros and literals; w is the number of delimiters and       *)
(* operators a node adds around its parts, which source_complexity bounds. *)
(***************************************************************************)
EXTENDS ContextStrategies

\* MAX_SYNTAX_DEPTH: eight delimiters per level of the language.
MaxSyntaxDepth == 8 * MaxDepth

Build(kind, op, parts) == [s |-> "call", kind |-> kind, path |-> op, parts |-> parts, w |-> 1]
Quoted(v) == [s |-> "text", v |-> v, parts |-> <<>>, w |-> 0]
PathTo(p) == [s |-> "path", path |-> p, parts |-> <<>>, w |-> 0]
VecOf(parts) == [s |-> "vec", parts |-> parts, w |-> 2]
PairsOf(names, parts) == [s |-> "pairs", names |-> names, parts |-> parts, w |-> 3]
StructOf(p, parts) == [s |-> "struct", path |-> p, parts |-> parts, w |-> 1]
Json0(kind, parts) == [s |-> "json", path |-> kind, parts |-> parts, w |-> 1]

-----------------------------------------------------------------------------
(* generate *)

RECURSIVE TypeSource(_)
TypeSource(t) ==
    LET names == SortedNames(DOMAIN t.fields)
    IN  CASE t.k \in {"text", "number", "boolean"} -> PathTo(t.k)
          [] t.k = "list" -> StructOf("list", <<Build("Box", "new", <<TypeSource(t.item)>>)>>)
          [] t.k = "record" ->
               StructOf("record", <<PairsOf(names,
                            [i \in DOMAIN names |-> TypeSource(t.fields[names[i]])])>>)
          [] t.k = "media" -> StructOf("media", <<Quoted("png")>>)
          [] t.k = "named" -> StructOf("named", <<Quoted(t.name)>>)

\* Variant of NumberSource that writes every number as an integer.
NumberPlain(n, float) ==
    [s |-> "number", digits |-> IF n < 0 THEN -n ELSE n, negative |-> n < 0,
     suffix |-> "i64", parts |-> <<>>, w |-> 0]

\* A number is written with its suffix; a minus sign is a token of its own.
NumberSource(n, float) ==
    [s |-> "number", digits |-> IF n < 0 THEN -n ELSE n, negative |-> n < 0,
     suffix |-> IF float THEN "f64" ELSE "i64", parts |-> <<>>, w |-> IF n < 0 THEN 1 ELSE 0]

RECURSIVE JsonSource(_)
JsonSource(v) ==
    CASE v.k = "num" -> NumberSource(v.n, v.float)
      [] v.k = "str" -> Quoted(v.s)
      [] v.k = "arr" -> Json0("array", [i \in DOMAIN v.a |-> JsonSource(v.a[i])])
      [] v.k = "obj" ->
           LET names == SortedNames(DOMAIN v.o)
           IN  [Json0("object", [i \in DOMAIN names |-> JsonSource(v.o[names[i]])])
                  EXCEPT !.path = names, !.s = "braced"]
      [] v.k = "bool" -> PathTo(IF v.b THEN "true" ELSE "false")

RECURSIVE ExpressionSource(_)

\* predicate_source and expression_source: the order of a builder's arguments.
PredicateSource(p) ==
    LET E == [i \in DOMAIN p.args |-> ExpressionSource(p.args[i])]
    IN  Build("ContextPredicate", p.op,
          CASE p.op = "compare" -> <<E[1], PathTo(p.operator), E[2]>>
            [] p.op \in {"contains", "eq"} -> <<E[1], E[2]>>
            [] p.op \in {"present", "not"} -> <<E[1]>>
            [] p.op \in {"and", "or"} -> <<VecOf(E)>>)

ExpressionSource(e) ==
    LET E == [i \in DOMAIN e.args |-> ExpressionSource(e.args[i])]
    IN  IF e.op \in Predicates THEN PredicateSource(e)
        ELSE Build("ContextExpr", e.op,
          CASE e.op \in {"variable", "resource"} -> <<Quoted(e.name)>>
            [] e.op = "literal" -> <<TypeSource(e.t), Json0("json", <<JsonSource(e.v)>>)>>
            [] e.op = "construct" -> <<Quoted(e.name), E[1]>>
            [] e.op \in {"filter", "map", "groupBy", "dedup"} -> <<E[1], Quoted(e.item), E[2]>>
            [] e.op = "sort" -> <<E[1], Quoted(e.item), E[2], Quoted(e.desc)>>
            [] e.op \in {"take", "truncate"} -> <<E[1], NumberSource(e.count, FALSE)>>
            [] e.op = "field" -> <<E[1], Quoted(e.field)>>
            [] e.op = "project" -> <<E[1], [Quoted(e.fields) EXCEPT !.w = 2]>>
            [] e.op = "record" -> <<PairsOf(e.names, E)>>
            [] e.op = "template" -> <<Quoted(e.parts), PairsOf(e.names, E)>>
            [] e.op = "list" -> <<TypeSource(e.t), VecOf(E)>>
            [] e.op = "measure" -> <<E[1], PathTo(e.unit)>>
            [] e.op = "call" -> <<PathTo("Projection"), Quoted(e.name), PairsOf(e.names, E)>>
            [] e.op = "toJson" -> <<E[1]>>)

RECURSIVE BlocksSource(_)
BlocksSource(bs) ==
    VecOf([i \in DOMAIN bs |->
      LET b == bs[i]
      IN  Build("ContextBlock", b.op,
            CASE b.op = "forEach" -> <<Quoted(b.id), ExpressionSource(b.args[1]), Quoted(b.item),
                                       BlocksSource(b.items)>>
              [] b.op = "group" -> <<Quoted(b.id), Quoted("label"), BlocksSource(b.items)>>
              [] b.op = "emit" -> <<Quoted(b.id), PathTo(b.role), PathTo(b.format),
                                    ExpressionSource(b.args[1])>>
              [] b.op = "if" -> <<Quoted(b.id), ExpressionSource(b.args[1]),
                                  BlocksSource(b.then), BlocksSource(b.otherwise)>>)])

-----------------------------------------------------------------------------
(* parse *)

Unparsed == [op |-> "none"]
NoSource == [s |-> "none"]
Failed(x) == "op" \in DOMAIN x /\ x.op = "none"
AnyFailed(xs) == \E i \in DOMAIN xs : Failed(xs[i])

\* source_complexity: the delimiters and operators around the innermost token.
RECURSIVE Complexity(_)
Complexity(n) == n.w + Max({0} \cup {Complexity(n.parts[i]) : i \in DOMAIN n.parts})

RECURSIVE ParseType(_, _)
ParseType(n, d) ==
    IF d > MaxDepth THEN Unparsed
    ELSE CASE n.s = "path" /\ n.path \in {"text", "number", "boolean"} -> [k |-> n.path]
           [] n.s = "struct" /\ n.path = "list" ->
                LET t == ParseType(n.parts[1].parts[1], d + 1)
                IN  IF Failed(t) THEN t ELSE List(t)
           [] n.s = "struct" /\ n.path = "record" ->
                LET names == n.parts[1].names
                    ts == [i \in DOMAIN names |-> ParseType(n.parts[1].parts[i], d + 1)]
                IN  IF AnyFailed(ts) \/ ~IsInjective(names) THEN Unparsed
                    ELSE Record([f \in ToSet(names) |-> ts[CHOOSE i \in DOMAIN names : names[i] = f]])
           [] n.s = "struct" /\ n.path = "media" -> Media
           [] n.s = "struct" /\ n.path = "named" -> Named(n.parts[1].v)
           [] OTHER -> Unparsed

\* json_literal: at most 64 levels, and numbers by their suffix.
RECURSIVE ParseJson(_, _)
ParseJson(n, d) ==
    IF d > MaxDepth THEN Unparsed
    ELSE LET kids == [i \in DOMAIN n.parts |-> ParseJson(n.parts[i], d + 1)]
         IN  CASE n.s = "text" -> Str(n.v)
               [] n.s = "path" -> Bool(n.path = "true")
               [] n.s = "number" -> [k |-> "num", n |-> IF n.negative THEN -n.digits ELSE n.digits,
                                     float |-> n.suffix = "f64"]
               [] AnyFailed(kids) -> Unparsed
               [] n.s = "json" -> Arr(kids)
               [] n.s = "braced" -> Obj([f \in ToSet(n.path) |->
                                             kids[CHOOSE i \in DOMAIN n.path : n.path[i] = f]])

RECURSIVE ParseExpression(_, _)
RECURSIVE ParsePredicate(_, _)

\* parse_pairs: the table of arguments has a level of its own, its values another.
ParsePairs(n, d) ==
    IF d > MaxDepth \/ ~IsInjective(n.names) THEN <<Unparsed>>
    ELSE [i \in DOMAIN n.parts |-> ParseExpression(n.parts[i], d + 1)]

Checked(node) == IF AnyFailed(node.args) THEN Unparsed ELSE node

\* One builder call with its arguments, each a level deeper.
ParsePredicate(n, d) ==
    IF d > MaxDepth \/ n.s # "call" \/ n.kind # "ContextPredicate" THEN Unparsed
    ELSE LET op == n.path
             p == n.parts
             e(i) == ParseExpression(p[i], d + 1)
             all == [j \in DOMAIN p[1].parts |-> ParsePredicate(p[1].parts[j], d + 1)]
         IN  Checked(CASE op = "compare" -> Compare(e(1), p[2].path, e(3))
                       [] op = "contains" -> Includes(e(1), e(2))
                       [] op = "eq" -> Equal(e(1), e(2))
                       [] op = "present" -> Present(e(1))
                       [] op = "not" -> Negate(ParsePredicate(p[1], d + 1))
                       [] op = "and" -> And(all)
                       [] op = "or" -> Or(all))

\* A literal's type and value, and a list's item type, start at level 0 again.
ParseTyped(n, d) ==
    LET t == ParseType(n.parts[1], 0)
        json == ParseJson(n.parts[2].parts[1], 0)
        items == [j \in DOMAIN n.parts[2].parts |-> ParseExpression(n.parts[2].parts[j], d + 1)]
    IN  CASE Failed(t) -> Unparsed
          [] n.path = "list" -> Checked(ListOf(t, items))
          [] n.path = "literal" -> IF Failed(json) THEN Unparsed ELSE Literal(t, json)

ParseExpression(n, d) ==
    IF d > MaxDepth \/ n.s # "call" \/ n.kind # "ContextExpr" THEN Unparsed
    ELSE LET op == n.path
             p == n.parts
             e(i) == ParseExpression(p[i], d + 1)
         IN  CASE op = "variable" -> Variable(p[1].v)
               [] op = "resource" -> Resource(p[1].v)
               [] op \in {"literal", "list"} -> ParseTyped(n, d)
               [] op = "construct" -> Checked(Construct(p[1].v, e(2)))
               [] op = "filter" -> Checked(Filter(e(1), p[2].v, ParsePredicate(p[3], d + 1)))
               [] op \in {"map", "groupBy", "dedup"} -> Checked(Keyed(op, e(1), p[2].v, e(3)))
               [] op = "sort" -> Checked(Sort(e(1), p[2].v, e(3), p[4].v))
               [] op = "take" -> Checked(Take(e(1), p[2].digits))
               [] op = "truncate" -> Checked(Truncate(e(1), p[2].digits))
               [] op = "field" -> Checked(Field(e(1), p[2].v))
               [] op = "project" -> Checked(Project(e(1), p[2].v))
               [] op = "record" -> Checked(RecordOf(p[1].names, ParsePairs(p[1], d + 1)))
               [] op = "template" -> Checked(Template(p[1].v, p[2].names, ParsePairs(p[2], d + 1)))
               [] op = "measure" -> Checked(Measure(e(1), p[2].path))
               [] op = "call" -> Checked(Call(p[2].v, p[3].names, ParsePairs(p[3], d + 1)))
               [] op = "toJson" -> Checked(ToJson(e(1)))

RECURSIVE ParseBlocks(_, _)
ParsedBlock(n, p, kids) ==
    IF \E i \in DOMAIN kids : AnyFailed(kids[i]) THEN Unparsed
    ELSE CASE n = "group" -> Group(p[1].v, kids[1])
           [] n = "forEach" -> ForEach(p[1].v, kids[1][1], p[3].v, kids[2])
           [] n = "emit" -> Emit(p[1].v, p[2].path, p[3].path, kids[1][1])
           [] n = "if" -> If(p[1].v, kids[1][1], kids[2], kids[3])
ParseBlock(n, d) ==
    LET e(i) == ParseExpression(n.parts[i], d + 1)
        bs(i) == ParseBlocks(n.parts[i], d + 1)
    IN  ParsedBlock(n.path, n.parts,
          CASE n.path = "group" -> <<bs(3)>>
            [] n.path = "forEach" -> <<<<e(2)>>, bs(4)>>
            [] n.path = "emit" -> <<<<e(4)>>>>
            [] n.path = "if" -> <<<<ParsePredicate(n.parts[2], d + 1)>>, bs(3), bs(4)>>)

\* parse_blocks: the level is checked before the blocks, even when there are none.
ParseBlocks(n, d) ==
    IF d > MaxDepth \/ n.s # "vec" THEN <<Unparsed>>
    ELSE [i \in DOMAIN n.parts |-> ParseBlock(n.parts[i], d)]

-----------------------------------------------------------------------------
TypesSource(types) == [n \in DOMAIN types |-> TypeSource(types[n])]
ParseTypes(source) == [n \in DOMAIN source |-> ParseType(source[n], 0)]
TypesParsed(types) == \A n \in DOMAIN types : ~Failed(types[n])

\* generate: a strategy that is structurally valid, as a chain of builder methods.
Generate(strategy) ==
    IF ~ValidateStructure(strategy) THEN NoSource
    ELSE [s |-> "strategy", w |-> 3, types |-> TypesSource(strategy.types),
          req |-> TypesSource(strategy.req), parts |-> <<BlocksSource(strategy.program)>>]

\* parse: the complexity first, then the builders, then the structural check.
Parsed(strategy) ==
    IF \/ ~TypesParsed(strategy.types) \/ ~TypesParsed(strategy.req)
       \/ AnyFailed(strategy.program)
       \/ ~ValidateStructure(strategy)
    THEN Unparsed ELSE strategy
Parse(source) ==
    IF source = NoSource \/ Complexity(source) > MaxSyntaxDepth THEN Unparsed
    ELSE Parsed([types |-> ParseTypes(source.types), req |-> ParseTypes(source.req),
                 program |-> ParseBlocks(source.parts[1], 0)])

\* A library is checked like a strategy without a program, its types unbound.
EmptyStrategy == [types |-> <<>>, req |-> <<>>, program |-> <<>>]
ValidateLibraryStructure(library) == CheckStrategy(EmptyStrategy, <<>>, FALSE, library)

GenerateLibrary(library) ==
    [f \in DOMAIN library |-> [params |-> TypesSource(library[f].params),
                               output |-> TypeSource(library[f].output),
                               body |-> ExpressionSource(library[f].body)]]

ParsedLibrary(library) ==
    IF \/ \E f \in DOMAIN library : \/ ~TypesParsed(library[f].params)
                                    \/ Failed(library[f].output) \/ Failed(library[f].body)
       \/ ~ValidateLibraryStructure(library)
    THEN <<>> ELSE library
ParseLibrary(source) ==
    ParsedLibrary([f \in DOMAIN source |-> [params |-> ParseTypes(source[f].params),
                                             output |-> ParseType(source[f].output, 0),
                                             body |-> ParseExpression(source[f].body, 0)]])
=============================================================================
