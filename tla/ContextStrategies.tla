------------------------- MODULE ContextStrategies -------------------------
(***************************************************************************)
(* Context strategies (zf-context/src/context.rs): the expressions,        *)
(* predicates and blocks an author composes, and the checker that accepts  *)
(* a strategy before anything is evaluated.  A node is a record with its   *)
(* constructor in op and its sub-expressions in args, in evaluation order. *)
(*                                                                         *)
(* The checker works on a scope c: the named types, the declared           *)
(* resources, the library of functions, the variables, and whether types   *)
(* are linked (the structural validation of an independent source leaves   *)
(* names unbound).  It gives each expression a result [ok, t]: whether no  *)
(* diagnostic was recorded, and the type if there is one.                  *)
(***************************************************************************)
EXTENDS ContextTypes

Literal(t, v) == [op |-> "literal", t |-> t, v |-> v, args |-> <<>>]
Variable(x) == [op |-> "variable", name |-> x, args |-> <<>>]
Resource(r) == [op |-> "resource", name |-> r, args |-> <<>>]
Field(e, f) == [op |-> "field", field |-> f, args |-> <<e>>]
Project(e, fs) == [op |-> "project", fields |-> fs, args |-> <<e>>]
Construct(n, e) == [op |-> "construct", name |-> n, args |-> <<e>>]
Filter(e, x, p) == [op |-> "filter", item |-> x, args |-> <<e, p>>]
Keyed(op, e, x, body) == [op |-> op, item |-> x, args |-> <<e, body>>]
Sort(e, x, key, desc) == [op |-> "sort", item |-> x, desc |-> desc, args |-> <<e, key>>]
Take(e, n) == [op |-> "take", count |-> n, args |-> <<e>>]
Truncate(e, n) == [op |-> "truncate", count |-> n, args |-> <<e>>]
RecordOf(names, es) == [op |-> "record", names |-> names, args |-> es]
ListOf(t, es) == [op |-> "list", t |-> t, args |-> es]
Template(parts, names, es) == [op |-> "template", parts |-> parts, names |-> names, args |-> es]
ToJson(e) == [op |-> "toJson", args |-> <<e>>]
Measure(e, unit) == [op |-> "measure", unit |-> unit, args |-> <<e>>]
Call(f, names, es) == [op |-> "call", name |-> f, names |-> names, args |-> es]

Compare(l, o, r) == [op |-> "compare", operator |-> o, args |-> <<l, r>>]
Includes(v, i) == [op |-> "contains", args |-> <<v, i>>]
Present(e) == [op |-> "present", args |-> <<e>>]
Equal(l, r) == [op |-> "eq", args |-> <<l, r>>]
And(ps) == [op |-> "and", args |-> ps]
Or(ps) == [op |-> "or", args |-> ps]
Negate(p) == [op |-> "not", args |-> <<p>>]

\* A block identifier: authored text, and the places appended to it in loops.
Id(b) == [b |-> b, at |-> <<>>, u |-> 0]
Emit(id, role, format, e) ==
    [op |-> "emit", id |-> id, role |-> role, format |-> format, args |-> <<e>>]
Group(id, items) == [op |-> "group", id |-> id, args |-> <<>>, items |-> items]
If(id, p, then, otherwise) ==
    [op |-> "if", id |-> id, args |-> <<p>>, then |-> then, otherwise |-> otherwise]
ForEach(id, e, x, items) ==
    [op |-> "forEach", id |-> id, item |-> x, args |-> <<e>>, items |-> items]

\* template_parts: a placeholder is one simple name between "{{" and "}}".
\* A template is a sequence of tokens: texts, the two delimiters, names.
Open == [k |-> "open"]
Close == [k |-> "close"]
Chars(s) == [k |-> "chars", s |-> s]
Name(n) == [k |-> "name", name |-> n]

TemplateSyntax(parts) ==
    \A i \in DOMAIN parts : parts[i] = Open =>
        i + 2 \in DOMAIN parts /\ parts[i + 1].k = "name" /\ parts[i + 2] = Close

Placeholders(parts) ==
    {parts[i].name : i \in {j \in DOMAIN parts : parts[j].k = "name"
                                                   /\ j > 1 /\ parts[j - 1] = Open}}

-----------------------------------------------------------------------------
(* The checker. *)

\* resolved_types: a strategy may not redefine a name of its scope.
TypesConflict(strategy, external) ==
    \E n \in DOMAIN strategy.types \cap DOMAIN external : strategy.types[n] # external[n]
ResolvedTypes(strategy, external) == strategy.types @@ external

Scope(strategy, types, linked, library) ==
    [types |-> types, linked |-> linked, req |-> strategy.req, lib |-> library,
     vars |-> <<>>, inFunction |-> FALSE, active |-> {}]

Judged(ok, t) == [ok |-> ok, t |-> t]
Refused == Judged(FALSE, NoType)

\* Checker::data_type; append drops unknown_type while types are not linked.
TypeOK(t, c) == TypeErrors(t, c.types, {}, 0) \subseteq (IF c.linked THEN {} ELSE {"unknown_type"})

\* A type is compared with its declaration when it is known.
Matches(actual, declared, c) ==
    \/ actual = NoType
    \/ ~c.linked /\ ~(ValidType(actual, c.types) /\ ValidType(declared, c.types))
    \/ Compatible(actual, declared, c.types)

In(c, x, t) == [c EXCEPT !.vars = (x :> t) @@ @]

RECURSIVE TypeOf(_, _, _)

\* Checker::function: the body is typed with its parameters only, and no function
\* reaches itself.  The code types a body once; typing it at each call asks the same.
FunctionType(f, c, d) ==
    CASE d > MaxDepth \/ f \in c.active -> Refused
      [] f \notin DOMAIN c.lib -> Judged(~c.linked /\ DOMAIN c.lib = {}, NoType)
      [] OTHER ->
           LET fn == c.lib[f]
               body == TypeOf(fn.body, [c EXCEPT !.vars = fn.params, !.inFunction = TRUE,
                                                 !.active = @ \cup {f}], d + 1)
           IN  Judged(/\ \A x \in DOMAIN fn.params : TypeOK(fn.params[x], c)
                      /\ TypeOK(fn.output, c)
                      /\ body.ok
                      /\ Matches(body.t, fn.output, c),
                      fn.output)

CollectionItem(e, c, d) ==
    LET source == TypeOf(e.args[1], c, d + 1)
        list == Resolved(source.t, c.types)
    IN  Judged(source.ok /\ list.k \in {"list", "none"},
               IF list.k = "list" THEN list.item ELSE NoType)

\* The resolved type of a sort key must be ordered.
SortKeyOK(t, c) == Resolved(t, c.types).k \in {"text", "number"}

KeyedType(e, c, d) ==
    LET item == CollectionItem(e, c, d)
        body == TypeOf(e.args[2], In(c, e.item, item.t), d + 1)
        output == CASE e.op = "map" -> body.t
                    [] e.op = "groupBy" -> Record([key |-> body.t, items |-> List(item.t)])
                    [] OTHER -> item.t
    IN  CASE item.t = NoType -> item
          [] e.op = "filter" -> Judged(item.ok /\ body.ok, List(item.t))
          [] body.t = NoType -> Judged(item.ok /\ body.ok, NoType)
          [] OTHER -> Judged(item.ok /\ body.ok /\ (e.op = "sort" => SortKeyOK(body.t, c)),
                             List(output))

\* Operations on one list or one text.
SequenceType(e, c, d) ==
    LET source == TypeOf(e.args[1], c, d + 1)
        shape == Resolved(source.t, c.types)
    IN  CASE e.op = "toJson" -> Judged(source.ok, Text)
          [] source.t = NoType -> source
          [] e.op = "take" -> Judged(source.ok /\ shape.k = "list", source.t)
          [] e.op = "truncate" -> Judged(source.ok /\ shape = Text, Text)
          [] e.op = "measure" /\ shape = NoType -> Judged(source.ok, NoType)
          [] e.op = "measure" ->
               Judged(/\ source.ok
                      /\ CASE e.unit = "bytes" -> TRUE
                           [] e.unit = "items" -> shape.k = "list"
                           [] e.unit = "media" ->
                                \/ shape.k = "media"
                                \/ shape.k = "list" /\ Resolved(shape.item, c.types).k = "media",
                      Number)

\* Expressions with a list of operands.
CompositeType(e, c, d) ==
    LET arg == [i \in DOMAIN e.args |-> TypeOf(e.args[i], c, d + 1)]
        allOK == \A i \in DOMAIN arg : arg[i].ok
        known == {i \in DOMAIN arg : arg[i].t # NoType}
        fn == FunctionType(e.name, c, d + 1)
    IN  CASE e.op = "record" ->
               Judged(allOK, Record([n \in {e.names[i] : i \in known} |->
                                        arg[CHOOSE i \in known : e.names[i] = n].t]))
          [] e.op = "list" ->
               Judged(TypeOK(e.t, c) /\ allOK /\ \A i \in DOMAIN arg : Matches(arg[i].t, e.t, c),
                      List(e.t))
          [] e.op = "template" ->
               Judged(/\ TemplateSyntax(e.parts)
                      /\ Placeholders(e.parts) = ToSet(e.names)
                      /\ allOK
                      /\ \A i \in known : Resolved(arg[i].t, c.types) = Text,
                      Text)
          [] e.op = "call" ->
               Judged(/\ fn.ok /\ allOK
                      /\ e.name \in DOMAIN c.lib =>
                             /\ DOMAIN c.lib[e.name].params = ToSet(e.names)
                             /\ \A i \in DOMAIN arg : e.names[i] \in DOMAIN c.lib[e.name].params =>
                                    Matches(arg[i].t, c.lib[e.name].params[e.names[i]], c),
                      fn.t)

\* Field access and construction of a nominal value.
AccessType(e, c, d) ==
    LET source == TypeOf(e.args[1], c, d + 1)
        shape == Resolved(source.t, c.types)
        target == Resolved(Named(e.name), c.types)
        selected == ToSet(e.fields)
    IN  CASE e.op = "construct" ->
               IF source.t = NoType THEN Judged(TypeOK(Named(e.name), c) /\ source.ok, NoType)
               ELSE Judged(/\ TypeOK(Named(e.name), c) /\ source.ok
                           /\ NoType \notin {shape, target} =>
                                  Compatible(shape, target, c.types),
                           Named(e.name))
          [] shape = NoType -> Judged(source.ok, NoType)
          [] shape.k # "record" -> Refused
          [] e.op = "field" -> IF e.field \in DOMAIN shape.fields
                               THEN Judged(source.ok, shape.fields[e.field]) ELSE Refused
          [] e.op = "project" ->
               Judged(/\ source.ok /\ e.fields # <<>>
                      /\ selected \subseteq DOMAIN shape.fields
                      /\ Cardinality(selected) = Len(e.fields),
                      Record([f \in selected \cap DOMAIN shape.fields |-> shape.fields[f]]))

LeafType(e, c) ==
    CASE e.op = "variable" -> IF e.name \in DOMAIN c.vars THEN Judged(TRUE, c.vars[e.name])
                                                          ELSE Refused
      [] e.op = "resource" -> IF ~c.inFunction /\ e.name \in DOMAIN c.req
                              THEN Judged(TRUE, c.req[e.name]) ELSE Refused
      [] e.op = "literal" -> Judged(TypeOK(e.t, c) /\ (ValidType(e.t, c.types) =>
                                                         CheckValue(e.t, e.v, c.types)), e.t)

\* Predicates have no type; the result keeps Boolean in its place.
PredicateType(p, c, d) ==
    LET arg == [i \in DOMAIN p.args |-> TypeOf(p.args[i], c, d + 1)]
        allOK == \A i \in DOMAIN arg : arg[i].ok
        both == \A i \in DOMAIN arg : arg[i].t # NoType
        left == Resolved(arg[1].t, c.types)
    IN  Judged(allOK /\
               CASE p.op = "compare" ->
                      both => /\ arg[1].t = arg[2].t
                              /\ p.operator # "ne" => left = Number
                 [] p.op = "contains" ->
                      both /\ left # NoType =>
                          \/ left = Text /\ arg[2].t = Text
                          \/ left.k = "list" /\ left.item = arg[2].t
                 [] p.op = "eq" -> both => arg[1].t = arg[2].t
                 [] p.op \in {"and", "or"} -> p.args # <<>>
                 [] OTHER -> TRUE,
               Boolean)

Predicates == {"compare", "contains", "present", "eq", "and", "or", "not"}

TypeOf(e, c, d) ==
    CASE d > MaxDepth -> Refused
      [] e.op \in {"literal", "variable", "resource"} -> LeafType(e, c)
      [] e.op \in {"filter", "map", "sort", "groupBy", "dedup"} -> KeyedType(e, c, d)
      [] e.op \in {"take", "truncate", "toJson", "measure"} -> SequenceType(e, c, d)
      [] e.op \in {"record", "list", "template", "call"} -> CompositeType(e, c, d)
      [] e.op \in {"field", "project", "construct"} -> AccessType(e, c, d)
      [] e.op \in Predicates -> PredicateType(e, c, d)

\* What a fragment's representation accepts.
FragmentOK(b, t, c) ==
    /\ b.role = "instruction" => b.format = "text"
    /\ CASE t = NoType -> TRUE
         [] b.format = "text" -> t = Text
         [] b.format = "json" -> t.k # "media"
         [] b.format = "media" -> t.k = "media"
         [] b.format = "adkMessages" -> t.k = "list" /\ Resolved(t.item, c.types).k = "record"

\* Checker::blocks: each block in order, with the identifiers met so far.
RECURSIVE BlocksOK(_, _, _, _)

\* The body of a loop over items of a type, if it is one.
LoopOK(b, c, d, ids, item) ==
    IF item.t = NoType THEN [ok |-> item.ok, ids |-> ids]
    ELSE [BlocksOK(b.items, In(c, b.item, item.t), d + 1, ids) EXCEPT !.ok = @ /\ item.ok]

\* The second branch of a condition, after the condition and the first branch.
BranchOK(b, c, d, condition, then) ==
    [BlocksOK(b.otherwise, c, d + 1, then.ids)
        EXCEPT !.ok = @ /\ condition.ok /\ then.ok]

BlockOK(b, c, d, ids) ==
    CASE b.op = "group" -> BlocksOK(b.items, c, d + 1, ids)
      [] b.op = "forEach" -> LoopOK(b, c, d, ids, CollectionItem(b, c, d))
      [] b.op = "emit" ->
           LET value == TypeOf(b.args[1], c, d + 1)
           IN  [ok |-> value.ok /\ FragmentOK(b, Resolved(value.t, c.types), c), ids |-> ids]
      [] b.op = "if" -> BranchOK(b, c, d, TypeOf(b.args[1], c, d + 1),
                                 BlocksOK(b.then, c, d + 1, ids))

Also(this, bs, c, d) == [BlocksOK(bs, c, d, this.ids) EXCEPT !.ok = @ /\ this.ok]
BlocksOK(bs, c, d, seen) ==
    IF bs = <<>> THEN [ok |-> TRUE, ids |-> seen]
    ELSE IF d > MaxDepth \/ Head(bs).id \in seen THEN [ok |-> FALSE, ids |-> seen]
    ELSE Also(BlockOK(Head(bs), c, d, seen \cup {Head(bs).id}), Tail(bs), c, d)

\* check: the schemas, the requirements, the library, then the program.
CheckStrategy(strategy, external, linked, library) ==
    LET c == Scope(strategy, ResolvedTypes(strategy, external), linked, library)
    IN  /\ ~TypesConflict(strategy, external)
        /\ \A n \in DOMAIN strategy.types : TypeOK(strategy.types[n], c)
        /\ \A r \in DOMAIN strategy.req : TypeOK(strategy.req[r], c)
        /\ \A f \in DOMAIN library : FunctionType(f, c, 0).ok
        /\ BlocksOK(strategy.program, c, 0, {}).ok

ValidateStrategy(strategy, types, library) == CheckStrategy(strategy, types, TRUE, library)

\* An independent source is accepted without the scope's types or library.
ValidateStructure(strategy) == CheckStrategy(strategy, <<>>, FALSE, <<>>)
=============================================================================
