------------------------- MODULE ContextEvaluation -------------------------
(***************************************************************************)
(* The evaluation of a context strategy against the resources acquired so  *)
(* far (zf-context/src/context.rs, Evaluator).  An expression gives a      *)
(* value, a missing resource or an error; the machine m carries the        *)
(* budgets spent, the resources read, the needs, the diagnostics and the   *)
(* trace.  A missing resource becomes a need of the block that asked; an   *)
(* error without a diagnostic leaves no mark but the absent output.        *)
(***************************************************************************)
EXTENDS ContextStrategies

\* What an evaluation works on: the strategy's scope, the snapshot, the limits.
Inputs(strategy, resources, types, library, limits) ==
    [res |-> resources, types |-> ResolvedTypes(strategy, types), req |-> strategy.req,
     lib |-> library, lim |-> limits]

RECURSIVE BlockIds(_)
BlockIds(bs) ==
    UNION {{bs[i].id} \cup CASE bs[i].op \in {"group", "forEach"} -> BlockIds(bs[i].items)
                             [] bs[i].op = "if" -> BlockIds(bs[i].then) \cup BlockIds(bs[i].otherwise)
                             [] OTHER -> {} : i \in DOMAIN bs}

Machine(strategy) ==
    [steps |-> 0, derived |-> 0, bytes |-> 0, count |-> 0, diag |-> FALSE, reads |-> {},
     all |-> {}, needs |-> {}, trace |-> <<>>, ids |-> BlockIds(strategy.program)]

Done(v, m) == [out |-> "ok", val |-> v, m |-> m]
Missing(r, m) == [out |-> "missing", val |-> r, m |-> m]
Invalid(m) == [out |-> "invalid", val |-> 0, m |-> m]
Diagnosed(m) == [m EXCEPT !.diag = TRUE]
Fault(m) == Invalid(Diagnosed(m))

\* The `?' operator.
Then(r, Op(_, _)) == IF r.out = "ok" THEN Op(r.val, r.m) ELSE r

Exhausted(c, m) == m.steps >= c.lim.steps
Tick(m) == [m EXCEPT !.steps = @ + 1]
Ticked(c, m) == IF Exhausted(c, m) THEN Fault(m) ELSE Done(0, Tick(m))

\* Evaluator::items, bytes and charge.
CountItems(v, c, m) ==
    IF ~IsList(v) THEN Invalid(m)
    ELSE IF Len(Items(v)) > c.lim.items THEN Fault(m) ELSE Done(Len(Items(v)), m)
CountBytes(v, c, m) ==
    IF Measured(v) > c.lim.bytes THEN Fault(m) ELSE Done(Measured(v), m)
Charge(n, c, m) ==
    IF n > c.lim.bytes - m.derived THEN Fault(m) ELSE Done(0, [m EXCEPT !.derived = @ + n])

\* ContextValue::equivalent.  Two JSON values are compared as JSON; a derived
\* record is compared key by key.
RECURSIVE Equivalent(_, _)
Equivalent(l, r) ==
    CASE IsList(l) /\ IsList(r) ->
           /\ Len(Items(l)) = Len(Items(r))
           /\ \A i \in DOMAIN Items(l) : Equivalent(Items(l)[i], Items(r)[i])
      [] l.k \notin {"Array", "Object"} /\ r.k \notin {"Array", "Object"} -> l = r
      [] IsRecord(l) /\ IsRecord(r) ->
           /\ Cardinality(DOMAIN Fields(l)) = Cardinality(DOMAIN Fields(r))
           /\ \A f \in DOMAIN Fields(l) :
                  f \in DOMAIN Fields(r) /\ Equivalent(Fields(l)[f], Fields(r)[f])
      [] OTHER -> FALSE

\* compare_values: -1, 0 or 1; texts by bytes; an integer and a float by the
\* float's integer part, then by the sign of its fraction.
Sign(n) == IF n < 0 THEN -1 ELSE IF n > 0 THEN 1 ELSE 0
Trunc(n) == IF n >= 0 THEN n \div 2 ELSE -((-n) \div 2)
IntFloat(i, f) ==
    LET whole == Sign(i \div 2 - Trunc(f))
        fract == f - 2 * Trunc(f)
    IN  IF whole # 0 THEN whole ELSE Sign(-fract)
RECURSIVE TextOrder(_, _)
TextOrder(l, r) ==
    CASE l = <<>> \/ r = <<>> -> Sign(Len(l) - Len(r))
      [] Head(l) # Head(r) -> Sign(Head(l) - Head(r))
      [] OTHER -> TextOrder(Tail(l), Tail(r))
CompareValues(l, r) ==
    CASE l.k = "str" /\ r.k = "str" -> TextOrder(l.s, r.s)
      [] l.k = "num" /\ r.k = "num" ->
           CASE l.float = r.float -> Sign(l.n - r.n)
             [] ~l.float -> IntFloat(l.n, r.n)
             [] OTHER -> -IntFloat(r.n, l.n)
      [] OTHER -> 2

\* A variable's value and the resources it came from.
BindSources(env, x, src) == [env EXCEPT !.src = (x :> src) @@ @]
Bind(env, x, v, src) == [BindSources(env, x, src) EXCEPT !.val = (x :> v) @@ @]
EmptyScope == [val |-> <<>>, src |-> <<>>, loops |-> <<>>]

-----------------------------------------------------------------------------
RECURSIVE Eval(_, _, _, _)

\* The operands in order; the first failure ends it.  The source sets a call
\* binds are those read up to each argument.
RECURSIVE EvalAll(_, _, _, _)
EvalAll(es, env, c, m) ==
    IF es = <<>> THEN Done(<<>>, m)
    ELSE Then(Eval(Head(es), env, c, m), LAMBDA v, m1 :
           Then(EvalAll(Tail(es), env, c, m1), LAMBDA vs, m2 :
             Done(<<[v |-> v, src |-> m1.reads]>> \o vs, m2)))

\* The body once per item, each in a scope with the item bound.  A key is
\* measured and charged.
RECURSIVE EvalEach(_, _, _, _, _, _)
EvalEach(e, items, src, env, c, m) ==
    IF items = <<>> THEN Done(<<>>, m)
    ELSE Then(Ticked(c, m), LAMBDA u, m0 :
           Then(Eval(e.args[2], Bind(env, e.item, Head(items), src), c, m0), LAMBDA v, m1 :
             Then(IF e.op \in {"filter", "map"} THEN Done(0, m1)
                  ELSE Then(CountBytes(v, c, m1), LAMBDA n, m2 : Charge(n, c, m2)), LAMBDA w, m3 :
               Then(EvalEach(e, Tail(items), src, env, c, m3), LAMBDA vs, m4 :
                 Done(<<[key |-> v, item |-> Head(items)]>> \o vs, m4)))))

\* A stable sort, as slice::sort_by; keys without an order count as equal.
Sorted(ps, desc) ==
    LET order(p, q) == LET o == CompareValues(p.key, q.key)
                       IN  IF o = 2 THEN 0 ELSE IF desc THEN -o ELSE o
        Before(i, j) == order(ps[i], ps[j]) < 0 \/ (order(ps[i], ps[j]) = 0 /\ i < j)
        at(i) == 1 + Cardinality({j \in DOMAIN ps : Before(j, i)})
    IN  [n \in DOMAIN ps |-> ps[CHOOSE i \in DOMAIN ps : at(i) = n]]

\* The first item of each key, and the items of each key in order.
Firsts(ps) == SelectSeq([i \in DOMAIN ps |-> [p |-> ps[i], i |-> i]],
                        LAMBDA q : \A j \in 1..(q.i - 1) : Json(ps[j].key) # Json(q.p.key))
Groups(ps) ==
    LET firsts == Firsts(ps)
    IN  [g \in DOMAIN firsts |->
           LET same == SelectSeq(ps, LAMBDA p : Json(p.key) = Json(firsts[g].p.key))
           IN  Object([key |-> firsts[g].p.key,
                       items |-> Array([i \in DOMAIN same |-> same[i].item])])]

RECURSIVE ChargeKeys(_, _, _)
ChargeKeys(ps, c, m) ==
    IF ps = <<>> THEN Done(0, m)
    ELSE Then(Charge(Bytes(Json(Head(ps).key)), c, m), LAMBDA u, m1 : ChargeKeys(Tail(ps), c, m1))

\* Evaluator::keyed and Filter.
EvalKeyed(e, env, c, m) ==
    Then(Eval(e.args[1], env, c, m), LAMBDA source, m1 :
      Then(CountItems(source, c, m1), LAMBDA n, m2 :
        Then(EvalEach(e, Items(source), m2.reads, env, c, m2), LAMBDA ps, m3 :
          LET items(qs) == Array([i \in DOMAIN qs |-> qs[i].item])
              encoded == ChargeKeys(ps, c, m3)
          IN  CASE e.op = "map" -> Done(Array([i \in DOMAIN ps |-> ps[i].key]), m3)
                [] e.op = "filter" -> Done(items(SelectSeq(ps, LAMBDA p : p.key)), m3)
                [] e.op = "sort" -> Done(items(Sorted(ps, e.desc)), m3)
                [] e.op = "dedup" -> Then(encoded, LAMBDA u, m4 :
                     Done(Array([i \in DOMAIN Firsts(ps) |-> Firsts(ps)[i].p.item]), m4))
                [] e.op = "groupBy" -> Then(encoded, LAMBDA u, m4 :
                     Done(Array(Groups(ps)), m4)))))

EvalSequence(e, env, c, m) ==
    Then(Eval(e.args[1], env, c, m), LAMBDA v, m1 :
      CASE e.op = "take" -> Then(CountItems(v, c, m1), LAMBDA n, m2 :
             Done(Array(SubSeq(Items(v), 1, IF e.count < n THEN e.count ELSE n)), m2))
        [] e.op = "truncate" ->
             IF ~IsText(v) THEN Invalid(m1)
             ELSE LET kept == SubSeq(v.s, 1, IF e.count < Len(v.s) THEN e.count ELSE Len(v.s))
                  IN  Then(Charge(Bytes(kept), c, m1), LAMBDA u, m2 : Done(Str(kept), m2))
        [] e.op = "toJson" -> Then(CountBytes(v, c, m1), LAMBDA n, m2 :
             Then(Charge(Bytes(Json(v)), c, m2), LAMBDA u, m3 : Done(Str(Json(v)), m3)))
        [] e.op = "measure" ->
             Then(CASE e.unit = "bytes" -> CountBytes(v, c, m1)
                    [] e.unit = "items" -> CountItems(v, c, m1)
                    [] e.unit = "media" -> IF IsList(v) THEN CountItems(v, c, m1) ELSE Done(1, m1),
                  LAMBDA n, m2 : Done(Int2(n), m2)))

\* The text of a template: its tokens, a placeholder replaced by its argument.
Filled(parts, args, c, m) ==
    LET text == Concat([i \in DOMAIN parts |->
                    CASE parts[i].k = "chars" -> parts[i].s
                      [] parts[i].k = "name" -> args[parts[i].name].s
                      [] OTHER -> <<>>])
    IN  IF \E x \in Placeholders(parts) : ~IsText(args[x]) THEN Invalid(m)
        ELSE IF Bytes(text) > c.lim.bytes THEN Fault(m)
        ELSE Then(Charge(Bytes(text), c, m), LAMBDA u, m1 : Done(Str(text), m1))

EvalComposite(e, env, c, m) ==
    IF e.op = "list" /\ Len(e.args) > c.lim.items THEN Fault(m)
    ELSE Then(EvalAll(e.args, env, c, m), LAMBDA vs, m1 :
      LET named == [n \in ToSet(e.names) |-> vs[CHOOSE i \in DOMAIN vs : e.names[i] = n]]
          values == [n \in DOMAIN named |-> named[n].v]
      IN  CASE e.op = "record" -> Done(Object(values), m1)
            [] e.op = "list" -> Done(Array([i \in DOMAIN vs |-> vs[i].v]), m1)
            [] e.op = "template" -> Filled(e.parts, values, c, m1)
            [] e.op = "call" ->
                 IF e.name \notin DOMAIN c.lib THEN Invalid(m1)
                 ELSE Eval(c.lib[e.name].body,
                           [env EXCEPT !.val = values,
                                       !.src = [n \in DOMAIN named |-> named[n].src]], c, m1))

EvalAccess(e, env, c, m) ==
    Then(Eval(e.args[1], env, c, m), LAMBDA v, m1 :
      LET field(f) == IsRecord(v) /\ f \in DOMAIN Fields(v)
      IN  CASE e.op = "field" -> IF field(e.field) THEN Done(Fields(v)[e.field], m1) ELSE Fault(m1)
            [] e.op = "project" ->
                 IF \A f \in ToSet(e.fields) : field(f)
                 THEN Done(Object([f \in ToSet(e.fields) |-> Fields(v)[f]]), m1) ELSE Fault(m1)
            [] e.op = "construct" ->
                 Then(IF v.k \notin {"Array", "Object"} THEN Done(0, m1)
                      ELSE Then(CountBytes(v, c, m1), LAMBDA n, m2 : Charge(n, c, m2)),
                   LAMBDA u, m3 : IF ValidValue(Named(e.name), Plain(v), c.types)
                                  THEN Done(v, m3) ELSE Fault(m3)))

\* Variant of ReadResource that records a resource only once it is found.
ReadFound(r, c, m) ==
    LET m1 == [m EXCEPT !.reads = @ \cup {r}, !.all = @ \cup {r}]
    IN  IF r \notin DOMAIN c.res THEN Missing(r, m)
        ELSE Then(CountBytes(c.res[r], c, m1), LAMBDA n, m2 :
               IF ValidValue(c.req[r], c.res[r], c.types) THEN Done(c.res[r], m2) ELSE Fault(m2))

\* A resource is recorded as read whether it is there or not, then checked.
ReadResource(r, c, m) ==
    LET m1 == [m EXCEPT !.reads = @ \cup {r}, !.all = @ \cup {r}]
    IN  IF r \notin DOMAIN c.res THEN Missing(r, m1)
        ELSE Then(CountBytes(c.res[r], c, m1), LAMBDA n, m2 :
               IF ValidValue(c.req[r], c.res[r], c.types) THEN Done(c.res[r], m2) ELSE Fault(m2))

\* A variable stands for the resources its value came from.
ReadVariable(x, env, m) ==
    LET m1 == [m EXCEPT !.reads = @ \cup IF x \in DOMAIN env.src THEN env.src[x] ELSE {}]
    IN  IF x \in DOMAIN env.val THEN Done(env.val[x], m1) ELSE Invalid(m1)

\* And, Or: the first item that decides ends the evaluation.
RECURSIVE EvalUntil(_, _, _, _, _)
EvalUntil(ps, stop, env, c, m) ==
    IF ps = <<>> THEN Done(~stop, m)
    ELSE Then(Eval(Head(ps), env, c, m), LAMBDA v, m1 :
           IF v = stop THEN Done(stop, m1) ELSE EvalUntil(Tail(ps), stop, env, c, m1))

\* The search of a list, one step per item looked at.
RECURSIVE Search(_, _, _, _)
Search(items, v, c, m) ==
    IF items = <<>> THEN Done(FALSE, m)
    ELSE Then(Ticked(c, m), LAMBDA u, m1 :
           IF Equivalent(Head(items), v) THEN Done(TRUE, m1) ELSE Search(Tail(items), v, c, m1))

IsInfix(s, t) == \E i \in 0..(Len(t) - Len(s)) : SubSeq(t, i + 1, i + Len(s)) = s

EvalComparison(p, env, c, m) ==
    Then(EvalAll(p.args, env, c, m), LAMBDA vs, m1 :
      LET l == vs[1].v  r == vs[2].v  o == CompareValues(l, r)
      IN  CASE p.op = "eq" -> Done(Equivalent(l, r), m1)
            [] p.op = "contains" ->
                 IF IsText(l) THEN IF IsText(r) THEN Done(IsInfix(r.s, l.s), m1) ELSE Invalid(m1)
                 ELSE Then(CountItems(l, c, m1), LAMBDA n, m2 : Search(Items(l), r, c, m2))
            [] p.operator = "ne" -> Done(~Equivalent(l, r), m1)
            [] o = 2 -> Invalid(m1)
            [] p.operator = "lt" -> Done(o < 0, m1)
            [] p.operator = "lte" -> Done(o <= 0, m1)
            [] p.operator = "gt" -> Done(o > 0, m1)
            [] p.operator = "gte" -> Done(o >= 0, m1))

Presence(r) == IF r.out = "invalid" THEN r ELSE Done(r.out = "ok", r.m)
EvalPresent(p, env, c, m) == Presence(Eval(p.args[1], env, c, m))

Eval(e, env, c, m) ==
    Then(Ticked(c, m), LAMBDA u, m1 :
      CASE e.op = "literal" -> Done(e.v, m1)
        [] e.op = "variable" -> ReadVariable(e.name, env, m1)
        [] e.op = "resource" -> ReadResource(e.name, c, m1)
        [] e.op \in {"filter", "map", "sort", "groupBy", "dedup"} -> EvalKeyed(e, env, c, m1)
        [] e.op \in {"take", "truncate", "toJson", "measure"} -> EvalSequence(e, env, c, m1)
        [] e.op \in {"record", "list", "template", "call"} -> EvalComposite(e, env, c, m1)
        [] e.op \in {"field", "project", "construct"} -> EvalAccess(e, env, c, m1)
        [] e.op \in {"compare", "contains", "eq"} -> EvalComparison(e, env, c, m1)
        [] e.op = "present" -> EvalPresent(e, env, c, m1)
        [] e.op = "and" -> EvalUntil(e.args, FALSE, env, c, m1)
        [] e.op = "or" -> EvalUntil(e.args, TRUE, env, c, m1)
        [] e.op = "not" -> Then(Eval(e.args[1], env, c, m1), LAMBDA v, m2 : Done(~v, m2)))

-----------------------------------------------------------------------------
(* Blocks. *)

\* A need remembers the resource; anything else has been diagnosed, or not.
Demand(r) == IF r.out = "missing" THEN [r.m EXCEPT !.needs = @ \cup {r.val}] ELSE r.m

\* Inside a loop an item is named after its block and its place, with as many
\* underscores as it takes to differ from every name in use.
OccurrenceId(id, path, env, m) ==
    IF env.loops = <<>> THEN id
    ELSE LET named(u) == [b |-> id.b, at |-> Append(id.at, path), u |-> u]
         IN  named(CHOOSE u \in 0..Cardinality(m.ids) :
                       named(u) \notin m.ids /\ \A w \in 0..(u - 1) : named(w) \in m.ids)

Output(items, m) == [items |-> items, m |-> m, outcome |-> "none"]

\* A list of blocks or a loop ends early, with a diagnostic, when the steps or the
\* trace are used up.
Stopped(m) == Output(<<>>, Diagnosed(m))
UsedUp(c, m) == Exhausted(c, m) \/ Len(m.trace) >= c.lim.items

\* The output of an emitted block whose expression gave r.
Emitted(b, id, c, r) ==
    CASE r.out # "ok" -> Output(<<>>, Demand(r))
      [] Measured(r.val) > c.lim.bytes -> Output(<<>>, Diagnosed(r.m))
      [] \/ Measured(r.val) > c.lim.bytes - r.m.bytes
         \/ r.m.count >= c.lim.items -> Output(<<>>, Diagnosed(r.m))
      [] OTHER -> Output(<<[kind |-> "fragment", id |-> id, role |-> b.role,
                            format |-> b.format, value |-> r.val, sources |-> r.m.reads]>>,
                         [r.m EXCEPT !.count = @ + 1, !.bytes = @ + Measured(r.val)])
EmitBlock(b, id, env, c, m) == Emitted(b, id, c, Eval(b.args[1], env, c, m))

OutputIds(items) == [i \in DOMAIN items |-> items[i].id]
Outputs(one, rest) == Output(one.items \o rest.items, rest.m)

RECURSIVE EvalBlocks(_, _, _, _, _, _)

\* One iteration per item; a budget that runs out ends the loop with an error.
RECURSIVE EvalLoop(_, _, _, _, _, _, _)
Iterated(b, k, items, path, env, c, one) ==
    Outputs(one, EvalLoop(b, k + 1, items, path, env, c, one.m))
EvalLoop(b, k, items, path, env, c, m) ==
    IF k > Len(items) THEN Output(<<>>, m)
    ELSE IF UsedUp(c, m) THEN Stopped(m)
    ELSE Iterated(b, k, items, path, env, c,
           EvalBlocks(b.items, 1, Append(path, 10 + k),
                      [env EXCEPT !.val = (b.item :> items[k]) @@ @,
                                  !.loops = Append(@, <<b.id, k>>)], c, Tick(m)))

\* A loop over the list r, or the lack of one.
Looped(b, path, env, c, r) ==
    CASE r.out # "ok" -> Output(<<>>, Demand(r))
      [] ~IsList(r.val) -> Output(<<>>, r.m)
      [] Len(Items(r.val)) > c.lim.items -> Output(<<>>, Diagnosed(r.m))
      [] OTHER -> EvalLoop(b, 1, Items(r.val), path,
                           BindSources(env, b.item, r.m.reads), c, r.m)
ForEachBlock(b, path, env, c, m) == Looped(b, path, env, c, Eval(b.args[1], env, c, m))

\* The branch the condition r selects.
Branched(b, path, env, c, r) ==
    IF r.out # "ok" THEN Output(<<>>, Demand(r))
    ELSE [EvalBlocks(IF r.val THEN b.then ELSE b.otherwise, 1,
                     Append(path, IF r.val THEN 8 ELSE 9), env, c, r.m)
            EXCEPT !.outcome = IF r.val THEN "then" ELSE "else"]
IfBlock(b, path, env, c, m) == Branched(b, path, env, c, Eval(b.args[1], env, c, m))

Grouped(id, out) == Output(<<[kind |-> "group", id |-> id, items |-> out.items]>>, out.m)
GroupBlock(b, id, path, env, c, m) ==
    IF m.count >= c.lim.items THEN Output(<<>>, Diagnosed(m))
    ELSE Grouped(id, EvalBlocks(b.items, 1, Append(path, 7), env, c, [m EXCEPT !.count = @ + 1]))

Block(b, id, path, env, c, m) ==
    CASE b.op = "group" -> GroupBlock(b, id, path, env, c, m)
      [] b.op = "emit" -> EmitBlock(b, id, env, c, m)
      [] b.op = "if" -> IfBlock(b, path, env, c, m)
      [] b.op = "forEach" -> ForEachBlock(b, path, env, c, m)

\* The machine with the trace of a block whose output is this.
Traced(b, id, c, this) ==
    IF Len(this.m.trace) >= c.lim.items THEN Diagnosed(this.m)
    ELSE [this.m EXCEPT !.trace = Append(@,
            [id |-> id, op |-> b.op, sources |-> this.m.reads,
             outputs |-> OutputIds(this.items), outcome |-> this.outcome])]

\* Evaluator::blocks: each block starts with no reads of its own and leaves a trace.
Following(bs, i, path, env, c, reads, id, this) ==
    Outputs(this, EvalBlocks(bs, i + 1, path, env, c,
                            [Traced(bs[i], id, c, this) EXCEPT !.reads = @ \cup reads]))
EvalBlocks(bs, i, path, env, c, m) ==
    IF i > Len(bs) THEN Output(<<>>, m)
    ELSE IF UsedUp(c, m) THEN Stopped(m)
    ELSE LET id == OccurrenceId(bs[i].id, Append(path, i), env, m)
         IN  Following(bs, i, path, env, c, m.reads, id,
               Block(bs[i], id, Append(path, i), env, c,
                     [Tick(m) EXCEPT !.reads = {}, !.ids = @ \cup {id}]))

\* evaluate_with_limits, for a strategy the checker accepts.
Evaluated(out) ==
    [complete |-> out.m.needs = {} /\ ~out.m.diag, items |-> out.items,
     needs |-> out.m.needs, diag |-> out.m.diag, reads |-> out.m.all, trace |-> out.m.trace]
Evaluate(strategy, resources, types, library, limits) ==
    Evaluated(EvalBlocks(strategy.program, 1, <<>>, EmptyScope,
                         Inputs(strategy, resources, types, library, limits),
                         Machine(strategy)))
=============================================================================
