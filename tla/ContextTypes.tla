--------------------------- MODULE ContextTypes ---------------------------
(***************************************************************************)
(* The data types of zf-core (types.rs), the JSON values they accept, and  *)
(* the two representations a value has during the evaluation of a context  *)
(* strategy: Shared (a view of an immutable JSON value) and derived        *)
(* ("Array", "Object", built by the evaluator).  A text is a sequence of   *)
(* character codes, some of several bytes.  Values of different kinds have  *)
(* different field names, so that they are comparable.                     *)
(***************************************************************************)
EXTENDS Integers, Sequences, FiniteSets, SequencesExt, FiniteSetsExt, TLC

CONSTANTS
    NameOrder,    \* the field names in use, in the order of a BTreeMap
    MaxDepth      \* MAX_DEPTH, the nesting a type or a program may have

ASSUME DepthAssumption == MaxDepth \in Nat \ {0}

Text == [k |-> "text"]
Number == [k |-> "number"]
Boolean == [k |-> "boolean"]
Media == [k |-> "media"]
List(t) == [k |-> "list", item |-> t]
Record(fields) == [k |-> "record", fields |-> fields]
Named(n) == [k |-> "named", name |-> n]

\* The absent type of Option<DataType>.
NoType == [k |-> "none"]

\* The codes check_type reports: recursion, an unbound name, excess depth.
RECURSIVE TypeErrors(_, _, _, _)
TypeErrors(t, types, visiting, d) ==
    IF d > MaxDepth THEN {"type_depth"}
    ELSE CASE t.k = "named" ->
                IF t.name \in visiting THEN {"type_cycle"}
                ELSE IF t.name \notin DOMAIN types THEN {"unknown_type"}
                ELSE TypeErrors(types[t.name], types, visiting \cup {t.name}, d + 1)
           [] t.k = "record" ->
                UNION {TypeErrors(t.fields[f], types, visiting, d + 1) :
                           f \in DOMAIN t.fields}
           [] t.k = "list" -> TypeErrors(t.item, types, visiting, d + 1)
           [] OTHER -> {}

ValidType(t, types) == TypeErrors(t, types, {}, 0) = {}

RECURSIVE Accepts(_, _)
Accepts(source, target) ==
    CASE source.k = "record" /\ target.k = "record" ->
           \A f \in DOMAIN target.fields :
               f \in DOMAIN source.fields /\ Accepts(source.fields[f], target.fields[f])
      [] source.k = "list" /\ target.k = "list" -> Accepts(source.item, target.item)
      [] OTHER -> source = target

\* Named types are nominal; a record may have more fields than are asked for.
Compatible(source, target, types) ==
    ValidType(source, types) /\ ValidType(target, types) /\ Accepts(source, target)

\* The first type of a chain of names that is not a name (Checker::resolved).
RECURSIVE ResolvedFrom(_, _, _)
ResolvedFrom(t, types, fuel) ==
    CASE t.k # "named" -> t
      [] fuel = 0 \/ t.name \notin DOMAIN types -> NoType
      [] OTHER -> ResolvedFrom(types[t.name], types, fuel - 1)

Resolved(t, types) == ResolvedFrom(t, types, MaxDepth)

-----------------------------------------------------------------------------
(* Values. A number counts halves: serde_json keeps integers and floats apart. *)

Bool(b) == [k |-> "bool", b |-> b]
Int2(n) == [k |-> "num", n |-> 2 * n, float |-> FALSE]
Half(n) == [k |-> "num", n |-> n, float |-> TRUE]
Str(s) == [k |-> "str", s |-> s]
Arr(a) == [k |-> "arr", a |-> a]
Obj(o) == [k |-> "obj", o |-> o]
MediaRef(c) == [k |-> "obj", o |-> [contentRef |-> Str(<<c>>), mediaType |-> Str(<<1>>)]]
Array(items) == [k |-> "Array", items |-> items]
Object(fields) == [k |-> "Object", fields |-> fields]

IsText(v) == v.k = "str"
IsList(v) == v.k \in {"arr", "Array"}
IsRecord(v) == v.k \in {"obj", "Object"}
Items(v) == IF v.k = "arr" THEN v.a ELSE v.items
Fields(v) == IF v.k = "obj" THEN v.o ELSE v.fields

\* serde_json::to_value of a ContextValue: the derived parts become JSON.
RECURSIVE Plain(_)
Plain(v) ==
    CASE IsList(v) -> Arr([i \in DOMAIN Items(v) |-> Plain(Items(v)[i])])
      [] IsRecord(v) -> Obj([f \in DOMAIN Fields(v) |-> Plain(Fields(v)[f])])
      [] OTHER -> v

\* check_value, for a type that ValidType accepts.
RECURSIVE CheckValue(_, _, _)
CheckValue(t, v, types) ==
    CASE t.k = "boolean" -> v.k = "bool"
      [] t.k = "number" -> v.k = "num"
      [] t.k = "text" -> v.k = "str"
      [] t.k = "named" -> CheckValue(types[t.name], v, types)
      [] t.k = "media" -> /\ v.k = "obj"
                          /\ {"contentRef", "mediaType"} \subseteq DOMAIN v.o
                          /\ v.o["contentRef"].k = "str" /\ v.o["contentRef"].s # <<>>
                          /\ v.o["mediaType"] = Str(<<1>>)
      [] t.k = "list" -> v.k = "arr" /\ \A i \in DOMAIN v.a : CheckValue(t.item, v.a[i], types)
      [] t.k = "record" ->
           /\ v.k = "obj"
           /\ \A f \in DOMAIN t.fields :
                  f \in DOMAIN v.o /\ CheckValue(t.fields[f], v.o[f], types)

ValidValue(t, v, types) == ValidType(t, types) /\ CheckValue(t, v, types)

-----------------------------------------------------------------------------
(* The compact JSON text of a value, and its length in bytes. *)

Quote == 10
Escape == 9
TwoBytes == 3          \* a character of two UTF-8 bytes
Occurrences(c, s) == Cardinality({i \in DOMAIN s : s[i] = c})
Bytes(s) == Len(s) + Occurrences(TwoBytes, s) + 3 * Occurrences(30, s) + 4 * Occurrences(31, s)
SortedNames(S) == SelectSeq(NameOrder, LAMBDA n : n \in S)
NameCode(n) == 40 + CHOOSE i \in DOMAIN NameOrder : NameOrder[i] = n

RECURSIVE Concat(_)
Concat(ss) == IF ss = <<>> THEN <<>> ELSE Head(ss) \o Concat(Tail(ss))
Joined(parts) ==
    Concat([i \in DOMAIN parts |-> IF i = 1 THEN parts[i] ELSE <<16>> \o parts[i]])

RECURSIVE Json(_)
Json(v) ==
    CASE v.k = "bool" -> IF v.b THEN <<30>> ELSE <<31>>
      [] v.k = "num" -> <<60 + v.n>> \o IF v.float THEN <<17, 18>> ELSE <<>>
      [] v.k = "str" -> <<Quote>>
                          \o Concat([i \in DOMAIN v.s |->
                                 IF v.s[i] \in {Quote, Escape} THEN <<Escape, v.s[i]>>
                                                               ELSE <<v.s[i]>>])
                          \o <<Quote>>
      [] IsList(v) -> <<11>> \o Joined([i \in DOMAIN Items(v) |-> Json(Items(v)[i])]) \o <<12>>
      [] IsRecord(v) ->
           LET names == SortedNames(DOMAIN Fields(v))
           IN  <<13>> \o Joined([i \in DOMAIN names |->
                             <<Quote, NameCode(names[i]), Quote, 15>> \o Json(Fields(v)[names[i]])])
                      \o <<14>>

\* measured_bytes: the bytes of a text, or of the JSON of anything else.
Measured(v) == IF IsText(v) THEN Bytes(v.s) ELSE Bytes(Json(v))
=============================================================================
