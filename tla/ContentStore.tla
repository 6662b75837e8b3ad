---------------------------- MODULE ContentStore ----------------------------
(***************************************************************************)
(* The content store (zf-storage/src/content_store.rs): JSON values as     *)
(* immutable bodies named by their hash, arrays sharing their prefixes,    *)
(* and records that name a value.  Tasks encode a value, leave out what    *)
(* the resident set of committed references already holds, write the rest  *)
(* in one transaction and only then extend that set.                       *)
(*                                                                         *)
(* A reference is modelled by the body it is the hash of: hashes do not    *)
(* collide.  SQLite runs one writing transaction at a time, so the part    *)
(* of an operation inside its transaction is one step.                     *)
(***************************************************************************)
EXTENDS Integers, Sequences, FiniteSets, FiniteSetsExt

CONSTANTS
    Values,         \* the JSON values written: see Text, List, Map
    Keys,           \* keys of records
    Lists,          \* keys of records that are appended to
    Tasks,
    Chunk,          \* bytes of a text kept in one body
    CacheLimit,     \* references in the resident set
    MaxOps,         \* bound: operations
    MaxFaults       \* bound: rolled back transactions and restarts

VARIABLES
    content,        \* zf_content
    edges,          \* zf_content_edges
    records,        \* zf_records: key -> reference
    known,          \* ContentStore.committed
    task,           \* the operation of each task
    ops, faults,
    wrote           \* history: the value each record was given last

vars == <<content, edges, records, known, task, ops, faults, wrote>>

Text(s) == [kind |-> "text", s |-> s]
List(items) == [kind |-> "list", items |-> items]
Map(fields) == [kind |-> "map", fields |-> fields]

-----------------------------------------------------------------------------
(***************************************************************************)
(* Encoding.                                                               *)
(***************************************************************************)
EmptyArray == <<"array">>
Scalar(s) == <<"scalar", s>>

RECURSIVE Chain(_)
Chain(refs) ==
    IF refs = <<>> THEN EmptyArray
    ELSE <<"sequence", Chain(SubSeq(refs, 1, Len(refs) - 1)), refs[Len(refs)]>>

Pieces(s) == [i \in 1..((Len(s) + Chunk - 1) \div Chunk) |->
                SubSeq(s, (i - 1) * Chunk + 1, IF i * Chunk < Len(s) THEN i * Chunk ELSE Len(s))]

\* The reference of a value; its bodies are the closure of it.
RECURSIVE Encode(_)
Encode(v) ==
    CASE v.kind = "text" ->
           IF Len(v.s) <= Chunk THEN Scalar(v.s)
           ELSE LET parts == Pieces(v.s)
                IN <<"string", Chain([i \in DOMAIN parts |-> Scalar(parts[i])])>>
      [] v.kind = "list" -> Chain([i \in DOMAIN v.items |-> Encode(v.items[i])])
      [] v.kind = "map" -> <<"object", [k \in DOMAIN v.fields |-> Encode(v.fields[k])]>>

Dependencies(b) ==
    CASE b[1] \in {"scalar", "array"} -> {}
      [] b[1] = "string" -> {b[2]}
      [] b[1] = "sequence" -> {b[2], b[3]}
      [] b[1] = "object" -> {b[2][k] : k \in DOMAIN b[2]}

RECURSIVE Bodies(_)
Bodies(b) == {b} \cup UNION {Bodies(c) : c \in Dependencies(b)}

\* The edges written with a set of bodies.
EdgesOf(bodies) == UNION {{<<b, c>> : c \in Dependencies(b)} : b \in bodies}

-----------------------------------------------------------------------------
(***************************************************************************)
(* Reading.                                                                *)
(***************************************************************************)

\* export_blobs: the closure over the edge table.
RECURSIVE Closure(_)
Closure(found) ==
    LET more == found \cup {e[2] : e \in {f \in edges : f[1] \in found}}
    IN IF more = found THEN found ELSE Closure(more)

\* Every reference of the closure has a body, and no body has a child outside.
Exported(ref) ==
    LET found == Closure({ref})
    IN IF found \subseteq content /\ \A b \in found : Dependencies(b) \subseteq found
         THEN found ELSE {}

RECURSIVE SequenceRefs(_)
SequenceRefs(b) ==
    IF b[1] = "array" THEN <<>> ELSE Append(SequenceRefs(b[2]), b[3])

RECURSIVE Decode(_)
Decode(b) ==
    CASE b[1] = "scalar" -> Text(b[2])
      [] b[1] = "object" -> Map([k \in DOMAIN b[2] |-> Decode(b[2][k])])
      [] b[1] \in {"array", "sequence"} ->
           LET refs == SequenceRefs(b) IN List([i \in DOMAIN refs |-> Decode(refs[i])])
      [] b[1] = "string" ->
           LET refs == SequenceRefs(b[2])
               RECURSIVE Join(_)
               Join(n) == IF n = 0 THEN <<>> ELSE Join(n - 1) \o refs[n][2]
           IN Text(Join(Len(refs)))

Missing == [kind |-> "missing"]
Resolve(ref) == IF ref \in Exported(ref) THEN Decode(ref) ELSE Missing

\* The bytes of a value in JSON: quotes, brackets, separators.
RECURSIVE JsonBytes(_)
JsonBytes(v) ==
    LET Separators(n) == IF n = 0 THEN 0 ELSE n - 1 IN
    CASE v.kind = "text" -> Len(v.s) + 2
      [] v.kind = "list" ->
           2 + Separators(Len(v.items))
             + MapThenSumSet(LAMBDA i : JsonBytes(v.items[i]), DOMAIN v.items)
      [] v.kind = "map" ->
           2 + Separators(Cardinality(DOMAIN v.fields))
             + MapThenSumSet(LAMBDA k : Len(k) + 3 + JsonBytes(v.fields[k]), DOMAIN v.fields)

\* What a body will expand to, measured on the shared bodies.
RECURSIVE ExpandedSize(_)
ExpandedSize(b) ==
    CASE b[1] = "scalar" -> Len(b[2]) + 2
      [] b[1] = "array" -> 2
      [] b[1] = "sequence" -> ExpandedSize(b[2]) + ExpandedSize(b[3]) + 1
      [] b[1] = "string" -> ExpandedSize(b[2])
      [] b[1] = "object" ->
           2 + MapThenSumSet(LAMBDA k : Len(k) + 4 + ExpandedSize(b[2][k]), DOMAIN b[2])

-----------------------------------------------------------------------------
(***************************************************************************)
(* Operations.                                                             *)
(***************************************************************************)
Free == [pc |-> "free"]

Init ==
    /\ content = {} /\ edges = {} /\ known = {}
    /\ records = [k \in {} |-> EmptyArray]
    /\ task = [t \in Tasks |-> Free]
    /\ ops = 0 /\ faults = 0
    /\ wrote = [k \in {} |-> Missing]

\* prepare: what the resident set knows is not written again.
Prepare(t, op, key, v) ==
    /\ task[t] = Free /\ ops < MaxOps
    /\ ops' = ops + 1
    /\ LET ref == Encode(v)
           pending == Bodies(ref) \ known
       IN task' = [task EXCEPT ![t] =
            IF op = "intern" /\ pending = {} THEN Free
            ELSE [pc |-> "write", op |-> op, key |-> key, value |-> v,
                  ref |-> ref, pending |-> pending]]
    /\ UNCHANGED <<content, edges, records, known, faults, wrote>>

\* The head of the array an append extends, read in its transaction.
Parent(key) == IF key \in DOMAIN records THEN records[key] ELSE EmptyArray

Insert(bodies) == content' = content \cup bodies /\ edges' = edges \cup EdgesOf(bodies)
Assign(f, key, x) == [k \in DOMAIN f \cup {key} |-> IF k = key THEN x ELSE f[k]]

\* put_record replaces, claim_record keeps what is there, append_record_item adds.
Commit(t) ==
    /\ task[t].pc = "write"
    /\ LET op == task[t].op
           key == task[t].key
           head == <<"sequence", Parent(key), task[t].ref>>
           new == IF op = "append"
                    THEN {head} \cup (IF key \in DOMAIN records THEN {} ELSE {EmptyArray})
                    ELSE {}
           kept == op = "claim" /\ key \in DOMAIN records
           ref == IF op = "append" THEN head ELSE task[t].ref
           before == IF key \in DOMAIN wrote THEN wrote[key].items ELSE <<>>
       IN /\ Insert(task[t].pending \cup new)
          /\ IF op \in {"intern", "within"} \/ kept
               THEN UNCHANGED <<records, wrote>>
               ELSE /\ records' = Assign(records, key, ref)
                    /\ wrote' = Assign(wrote, key,
                         IF op = "append" THEN List(Append(before, task[t].value))
                         ELSE task[t].value)
          /\ task' = [task EXCEPT ![t] =
               IF op = "within" THEN Free    \* intern_in: another owns the transaction
               ELSE [@ EXCEPT !.pc = "mark", !.pending = @ \cup new, !.ref = ref]]
    /\ UNCHANGED <<known, ops, faults>>

\* Fault: a transaction that failed is marked as well.
AbortMarks(t) ==
    /\ task[t].pc = "write" /\ faults < MaxFaults
    /\ faults' = faults + 1
    /\ task' = [task EXCEPT ![t].pc = "mark"]
    /\ UNCHANGED <<content, edges, records, known, ops, wrote>>

\* The transaction fails or its caller rolls it back.
Abort(t) ==
    /\ task[t].pc = "write" /\ faults < MaxFaults
    /\ faults' = faults + 1
    /\ task' = [task EXCEPT ![t] = Free]
    /\ UNCHANGED <<content, edges, records, known, ops, wrote>>

Marked(pending, ref) ==
    (IF Cardinality(known) + Cardinality(pending) > CacheLimit THEN {} ELSE known)
        \cup pending \cup {ref}

MarkCommitted(t) ==
    /\ task[t].pc = "mark"
    /\ known' = Marked(task[t].pending, task[t].ref)
    /\ task' = [task EXCEPT ![t] = Free]
    /\ UNCHANGED <<content, edges, records, ops, faults, wrote>>

\* import_blobs: the bodies of an archive, refused when a child would be absent.
Import(v) ==
    /\ ops < MaxOps /\ ops' = ops + 1
    /\ \E bodies \in {Bodies(Encode(v)), Bodies(Encode(v)) \ Dependencies(Encode(v))} :
          IF \A e \in edges \cup EdgesOf(bodies) : e[2] \in content \cup bodies
            THEN Insert(bodies) ELSE UNCHANGED <<content, edges>>
    /\ UNCHANGED <<records, known, task, faults, wrote>>

\* The process ends; the store is opened again with an empty set.
Restart ==
    /\ faults < MaxFaults /\ faults' = faults + 1
    /\ known' = {} /\ task' = [t \in Tasks |-> Free]
    /\ UNCHANGED <<content, edges, records, ops, wrote>>

Next ==
    \/ \E t \in Tasks :
          \/ \E v \in Values :
                \/ \E op \in {"intern", "within"} : Prepare(t, op, "", v)
                \/ \E op \in {"put", "claim"}, k \in Keys : Prepare(t, op, k, v)
                \/ \E k \in Lists : Prepare(t, "append", k, v)
          \/ Commit(t) \/ Abort(t) \/ MarkCommitted(t)
    \/ \E v \in Values : Import(v)
    \/ Restart

Spec == Init /\ [][Next]_vars

-----------------------------------------------------------------------------
\* Every record reads back as the value last given to it, and an array as all the
\* items appended to it, whatever was rolled back, evicted or written meanwhile.
RecordsReadBack ==
    /\ DOMAIN records = DOMAIN wrote
    /\ \A k \in DOMAIN records : Resolve(records[k]) = wrote[k]

\* The size a reader is limited by is never below what the reader gets.
SizeIsBound ==
    \A k \in DOMAIN wrote : JsonBytes(wrote[k]) <= ExpandedSize(records[k])

\* What is stored reads back, within the size announced for it.
ContentKept == RecordsReadBack /\ SizeIsBound
=============================================================================
