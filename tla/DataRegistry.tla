---------------------------- MODULE DataRegistry ----------------------------
(***************************************************************************)
(* The data registry of one runtime universe (zf-storage/src/data.rs):     *)
(* entities with immutable revisions and one head, reached through scoped  *)
(* aliases that may or may not write, and the producer identities of       *)
(* publications that must happen once.                                     *)
(*                                                                         *)
(* Every operation of the code is one SQL transaction; here it is a        *)
(* function from a registry to the registry it commits, the revision it    *)
(* returns and its error, or "none".  Revision and entity                  *)
(* identities (UUIDs) are numbers in order of creation.  The field "by" of *)
(* a revision is history: who published it.                                *)
(***************************************************************************)
EXTENDS Integers, Sequences, TLC

None == 0       \* no revision (Option::None)

EmptyRegistry == [revs |-> <<>>, head |-> <<>>, alias |-> <<>>, pub |-> <<>>]

Known(r, a) == a \in DOMAIN r.alias
HeadOf(r, a) == IF Known(r, a) THEN r.head[r.alias[a].entity] ELSE None
ValueAt(r, rev) == r.revs[rev].value

\* The ancestors of a revision, itself included.
Ancestors(r, rev) ==
    LET up[i \in 0..Len(r.revs)] ==
          IF i = None THEN {} ELSE {i} \cup up[r.revs[i].parent]
    IN up[rev]

Committed(r, rev) == [reg |-> r, rev |-> rev, err |-> "none"]
Rejected(r, why) == [reg |-> r, rev |-> None, err |-> why]

\* require_free_alias and writable_head.
RequireFree(r, a) == IF Known(r, a) THEN "alias_exists" ELSE "none"
RequireWritable(r, a) ==
    IF ~Known(r, a) THEN "not_found"
    ELSE IF ~r.alias[a].write THEN "permission_denied" ELSE "none"

\* An insertion; a row that is there stays as it is.
AddRow(table, key, row) ==
    [k \in DOMAIN table \cup {key} |-> IF k \in DOMAIN table THEN table[k] ELSE row]

\* The rows a new entity and a further revision add.
Insert(r, a, value, by) ==
    [r EXCEPT !.revs = Append(@, [entity |-> Len(r.head) + 1, parent |-> None,
                                  value |-> value, by |-> by]),
              !.head = Append(@, Len(r.revs) + 1),
              !.alias = AddRow(@, a, [entity |-> Len(r.head) + 1, write |-> TRUE])]

Advance(r, a, expected, value, by) ==
    [r EXCEPT !.revs = Append(@, [entity |-> r.alias[a].entity,
                                  parent |-> expected, value |-> value, by |-> by]),
              !.head[r.alias[a].entity] = Len(r.revs) + 1]

Create(r, a, value, by) ==
    IF RequireFree(r, a) # "none" THEN Rejected(r, RequireFree(r, a))
    ELSE Committed(Insert(r, a, value, by), Len(r.revs) + 1)

Grant(r, source, target, write) ==
    IF RequireWritable(r, source) # "none" THEN Rejected(r, RequireWritable(r, source))
    ELSE IF RequireFree(r, target) # "none" THEN Rejected(r, RequireFree(r, target))
    ELSE Committed([r EXCEPT !.alias =
           AddRow(@, target, [entity |-> r.alias[source].entity, write |-> write])], None)

Publish(r, a, expected, value, by) ==
    IF RequireWritable(r, a) # "none" THEN Rejected(r, RequireWritable(r, a))
    ELSE IF HeadOf(r, a) # expected THEN Rejected(r, "conflict")
    ELSE Committed(Advance(r, a, expected, value, by), Len(r.revs) + 1)

\* A retry with the arguments of the first publication returns its revision
\* even when the head has moved on; another use of the identity is refused.
Replay(r, a, expected, value, id) ==
    LET p == r.pub[id] IN
    IF p.alias # a \/ p.expected # expected \/ ValueAt(r, p.rev) # value
      THEN Rejected(r, "publication_mismatch")
    ELSE IF RequireWritable(r, a) # "none" THEN Rejected(r, RequireWritable(r, a))
    ELSE IF r.alias[a].entity # r.revs[p.rev].entity
      THEN Rejected(r, "publication_mismatch")
    ELSE Committed(r, p.rev)

\* Fault: the identity of the publication is forgotten.
PublishUniqueForgetful(r, a, expected, value, id) ==
    IF expected = None THEN Create(r, a, value, id)
    ELSE Publish(r, a, expected, value, id)

PublishUnique(r, a, expected, value, id) ==
    IF id \in DOMAIN r.pub THEN Replay(r, a, expected, value, id)
    ELSE LET done == IF expected = None THEN Create(r, a, value, id)
                     ELSE Publish(r, a, expected, value, id)
         IN IF done.err # "none" THEN done
            ELSE Committed([done.reg EXCEPT !.pub =
                   AddRow(@, id, [alias |-> a, expected |-> expected, rev |-> done.rev])],
                   done.rev)
=============================================================================
