-------------------------- MODULE ContextWindows --------------------------
(***************************************************************************)
(* Prepared windows (zf-context/src/window.rs): the capture of a complete  *)
(* evaluation, the validation every stored window passes, and the edits an *)
(* agent may publish.  An edit list is applied to a copy: it takes effect  *)
(* whole or not at all.                                                    *)
(***************************************************************************)
EXTENDS ContextEvaluation

CONSTANT MaxWindowItems       \* MAX_ITEMS, 4096 in the code

NoWindow == [items |-> <<>>, sources |-> {}, ok |-> FALSE]

RECURSIVE ItemIds(_)
ItemIds(items) ==
    Concat([i \in DOMAIN items |->
        <<items[i].id>> \o IF items[i].kind = "group" THEN ItemIds(items[i].items) ELSE <<>>])

\* The value of a fragment matches its declared representation.
RepresentationOK(i) ==
    /\ i.role = "instruction" => i.format = "text"
    /\ CASE i.format = "text" -> i.value.k = "str"
         [] i.format = "json" -> TRUE
         [] i.format = "adkMessages" ->
              i.value.k = "arr" /\ \A j \in DOMAIN i.value.a : i.value.a[j].k = "obj"
         [] i.format = "media" -> i.value.k = "obj" /\ {"contentRef", "mediaType"} \subseteq DOMAIN i.value.o

RECURSIVE ItemsOK(_, _, _)
ItemsOK(items, d, sources) ==
    /\ d <= MaxDepth
    /\ \A i \in DOMAIN items :
           IF items[i].kind = "group" THEN ItemsOK(items[i].items, d + 1, sources)
           ELSE RepresentationOK(items[i]) /\ items[i].sources \subseteq sources

\* validate
WindowOK(w) ==
    /\ IsInjective(ItemIds(w.items))
    /\ Len(ItemIds(w.items)) <= MaxWindowItems
    /\ ItemsOK(w.items, 0, w.sources)

RECURSIVE PlainItems(_)
PlainItems(items) ==
    [i \in DOMAIN items |-> IF items[i].kind = "group" THEN [items[i] EXCEPT !.items = PlainItems(@)]
                            ELSE [items[i] EXCEPT !.value = Plain(@)]]

\* capture: every resource that was read, present or not, has a captured revision.
Capture(evaluation, sources) ==
    LET w == [items |-> PlainItems(evaluation.items), sources |-> sources, ok |-> TRUE]
    IN  IF evaluation.complete /\ evaluation.reads \subseteq sources /\ WindowOK(w)
        THEN w ELSE NoWindow

-----------------------------------------------------------------------------
(* Edits. *)

\* The item of an identifier, at any depth, or <<>>.
RECURSIVE Found(_, _)
Found(items, id) ==
    LET here == SelectSeq(items, LAMBDA i : i.id = id)
        below == Concat([i \in DOMAIN items |->
                     IF items[i].kind = "group" THEN Found(items[i].items, id) ELSE <<>>])
    IN  here \o below

RECURSIVE Changed(_, _, _)
Changed(items, id, new) ==
    [i \in DOMAIN items |->
        CASE items[i].id = id -> new
          [] items[i].kind = "group" -> [items[i] EXCEPT !.items = Changed(@, id, new)]
          [] OTHER -> items[i]]

\* remove: the first item with this identifier goes, with all it contains.
RECURSIVE Removed(_, _)
Removed(items, id) ==
    LET kept == SelectSeq(items, LAMBDA i : i.id # id)
    IN  [i \in DOMAIN kept |-> IF kept[i].kind = "group" THEN [kept[i] EXCEPT !.items = Removed(@, id)]
                               ELSE kept[i]]

Top == Id("top")

\* Move: taken out first, so that the item and what it contains are no destination.
Moved(items, e) ==
    LET item == Found(items, e.id)
        rest == Removed(items, e.id)
        parent == Found(rest, e.parent)
        target == IF e.parent = Top THEN rest
                  ELSE IF parent # <<>> /\ parent[1].kind = "group" THEN parent[1].items ELSE <<>>
        placed == SubSeq(target, 1, e.index) \o <<item[1]>> \o SubSeq(target, e.index + 1, Len(target))
    IN  IF \/ item = <<>>
           \/ e.parent # Top /\ (parent = <<>> \/ parent[1].kind # "group")
           \/ e.index > Len(target)
        THEN <<FALSE>>
        ELSE <<TRUE, IF e.parent = Top THEN placed
                     ELSE Changed(rest, e.parent, [parent[1] EXCEPT !.items = placed])>>

\* One edit of apply_patches: <<TRUE, items>>, or <<FALSE>> when it is refused.
Edited(items, e) ==
    LET item == Found(items, e.id)
    IN  CASE e.op = "move" -> Moved(items, e)
          [] item = <<>> -> <<FALSE>>
          [] e.op = "remove" -> <<TRUE, Removed(items, e.id)>>
          [] e.op = "replace" -> IF e.item.id # e.id THEN <<FALSE>>
                                 ELSE <<TRUE, Changed(items, e.id, e.item)>>
          [] e.op = "representation" ->
               IF item[1].kind # "fragment" THEN <<FALSE>>
               ELSE <<TRUE, Changed(items, e.id, [item[1] EXCEPT !.format = e.format, !.value = e.value])>>

\* patched: each edit is validated; the first that fails refuses the list.
RECURSIVE Patched(_, _)
Patched(w, edits) ==
    IF edits = <<>> THEN w
    ELSE LET r == Edited(w.items, Head(edits))
             next == [w EXCEPT !.items = r[2]]
         IN  IF r[1] /\ WindowOK(next) THEN Patched(next, Tail(edits)) ELSE NoWindow
=============================================================================
