----------------------------- MODULE SetPatches ------------------------------
(***************************************************************************)
(* The patches of a Set draft and of the objects in it, and what apply()   *)
(* makes of them.  A Set's own patches carry items by value; an item's own *)
(* patches have its position as path.                                      *)
(***************************************************************************)
EXTENDS SetHeap

\* op is "add" or "remove" of a value, or "field" for the property x of the
\* item at a position, or of the object beside the Set at position 0.
Patch(op, at, value) == [op |-> op, at |-> at, value |-> value]

\* The items of s that t does not hold, in order.
Missing(s, t) ==
    LET found[n \in 0 .. Len(s)] ==
            IF n = 0 THEN <<>>
            ELSE IF s[n] \in Range(t) THEN found[n - 1]
            ELSE Append(found[n - 1], s[n])
    IN  found[Len(s)]

\* generateSetPatches(), and the inverse patches, which it puts in front.
ForwardPatches(w) ==
    LET removed == Missing(w.original, w.copy)
        added   == Missing(w.copy, w.original)
    IN  [i \in DOMAIN removed |-> Patch("remove", 0, removed[i])]
        \o [i \in DOMAIN added |-> Patch("add", 0, added[i])]

InversePatches(w) ==
    LET removed == Missing(w.original, w.copy)
        added   == Missing(w.copy, w.original)
    IN  Reverse([i \in DOMAIN removed |-> Patch("add", 0, removed[i])]
                \o [i \in DOMAIN added |-> Patch("remove", 0, added[i])])

\* Fault: an item keeps its path though the Set changed.
HasPathAlways(w, d) == TRUE

\* getPath(): an item has a path while nothing was added or deleted, which is
\* its position in the original.
HasPath(w, d)  == Node(w, d).item => w.assigned = {}
ItemPath(w, d) ==
    IF Node(w, d).item THEN IndexIn(w.original, Obj(Node(w, d).original)) ELSE 0

\* A draft emits a patch of x if it is at its key and changed there.
FieldPatches(w, d, value) ==
    LET there == ~Node(w, d).item \/ Mapped(w, Obj(Node(w, d).original)) = Draft(d)
    IN  IF there /\ Node(w, d).operated /\ Node(w, d).assigned /\ HasPath(w, d)
        THEN <<Patch("field", ItemPath(w, d), value)>> ELSE <<>>

-----------------------------------------------------------------------------
(***************************************************************************)
(* apply(), on the Set as a sequence of items, each with its tree, and the *)
(* tree of the object beside it.                                           *)
(***************************************************************************)
StateOf(w, s, side) ==
    [items |-> [i \in DOMAIN s |-> [value |-> s[i], tree |-> Tree(w, s[i])]],
     side |-> Tree(w, side)]

\* Added objects are clones, which are no items of the state.
Cloned(w, v) == [value |-> IF IsRef(v) THEN Absent ELSE v, tree |-> Tree(w, v)]

\* Set.prototype.delete(): an item is there once, if at all.
Without(items, v) ==
    LET at == {i \in DOMAIN items : items[i].value = v}
    IN  IF at = {} THEN items ELSE RemoveAt(items, CHOOSE i \in at : TRUE)

ApplyPatch(w, state, patch) ==
    LET x == <<Obj(0)>> \o Leaf(w, patch.value)
    IN  CASE patch.op = "add" ->
               [state EXCEPT !.items = Append(@, Cloned(w, patch.value))]
          [] patch.op = "remove" ->
               [state EXCEPT !.items = Without(@, patch.value)]
          [] patch.op = "field" /\ patch.at = 0 -> [state EXCEPT !.side = x]
          [] patch.op = "field" /\ patch.at # 0 ->
               [state EXCEPT !.items[patch.at].tree = x]

ApplyAll(w, state, patches) ==
    LET after[n \in 0 .. Len(patches)] ==
            IF n = 0 THEN state ELSE ApplyPatch(w, after[n - 1], patches[n])
    IN  after[Len(patches)]

\* Two states are equal if they hold equal items as often, in any order.
Equal(s, t) ==
    LET count(state, tree) ==
            Cardinality({i \in DOMAIN state.items : state.items[i].tree = tree})
    IN  /\ s.side = t.side
        /\ Len(s.items) = Len(t.items)
        /\ \A e \in Range(s.items) : count(s, e.tree) = count(t, e.tree)
=============================================================================
