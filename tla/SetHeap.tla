------------------------------- MODULE SetHeap -------------------------------
(***************************************************************************)
(* A Set draft: its items in order, the map from items to the drafts and   *)
(* objects that stand for them, and the Set's methods.  As in DraftHeap, a *)
(* function that changes state in the code takes a world and returns the   *)
(* next one; copy is latest(), the original until there is a copy.         *)
(***************************************************************************)
EXTENDS Elements, FiniteSets, FiniteSetsExt

\* A draft of an item has the item as key; the draft beside the Set has none.
\* Added says that add() registered a callback for it.
ItemDraft == [original : Nat, item : BOOLEAN, copy : Nat, operated : BOOLEAN,
              assigned : BOOLEAN, added : BOOLEAN]

\* position counts the items that the current iteration has passed.
World == [original : Seq(Value), copy : Seq(Value), copied : BOOLEAN,
          operated : BOOLEAN,
          setMap : SUBSET [item : Value, value : Value],
          assigned : SUBSET [item : Value, added : BOOLEAN],
          position : Nat, heap : Seq(Value), drafts : Seq(ItemDraft),
          tasks : SUBSET Value]

\* setMap.get(): what stands for an item, if anything.
Entries(w, item) == {m \in w.setMap : m.item = item}
Mapped(w, item)  == IF Entries(w, item) = {} THEN Absent
                    ELSE (CHOOSE m \in Entries(w, item) : TRUE).value
SetMapSet(w, item, value) ==
    [w EXCEPT !.setMap = (@ \ Entries(w, item)) \cup {[item |-> item, value |-> value]}]
SetMapDelete(w, item) == [w EXCEPT !.setMap = @ \ Entries(w, item)]

SetItemValue(w, item) ==
    IF Mapped(w, item) = Absent THEN item ELSE Mapped(w, item)
GetValue(w, v) == IF IsDraft(v) THEN FinalElement(w, v.id) ELSE v

\* assignedMap.set() and assignedMap.delete().
Unassign(w, item) ==
    [w EXCEPT !.assigned = {e \in @ : e.item # item}]
Assign(w, item, added) ==
    [Unassign(w, item) EXCEPT !.assigned = @ \cup {[item |-> item, added |-> added]}]
IsAdded(w, item) == [item |-> item, added |-> TRUE] \in w.assigned

OriginalOf(w, v) == IF IsDraft(v) THEN Obj(Node(w, v.id).original) ELSE v
IndexIn(s, v)    == CHOOSE i \in DOMAIN s : s[i] = v

EnsureShallowCopy(w) == [w EXCEPT !.copied = TRUE]
Prepare(w)           == MarkChanged(EnsureShallowCopy(w))

CreateDraft(w, a, item) ==
    [w EXCEPT !.drafts = Append(@, [original |-> a, item |-> item, copy |-> Null,
                                    operated |-> FALSE, assigned |-> FALSE,
                                    added |-> FALSE])]

MarkFinalization(w, v) ==
    CASE IsDraft(v) -> [w EXCEPT !.drafts[v.id].added = TRUE]
      [] IsObj(v)   -> [w EXCEPT !.tasks = @ \cup {v}]
      [] OTHER      -> w

-----------------------------------------------------------------------------
Has(w, v) == v \in Range(w.copy) \/ OriginalOf(w, v) \in Range(w.copy)

Add(w, v) ==
    IF Has(w, v) THEN w
    ELSE LET w1 == [Assign(Prepare(w), v, TRUE) EXCEPT !.copy = Append(@, v)]
         IN  MarkFinalization(IF IsRef(v) THEN SetMapSet(w1, v, v) ELSE w1, v)

\* Fault: a draft stands for itself only.
ItemItself(w, v) == v

\* The item that a draft stands for, or the value itself.
ItemOf(w, v) == IF OriginalOf(w, v) \in Range(w.copy) THEN OriginalOf(w, v) ELSE v

\* An iteration goes on at the item after the deleted one.
Shorten(w, item) ==
    LET i == IndexIn(w.copy, item)
    IN  IF item \notin Range(w.copy) THEN w
        ELSE [w EXCEPT !.copy = RemoveAt(@, i),
                       !.position = IF i <= @ THEN @ - 1 ELSE @]

\* Fault: the draft of a deleted item stays in setMap.
DeleteMapped(w, v) ==
    IF ~Has(w, v) THEN w
    ELSE LET item == ItemOf(w, v)
             w1   == Prepare(w)
         IN  Shorten(IF IsDraft(v) /\ item = v THEN Unassign(w1, v)
                     ELSE Assign(w1, item, FALSE), item)

\* Fault: an item that is deleted through its draft is not recorded.
DeleteUnrecorded(w, v) ==
    IF ~Has(w, v) THEN w
    ELSE LET item == ItemOf(w, v)
             w1   == Prepare(w)
             w2   == IF IsDraft(v) THEN Unassign(w1, item)
                     ELSE Assign(w1, item, FALSE)
         IN  Shorten(SetMapDelete(w2, item), item)

Delete(w, v) ==
    IF ~Has(w, v) THEN w
    ELSE LET item == ItemOf(w, v)
             w1   == Prepare(w)
             w2   == IF IsDraft(v) /\ item = v THEN Unassign(w1, v)
                     ELSE Assign(w1, item, FALSE)
         IN  Shorten(SetMapDelete(w2, item), item)

\* The records of all original items are overwritten.
AllDeleted(w) ==
    {e \in w.assigned : e.item \notin Range(w.original)}
    \cup {[item |-> v, added |-> FALSE] : v \in Range(w.original)}

Clear(w) ==
    IF w.copy = <<>> THEN w
    ELSE [Prepare(w) EXCEPT !.assigned = AllDeleted(w), !.setMap = {},
                            !.copy = <<>>, !.position = 0]

\* values() starts an iteration of the copy.
Values(w) == [EnsureShallowCopy(w) EXCEPT !.position = 0]

\* The iterator's next() drafts an item of the original that nothing stands for.
Next(w) ==
    LET item == w.copy[w.position + 1]
        w1   == [w EXCEPT !.position = @ + 1]
    IN  IF SetItemValue(w, item) = item /\ IsObj(item) /\ item \in Range(w.original)
        THEN SetMapSet(CreateDraft(w1, item.id, TRUE), item,
                       Draft(Len(w.drafts) + 1))
        ELSE w1

\* What next() hands out, once it has passed the item.
Handed(w, item) == SetItemValue(w, item)

-----------------------------------------------------------------------------
(***************************************************************************)
(* Finalization.                                                           *)
(***************************************************************************)
\* A new Set of the items, in order: each is there once.
Distinct(s) ==
    LET kept[n \in 0 .. Len(s)] ==
            IF n = 0 THEN <<>>
            ELSE IF s[n] \in Range(kept[n - 1]) THEN kept[n - 1]
            ELSE Append(kept[n - 1], s[n])
    IN  kept[Len(s)]

\* finalizeAssigned() and handleValue() of the objects that the recipe added and
\* that are still there.  Each writes to its own object only, so their order does
\* not matter.
FinalizeAssigned(w) ==
    LET due(v) == v \in w.tasks /\ Mapped(w, v) = v /\ IsAdded(w, v)
    IN  [w EXCEPT !.heap = [a \in DOMAIN w.heap |->
            IF due(Obj(a)) /\ IsDraft(w.heap[a])
            THEN FinalElement(w, w.heap[a].id) ELSE w.heap[a]]]

\* finalizeNode() of an item's draft: what setMap has under the item.
FinalizeItem(w, d) ==
    LET item == Obj(Node(w, d).original)
    IN  IF Node(w, d).item /\ IsDraft(Mapped(w, item))
        THEN SetMapSet(w, item, GetValue(w, Mapped(w, item)))
        ELSE w

\* The callback of an added draft.
RunCallback(w, d) ==
    IF Node(w, d).added /\ Mapped(w, Draft(d)) = Draft(d)
    THEN SetMapSet(w, Draft(d), FinalElement(w, d))
    ELSE w

FinalizeNode(w, d) == RunCallback(FinalizeItem(w, d), d)

Rebuilt(w) == Distinct([i \in DOMAIN w.copy |->
                           GetValue(w, SetItemValue(w, w.copy[i]))])

\* Fault: added items decide that nothing else differs.
FinalizeUnlessAssigned(w) ==
    IF w.operated /\ w.assigned = {} THEN [w EXCEPT !.copy = Rebuilt(w)] ELSE w

\* Fault: changed items move to the end.
FinalizeAppending(w) ==
    LET final(i) == GetValue(w, SetItemValue(w, w.copy[i]))
        kept     == SelectSeq([i \in DOMAIN w.copy |-> i],
                              LAMBDA i : final(i) = w.copy[i])
        changed  == SelectSeq([i \in DOMAIN w.copy |-> i],
                              LAMBDA i : final(i) # w.copy[i])
        order    == kept \o changed
    IN  [w EXCEPT !.copy = Distinct([n \in DOMAIN order |-> final(order[n])])]

\* finalizeSetValue() rebuilds the Set in order, if an item differs from what
\* stands for it.
FinalizeSetValue(w) ==
    IF /\ w.operated
       /\ \/ w.assigned = {}
          \/ \E m \in w.setMap : GetValue(w, m.value) # m.item
    THEN [w EXCEPT !.copy = Rebuilt(w)]
    ELSE w
=============================================================================
