------------------------------ MODULE Patches ------------------------------
(***************************************************************************)
(* Patches: what generatePatchesFromAssigned() emits for an object or Map  *)
(* draft, and what apply() makes of them, on trees.  The patches of one    *)
(* draft name distinct keys of one container, so their order does not      *)
(* matter: they form a batch, a set.                                       *)
(***************************************************************************)
EXTENDS Current

\* A patch value is a reference kept as it is, or a copy made by current().
Live(v)     == [tag |-> "live", value |-> v]
Snapshot(t) == [tag |-> "snapshot", tree |-> t]

\* Fault: a draft gives way to its original though it changed.
CloneOriginal(w, v) ==
    IF IsDraft(v) THEN Live(Obj(Node(w, v.id).original)) ELSE Live(v)

\* cloneIfNeeded(): a draft that is still there gives way to its original, or
\* to a snapshot of its state.
CloneIfNeeded(w, v) ==
    CASE ~IsDraft(v) -> Live(v)
      [] IsDraft(v) /\ Node(w, v.id).operated -> Snapshot(CurrentTree(w, v))
      [] OTHER -> Live(Obj(Node(w, v.id).original))

OriginalValue(w, d, k) == Read(Original(w, d), k)
PatchValue(w, d, k)    == CloneIfNeeded(w, Read(Copy(w, d), k))

\* Fault: an added key counts as replaced.
OpNeverAdds(w, d, k) == IF Node(w, d).assigned[k] = "deleted" THEN "remove"
                                                             ELSE "replace"

Op(w, d, k) == IF Node(w, d).assigned[k] = "deleted" THEN "remove"
               ELSE IF HasOwn(Original(w, d), k) THEN "replace" ELSE "add"

\* The keys with an entry in assignedMap, but for a replacement by the same.
PatchedKeys(w, d) ==
    {k \in Keys :
        /\ Node(w, d).assigned[k] # "none"
        /\ ~ /\ Op(w, d, k) = "replace"
             /\ PatchValue(w, d, k) = Live(OriginalValue(w, d, k))}

Patch(op, path, value) == [op |-> op, path |-> path, value |-> value]

ForwardPatch(w, d, path, k) ==
    IF Op(w, d, k) = "remove"
    THEN Patch("remove", path, Live(Absent))
    ELSE Patch(Op(w, d, k), path, PatchValue(w, d, k))

InversePatch(w, d, path, k) ==
    CASE Op(w, d, k) = "add"     -> Patch("remove", path, Live(Absent))
      [] Op(w, d, k) = "remove"  -> Patch("add", path, Live(OriginalValue(w, d, k)))
      [] Op(w, d, k) = "replace" -> Patch("replace", path, Live(OriginalValue(w, d, k)))

\* One batch if the draft has a path, none otherwise.
Batches(w, d, patch(_, _)) ==
    LET batch(p) == {patch(Append(p, k), k) : k \in PatchedKeys(w, d)}
    IN  IF OwnPath(w, d) = {} THEN <<>>
        ELSE <<batch(CHOOSE p \in OwnPath(w, d) : TRUE)>>

ForwardBatches(w, d) ==
    Batches(w, d, LAMBDA path, k : ForwardPatch(w, d, path, k))
InverseBatches(w, d) ==
    Batches(w, d, LAMBDA path, k : InversePatch(w, d, path, k))

-----------------------------------------------------------------------------
(***************************************************************************)
(* apply().                                                                *)
(***************************************************************************)

\* The tree of a patch value in a world, which may have moved on since.
PatchTree(w, value) ==
    IF value.tag = "live" THEN View(w, value.value) ELSE value.tree

\* Every key before the last leads to an object or Map, or apply() dies.
CanApply(tree, path) ==
    \A n \in 0 .. Len(path) - 1 : tree[SubSeq(path, 1, n)].kind \in ObjectTypes

\* Both `add' and `replace' set the value, and `remove' leaves nothing.
Overwrite(w, tree, patch) ==
    LET new == PatchTree(w, patch.value)
    IN  [p \in Paths |->
            IF IsPrefix(patch.path, p)
            THEN new[SubSeq(p, Len(patch.path) + 1, Len(p))]
            ELSE tree[p]]

ApplyPatch(w, tree, patch) ==
    IF CanApply(tree, patch.path) THEN Overwrite(w, tree, patch) ELSE FailedTree

ApplyBatch(w, tree, batch) ==
    FoldSet(LAMBDA patch, t : ApplyPatch(w, t, patch), tree, batch)

ApplyAll(w, tree, batches) ==
    FoldLeft(LAMBDA t, batch : ApplyBatch(w, t, batch), tree, batches)
=============================================================================
