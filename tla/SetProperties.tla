---------------------------- MODULE SetProperties ----------------------------
(***************************************************************************)
(* What Set drafts promise.                                                *)
(***************************************************************************)
EXTENDS SetDrafts

\* setMap, assignedMap and the copy stay in step whatever the recipe does in
\* the middle of an iteration: what setMap maps is an item, standing for itself
\* or drafted from it, and every object that the recipe added can be finalized.
SetMapInStep == phase = "recipe" =>
    /\ world \in World
    /\ SubSeq(world.heap, 1, Len(base.heap)) = base.heap
    /\ world.copy # world.original => world.copied
    /\ world.position <= Len(world.copy)
    /\ \A m \in world.setMap :
          /\ m.item \in Range(world.copy)
          /\ \/ m.value = m.item
             \/ IsDraft(m.value) /\ OriginalOf(world, m.value) = m.item
    /\ \A v \in Range(world.copy) \ Range(world.original) :
          IsRef(v) => Mapped(world, v) = v /\ IsAdded(world, v)

\* A draft that was added beside its own original, after the recipe had deleted
\* that item and added it again: a call with the draft means the original.
Ambiguous(v) == IsDraft(v) /\ {v, OriginalOf(world, v)} \subseteq Range(world.copy)

\* What was deleted is no member any more, be it named by the item or by its
\* draft; delete() and has() agree on what stands for what.
DeletedIsGone ==
    [][\A v \in RecipeValues :
          ~Ambiguous(v) /\ DeleteCall(v) => ~Has(world', v)]_vars

\* The new Set holds in order, once each, what the items stood for when the
\* recipe ended, whether or not the Set had to be rebuilt for it.
ResultInOrder ==
    [][Finish =>
          result'.set = IF ~world.operated THEN base.set
                        ELSE Distinct([i \in DOMAIN world.copy |->
                                GetValue(world, SetItemValue(world, world.copy[i]))])
      ]_vars

\* No draft is left in the new Set, nor in an object that the recipe added.
NoDraftReturned == phase = "done" =>
    \A v \in Range(result.set) :
        ~IsDraft(v) /\ (IsObj(v) => ~IsDraft(world.heap[v.id]))

\* The patches lead from the base to the new state, ...
Before == StateOf(world, base.set, base.side)
After  == StateOf(world, result.set, result.side)
PatchesReplay == phase = "done" => Equal(ApplyAll(world, Before, patches), After)

\* ... and the inverse patches lead back.
InverseRestores == phase = "done" => Equal(ApplyAll(world, After, inverse), Before)
=============================================================================
