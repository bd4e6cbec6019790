-------------------------- MODULE ArrayProperties ---------------------------
(***************************************************************************)
(* What array drafts promise.                                              *)
(***************************************************************************)
EXTENDS ArrayDrafts

Slot == Value \cup [kind : {"base"}, id : Nat]

\* Every draft, copy and record leads somewhere, and the elements of the base
\* are unchanged: getTrap(), relocate() and the element drafts keep them so.
TypeOK ==
    /\ world \in World
    /\ world.original = base.array
    /\ SubSeq(world.heap, 1, Len(base.heap)) = base.heap
    /\ \A d \in DOMAIN world.drafts :
          /\ world.drafts[d].key \in DOMAIN base.array
          /\ world.drafts[d].copy \in {Null} \cup DOMAIN world.heap
    /\ plain \in Seq(Slot)
    /\ phase \in {"recipe", "done"}
    /\ writes \in 0 .. MaxWrites

\* The array draft reads like an ordinary array to which the recipe did the
\* same, whether array.ts moved the elements or the traps did, and whichever of
\* them have drafts: in particular an element of the base state stays one, and
\* an object that the recipe assigned stays itself.
ActsAsArray == phase = "recipe" => Slots(world) = plain

\* The records that calls are decided by are true: a changed array is a copy,
\* and isDense() and isInert() answer from their caches as a scan would.  A hole
\* or a reference that arrived since would send a call down the wrong path.
RecordsTrue == phase = "recipe" =>
    /\ world.array # world.original => world.copied
    /\ world.dense = "yes" => ~HasHoles(world.array)
    /\ world.inert = "yes" => \A v \in Range(world.array) : ~IsRef(v)

\* No draft is left in the new state, wherever methods moved it and whatever
\* object of the recipe holds it.
NoDraftReturned == phase = "done" =>
    \A v \in Range(result) :
        ~IsDraft(v) /\ (IsObj(v) => ~IsDraft(world.heap[v.id]))

\* The new state is what the ordinary array holds, with the changes made
\* through drafts of elements that were moved since.
Content(v) == Tree(world, Raw(v))
ResultAsPlain == phase = "done" =>
    Trees(world, result) = [i \in DOMAIN plain |-> Content(plain[i])]

\* finalizeNode() relies on every draft generating its patches at its own node:
\* a later draft with the same key would find it there before.  Two drafts get
\* the same key from an object that the base array holds twice, which is
\* excepted here; and when a draft is dropped from its index and the element is
\* read again, which is not, as long as the base holds every object once.
HeldOnce == \A i, j \in DOMAIN base.array :
                IsObj(base.array[i]) /\ base.array[i] = base.array[j] => i = j
KeysApart == \A d, e \in DOMAIN world.drafts :
                 world.drafts[d].key = world.drafts[e].key => d = e
OwnKeys   == HeldOnce \/ KeysApart

\* The patches lead from the base to the new state, holes included, ...
PatchesReplay == (phase = "done" /\ OwnKeys) =>
    ApplyAll(world, Trees(world, base.array), patches) = Trees(world, result)

\* ... and the inverse patches lead back.
InverseRestores == (phase = "done" /\ OwnKeys) =>
    ApplyAll(world, Trees(world, result), inverse) = Trees(world, base.array)

\* What the comment of finalizeNode() and the documentation promise, that a
\* draft found at the key of another node generates its patches at its own node
\* and that patches replay, whatever the base holds twice.
SharedPatchesReplay == phase = "done" =>
    ApplyAll(world, Trees(world, base.array), patches) = Trees(world, result)

\* indexOf() on the copy finds what a search through the traps finds: never an
\* element of the base state, which a read would replace by a draft.
SearchAsRead == (phase = "recipe" /\ IsDense(world)) =>
    \A v \in {u \in RecipeValues : IsRef(u)} :
        IndexOf(world, v) = Min({i \in DOMAIN plain : plain[i] = v}
                                \cup {Len(plain) + 1})

\* A call that returns elements returns drafts of those that have none, never
\* the element itself, which the recipe could change: see removed().
Undrafted(s, a) == Cardinality({i \in DOMAIN s : s[i] = Base(a)})
NewDrafts(a)    == Cardinality({d \in DOMAIN world'.drafts \ DOMAIN world.drafts :
                                   world'.drafts[d].original = a})
Returning == \/ Shift \/ Pop
             \/ \E start \in 1 .. MaxLen, deleted \in 1 .. MaxLen, items \in Items :
                   Splice(start, deleted, items)
RemovedAsDrafts ==
    [][(\E a \in DOMAIN base.heap :
           Undrafted(plain, a) > Undrafted(plain', a) + NewDrafts(a))
       => ~Returning]_vars
=============================================================================
