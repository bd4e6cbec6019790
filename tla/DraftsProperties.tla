-------------------------- MODULE DraftsProperties --------------------------
(***************************************************************************)
(* What makes the drafts of a producer correct.                            *)
(***************************************************************************)
EXTENDS Drafts

\* What a value refers to exists.
ExistsIn(w, v) == /\ IsObj(v)   => v.id \in DOMAIN w.heap
                  /\ IsDraft(v) => v.id \in DraftIds(w)

WorldOK(w) ==
    /\ w \in World
    /\ Root \in DraftIds(w)
    /\ \A a \in DOMAIN w.heap, k \in Keys : ExistsIn(w, w.heap[a].at[k])
    /\ \A d \in DraftIds(w) :
          /\ Node(w, d).original \in DOMAIN w.heap
          /\ Node(w, d).copy \in DOMAIN w.heap \cup {Null}
          /\ Node(w, d).parent \in DraftIds(w) \cup {Null}
          /\ Node(w, d).parent # Null => Node(w, d).key \in Keys
          /\ \A i \in DOMAIN Node(w, d).callbacks :
                Node(w, d).callbacks[i].target \in DraftIds(w)
    /\ \A i \in DOMAIN w.tasks : w.tasks[i].draft \in DraftIds(w)

\* Every part of the state has its type, and every reference leads somewhere.
TypeOK ==
    /\ base \in Bases
    /\ WorldOK(W)
    /\ phase \in Phases
    /\ returned \in Seq(Value) /\ Len(returned) <= 1
    /\ result \in Value
    /\ writes \in 0 .. MaxWrites

\* The objects of the base state keep what they held: no trap, Map method or
\* finalization step writes to the caller's state.
BaseUntouched == \A a \in DOMAIN base : heap[a] = base[a]

\* A draft with an entry in assignedMap is marked as changed.  A changed draft
\* has a copy, and the drafts it was read through are changed too: otherwise
\* finalization would drop the change with the parent's copy.
ChangesReachRoot ==
    \A d \in DraftIds(W) :
        /\ HasEntries(W, d) => Node(W, d).operated
        /\ Node(W, d).operated =>
              /\ Node(W, d).copy # Null
              /\ Node(W, d).parent # Null => Node(W, Node(W, d).parent).operated

\* A draft that is not marked as changed reads like its original, whatever its
\* copy holds, so that getValue(), handleValue(), the callbacks and
\* cloneIfNeeded() may take the original in its place.
UnchangedReadsAsOriginal ==
    LET store == Store(W)
    IN  \A d \in DOMAIN drafts :
            drafts[d].operated
            \/ Tree(store, Draft(d)) = Tree(store, Obj(drafts[d].original))

\* The returned state leads to no draft, which would be a revoked proxy.
NoDraftReturned ==
    phase = "done" => \A v \in Reached(Store(W), result) : ~IsDraft(v)

\* Once the recipe has ended, the list of drafts is worked off, and create()
\* returns a state that leads to no draft.
Settles == phase = "finalizing" ~> phase = "done" /\ NoDraftReturned

\* The returned state shares with the base what the recipe left unchanged: no
\* copy that a mere read made is part of it.
UnchangedIsShared ==
    phase = "done" =>
        \A v \in Reached(Store(W), result), d \in DOMAIN drafts :
            v = Obj(drafts[d].copy) => drafts[d].operated

\* current() of any draft reads as the draft does.  What it shares with the
\* state, and all that this leads to, are objects of the base, which stay as
\* they are, and objects that the recipe made: never a draft, nor a copy that a
\* trap or a Map method will write to.
CurrentIsSnapshot ==
    phase = "recipe" =>
        \A d \in DOMAIN drafts :
            /\ CurrentTree(W, Draft(d)) = View(W, Draft(d))
            /\ \A v \in KeptInSnapshot(W, Draft(d)) :
                  Reached(Store(W), v) \subseteq
                      {Obj(a) : a \in DOMAIN base \cup Fresh(W)}

\* apply(base, patches) gives the returned state, and does not die.
PatchesReplay ==
    phase = "done" =>
        ApplyAll(W, View(W, Obj(1)), patches) = View(W, result)

\* apply(state, inversePatches) gives the base state back.
InverseRestores ==
    phase = "done" =>
        ApplyAll(W, View(W, result), inverse) = View(W, Obj(1))

\* No patch value leads to a draft once create() has returned, in either
\* direction.
PatchesHoldNoDraft ==
    phase = "done" =>
        \A batches \in {patches, inverse} :
            \A i \in DOMAIN batches : \A patch \in batches[i] :
                patch.value.tag = "live" =>
                    \A v \in Reached(Store(W), patch.value.value) : ~IsDraft(v)

-----------------------------------------------------------------------------
(***************************************************************************)
(* The producer implements RecipeSpec: while the recipe runs, drafts read  *)
(* as the recipe's own objects would, and from its end on every step of    *)
(* the finalization keeps the tree that the returned state will be.        *)
(***************************************************************************)
Given == {Obj(a) : a \in DOMAIN base}

\* The recipe cannot get hold of the copies behind its drafts.
Seen(w) == LET all    == Store(w)
               copies == {Obj(Node(w, d).copy) : d \in DraftIds(w)}
           IN  [v \in DOMAIN all \ copies |-> all[v]]

SeenStore == IF phase = "recipe" THEN Seen(W) ELSE <<>>

\* What the recipe returned, its state if it returned nothing else, and the
\* tree that this is, once finalized.
Handed == IF returned = <<>> THEN Draft(Root) ELSE Head(returned)
Promised ==
    CASE phase = "finalizing" -> <<Handed, View(W, Handed)>>
      [] phase = "done"       -> <<Handed, View(W, result)>>
      [] OTHER                -> <<>>

Abstract == INSTANCE RecipeSpec WITH
    given <- Given, store <- SeenStore, outcome <- Promised

\* What the recipe sees through its drafts, and what create() returns, is what
\* changing ordinary objects would give.
ActsOnOrdinaryObjects == Abstract!Spec
=============================================================================
