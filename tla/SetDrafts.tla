------------------------------ MODULE SetDrafts ------------------------------
(***************************************************************************)
(* One producer on a state that holds a Set and an object beside it: the   *)
(* recipe iterates the Set while it adds, deletes and clears, changes      *)
(* items through their drafts, and may add the draft of the object.        *)
(***************************************************************************)
EXTENDS SetPatches

CONSTANTS
    Bases,      \* base states, as records of a Set, a side object and a heap
    Prims,      \* primitive values; 0 stands for undefined
    MaxDrafts,  \* bound: drafts of items and of the object
    MaxWrites,  \* bound: changes that a recipe may make
    MaxFresh    \* bound: objects that the recipe makes itself

\* A base state is a Set of primitives and objects, and an object beside it; no
\* drafts are in it.
IsBase(b) ==
    /\ b.heap \in Seq(Value) /\ \A v \in Range(b.heap) : ~IsDraft(v)
    /\ b.set \in Seq(Value) /\ IsInjective(b.set)
    /\ \A v \in Range(b.set) : ~IsDraft(v) /\ (IsObj(v) => v.id \in DOMAIN b.heap)
    /\ IsObj(b.side) /\ b.side.id \in DOMAIN b.heap

ASSUME SetBasesAssumption == \A b \in Bases : IsBase(b)
ASSUME SetBoundsAssumption ==
    Prims \subseteq Nat /\ {MaxDrafts, MaxWrites, MaxFresh} \subseteq Nat

VARIABLES
    base,     \* the state before the producer started
    world,    \* the Set draft, its items and their drafts: a World
    phase,    \* "recipe" or "done"
    patches, inverse,
    result,   \* the Set and the object that create() returned
    writes    \* changes made by the recipe, for MaxWrites

vars == <<base, world, phase, patches, inverse, result, writes>>

Init ==
    /\ base \in Bases
    /\ world = [original |-> base.set, copy |-> base.set, copied |-> FALSE,
                operated |-> FALSE, setMap |-> {}, assigned |-> {},
                position |-> 0, heap |-> base.heap,
                drafts |-> <<>>, tasks |-> {}]
    /\ phase = "recipe"
    /\ patches = <<>> /\ inverse = <<>>
    /\ result = [set |-> base.set, side |-> base.side]
    /\ writes = 0

Fresh == {a \in Len(base.heap) + 1 .. Len(world.heap) :
             \A d \in DOMAIN world.drafts : world.drafts[d].copy # a}

\* What a recipe can add: primitives, any draft it was given, its own objects,
\* and items of the base.
RecipeValues == {Prim(n) : n \in Prims}
                \cup {Draft(d) : d \in DOMAIN world.drafts}
                \cup {Obj(a) : a \in Fresh} \cup Range(base.set)

Read(w) ==
    /\ phase = "recipe"
    /\ Len(w.drafts) <= MaxDrafts
    /\ w # world
    /\ world' = w
    /\ UNCHANGED <<base, phase, patches, inverse, result, writes>>

Change(w) ==
    /\ phase = "recipe"
    /\ writes < MaxWrites
    /\ w # world
    /\ world' = w
    /\ writes' = writes + 1
    /\ UNCHANGED <<base, phase, patches, inverse, result>>

SideDrafts(w) == {d \in DOMAIN w.drafts : ~w.drafts[d].item}

Iterate      == Read(Values(world))
NextItem     == world.copied /\ world.position < Len(world.copy) /\ Read(Next(world))
AddCall(v)    == Change(Add(world, v))
DeleteCall(v) == Change(Delete(world, v))
ClearCall    == Change(Clear(world))

\* The recipe reads the object beside the Set, changes an object through its
\* draft, or makes an object of its own.
ReadSide == SideDrafts(world) = {} /\ Read(CreateDraft(world, base.side.id, FALSE))
WriteElement(d, v) ==
    LET w == SetElement(world, d, v)
    IN  Change(IF Node(world, d).item THEN w
               ELSE [w EXCEPT !.operated = world.operated])
NewObject(v) ==
    /\ Cardinality(Fresh) < MaxFresh
    /\ v \notin {Obj(a) : a \in Fresh}
    /\ Read([world EXCEPT !.heap = Append(@, v)])

\* The drafts are finalized from the last to the first, the Set after those of
\* its items.  The object's draft may be older than the Set's: what its node and
\* its callback write to setMap is then too late, but the Set has replaced it.
FinalizeDrafts(w) ==
    LET all == Len(w.drafts)
        step(state, d) ==
            LET u == state.w
            IN  [w |-> FinalizeNode(u, d),
                 patches |-> state.patches \o FieldPatches(u, d, Held(u, Draft(d))),
                 inverse |-> state.inverse
                    \o FieldPatches(u, d, u.heap[Node(u, d).original])]
        after[n \in 0 .. all] ==
            IF n = 0 THEN [w |-> w, patches |-> <<>>, inverse |-> <<>>]
            ELSE step(after[n - 1], all + 1 - n)
    IN  after[all]

Finish ==
    /\ phase = "recipe"
    /\ LET done == FinalizeDrafts(FinalizeAssigned(world))
           set  == FinalizeSetValue(done.w)
           own  == set.operated /\ set.assigned # {}
           side(w) == IF SideDrafts(w) = {} THEN base.side
                      ELSE FinalElement(w, CHOOSE d \in SideDrafts(w) : TRUE)
       IN  /\ world' = set
           /\ result' = [set  |-> IF set.operated THEN set.copy ELSE set.original,
                         side |-> side(set)]
           /\ patches' = done.patches \o (IF own THEN ForwardPatches(set) ELSE <<>>)
           /\ inverse' = (IF own THEN InversePatches(set) ELSE <<>>) \o done.inverse
    /\ phase' = "done"
    /\ UNCHANGED <<base, writes>>

Recipe ==
    \/ Iterate \/ NextItem \/ ClearCall \/ ReadSide
    \/ \E v \in RecipeValues : AddCall(v) \/ DeleteCall(v) \/ NewObject(v)
    \/ \E d \in DOMAIN world.drafts, n \in Prims : WriteElement(d, Prim(n))

Step == Recipe \/ Finish

Spec == Init /\ [][Step]_vars
=============================================================================
