---------------------------- MODULE ArrayDrafts -----------------------------
(***************************************************************************)
(* One producer on a state that is an array: the recipe reads, assigns,    *)
(* deletes, calls methods that move elements, and changes the elements     *)
(* through their drafts; then the drafts are finalized.                    *)
(*                                                                         *)
(* Beside the array draft runs plain, the ordinary array that the recipe   *)
(* believes to work on.                                                    *)
(***************************************************************************)
EXTENDS ArrayPatches

CONSTANTS
    Bases,      \* base states, as records of an array and a heap
    Prims,      \* primitive values; 0 stands for undefined
    MaxDrafts,  \* bound: drafts of elements
    MaxWrites,  \* bound: changes that a recipe may make
    MaxLen,     \* bound: the length of the array
    MaxFresh,   \* bound: objects that the recipe makes itself
    Inserted    \* bound: how many items one call inserts

ASSUME ArrayBoundsAssumption ==
    /\ Prims \subseteq Nat
    /\ {MaxDrafts, MaxWrites, MaxLen, MaxFresh} \subseteq Nat
    /\ Inserted \subseteq Nat

\* A base state is complete and holds no drafts.
ASSUME BasesAssumption ==
    \A b \in Bases :
        /\ b.array \in Seq(Value) /\ b.heap \in Seq(Value)
        /\ \A v \in Range(b.array) \cup Range(b.heap) : ~IsDraft(v)
        /\ \A v \in Range(b.array) : IsObj(v) => v.id \in DOMAIN b.heap

VARIABLES
    base,     \* the state before the producer started
    world,    \* the array draft, its elements and their drafts: a World
    plain,    \* what an ordinary array would hold
    phase,    \* "recipe" or "done"
    patches, inverse,
    result,   \* the array that create() returned
    writes    \* changes made by the recipe, for MaxWrites

vars == <<base, world, plain, phase, patches, inverse, result, writes>>

(***************************************************************************)
(* The ordinary array.  An element of the base that has no draft is there  *)
(* as Base(a): reading it hands out a draft.  A raw object of the base that*)
(* the recipe assigned is itself, except at its original index, where it   *)
(* is the element again.                                                   *)
(***************************************************************************)
Base(a)   == [kind |-> "base", id |-> a]
Raw(v)    == IF v.kind = "base" THEN Obj(v.id) ELSE v
Settle(i, v) == IF IsObj(v) /\ At(base.array, i) = v THEN Base(v.id) ELSE v

\* At i arrives v of another index, or of a call.  A hole cannot arrive over an
\* element: undefined is left there instead.
Arrived(s, i, v) == IF v = Absent /\ Own(s, i) THEN Undefined ELSE Settle(i, v)

\* s rearranged: at i is what was at from[i].
Rearranged(s, from) ==
    [i \in DOMAIN from |-> IF from[i] = i THEN s[i] ELSE Arrived(s, i, s[from[i]])]

PlainSet(s, i, v)    == Write(s, i, Settle(i, v))
PlainShift(s)        == Rearranged(s, [i \in 1 .. Len(s) - 1 |-> i + 1])
PlainSplice(s, start, deleted, items) ==
    LET more == Len(items) - deleted
    IN  [i \in 1 .. Len(s) + more |->
            CASE i < start -> s[i]
              [] i >= start /\ i < start + Len(items) ->
                     Arrived(s, i, items[i - start + 1])
              [] OTHER -> IF more = 0 THEN s[i] ELSE Arrived(s, i, s[i - more])]
PlainReverse(s)      == Rearranged(s, [i \in DOMAIN s |-> Len(s) + 1 - i])
PlainSort(s) ==
    LET sorted == Sorted(s)
    IN  [i \in DOMAIN s |->
            IF i <= Len(sorted)
            THEN IF sorted[i] = s[i] THEN s[i] ELSE Settle(i, sorted[i])
            ELSE Arrived(s, i, Absent)]

\* What the array draft holds, in those terms.
Slots(w) ==
    [i \in DOMAIN w.array |->
        LET v == w.array[i]
        IN  IF IsObj(v) /\ BaseIndex(w, v, i) # Null THEN Base(v.id) ELSE v]

\* Where a call drafted an element, its draft is in the array now.
Drafted(s, w, w1) ==
    [i \in DOMAIN s |->
        LET v == At(w1.array, i)
        IN  IF /\ s[i].kind = "base" /\ IsDraft(v) /\ v.id \notin DOMAIN w.drafts
               /\ w1.drafts[v.id].original = s[i].id
            THEN v ELSE s[i]]

-----------------------------------------------------------------------------
NewWorld(b) ==
    [original |-> b.array, array |-> b.array, copied |-> FALSE, operated |-> FALSE,
     assigned |-> {}, length |-> FALSE, children |-> {}, relocated |-> FALSE,
     from |-> 1, to |-> 0, dense |-> "unknown", inert |-> "unknown",
     heap |-> b.heap, drafts |-> <<>>, tasks |-> {}]

Init ==
    /\ base \in Bases
    /\ world = NewWorld(base)
    /\ plain = [i \in DOMAIN base.array |-> Settle(i, base.array[i])]
    /\ phase = "recipe"
    /\ patches = <<>> /\ inverse = <<>> /\ result = <<>>
    /\ writes = 0

\* A call that leads to world w and would leave s in an ordinary array.
Call(w, s) ==
    /\ phase = "recipe"
    /\ writes < MaxWrites
    /\ w # world \/ s # plain
    /\ Len(w.array) <= MaxLen /\ Len(w.drafts) <= MaxDrafts
    /\ world' = w
    /\ plain' = Drafted(s, world, w)
    /\ writes' = writes + 1
    /\ UNCHANGED <<base, phase, patches, inverse, result>>

Fresh == {a \in Len(base.heap) + 1 .. Len(world.heap) :
             \A d \in DOMAIN world.drafts : world.drafts[d].copy # a}

\* What a recipe can assign: primitives, any draft it was given, its own
\* objects, and objects of the base.
RecipeValues == {Prim(n) : n \in Prims}
                \cup {Draft(d) : d \in DOMAIN world.drafts}
                \cup {Obj(a) : a \in DOMAIN base.heap \cup Fresh}

Items == UNION {[1 .. n -> RecipeValues] : n \in Inserted}

Get(i) ==
    /\ phase = "recipe"
    /\ Len(world.drafts) < MaxDrafts
    /\ Drafts(world, i)
    /\ world' = GetTrap(world, i)
    /\ plain' = Drafted(plain, world, world')
    /\ UNCHANGED <<base, phase, patches, inverse, result, writes>>

Set(i, v)     == Call(SetTrap(world, i, v), PlainSet(plain, i, v))
Delete(i)     == /\ Own(world.array, i)
                 /\ Call(DeleteTrap(world, i), PlainSet(plain, i, Undefined))
Resizing(n)   == Call(SetLength(world, n), Resize(plain, n))
Push(v)       == Call(SetTrap(world, Size(world) + 1, v),
                      PlainSet(plain, Len(plain) + 1, v))
Pop           == /\ plain # <<>>
                 /\ Call(ProxyPop(world), Front(plain))
Shift         == /\ plain # <<>>
                 /\ Call(ShiftMethod(world), PlainShift(plain))
Unshift(items)  == Call(UnshiftMethod(world, items), PlainSplice(plain, 1, 0, items))
Splice(start, deleted, items) ==
    /\ start + deleted <= Len(plain) + 1
    /\ Call(SpliceMethod(world, start, deleted, items),
            PlainSplice(plain, start, deleted, items))
Sort          == Call(SortMethod(world), PlainSort(plain))
ReverseCall   == Call(ReverseMethod(world), PlainReverse(plain))

\* The recipe changes an element through its draft,
WriteElement(d, v) == Call(SetElement(world, d, v), plain)

\* or makes an object of its own.
NewObject(v) ==
    /\ phase = "recipe"
    /\ Cardinality(Fresh) < MaxFresh
    /\ v \notin {Obj(a) : a \in Fresh}
    /\ world' = [world EXCEPT !.heap = Append(@, v)]
    /\ UNCHANGED <<base, plain, phase, patches, inverse, result, writes>>

-----------------------------------------------------------------------------
(***************************************************************************)
(* The end of the recipe.                                                  *)
(***************************************************************************)

\* handleValue() of the objects that the recipe assigned, if there are drafts
\* and the object still is where it was assigned.
FinalizeAssigned(w) ==
    LET found == {t \in w.tasks : /\ w.drafts # <<>> /\ t.at \in w.assigned
                                 /\ At(w.array, t.at) = t.value
                                 /\ IsDraft(w.heap[t.value.id])}
    IN  [w EXCEPT !.heap = [a \in DOMAIN w.heap |->
                               IF \E t \in found : t.value.id = a
                               THEN FinalElement(w, w.heap[a].id) ELSE w.heap[a]]]

\* Fault: callbacks write whether the draft still is there or not.
RunCallbacksAnywhere(w, d) ==
    [w EXCEPT !.array = [i \in DOMAIN w.array |->
                            IF i \in Node(w, d).callbacks
                            THEN FinalElement(w, d) ELSE w.array[i]]]

\* The callbacks of an element's draft replace it where it was assigned.
RunCallbacks(w, d) ==
    [w EXCEPT !.array = [i \in DOMAIN w.array |->
                            IF i \in Node(w, d).callbacks /\ w.array[i] = Draft(d)
                            THEN FinalElement(w, d) ELSE w.array[i]]]

\* finalizeNode() of an element: at its key, its own draft or another one that
\* was moved there gets its final value.
FinalizeNode(w, d) ==
    LET key   == Node(w, d).key
        there == At(w.array, key)
        w1    == IF IsDraft(there)
                 THEN [w EXCEPT !.array[key] = FinalElement(w, there.id)] ELSE w
    IN  RunCallbacks(w1, d)

\* An element emits a patch under its key, if it is still there.
ElementPatches(w, d, value) ==
    IF At(w.array, Node(w, d).key) = Draft(d) /\ Node(w, d).operated
       /\ Node(w, d).assigned
    THEN <<Patch("field", Node(w, d).key, value)>> ELSE <<>>

\* The drafts of elements are finalized from the last to the first.
FinalizeElements(w) ==
    LET last == Len(w.drafts)
        after[n \in 0 .. last] ==
            IF n = 0 THEN [w |-> w, patches |-> <<>>, inverse |-> <<>>]
            ELSE LET u == after[n - 1].w
                     d == last + 1 - n
                 IN  [w |-> FinalizeNode(u, d),
                      patches |-> after[n - 1].patches
                          \o ElementPatches(u, d, Held(u, Draft(d))),
                      inverse |-> after[n - 1].inverse
                          \o ElementPatches(u, d, u.heap[Node(u, d).original])]
    IN  after[last]

\* finalizePatches(): whether the array has patches of its own.
HasPatches(w) == w.operated /\ (w.relocated \/ w.assigned # {} \/ w.length)

Finish(als) ==
    /\ phase = "recipe"
    /\ LET done == FinalizeElements(FinalizeAssigned(world))
           own  == IF HasPatches(done.w) THEN ArrayPatchesOf(done.w, als)
                   ELSE [patches |-> <<>>, inverse |-> <<>>]
       IN  IF world.operated
           THEN /\ world' = done.w
                /\ result' = done.w.array
                /\ patches' = done.patches \o own.patches
                /\ inverse' = done.inverse \o own.inverse
           ELSE /\ result' = world.original
                /\ UNCHANGED <<world, patches, inverse>>
    /\ phase' = "done"
    /\ UNCHANGED <<base, plain, writes>>

Recipe ==
    \/ \E i \in 1 .. MaxLen : Get(i) \/ Delete(i)
    \/ \E i \in 1 .. MaxLen, v \in RecipeValues : Set(i, v)
    \/ \E n \in 0 .. MaxLen : Resizing(n)
    \/ \E v \in RecipeValues : Push(v) \/ NewObject(v)
    \/ Pop \/ Shift \/ Sort \/ ReverseCall
    \/ \E items \in Items : Unshift(items)
    \/ \E start \in 1 .. MaxLen, deleted \in 0 .. MaxLen, items \in Items :
          Splice(start, deleted, items)
    \/ \E d \in DOMAIN world.drafts, n \in Prims : WriteElement(d, Prim(n))

Next == Recipe \/ \E als \in BOOLEAN : Finish(als)

Spec == Init /\ [][Next]_vars
=============================================================================
