------------------------------- MODULE Drafts -------------------------------
(***************************************************************************)
(* One producer on a state of plain objects and Maps, with patches: the    *)
(* recipe reads, assigns, deletes and moves values through drafts, then    *)
(* finalizeDraft() works through finalities.draft from its end.            *)
(***************************************************************************)
EXTENDS DraftHeap, Patches

CONSTANTS
    Bases,      \* base states: heaps whose root is the object at address 1
    MaxDrafts,  \* bound: drafts that a recipe may create
    MaxWrites,  \* bound: changes that a recipe may make
    MaxFresh,   \* bound: objects that a recipe may create itself
    FreshTypes, \* bound: their types
    Returning   \* bound: whether the recipe may return a value

\* A base state holds primitives and its own objects, and no draft.
IsBase(b) ==
    /\ b \in Seq(Object) /\ b # <<>>
    /\ \A a \in DOMAIN b, k \in Keys :
          \/ b[a].at[k] = Absent
          \/ b[a].at[k] \in PrimValues
          \/ \E c \in DOMAIN b : b[a].at[k] = Obj(c)

ASSUME BasesAssumption == \A b \in Bases : IsBase(b)
ASSUME BoundsAssumption == /\ MaxDrafts \in Nat /\ MaxWrites \in Nat
                           /\ MaxFresh \in Nat /\ FreshTypes \subseteq ObjectTypes
                           /\ Returning \in BOOLEAN

VARIABLES
    base,       \* the heap before the producer started
    heap, drafts, tasks, handled,   \* the world of DraftHeap
    phase,      \* "recipe", "finalizing", "done", or "failed"
    patches, inverse,   \* the batches of patches, one per finalized draft
    returned,   \* the value that the recipe returned, if it counts
    result,     \* what create() returned
    writes      \* changes made by the recipe, for MaxWrites

vars == <<base, heap, drafts, tasks, handled, phase, patches, inverse, returned,
          result, writes>>

W == [heap |-> heap, drafts |-> drafts, tasks |-> tasks, handled |-> handled]
Become(w) == /\ heap' = w.heap /\ drafts' = w.drafts
             /\ tasks' = w.tasks /\ handled' = w.handled

Root == 1

Phases == {"recipe", "finalizing", "done", "failed"}

Init ==
    /\ base \in Bases
    /\ heap = base
    /\ LET w == CreateDraft([heap |-> base, drafts |-> <<>>, tasks |-> <<>>,
                             handled |-> {}], 1, Null, NoKey)
       IN  drafts = w.drafts /\ tasks = w.tasks /\ handled = w.handled
    /\ phase = "recipe"
    /\ patches = <<>> /\ inverse = <<>>
    /\ returned = <<>>
    /\ result = Absent
    /\ writes = 0

-----------------------------------------------------------------------------
(***************************************************************************)
(* The recipe.                                                             *)
(***************************************************************************)

\* Objects that the recipe made itself: neither part of the base nor copies.
Fresh(w) == {a \in DOMAIN w.heap : /\ a > Len(base)
                                   /\ \A d \in DraftIds(w) : Node(w, d).copy # a}

\* What the recipe can assign: primitives, any draft it holds, objects of the
\* base (original() returns them), and its own objects.
RecipeValues ==
    PrimValues
    \cup {Draft(d) : d \in DOMAIN drafts}
    \cup {Obj(a) : a \in DOMAIN base \cup Fresh(W)}

\* Cyclic states are not supported, and deeper ones are beyond the bound.
Bounded(w) == Shallow(Store(w))

\* A step of the recipe that changes something.
Change(w) == /\ phase = "recipe"
             /\ writes < MaxWrites
             /\ Bounded(w)
             /\ Become(w)
             /\ writes' = writes + 1
             /\ UNCHANGED <<base, phase, patches, inverse, returned, result>>

\* Reading a key drafts the object there if the original holds it there too;
\* any other value is returned as it is, without a change.
Drafts(d, k) ==
    /\ phase = "recipe"
    /\ Len(drafts) < MaxDrafts
    /\ IsObj(Latest(W, d).at[k])
    /\ Latest(W, d).at[k] = Original(W, d).at[k]
    /\ Become(DraftChild(W, d, k))
    /\ UNCHANGED <<base, phase, patches, inverse, returned, result, writes>>

GetTrap(d, k)  == Original(W, d).type = "object" /\ Drafts(d, k)
GetEntry(d, k) == Original(W, d).type = "map" /\ Drafts(d, k)

\* The value is the original of the draft at the key.
DropsDraft(d, k, v) == LET here == Latest(W, d).at[k]
                       IN  IsDraft(here) /\ v = Obj(Node(W, here.id).original)

\* Assigning it drops the draft from the key.
SetTrapRestore(d, k, v) ==
    /\ Original(W, d).type = "object"
    /\ DropsDraft(d, k, v)
    /\ LET w == Put(W, d, k, v)
       IN  Change(IF HasOwn(Original(W, d), k) /\ v = Read(Original(W, d), k)
                  THEN Assigned(w, d, k, "none")
                  ELSE MarkFinalization(Assigned(MarkChanged(w, d), d, k, "set"),
                                        d, k, v))

\* Any other assignment, unless it changes nothing.
SetTrap(d, k, v) ==
    /\ Original(W, d).type = "object"
    /\ ~DropsDraft(d, k, v)
    /\ ~ (v = Read(Latest(W, d), k) /\ (v # Undefined \/ HasOwn(Latest(W, d), k)))
    /\ LET w    == MarkChanged(EnsureShallowCopy(W, d), d)
           same == HasOwn(Original(W, d), k) /\ v = Read(Original(W, d), k)
           w1   == Assigned(w, d, k, IF same THEN "none" ELSE "set")
       IN  Change(MarkFinalization(Put(w1, d, k, v), d, k, v))

\* Deleting a key that the original has.
DeletePropertyTrap(d, k) ==
    /\ Original(W, d).type = "object"
    /\ HasOwn(Original(W, d), k)
    /\ LET w == MarkChanged(EnsureShallowCopy(W, d), d)
       IN  Change(Put(Assigned(w, d, k, "deleted"), d, k, Absent))

\* Deleting a key that it does not have: the draft is not marked as changed.
DeleteAdded(d, k) ==
    /\ Original(W, d).type = "object"
    /\ ~HasOwn(Original(W, d), k)
    /\ HasOwn(Latest(W, d), k)
    /\ Change(Put(Assigned(W, d, k, "none"), d, k, Absent))

MapSet(d, k, v) ==
    /\ Original(W, d).type = "map"
    /\ ~HasOwn(Latest(W, d), k) \/ Latest(W, d).at[k] # v
    /\ LET w == MarkChanged(EnsureShallowCopy(W, d), d)
       IN  Change(MarkFinalization(Put(Assigned(w, d, k, "set"), d, k, v),
                                   d, k, v))

MapDelete(d, k) ==
    /\ Original(W, d).type = "map"
    /\ HasOwn(Latest(W, d), k)
    /\ LET w    == MarkChanged(EnsureShallowCopy(W, d), d)
           flag == IF HasOwn(Original(W, d), k) THEN "deleted" ELSE "none"
       IN  Change(Put(Assigned(w, d, k, flag), d, k, Absent))

\* Fault: assignedMap keeps its entries for added keys.
MapClearKeepsAdded(d) ==
    /\ Original(W, d).type = "map"
    /\ \E k \in Keys : HasOwn(Latest(W, d), k)
    /\ LET w == MarkChanged(EnsureShallowCopy(W, d), d)
       IN  Change([w EXCEPT
               !.drafts[d].assigned = [k \in Keys |->
                   IF HasOwn(Original(W, d), k) THEN "deleted" ELSE @[k]],
               !.heap[Node(w, d).copy] = Empty("map")])

\* Fault: the keys that are there count as deleted, not those of the original.
MapClearOfLatest(d) ==
    /\ Original(W, d).type = "map"
    /\ \E k \in Keys : HasOwn(Latest(W, d), k)
    /\ LET w == MarkChanged(EnsureShallowCopy(W, d), d)
       IN  Change([w EXCEPT
               !.drafts[d].assigned = [k \in Keys |->
                   IF HasOwn(Original(W, d), k) /\ HasOwn(Latest(W, d), k)
                   THEN "deleted" ELSE "none"],
               !.heap[Node(w, d).copy] = Empty("map")])

\* Every entry of the original counts as deleted, and none of the added ones.
MapClear(d) ==
    /\ Original(W, d).type = "map"
    /\ \E k \in Keys : HasOwn(Latest(W, d), k)
    /\ LET w == MarkChanged(EnsureShallowCopy(W, d), d)
       IN  Change([w EXCEPT
               !.drafts[d].assigned = [k \in Keys |->
                   IF HasOwn(Original(W, d), k) THEN "deleted" ELSE "none"],
               !.heap[Node(w, d).copy] = Empty("map")])

\* The recipe makes an object or a Map of its own, holding a value, ...
NewObject(type, k, v) ==
    /\ phase = "recipe"
    /\ Cardinality(Fresh(W)) < MaxFresh
    /\ LET o == [Empty(type) EXCEPT !.at[k] = v]
           w == [W EXCEPT !.heap = Append(@, o)]
       IN  Bounded(w) /\ Become(w)
    /\ UNCHANGED <<base, phase, patches, inverse, returned, result, writes>>

\* ... and may change it, also after it became part of the state.
WriteFresh(a, k, v) ==
    /\ a \in Fresh(W)
    /\ heap[a].at[k] # v
    /\ Change([W EXCEPT !.heap[a].at[k] = v])

\* The recipe throws, or what it returned is refused (which EndRecipe excludes):
\* fail() revokes the drafts and create() throws.
Fail == /\ phase = "recipe"
        /\ phase' = "failed"
        /\ UNCHANGED <<base, heap, drafts, tasks, handled, patches, inverse,
                       returned, result, writes>>

Recipe ==
    \/ \E d \in DOMAIN drafts, k \in Keys :
          \/ GetTrap(d, k)
          \/ GetEntry(d, k)
          \/ DeletePropertyTrap(d, k)
          \/ DeleteAdded(d, k)
          \/ MapDelete(d, k)
          \/ \E v \in RecipeValues : \/ SetTrapRestore(d, k, v)
                                     \/ SetTrap(d, k, v)
                                     \/ MapSet(d, k, v)
    \/ \E d \in DOMAIN drafts : MapClear(d)
    \/ \E k \in Keys, v \in RecipeValues :
          \/ \E type \in FreshTypes : NewObject(type, k, v)
          \/ \E a \in DOMAIN heap : WriteFresh(a, k, v)

-----------------------------------------------------------------------------
(***************************************************************************)
(* The end of the recipe: returnValue() of makeCreator.ts.                 *)
(***************************************************************************)

ReturnValues == IF Returning THEN RecipeValues ELSE {Undefined}

\* A recipe that returns no value, or its own draft, returns the changed state.
IsState(v) == v \in {Undefined, Draft(Root)}

\* A value besides changes, or a changed draft, is refused.
Refused(v) == /\ ~IsState(v)
              /\ Node(W, IF IsDraft(v) THEN v.id ELSE Root).operated

\* Another draft stands for current() of it, and an object has its drafts
\* replaced.
EndRecipe(v) ==
    /\ phase = "recipe"
    /\ ~Refused(v)
    /\ phase' = "finalizing"
    /\ IF IsObj(v) THEN Become(HandleReturnValue(W, v)) ELSE Become(W)
    /\ returned' = CASE IsState(v) -> <<>>
                     [] ~IsState(v) /\ IsDraft(v) ->
                           <<Obj(Node(W, v.id).original)>>
                     [] OTHER -> <<v>>
    /\ UNCHANGED <<base, patches, inverse, result, writes>>

-----------------------------------------------------------------------------
(***************************************************************************)
(* finalizeDraft().                                                        *)
(***************************************************************************)

\* An unchanged root skips the list.
Finalizing == phase = "finalizing" /\ Node(W, Root).operated /\ tasks # <<>>

\* Fault: the entry stays in the list.
PoppedNever == W

Popped == [W EXCEPT !.tasks = Front(@)]

\* finalizePatches(): a changed draft generates its patches once.
Generates(w, d) == /\ Node(w, d).operated
                   /\ HasEntries(w, d)
                   /\ ~Node(w, d).finalized

FinalizePatches(w, d) ==
    IF Generates(w, d)
    THEN /\ patches' = patches \o ForwardBatches(w, d)
         /\ inverse' = inverse \o InverseBatches(w, d)
    ELSE UNCHANGED <<patches, inverse>>

Finalized(w, d) == IF Generates(w, d)
                   THEN [w EXCEPT !.drafts[d].finalized = TRUE] ELSE w

\* finalizeNode(): the draft found at the node's key of the parent's copy gives
\* way to its final value; the node's patches are generated if that draft is the
\* node itself.  Then the node's callbacks run.
FinalizeNode ==
    /\ Finalizing
    /\ Last(tasks).kind = "node"
    /\ LET d == Last(tasks).draft
           p == Node(W, d).parent
           k == Node(W, d).key
           here == IF p = Null THEN Draft(d) ELSE Copy(W, p).at[k]
           w == IF here = Draft(d) THEN Finalized(Popped, d) ELSE Popped
       IN  /\ IF here = Draft(d) THEN FinalizePatches(Popped, d)
                                 ELSE UNCHANGED <<patches, inverse>>
           /\ Become(RunCallbacks(
                  IF p # Null /\ IsDraft(here)
                  THEN Put(w, p, k, Final(w, here.id)) ELSE w, d))
    /\ UNCHANGED <<base, phase, returned, result, writes>>

\* The deferred callback of an object that was assigned at a key.
FinalizeTask ==
    /\ Finalizing
    /\ Last(tasks).kind = "assigned"
    /\ Become(FinalizeAssigned(Popped, Last(tasks)))
    /\ UNCHANGED <<base, phase, patches, inverse, returned, result, writes>>

\* The list is done: create() returns.  A returned value takes the place of the
\* state, and of its patches.
Return ==
    /\ phase = "finalizing"
    /\ ~Finalizing
    /\ phase' = "done"
    /\ IF returned = <<>>
       THEN /\ result' = Final(W, Root)
            /\ UNCHANGED <<patches, inverse>>
       ELSE /\ result' = Head(returned)
            /\ patches' = <<{Patch("replace", <<>>, Live(Head(returned)))}>>
            /\ inverse' =
                  <<{Patch("replace", <<>>, Live(Obj(Node(W, Root).original)))}>>
    /\ UNCHANGED <<base, heap, drafts, tasks, handled, returned, writes>>

Ended == phase \in {"done", "failed"} /\ UNCHANGED vars

Next == \/ Recipe
        \/ \E v \in ReturnValues : EndRecipe(v)
        \/ Fail
        \/ FinalizeNode
        \/ FinalizeTask
        \/ Return
        \/ Ended

Spec == Init /\ [][Next]_vars

\* finalizeDraft() is one synchronous loop, which nothing interrupts; the recipe
\* itself need not end.
FairSpec == Spec /\ WF_vars(FinalizeNode \/ FinalizeTask \/ Return)
=============================================================================
