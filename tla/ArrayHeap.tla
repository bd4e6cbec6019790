------------------------------ MODULE ArrayHeap ------------------------------
(***************************************************************************)
(* An array draft at the root of a producer, the drafts of its elements,   *)
(* and the traps of both.  Elements are primitives or objects with one     *)
(* property x; heap holds, for each address, the value at x.  Index i of   *)
(* the code is i + 1 here, and a hole is an Absent element.                *)
(*                                                                         *)
(* As in DraftHeap, a world w is a record, and every function that changes *)
(* state in the code takes a world and returns the next one.  w.array is   *)
(* latest(): the copy from the moment there is one, before that the        *)
(* original.                                                               *)
(***************************************************************************)
EXTENDS Elements, FiniteSetsExt

\* An element's draft.  Its key is the index that its element had in the
\* original array; callbacks are the indices it was assigned or moved to.
ElementDraft == [original : Nat, key : Nat, copy : Nat, operated : BOOLEAN,
                 assigned : BOOLEAN, callbacks : SUBSET Nat]

Cache == {"unknown", "yes", "no"}

\* children is the registry of the drafts created for the indices.  The diff
\* range of arrayState is from .. to, and empty if from > to.
World == [original : Seq(Value), array : Seq(Value), copied : BOOLEAN,
          operated : BOOLEAN, assigned : SUBSET (Nat \ {0}), length : BOOLEAN,
          children : SUBSET (Nat \X Nat),
          relocated : BOOLEAN, from : Nat, to : Nat,
          dense : Cache, inert : Cache,
          heap : Seq(Value), drafts : Seq(ElementDraft),
          tasks : SUBSET [at : Nat, value : Value]]

Size(w)    == Len(w.array)
At(s, i)   == IF i \in DOMAIN s THEN s[i] ELSE Absent
Seen(v)    == IF v = Absent THEN Undefined ELSE v    \* a hole reads as undefined
Own(s, i)  == At(s, i) # Absent
HasHoles(s) == \E i \in DOMAIN s : s[i] = Absent

\* copy[i] = v, which leaves holes when i is past the end.
Write(s, i, v) == [j \in 1 .. Max({Len(s), i}) |-> IF j = i THEN v ELSE At(s, j)]
Resize(s, n)   == [j \in 1 .. n |-> At(s, j)]

\* baseIndexOf(): the last index at which the original array holds v.
LastIndexOf(s, v) == Max({Null} \cup {i \in DOMAIN s : s[i] = v})

\* Fault: the record of an assigned value is not looked at.
BaseIndexOfAssigned(w, v, i) ==
    CASE At(w.original, i) = v -> i
      [] At(w.original, i) # v /\ w.relocated -> LastIndexOf(w.original, v)
      [] OTHER -> Null

\* Fault: an element is at home at its original index only.
BaseIndexAtHome(w, v, i) == IF At(w.original, i) = v THEN i ELSE Null

\* The original index under which a read of v at i drafts it, if any.
BaseIndex(w, v, i) ==
    CASE At(w.original, i) = v -> i
      [] At(w.original, i) # v /\ w.relocated /\ i \notin w.assigned ->
            LastIndexOf(w.original, v)
      [] OTHER -> Null

IsMovedElement(w, v, i) == /\ IsRef(v)
                           /\ v # At(w.original, i)
                           /\ BaseIndex(w, v, i) # Null

-----------------------------------------------------------------------------
EnsureShallowCopy(w) == [w EXCEPT !.copied = TRUE]
Prepare(w)           == MarkChanged(EnsureShallowCopy(w))

CreateDraft(w, a, key) ==
    [w EXCEPT !.drafts = Append(@, [original |-> a, key |-> key, copy |-> Null,
                                    operated |-> FALSE, assigned |-> FALSE,
                                    callbacks |-> {}])]

\* A draft is finalized where it was assigned by a callback, and an object by a
\* deferred task.  Objects of the base hold no drafts, so their tasks, which
\* change nothing, are left out.
MarkFinalization(w, i, v) ==
    CASE IsDraft(v) -> [w EXCEPT !.drafts[v.id].callbacks = @ \cup {i}]
      [] IsObj(v) /\ v \notin Range(w.original) ->
             [w EXCEPT !.tasks = @ \cup {[at |-> i, value |-> v]}]
      [] OTHER -> w

MarkRange(w, from, to) ==
    [w EXCEPT !.from = IF w.to >= w.from THEN Min({@, from}) ELSE from,
              !.to   = IF w.to >= w.from THEN Max({@, to}) ELSE to,
              !.relocated = TRUE]

\* Fault: the array still counts as dense.
ResizedCached(w, previous) ==
    LET end == Min({Len(w.array), Len(w.original)})
    IN  IF previous < end THEN MarkRange(w, previous + 1, end) ELSE w

\* Fault: indices that the array exposes again are not compared.
ResizedUnmarked(w, previous) == [w EXCEPT !.dense = "unknown"]

Resized(w, previous) ==
    LET end == Min({Len(w.array), Len(w.original)})
        w1  == [w EXCEPT !.dense = "unknown"]
    IN  IF previous < end THEN MarkRange(w1, previous + 1, end) ELSE w1

-----------------------------------------------------------------------------
\* The get trap drafts an object of the base state, wherever it is now.
Drafts(w, i) == IsObj(At(w.array, i)) /\ BaseIndex(w, w.array[i], i) # Null

\* Fault: a moved element's draft is finalized at its original index only.
GetWithoutCallback(w, i) ==
    IF ~Drafts(w, i) THEN w
    ELSE LET key == BaseIndex(w, w.array[i], i)
             d   == Len(w.drafts) + 1
             w1  == CreateDraft(EnsureShallowCopy(w), w.array[i].id, key)
         IN  [w1 EXCEPT !.array[i] = Draft(d),
                        !.children = {c \in @ : c[1] # i} \cup {<<i, d>>}]

GetTrap(w, i) ==
    IF ~Drafts(w, i) THEN w
    ELSE LET key == BaseIndex(w, w.array[i], i)
             d   == Len(w.drafts) + 1
             w1  == CreateDraft(EnsureShallowCopy(w), w.array[i].id, key)
             w2  == [w1 EXCEPT !.array[i] = Draft(d),
                               !.children = {c \in @ : c[1] # i} \cup {<<i, d>>}]
         IN  IF key = i THEN w2 ELSE MarkFinalization(w2, i, Draft(d))

\* The draft at i gives way to its original.
DropDraft(w, i, v) ==
    LET w1 == [w EXCEPT !.array[i] = v]
    IN  IF At(w.original, i) = v
        THEN [w1 EXCEPT !.assigned = @ \ {i}]
        ELSE MarkFinalization([MarkChanged(w1) EXCEPT !.assigned = @ \cup {i}], i, v)

\* An assignment that changes something.
Assign(w, i, v) ==
    LET w1 == Prepare(w)
        w2 == [w1 EXCEPT
                  !.inert = IF IsRef(v) THEN "unknown" ELSE @,
                  !.assigned = IF At(w.original, i) = v THEN @ \ {i}
                                                        ELSE @ \cup {i},
                  !.array = Write(@, i, v)]
        w3 == IF i > Len(w.array) + 1 THEN Resized(w2, Len(w.array)) ELSE w2
    IN  MarkFinalization(w3, i, v)

\* The set trap at an index.
SetTrap(w, i, v) ==
    LET current == At(w.array, i)
        drops == IsDraft(current) /\ v = Obj(Node(w, current.id).original)
        same  == v = Seen(current) /\ Own(w.array, i) /\ ~IsMovedElement(w, v, i)
    IN  CASE drops            -> DropDraft(w, i, v)
          [] ~drops /\ same   -> w
          [] ~drops /\ ~same  -> Assign(w, i, v)

\* The set trap at length.
SetLength(w, n) ==
    IF n = Len(w.array) THEN w
    ELSE LET w1 == [Prepare(w) EXCEPT !.length = (n # Len(w.original)),
                                      !.array = Resize(@, n)]
         IN  IF n > Len(w.array) THEN Resized(w1, Len(w.array)) ELSE w1

\* A deleted index holds undefined afterwards.
DeleteTrap(w, i) == IF Own(w.array, i) THEN SetTrap(w, i, Undefined) ELSE w
=============================================================================
