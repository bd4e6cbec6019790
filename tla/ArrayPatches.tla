---------------------------- MODULE ArrayPatches ----------------------------
(***************************************************************************)
(* The patches of an array draft, and what apply() makes of them.          *)
(* generateArrayPatches() compares only the indices that assignments and   *)
(* moves touched; an own index that turns into a hole makes it rebuild the *)
(* rest of the array.                                                      *)
(***************************************************************************)
EXTENDS ArrayMethods

\* op is an operation on index at, "length" for a new length at, or "field"
\* for a replacement of the property x of the element at that index.
Patch(op, at, value) == [op |-> op, at |-> at, value |-> value]

\* Replacements at the indices, in ascending order, by what to holds there.
Replacing(to, indices) ==
    LET upto[n \in 0 .. Len(to)] ==
            IF n = 0 THEN <<>>
            ELSE IF n \in indices THEN Append(upto[n - 1], Patch("replace", n, to[n]))
            ELSE upto[n - 1]
    IN  upto[Len(to)]

\* Patch values hold no drafts: cloneIfNeeded().
CloneIfNeeded(w, v) == IF IsDraft(v) THEN FinalElement(w, v.id) ELSE v

\* Fault: the diff range of native operations is not visited.
VisitedAssigned(w) == w.assigned

\* The indices that can differ.
Visited(w) == w.assigned \cup (w.from .. w.to)

\* Fault: what follows the first hole is not cut off.
RebuildUncut(from, to, start, indices, als) ==
    LET cut == Min({start - 1, Len(to)})
    IN  IF Len(to) <= cut THEN <<>>
        ELSE <<Patch("length", Len(to), Absent)>>
             \o Replacing(to, {i \in indices : i > cut /\ Own(to, i)})

\* Fault: the indices are removed from the first to the last.
CutsForward(m, n, als) ==
    IF m <= n THEN <<>>
    ELSE IF als THEN <<Patch("length", n, Absent)>>
    ELSE [j \in 1 .. m - n |-> Patch("remove", n + j, Absent)]

\* From length m down to n, if it is longer: by a new length or one by one.
Cuts(m, n, als) ==
    IF m <= n THEN <<>>
    ELSE IF als THEN <<Patch("length", n, Absent)>>
    ELSE [j \in 1 .. m - n |-> Patch("remove", m + 1 - j, Absent)]

\* rebuildSuffix(): cut the array at start, leave holes, restore own indices.
RebuildSuffix(from, to, start, indices, als) ==
    LET cut == Min({start - 1, Len(to)})
    IN  Cuts(Len(from), cut, als) \o
        IF Len(to) <= cut THEN <<>>
        ELSE <<Patch("length", Len(to), Absent)>>
             \o Replacing(to, {i \in indices : i > cut /\ Own(to, i)})

\* The least element, or 0.
FirstOf(indices) == IF indices = {} THEN 0 ELSE Min(indices)

\* Replacements up to the first index that turns into a hole.
Replacements(differing, to, hole) ==
    Replacing(to, {i \in differing : hole = 0 \/ i < hole})

\* From the shorter array to the longer one.  swapped says that the longer one
\* is the original, of which the visited indices say nothing past the end.
Lengthening(short, long, visited, swapped, als) ==
    LET differing == {i \in visited : i <= Len(short) /\ long[i] # short[i]}
        within    == FirstOf({i \in differing : long[i] = Absent})
        beyond    == FirstOf({i \in Len(short) + 1 .. Len(long) : long[i] = Absent})
        hole      == IF within # 0 THEN within ELSE beyond
        added     == IF within # 0 THEN 0
                     ELSE (IF beyond = 0 THEN Len(long) + 1 ELSE beyond) - Len(short) - 1
    IN  Replacements(differing, long, within)
        \o [n \in 1 .. added |-> Patch("add", Len(short) + n, long[Len(short) + n])]
        \o IF hole = 0 THEN <<>>
           ELSE RebuildSuffix(short, long, hole,
                              IF swapped \/ within # 0 THEN DOMAIN long
                                                       ELSE visited, als)

\* From the longer array back to the shorter one.
Shortening(short, long, visited, als) ==
    LET differing == {i \in visited : i <= Len(short) /\ long[i] # short[i]}
        hole      == FirstOf({i \in differing : short[i] = Absent})
    IN  Replacements(differing, short, hole)
        \o IF hole # 0 THEN RebuildSuffix(long, short, hole, DOMAIN short, als)
           ELSE Cuts(Len(long), Len(short), als)

\* generateArrayPatches(): the patches from the original array to the copy, and
\* back.  als is the option arrayLengthAssignment.
ArrayPatchesOf(w, als) ==
    LET copy    == [i \in DOMAIN w.array |-> CloneIfNeeded(w, w.array[i])]
        swapped == Len(copy) < Len(w.original)
        short   == IF swapped THEN copy ELSE w.original
        long    == IF swapped THEN w.original ELSE copy
        longer  == Lengthening(short, long, Visited(w), swapped, als)
        shorter == Shortening(short, long, Visited(w), als)
    IN  IF swapped THEN [patches |-> shorter, inverse |-> longer]
                   ELSE [patches |-> longer, inverse |-> shorter]

-----------------------------------------------------------------------------
(***************************************************************************)
(* apply(), on a sequence of trees.                                        *)
(***************************************************************************)
Trees(w, s) == [i \in DOMAIN s |-> Tree(w, s[i])]
Hole == <<Absent>>
TreeAt(s, i) == IF i \in DOMAIN s THEN s[i] ELSE Hole

ApplyPatch(w, s, patch) ==
    LET tree == Tree(w, patch.value)
        n    == Len(s)
    IN  CASE patch.op = "replace" ->
               [i \in 1 .. Max({n, patch.at}) |->
                   IF i = patch.at THEN tree ELSE TreeAt(s, i)]
          [] patch.op = "add"     -> InsertAt(s, Min({patch.at, n + 1}), tree)
          [] patch.op = "remove"  -> IF patch.at \in DOMAIN s
                                     THEN RemoveAt(s, patch.at) ELSE s
          [] patch.op = "length"  -> [i \in 1 .. patch.at |-> TreeAt(s, i)]
          [] patch.op = "field"   ->
               [s EXCEPT ![patch.at] = <<Obj(0)>> \o Leaf(w, patch.value)]

ApplyAll(w, s, patches) ==
    LET after[n \in 0 .. Len(patches)] ==
            IF n = 0 THEN s ELSE ApplyPatch(w, after[n - 1], patches[n])
    IN  after[Len(patches)]
=============================================================================
