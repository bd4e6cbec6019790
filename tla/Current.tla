------------------------------ MODULE Current -------------------------------
(***************************************************************************)
(* current(): the snapshot of a draft.  It looks into changed drafts and   *)
(* into the objects of the recipe, and takes everything else as it is.  A  *)
(* changed draft is copied at once, an object of the recipe only if a      *)
(* value found in it gives way: otherwise the snapshot holds it itself.    *)
(***************************************************************************)
EXTENDS DraftHeap

\* What the snapshot makes of a value: it is taken with all that it holds, or
\* looked into.
Taken(v)  == [value |-> v, whole |-> TRUE]
Opened(v) == [value |-> v, whole |-> FALSE]

\* Fault: a draft with changes in its children only counts as unchanged.
CurrentByEntries(w, v) ==
    CASE IsDraft(v) /\ ~HasEntries(w, v.id) -> Taken(Obj(Node(w, v.id).original))
      [] IsObj(v) \/ (IsDraft(v) /\ HasEntries(w, v.id)) -> Opened(v)
      [] OTHER -> Taken(v)

\* getCurrent(): an unchanged draft gives way to its original.
GetCurrent(w, v) ==
    CASE IsDraft(v) /\ ~Node(w, v.id).operated -> Taken(Obj(Node(w, v.id).original))
      [] IsObj(v) \/ (IsDraft(v) /\ Node(w, v.id).operated) -> Opened(v)
      [] OTHER -> Taken(v)

\* The property k of what was opened; a draft's is taken if it is the original's.
Property(w, v, k) ==
    IF IsDraft(v)
    THEN LET here == Copy(w, v.id).at[k]
         IN  IF here = Read(Original(w, v.id), k) THEN Taken(here)
                                                  ELSE GetCurrent(w, here)
    ELSE GetCurrent(w, w.heap[v.id].at[k])

\* What the snapshot of v holds under every path.
Current(w, v) ==
    LET found[p \in Paths] ==
            IF p = <<>> THEN GetCurrent(w, v)
            ELSE LET up == found[Front(p)]
                 IN  CASE up.whole /\ IsObj(up.value) ->
                              Taken(w.heap[up.value.id].at[Last(p)])
                       [] ~up.whole -> Property(w, up.value, Last(p))
                       [] OTHER     -> Taken(Absent)
    IN  found

CurrentTree(w, v) ==
    LET found == Current(w, v)
    IN  [p \in Paths |-> ShapeOf(Store(w), found[p].value)]

\* Fault: an object of the recipe in which a draft gives way is kept.
CopiesDraftsOnly(w, v) == IsDraft(v)

\* ensureShallowCopy(): what is looked into is copied if it is a draft, or if a
\* draft gives way in it or in an object that it leads to.
IsCopied(w, v) ==
    IsDraft(v) \/ \E a \in Held(w, v), k \in Keys : IsDraft(w.heap[a].at[k])

\* The references in the snapshot that it shares with the state: what is taken
\* as it is, and what is looked into and not copied.
KeptInSnapshot(w, v) ==
    LET found == Current(w, v)
    IN  {found[p].value : p \in {q \in Paths :
            /\ IsRef(found[q].value)
            /\ found[q].whole \/ ~IsCopied(w, found[q].value)}}
=============================================================================
