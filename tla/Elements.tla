------------------------------ MODULE Elements ------------------------------
(***************************************************************************)
(* The elements of an array or a Set: objects with one property x.  A heap *)
(* holds, for each address, the value at x.  A world w is a record with a  *)
(* heap, the drafts of elements, and whether the array or Set that holds   *)
(* them is marked as changed.                                              *)
(***************************************************************************)
EXTENDS Values, Sequences, SequencesExt

Null == 0       \* no copy, no original index, no draft

Node(w, d)     == w.drafts[d]
MarkChanged(w) == [w EXCEPT !.operated = TRUE]

\* getValue(): an unchanged draft stands for its original.
FinalElement(w, d) == Obj(IF Node(w, d).operated THEN Node(w, d).copy
                                                 ELSE Node(w, d).original)

\* Fault: the element itself is written to.
SetElementInPlace(w, d, v) ==
    LET node == Node(w, d)
        at   == IF node.copy = Null THEN node.original ELSE node.copy
    IN  IF v = w.heap[at] THEN w
        ELSE [MarkChanged(w) EXCEPT !.heap[at] = v, !.drafts[d].operated = TRUE,
                                    !.drafts[d].copy = at]

\* The set trap of an element's draft, at x.
SetElement(w, d, v) ==
    LET node == Node(w, d)
        now  == w.heap[IF node.copy = Null THEN node.original ELSE node.copy]
        w1   == IF node.copy # Null THEN w
                ELSE [w EXCEPT !.heap = Append(@, w.heap[node.original]),
                               !.drafts[d].copy = Len(w.heap) + 1]
    IN  IF v = now THEN w
        ELSE [MarkChanged(w1) EXCEPT
                 !.heap[w1.drafts[d].copy] = v,
                 !.drafts[d].operated = TRUE,
                 !.drafts[d].assigned = (v # w.heap[node.original])]
(***************************************************************************)
(* What a value holds, as a reader sees it: a tree is the value itself, or *)
(* Obj(0) followed by the tree of the property x.                          *)
(***************************************************************************)
Held(w, v) == w.heap[IF IsDraft(v) THEN FinalElement(w, v.id).id ELSE v.id]
Leaf(w, v) == IF IsRef(v) THEN <<Obj(0), Held(w, v)>> ELSE <<v>>
Tree(w, v) == IF IsRef(v) THEN <<Obj(0)>> \o Leaf(w, Held(w, v)) ELSE <<v>>
=============================================================================
