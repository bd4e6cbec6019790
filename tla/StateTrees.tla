----------------------------- MODULE StateTrees -----------------------------
(***************************************************************************)
(* The data of a producer: primitives, plain objects and Maps in a heap,   *)
(* and references to them or to drafts.  What a reference leads to is      *)
(* compared as a tree: the shape found under every path of keys.  Two      *)
(* values with one tree are equal to any reader of the state; they may     *)
(* differ in identity, which the properties about sharing look at apart.   *)
(***************************************************************************)
EXTENDS Integers, Sequences, SequencesExt, Values

CONSTANTS
    Keys,       \* property names of objects and keys of Maps
    Prims,      \* primitive values; 0 stands for undefined
    MaxDepth    \* bound: the longest path of keys to a value

ASSUME DataAssumption == Prims \subseteq Nat /\ 0 \in Prims /\ MaxDepth \in Nat

PrimValues == {Prim(n) : n \in Prims}
\* An object owns the keys at which it holds something; a Map has them as keys.
ObjectTypes == {"object", "map"}
Object == [type : ObjectTypes, at : [Keys -> Value]]

HasOwn(o, k) == o.at[k] # Absent
Read(o, k)   == IF HasOwn(o, k) THEN o.at[k] ELSE Undefined

Empty(type) == [type |-> type, at |-> [k \in Keys |-> Absent]]

(***************************************************************************)
(* Trees.  A store says what each reference leads to: a function from      *)
(* references to objects.                                                  *)
(***************************************************************************)
Paths == BoundedSeq(Keys, MaxDepth)

\* The value found under each path from v.
Walk(store, v) ==
    LET found[p \in Paths] ==
            IF p = <<>> THEN v
            ELSE LET up == found[Front(p)]
                 IN  IF IsRef(up) THEN store[up].at[Last(p)] ELSE Absent
    IN  found

Shape == [kind : {"absent", "prim", "failed"} \cup ObjectTypes, id : Nat]
ShapeOf(store, v) ==
    IF IsRef(v) THEN [kind |-> store[v].type, id |-> 0] ELSE v

Tree(store, v) == LET found == Walk(store, v)
                  IN  [p \in Paths |-> ShapeOf(store, found[p])]

\* The references found n keys below any reference of the store.
Below(store, n) ==
    LET level[i \in 0 .. n] ==
            IF i = 0 THEN DOMAIN store
            ELSE {u \in UNION {Range(store[v].at) : v \in level[i - 1]} : IsRef(u)}
    IN  level[n]

\* Every path ends before the bound: there is no cycle, and no deeper value.
Shallow(store) == Below(store, MaxDepth) = {}

\* The references among the values under v, v included.
Reached(store, v) == LET found == Walk(store, v)
                     IN  {u \in {found[p] : p \in Paths} : IsRef(u)}

\* The tree of an application that died half-way.
FailedTree == [p \in Paths |-> [kind |-> "failed", id |-> 0]]
=============================================================================
