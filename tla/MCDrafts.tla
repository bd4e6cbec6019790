------------------------------ MODULE MCDrafts ------------------------------
(***************************************************************************)
(* Small base states for DraftsProperties.                                 *)
(***************************************************************************)
EXTENDS DraftsProperties

CONSTANTS k1, k2

O(type, x, y) == [type |-> type, at |-> [k \in Keys |-> IF k = k1 THEN x ELSE y]]

\* { k1: x, k2: x }: one object under two keys, drafted once for each.
Shared == << O("object", Obj(2), Obj(2)), O("object", Undefined, Absent) >>

\* { k1: {}, k2: { k1: undefined } }: drafts can change places.
Siblings == << O("object", Obj(2), Obj(3)), O("object", Absent, Absent),
               O("object", Undefined, Absent) >>

\* { k1: { k1: { k2: undefined }, k2: undefined } }: a draft moves with a child.
Chain == << O("object", Obj(2), Absent), O("object", Obj(3), Undefined),
            O("object", Absent, Undefined) >>

\* An object in a Map in an object, and a Map in an object in a Map.
MapBelow == << O("object", Obj(2), Absent), O("map", Obj(3), Absent),
               O("object", Absent, Absent) >>
MapAbove == << O("map", Obj(2), Obj(2)), O("object", Undefined, Absent) >>

\* { k1: { k1: undefined } }, for objects that the recipe makes.
Single == << O("object", Obj(2), Absent), O("object", Undefined, Absent) >>

SingleBase   == {Single}
SharedBase   == {Shared}
FreshBases   == {Single, Chain, MapAbove}
MoveBases    == {Siblings, Chain, MapBelow, MapAbove}
=============================================================================
