------------------------------ MODULE MCNested -------------------------------
EXTENDS NestedProducers

CONSTANTS k1, k2

O(x, y) == [type |-> "object", at |-> [k \in Keys |-> IF k = k1 THEN x ELSE y]]

\* The outer state { k1: { k1: undefined }, k2: undefined }, and the inner
\* state { k1: {} }.
OuterAndInner == << O(Obj(2), Undefined), O(Undefined, Absent),
                    O(Obj(4), Absent), O(Absent, Absent) >>

NestedHeaps == {OuterAndInner}
NestedRoots == <<1, 3>>
=============================================================================
