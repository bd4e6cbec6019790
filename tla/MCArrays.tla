------------------------------ MODULE MCArrays ------------------------------
EXTENDS ArrayProperties

Base1(array, heap) == [array |-> array, heap |-> heap]

\* Two elements, and one element twice.
ObjectBases == {Base1(<<Obj(1), Obj(2)>>, <<Prim(1), Prim(2)>>),
                Base1(<<Obj(1), Prim(1), Obj(1)>>, <<Prim(1)>>)}

\* One element twice.
SharedBases == {Base1(<<Obj(1), Prim(1), Obj(1)>>, <<Prim(1)>>)}

\* Holes, undefined, and an element.
SparseBases == {Base1(<<Prim(2), Absent, Prim(1)>>, <<>>),
                Base1(<<Absent, Obj(1)>>, <<Prim(1)>>),
                Base1(<<Prim(2), Prim(0)>>, <<>>)}
=============================================================================
