------------------------------- MODULE MCSets --------------------------------
EXTENDS SetProperties

\* Two objects with equal content; a primitive and an object.
SetBases ==
    {[set |-> <<Obj(1), Obj(2)>>, side |-> Obj(3),
      heap |-> <<Prim(1), Prim(1), Prim(2)>>],
     [set |-> <<Prim(1), Obj(1)>>, side |-> Obj(2),
      heap |-> <<Prim(1), Prim(2)>>]}
=============================================================================
