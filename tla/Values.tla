------------------------------- MODULE Values -------------------------------
(***************************************************************************)
(* A value as a variable or a property of the program holds it.            *)
(***************************************************************************)
EXTENDS Naturals

Value == [kind : {"absent", "prim", "obj", "draft"}, id : Nat]

Absent    == [kind |-> "absent", id |-> 0]   \* no own property, or a hole
Prim(n)   == [kind |-> "prim", id |-> n]
Obj(a)    == [kind |-> "obj", id |-> a]      \* the object at address a
Draft(d)  == [kind |-> "draft", id |-> d]    \* the proxy of draft d
Undefined == Prim(0)                         \* JavaScript's undefined

IsDraft(v) == v.kind = "draft"
IsObj(v)   == v.kind = "obj"
IsRef(v)   == IsDraft(v) \/ IsObj(v)
=============================================================================
