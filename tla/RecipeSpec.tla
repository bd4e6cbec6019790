----------------------------- MODULE RecipeSpec -----------------------------
(***************************************************************************)
(* What create() promises of a recipe: the recipe changes ordinary mutable *)
(* objects, which are its own copies of the state, one for each path by    *)
(* which it opened an object of the state, and create() returns the tree   *)
(* that these copies are when the recipe ends, or the value that the       *)
(* recipe returns instead.  There are no drafts with an original and a     *)
(* copy, no marks, and no finalization.                                    *)
(***************************************************************************)
EXTENDS StateTrees

CONSTANT Bases

VARIABLES
    given,      \* the references to the objects of the base state
    store,      \* what each reference leads to, while the recipe runs
    outcome     \* what the recipe returned, and the tree that create() returned

\* A store with one more object.
With(old, r, object) ==
    [v \in DOMAIN old \cup {r} |-> IF v = r THEN object ELSE old[v]]

Handle == Draft(1)      \* the state that the recipe is given

Init ==
    \E b \in Bases :
        /\ given = {Obj(a) : a \in DOMAIN b}
        /\ store = With([v \in given |-> b[v.id]], Handle, b[1])
        /\ outcome = <<>>

\* What the recipe may change, and what it may leave at a key.
Own(old)      == DOMAIN old \ given
Storable(old) == PrimValues \cup DOMAIN old \cup {Absent}

\* It opens an object of the state that one of its objects holds: from now on
\* it finds its own copy there.
Open(old, new) ==
    \E h \in DOMAIN new \ DOMAIN old, r \in Own(old), k \in Keys :
        /\ old[r].at[k] \in given
        /\ new = With([old EXCEPT ![r].at[k] = h], h, old[old[r].at[k]])

\* It assigns a key of one of its objects, or deletes it.
Write(old, new) ==
    /\ DOMAIN new = DOMAIN old
    /\ \E r \in Own(old), k \in Keys :
          /\ new[r].at[k] \in Storable(old)
          /\ new = [old EXCEPT ![r].at[k] = new[r].at[k]]

\* It empties a Map.
Clear(old, new) ==
    \E r \in Own(old) : new = [old EXCEPT ![r] = Empty("map")]

\* It makes an object.
New(old, new) ==
    \E r \in DOMAIN new \ DOMAIN old :
        /\ \A k \in Keys : new[r].at[k] \in Storable(old)
        /\ new = With(old, r, new[r])

Change == /\ LET old == store
                 new == store'
             IN  \/ Open(old, new)
                 \/ Write(old, new)
                 \/ Clear(old, new)
                 \/ New(old, new)
          /\ UNCHANGED <<given, outcome>>

Commit == /\ store # <<>>
          /\ store' = <<>>
          /\ \E v \in PrimValues \cup DOMAIN store :
                outcome' = <<v, Tree(store, v)>>
          /\ UNCHANGED given

Abort == /\ store # <<>>
         /\ store' = <<>>
         /\ UNCHANGED <<given, outcome>>

Next == Change \/ Commit \/ Abort

Spec == Init /\ [][Next]_<<given, store, outcome>>
=============================================================================
