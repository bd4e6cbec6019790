------------------------------ MODULE DraftHeap ------------------------------
(***************************************************************************)
(* The drafts of one producer and the heap they work on, with the          *)
(* functions that the traps, the Map methods and the finalization share.   *)
(*                                                                         *)
(* A world w is a record of the heap, the drafts in their order of         *)
(* creation, finalities.draft as w.tasks, and the object addresses in      *)
(* finalities.handledSet.  Every function that changes state in the code   *)
(* takes a world and returns the next one.  A copy is an object of the     *)
(* heap like any other, so writing to the wrong one shows.                 *)
(***************************************************************************)
EXTENDS StateTrees

Null == 0               \* no copy, no parent
NoKey == "undefined"    \* the key of the root draft

Flags == {"none", "set", "deleted"}   \* assignedMap: no entry, true, false

Callback == [target : Nat, key : Keys]

DraftState ==
    [original : Nat, copy : Nat, parent : Nat, key : Keys \cup {NoKey},
     operated : BOOLEAN, finalized : BOOLEAN,
     assigned : [Keys -> Flags], callbacks : Seq(Callback)]

\* An entry of finalities.draft: a draft node, or the deferred callback that
\* markFinalization pushes for an object assigned at a key.
Task == [kind : {"node"}, draft : Nat]
        \cup [kind : {"assigned"}, draft : Nat, key : Keys, value : Value]

World == [heap : Seq(Object), drafts : Seq(DraftState), tasks : Seq(Task),
          handled : SUBSET Nat]

DraftIds(w) == DOMAIN w.drafts
Node(w, d)  == w.drafts[d]

\* latest(): the copy if there is one.
LatestAddress(w, d) == IF Node(w, d).copy # Null THEN Node(w, d).copy
                                                  ELSE Node(w, d).original
Latest(w, d)   == w.heap[LatestAddress(w, d)]
Original(w, d) == w.heap[Node(w, d).original]
Copy(w, d)     == w.heap[Node(w, d).copy]

\* What every reference leads to now.
Store(w) ==
    [v \in {Draft(d) : d \in DraftIds(w)} \cup {Obj(a) : a \in DOMAIN w.heap} |->
        IF IsDraft(v) THEN Latest(w, v.id) ELSE w.heap[v.id]]
View(w, v) == Tree(Store(w), v)

\* Fault: the copy stands for a draft whether or not it changed.
FinalFromCopy(w, d) == Obj(LatestAddress(w, d))

\* getValue() and the "final update value" of the finalization: an unchanged
\* draft stands for its original.
Final(w, d) == Obj(IF Node(w, d).operated THEN Node(w, d).copy
                                          ELSE Node(w, d).original)

\* assignedMap.size > 0.
HasEntries(w, d) == \E k \in Keys : Node(w, d).assigned[k] # "none"

\* set(): write to the copy of draft d.
Put(w, d, k, v) == [w EXCEPT !.heap[Node(w, d).copy].at[k] = v]

\* assignedMap.set(k, true), assignedMap.set(k, false), assignedMap.delete(k).
Assigned(w, d, k, flag) == [w EXCEPT !.drafts[d].assigned[k] = flag]

-----------------------------------------------------------------------------

\* Fault: the draft is queued under the number of the next one.
CreateDraftOffByOne(w, a, parent, k) ==
    [w EXCEPT
        !.drafts = Append(@, [original |-> a, copy |-> Null, parent |-> parent,
                              key |-> k, operated |-> FALSE, finalized |-> FALSE,
                              assigned |-> [i \in Keys |-> "none"],
                              callbacks |-> <<>>]),
        !.tasks = Append(@, [kind |-> "node", draft |-> Len(w.drafts) + 2])]

CreateDraft(w, a, parent, k) ==
    [w EXCEPT
        !.drafts = Append(@, [original |-> a, copy |-> Null, parent |-> parent,
                              key |-> k, operated |-> FALSE, finalized |-> FALSE,
                              assigned |-> [i \in Keys |-> "none"],
                              callbacks |-> <<>>]),
        !.tasks = Append(@, [kind |-> "node", draft |-> Len(w.drafts) + 1])]

\* Fault: the copy is the original.
EnsureNoCopy(w, d) == [w EXCEPT !.drafts[d].copy = Node(w, d).original]

EnsureShallowCopy(w, d) ==
    IF Node(w, d).copy # Null THEN w
    ELSE [w EXCEPT !.heap = Append(@, Original(w, d)),
                   !.drafts[d].copy = Len(w.heap) + 1]

\* markChanged(): d, and upwards while the draft climbed from was unchanged.
Climbed(w, d) ==
    {x \in DraftIds(w) :
        \A S \in SUBSET DraftIds(w) :
            /\ d \in S
            /\ \A y \in S : /\ ~Node(w, y).operated
                            /\ Node(w, y).parent # Null
                            => Node(w, y).parent \in S
            => x \in S}

\* Fault: the mark stays with the draft.
MarkChangedItself(w, d) == [w EXCEPT !.drafts[d].operated = TRUE]

MarkChanged(w, d) ==
    LET up == Climbed(w, d)
    IN  [w EXCEPT !.drafts = [x \in DraftIds(w) |->
            IF x \in up THEN [w.drafts[x] EXCEPT !.operated = TRUE]
                        ELSE w.drafts[x]]]

\* Fault: only drafts are marked, not the objects that hold them.
MarkFinalizationOfDrafts(w, d, k, v) ==
    IF IsDraft(v)
    THEN [w EXCEPT !.drafts[v.id].callbacks =
             Append(@, [target |-> d, key |-> k])]
    ELSE w

MarkFinalization(w, d, k, v) ==
    CASE IsDraft(v) -> [w EXCEPT !.drafts[v.id].callbacks =
                            Append(@, [target |-> d, key |-> k])]
      [] IsObj(v)   -> [w EXCEPT !.tasks =
                            Append(@, [kind |-> "assigned", draft |-> d,
                                       key |-> k, value |-> v])]
      [] OTHER      -> w

\* A read drafts the object that the original still holds at the key.
DraftChild(w, d, k) ==
    LET w1 == EnsureShallowCopy(w, d)
        w2 == CreateDraft(w1, Latest(w, d).at[k].id, d, k)
    IN  Put(w2, d, k, Draft(Len(w2.drafts)))

-----------------------------------------------------------------------------
(***************************************************************************)
(* Finalization: utils/finalize.ts.                                        *)
(***************************************************************************)

\* The objects that v leads to, not looking into drafts nor into shut objects:
\* the least set that is closed under what its objects hold.
LedTo(w, v, shut) ==
    LET open(u) == IsObj(u) /\ u.id \notin shut
        closed == {S \in SUBSET (DOMAIN w.heap \ shut) :
                      /\ open(v) => v.id \in S
                      /\ \A a \in S, k \in Keys :
                            open(w.heap[a].at[k]) => w.heap[a].at[k].id \in S}
    IN  {a \in DOMAIN w.heap \ shut : \A S \in closed : a \in S}

\* Fault: objects within the assigned object are not looked into.
VisitedTop(w, v) == {a \in DOMAIN w.heap : v = Obj(a) /\ a \notin w.handled}

\* handleValue() visits the unhandled objects that v leads to, ...
Visited(w, v) == LedTo(w, v, w.handled)

\* Fault: drafts give way to their originals.
HandleValueByOriginals(w, v) ==
    [w EXCEPT !.heap = [a \in DOMAIN w.heap |->
        IF a \in Visited(w, v)
        THEN [w.heap[a] EXCEPT !.at = [k \in Keys |->
                 IF IsDraft(@[k]) THEN Obj(Node(w, @[k].id).original) ELSE @[k]]]
        ELSE w.heap[a]]]

\* ... and replaces the drafts they hold by their final values.
HandleValue(w, v) ==
    LET visited == Visited(w, v)
        changed(d) == HasEntries(w, d) \/ Node(w, d).operated
        settled(u) == IF IsDraft(u)
                      THEN Obj(IF changed(u.id) THEN Node(w, u.id).copy
                                                ELSE Node(w, u.id).original)
                      ELSE u
    IN  [w EXCEPT
            !.heap = [a \in DOMAIN w.heap |->
                IF a \in visited
                THEN [w.heap[a] EXCEPT !.at = [k \in Keys |-> settled(@[k])]]
                ELSE w.heap[a]],
            !.handled = @ \cup visited]

\* Fault: taken for a recipe that read nothing one draft too late.
FinalizeAssignedLate(w, task) ==
    IF /\ Copy(w, task.draft).at[task.key] = task.value
       /\ Len(w.drafts) > 2
       /\ Node(w, task.draft).assigned[task.key] = "set"
    THEN HandleValue(w, task.value)
    ELSE w

\* The callback that markFinalization pushes, with finalizeAssigned().
FinalizeAssigned(w, task) ==
    IF /\ Copy(w, task.draft).at[task.key] = task.value
       /\ Len(w.drafts) > 1
       /\ Node(w, task.draft).assigned[task.key] = "set"
    THEN HandleValue(w, task.value)
    ELSE w

\* Fault: a draft that was assigned twice is finalized at one of the places.
RunFirstCallback(w, d) ==
    IF Node(w, d).callbacks = <<>> THEN w
    ELSE LET first == Head(Node(w, d).callbacks)
         IN  IF Copy(w, first.target).at[first.key] = Draft(d)
             THEN Put(w, first.target, first.key, Final(w, d)) ELSE w

\* The objects that v leads to.
Held(w, v) == LedTo(w, v, {})

\* Fault: a returned object is searched at its own properties only.
HandleReturnedTop(w, v) ==
    [w EXCEPT !.heap = [a \in DOMAIN w.heap |->
        IF v = Obj(a)
        THEN [w.heap[a] EXCEPT !.at = [k \in Keys |->
                 IF IsDraft(@[k]) THEN Obj(Node(w, @[k].id).original) ELSE @[k]]]
        ELSE w.heap[a]]]

\* handleReturnValue(): the drafts in a returned object give way to their
\* originals, changed or not.
HandleReturnValue(w, v) ==
    LET held == Held(w, v)
    IN  [w EXCEPT !.heap = [a \in DOMAIN w.heap |->
            IF a \in held
            THEN [w.heap[a] EXCEPT !.at = [k \in Keys |->
                     IF IsDraft(@[k]) THEN Obj(Node(w, @[k].id).original)
                                      ELSE @[k]]]
            ELSE w.heap[a]]]

\* The callbacks of draft d: it gives way to its final value wherever it was
\* assigned and still is.  Each looks at one place and writes there, so their
\* order does not matter.
RunCallbacks(w, d) ==
    LET there(a, k) == \E i \in DOMAIN Node(w, d).callbacks :
                          LET callback == Node(w, d).callbacks[i]
                          IN  /\ Node(w, callback.target).copy = a
                              /\ callback.key = k
    IN  [w EXCEPT !.heap = [a \in DOMAIN w.heap |->
            [w.heap[a] EXCEPT !.at = [k \in Keys |->
                IF there(a, k) /\ @[k] = Draft(d) THEN Final(w, d) ELSE @[k]]]]]

\* Fault: a draft that left its place keeps its path.
OwnPathUnchecked(w, d) ==
    LET path[x \in DraftIds(w)] ==
            IF Node(w, x).parent = Null THEN <<>>
            ELSE Append(path[Node(w, x).parent], Node(w, x).key)
    IN  {path[d]}

\* Fault: only the last step of the path is looked at.
OwnPathOfLeaf(w, d) ==
    LET p == Node(w, d).parent
    IN  IF p # Null /\ Copy(w, p).at[Node(w, d).key] # Draft(d) THEN {}
        ELSE OwnPathUnchecked(w, d)

\* getPath(): the keys from the root to d, if each draft on the way is still at
\* its own key of its parent; no path otherwise.
OwnPath(w, d) ==
    LET attached(x) == Copy(w, Node(w, x).parent).at[Node(w, x).key] = Draft(x)
        path[x \in DraftIds(w)] ==
            IF Node(w, x).parent = Null THEN {<<>>}
            ELSE IF ~attached(x) THEN {}
            ELSE {Append(p, Node(w, x).key) : p \in path[Node(w, x).parent]}
    IN  path[d]
=============================================================================
