---------------------------- MODULE FinalProofs -----------------------------
(***************************************************************************)
(* What finalization leaves behind: no draft in the returned state, and    *)
(* none in the values of its patches.  Every draft and every object of the *)
(* recipe in a copy has an entry in finalities.draft that will see to it,  *)
(* until nothing is left in the list; and an object that was handled, like *)
(* one of the base, leads to nothing but other such objects and copies.    *)
(***************************************************************************)
EXTENDS UnchangedProofs

\* The objects that hold no draft once the list is worked off: those of the
\* base, the copies, and what handleValue() has visited.
Known(w) ==
    DOMAIN base
    \cup {Node(w, d).copy : d \in {e \in DraftIds(w) : Node(w, e).copy # Null}}
    \cup w.handled

\* The value u at key k of the copy of draft d will be seen to: a draft has its
\* node and a callback for this place, unless it was read here, and an object of
\* the recipe has its task.
Placed(w, d, k, u) ==
    /\ IsDraft(u) => /\ Queued(w, NodeTask(u.id))
                     /\ \/ CallsBack(w, u.id, d, k)
                        \/ Node(w, u.id).parent = d /\ Node(w, u.id).key = k
    /\ IsObj(u) => \/ u.id \in Known(w)
                   \/ /\ Node(w, d).assigned[k] = "set"
                      /\ Queued(w, AssignedTask(d, k, u))

Places(w) ==
    \A d \in DraftIds(w), k \in Keys :
        Node(w, d).copy # Null => Placed(w, d, k, Copy(w, d).at[k])

-----------------------------------------------------------------------------
(***************************************************************************)
(* Steps of the recipe.                                                    *)
(***************************************************************************)

\* What is known stays known while the recipe runs.
LEMMA KnownGrows ==
    ASSUME NEW w, NEW x, Extends(w, x)
    PROVE  Known(w) \subseteq Known(x)
BY DEF Known, Extends

\* What was seen to at a place still is.
LEMMA PlacedStays ==
    ASSUME NEW w, NEW x, Extends(w, x), NEW d, NEW k, NEW u, ExistsIn(w, u),
           Node(x, d).assigned[k] = Node(w, d).assigned[k], Placed(w, d, k, u)
    PROVE  Placed(x, d, k, u)
<1>1. ASSUME IsDraft(u)
      PROVE  /\ Queued(x, NodeTask(u.id))
             /\ \/ CallsBack(x, u.id, d, k)
                \/ Node(x, u.id).parent = d /\ Node(x, u.id).key = k
  <2>1. u.id \in DraftIds(w)
    BY <1>1 DEF ExistsIn
  <2>2. /\ Queued(w, NodeTask(u.id))
        /\ \/ CallsBack(w, u.id, d, k)
           \/ Node(w, u.id).parent = d /\ Node(w, u.id).key = k
    BY <1>1 DEF Placed
  <2> QED
    BY <2>1, <2>2 DEF Extends
<1>2. ASSUME IsObj(u)
      PROVE  \/ u.id \in Known(x)
             \/ /\ Node(x, d).assigned[k] = "set"
                /\ Queued(x, AssignedTask(d, k, u))
  <2>1. \/ u.id \in Known(w)
        \/ /\ Node(w, d).assigned[k] = "set"
           /\ Queued(w, AssignedTask(d, k, u))
    BY <1>2 DEF Placed
  <2>2. Queued(w, AssignedTask(d, k, u)) => Queued(x, AssignedTask(d, k, u))
    BY DEF Extends
  <2> QED
    BY <2>1, <2>2, KnownGrows
<1> QED
  BY <1>1, <1>2 DEF Placed

\* Nothing has to be done for what the base holds.
LEMMA BasePlaced ==
    ASSUME NEW w, NEW d, NEW k, NEW u, ~IsDraft(u), IsObj(u) => u.id \in DOMAIN base
    PROVE  Placed(w, d, k, u)
BY DEF Placed, Known

\* A step that writes to one copy has to see to what it writes.
LEMMA CopyPlaces ==
    ASSUME NEW w, NEW x, Sound(w), Sound(x), BaseClosed, Apart(w), Places(w),
           NEW d \in DraftIds(w), NEW K, Extends(w, x), CopyOnly(w, x, d),
           \A e \in DraftIds(x) : e \in DraftIds(w) \/ Node(x, e).copy = Null,
           \A j \in Keys \ K : /\ Copy(x, d).at[j] = Latest(w, d).at[j]
                               /\ Node(x, d).assigned[j] = Node(w, d).assigned[j],
           \A j \in K : Placed(x, d, j, Copy(x, d).at[j])
    PROVE  Places(x)
<1> SUFFICES ASSUME NEW e \in DraftIds(x), NEW k \in Keys, Node(x, e).copy # Null
             PROVE  Placed(x, e, k, Copy(x, e).at[k])
  BY DEF Places
<1>1. e \in DraftIds(w)
  OBVIOUS
<1>2. ASSUME NEW c \in DraftIds(w), Node(w, c).copy # Null
      PROVE  /\ Placed(w, c, k, Copy(w, c).at[k])
             /\ ExistsIn(w, Copy(w, c).at[k])
  <2>1. Node(w, c).copy \in DOMAIN w.heap
    BY <1>2 DEF Sound, WorldOK
  <2> QED
    BY <1>2, <2>1 DEF Places, Sound, WorldOK, Copy
<1>3. CASE e # d
  <2>1. Node(w, e).copy # Null /\ Node(x, e).assigned = Node(w, e).assigned
    BY <1>1, <1>3 DEF CopyOnly
  <2>2. Copy(x, e) = Copy(w, e)
    BY <1>1, <1>3, <2>1, OtherCopies DEF Extends
  <2> QED
    BY <1>1, <1>2, <2>1, <2>2, PlacedStays
<1>4. CASE e = d /\ k \in K
  BY <1>4
<1>5. CASE e = d /\ k \notin K
  <2>1. /\ Copy(x, d).at[k] = Latest(w, d).at[k]
        /\ Node(x, d).assigned[k] = Node(w, d).assigned[k]
    BY <1>5
  <2>2. CASE Node(w, d).copy # Null
    <3>1. Latest(w, d) = Copy(w, d)
      BY <2>2 DEF Latest, LatestAddress, Copy
    <3> QED
      BY <1>2, <1>5, <2>1, <2>2, <3>1, PlacedStays
  <2>3. CASE Node(w, d).copy = Null
    <3>1. Latest(w, d) = Original(w, d)
      BY <2>3 DEF Latest, LatestAddress, Original
    <3>2. ~IsDraft(Original(w, d).at[k])
          /\ (IsObj(Original(w, d).at[k]) => Original(w, d).at[k].id \in DOMAIN base)
      BY OriginalHoldsBase
    <3> QED
      BY <1>5, <2>1, <3>1, <3>2, BasePlaced
  <2> QED
    BY <2>2, <2>3
<1> QED
  BY <1>3, <1>4, <1>5

\* Every draft of the recipe has its node in the list.
AllQueued(w) == \A d \in DraftIds(w) : Queued(w, NodeTask(d))

\* An assignment sees to what it assigns.
LEMMA WrotePlaces ==
    ASSUME NEW w, NEW x, Sound(w), Sound(x), BaseClosed, Apart(w), Places(w),
           AllQueued(w), NEW d, NEW K, NEW v, ExistsIn(w, v), Wrote(w, x, d, K, v)
    PROVE  Places(x) /\ AllQueued(x)
<1>1. /\ d \in DraftIds(w) /\ Extends(w, x) /\ CopyOnly(w, x, d)
      /\ DraftIds(x) = DraftIds(w) /\ K \subseteq Keys
      /\ \A j \in Keys \ K : /\ Copy(x, d).at[j] = Latest(w, d).at[j]
                             /\ Node(x, d).assigned[j] = Node(w, d).assigned[j]
      /\ \A j \in K : Copy(x, d).at[j] = v
  BY DEF Wrote
<1>2. AllQueued(x)
  BY <1>1 DEF AllQueued, Extends
<1>3. ASSUME NEW j \in K
      PROVE  Placed(x, d, j, v)
  <2>1. IsDraft(v) => Queued(x, NodeTask(v.id)) /\ CallsBack(x, v.id, d, j)
    BY <1>1, <1>2, <1>3 DEF Wrote, ExistsIn, AllQueued
  <2>2. IsObj(v) /\ v.id \notin DOMAIN base =>
           Node(x, d).assigned[j] = "set" /\ Queued(x, AssignedTask(d, j, v))
    BY <1>3 DEF Wrote
  <2> QED
    BY <2>1, <2>2 DEF Placed, Known
<1>4. \A j \in K : Placed(x, d, j, Copy(x, d).at[j])
  BY <1>1, <1>3
<1> QED
  BY <1>1, <1>2, <1>4, CopyPlaces

\* A read leaves the new draft at the place where it was made.
LEMMA DraftedPlaces ==
    ASSUME NEW w, NEW x, Sound(w), Sound(x), BaseClosed, Apart(w), Places(w),
           AllQueued(w), NEW d, NEW k, NEW n, Drafted(w, x, d, k, n)
    PROVE  Places(x) /\ AllQueued(x)
<1> DEFINE K == {k}
<1>1. /\ d \in DraftIds(w) /\ Extends(w, x) /\ CopyOnly(w, x, d)
      /\ DraftIds(x) = DraftIds(w) \cup {n} /\ Node(x, n).copy = Null
      /\ Queued(x, NodeTask(n)) /\ Node(x, n).parent = d /\ Node(x, n).key = k
      /\ \A j \in Keys \ {k} : /\ Copy(x, d).at[j] = Latest(w, d).at[j]
                               /\ Node(x, d).assigned[j] = Node(w, d).assigned[j]
      /\ Copy(x, d).at[k] = Draft(n)
  BY DEF Drafted
<1>2. AllQueued(x)
  BY <1>1 DEF AllQueued, Extends
<1>3. Placed(x, d, k, Draft(n))
  BY <1>1 DEF Placed, Draft, IsDraft, IsObj
<1>4. /\ \A j \in K : Placed(x, d, j, Copy(x, d).at[j])
      /\ \A j \in Keys \ K : /\ Copy(x, d).at[j] = Latest(w, d).at[j]
                              /\ Node(x, d).assigned[j] = Node(w, d).assigned[j]
  BY <1>1, <1>3
<1>5. \A e \in DraftIds(x) : e \in DraftIds(w) \/ Node(x, e).copy = Null
  BY <1>1
<1> HIDE DEF K
<1>6. Places(x)
  BY <1>1, <1>4, <1>5, CopyPlaces
<1> QED
  BY <1>2, <1>6

\* What a recipe does to its own objects changes no copy.
LEMMA FreshPlaces ==
    ASSUME NEW w, NEW x, Sound(w), Places(w), AllQueued(w), x.drafts = w.drafts,
           x.tasks = w.tasks, x.handled = w.handled,
           \A e \in DraftIds(w) :
              Node(w, e).copy # Null => x.heap[Node(w, e).copy] = w.heap[Node(w, e).copy]
    PROVE  Places(x) /\ AllQueued(x)
<1>1. /\ DraftIds(x) = DraftIds(w) /\ \A e : Node(x, e) = Node(w, e)
      /\ \A task : Queued(x, task) <=> Queued(w, task)
      /\ \A e, d, k : CallsBack(x, e, d, k) <=> CallsBack(w, e, d, k)
  BY DEF DraftIds, Node, Queued, CallsBack
<1>2. Known(x) = Known(w)
  BY <1>1 DEF Known
<1>3. \A u : \A d \in DraftIds(w), k \in Keys : Placed(w, d, k, u) => Placed(x, d, k, u)
  BY <1>1, <1>2 DEF Placed
<1>4. \A d \in DraftIds(w) : Node(w, d).copy # Null => Copy(x, d) = Copy(w, d)
  BY <1>1 DEF Copy
<1> QED
  BY <1>1, <1>3, <1>4 DEF Places, AllQueued

-----------------------------------------------------------------------------
(***************************************************************************)
(* Steps of the finalization.                                              *)
(***************************************************************************)

\* Finalization writes nothing but objects, and only over drafts.
LEMMA OnlyDraftsSettle ==
    ASSUME NEW w, NEW u, NEW v, Settled(w, u, v)
    PROVE  /\ ~IsDraft(u) => v = u
           /\ IsDraft(v) => v = u
BY DEF Settled, Obj, IsDraft

\* No step forgets what is known.
LEMMA KnownStays ==
    ASSUME NEW w, NEW x, Finalizes(w, x), w.handled \subseteq x.handled
    PROVE  Known(w) \subseteq Known(x)
BY DEF Known, Finalizes

\* The final value of a draft is an object of the base or a copy.
LEMMA FinalKnown ==
    ASSUME NEW w, Sound(w), NEW d \in DraftIds(w)
    PROVE  Final(w, d).id \in Known(w)
<1>1. CASE Node(w, d).operated
  BY <1>1 DEF Final, Known, Obj, Sound, Marked
<1>2. CASE ~Node(w, d).operated
  BY <1>2 DEF Final, Known, Obj, Sound, Kept
<1> QED
  BY <1>1, <1>2

\* What a copy holds is a value that leads somewhere.
LEMMA CopyValue ==
    ASSUME NEW w, Sound(w), NEW d \in DraftIds(w), Node(w, d).copy # Null, NEW k \in Keys
    PROVE  /\ Node(w, d).copy \in DOMAIN w.heap
           /\ Copy(w, d).at[k] \in Value /\ ExistsIn(w, Copy(w, d).at[k])
<1>1. Node(w, d).copy \in DOMAIN w.heap
  BY DEF Sound, WorldOK
<1>2. w.heap[Node(w, d).copy] \in Object
  BY <1>1, WorldParts DEF Sound, WorldOK
<1> QED
  BY <1>1, <1>2 DEF Sound, WorldOK, Copy, Object

\* A step of the finalization keeps places in order if it does, or keeps in
\* the list, what was to be done for the values that stay.
LEMMA StepPlaces ==
    ASSUME NEW w, NEW x, Sound(w), Places(w), Finalizes(w, x), Finishes(w, x),
           w.handled \subseteq x.handled,
           \A d \in DraftIds(w), k \in Keys, e \in DraftIds(w) :
              /\ Node(w, d).copy # Null /\ Copy(x, d).at[k] = Draft(e)
              /\ Placed(w, d, k, Draft(e))
              => Queued(x, NodeTask(e)),
           \A d \in DraftIds(w), k \in Keys, u \in Value :
              /\ Node(w, d).copy # Null /\ Copy(w, d).at[k] = u /\ IsObj(u)
              /\ Node(w, d).assigned[k] = "set" /\ Queued(w, AssignedTask(d, k, u))
              => u.id \in x.handled \/ Queued(x, AssignedTask(d, k, u))
    PROVE  Places(x)
<1> SUFFICES ASSUME NEW d \in DraftIds(w), NEW k \in Keys, Node(w, d).copy # Null
             PROVE  Placed(x, d, k, Copy(x, d).at[k])
  BY DEF Places, Finalizes
<1> DEFINE u == Copy(w, d).at[k]
           v == Copy(x, d).at[k]
<1>1. /\ Node(x, d).copy = Node(w, d).copy /\ Node(w, d).copy \in DOMAIN w.heap
      /\ u \in Value /\ ExistsIn(w, u) /\ Placed(w, d, k, u)
  BY CopyValue DEF Places, Finalizes
<1>2. v = u \/ (IsDraft(u) /\ v = Final(w, u.id))
  BY <1>1 DEF Finishes, Copy
<1>3. /\ Known(w) \subseteq Known(x) /\ x.handled \subseteq Known(x)
      /\ Node(x, d).assigned = Node(w, d).assigned
  BY KnownStays DEF Known, Finalizes
<1>4. /\ IsDraft(u) => u = Draft(u.id) /\ u.id \in DraftIds(w)
      /\ IsObj(u) => ~IsDraft(u)
  BY <1>1, ValueLeads DEF IsObj, IsDraft
<1> HIDE DEF u, v
<1>5. CASE v # u
  <2>1. IsDraft(u) /\ v = Final(w, u.id)
    BY <1>2, <1>5
  <2>2. v.id \in Known(w)
    BY <1>4, <2>1, FinalKnown
  <2>3. ~IsDraft(v)
    BY <1>4, <2>1, FinalExists
  <2> QED
    BY <1>3, <2>2, <2>3 DEF Placed, v
<1>6. CASE v = u /\ IsDraft(u)
  <2>1. /\ CallsBack(w, u.id, d, k) => CallsBack(x, u.id, d, k)
        /\ Node(x, u.id).parent = Node(w, u.id).parent
        /\ Node(x, u.id).key = Node(w, u.id).key
    BY <1>4, <1>6 DEF Finalizes, CallsBack
  <2>2. \/ CallsBack(w, u.id, d, k)
        \/ Node(w, u.id).parent = d /\ Node(w, u.id).key = k
    BY <1>1, <1>6 DEF Placed
  <2>3. Queued(x, NodeTask(u.id))
    BY <1>1, <1>4, <1>6 DEF v
  <2>4. ~IsObj(u)
    BY <1>4, <1>6
  <2>5. Placed(x, d, k, u)
    BY <2>1, <2>2, <2>3, <2>4 DEF Placed
  <2> QED
    BY <1>6, <2>5 DEF v
<1>7. CASE v = u /\ IsObj(u)
  <2>1. \/ u.id \in Known(w)
        \/ Node(w, d).assigned[k] = "set" /\ Queued(w, AssignedTask(d, k, u))
    BY <1>1, <1>7 DEF Placed
  <2>2. Node(w, d).assigned[k] = "set" /\ Queued(w, AssignedTask(d, k, u))
        => u.id \in x.handled \/ Queued(x, AssignedTask(d, k, u))
    BY <1>1, <1>7 DEF u
  <2>3. Placed(x, d, k, u)
    BY <1>3, <1>4, <1>7, <2>1, <2>2 DEF Placed
  <2> QED
    BY <1>7, <2>3 DEF v
<1>8. CASE v = u /\ ~IsDraft(u) /\ ~IsObj(u)
  BY <1>8 DEF Placed, v
<1> QED
  BY <1>5, <1>6, <1>7, <1>8

\* Once the node of a draft is done, the draft is nowhere any more.
LEMMA NodePlaces ==
    ASSUME NEW w, NEW x, Sound(w), Places(w), NEW n, NodeDone(w, x, n)
    PROVE  Places(x)
<1>1. /\ Finalizes(w, x) /\ Finishes(w, x) /\ x.handled = w.handled
      /\ \A task : Queued(w, task) => task = NodeTask(n) \/ Queued(x, task)
      /\ \A c \in DraftIds(w), k \in Keys :
            /\ Node(w, c).copy # Null
            /\ CallsBack(w, n, c, k) \/ (Node(w, n).parent = c /\ Node(w, n).key = k)
            => Copy(x, c).at[k] # Draft(n)
  BY DEF NodeDone
<1>2. ASSUME NEW d \in DraftIds(w), NEW k \in Keys, NEW e \in DraftIds(w),
             Node(w, d).copy # Null, Copy(x, d).at[k] = Draft(e), Placed(w, d, k, Draft(e))
      PROVE  Queued(x, NodeTask(e))
  <2>1. /\ Queued(w, NodeTask(e))
        /\ \/ CallsBack(w, e, d, k)
           \/ Node(w, e).parent = d /\ Node(w, e).key = k
    BY <1>2 DEF Placed, Draft, IsDraft
  <2>2. e # n
    BY <1>1, <1>2, <2>1
  <2>3. NodeTask(e) # NodeTask(n)
    BY <2>2 DEF NodeTask
  <2> QED
    BY <1>1, <2>1, <2>3
<1>3. \A d, k, u : AssignedTask(d, k, u) # NodeTask(n)
  BY DEF AssignedTask, NodeTask
<1> QED
  BY <1>1, <1>2, <1>3, StepPlaces

\* A task handles the object that it was made for, where that still is.
LEMMA TaskPlaces ==
    ASSUME NEW w, NEW x, Sound(w), Places(w), Len(w.drafts) > 1,
           NEW e, NEW j, NEW v, TaskDone(w, x, e, j, v)
    PROVE  Places(x)
<1>1. /\ Finalizes(w, x) /\ Finishes(w, x) /\ w.handled \subseteq x.handled
      /\ \A task : Queued(w, task) => task = AssignedTask(e, j, v) \/ Queued(x, task)
      /\ Copy(w, e).at[j] = v /\ Node(w, e).assigned[j] = "set" /\ IsObj(v)
         => v.id \in x.handled
  BY DEF TaskDone
<1>2. \A d : NodeTask(d) # AssignedTask(e, j, v)
  BY DEF AssignedTask, NodeTask
<1>3. ASSUME NEW d \in DraftIds(w), NEW k \in Keys, NEW c \in DraftIds(w),
             Placed(w, d, k, Draft(c))
      PROVE  Queued(x, NodeTask(c))
  BY <1>1, <1>2, <1>3 DEF Placed, Draft, IsDraft
<1>4. ASSUME NEW d \in DraftIds(w), NEW k \in Keys, NEW u \in Value,
             Copy(w, d).at[k] = u, IsObj(u), Node(w, d).assigned[k] = "set",
             Queued(w, AssignedTask(d, k, u))
      PROVE  u.id \in x.handled \/ Queued(x, AssignedTask(d, k, u))
  <2>1. CASE AssignedTask(d, k, u) = AssignedTask(e, j, v)
    <3>1. d = e /\ k = j /\ u = v
      BY <2>1 DEF AssignedTask
    <3> QED
      BY <1>1, <1>4, <3>1
  <2> QED
    BY <1>1, <1>4, <2>1
<1> QED
  BY <1>1, <1>3, <1>4, StepPlaces

\* The end of a recipe leaves everything to do that there was.
LEMMA EndedPlaces ==
    ASSUME NEW w, NEW x, Sound(w), Places(w), NEW v, RecipeEnded(w, x, v)
    PROVE  Places(x)
<1>1. /\ Finalizes(w, x) /\ x.tasks = w.tasks /\ x.handled = w.handled
      /\ ~IsObj(v) => x = w
  BY DEF RecipeEnded
<1>2. \A task : Queued(x, task) <=> Queued(w, task)
  BY <1>1 DEF Queued
<1> SUFFICES ASSUME NEW d \in DraftIds(w), NEW k \in Keys, Node(w, d).copy # Null
             PROVE  Placed(x, d, k, Copy(x, d).at[k])
  BY <1>1 DEF Places, Finalizes
<1> DEFINE u == Copy(w, d).at[k]
           y == Copy(x, d).at[k]
<1>3. /\ Node(x, d).copy = Node(w, d).copy /\ Node(w, d).copy \in DOMAIN w.heap
      /\ u \in Value /\ ExistsIn(w, u) /\ Placed(w, d, k, u)
  BY <1>1, CopyValue DEF Places, Finalizes
<1>4. y = u \/ (IsDraft(u) /\ y = Obj(Node(w, u.id).original))
  BY <1>1, <1>3 DEF RecipeEnded, Copy
<1> HIDE DEF u, y
<1>5. CASE y = u
  <2>1. Known(w) \subseteq Known(x) /\ Node(x, d).assigned = Node(w, d).assigned
    BY <1>1, KnownStays DEF Finalizes
  <2>2. ASSUME IsDraft(u)
        PROVE  /\ CallsBack(w, u.id, d, k) => CallsBack(x, u.id, d, k)
               /\ Node(x, u.id).parent = Node(w, u.id).parent
               /\ Node(x, u.id).key = Node(w, u.id).key
    BY <1>1, <1>3, <2>2 DEF Finalizes, CallsBack, ExistsIn
  <2>3. Placed(x, d, k, u)
    BY <1>2, <1>3, <2>1, <2>2 DEF Placed
  <2> QED
    BY <1>5, <2>3 DEF y
<1>6. CASE y # u
  <2>1. y = Obj(Node(w, u.id).original) /\ u.id \in DraftIds(w)
    BY <1>3, <1>4, <1>6 DEF ExistsIn
  <2>2. ~IsDraft(y) /\ y.id \in DOMAIN base
    BY <2>1 DEF Sound, Kept, Obj, IsDraft
  <2>3. Placed(x, d, k, y)
    BY <2>2, BasePlaced
  <2> QED
    BY <2>3 DEF y
<1> QED
  BY <1>5, <1>6

-----------------------------------------------------------------------------
(***************************************************************************)
(* Objects without drafts.                                                 *)
(***************************************************************************)

\* handleValue() has left no draft in an object that it visited, and what such
\* an object leads to is known.
Handled(w) ==
    /\ w.handled \subseteq DOMAIN w.heap
    /\ \A a \in w.handled, k \in Keys :
          /\ ~IsDraft(w.heap[a].at[k])
          /\ IsObj(w.heap[a].at[k]) => w.heap[a].at[k].id \in Known(w)

\* Nodes change no handled object.
LEMMA NodeHandled ==
    ASSUME NEW w, NEW x, Handled(w), NEW n, NodeDone(w, x, n)
    PROVE  Handled(x)
<1>1. Finalizes(w, x) /\ x.handled = w.handled
  BY DEF NodeDone
<1>2. Known(w) \subseteq Known(x)
  BY <1>1, KnownStays
<1>3. \A a \in w.handled, k \in Keys : x.heap[a].at[k] = w.heap[a].at[k]
  BY <1>1, OnlyDraftsSettle DEF Handled, Finalizes
<1> QED
  BY <1>1, <1>2, <1>3 DEF Handled, Finalizes

\* Tasks settle what they visit.
LEMMA TaskHandled ==
    ASSUME NEW w, NEW x, Sound(w), Handled(w), NEW e, NEW j, NEW v, TaskDone(w, x, e, j, v)
    PROVE  Handled(x)
<1>1. /\ Finalizes(w, x) /\ Finishes(w, x)
      /\ w.handled \subseteq x.handled /\ x.handled \subseteq w.handled \cup DOMAIN w.heap
      /\ \A a \in x.handled \ w.handled, k \in Keys :
            /\ ~IsDraft(x.heap[a].at[k])
            /\ IsObj(w.heap[a].at[k]) => w.heap[a].at[k].id \in x.handled
  BY DEF TaskDone
<1>2. /\ Known(w) \subseteq Known(x) /\ x.handled \subseteq Known(x)
      /\ DOMAIN x.heap = DOMAIN w.heap
  BY <1>1, KnownStays DEF Known, Finalizes
<1>3. ASSUME NEW a \in w.handled, NEW k \in Keys
      PROVE  /\ ~IsDraft(x.heap[a].at[k])
             /\ IsObj(x.heap[a].at[k]) => x.heap[a].at[k].id \in Known(x)
  <2>1. x.heap[a].at[k] = w.heap[a].at[k]
    BY <1>1, OnlyDraftsSettle DEF Handled, Finalizes
  <2> QED
    BY <1>2, <2>1 DEF Handled
<1>4. ASSUME NEW a \in x.handled \ w.handled, NEW k \in Keys
      PROVE  /\ ~IsDraft(x.heap[a].at[k])
             /\ IsObj(x.heap[a].at[k]) => x.heap[a].at[k].id \in Known(x)
  <2>1. a \in DOMAIN w.heap
    BY <1>1
  <2>2. CASE x.heap[a].at[k] = w.heap[a].at[k]
    BY <1>1, <1>2, <2>2
  <2>3. CASE /\ IsDraft(w.heap[a].at[k])
             /\ x.heap[a].at[k] = Final(w, w.heap[a].at[k].id)
    <3>1. w.heap[a].at[k].id \in DraftIds(w)
      BY <2>1, <2>3 DEF Sound, WorldOK, ExistsIn
    <3> QED
      BY <1>1, <1>2, <2>3, <3>1, FinalKnown
  <2> QED
    BY <1>1, <2>1, <2>2, <2>3 DEF Finishes
<1> QED
  BY <1>1, <1>2, <1>3, <1>4 DEF Handled

\* What leads to no draft never will.
LEMMA CleanStays ==
    ASSUME NEW w, NEW x, Finalizes(w, x), NEW v, Clean(w, v)
    PROVE  Clean(x, v)
<1>1. ASSUME NEW L \in SUBSET DOMAIN w.heap, CleanSet(w, L)
      PROVE  CleanSet(x, L)
  <2>1. \A a \in L, k \in Keys : x.heap[a].at[k] = w.heap[a].at[k]
    BY <1>1, OnlyDraftsSettle DEF CleanSet, Finalizes
  <2> QED
    BY <1>1, <2>1 DEF CleanSet, Finalizes
<1> QED
  BY <1>1 DEF Clean, Finalizes

\* An address makes a value.
LEMMA ObjValue ==
    ASSUME NEW w, Sound(w), NEW a \in DOMAIN w.heap
    PROVE  /\ Obj(a) \in Value /\ ~IsDraft(Obj(a)) /\ IsObj(Obj(a)) /\ Obj(a).id = a
<1>1. a \in Nat
  BY WorldParts DEF Sound, WorldOK
<1> QED
  BY <1>1 DEF Obj, IsObj, IsDraft, Value

\* With an empty list, nothing that is known leads to a draft.
LEMMA KnownClean ==
    ASSUME NEW w, Sound(w), BaseClosed, Places(w), Handled(w), w.tasks = <<>>
    PROVE  CleanSet(w, Known(w))
<1>1. \A task : ~Queued(w, task)
  BY DEF Queued
<1>2. Known(w) \subseteq DOMAIN w.heap
  BY DEF Known, Handled, Sound, Kept, WorldOK
<1>3. ASSUME NEW a \in Known(w), NEW k \in Keys
      PROVE  /\ ~IsDraft(w.heap[a].at[k])
             /\ IsObj(w.heap[a].at[k]) => w.heap[a].at[k].id \in Known(w)
  <2>1. CASE a \in DOMAIN base
    BY <2>1 DEF BaseClosed, Sound, Kept, Known
  <2>2. CASE a \in w.handled
    BY <2>2 DEF Handled
  <2>3. ASSUME NEW d \in DraftIds(w), Node(w, d).copy # Null, a = Node(w, d).copy
        PROVE  /\ ~IsDraft(w.heap[a].at[k])
               /\ IsObj(w.heap[a].at[k]) => w.heap[a].at[k].id \in Known(w)
    BY <1>1, <2>3 DEF Places, Placed, Copy
  <2> QED
    BY <2>1, <2>2, <2>3 DEF Known
<1> QED
  BY <1>2, <1>3 DEF CleanSet

\* No draft is left in an object that the recipe returned.
LEMMA ReturnedClean ==
    ASSUME NEW w, NEW x, Sound(w), BaseClosed, NEW v \in Value, IsObj(v),
           RecipeEnded(w, x, v)
    PROVE  Clean(x, v)
<1> DEFINE L == Held(w, v) \cup DOMAIN base
<1>1. /\ Finalizes(w, x) /\ v.id \in Held(w, v) /\ Held(w, v) \subseteq DOMAIN w.heap
      /\ \A a \in Held(w, v), k \in Keys :
            IsObj(w.heap[a].at[k]) => w.heap[a].at[k].id \in Held(w, v)
      /\ \A a \in DOMAIN w.heap, k \in Keys :
            IF a \in Held(w, v) /\ IsDraft(w.heap[a].at[k])
            THEN x.heap[a].at[k] = Obj(Node(w, w.heap[a].at[k].id).original)
            ELSE x.heap[a].at[k] = w.heap[a].at[k]
  BY DEF RecipeEnded
<1>2. L \subseteq DOMAIN x.heap
  BY <1>1 DEF Sound, Kept, Finalizes
<1>3. ASSUME NEW a \in Held(w, v), NEW k \in Keys
      PROVE  ~IsDraft(x.heap[a].at[k])
             /\ (IsObj(x.heap[a].at[k]) => x.heap[a].at[k].id \in L)
  <2>1. a \in DOMAIN w.heap
    BY <1>1
  <2>2. CASE IsDraft(w.heap[a].at[k])
    <3>1. w.heap[a].at[k].id \in DraftIds(w)
      BY <2>1, <2>2 DEF Sound, WorldOK, ExistsIn
    <3>2. x.heap[a].at[k] = Obj(Node(w, w.heap[a].at[k].id).original)
      BY <1>1, <2>1, <2>2
    <3>3. Node(w, w.heap[a].at[k].id).original \in DOMAIN base
      BY <3>1 DEF Sound, Kept
    <3> QED
      BY <3>2, <3>3 DEF Obj, IsDraft
  <2>3. CASE ~IsDraft(w.heap[a].at[k])
    BY <1>1, <2>1, <2>3
  <2> QED
    BY <2>2, <2>3
<1>4. ASSUME NEW a \in DOMAIN base, NEW k \in Keys
      PROVE  ~IsDraft(x.heap[a].at[k])
             /\ (IsObj(x.heap[a].at[k]) => x.heap[a].at[k].id \in L)
  <2>1. a \in DOMAIN w.heap /\ w.heap[a] = base[a]
    BY DEF Sound, Kept
  <2>2. ~IsDraft(w.heap[a].at[k])
        /\ (IsObj(w.heap[a].at[k]) => w.heap[a].at[k].id \in DOMAIN base)
    BY <2>1 DEF BaseClosed
  <2> QED
    BY <1>1, <2>1, <2>2
<1>5. CleanSet(x, L)
  BY <1>2, <1>3, <1>4 DEF CleanSet
<1>6. v.id \in L /\ ~IsDraft(v)
  BY <1>1 DEF IsObj, IsDraft
<1> HIDE DEF L
<1> QED
  BY <1>2, <1>5, <1>6 DEF Clean

\* Each object that an object leads to is held by another one, or is that
\* object itself.
LEMMA HeldHolds ==
    ASSUME NEW w, Sound(w), NEW c \in DOMAIN w.heap,
           NEW b \in Held(w, Obj(c)), b # c
    PROVE  \E a \in Held(w, Obj(c)), k \in Keys : w.heap[a].at[k] = Obj(b)
<1> SUFFICES ASSUME \A a \in Held(w, Obj(c)), k \in Keys : w.heap[a].at[k] # Obj(b)
             PROVE  FALSE
  OBVIOUS
<1> DEFINE S == Held(w, Obj(c)) \ {b}
<1>1. IsObj(Obj(c)) /\ Obj(c).id = c /\ ExistsIn(w, Obj(c))
  BY DEF IsObj, IsDraft, Obj, ExistsIn
<1>2. /\ Held(w, Obj(c)) \subseteq DOMAIN w.heap
      /\ c \in Held(w, Obj(c))
      /\ \A a \in Held(w, Obj(c)), k \in Keys :
            IsObj(w.heap[a].at[k]) => w.heap[a].at[k].id \in Held(w, Obj(c))
  BY <1>1, LedToCloses DEF Held
<1>3. \A a \in DOMAIN w.heap, k \in Keys :
         IsObj(w.heap[a].at[k]) => w.heap[a].at[k] = Obj(w.heap[a].at[k].id)
  <2>1. \A a \in DOMAIN w.heap, k \in Keys : w.heap[a].at[k] \in Value
    BY SMTT(30), WorldParts DEF Sound, WorldOK, Object
  <2> QED
    BY <2>1, ValueLeads DEF Sound, WorldOK
<1>4. /\ S \subseteq DOMAIN w.heap /\ c \in S
      /\ \A a \in S, k \in Keys :
            IsObj(w.heap[a].at[k]) => w.heap[a].at[k].id \in S
  BY <1>2, <1>3
<1> HIDE DEF S
<1>5. b \in S
  BY <1>1, <1>4 DEF Held, LedTo
<1> QED
  BY <1>5 DEF S

\* A recipe that read nothing returns without a look at the objects that it
\* assigned.  They can hold no draft but the root, and so none, since the
\* state has no cycle.
LEMMA AloneClean ==
    ASSUME NEW w, Sound(w), DraftIds(w) = {Root}, Node(w, Root).operated,
           Shallow(Store(w))
    PROVE  Clean(w, Obj(Node(w, Root).copy))
<1> DEFINE c == Node(w, Root).copy
           L == Held(w, Obj(c))
           store == Store(w)
<1>1. /\ Root \in DraftIds(w) /\ c # Null /\ c \in DOMAIN w.heap
      /\ Latest(w, Root) = w.heap[c]
  BY DEF Sound, WorldOK, Marked, Latest, LatestAddress
<1>2. /\ Obj(c) \in Value /\ IsObj(Obj(c)) /\ ~IsDraft(Obj(c)) /\ Obj(c).id = c
      /\ ExistsIn(w, Obj(c))
  BY <1>1, ObjValue DEF ExistsIn
<1>3. /\ L \subseteq DOMAIN w.heap /\ c \in L
      /\ \A a \in L, k \in Keys :
            IsObj(w.heap[a].at[k]) => w.heap[a].at[k].id \in L
  BY <1>2, LedToCloses DEF Held
<1>4. ASSUME NEW a \in L, NEW j \in Keys, IsDraft(w.heap[a].at[j])
      PROVE  FALSE
  <2> DEFINE held(u) == \E b \in L, k \in Keys : w.heap[b].at[k] = u
             P == {Draft(Root)} \cup {u \in {Obj(b) : b \in L} : held(u)}
  <2>1. /\ Draft(Root) \in DOMAIN store /\ store[Draft(Root)] = w.heap[c]
        /\ IsRef(Draft(Root)) /\ Closed(store)
        /\ \A b \in DOMAIN w.heap : /\ Obj(b) \in DOMAIN store
                                    /\ store[Obj(b)] = w.heap[b]
                                    /\ IsRef(Obj(b))
    BY <1>1, StoreLeads
  <2>2. held(Draft(Root))
    <3>1. w.heap[a].at[j] \in Value /\ ExistsIn(w, w.heap[a].at[j])
      <4>1. a \in DOMAIN w.heap
        BY <1>3
      <4>2. w.heap[a] \in Object
        BY <4>1, WorldParts DEF Sound, WorldOK
      <4> QED
        BY <4>1, <4>2 DEF Sound, WorldOK, Object
    <3>2. w.heap[a].at[j] = Draft(Root)
      BY <1>4, <3>1, ValueLeads
    <3> QED
      BY <3>2
  <2>3. ASSUME NEW u \in P
        PROVE  /\ u \in DOMAIN store /\ IsRef(u)
               /\ \E v \in P, k \in Keys : store[v].at[k] = u
    <3>1. u \in DOMAIN store /\ IsRef(u)
      BY <1>3, <2>1
    <3>2. PICK b \in L, k \in Keys : w.heap[b].at[k] = u
      BY <2>2
    <3>3. CASE b = c
      <4>1. store[Draft(Root)].at[k] = u
        BY <2>1, <3>2, <3>3
      <4> QED
        BY <3>1, <4>1
    <3>4. CASE b # c
      <4>1. held(Obj(b))
        BY <1>1, <3>4, HeldHolds
      <4>2. Obj(b) \in P
        BY <4>1
      <4>3. store[Obj(b)].at[k] = u
        BY <1>3, <2>1, <3>2
      <4> QED
        BY <3>1, <4>2, <4>3
    <3> QED
      BY <3>3, <3>4
  <2>4. \A v \in DOMAIN store : DOMAIN store[v].at = Keys
    <3>1. \A b \in DOMAIN w.heap : DOMAIN w.heap[b].at = Keys
      BY WorldParts DEF Sound, WorldOK, Object
    <3>2. \A d \in DraftIds(w) : LatestAddress(w, d) \in DOMAIN w.heap
      BY DEF Sound, WorldOK, LatestAddress
    <3> QED
      BY <3>1, <3>2, StoreLeads DEF Latest
  <2>5. P \in SUBSET DOMAIN store
    BY <2>3
  <2>6. Draft(Root) \in P
    OBVIOUS
  <2> HIDE DEF P, store
  <2>7. P \subseteq Below(store, MaxDepth)
    BY <2>1, <2>3, <2>4, <2>5, BelowHolds, DataAssumption
  <2> QED
    BY <2>6, <2>7 DEF Shallow, store
<1>5. CleanSet(w, L)
  BY <1>3, <1>4 DEF CleanSet
<1> QED
  BY <1>2, <1>3, <1>5 DEF Clean

-----------------------------------------------------------------------------
(***************************************************************************)
(* The values of patches.                                                  *)
(***************************************************************************)

\* Some patch has the value v, as a reference.
Lives(batches, v) ==
    \E i \in DOMAIN batches : \E patch \in batches[i] :
        patch.value.tag = "live" /\ patch.value.value = v

\* A value that is no draft, and if it is an object, one of the base or one
\* that a copy holds.
Grounded(w, v) ==
    /\ v \in Value /\ ~IsDraft(v)
    /\ IsObj(v) => \/ v.id \in DOMAIN base
                   \/ \E d \in DraftIds(w), k \in Keys :
                         Node(w, d).copy # Null /\ Copy(w, d).at[k] = v

\* A list of batches whose references are grounded.
Grounds(w, batches) ==
    /\ \E S : batches \in Seq(S)
    /\ \A v : Lives(batches, v) => Grounded(w, v)

\* What is in two lists of batches together is in one of them.
LEMMA ConcatGrounds ==
    ASSUME NEW w, NEW s, NEW t, Grounds(w, s), Grounds(w, t)
    PROVE  Grounds(w, s \o t)
<1> DEFINE r == s \o t
<1>0. PICK S, T : s \in Seq(S) /\ t \in Seq(T)
  BY DEF Grounds
<1> DEFINE U == S \cup T
<1>1. s \in Seq(U) /\ t \in Seq(U)
  <2>1. /\ s \in [1 .. Len(s) -> S] /\ Len(s) \in Nat
        /\ t \in [1 .. Len(t) -> T] /\ Len(t) \in Nat
    BY <1>0, LenProperties
  <2>2. s \in [1 .. Len(s) -> U] /\ t \in [1 .. Len(t) -> U]
    BY <2>1
  <2> HIDE DEF U
  <2> QED
    BY <2>1, <2>2, FunctionIsSeq
<1> HIDE DEF U
<1>2. r \in Seq(U) /\ Len(r) = Len(s) + Len(t)
      /\ \A i \in 1 .. Len(r) : r[i] = IF i <= Len(s) THEN s[i] ELSE t[i - Len(s)]
  BY <1>1, ConcatProperties
<1>3. /\ DOMAIN r = 1 .. Len(r) /\ DOMAIN s = 1 .. Len(s) /\ DOMAIN t = 1 .. Len(t)
      /\ Len(s) \in Nat /\ Len(t) \in Nat
  BY <1>1, <1>2, LenProperties
<1> HIDE DEF r
<1>4. ASSUME NEW v, Lives(r, v)
      PROVE  Lives(s, v) \/ Lives(t, v)
  <2>1. PICK i \in DOMAIN r : \E patch \in r[i] :
                patch.value.tag = "live" /\ patch.value.value = v
    BY <1>4 DEF Lives
  <2>2. CASE i <= Len(s)
    <3>1. i \in DOMAIN s /\ r[i] = s[i]
      BY <1>2, <1>3, <2>2
    <3> QED
      BY <2>1, <3>1 DEF Lives
  <2>3. CASE ~(i <= Len(s))
    <3>1. i - Len(s) \in DOMAIN t /\ r[i] = t[i - Len(s)]
      BY <1>2, <1>3, <2>3
    <3> QED
      BY <2>1, <3>1 DEF Lives
  <2> QED
    BY <2>2, <2>3
<1> QED
  BY <1>2, <1>4 DEF Grounds, r

\* An empty list holds no values.
LEMMA EmptyGrounds ==
    ASSUME NEW w
    PROVE  Grounds(w, <<>>)
<1>1. <<>> \in Seq({})
  OBVIOUS
<1>2. \A v : ~Lives(<<>>, v)
  BY DEF Lives
<1> QED
  BY <1>1, <1>2 DEF Grounds

\* A list of no or one batch.
LEMMA SingleGrounds ==
    ASSUME NEW w, NEW batch,
           \A patch \in batch : patch.value.tag = "live" => Grounded(w, patch.value.value)
    PROVE  Grounds(w, <<batch>>) /\ Grounds(w, <<>>)
<1>1. <<batch>> \in Seq({batch})
  OBVIOUS
<1>3. \A v : Lives(<<batch>>, v) => Grounded(w, v)
  BY DEF Lives
<1> QED
  BY <1>1, <1>3, EmptyGrounds DEF Grounds

\* What a draft holds and what its original holds is grounded.
LEMMA ReadGrounded ==
    ASSUME NEW w, Sound(w), BaseClosed, NEW d \in DraftIds(w), NEW k \in Keys
    PROVE  /\ Grounded(w, OriginalValue(w, d, k)) /\ Grounded(w, Absent)
           /\ Node(w, d).copy # Null =>
                 LET value == PatchValue(w, d, k)
                 IN  value.tag = "live" => Grounded(w, value.value)
<1>1. Grounded(w, Absent) /\ Grounded(w, Undefined)
  BY DEF Grounded, Absent, Undefined, Prim, IsDraft, IsObj, Value
<1>2. Grounded(w, Original(w, d).at[k])
  BY OriginalHoldsBase DEF Grounded
<1>3. Grounded(w, OriginalValue(w, d, k))
  BY <1>1, <1>2 DEF OriginalValue, Read
<1>4. ASSUME Node(w, d).copy # Null
      PROVE  LET value == PatchValue(w, d, k)
             IN  value.tag = "live" => Grounded(w, value.value)
  <2> DEFINE u == Read(Copy(w, d), k)
  <2>1. u = Undefined \/ u = Copy(w, d).at[k]
    BY DEF Read
  <2>2. CASE ~IsDraft(u)
    <3>1. Grounded(w, u)
      BY <1>1, <1>4, <2>1, <2>2, CopyValue DEF Grounded
    <3>2. PatchValue(w, d, k) = Live(u)
      BY <2>2 DEF PatchValue, CloneIfNeeded
    <3> QED
      BY <3>1, <3>2 DEF Live
  <2>3. CASE IsDraft(u) /\ Node(w, u.id).operated
    <3>1. PatchValue(w, d, k) = Snapshot(CurrentTree(w, u))
      BY <2>3 DEF PatchValue, CloneIfNeeded
    <3> QED
      BY <3>1 DEF Snapshot
  <2>4. CASE IsDraft(u) /\ ~Node(w, u.id).operated
    <3>1. u.id \in DraftIds(w)
      <4>1. u = Copy(w, d).at[k]
        BY <2>1, <2>4 DEF Undefined, Prim, IsDraft
      <4> QED
        BY <1>4, <2>4, <4>1, CopyValue DEF ExistsIn
    <3>2. Grounded(w, Obj(Node(w, u.id).original))
      <4>1. /\ Node(w, u.id).original \in DOMAIN base
            /\ Node(w, u.id).original \in DOMAIN w.heap
        BY <3>1 DEF Sound, Kept, WorldOK
      <4> QED
        BY <4>1, ObjValue DEF Grounded
    <3>3. PatchValue(w, d, k) = Live(Obj(Node(w, u.id).original))
      BY <2>4 DEF PatchValue, CloneIfNeeded
    <3> QED
      BY <3>2, <3>3 DEF Live
  <2> QED
    BY <2>2, <2>3, <2>4
<1> QED
  BY <1>1, <1>3, <1>4

\* The patches of a draft have grounded values.
LEMMA BatchesGround ==
    ASSUME NEW w, Sound(w), BaseClosed, NEW d \in DraftIds(w), Node(w, d).copy # Null
    PROVE  Grounds(w, ForwardBatches(w, d)) /\ Grounds(w, InverseBatches(w, d))
<1>1. ASSUME NEW path, NEW k \in Keys
      PROVE  /\ ForwardPatch(w, d, path, k).value.tag = "live" =>
                   Grounded(w, ForwardPatch(w, d, path, k).value.value)
             /\ InversePatch(w, d, path, k).value.tag = "live" =>
                   Grounded(w, InversePatch(w, d, path, k).value.value)
  <2>1. ForwardPatch(w, d, path, k).value \in {Live(Absent), PatchValue(w, d, k)}
    BY DEF ForwardPatch, Patch
  <2>2. InversePatch(w, d, path, k).value \in {Live(Absent), Live(OriginalValue(w, d, k))}
    BY DEF InversePatch, Patch, Op
  <2> QED
    BY <2>1, <2>2, ReadGrounded DEF Live
<1> DEFINE P == CHOOSE p \in OwnPath(w, d) : TRUE
           F == {ForwardPatch(w, d, Append(P, k), k) : k \in PatchedKeys(w, d)}
           I == {InversePatch(w, d, Append(P, k), k) : k \in PatchedKeys(w, d)}
<1>2. PatchedKeys(w, d) \subseteq Keys
  BY DEF PatchedKeys
<1>3. /\ ForwardBatches(w, d) \in {<<>>, <<F>>}
      /\ InverseBatches(w, d) \in {<<>>, <<I>>}
  BY DEF ForwardBatches, InverseBatches, Batches
<1>4. /\ \A patch \in F : patch.value.tag = "live" => Grounded(w, patch.value.value)
      /\ \A patch \in I : patch.value.tag = "live" => Grounded(w, patch.value.value)
  BY <1>1, <1>2
<1> HIDE DEF F, I
<1> QED
  BY <1>3, <1>4, SingleGrounds

\* No object leaves a copy during finalization.
LEMMA GroundedStays ==
    ASSUME NEW w, NEW x, Sound(w), Finalizes(w, x), NEW v, Grounded(w, v)
    PROVE  Grounded(x, v)
<1>1. ASSUME NEW d \in DraftIds(w), NEW k \in Keys, Node(w, d).copy # Null,
             IsObj(v), Copy(w, d).at[k] = v
      PROVE  d \in DraftIds(x) /\ Node(x, d).copy # Null /\ Copy(x, d).at[k] = v
  <2>1. Node(w, d).copy \in DOMAIN w.heap /\ Node(x, d).copy = Node(w, d).copy
    BY <1>1, CopyValue DEF Finalizes
  <2>2. Settled(w, Copy(w, d).at[k], Copy(x, d).at[k])
    BY <2>1 DEF Finalizes, Copy
  <2> QED
    BY <1>1, <2>1, <2>2, OnlyDraftsSettle DEF Finalizes, IsObj, IsDraft
<1> QED
  BY <1>1 DEF Grounded

-----------------------------------------------------------------------------
(***************************************************************************)
(* The invariant.                                                          *)
(***************************************************************************)

\* A recipe that read nothing: handleValue() is not called then.
Alone(w) == DraftIds(w) = {Root}

\* While the recipe runs, all that its copies hold will be seen to.
Started(w) ==
    /\ w.handled = {}
    /\ AllQueued(w) /\ Places(w)
    /\ Alone(w) /\ Node(w, Root).operated => Shallow(Store(w))

\* From then on what is not in order yet is in the list.
Ending(w) ==
    /\ ~Alone(w) => Places(w)
    /\ Handled(w)
    /\ Alone(w) /\ Node(w, Root).operated => Clean(w, Obj(Node(w, Root).copy))

Prepared ==
    phase = "recipe" => Started(W) /\ patches = <<>> /\ inverse = <<>>

WorkedOff ==
    phase \in {"finalizing", "done"} =>
        Ending(W) /\ (returned # <<>> => Clean(W, Head(returned)))

PatchesGrounded ==
    phase = "finalizing" =>
        /\ Grounds(W, patches) /\ Grounds(W, inverse)
        /\ patches # <<>> \/ inverse # <<>> => Node(W, Root).operated

AllClean ==
    phase = "done" =>
        /\ Clean(W, result)
        /\ \A v : Lives(patches, v) \/ Lives(inverse, v) => Clean(W, v)

FInv == SInv /\ Prepared /\ WorkedOff /\ PatchesGrounded /\ AllClean

\* The parts of the invariant that the steps need.
LEMMA FInvParts ==
    ASSUME FInv
    PROVE  /\ IInv /\ Sound(W) /\ BaseClosed /\ Apart(W) /\ Root \in DraftIds(W)
           /\ Outcome(W) /\ result \in Value /\ returned \in Seq(Value)
<1>1. IInv /\ Sound(W) /\ BaseClosed /\ Apart(W) /\ Outcome(W)
  BY InvParts DEF FInv, SInv, UInv
<1> QED
  BY <1>1 DEF IInv, TypeOK, Sound, WorldOK

\* What holds of the world that a step makes holds in the next state.
LEMMA NextParts ==
    ASSUME base' = base, NEW x, W' = x
    PROVE  /\ Started(x) => Started(W)'
           /\ Ending(x) => Ending(W)'
           /\ Grounds(x, patches') => Grounds(W, patches)'
           /\ Grounds(x, inverse') => Grounds(W, inverse)'
<1>1. \A d, k, u : Placed(x, d, k, u) => Placed(W, d, k, u)'
  BY DEF Placed, Known
<1>2. Places(x) => Places(W)'
  BY <1>1 DEF Places
<1>3. Handled(x) => Handled(W)'
  BY DEF Handled, Known
<1>4. \A v : Grounded(x, v) => Grounded(W, v)'
  BY DEF Grounded
<1>5. Started(x) => Started(W)'
  BY <1>2 DEF Started
<1>6. Ending(x) => Ending(W)'
  BY <1>2, <1>3 DEF Ending
<1>7. /\ Grounds(x, patches') => Grounds(W, patches)'
      /\ Grounds(x, inverse') => Grounds(W, inverse)'
  BY <1>4 DEF Grounds
<1> QED
  BY <1>5, <1>6, <1>7

\* The root is in the list, and has no copy yet.
LEMMA InitFinal ==
    ASSUME Init
    PROVE  FInv
<1>1. /\ W.handled = {} /\ DraftIds(W) = {1} /\ Node(W, 1).copy = Null
      /\ ~Node(W, 1).operated
      /\ DOMAIN W.tasks = {1} /\ W.tasks[1] = [kind |-> "node", draft |-> 1]
  BY InitWorld
<1>2. AllQueued(W)
  BY <1>1 DEF AllQueued, Queued, NodeTask
<1>3. Started(W)
  BY <1>1, <1>2 DEF Started, Places, Root
<1>4. phase = "recipe" /\ patches = <<>> /\ inverse = <<>>
  BY DEF Init
<1> QED
  BY <1>3, <1>4, InitShared DEF FInv, Prepared, WorkedOff, PatchesGrounded, AllClean

\* A step of the recipe.
LEMMA RecipeFinal ==
    ASSUME FInv, Recipe
    PROVE  Prepared' /\ phase' = "recipe"
<1>1. /\ IInv /\ Sound(W) /\ BaseClosed /\ Apart(W) /\ Root \in DraftIds(W)
  BY FInvParts
<1>2. /\ UNCHANGED <<base, phase, patches, inverse>> /\ phase = "recipe"
      /\ \E x : W' = x /\ (Assigns(x) \/ Reads(x) \/ Makes(x) \/ Mends(x))
  BY <1>1, RecipeSteps
<1>3. PICK x : W' = x /\ (Assigns(x) \/ Reads(x) \/ Makes(x) \/ Mends(x))
  BY <1>2
<1>4. Sound(x)
  <2>1. IInv'
    BY <1>1, NextKeeps DEF Next
  <2> QED
    BY <1>2, <1>3, <2>1, NextSound
<1>5. /\ W.handled = {} /\ AllQueued(W) /\ Places(W)
      /\ patches = <<>> /\ inverse = <<>>
  BY <1>2 DEF FInv, Prepared, Started
<1>6. ASSUME NEW d, NEW K, NEW v \in RecipeValues \cup {Absent},
             Wrote(W, x, d, K, v), Bounded(x)
      PROVE  Started(x)
  <2>1. ExistsIn(W, v)
    BY <1>1, RecipeValuesExist, AbsentExists
  <2>2. Places(x) /\ AllQueued(x)
    BY <1>1, <1>4, <1>5, <1>6, <2>1, WrotePlaces
  <2>3. x.handled = {} /\ Shallow(Store(x))
    BY <1>5, <1>6 DEF Wrote, Extends, Bounded
  <2> QED
    BY <2>2, <2>3 DEF Started
<1>7. ASSUME NEW d, NEW k, NEW n, Drafted(W, x, d, k, n)
      PROVE  Started(x)
  <2>1. Places(x) /\ AllQueued(x)
    BY <1>1, <1>4, <1>5, <1>7, DraftedPlaces
  <2>2. x.handled = {} /\ ~Alone(x)
    BY <1>1, <1>5, <1>7 DEF Drafted, Extends, Alone
  <2> QED
    BY <2>1, <2>2 DEF Started
<1>8. ASSUME NEW o, Made(W, x, o), Bounded(x)
      PROVE  Started(x)
  <2>1. /\ x.drafts = W.drafts /\ x.tasks = W.tasks /\ x.handled = W.handled
        /\ \A e \in DraftIds(W) :
              Node(W, e).copy # Null => x.heap[Node(W, e).copy] = W.heap[Node(W, e).copy]
    BY <1>1, <1>8 DEF Made, Sound, WorldOK
  <2>2. Places(x) /\ AllQueued(x)
    BY <1>1, <1>5, <2>1, FreshPlaces
  <2> QED
    BY <1>5, <1>8, <2>1, <2>2 DEF Started, Bounded
<1>9. ASSUME NEW a, NEW k, NEW v, Overwrote(W, x, a, k, v), Bounded(x)
      PROVE  Started(x)
  <2>1. /\ x.drafts = W.drafts /\ x.tasks = W.tasks /\ x.handled = W.handled
        /\ \A e \in DraftIds(W) :
              Node(W, e).copy # Null => x.heap[Node(W, e).copy] = W.heap[Node(W, e).copy]
    BY <1>1, <1>9 DEF Overwrote, Fresh, Sound, WorldOK
  <2>2. Places(x) /\ AllQueued(x)
    BY <1>1, <1>5, <2>1, FreshPlaces
  <2> QED
    BY <1>5, <1>9, <2>1, <2>2 DEF Started, Bounded
<1>10. Started(x)
  BY <1>3, <1>6, <1>7, <1>8, <1>9 DEF Assigns, Reads, Makes, Mends
<1>11. Started(W)'
  BY <1>2, <1>3, <1>10, NextParts
<1> QED
  BY <1>2, <1>5, <1>11 DEF Prepared

\* A recipe that changed its state and read nothing returns no other object.
LEMMA AloneReturns ==
    ASSUME FInv, NEW v \in RecipeValues \cup {Undefined}, EndRecipe(v),
           Alone(W), Node(W, Root).operated
    PROVE  IsState(v) /\ ~IsObj(v)
<1>1. IInv /\ Sound(W)
  BY FInvParts
<1>2. ExistsIn(W, v) /\ v \in Value
  BY <1>1, RecipeValuesExist DEF Undefined, Prim, ExistsIn, IsObj, IsDraft, Value
<1>3. ~Refused(v)
  BY DEF EndRecipe
<1>4. CASE IsDraft(v)
  <2>1. v = Draft(Root)
    BY <1>1, <1>2, <1>4, ValueLeads DEF Alone
  <2> QED
    BY <1>4, <2>1 DEF IsState, IsDraft, IsObj
<1>5. CASE ~IsDraft(v)
  <2>1. IsState(v)
    BY <1>3, <1>5 DEF Refused
  <2> QED
    BY <2>1 DEF IsState, Undefined, Prim, Draft, IsObj
<1> QED
  BY <1>4, <1>5

\* The end of a recipe.
LEMMA EndRecipeFinal ==
    ASSUME FInv, NEW v \in RecipeValues \cup {Undefined}, EndRecipe(v)
    PROVE  WorkedOff' /\ PatchesGrounded' /\ phase' = "finalizing"
<1>1. IInv /\ Sound(W) /\ BaseClosed /\ Root \in DraftIds(W)
  BY FInvParts
<1>2. PICK x : W' = x /\ Sound(x) /\ RecipeEnded(W, x, v)
  BY <1>1, EndRecipeSteps
<1>3. /\ phase = "recipe" /\ phase' = "finalizing"
      /\ UNCHANGED <<base, patches, inverse>>
      /\ returned' = CASE IsState(v) -> <<>>
                       [] ~IsState(v) /\ IsDraft(v) -> <<Obj(Node(W, v.id).original)>>
                       [] OTHER -> <<v>>
  BY DEF EndRecipe
<1>4. Started(W) /\ patches = <<>> /\ inverse = <<>>
  BY <1>3 DEF FInv, Prepared
<1>5. /\ Finalizes(W, x) /\ x.handled = {} /\ (~IsObj(v) => x = W)
  BY <1>2, <1>4 DEF RecipeEnded, Started
<1>6. ExistsIn(W, v) /\ v \in Value
  BY <1>1, RecipeValuesExist DEF Undefined, Prim, ExistsIn, IsObj, IsDraft, Value
<1>7. Ending(x)
  <2>1. Places(x)
    BY <1>1, <1>2, <1>4, EndedPlaces DEF Started
  <2>2. Handled(x)
    BY <1>5 DEF Handled
  <2>3. ASSUME Alone(x), Node(x, Root).operated
        PROVE  Clean(x, Obj(Node(x, Root).copy))
    <3>1. Alone(W) /\ Node(W, Root).operated
      BY <1>1, <1>5, <2>3 DEF Alone, Finalizes
    <3>2. x = W
      BY <1>5, <3>1, AloneReturns
    <3>3. Shallow(Store(W))
      BY <1>4, <3>1 DEF Started
    <3>4. Clean(W, Obj(Node(W, Root).copy))
      BY <1>1, <3>1, <3>3, AloneClean DEF Alone
    <3> QED
      BY <3>2, <3>4
  <2> QED
    BY <2>1, <2>2, <2>3 DEF Ending
<1>8. returned' # <<>> => Clean(x, Head(returned'))
  <2>1. CASE IsState(v)
    BY <1>3, <2>1
  <2>2. CASE ~IsState(v) /\ IsDraft(v)
    <3> DEFINE o == Obj(Node(W, v.id).original)
    <3>1. /\ Node(W, v.id).original \in DOMAIN base
          /\ Node(W, v.id).original \in DOMAIN W.heap
      BY <1>1, <1>6, <2>2 DEF ExistsIn, Sound, Kept, WorldOK
    <3>2. o \in Value /\ ~IsDraft(o) /\ o.id \in DOMAIN base
      BY <1>1, <3>1, ObjValue
    <3>3. returned' = <<o>>
      BY <1>3, <2>2
    <3> HIDE DEF o
    <3>4. Clean(x, o)
      BY <1>1, <1>2, <3>2, BaseClean
    <3> QED
      BY <3>3, <3>4
  <2>3. CASE ~IsState(v) /\ ~IsDraft(v)
    <3>1. returned' = <<v>>
      BY <1>3, <2>3
    <3>2. Clean(x, v)
      BY <1>1, <1>2, <1>6, <2>3, ReturnedClean DEF Clean
    <3> QED
      BY <3>1, <3>2
  <2> QED
    BY <2>1, <2>2, <2>3
<1>9. Grounds(x, <<>>)
  BY EmptyGrounds
<1>10. WorkedOff'
  <2>1. Ending(W)' /\ (returned' # <<>> => Clean(W', Head(returned')))
    BY <1>2, <1>3, <1>7, <1>8, NextParts
  <2> QED
    BY <2>1 DEF WorkedOff
<1>11. PatchesGrounded'
  <2>1. Grounds(W, patches)' /\ Grounds(W, inverse)'
    BY <1>2, <1>3, <1>4, <1>9, NextParts
  <2> QED
    BY <1>3, <1>4, <2>1 DEF PatchesGrounded
<1> QED
  BY <1>3, <1>10, <1>11

\* A step of the finalization makes grounded patches, and of what is in order
\* nothing else.
LEMMA NodeGrounds ==
    ASSUME FInv, FinalizeNode, NEW x, W' = x, Finalizes(W, x)
    PROVE  Grounds(x, patches') /\ Grounds(x, inverse')
<1>1. /\ IInv /\ Sound(W) /\ BaseClosed /\ phase = "finalizing" /\ tasks # <<>>
      /\ W.tasks = tasks
  BY FInvParts DEF FinalizeNode, Finalizing, W
<1>2. Grounds(W, patches) /\ Grounds(W, inverse)
  BY <1>1 DEF FInv, PatchesGrounded
<1>3. \A batches : Grounds(W, batches) => Grounds(x, batches)
  BY <1>1, GroundedStays DEF Grounds
<1> DEFINE d == Last(tasks).draft
           w == Popped
<1>4. CASE UNCHANGED <<patches, inverse>>
  BY <1>2, <1>3, <1>4
<1>5. CASE /\ Generates(w, d)
           /\ patches' = patches \o ForwardBatches(w, d)
           /\ inverse' = inverse \o InverseBatches(w, d)
  <2>1. /\ Sound(w) /\ w.heap = W.heap /\ w.drafts = W.drafts
        /\ d \in DraftIds(W)
    BY <1>1, PoppedSound DEF Popped
  <2>2. d \in DraftIds(w)
    BY <2>1 DEF DraftIds
  <2>3. Node(w, d).copy # Null
    BY <1>5, <2>1, <2>2 DEF Generates, Sound, Marked
  <2> HIDE DEF w, d
  <2>4. Grounds(w, ForwardBatches(w, d)) /\ Grounds(w, InverseBatches(w, d))
    BY <1>1, <2>1, <2>2, <2>3, BatchesGround
  <2>5. \A v : Grounded(w, v) => Grounded(W, v)
    BY <2>1 DEF Grounded, DraftIds, Node, Copy
  <2>6. Grounds(W, ForwardBatches(w, d)) /\ Grounds(W, InverseBatches(w, d))
    BY <2>4, <2>5 DEF Grounds
  <2>7. /\ Grounds(W, patches \o ForwardBatches(w, d))
        /\ Grounds(W, inverse \o InverseBatches(w, d))
    BY <1>2, <2>6, ConcatGrounds
  <2> QED
    BY <1>3, <1>5, <2>7
<1>6. \/ UNCHANGED <<patches, inverse>>
      \/ /\ Generates(w, d)
         /\ patches' = patches \o ForwardBatches(w, d)
         /\ inverse' = inverse \o InverseBatches(w, d)
  BY DEF FinalizeNode, FinalizePatches
<1> QED
  BY <1>4, <1>5, <1>6

\* The finalization works on.
LEMMA FinalizationFinal ==
    ASSUME FInv, FinalizeNode \/ FinalizeTask
    PROVE  WorkedOff' /\ PatchesGrounded' /\ phase' = "finalizing"
<1>1. IInv /\ Sound(W) /\ BaseClosed /\ Root \in DraftIds(W)
  BY FInvParts
<1>2. /\ phase = "finalizing" /\ phase' = phase /\ returned' = returned /\ base' = base
      /\ Node(W, Root).operated
  BY DEF FinalizeNode, FinalizeTask, Finalizing
<1>3. /\ Ending(W) /\ (returned # <<>> => Clean(W, Head(returned)))
      /\ Grounds(W, patches) /\ Grounds(W, inverse)
  BY <1>2 DEF FInv, WorkedOff, PatchesGrounded
<1>4. PICK x : /\ W' = x /\ Sound(x)
               /\ \/ \E n : NodeDone(W, x, n)
                  \/ \E d, k, v : TaskDone(W, x, d, k, v)
  BY <1>1, FinalizeNodeSteps, FinalizeTaskSteps
<1>5. Finalizes(W, x)
  BY <1>4 DEF NodeDone, TaskDone
<1>6. ~Alone(x) => Places(x)
  <2> SUFFICES ASSUME ~Alone(x)
               PROVE  Places(x)
    OBVIOUS
  <2>1. ~Alone(W) /\ Places(W)
    BY <1>3, <1>5 DEF Ending, Alone, Finalizes
  <2>2. Len(W.drafts) > 1
    <3>1. DraftIds(W) = 1 .. Len(W.drafts) /\ Len(W.drafts) \in Nat
      BY <1>1, WorldParts DEF Sound, WorldOK, DraftIds
    <3> QED
      BY <1>1, <2>1, <3>1 DEF Alone, Root
  <2> QED
    BY <1>1, <1>4, <2>1, <2>2, NodePlaces, TaskPlaces
<1>7. Handled(x)
  BY <1>1, <1>3, <1>4, NodeHandled, TaskHandled DEF Ending
<1>8. ASSUME Alone(x), Node(x, Root).operated
      PROVE  Clean(x, Obj(Node(x, Root).copy))
  <2>1. /\ Alone(W) /\ Node(W, Root).operated
        /\ Node(x, Root).copy = Node(W, Root).copy
    BY <1>1, <1>5, <1>8 DEF Alone, Finalizes
  <2>2. Clean(W, Obj(Node(W, Root).copy))
    BY <1>3, <2>1 DEF Ending
  <2> QED
    BY <1>5, <2>1, <2>2, CleanStays
<1>9. Ending(x)
  BY <1>6, <1>7, <1>8 DEF Ending
<1>10. WorkedOff'
  <2>1. returned # <<>> => Clean(x, Head(returned))
    BY <1>3, <1>5, CleanStays
  <2>2. Ending(W)' /\ (returned' # <<>> => Clean(W', Head(returned')))
    BY <1>2, <1>4, <1>9, <2>1, NextParts
  <2> QED
    BY <2>2 DEF WorkedOff
<1>11. PatchesGrounded'
  <2>1. ASSUME FinalizeNode
        PROVE  Grounds(x, patches') /\ Grounds(x, inverse')
    BY <1>4, <1>5, <2>1, NodeGrounds
  <2>2. ASSUME FinalizeTask
        PROVE  Grounds(x, patches') /\ Grounds(x, inverse')
    <3>1. patches' = patches /\ inverse' = inverse
      BY <2>2 DEF FinalizeTask
    <3>2. \A batches : Grounds(W, batches) => Grounds(x, batches)
      BY <1>1, <1>5, GroundedStays DEF Grounds
    <3> QED
      BY <1>3, <3>1, <3>2
  <2>3. Grounds(x, patches') /\ Grounds(x, inverse')
    BY <2>1, <2>2
  <2>4. Grounds(W, patches)' /\ Grounds(W, inverse)'
    BY <1>2, <1>4, <2>3, NextParts
  <2>5. Node(W', Root).operated
    BY <1>1, <1>2, <1>4, <1>5 DEF Finalizes
  <2> QED
    BY <2>4, <2>5 DEF PatchesGrounded
<1> QED
  BY <1>2, <1>10, <1>11

\* With an empty list, no copy leads to a draft.
LEMMA CopiesClean ==
    ASSUME FInv, Ending(W), tasks = <<>>, Node(W, Root).operated
    PROVE  \E L \in SUBSET DOMAIN heap :
              /\ CleanSet(W, L)
              /\ \A d \in DraftIds(W) : Node(W, d).copy # Null => Node(W, d).copy \in L
<1>1. Sound(W) /\ BaseClosed /\ Root \in DraftIds(W) /\ W.tasks = <<>> /\ W.heap = heap
  BY FInvParts DEF W
<1>2. CASE Alone(W)
  <2>1. Node(W, Root).copy \in DOMAIN W.heap
    BY <1>1 DEF Sound, WorldOK, Marked
  <2>2. /\ IsObj(Obj(Node(W, Root).copy))
        /\ Obj(Node(W, Root).copy).id = Node(W, Root).copy
    BY <1>1, <2>1, ObjValue
  <2>3. Clean(W, Obj(Node(W, Root).copy))
    BY <1>2 DEF Ending
  <2> QED
    BY <1>1, <1>2, <2>2, <2>3 DEF Clean, Alone
<1>3. CASE ~Alone(W)
  <2>1. CleanSet(W, Known(W))
    BY <1>1, <1>3, KnownClean DEF Ending
  <2>2. \A d \in DraftIds(W) : Node(W, d).copy # Null => Node(W, d).copy \in Known(W)
    BY DEF Known
  <2> QED
    BY <1>1, <2>1, <2>2 DEF CleanSet
<1> QED
  BY <1>2, <1>3

\* Then what is grounded does not lead to one either.
LEMMA GroundedClean ==
    ASSUME FInv, Ending(W), tasks = <<>>, Node(W, Root).operated, NEW v, Grounded(W, v)
    PROVE  Clean(W, v)
<1>1. Sound(W) /\ BaseClosed /\ W.heap = heap
  BY FInvParts DEF W
<1>2. PICK L \in SUBSET DOMAIN heap :
              /\ CleanSet(W, L)
              /\ \A d \in DraftIds(W) : Node(W, d).copy # Null => Node(W, d).copy \in L
  BY CopiesClean
<1>3. v \in Value /\ ~IsDraft(v)
  BY DEF Grounded
<1>4. CASE IsObj(v) => v.id \in DOMAIN base
  BY <1>1, <1>3, <1>4, BaseClean
<1>5. ASSUME IsObj(v), NEW d \in DraftIds(W), NEW k \in Keys,
             Node(W, d).copy # Null, Copy(W, d).at[k] = v
      PROVE  Clean(W, v)
  <2>1. v.id \in L
    BY <1>2, <1>5 DEF CleanSet, Copy
  <2> QED
    BY <1>1, <1>2, <1>3, <2>1 DEF Clean
<1> QED
  BY <1>4, <1>5 DEF Grounded

\* create() returns.
LEMMA ReturnFinal ==
    ASSUME FInv, Return
    PROVE  WorkedOff' /\ AllClean' /\ phase' = "done"
<1>1. /\ IInv /\ Sound(W) /\ BaseClosed /\ Root \in DraftIds(W)
      /\ returned \in Seq(Value)
  BY FInvParts
<1>2. /\ phase = "finalizing" /\ phase' = "done" /\ W' = W /\ UNCHANGED <<base, returned>>
      /\ ~Finalizing
  BY OtherSteps DEF Return
<1>3. /\ Ending(W) /\ (returned # <<>> => Clean(W, Head(returned)))
      /\ Grounds(W, patches) /\ Grounds(W, inverse)
      /\ patches # <<>> \/ inverse # <<>> => Node(W, Root).operated
  BY <1>2 DEF FInv, WorkedOff, PatchesGrounded
<1>4. /\ Node(W, Root).original \in DOMAIN base
      /\ Node(W, Root).original \in DOMAIN W.heap
  BY <1>1 DEF Sound, Kept, WorldOK
<1>5. Clean(W, Obj(Node(W, Root).original))
  BY <1>1, <1>4, ObjValue, BaseClean
<1>6. WorkedOff'
  BY <1>2, <1>3, NextParts DEF WorkedOff, Clean, CleanSet
<1>7. ASSUME returned # <<>>
      PROVE  /\ Clean(W, result')
             /\ \A v : Lives(patches', v) \/ Lives(inverse', v) => Clean(W, v)
  <2>1. /\ result' = Head(returned)
        /\ patches' = <<{Patch("replace", <<>>, Live(Head(returned)))}>>
        /\ inverse' = <<{Patch("replace", <<>>, Live(Obj(Node(W, Root).original)))}>>
    BY <1>7 DEF Return
  <2>2. ASSUME NEW u, NEW v, Lives(<<{Patch("replace", <<>>, Live(u))}>>, v)
        PROVE  v = u
    BY <2>2 DEF Lives, Patch, Live
  <2> QED
    BY <1>3, <1>5, <1>7, <2>1, <2>2
<1>8. ASSUME returned = <<>>
      PROVE  /\ Clean(W, result')
             /\ \A v : Lives(patches', v) \/ Lives(inverse', v) => Clean(W, v)
  <2>1. result' = Final(W, Root) /\ patches' = patches /\ inverse' = inverse
    BY <1>8 DEF Return
  <2>2. CASE ~Node(W, Root).operated
    <3>1. patches = <<>> /\ inverse = <<>>
      BY <1>3, <2>2
    <3>2. result' = Obj(Node(W, Root).original)
      BY <2>1, <2>2 DEF Final
    <3> QED
      BY <1>5, <2>1, <3>1, <3>2 DEF Lives
  <2>3. CASE Node(W, Root).operated
    <3>1. tasks = <<>>
      BY <1>2, <2>3 DEF Finalizing
    <3>2. \A v : Lives(patches', v) \/ Lives(inverse', v) => Clean(W, v)
      BY <1>3, <2>1, <2>3, <3>1, GroundedClean DEF Grounds
    <3>3. PICK L \in SUBSET DOMAIN heap :
                  /\ CleanSet(W, L)
                  /\ \A d \in DraftIds(W) : Node(W, d).copy # Null => Node(W, d).copy \in L
      BY <1>3, <2>3, <3>1, CopiesClean
    <3>4. Node(W, Root).copy \in L /\ W.heap = heap
      BY <1>1, <2>3, <3>3 DEF Sound, Marked, W
    <3>5. result' = Obj(Node(W, Root).copy)
      BY <2>1, <2>3 DEF Final
    <3>6. Clean(W, Obj(Node(W, Root).copy))
      BY <1>1, <3>3, <3>4, ObjValue DEF Clean
    <3> QED
      BY <3>2, <3>5, <3>6
  <2> QED
    BY <2>2, <2>3
<1>9. AllClean'
  <2>1. /\ Clean(W', result')
        /\ \A v : Lives(patches', v) \/ Lives(inverse', v) => Clean(W', v)
    BY <1>2, <1>7, <1>8
  <2>2. \A v : Clean(W', v) <=> Clean(W, v)'
    BY DEF Clean, CleanSet
  <2> QED
    BY <2>1, <2>2 DEF AllClean, Lives
<1> QED
  BY <1>2, <1>6, <1>9

\* Every step keeps the invariant.
LEMMA NextFinal ==
    ASSUME FInv, [Next]_vars
    PROVE  FInv'
<1>1. SInv'
  BY NextShared DEF FInv
<1>2. CASE Recipe
  BY <1>1, <1>2, RecipeFinal DEF FInv, WorkedOff, PatchesGrounded, AllClean
<1>3. ASSUME NEW v \in ReturnValues, EndRecipe(v)
      PROVE  FInv'
  <2>1. v \in RecipeValues \cup {Undefined}
    BY DEF ReturnValues
  <2> QED
    BY <1>1, <1>3, <2>1, EndRecipeFinal DEF FInv, Prepared, AllClean
<1>4. CASE FinalizeNode \/ FinalizeTask
  BY <1>1, <1>4, FinalizationFinal DEF FInv, Prepared, AllClean
<1>5. CASE Return
  BY <1>1, <1>5, ReturnFinal DEF FInv, Prepared, PatchesGrounded
<1>6. CASE Fail
  <2>1. phase' = "failed"
    BY <1>6 DEF Fail
  <2> QED
    BY <1>1, <2>1 DEF FInv, Prepared, WorkedOff, PatchesGrounded, AllClean
<1>7. CASE UNCHANGED vars
  <2>1. /\ W' = W
        /\ UNCHANGED <<base, phase, returned, patches, inverse, result>>
    BY <1>7, OtherSteps DEF vars
  <2>2. Prepared' /\ PatchesGrounded'
    BY <2>1, NextParts DEF FInv, Prepared, PatchesGrounded
  <2>3. \A v : Clean(W, v) => Clean(W, v)'
    BY <2>1 DEF Clean, CleanSet
  <2>4. WorkedOff' /\ AllClean'
    BY <2>1, <2>3, NextParts DEF FInv, WorkedOff, AllClean, Lives
  <2> QED
    BY <1>1, <2>2, <2>4 DEF FInv
<1> QED
  BY <1>2, <1>3, <1>4, <1>5, <1>6, <1>7 DEF Next, Ended

-----------------------------------------------------------------------------
(***************************************************************************)
(* The theorems.                                                           *)
(***************************************************************************)

\* While the list is worked off, whatever is not final yet is in it; and once
\* create() has returned, nothing it handed out leads to a draft.
THEOREM FinalizationLeavesNoDraft == Spec => []FInv
<1>1. Init => FInv
  BY InitFinal
<1>2. FInv /\ [Next]_vars => FInv'
  BY NextFinal
<1> QED
  BY <1>1, <1>2, PTL DEF Spec

\* The state that create() returns leads to no draft, which would be a revoked
\* proxy by then.
THEOREM ReturnedStateHasNoDraft == Spec => []NoDraftReturned
<1>1. FInv => NoDraftReturned
  <2> SUFFICES ASSUME FInv, phase = "done", NEW u \in Reached(Store(W), result)
               PROVE  ~IsDraft(u)
    BY DEF NoDraftReturned
  <2>1. Sound(W) /\ Clean(W, result)
    BY FInvParts DEF FInv, AllClean
  <2> QED
    BY <2>1, CleanReached
<1> QED
  BY <1>1, FinalizationLeavesNoDraft, PTL

\* Nor does a patch, in either direction.
THEOREM PatchesLeadToNoDraft == Spec => []PatchesHoldNoDraft
<1>1. FInv => PatchesHoldNoDraft
  <2> SUFFICES ASSUME FInv, phase = "done", NEW batches \in {patches, inverse},
                      NEW i \in DOMAIN batches, NEW patch \in batches[i],
                      patch.value.tag = "live",
                      NEW u \in Reached(Store(W), patch.value.value)
               PROVE  ~IsDraft(u)
    BY DEF PatchesHoldNoDraft
  <2>1. Lives(batches, patch.value.value)
    BY DEF Lives
  <2>2. Sound(W) /\ Clean(W, patch.value.value)
    BY <2>1, FInvParts DEF FInv, AllClean
  <2> QED
    BY <2>2, CleanReached
<1> QED
  BY <1>1, FinalizationLeavesNoDraft, PTL

-----------------------------------------------------------------------------
(***************************************************************************)
(* The producer implements RecipeSpec.  In the recipe each step is one of  *)
(* the recipe's own objects, since no value refers to a copy: the copies   *)
(* behind the drafts can be left out of what is seen.  From then on values *)
(* only settle, and a draft and its final value have one tree.             *)
(***************************************************************************)

\* No object refers to the copy of a draft.
HidesCopies(w) ==
    \A a \in DOMAIN w.heap, k \in Keys, d \in DraftIds(w) :
        w.heap[a].at[k] # Obj(Node(w, d).copy)

\* Every draft but the root was read through an earlier one.
Rooted(w) ==
    \A d \in DraftIds(w) :
        IF d = Root THEN Node(w, d).parent = Null
        ELSE Node(w, d).parent \in DraftIds(w) /\ Node(w, d).parent < d

RInv == /\ SInv
        /\ Rooted(W)
        /\ phase = "recipe" => HidesCopies(W)

-----------------------------------------------------------------------------
(***************************************************************************)
(* The invariant.                                                          *)
(***************************************************************************)

\* A step that stores what the recipe holds, a draft, or what some object held,
\* leaves the copies hidden.
LEMMA CopiesStayHidden ==
    ASSUME IInv, HidesCopies(W), NEW x, Sound(x),
           \A a \in DOMAIN x.heap, k \in Keys :
              LET u == x.heap[a].at[k]
              IN  \/ IsDraft(u)
                  \/ u \in RecipeValues \cup {Absent}
                  \/ \E b \in DOMAIN W.heap : u = W.heap[b].at[k],
           \A e \in DraftIds(x) :
              \/ Node(x, e).copy \notin DOMAIN W.heap
              \/ e \in DraftIds(W) /\ Node(x, e).copy = Node(W, e).copy
    PROVE  HidesCopies(x)
<1> SUFFICES ASSUME NEW a \in DOMAIN x.heap, NEW k \in Keys, NEW e \in DraftIds(x),
                    x.heap[a].at[k] = Obj(Node(x, e).copy)
             PROVE  FALSE
  BY DEF HidesCopies
<1> DEFINE u == x.heap[a].at[k]
<1>1. ~IsDraft(u) /\ IsObj(u) /\ u.id = Node(x, e).copy
  BY DEF Obj, IsObj, IsDraft
<1>2. /\ ExistsIn(W, u)
      /\ \A d \in DraftIds(W) : u # Obj(Node(W, d).copy)
  <2>1. CASE u \in RecipeValues \cup {Absent}
    BY <2>1, RecipeHoldsNoCopy, RecipeValuesExist, AbsentExists
  <2>2. ASSUME NEW b \in DOMAIN W.heap, u = W.heap[b].at[k]
        PROVE  /\ ExistsIn(W, u)
               /\ \A d \in DraftIds(W) : u # Obj(Node(W, d).copy)
    BY <2>2, InvParts DEF HidesCopies, Sound, WorldOK
  <2> QED
    BY <1>1, <2>1, <2>2
<1>3. u.id \in DOMAIN W.heap
  BY <1>1, <1>2 DEF ExistsIn
<1> QED
  BY <1>1, <1>2, <1>3

\* The two kinds of steps that give a copy to a draft and write to it.
LEMMA CopyStaysHidden ==
    ASSUME IInv, HidesCopies(W), NEW x, Sound(x), NEW d \in DraftIds(W), NEW u,
           Extends(W, x), CopyOnly(W, x, d),
           \A e \in DraftIds(x) : e \in DraftIds(W) \/ Node(x, e).copy = Null,
           \A j \in Keys : Copy(x, d).at[j] = u \/ Copy(x, d).at[j] = Latest(W, d).at[j],
           IsDraft(u) \/ u \in RecipeValues \cup {Absent}
    PROVE  HidesCopies(x)
<1>1. LatestAddress(W, d) \in DOMAIN W.heap
  BY InvParts DEF Sound, WorldOK, LatestAddress
<1>2. ASSUME NEW a \in DOMAIN x.heap, NEW k \in Keys
      PROVE  LET v == x.heap[a].at[k]
             IN  \/ IsDraft(v)
                 \/ v \in RecipeValues \cup {Absent}
                 \/ \E b \in DOMAIN W.heap : v = W.heap[b].at[k]
  <2>1. CASE a = Node(x, d).copy
    BY <1>1, <2>1 DEF Copy, Latest
  <2>2. CASE a # Node(x, d).copy
    BY <2>2 DEF CopyOnly
  <2> QED
    BY <2>1, <2>2
<1>3. Null \notin DOMAIN W.heap
  BY InvParts, WorldParts DEF Sound, WorldOK, Null
<1>4. ASSUME NEW e \in DraftIds(x)
      PROVE  \/ Node(x, e).copy \notin DOMAIN W.heap
             \/ e \in DraftIds(W) /\ Node(x, e).copy = Node(W, e).copy
  BY <1>3 DEF CopyOnly, Extends
<1> HIDE DEF RecipeValues
<1> QED
  BY <1>2, <1>4, CopiesStayHidden

\* The root has no parent.
LEMMA InitRefines ==
    ASSUME Init
    PROVE  RInv
<1>1. /\ 1 \in DOMAIN base /\ W.heap = base /\ DraftIds(W) = {1}
      /\ Node(W, 1).copy = Null /\ Node(W, 1).parent = Null
  BY InitWorld
<1>2. SInv /\ Sound(W)
  BY InitShared, InvParts DEF SInv, UInv
<1>3. Rooted(W)
  BY <1>1 DEF Rooted, Root
<1>4. ASSUME NEW a \in DOMAIN W.heap, NEW k \in Keys PROVE W.heap[a].at[k] # Obj(Null)
  <2>1. ExistsIn(W, W.heap[a].at[k])
    BY <1>2 DEF Sound, WorldOK
  <2>2. 0 \notin DOMAIN base
    BY InitWorld
  <2> QED
    BY <1>1, <2>1, <2>2 DEF ExistsIn, Obj, IsObj, Null
<1>5. HidesCopies(W)
  BY <1>1, <1>4 DEF HidesCopies
<1> QED
  BY <1>2, <1>3, <1>5 DEF RInv

\* Parents stay, and a new draft comes last.
LEMMA RootedStays ==
    ASSUME NEW w, NEW x, Sound(w), Sound(x), Rooted(w),
           \A d \in DraftIds(w) : d \in DraftIds(x) /\ Node(x, d).parent = Node(w, d).parent,
           \A n \in DraftIds(x) \ DraftIds(w) : Node(x, n).parent \in DraftIds(w)
    PROVE  Rooted(x)
<1>1. /\ DraftIds(w) = 1 .. Len(w.drafts) /\ Len(w.drafts) \in Nat
      /\ DraftIds(x) = 1 .. Len(x.drafts) /\ Len(x.drafts) \in Nat
      /\ Root \in DraftIds(w)
  BY WorldParts DEF Sound, WorldOK, DraftIds
<1>2. ASSUME NEW n \in DraftIds(x) \ DraftIds(w), NEW p \in DraftIds(w) PROVE p < n
  BY <1>1
<1> QED
  BY <1>1, <1>2 DEF Rooted

\* A step of the recipe.
LEMMA RecipeRefines ==
    ASSUME RInv, Recipe
    PROVE  Rooted(W)' /\ HidesCopies(W)'
<1>1. IInv /\ Sound(W) /\ Rooted(W)
  BY InvParts DEF RInv, SInv, UInv
<1>2. /\ base' = base /\ phase = "recipe"
      /\ \E x : W' = x /\ (Assigns(x) \/ Reads(x) \/ Makes(x) \/ Mends(x))
  BY <1>1, RecipeSteps
<1>3. PICK x : W' = x /\ (Assigns(x) \/ Reads(x) \/ Makes(x) \/ Mends(x))
  BY <1>2
<1>4. Sound(x)
  <2>1. IInv'
    BY <1>1, NextKeeps DEF Next
  <2> QED
    BY <1>2, <1>3, <2>1, NextSound
<1>5. HidesCopies(W)
  BY <1>2 DEF RInv
<1>6. ASSUME Assigns(x) PROVE Rooted(x) /\ HidesCopies(x)
  <2>1. PICK d, K : \E v \in RecipeValues \cup {Absent} : Wrote(W, x, d, K, v)
    BY <1>6 DEF Assigns
  <2>2. PICK v \in RecipeValues \cup {Absent} : Wrote(W, x, d, K, v)
    BY <2>1
  <2>3. /\ d \in DraftIds(W) /\ Extends(W, x) /\ CopyOnly(W, x, d)
        /\ DraftIds(x) = DraftIds(W)
        /\ \A j \in Keys : Copy(x, d).at[j] = v \/ Copy(x, d).at[j] = Latest(W, d).at[j]
    BY <2>2 DEF Wrote
  <2> HIDE DEF RecipeValues
  <2>4. HidesCopies(x)
    BY <1>1, <1>4, <1>5, <2>2, <2>3, CopyStaysHidden
  <2>5. Rooted(x)
    BY <1>1, <1>4, <2>3, RootedStays DEF Extends
  <2> QED
    BY <2>4, <2>5
<1>7. ASSUME Reads(x) PROVE Rooted(x) /\ HidesCopies(x)
  <2>1. PICK d, k, n : Drafted(W, x, d, k, n)
    BY <1>7 DEF Reads
  <2>2. /\ d \in DraftIds(W) /\ Extends(W, x) /\ CopyOnly(W, x, d)
        /\ DraftIds(x) = DraftIds(W) \cup {n} /\ Node(x, n).parent = d
        /\ \A e \in DraftIds(x) : e \in DraftIds(W) \/ Node(x, e).copy = Null
        /\ \A j \in Keys : \/ Copy(x, d).at[j] = Draft(n)
                           \/ Copy(x, d).at[j] = Latest(W, d).at[j]
    BY <2>1 DEF Drafted
  <2>3. IsDraft(Draft(n))
    BY DEF IsDraft, Draft
  <2>4. HidesCopies(x)
    BY <1>1, <1>4, <1>5, <2>2, <2>3, CopyStaysHidden
  <2>5. Rooted(x)
    BY <1>1, <1>4, <2>2, RootedStays DEF Extends
  <2> QED
    BY <2>4, <2>5
<1>8. ASSUME Makes(x) \/ Mends(x) PROVE Rooted(x) /\ HidesCopies(x)
  <2>1. /\ x.drafts = W.drafts
        /\ \A a \in DOMAIN x.heap, k \in Keys :
              \/ x.heap[a].at[k] \in RecipeValues \cup {Absent}
              \/ a \in DOMAIN W.heap /\ x.heap[a].at[k] = W.heap[a].at[k]
    BY <1>8 DEF Makes, Made, Mends, Overwrote
  <2>2. DraftIds(x) = DraftIds(W) /\ \A e : Node(x, e) = Node(W, e)
    BY <2>1 DEF DraftIds, Node
  <2> HIDE DEF RecipeValues
  <2>3. HidesCopies(x)
    BY <1>1, <1>4, <1>5, <2>1, <2>2, CopiesStayHidden
  <2>4. Rooted(x)
    BY <1>1, <1>4, <2>2, RootedStays
  <2> QED
    BY <2>3, <2>4
<1>9. Rooted(x) /\ HidesCopies(x)
  BY <1>3, <1>6, <1>7, <1>8
<1> QED
  BY <1>3, <1>9

\* Every step keeps the invariant.
LEMMA NextRefines ==
    ASSUME RInv, [Next]_vars
    PROVE  RInv'
<1>1. SInv'
  BY NextShared DEF RInv
<1>2. IInv /\ Sound(W) /\ Rooted(W)
  BY InvParts DEF RInv, SInv, UInv
<1>3. CASE Recipe
  BY <1>1, <1>3, RecipeRefines DEF RInv
<1>4. CASE ~Recipe
  <2>1. PICK x : W' = x /\ Sound(x) /\ (Recipe \/ Finalizes(W, x))
    <3>1. CASE \E v \in ReturnValues : EndRecipe(v)
      BY <1>2, <3>1, EndRecipeSteps DEF ReturnValues, RecipeEnded
    <3>2. CASE FinalizeNode
      BY <1>2, <3>2, FinalizeNodeSteps DEF NodeDone
    <3>3. CASE FinalizeTask
      BY <1>2, <3>3, FinalizeTaskSteps DEF TaskDone
    <3>4. CASE Fail \/ Return \/ UNCHANGED vars
      BY <1>2, <3>4, OtherSteps DEF Finalizes, Settled
    <3> QED
      BY <1>4, <3>1, <3>2, <3>3, <3>4 DEF Next, Ended
  <2>2. Rooted(x)
    BY <1>2, <1>4, <2>1, RootedStays DEF Finalizes
  <2>3. phase' = "recipe" => W' = W /\ phase = "recipe"
    <3>1. CASE UNCHANGED vars
      BY <3>1, OtherSteps DEF vars
    <3>2. CASE Next
      BY <1>4, <3>2, OtherSteps
         DEF Next, Ended, EndRecipe, Fail, FinalizeNode, FinalizeTask, Finalizing, Return, vars
    <3> QED
      BY <3>1, <3>2
  <2>4. phase' = "recipe" => HidesCopies(W')
    BY <2>3 DEF RInv
  <2>5. Rooted(W)' /\ (phase' = "recipe" => HidesCopies(W)')
    BY <2>1, <2>2, <2>4
  <2> QED
    BY <1>1, <2>5 DEF RInv
<1> QED
  BY <1>3, <1>4

-----------------------------------------------------------------------------
(***************************************************************************)
(* What is seen.                                                           *)
(***************************************************************************)

CopiesOf(w) == {Node(w, d).copy : d \in DraftIds(w)}

\* What is seen is what the references but the copies lead to.
LEMMA SeenLeads ==
    ASSUME NEW w, Sound(w)
    PROVE  /\ Seen(w) = [v \in DOMAIN Seen(w) |-> Seen(w)[v]]
           /\ \A v \in DOMAIN Seen(w) :
                 /\ v \in DOMAIN Store(w) /\ Seen(w)[v] = Store(w)[v]
                 /\ Seen(w)[v] \in Object
                 /\ \/ \E d \in DraftIds(w) : v = Draft(d)
                    \/ \E a \in DOMAIN w.heap \ CopiesOf(w) : v = Obj(a)
           /\ \A d \in DraftIds(w) : /\ Draft(d) \in DOMAIN Seen(w)
                                     /\ Seen(w)[Draft(d)] = Latest(w, d)
           /\ \A a \in DOMAIN w.heap \ CopiesOf(w) : /\ Obj(a) \in DOMAIN Seen(w)
                                                     /\ Seen(w)[Obj(a)] = w.heap[a]
           /\ \A a \in CopiesOf(w) : Obj(a) \notin DOMAIN Seen(w)
<1> DEFINE store == Store(w)
           copies == {Obj(Node(w, d).copy) : d \in DraftIds(w)}
           S == DOMAIN store \ copies
<1>1. Seen(w) = [v \in S |-> store[v]]
  BY DEF Seen
<1>2. DOMAIN Seen(w) = S /\ \A v \in S : Seen(w)[v] = store[v]
  BY <1>1
<1>3. \A a : Obj(a) \in copies <=> a \in CopiesOf(w)
  BY DEF Obj, CopiesOf
<1>4. \A d : Draft(d) \notin copies
  BY DEF Draft, Obj
<1> HIDE DEF copies
<1>5. \A v \in S : \/ \E d \in DraftIds(w) : v = Draft(d)
                   \/ \E a \in DOMAIN w.heap \ CopiesOf(w) : v = Obj(a)
  BY <1>3, StoreLeads
<1>6. \A d \in DraftIds(w) : Draft(d) \in S /\ store[Draft(d)] = Latest(w, d)
  BY <1>4, StoreLeads
<1>7. \A a \in DOMAIN w.heap \ CopiesOf(w) : Obj(a) \in S /\ store[Obj(a)] = w.heap[a]
  BY <1>3, StoreLeads
<1>8. \A a \in CopiesOf(w) : Obj(a) \notin S
  BY <1>3
<1>9. \A a \in DOMAIN w.heap : w.heap[a] \in Object
  BY WorldParts DEF Sound, WorldOK
<1>10. \A d \in DraftIds(w) : LatestAddress(w, d) \in DOMAIN w.heap
  BY DEF Sound, WorldOK, LatestAddress
<1>11. \A v \in S : store[v] \in Object
  BY <1>5, <1>6, <1>7, <1>9, <1>10 DEF Latest
<1>12. \A v \in S : v \in DOMAIN store
  OBVIOUS
<1> HIDE DEF S, store
<1>13. Seen(w) = [v \in DOMAIN Seen(w) |-> Seen(w)[v]]
  BY <1>1
<1> QED
  BY <1>2, <1>5, <1>6, <1>7, <1>8, <1>11, <1>12, <1>13 DEF store

\* What is seen: the drafts, and the objects that are no copies.
LEMMA SeenDomain ==
    ASSUME NEW w, Sound(w)
    PROVE  DOMAIN Seen(w) = {Draft(d) : d \in DraftIds(w)}
                            \cup {Obj(a) : a \in DOMAIN w.heap \ CopiesOf(w)}
<1> DEFINE D == DOMAIN Seen(w)
           A == DOMAIN w.heap \ CopiesOf(w)
<1>1. /\ \A v \in D : (\E d \in DraftIds(w) : v = Draft(d)) \/ (\E a \in A : v = Obj(a))
      /\ \A d \in DraftIds(w) : Draft(d) \in D
      /\ \A a \in A : Obj(a) \in D
  BY SeenLeads
<1> HIDE DEF D, A
<1>2. D = {Draft(d) : d \in DraftIds(w)} \cup {Obj(a) : a \in A}
  BY <1>1
<1> QED
  BY <1>2 DEF D, A

\* While the copies are hidden, no path leads out of what is seen, and what is
\* seen has the tree that it has in the world.
LEMMA SeenTree ==
    ASSUME NEW w, Sound(w), HidesCopies(w), NEW v, Leads(Seen(w), v)
    PROVE  Closed(Seen(w)) /\ Tree(Seen(w), v) = View(w, v)
<1> DEFINE seen == Seen(w)
           store == Store(w)
           F == Walk(seen, v)
           G == Walk(store, v)
<1>1. \A u \in DOMAIN seen : u \in DOMAIN store /\ seen[u] = store[u]
  BY SeenLeads
<1>2. ASSUME NEW u \in DOMAIN seen, NEW k \in Keys
      PROVE  Leads(seen, seen[u].at[k])
  <2>1. seen[u].at[k] \in Value /\ ExistsIn(w, seen[u].at[k])
    BY <1>1, StoreLeads
  <2>2. \E a \in DOMAIN w.heap : seen[u].at[k] = w.heap[a].at[k]
    <3>1. \A d \in DraftIds(w) : LatestAddress(w, d) \in DOMAIN w.heap
      BY DEF Sound, WorldOK, LatestAddress
    <3> QED
      BY <3>1, SeenLeads DEF Latest
  <2>3. seen[u].at[k] = Obj(seen[u].at[k].id) => seen[u].at[k].id \notin CopiesOf(w)
    BY <2>2 DEF HidesCopies, CopiesOf
  <2> QED
    BY <2>1, <2>3, ValueLeads, SeenLeads DEF Leads, IsRef
<1>3. Closed(seen)
  BY <1>2 DEF Closed
<1>4. Closed(store) /\ Leads(store, v)
  BY <1>1, StoreLeads DEF Leads
<1>5. /\ F[<<>>] = v
      /\ \A p \in Paths : p # <<>> =>
            F[p] = IF IsRef(F[Front(p)]) THEN seen[F[Front(p)]].at[Last(p)] ELSE Absent
      /\ \A p \in Paths : Leads(seen, F[p])
  BY <1>3, WalkFinds
<1>6. /\ G[<<>>] = v
      /\ \A p \in Paths : p # <<>> =>
            G[p] = IF IsRef(G[Front(p)]) THEN store[G[Front(p)]].at[Last(p)] ELSE Absent
  BY <1>4, WalkFinds
<1> HIDE DEF F, G, seen, store
<1> DEFINE T == {p \in Paths : F[p] = G[p]}
<1>7. <<>> \in T
  BY <1>5, <1>6, EmptyPath
<1>8. ASSUME NEW p \in Paths, p # <<>>, Front(p) \in T PROVE p \in T
  <2>1. Front(p) \in Paths
    BY <1>8
  <2> QED
    BY <1>1, <1>5, <1>6, <1>8, <2>1 DEF Leads
<1> HIDE DEF T
<1>9. Paths \subseteq T
  BY <1>7, <1>8, PathInduction
<1>10. \A p \in Paths : ShapeOf(seen, F[p]) = ShapeOf(store, G[p])
  BY <1>1, <1>5, <1>9 DEF T, ShapeOf, Leads
<1> QED
  BY <1>3, <1>10 DEF Tree, View, F, G, seen, store

-----------------------------------------------------------------------------
(***************************************************************************)
(* The finalization keeps trees.                                           *)
(***************************************************************************)

\* Equal, or a draft and its final value.
Turned(w, u, v) == u = v \/ (IsDraft(u) /\ v = Final(w, u.id))

\* Such references lead to objects that hold such values.
LEMMA TurnedBelow ==
    ASSUME NEW w, NEW x, Sound(w), Sound(x), BaseClosed, Lazy(w),
           Finalizes(w, x), Finishes(w, x),
           NEW u \in DOMAIN Store(w), NEW v, Turned(w, u, v)
    PROVE  /\ v \in DOMAIN Store(x) /\ IsRef(v)
           /\ Store(w)[u].type = Store(x)[v].type
           /\ \A k \in Keys : Turned(w, Store(w)[u].at[k], Store(x)[v].at[k])
<1>1. /\ DraftIds(x) = DraftIds(w) /\ DOMAIN x.heap = DOMAIN w.heap
      /\ \A d \in DraftIds(w) : LatestAddress(x, d) = LatestAddress(w, d)
  BY DEF Finalizes, LatestAddress
<1>2. ASSUME NEW a \in DOMAIN w.heap
      PROVE  /\ w.heap[a].type = x.heap[a].type
             /\ \A k \in Keys : Turned(w, w.heap[a].at[k], x.heap[a].at[k])
  BY DEF Finalizes, Finishes, Turned
<1>3. ASSUME NEW a \in DOMAIN w.heap, u = Obj(a)
      PROVE  /\ v \in DOMAIN Store(x) /\ IsRef(v)
             /\ Store(w)[u].type = Store(x)[v].type
             /\ \A k \in Keys : Turned(w, Store(w)[u].at[k], Store(x)[v].at[k])
  <2>1. v = u
    BY <1>3, StoreLeads DEF Turned
  <2> QED
    BY <1>1, <1>2, <1>3, <2>1, StoreLeads
<1>4. ASSUME NEW d \in DraftIds(w), u = Draft(d)
      PROVE  /\ v \in DOMAIN Store(x) /\ IsRef(v)
             /\ Store(w)[u].type = Store(x)[v].type
             /\ \A k \in Keys : Turned(w, Store(w)[u].at[k], Store(x)[v].at[k])
  <2>1. /\ LatestAddress(w, d) \in DOMAIN w.heap
        /\ Store(w)[u] = w.heap[LatestAddress(w, d)]
    BY <1>4, StoreLeads DEF Sound, WorldOK, LatestAddress, Latest
  <2>2. CASE v = u
    <3>1. /\ v \in DOMAIN Store(x) /\ IsRef(v)
          /\ Store(x)[v] = x.heap[LatestAddress(w, d)]
      BY <1>1, <1>4, <2>2, StoreLeads DEF Latest
    <3> QED
      BY <1>2, <2>1, <3>1
  <2>3. CASE v # u /\ Node(w, d).operated
    <3>1. v = Obj(Node(w, d).copy) /\ LatestAddress(w, d) = Node(w, d).copy
      BY <1>4, <2>3, StoreLeads DEF Turned, Final, Sound, Marked, LatestAddress
    <3>2. /\ v \in DOMAIN Store(x) /\ IsRef(v)
          /\ Store(x)[v] = x.heap[LatestAddress(w, d)]
      BY <1>1, <2>1, <3>1, StoreLeads
    <3> QED
      BY <1>2, <2>1, <3>2
  <2>4. CASE v # u /\ ~Node(w, d).operated
    <3> DEFINE o == Node(w, d).original
    <3>1. v = Obj(o)
      BY <1>4, <2>4, StoreLeads DEF Turned, Final
    <3>2. /\ o \in DOMAIN w.heap /\ x.heap[o] = w.heap[o]
          /\ Original(w, d) = w.heap[o]
      BY DEF Sound, Kept, WorldOK, Original
    <3>3. v \in DOMAIN Store(x) /\ IsRef(v) /\ Store(x)[v] = Original(w, d)
      BY <1>1, <3>1, <3>2, StoreLeads
    <3>4. Store(w)[Obj(o)] = Original(w, d)
      BY <3>2, StoreLeads
    <3>5. /\ Store(w)[u].type = Original(w, d).type
          /\ \A k \in Keys : Stands(w, Store(w)[u].at[k], Original(w, d).at[k])
      BY <1>4, <2>4, <3>4, StandsBelow
    <3>6. \A t, s : Stands(w, t, s) => Turned(w, t, s)
      BY StoreLeads DEF Stands, Turned, Final
    <3> QED
      BY <3>3, <3>5, <3>6
  <2> QED
    BY <2>2, <2>3, <2>4
<1> QED
  BY <1>3, <1>4, StoreLeads

\* So they have one tree, before the step and after it.
LEMMA TurnedTree ==
    ASSUME NEW w, NEW x, Sound(w), Sound(x), BaseClosed, Lazy(w),
           Finalizes(w, x), Finishes(w, x),
           NEW u, Leads(Store(w), u), NEW v, Turned(w, u, v), IsRef(v) => IsRef(u)
    PROVE  View(w, u) = View(x, v)
<1> DEFINE before == Store(w)
           after == Store(x)
           F == Walk(before, u)
           G == Walk(after, v)
           T == {p \in Paths : Turned(w, F[p], G[p])}
<1>1. Closed(before) /\ Closed(after)
  BY StoreLeads
<1>2. \A s, t : s \in DOMAIN before /\ Turned(w, s, t) =>
         /\ t \in DOMAIN after /\ IsRef(t)
         /\ before[s].type = after[t].type
         /\ \A k \in Keys : Turned(w, before[s].at[k], after[t].at[k])
  BY TurnedBelow
<1>3. \A s, t : Leads(before, s) /\ Turned(w, s, t) =>
         /\ IsRef(s) <=> IsRef(t)
         /\ ~IsRef(s) => s = t
  BY <1>2 DEF Leads, Turned, IsRef
<1>4. Leads(after, v)
  BY <1>2, <1>3 DEF Leads
<1>5. /\ F[<<>>] = u
      /\ \A p \in Paths : p # <<>> =>
            F[p] = IF IsRef(F[Front(p)]) THEN before[F[Front(p)]].at[Last(p)] ELSE Absent
      /\ \A p \in Paths : Leads(before, F[p])
  BY <1>1, WalkFinds
<1>6. /\ G[<<>>] = v
      /\ \A p \in Paths : p # <<>> =>
            G[p] = IF IsRef(G[Front(p)]) THEN after[G[Front(p)]].at[Last(p)] ELSE Absent
  BY <1>1, <1>4, WalkFinds
<1> HIDE DEF F, G, before, after
<1>7. <<>> \in T
  BY <1>5, <1>6, EmptyPath
<1>8. ASSUME NEW p \in Paths, p # <<>>, Front(p) \in T PROVE p \in T
  <2>1. /\ Front(p) \in Paths /\ Last(p) \in Keys
        /\ Turned(w, F[Front(p)], G[Front(p)]) /\ Leads(before, F[Front(p)])
    BY <1>5, <1>8, FrontPath
  <2>2. CASE IsRef(F[Front(p)])
    BY <1>2, <1>5, <1>6, <1>8, <2>1, <2>2 DEF Leads
  <2>3. CASE ~IsRef(F[Front(p)])
    BY <1>3, <1>5, <1>6, <1>8, <2>1, <2>3 DEF Turned
  <2> QED
    BY <2>2, <2>3
<1> HIDE DEF T
<1>9. Paths \subseteq T
  BY <1>7, <1>8, PathInduction
<1>10. ASSUME NEW p \in Paths PROVE ShapeOf(before, F[p]) = ShapeOf(after, G[p])
  <2>1. Turned(w, F[p], G[p]) /\ Leads(before, F[p])
    BY <1>5, <1>9 DEF T
  <2> QED
    BY <1>2, <1>3, <2>1 DEF ShapeOf, Leads
<1> QED
  BY <1>10 DEF Tree, View, F, G, before, after

-----------------------------------------------------------------------------
(***************************************************************************)
(* The recipe's steps change what is seen as RecipeSpec allows.            *)
(***************************************************************************)

\* The data of RecipeSpec is that of the producer.
LEMMA SameValues ==
    /\ Abstract!PrimValues = PrimValues
    /\ Abstract!Absent = Absent
    /\ \A v : Abstract!IsRef(v) <=> IsRef(v)
    /\ \A d : Abstract!Draft(d) = Draft(d)
    /\ \A a : Abstract!Obj(a) = Obj(a)
    /\ \A type : Abstract!Empty(type) = Empty(type)
BY DEF Abstract!PrimValues, PrimValues, Abstract!Prim, Prim, Abstract!Absent, Absent,
       Abstract!IsRef, IsRef, Abstract!IsDraft, IsDraft, Abstract!IsObj, IsObj,
       Abstract!Draft, Draft, Abstract!Obj, Obj, Abstract!Empty, Empty

\* RecipeSpec has the same paths, ...
LEMMA SamePaths ==
    /\ Abstract!Paths = Paths
    /\ \A p : Abstract!Front(p) = Front(p) /\ Abstract!Last(p) = Last(p)
BY DEF Abstract!Paths, Paths, Abstract!BoundedSeq, BoundedSeq, Abstract!SeqOf, SeqOf,
       Abstract!Front, Front, Abstract!Last, Last

\* ... and the same trees.
LEMMA SameTree ==
    ASSUME NEW store, NEW v
    PROVE  Abstract!Tree(store, v) = Tree(store, v)
<1>1. Abstract!Walk(store, v) = Walk(store, v)
  BY SameValues, SamePaths DEF Abstract!Walk, Walk
<1>2. \A u : Abstract!ShapeOf(store, u) = ShapeOf(store, u)
  BY SameValues DEF Abstract!ShapeOf, ShapeOf
<1>3. Abstract!Tree(store, v) = [p \in Paths |-> ShapeOf(store, Walk(store, v)[p])]
  BY <1>1, <1>2, SamePaths DEF Abstract!Tree
<1> QED
  BY <1>3 DEF Tree

\* An object is its type and what it holds at each key.
LEMMA SameObject ==
    ASSUME NEW o \in Object, NEW p \in Object, o.type = p.type,
           \A k \in Keys : o.at[k] = p.at[k]
    PROVE  o = p
<1>1. /\ o = [type |-> o.type, at |-> o.at] /\ p = [type |-> p.type, at |-> p.at]
      /\ o.at \in [Keys -> Value] /\ p.at \in [Keys -> Value]
  BY DEF Object
<1>2. o.at = p.at
  BY <1>1
<1> QED
  BY <1>1, <1>2

\* An object that differs from another at one key.
LEMMA ChangedObject ==
    ASSUME NEW o \in Object, NEW p \in Object, o.type = p.type, NEW k \in Keys,
           \A j \in Keys \ {k} : o.at[j] = p.at[j]
    PROVE  p = [o EXCEPT !.at[k] = p.at[k]]
<1> DEFINE q == [o EXCEPT !.at[k] = p.at[k]]
<1>1. /\ o.at \in [Keys -> Value] /\ p.at \in [Keys -> Value] /\ o.type \in ObjectTypes
      /\ o = [type |-> o.type, at |-> o.at]
  BY DEF Object
<1>2. /\ q = [type |-> o.type, at |-> [o.at EXCEPT ![k] = p.at[k]]]
      /\ [o.at EXCEPT ![k] = p.at[k]] \in [Keys -> Value]
  BY <1>1
<1>3. /\ q \in Object /\ q.type = o.type
      /\ \A j \in Keys : q.at[j] = IF j = k THEN p.at[k] ELSE o.at[j]
  BY <1>1, <1>2 DEF Object
<1> HIDE DEF q
<1>4. p = q
  BY <1>3, SameObject
<1> QED
  BY <1>4 DEF q

\* Stores are equal that lead to the same objects.
LEMMA SameStore ==
    ASSUME NEW f, NEW g, f = [v \in DOMAIN f |-> f[v]], g = [v \in DOMAIN g |-> g[v]],
           DOMAIN f = DOMAIN g, \A v \in DOMAIN f : f[v] = g[v]
    PROVE  f = g
OBVIOUS

\* A step that writes only to the copy of one draft: what is seen of it is that
\* draft, and the new drafts.
LEMMA CopyOnlySeen ==
    ASSUME NEW w, NEW x, Sound(w), Sound(x), Apart(w), NEW d \in DraftIds(w),
           Extends(w, x), CopyOnly(w, x, d),
           \A e \in DraftIds(x) : e \in DraftIds(w) \/ Node(x, e).copy = Null
    PROVE  /\ \A r : r \in DOMAIN Seen(x) <=>
                        \/ r \in DOMAIN Seen(w)
                        \/ \E n \in DraftIds(x) \ DraftIds(w) : r = Draft(n)
           /\ \A r \in DOMAIN Seen(w) : r # Draft(d) => Seen(x)[r] = Seen(w)[r]
           /\ Seen(w)[Draft(d)] = Latest(w, d) /\ Seen(x)[Draft(d)] = Copy(x, d)
<1>1. Null \notin DOMAIN w.heap
  BY WorldParts DEF Sound, WorldOK, Null
<1>2. ASSUME NEW e \in DraftIds(w)
      PROVE  /\ e \in DraftIds(x)
             /\ Node(w, e).copy # Null => Node(x, e).copy = Node(w, e).copy
  BY DEF Extends
<1>3. DOMAIN x.heap \ CopiesOf(x) = DOMAIN w.heap \ CopiesOf(w)
  <2>1. ASSUME NEW a \in DOMAIN x.heap \ CopiesOf(x) PROVE a \in DOMAIN w.heap \ CopiesOf(w)
    <3>1. a # Node(x, d).copy
      BY <1>2 DEF CopiesOf
    <3>2. a \in DOMAIN w.heap
      BY <3>1 DEF CopyOnly
    <3> QED
      BY <1>1, <1>2, <3>2 DEF CopiesOf
  <2>2. ASSUME NEW a \in DOMAIN w.heap \ CopiesOf(w) PROVE a \in DOMAIN x.heap \ CopiesOf(x)
    <3>1. a \in DOMAIN x.heap
      BY DEF CopyOnly
    <3>2. ASSUME NEW e \in DraftIds(x) PROVE a # Node(x, e).copy
      <4>1. CASE e \notin DraftIds(w)
        BY <1>1, <4>1
      <4>2. CASE e \in DraftIds(w)
        BY <1>2, <4>2 DEF CopiesOf, CopyOnly
      <4> QED
        BY <4>1, <4>2
    <3> QED
      BY <3>1, <3>2 DEF CopiesOf
  <2> QED
    BY <2>1, <2>2
<1>4. DOMAIN Seen(w) = {Draft(e) : e \in DraftIds(w)} \cup {Obj(a) : a \in DOMAIN w.heap \ CopiesOf(w)}
  BY SeenDomain
<1>5. DOMAIN Seen(x) = {Draft(e) : e \in DraftIds(x)} \cup {Obj(a) : a \in DOMAIN x.heap \ CopiesOf(x)}
  BY SeenDomain
<1>6. \A r : r \in DOMAIN Seen(x) <=>
               \/ r \in DOMAIN Seen(w)
               \/ \E n \in DraftIds(x) \ DraftIds(w) : r = Draft(n)
  BY <1>2, <1>3, <1>4, <1>5
<1>7. ASSUME NEW a \in DOMAIN w.heap \ CopiesOf(w)
      PROVE  Seen(x)[Obj(a)] = Seen(w)[Obj(a)]
  <2>1. a # Node(x, d).copy
    BY <1>2, <1>3 DEF CopiesOf
  <2> QED
    BY <1>3, <2>1, SeenLeads DEF CopyOnly
<1>8. ASSUME NEW e \in DraftIds(w), e # d
      PROVE  Seen(x)[Draft(e)] = Seen(w)[Draft(e)]
  <2>1. Latest(x, e) = Latest(w, e)
    <3>1. CASE Node(w, e).copy = Null
      <4>1. Node(x, e).copy = Null /\ Original(x, e) = Original(w, e)
        BY <1>2, <1>8, <3>1, OriginalStays DEF CopyOnly, Extends
      <4> QED
        BY <3>1, <4>1 DEF Latest, LatestAddress, Original
    <3>2. CASE Node(w, e).copy # Null
      <4>1. Node(x, e).copy = Node(w, e).copy /\ Copy(x, e) = Copy(w, e)
        BY <1>2, <1>8, <3>2, OtherCopies
      <4> QED
        BY <3>2, <4>1 DEF Latest, LatestAddress, Copy
    <3> QED
      BY <3>1, <3>2
  <2> QED
    BY <1>2, <2>1, SeenLeads
<1>9. Latest(x, d) = Copy(x, d)
  BY DEF CopyOnly, Latest, LatestAddress, Copy
<1>10. Seen(w)[Draft(d)] = Latest(w, d) /\ Seen(x)[Draft(d)] = Copy(x, d)
  BY <1>2, <1>9, SeenLeads
<1> QED
  BY <1>4, <1>6, <1>7, <1>8, <1>10

\* The objects of the base are seen, and are not the recipe's own.
LEMMA GivenSeen ==
    ASSUME NEW w, Sound(w)
    PROVE  /\ \A a \in DOMAIN base : /\ Obj(a) \in Given /\ Obj(a) \in DOMAIN Seen(w)
                                     /\ Seen(w)[Obj(a)] = base[a]
           /\ \A a : Obj(a) \in Given => a \in DOMAIN base
           /\ \A d : Draft(d) \notin Given
<1>1. \A a \in DOMAIN base : a \in DOMAIN w.heap \ CopiesOf(w) /\ w.heap[a] = base[a]
  BY DEF Sound, Kept, CopiesOf
<1>2. \A a \in DOMAIN base : Obj(a) \in DOMAIN Seen(w) /\ Seen(w)[Obj(a)] = base[a]
  BY <1>1, SeenLeads
<1>3. /\ \A a : Obj(a) \in Given <=> a \in DOMAIN base
      /\ \A d : Draft(d) \notin Given
  BY DEF Given, Obj, Draft
<1> QED
  BY <1>2, <1>3

\* The recipe stores what it sees.
LEMMA RecipeValuesSeen ==
    ASSUME IInv, NEW v \in RecipeValues \cup {Absent}
    PROVE  v \in Abstract!Storable(Seen(W))
<1>1. Sound(W) /\ DraftIds(W) = DOMAIN drafts
  BY InvParts
<1>2. ASSUME NEW d \in DOMAIN drafts, v = Draft(d) PROVE v \in DOMAIN Seen(W)
  BY <1>1, <1>2, SeenLeads
<1>3. ASSUME NEW a \in DOMAIN base \cup Fresh(W), v = Obj(a), v \in RecipeValues
      PROVE  v \in DOMAIN Seen(W)
  <2>1. IsObj(v) /\ v.id = a
    BY <1>3 DEF Obj, IsObj
  <2>2. a \in DOMAIN W.heap
    BY <1>3, <2>1, RecipeValuesExist DEF ExistsIn
  <2>3. a \notin CopiesOf(W)
    BY <1>3, RecipeHoldsNoCopy DEF CopiesOf
  <2> QED
    BY <1>1, <1>3, <2>2, <2>3, SeenLeads
<1>4. \/ v \in PrimValues \/ v = Absent
      \/ \E d \in DOMAIN drafts : v = Draft(d)
      \/ v \in RecipeValues /\ \E a \in DOMAIN base \cup Fresh(W) : v = Obj(a)
  BY DEF RecipeValues
<1> QED
  BY <1>2, <1>3, <1>4, SameValues DEF Abstract!Storable

\* An assignment, a deletion, or the clearing of a Map.
LEMMA AssignsChange ==
    ASSUME IInv, Apart(W), NEW x, Sound(x), Assigns(x)
    PROVE  Abstract!Write(Seen(W), Seen(x)) \/ Abstract!Clear(Seen(W), Seen(x))
<1> DEFINE old == Seen(W)
           new == Seen(x)
<1>1. PICK d, K : \E v \in RecipeValues \cup {Absent} : Wrote(W, x, d, K, v)
  BY DEF Assigns
<1>2. PICK v \in RecipeValues \cup {Absent} : Wrote(W, x, d, K, v)
  BY <1>1
<1>3. Sound(W)
  BY InvParts
<1>4. /\ d \in DraftIds(W) /\ Extends(W, x) /\ CopyOnly(W, x, d) /\ DraftIds(x) = DraftIds(W)
  BY <1>2 DEF Wrote
<1>5. /\ DOMAIN new = DOMAIN old
      /\ \A r \in DOMAIN old : r # Draft(d) => new[r] = old[r]
      /\ old[Draft(d)] = Latest(W, d) /\ new[Draft(d)] = Copy(x, d)
      /\ Draft(d) \in DOMAIN old
  BY <1>3, <1>4, CopyOnlySeen, SeenLeads
<1>6. /\ old = [u \in DOMAIN old |-> old[u]] /\ new = [u \in DOMAIN new |-> new[u]]
      /\ old[Draft(d)] \in Object /\ new[Draft(d)] \in Object
  BY <1>3, <1>5, SeenLeads
<1>7. Draft(d) \in Abstract!Own(old)
  BY <1>3, <1>5, GivenSeen DEF Abstract!Own
<1>8. v \in Abstract!Storable(old)
  BY RecipeValuesSeen
<1>9. /\ \A j \in Keys : Copy(x, d).at[j] = IF j \in K THEN v ELSE Latest(W, d).at[j]
      /\ K \subseteq Keys
      /\ \/ Copy(x, d).type = Latest(W, d).type /\ \E k : K = {k}
         \/ Copy(x, d).type = "map" /\ K = Keys /\ v = Absent
  BY <1>2 DEF Wrote
<1> HIDE DEF old, new
<1>10. ASSUME NEW k, K = {k}, Copy(x, d).type = Latest(W, d).type
       PROVE  Abstract!Write(old, new)
  <2>1. k \in Keys /\ new[Draft(d)].at[k] = v
    BY <1>5, <1>9, <1>10
  <2>2. new[Draft(d)] = [old[Draft(d)] EXCEPT !.at[k] = new[Draft(d)].at[k]]
    BY <1>5, <1>6, <1>9, <1>10, <2>1, ChangedObject
  <2> DEFINE y == [old EXCEPT ![Draft(d)].at[k] = new[Draft(d)].at[k]]
  <2>3. /\ y = [u \in DOMAIN old |-> y[u]]
        /\ y[Draft(d)] = [old[Draft(d)] EXCEPT !.at[k] = new[Draft(d)].at[k]]
        /\ \A u \in DOMAIN old : u # Draft(d) => y[u] = old[u]
    BY <1>5
  <2> HIDE DEF y
  <2>4. DOMAIN y = DOMAIN old
    BY <2>3
  <2>5. new = y
    BY <1>5, <1>6, <2>2, <2>3, <2>4, SameStore
  <2> QED
    BY <1>5, <1>7, <1>8, <2>1, <2>5 DEF Abstract!Write, y
<1>11. ASSUME Copy(x, d).type = "map", K = Keys, v = Absent
       PROVE  Abstract!Clear(old, new)
  <2>1. /\ Empty("map") \in Object /\ Empty("map").type = "map"
        /\ \A j \in Keys : Empty("map").at[j] = Absent
    BY AbsentExists DEF Empty, Object, ObjectTypes
  <2>2. new[Draft(d)] = Empty("map")
    BY <1>5, <1>6, <1>9, <1>11, <2>1, SameObject
  <2> DEFINE y == [old EXCEPT ![Draft(d)] = Empty("map")]
  <2>3. /\ y = [u \in DOMAIN old |-> y[u]]
        /\ y[Draft(d)] = Empty("map")
        /\ \A u \in DOMAIN old : u # Draft(d) => y[u] = old[u]
    BY <1>5
  <2> HIDE DEF y
  <2>4. DOMAIN y = DOMAIN old
    BY <2>3
  <2>5. new = y
    BY <1>5, <1>6, <2>2, <2>3, <2>4, SameStore
  <2> QED
    BY <1>7, <2>5, SameValues DEF Abstract!Clear, y
<1> QED
  BY <1>9, <1>10, <1>11 DEF old, new

\* A read that drafts an object of the base.
LEMMA ReadsChange ==
    ASSUME IInv, Apart(W), NEW x, Sound(x), Reads(x)
    PROVE  Abstract!Open(Seen(W), Seen(x))
<1> DEFINE old == Seen(W)
           new == Seen(x)
<1>1. PICK d, k, n : Drafted(W, x, d, k, n)
  BY DEF Reads
<1>2. Sound(W) /\ BaseClosed
  BY InvParts
<1>3. /\ d \in DraftIds(W) /\ k \in Keys /\ Extends(W, x) /\ CopyOnly(W, x, d)
      /\ n \notin DraftIds(W) /\ DraftIds(x) = DraftIds(W) \cup {n}
      /\ \A e \in DraftIds(x) : e \in DraftIds(W) \/ Node(x, e).copy = Null
      /\ Latest(W, d).at[k] = Obj(Node(x, n).original)
      /\ Copy(x, d).type = Latest(W, d).type
      /\ \A j \in Keys : Copy(x, d).at[j] = IF j = k THEN Draft(n) ELSE Latest(W, d).at[j]
      /\ Node(x, n).copy = Null
  BY <1>1 DEF Drafted
<1>4. \A r : (\E e \in DraftIds(x) \ DraftIds(W) : r = Draft(e)) <=> r = Draft(n)
  BY <1>3
<1>5. /\ DOMAIN new = DOMAIN old \cup {Draft(n)}
      /\ \A r \in DOMAIN old : r # Draft(d) => new[r] = old[r]
      /\ old[Draft(d)] = Latest(W, d) /\ new[Draft(d)] = Copy(x, d)
      /\ Draft(d) \in DOMAIN old
  <2>1. /\ \A r : r \in DOMAIN new <=>
                    \/ r \in DOMAIN old
                    \/ \E e \in DraftIds(x) \ DraftIds(W) : r = Draft(e)
        /\ \A r \in DOMAIN old : r # Draft(d) => new[r] = old[r]
        /\ old[Draft(d)] = Latest(W, d) /\ new[Draft(d)] = Copy(x, d)
    BY <1>2, <1>3, CopyOnlySeen
  <2>2. Draft(d) \in DOMAIN old
    BY <1>2, <1>3, SeenLeads
  <2> HIDE DEF old, new
  <2>3. DOMAIN new = DOMAIN old \cup {Draft(n)}
    BY <1>4, <2>1
  <2> QED
    BY <2>1, <2>2, <2>3
<1>6. /\ old = [u \in DOMAIN old |-> old[u]] /\ new = [u \in DOMAIN new |-> new[u]]
      /\ old[Draft(d)] \in Object /\ new[Draft(d)] \in Object
  BY <1>2, <1>5, SeenLeads
<1>7. Draft(d) \in Abstract!Own(old)
  BY <1>2, <1>5, GivenSeen DEF Abstract!Own
<1> DEFINE o == Node(x, n).original
<1>8. /\ o \in DOMAIN base /\ x.heap[o] = base[o]
      /\ new[Draft(n)] = Latest(x, n) /\ Latest(x, n) = x.heap[o]
  BY <1>3, SeenLeads DEF Sound, Kept, Latest, LatestAddress
<1>9. old[Draft(d)].at[k] = Obj(o) /\ Obj(o) \in Given /\ old[Obj(o)] = base[o]
  BY <1>2, <1>3, <1>5, <1>8, GivenSeen
<1>10. Draft(n) \notin DOMAIN old
  <2>1. \A e : Draft(n) = Draft(e) => n = e
    BY DEF Draft
  <2>2. \A a : Draft(n) # Obj(a)
    BY DEF Draft, Obj
  <2> QED
    BY <1>2, <1>3, <2>1, <2>2, SeenLeads
<1>11. Draft(d) # Draft(n)
  BY <1>5, <1>10
<1> HIDE DEF old, new, o
<1> DEFINE y == [old EXCEPT ![Draft(d)].at[k] = Draft(n)]
           copied == old[old[Draft(d)].at[k]]
           z == Abstract!With(y, Draft(n), copied)
<1>12. new[Draft(d)] = [old[Draft(d)] EXCEPT !.at[k] = Draft(n)]
  <2>1. new[Draft(d)].at[k] = Draft(n)
    BY <1>3, <1>5
  <2>2. new[Draft(d)] = [old[Draft(d)] EXCEPT !.at[k] = new[Draft(d)].at[k]]
    BY <1>3, <1>5, <1>6, ChangedObject
  <2> QED
    BY <2>1, <2>2
<1>13. /\ y = [u \in DOMAIN old |-> y[u]]
       /\ y[Draft(d)] = [old[Draft(d)] EXCEPT !.at[k] = Draft(n)]
       /\ \A u \in DOMAIN old : u # Draft(d) => y[u] = old[u]
  BY <1>5
<1> HIDE DEF y
<1>14. DOMAIN y = DOMAIN old
  BY <1>13
<1> HIDE DEF copied
<1>15. /\ z = [u \in DOMAIN z |-> z[u]]
       /\ DOMAIN z = DOMAIN y \cup {Draft(n)}
       /\ z[Draft(n)] = copied
       /\ \A v \in DOMAIN y : v # Draft(n) => z[v] = y[v]
  <2> DEFINE r == Draft(n)
  <2>1. z = Abstract!With(y, r, copied)
    OBVIOUS
  <2> HIDE DEF r, z
  <2>2. z = [v \in DOMAIN y \cup {r} |-> IF v = r THEN copied ELSE y[v]]
    BY <2>1 DEF Abstract!With
  <2> QED
    BY <2>2 DEF r
<1> HIDE DEF z
<1>16. \A u \in DOMAIN new : new[u] = z[u]
  <2>1. new[Draft(n)] = z[Draft(n)]
    BY <1>8, <1>9, <1>15 DEF copied
  <2>2. new[Draft(d)] = z[Draft(d)]
    BY <1>5, <1>11, <1>12, <1>13, <1>14, <1>15
  <2>3. ASSUME NEW u \in DOMAIN old, u # Draft(d) PROVE new[u] = z[u]
    BY <1>5, <1>10, <1>13, <1>14, <1>15, <2>3
  <2> QED
    BY <1>5, <2>1, <2>2, <2>3
<1>17. new = z
  BY <1>5, <1>6, <1>14, <1>15, <1>16, SameStore
<1>18. /\ Draft(n) \in DOMAIN new \ DOMAIN old
       /\ old[Draft(d)].at[k] \in Given
  BY <1>5, <1>9, <1>10
<1>19. Abstract!Open(old, new)
  BY <1>3, <1>7, <1>17, <1>18 DEF Abstract!Open, y, z, copied
<1> QED
  BY <1>19 DEF old, new

\* What is not a copy, and not a new object, is seen as before if no draft turned
\* to another object.
LEMMA SameSeen ==
    ASSUME NEW w, NEW x, Sound(w), Sound(x), x.drafts = w.drafts,
           \A a \in DOMAIN w.heap : a \in DOMAIN x.heap
    PROVE  /\ \A r : r \in DOMAIN Seen(x) <=>
                        \/ r \in DOMAIN Seen(w)
                        \/ \E a \in DOMAIN x.heap \ DOMAIN w.heap : r = Obj(a)
           /\ \A a \in DOMAIN w.heap \ CopiesOf(w) :
                 /\ Seen(x)[Obj(a)] = x.heap[a] /\ Seen(w)[Obj(a)] = w.heap[a]
           /\ \A e \in DraftIds(w) :
                 /\ LatestAddress(w, e) \in DOMAIN w.heap
                 /\ Seen(w)[Draft(e)] = w.heap[LatestAddress(w, e)]
                 /\ Seen(x)[Draft(e)] = x.heap[LatestAddress(w, e)]
<1>1. /\ DraftIds(x) = DraftIds(w) /\ CopiesOf(x) = CopiesOf(w)
      /\ \A e : Node(x, e) = Node(w, e) /\ LatestAddress(x, e) = LatestAddress(w, e)
  BY DEF DraftIds, CopiesOf, Node, LatestAddress
<1>2. \A e \in DraftIds(w) : LatestAddress(w, e) \in DOMAIN w.heap
  BY DEF Sound, WorldOK, LatestAddress
<1>3. CopiesOf(w) \subseteq DOMAIN w.heap \cup {Null}
  BY DEF CopiesOf, Sound, WorldOK
<1>4. Null \notin DOMAIN x.heap
  BY WorldParts DEF Sound, WorldOK, Null
<1>5. \A a : a \in DOMAIN x.heap \ CopiesOf(x) <=>
               \/ a \in DOMAIN w.heap \ CopiesOf(w)
               \/ a \in DOMAIN x.heap \ DOMAIN w.heap
  BY <1>1, <1>3, <1>4
<1>6. /\ DOMAIN Seen(w) = {Draft(e) : e \in DraftIds(w)}
                          \cup {Obj(a) : a \in DOMAIN w.heap \ CopiesOf(w)}
      /\ DOMAIN Seen(x) = {Draft(e) : e \in DraftIds(x)}
                          \cup {Obj(a) : a \in DOMAIN x.heap \ CopiesOf(x)}
  BY SeenDomain
<1>7. \A r : r \in DOMAIN Seen(x) <=>
               \/ r \in DOMAIN Seen(w)
               \/ \E a \in DOMAIN x.heap \ DOMAIN w.heap : r = Obj(a)
  BY <1>1, <1>5, <1>6
<1>8. \A a \in DOMAIN w.heap \ CopiesOf(w) :
         Seen(x)[Obj(a)] = x.heap[a] /\ Seen(w)[Obj(a)] = w.heap[a]
  BY <1>5, SeenLeads
<1>9. \A e \in DraftIds(w) : /\ Seen(w)[Draft(e)] = w.heap[LatestAddress(w, e)]
                              /\ Seen(x)[Draft(e)] = x.heap[LatestAddress(w, e)]
  BY <1>1, SeenLeads DEF Latest
<1> QED
  BY <1>2, <1>7, <1>8, <1>9

\* The recipe makes an object.
LEMMA MakesChange ==
    ASSUME IInv, NEW x, Sound(x), Makes(x)
    PROVE  Abstract!New(Seen(W), Seen(x))
<1> DEFINE old == Seen(W)
           new == Seen(x)
           n   == Len(W.heap) + 1
           r   == Obj(n)
<1>1. PICK o \in Object : /\ Made(W, x, o)
                          /\ \A j \in Keys : o.at[j] \in RecipeValues \cup {Absent}
  BY DEF Makes
<1>2. Sound(W)
  BY InvParts
<1>3. /\ x.drafts = W.drafts /\ n \notin DOMAIN W.heap
      /\ DOMAIN x.heap = DOMAIN W.heap \cup {n}
      /\ \A a \in DOMAIN W.heap : x.heap[a] = W.heap[a]
      /\ x.heap[n] = o
  BY <1>1 DEF Made
<1>4. \A a : (\E b \in DOMAIN x.heap \ DOMAIN W.heap : a = Obj(b)) <=> a = r
  BY <1>3
<1>5. /\ \A u : u \in DOMAIN new <=> u \in DOMAIN old \/ u = r
      /\ \A a \in DOMAIN W.heap \ CopiesOf(W) : new[Obj(a)] = old[Obj(a)]
      /\ \A e \in DraftIds(W) : new[Draft(e)] = old[Draft(e)]
  BY <1>2, <1>3, <1>4, SameSeen
<1>6. /\ \A u \in DOMAIN old : \/ \E d \in DraftIds(W) : u = Draft(d)
                               \/ \E a \in DOMAIN W.heap \ CopiesOf(W) : u = Obj(a)
      /\ old = [u \in DOMAIN old |-> old[u]] /\ new = [u \in DOMAIN new |-> new[u]]
  BY <1>2, SeenLeads
<1>7. new[r] = o /\ r \notin DOMAIN old
  <2>1. /\ CopiesOf(x) = CopiesOf(W) /\ CopiesOf(W) \subseteq DOMAIN W.heap \cup {Null}
        /\ Null \notin DOMAIN x.heap
    BY <1>2, <1>3, WorldParts DEF CopiesOf, DraftIds, Node, Sound, WorldOK, Null
  <2>2. n \in DOMAIN x.heap \ CopiesOf(x)
    BY <1>3, <2>1
  <2>3. new[r] = o
    BY <1>3, <2>2, SeenLeads
  <2>4. (\A a \in DOMAIN W.heap : r # Obj(a)) /\ (\A d : r # Draft(d))
    BY <1>3 DEF Obj, Draft
  <2> QED
    BY ONLY <1>6, <2>3, <2>4
<1>8. \A k \in Keys : new[r].at[k] \in Abstract!Storable(old)
  BY <1>1, <1>7, RecipeValuesSeen
<1> HIDE DEF old, new, r
<1> DEFINE z == Abstract!With(old, r, new[r])
<1>9. /\ z = [u \in DOMAIN z |-> z[u]]
      /\ DOMAIN z = DOMAIN old \cup {r}
      /\ z[r] = new[r]
      /\ \A v \in DOMAIN old : v # r => z[v] = old[v]
  BY DEF Abstract!With
<1> HIDE DEF z
<1>10. DOMAIN new = DOMAIN z
  BY <1>5, <1>9
<1>11. \A u \in DOMAIN new : new[u] = z[u]
  BY <1>5, <1>6, <1>7, <1>9
<1>12. new = z
  BY <1>6, <1>9, <1>10, <1>11, SameStore
<1>13. r \in DOMAIN new \ DOMAIN old
  BY <1>5, <1>7
<1>14. Abstract!New(old, new)
  BY <1>8, <1>12, <1>13 DEF Abstract!New, z
<1> QED
  BY <1>14 DEF old, new

\* The recipe writes to an object of its own.
LEMMA MendsChange ==
    ASSUME IInv, NEW x, Sound(x), Mends(x)
    PROVE  Abstract!Write(Seen(W), Seen(x))
<1> DEFINE old == Seen(W)
           new == Seen(x)
<1>1. PICK a, k : \E v \in RecipeValues : Overwrote(W, x, a, k, v)
  BY DEF Mends
<1>2. PICK v \in RecipeValues : Overwrote(W, x, a, k, v)
  BY <1>1
<1>3. Sound(W) /\ Len(base) \in Nat /\ DOMAIN base = 1 .. Len(base)
  BY InvParts
<1> DEFINE r == Obj(a)
<1>4. /\ a \in DOMAIN W.heap /\ a > Len(base) /\ \A e \in DraftIds(W) : Node(W, e).copy # a
      /\ k \in Keys
      /\ x.drafts = W.drafts /\ DOMAIN x.heap = DOMAIN W.heap
      /\ \A c \in DOMAIN W.heap : c # a => x.heap[c] = W.heap[c]
      /\ x.heap[a].type = W.heap[a].type
      /\ \A j \in Keys : x.heap[a].at[j] = IF j = k THEN v ELSE W.heap[a].at[j]
  BY <1>2 DEF Overwrote, Fresh
<1>5. a \notin DOMAIN base /\ a \notin CopiesOf(W)
  BY <1>3, <1>4 DEF CopiesOf
<1>6. \A e \in DraftIds(W) : LatestAddress(W, e) # a
  BY <1>3, <1>4, <1>5 DEF LatestAddress, Sound, Kept
<1>7. /\ DOMAIN new = DOMAIN old
      /\ \A c \in DOMAIN W.heap \ CopiesOf(W) :
            c # a => new[Obj(c)] = old[Obj(c)]
      /\ \A e \in DraftIds(W) : new[Draft(e)] = old[Draft(e)]
      /\ new[r] = x.heap[a] /\ old[r] = W.heap[a]
  <2>1. /\ \A u : u \in DOMAIN new <=>
                    \/ u \in DOMAIN old
                    \/ \E c \in DOMAIN x.heap \ DOMAIN W.heap : u = Obj(c)
        /\ \A c \in DOMAIN W.heap \ CopiesOf(W) :
              new[Obj(c)] = x.heap[c] /\ old[Obj(c)] = W.heap[c]
        /\ \A e \in DraftIds(W) : /\ LatestAddress(W, e) \in DOMAIN W.heap
                                  /\ old[Draft(e)] = W.heap[LatestAddress(W, e)]
                                  /\ new[Draft(e)] = x.heap[LatestAddress(W, e)]
    BY <1>3, <1>4, SameSeen
  <2>2. \A u : u \in DOMAIN new <=> u \in DOMAIN old
    BY <1>4, <2>1
  <2> HIDE DEF old, new
  <2>3. DOMAIN new = DOMAIN old
    BY <2>2
  <2> QED
    BY <1>4, <1>5, <1>6, <2>1, <2>3
<1>8. /\ \A u \in DOMAIN old : \/ \E d \in DraftIds(W) : u = Draft(d)
                               \/ \E c \in DOMAIN W.heap \ CopiesOf(W) : u = Obj(c)
      /\ old = [u \in DOMAIN old |-> old[u]] /\ new = [u \in DOMAIN new |-> new[u]]
      /\ r \in DOMAIN old
      /\ \A u \in DOMAIN old : old[u] \in Object
      /\ \A u \in DOMAIN new : new[u] \in Object
  BY <1>3, <1>4, <1>5, SeenLeads
<1>9. r \in Abstract!Own(old)
  BY <1>3, <1>5, <1>8, GivenSeen DEF Abstract!Own
<1>10. v \in Abstract!Storable(old)
  BY RecipeValuesSeen
<1> HIDE DEF old, new
<1>11. \A u \in DOMAIN old : u # r => new[u] = old[u]
  BY <1>7, <1>8
<1> HIDE DEF r
<1>12. new[r].at[k] = v
  BY <1>4, <1>7
<1>13. new[r] = [old[r] EXCEPT !.at[k] = new[r].at[k]]
  BY <1>4, <1>7, <1>8, ChangedObject
<1> DEFINE y == [old EXCEPT ![r].at[k] = new[r].at[k]]
<1>14. /\ y = [u \in DOMAIN old |-> y[u]]
       /\ y[r] = [old[r] EXCEPT !.at[k] = new[r].at[k]]
       /\ \A u \in DOMAIN old : u # r => y[u] = old[u]
  BY <1>8
<1> HIDE DEF y
<1>15. DOMAIN y = DOMAIN old
  BY <1>14
<1>16. new = y
  BY <1>7, <1>8, <1>11, <1>13, <1>14, <1>15, SameStore
<1>17. Abstract!Write(old, new)
  BY <1>4, <1>7, <1>9, <1>10, <1>12, <1>16 DEF Abstract!Write, y
<1> QED
  BY <1>17 DEF old, new

\* A step of the recipe is one of RecipeSpec.
LEMMA RecipeChanges ==
    ASSUME RInv, Recipe
    PROVE  Abstract!Change
<1>1. IInv /\ Apart(W)
  BY DEF RInv, SInv, UInv
<1>2. /\ UNCHANGED <<base, phase, returned, result>> /\ phase = "recipe"
      /\ \E x : W' = x /\ (Assigns(x) \/ Reads(x) \/ Makes(x) \/ Mends(x))
  BY <1>1, RecipeSteps
<1>3. PICK x : W' = x /\ (Assigns(x) \/ Reads(x) \/ Makes(x) \/ Mends(x))
  BY <1>2
<1>4. Sound(x)
  <2>1. IInv'
    BY <1>1, NextKeeps DEF Next
  <2> QED
    BY <1>2, <1>3, <2>1, NextSound
<1>5. \/ Abstract!Open(Seen(W), Seen(x))
      \/ Abstract!Write(Seen(W), Seen(x))
      \/ Abstract!Clear(Seen(W), Seen(x))
      \/ Abstract!New(Seen(W), Seen(x))
  BY <1>1, <1>3, <1>4, AssignsChange, ReadsChange, MakesChange, MendsChange
<1>6. SeenStore = Seen(W) /\ SeenStore' = Seen(x)
  BY <1>2, <1>3 DEF SeenStore
<1>7. Given' = Given /\ Promised' = Promised
  BY <1>2 DEF Given, Promised
<1> QED
  BY <1>5, <1>6, <1>7 DEF Abstract!Change

\* The recipe starts with what the base holds and one draft of its root.
LEMMA InitStarts ==
    ASSUME Init
    PROVE  Abstract!Init
<1>1. /\ 1 \in DOMAIN base /\ W.heap = base /\ DraftIds(W) = {1}
      /\ Node(W, 1).copy = Null /\ Node(W, 1).original = 1
      /\ base \in Bases /\ phase = "recipe"
  BY InitWorld DEF Init
<1>2. Sound(W)
  BY InitSound, InvParts
<1>3. CopiesOf(W) = {Null} /\ Null \notin DOMAIN base
  BY <1>1, InitWorld DEF CopiesOf, Null
<1>4. Latest(W, 1) = base[1]
  BY <1>1 DEF Latest, LatestAddress
<1> DEFINE old == Seen(W)
           r == Draft(1)
           given == [v \in Given |-> base[v.id]]
           z == [v \in Given \cup {r} |-> IF v = r THEN base[1] ELSE given[v]]
<1>5. /\ old = [u \in DOMAIN old |-> old[u]]
      /\ \A u \in DOMAIN old : u = r \/ \E a \in DOMAIN base : u = Obj(a)
      /\ r \in DOMAIN old /\ old[r] = base[1]
  BY <1>1, <1>2, <1>4, SeenLeads
<1>6. /\ \A a \in DOMAIN base : Obj(a) \in DOMAIN old /\ old[Obj(a)] = base[a]
      /\ \A a \in DOMAIN base : Obj(a) \in Given /\ Obj(a).id = a
      /\ r \notin Given
  BY <1>2, GivenSeen DEF Obj
<1>7. \A u \in Given : \E a \in DOMAIN base : u = Obj(a)
  BY DEF Given
<1> HIDE DEF old, r
<1>8. DOMAIN old = Given \cup {r}
  <2>1. \A u \in DOMAIN old : u \in Given \cup {r}
    BY <1>5, <1>6
  <2>2. \A u \in Given \cup {r} : u \in DOMAIN old
    BY <1>5, <1>6, <1>7
  <2> QED
    BY ONLY <2>1, <2>2
<1>9. \A u \in DOMAIN old : old[u] = z[u]
  BY <1>5, <1>6, <1>7, <1>8
<1>10. old = z
  BY <1>5, <1>8, <1>9, SameStore
<1>11. z = Abstract!With(given, r, base[1])
  BY DEF Abstract!With
<1>12. SeenStore = Abstract!With([v \in Given |-> base[v.id]], Abstract!Handle, base[1])
  BY <1>1, <1>10, <1>11, SameValues DEF SeenStore, old, r, Abstract!Handle
<1>13. Given = {Abstract!Obj(a) : a \in DOMAIN base}
  BY SameValues DEF Given
<1>14. Promised = <<>>
  BY <1>1 DEF Promised
<1> QED
  BY <1>1, <1>12, <1>13, <1>14 DEF Abstract!Init

\* If the root did not change, no draft did.
LEMMA RootMarks ==
    ASSUME NEW w, Sound(w), Rooted(w), ~Node(w, Root).operated, NEW d \in DraftIds(w)
    PROVE  ~Node(w, d).operated
<1> DEFINE T == {e \in DraftIds(w) : Node(w, e).operated}
<1>1. DraftIds(w) \subseteq Nat /\ Null \notin DraftIds(w)
  BY WorldParts DEF Sound, WorldOK, DraftIds, Null
<1>2. SUFFICES ASSUME T # {} PROVE FALSE
  OBVIOUS
<1>3. PICK n \in T : \A m \in T : n <= m
  BY <1>1, <1>2, NatLeast
<1>4. n # Root
  OBVIOUS
<1>5. Node(w, n).parent \in T /\ Node(w, n).parent < n
  BY <1>1, <1>4 DEF Rooted, Sound, Marked
<1> QED
  BY <1>1, <1>3, <1>5

\* The end of the recipe keeps the tree of the returned value.
LEMMA EndFinishes ==
    ASSUME NEW x, Sound(W), Rooted(W), NEW v, RecipeEnded(W, x, v), ~Refused(v)
    PROVE  Finishes(W, x)
<1>1. CASE ~IsObj(v)
  BY <1>1, FinishesSame DEF RecipeEnded
<1>2. CASE IsObj(v)
  <2>1. ~IsState(v) /\ ~IsDraft(v)
    BY <1>2 DEF IsState, IsObj, IsDraft, Undefined, Prim, Draft
  <2>2. ~Node(W, Root).operated
    BY <2>1 DEF Refused
  <2>3. ASSUME NEW a \in DOMAIN W.heap, NEW k \in Keys, IsDraft(W.heap[a].at[k])
        PROVE  Obj(Node(W, W.heap[a].at[k].id).original) = Final(W, W.heap[a].at[k].id)
    <3>1. W.heap[a].at[k].id \in DraftIds(W)
      BY <2>3 DEF Sound, WorldOK, ExistsIn
    <3> QED
      BY <2>2, <3>1, RootMarks DEF Final
  <2> QED
    BY <1>2, <2>3 DEF Finishes, RecipeEnded
<1> QED
  BY <1>1, <1>2

\* The world of a running recipe is seen through its root draft, if nothing else.
LEMMA SeenSome ==
    ASSUME Sound(W)
    PROVE  Seen(W) # <<>>
<1>1. Draft(Root) \in DOMAIN Seen(W)
  BY SeenLeads DEF Sound, WorldOK
<1>2. DOMAIN <<>> = {}
  OBVIOUS
<1> QED
  BY <1>1, <1>2

\* What the recipe hands over, and its tree.
LEMMA EndHands ==
    ASSUME RInv, NEW v \in ReturnValues, EndRecipe(v), NEW x, W' = x, Sound(x),
           RecipeEnded(W, x, v)
    PROVE  LET u == Handed'
           IN  /\ u \in PrimValues \cup DOMAIN Seen(W)
               /\ View(x, u) = Tree(Seen(W), u)
<1>1. IInv /\ Sound(W) /\ BaseClosed /\ Lazy(W) /\ Rooted(W)
  BY InvParts DEF RInv, SInv, UInv
<1>2. phase = "recipe" /\ ~Refused(v) /\ HidesCopies(W)
  BY DEF EndRecipe, RInv
<1>3. v \in RecipeValues \cup {Undefined}
  BY DEF ReturnValues
<1>4. PrimValues \subseteq Value /\ Undefined \in PrimValues /\ \A u \in PrimValues : ~IsRef(u)
  BY DataAssumption
     DEF PrimValues, Prim, Undefined, Value, IsRef, IsObj, IsDraft
<1>5. \A u : Leads(Seen(W), u) => Tree(Seen(W), u) = View(W, u)
  BY <1>1, <1>2, SeenTree
<1>6. CASE IsState(v)
  <2>1. Handed' = Draft(Root) /\ x = W
    <3>1. returned' = <<>> /\ ~IsObj(v)
      BY <1>6 DEF EndRecipe, IsState, IsObj, Undefined, Prim, Draft
    <3> QED
      BY <3>1 DEF Handed, RecipeEnded
  <2>2. Draft(Root) \in DOMAIN Seen(W)
    BY <1>1, SeenLeads DEF Sound, WorldOK
  <2> QED
    BY <1>5, <2>1, <2>2 DEF Leads
<1>7. CASE ~IsState(v) /\ IsDraft(v)
  <2> DEFINE o == Node(W, v.id).original
  <2>1. Handed' = Obj(o) /\ x = W
    <3>1. returned' = <<Obj(o)>> /\ ~IsObj(v)
      BY <1>7 DEF EndRecipe, IsObj, IsDraft
    <3> QED
      BY <3>1 DEF Handed, RecipeEnded
  <2>2. v.id \in DraftIds(W)
    BY <1>1, <1>3, <1>4, <1>7, RecipeValuesExist DEF ExistsIn, IsRef
  <2>3. Obj(o) \in DOMAIN Seen(W)
    BY <1>1, <2>2, GivenSeen DEF Sound, Kept
  <2> QED
    BY <1>5, <2>1, <2>3 DEF Leads
<1>8. CASE ~IsState(v) /\ ~IsDraft(v)
  <2>1. Handed' = v
    <3>1. returned' = <<v>>
      BY <1>8 DEF EndRecipe
    <3> QED
      BY <3>1 DEF Handed
  <2>2. v \in RecipeValues
    BY <1>3, <1>8 DEF IsState
  <2>3. v \in PrimValues \cup DOMAIN Seen(W)
    <3>1. v # Absent
      BY <1>4, <2>2 DEF RecipeValues, Absent, Obj, Draft, PrimValues, Prim
    <3> QED
      BY <1>1, <2>2, <3>1, RecipeValuesSeen, SameValues DEF Abstract!Storable
  <2>4. Leads(Seen(W), v)
    BY <1>4, <2>3 DEF Leads
  <2>5. Leads(Store(W), v)
    BY <1>1, <2>2, RecipeValuesExist, ValueLeads
  <2>6. Finishes(W, x)
    BY <1>1, <1>2, EndFinishes
  <2>7. View(W, v) = View(x, v)
    BY <1>1, <2>5, <2>6, TurnedTree DEF Turned, RecipeEnded
  <2> QED
    BY <1>5, <2>1, <2>3, <2>4, <2>7
<1> QED
  BY <1>6, <1>7, <1>8

\* The end of the recipe is the commit, ...
LEMMA EndCommits ==
    ASSUME RInv, NEW v \in ReturnValues, EndRecipe(v)
    PROVE  Abstract!Commit
<1>1. IInv /\ Sound(W) /\ v \in RecipeValues \cup {Undefined}
  BY InvParts DEF RInv, SInv, UInv, ReturnValues
<1>2. PICK x : W' = x /\ Sound(x) /\ RecipeEnded(W, x, v)
  BY <1>1, EndRecipeSteps
<1>3. /\ Handed' \in PrimValues \cup DOMAIN Seen(W)
      /\ View(x, Handed') = Tree(Seen(W), Handed')
  BY <1>2, EndHands
<1>4. phase = "recipe" /\ phase' = "finalizing" /\ base' = base
  BY DEF EndRecipe
<1>5. SeenStore = Seen(W) /\ Seen(W) # <<>> /\ SeenStore' = <<>> /\ Given' = Given
  BY <1>1, <1>4, SeenSome DEF SeenStore, Given
<1>6. Promised' = <<Handed', Tree(Seen(W), Handed')>>
  BY <1>2, <1>3, <1>4 DEF Promised
<1> HIDE DEF Handed
<1> QED
  BY <1>3, <1>5, <1>6, SameValues, SameTree DEF Abstract!Commit

\* What was handed over is a draft or exists.
LEMMA HandedLeads ==
    ASSUME RInv
    PROVE  Leads(Store(W), Handed)
<1>1. Sound(W) /\ Outcome(W) /\ returned \in Seq(Value) /\ Root \in DraftIds(W)
  BY InvParts DEF RInv, SInv, UInv, IInv, TypeOK
<1>2. CASE returned = <<>>
  BY <1>1, <1>2, StoreLeads DEF Handed, Leads
<1>3. CASE returned # <<>>
  <2>1. Head(returned) \in Value /\ ExistsIn(W, Head(returned))
    BY <1>1, <1>3 DEF Outcome, Outside
  <2> QED
    BY <1>3, <2>1, ValueLeads DEF Handed
<1> QED
  BY <1>2, <1>3

\* Every step of the finalization keeps what create() is going to return.
LEMMA FinalizationStutters ==
    ASSUME RInv, FinalizeNode \/ FinalizeTask
    PROVE  UNCHANGED <<Given, SeenStore, Promised>>
<1>1. IInv /\ Sound(W) /\ BaseClosed /\ Lazy(W)
  BY InvParts DEF RInv, SInv, UInv
<1>2. /\ phase = "finalizing" /\ phase' = "finalizing"
      /\ base' = base /\ returned' = returned
  BY DEF FinalizeNode, FinalizeTask, Finalizing
<1>3. PICK x : W' = x /\ Sound(x) /\ Finalizes(W, x) /\ Finishes(W, x)
  BY <1>1, FinalizeNodeSteps, FinalizeTaskSteps DEF NodeDone, TaskDone
<1>4. Handed' = Handed
  BY <1>2 DEF Handed
<1>5. View(W, Handed) = View(x, Handed)
  BY <1>1, <1>3, HandedLeads, TurnedTree DEF Turned
<1>6. Promised' = Promised
  <2>1. Promised = <<Handed, View(W, Handed)>>
    BY <1>2 DEF Promised
  <2>2. Promised' = <<Handed', View(x, Handed')>>
    BY <1>2, <1>3 DEF Promised
  <2> QED
    BY <1>4, <1>5, <2>1, <2>2
<1> QED
  BY <1>2, <1>6 DEF Given, SeenStore

\* What create() returns has the tree of what the recipe handed over.
LEMMA ReturnStutters ==
    ASSUME RInv, Return
    PROVE  UNCHANGED <<Given, SeenStore, Promised>>
<1>1. IInv /\ Sound(W) /\ BaseClosed /\ Lazy(W)
  BY InvParts DEF RInv, SInv, UInv
<1>2. /\ phase = "finalizing" /\ phase' = "done" /\ returned' = returned
      /\ IF returned = <<>> THEN result' = Final(W, Root) ELSE result' = Head(returned)
  BY DEF Return
<1>3. W' = W /\ base' = base
  BY OtherSteps
<1>4. Handed' = Handed
  BY <1>2 DEF Handed
<1>5. View(W, Handed) = View(W, result')
  <2>1. CASE returned = <<>>
    <3>1. Handed = Draft(Root) /\ IsDraft(Draft(Root)) /\ Draft(Root).id = Root
      BY <2>1 DEF Handed, Draft, IsDraft
    <3>2. Finalizes(W, W) /\ Finishes(W, W)
      BY DEF Finalizes, Finishes, Settled
    <3>3. Turned(W, Handed, Final(W, Root)) /\ IsRef(Handed)
      BY <3>1 DEF Turned, IsRef
    <3>4. View(W, Handed) = View(W, Final(W, Root))
      BY <1>1, <3>2, <3>3, HandedLeads, TurnedTree
    <3> QED
      BY <1>2, <2>1, <3>4
  <2>2. CASE returned # <<>>
    BY <1>2, <2>2 DEF Handed
  <2> QED
    BY <2>1, <2>2
<1>6. Promised' = Promised
  <2>1. Promised = <<Handed, View(W, Handed)>>
    BY <1>2 DEF Promised
  <2>2. Promised' = <<Handed', View(W, result')>>
    BY <1>2, <1>3 DEF Promised
  <2> QED
    BY <1>4, <1>5, <2>1, <2>2
<1> QED
  BY <1>2, <1>3, <1>6 DEF Given, SeenStore

\* ... and a recipe that throws is aborted.
LEMMA FailAborts ==
    ASSUME RInv, Fail
    PROVE  Abstract!Abort
<1>1. Sound(W) /\ phase = "recipe" /\ phase' = "failed" /\ base' = base
  BY InvParts DEF RInv, SInv, UInv, Fail
<1>2. SeenStore = Seen(W) /\ Seen(W) # <<>> /\ SeenStore' = <<>>
  BY <1>1, SeenSome DEF SeenStore
<1>3. Promised' = Promised /\ Given' = Given
  BY <1>1 DEF Promised, Given
<1> QED
  BY <1>2, <1>3 DEF Abstract!Abort

\* A step that changes nothing.
LEMMA NothingStutters ==
    ASSUME UNCHANGED vars
    PROVE  UNCHANGED <<Given, SeenStore, Promised>>
<1>1. W' = W /\ UNCHANGED <<base, phase, returned, result>>
  BY OtherSteps DEF vars
<1>2. Handed' = Handed /\ Given' = Given /\ SeenStore' = SeenStore
  BY <1>1 DEF Handed, Given, SeenStore
<1>3. View(W, Handed)' = View(W, Handed) /\ View(W, result)' = View(W, result)
  BY <1>1, <1>2
<1>4. Promised' = Promised
  BY <1>1, <1>2, <1>3 DEF Promised
<1> QED
  BY <1>2, <1>4

\* Every step of the producer is one of RecipeSpec, or leaves it as it is.
LEMMA NextImplements ==
    ASSUME RInv, [Next]_vars
    PROVE  [Abstract!Next]_<<Given, SeenStore, Promised>>
<1>1. CASE Recipe
  BY <1>1, RecipeChanges DEF Abstract!Next
<1>2. CASE \E v \in ReturnValues : EndRecipe(v)
  BY <1>2, EndCommits DEF Abstract!Next
<1>3. CASE Fail
  BY <1>3, FailAborts DEF Abstract!Next
<1>4. CASE FinalizeNode \/ FinalizeTask
  BY <1>4, FinalizationStutters
<1>5. CASE Return
  BY <1>5, ReturnStutters
<1>6. CASE UNCHANGED vars
  BY <1>6, NothingStutters
<1> QED
  BY <1>1, <1>2, <1>3, <1>4, <1>5, <1>6 DEF Next, Ended

-----------------------------------------------------------------------------
(***************************************************************************)
(* The theorems.                                                           *)
(***************************************************************************)

\* While the recipe runs, no object refers to the copy of a draft, and every
\* draft but the root was read through an earlier one.
THEOREM CopiesAreHidden == Spec => []RInv
<1>1. Init => RInv
  BY InitRefines
<1>2. RInv /\ [Next]_vars => RInv'
  BY NextRefines
<1> QED
  BY <1>1, <1>2, PTL DEF Spec

\* What the recipe sees through its drafts, and what create() returns, is what
\* changing ordinary objects would give: the producer implements RecipeSpec.
THEOREM DraftsImplementRecipeSpec == Spec => ActsOnOrdinaryObjects
<1>1. Init => Abstract!Init
  BY InitStarts
<1>2. RInv /\ [Next]_vars => [Abstract!Next]_<<Given, SeenStore, Promised>>
  BY NextImplements
<1> QED
  BY <1>1, <1>2, CopiesAreHidden, PTL DEF Spec, ActsOnOrdinaryObjects, Abstract!Spec
=============================================================================
