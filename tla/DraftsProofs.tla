---------------------------- MODULE DraftsProofs ----------------------------
(***************************************************************************)
(* Safety of the drafts for every base state, every set of keys and every  *)
(* bound: the types, the base state staying untouched, and changes being   *)
(* marked up to the root.  The three are proved together, with what they   *)
(* rest on: copies lie outside the base, and a draft that has a child has  *)
(* a copy.                                                                 *)
(***************************************************************************)
EXTENDS DraftsProperties, SequenceTheorems, TLAPS

\* The base is part of the heap, unchanged; every original lies in it, no copy.
Kept(w) ==
    /\ \A a \in DOMAIN base : a \in DOMAIN w.heap /\ w.heap[a] = base[a]
    /\ \A d \in DraftIds(w) : /\ Node(w, d).original \in DOMAIN base
                              /\ Node(w, d).copy \notin DOMAIN base

\* The base holds no drafts, and only objects of its own.
BaseClosed ==
    \A a \in DOMAIN base, k \in Keys :
        /\ ~IsDraft(base[a].at[k])
        /\ IsObj(base[a].at[k]) => base[a].at[k].id \in DOMAIN base

\* A draft is read through the copy of its parent.
Linked(w) ==
    \A d \in DraftIds(w) :
        Node(w, d).parent # Null => Node(w, Node(w, d).parent).copy # Null

\* ChangesReachRoot of a world.
Marked(w) ==
    \A d \in DraftIds(w) :
        /\ HasEntries(w, d) => Node(w, d).operated
        /\ Node(w, d).operated =>
              /\ Node(w, d).copy # Null
              /\ Node(w, d).parent # Null => Node(w, Node(w, d).parent).operated

Sound(w) == WorldOK(w) /\ Kept(w) /\ Linked(w) /\ Marked(w)

-----------------------------------------------------------------------------
(***************************************************************************)
(* Sequences and worlds.                                                   *)
(***************************************************************************)

\* A function on an interval from 1 is a sequence.
LEMMA FunctionIsSeq ==
    ASSUME NEW S, NEW n \in Nat, NEW f \in [1 .. n -> S]
    PROVE  f \in Seq(S) /\ Len(f) = n /\ DOMAIN f = 1 .. n
<1>1. f \in Seq(S)
  BY SeqDef
<1>2. DOMAIN f = 1 .. n /\ DOMAIN f = 1 .. Len(f) /\ Len(f) \in Nat
  BY <1>1, LenProperties
<1> QED
  BY <1>1, <1>2

\* The components of a world.
LEMMA WorldParts ==
    ASSUME NEW w \in World
    PROVE  /\ w.heap \in [1 .. Len(w.heap) -> Object] /\ Len(w.heap) \in Nat
           /\ DOMAIN w.heap = 1 .. Len(w.heap)
           /\ w.drafts \in [1 .. Len(w.drafts) -> DraftState]
           /\ Len(w.drafts) \in Nat
           /\ DOMAIN w.drafts = 1 .. Len(w.drafts)
           /\ w.tasks \in [1 .. Len(w.tasks) -> Task] /\ Len(w.tasks) \in Nat
           /\ DOMAIN w.tasks = 1 .. Len(w.tasks)
<1>1. w.heap \in Seq(Object) /\ w.drafts \in Seq(DraftState) /\ w.tasks \in Seq(Task)
  BY DEF World
<1> QED
  BY <1>1, LenProperties

\* A change of the heap that keeps its length and the base, and stores only
\* references that exist, keeps a world sound.
LEMMA HeapChange ==
    ASSUME NEW w, Sound(w),
           NEW h \in [DOMAIN w.heap -> Object],
           \A a \in DOMAIN base : h[a] = w.heap[a],
           \A a \in DOMAIN w.heap, k \in Keys : ExistsIn(w, h[a].at[k])
    PROVE  Sound([w EXCEPT !.heap = h])
<1> DEFINE v == [w EXCEPT !.heap = h]
<1>0. w \in World
  BY DEF Sound, WorldOK
<1>1. DOMAIN w.heap = 1 .. Len(w.heap) /\ Len(w.heap) \in Nat
  BY <1>0, WorldParts
<1>2. h \in Seq(Object) /\ DOMAIN h = DOMAIN w.heap
  BY <1>1, FunctionIsSeq
<1>3. v \in World
  BY <1>0, <1>2 DEF World
<1>4. v.heap = h /\ v.drafts = w.drafts /\ v.tasks = w.tasks
  BY <1>0 DEF World
<1>5. WorldOK(v)
  BY <1>2, <1>3, <1>4 DEF Sound, WorldOK, ExistsIn, DraftIds, Node
<1>6. Kept(v)
  BY <1>2, <1>4 DEF Sound, Kept, DraftIds, Node
<1>7. Linked(v) /\ Marked(v)
  BY <1>4 DEF Sound, Linked, Marked, HasEntries, DraftIds, Node
<1> QED
  BY <1>5, <1>6, <1>7 DEF Sound

\* A change of drafts that leaves what they were created with, their copies and
\* the existence of callback targets, gives entries only to marked drafts, and
\* marks no draft below an unmarked one.
LEMMA DraftsChange ==
    ASSUME NEW w, Sound(w),
           NEW ds \in [DOMAIN w.drafts -> DraftState],
           \A d \in DraftIds(w) :
              /\ ds[d].original = w.drafts[d].original
              /\ ds[d].copy = w.drafts[d].copy
              /\ ds[d].parent = w.drafts[d].parent
              /\ ds[d].key = w.drafts[d].key
              /\ \A i \in DOMAIN ds[d].callbacks :
                    ds[d].callbacks[i].target \in DraftIds(w)
              /\ (\E k \in Keys : ds[d].assigned[k] # "none") => ds[d].operated
              /\ ds[d].operated =>
                    /\ ds[d].copy # Null
                    /\ ds[d].parent # Null => ds[ds[d].parent].operated
    PROVE  Sound([w EXCEPT !.drafts = ds])
<1> DEFINE v == [w EXCEPT !.drafts = ds]
<1>0. w \in World
  BY DEF Sound, WorldOK
<1>1. DOMAIN w.drafts = 1 .. Len(w.drafts) /\ Len(w.drafts) \in Nat
  BY <1>0, WorldParts
<1>2. ds \in Seq(DraftState) /\ DOMAIN ds = DOMAIN w.drafts
  BY <1>1, FunctionIsSeq
<1>3. v \in World
  BY <1>0, <1>2 DEF World
<1>4. v.heap = w.heap /\ v.drafts = ds /\ v.tasks = w.tasks
  BY <1>0 DEF World
<1>5. WorldOK(v)
  BY <1>2, <1>3, <1>4 DEF Sound, WorldOK, ExistsIn, DraftIds, Node
<1>6. Kept(v)
  BY <1>2, <1>4 DEF Sound, Kept, DraftIds, Node
<1>7. Linked(v)
  BY <1>2, <1>4 DEF Sound, WorldOK, Linked, DraftIds, Node
<1>8. Marked(v)
  BY <1>2, <1>4 DEF Sound, WorldOK, Marked, HasEntries, DraftIds, Node
<1> QED
  BY <1>5, <1>6, <1>7, <1>8 DEF Sound

\* A change of finalities.draft and of the handled objects.
LEMMA TasksChange ==
    ASSUME NEW w, Sound(w),
           NEW ts \in Seq(Task), NEW hs \in SUBSET Nat,
           \A i \in DOMAIN ts : ts[i].draft \in DraftIds(w)
    PROVE  Sound([w EXCEPT !.tasks = ts, !.handled = hs])
<1> DEFINE v == [w EXCEPT !.tasks = ts, !.handled = hs]
<1>0. w \in World
  BY DEF Sound, WorldOK
<1>1. v \in World /\ v.heap = w.heap /\ v.drafts = w.drafts /\ v.tasks = ts
  BY <1>0 DEF World
<1>2. WorldOK(v)
  BY <1>1 DEF Sound, WorldOK, ExistsIn, DraftIds, Node
<1>3. Kept(v) /\ Linked(v) /\ Marked(v)
  BY <1>1 DEF Sound, Kept, Linked, Marked, HasEntries, DraftIds, Node
<1> QED
  BY <1>2, <1>3 DEF Sound

-----------------------------------------------------------------------------
(***************************************************************************)
(* The functions of DraftHeap.                                             *)
(***************************************************************************)

\* Writing to a copy.
LEMMA PutSound ==
    ASSUME NEW w, Sound(w), NEW d \in DraftIds(w), Node(w, d).copy # Null,
           NEW k \in Keys, NEW v \in Value, ExistsIn(w, v)
    PROVE  Sound(Put(w, d, k, v))
<1> DEFINE c == Node(w, d).copy
           h == [w.heap EXCEPT ![c].at[k] = v]
<1>0. w \in World /\ c \in DOMAIN w.heap /\ c \notin DOMAIN base
  BY DEF Sound, WorldOK, Kept
<1>1. w.heap \in [DOMAIN w.heap -> Object]
  BY <1>0, WorldParts
<1>2. h \in [DOMAIN w.heap -> Object]
  BY <1>0, <1>1 DEF Object
<1>3. \A a \in DOMAIN base : h[a] = w.heap[a]
  BY <1>0, <1>1 DEF Sound, Kept
<1>4. \A a \in DOMAIN w.heap, i \in Keys : ExistsIn(w, h[a].at[i])
  BY <1>0, <1>1 DEF Sound, WorldOK, Object
<1>5. Sound([w EXCEPT !.heap = h])
  BY <1>2, <1>3, <1>4, HeapChange
<1>6. Put(w, d, k, v) = [w EXCEPT !.heap = h]
  BY DEF Put
<1> QED
  BY <1>5, <1>6

\* assignedMap.set() and delete() keep a world sound, given the mark.
LEMMA AssignedSound ==
    ASSUME NEW w, Sound(w), NEW d \in DraftIds(w), NEW k \in Keys,
           NEW flag \in Flags, flag = "none" \/ Node(w, d).operated
    PROVE  Sound(Assigned(w, d, k, flag))
<1> DEFINE ds == [w.drafts EXCEPT ![d].assigned[k] = flag]
<1>0. w \in World
  BY DEF Sound, WorldOK
<1>1. w.drafts \in [DOMAIN w.drafts -> DraftState]
  BY <1>0, WorldParts
<1>2. ds \in [DOMAIN w.drafts -> DraftState]
  BY <1>1 DEF DraftState, DraftIds
<1>3. \A x \in DraftIds(w) :
         /\ ds[x].original = w.drafts[x].original
         /\ ds[x].copy = w.drafts[x].copy
         /\ ds[x].parent = w.drafts[x].parent
         /\ ds[x].key = w.drafts[x].key
         /\ ds[x].operated = w.drafts[x].operated
         /\ ds[x].callbacks = w.drafts[x].callbacks
  BY <1>1 DEF DraftState, DraftIds
<1>4. Assigned(w, d, k, flag) = [w EXCEPT !.drafts = ds]
  BY DEF Assigned
<1>e. ASSUME NEW x \in DraftIds(w), NEW j \in Keys, ds[x].assigned[j] # "none"
      PROVE  ds[x].operated
  <2>1. \/ x = d /\ j = k /\ ds[x].assigned[j] = flag
        \/ ds[x].assigned[j] = w.drafts[x].assigned[j]
    BY <1>1 DEF DraftState, DraftIds
  <2>2. w.drafts[x].operated
    BY <1>e, <2>1 DEF Sound, Marked, HasEntries, Node
  <2> QED
    BY <1>3, <2>2
<1> HIDE DEF ds
<1>5. \A x \in DraftIds(w) :
         /\ (\E j \in Keys : ds[x].assigned[j] # "none") => ds[x].operated
         /\ \A i \in DOMAIN ds[x].callbacks :
               ds[x].callbacks[i].target \in DraftIds(w)
         /\ ds[x].operated =>
               /\ ds[x].copy # Null
               /\ ds[x].parent # Null => ds[ds[x].parent].operated
  BY <1>3, <1>e DEF Sound, WorldOK, Marked, Node
<1>6. Sound([w EXCEPT !.drafts = ds])
  BY <1>2, <1>3, <1>5, DraftsChange
<1> QED
  BY <1>4, <1>6

\* ensureShallowCopy() adds an object to the heap, if anything.
LEMMA EnsureShallowCopySound ==
    ASSUME NEW w, Sound(w), NEW d \in DraftIds(w)
    PROVE  LET v == EnsureShallowCopy(w, d)
           IN  /\ Sound(v)
               /\ DraftIds(v) = DraftIds(w)
               /\ DOMAIN w.heap \subseteq DOMAIN v.heap
               /\ Node(v, d).copy # Null
               /\ \A x \in DraftIds(w) : Node(v, x).original = Node(w, x).original
<1> DEFINE v == EnsureShallowCopy(w, d)
           o == w.heap[w.drafts[d].original]
           n == Len(w.heap) + 1
           h == Append(w.heap, o)
           ds == [w.drafts EXCEPT ![d].copy = n]
<1>0. w \in World /\ d \in DOMAIN w.drafts
  BY DEF Sound, WorldOK, DraftIds
<1>p. /\ w.heap \in [1 .. Len(w.heap) -> Object] /\ Len(w.heap) \in Nat
      /\ w.drafts \in [1 .. Len(w.drafts) -> DraftState] /\ Len(w.drafts) \in Nat
      /\ DOMAIN w.heap = 1 .. Len(w.heap) /\ DOMAIN w.drafts = 1 .. Len(w.drafts)
      /\ w.heap \in Seq(Object)
  BY <1>0, WorldParts DEF World
<1>a. CASE w.drafts[d].copy # Null
  <2>1. v = w
    BY <1>a DEF EnsureShallowCopy, Node
  <2> QED
    BY <1>a, <2>1 DEF Node
<1>b. CASE w.drafts[d].copy = Null
  <2>1. v = [w EXCEPT !.heap = h, !.drafts = ds]
    BY <1>b DEF EnsureShallowCopy, Node, Original
  <2>2. o \in Object
    BY <1>0, <1>p DEF Sound, WorldOK, Node, DraftIds
  <2>3. /\ h \in Seq(Object) /\ DOMAIN h = 1 .. n /\ n \in Nat
        /\ \A a \in DOMAIN w.heap : h[a] = w.heap[a]
        /\ h[n] = o
    BY <1>p, <2>2, AppendProperties, LenProperties
  <2>4. ds \in [1 .. Len(w.drafts) -> DraftState]
    <3>1. [w.drafts[d] EXCEPT !.copy = n] \in DraftState
      BY ZenonT(60), <1>0, <1>p, <2>3 DEF DraftState
    <3> QED
      BY <1>0, <1>p, <3>1
  <2>5. ds \in Seq(DraftState) /\ DOMAIN ds = DOMAIN w.drafts
    BY <1>p, <2>4, FunctionIsSeq
  <2>6. /\ v \in World
        /\ v.heap = h /\ v.drafts = ds /\ v.tasks = w.tasks
    BY <1>0, <2>1, <2>3, <2>5 DEF World
  <2>7. \A x \in DraftIds(w) :
           /\ ds[x].original = w.drafts[x].original
           /\ ds[x].copy = IF x = d THEN n ELSE w.drafts[x].copy
           /\ ds[x].assigned = w.drafts[x].assigned
           /\ ds[x].parent = w.drafts[x].parent
           /\ ds[x].key = w.drafts[x].key
           /\ ds[x].operated = w.drafts[x].operated
           /\ ds[x].callbacks = w.drafts[x].callbacks
    BY <1>p DEF DraftState, DraftIds
  <2>8. DraftIds(v) = DraftIds(w) /\ DOMAIN w.heap \subseteq DOMAIN v.heap
    BY <1>p, <2>3, <2>5, <2>6 DEF DraftIds
  <2> HIDE DEF h, ds, o, v
  <2>9. \A a \in DOMAIN v.heap, k \in Keys : ExistsIn(v, v.heap[a].at[k])
    <3> SUFFICES ASSUME NEW a \in DOMAIN v.heap, NEW k \in Keys
                 PROVE  ExistsIn(v, v.heap[a].at[k])
      OBVIOUS
    <3>1. \E b \in DOMAIN w.heap : v.heap[a] = w.heap[b]
      <4>1. CASE a \in DOMAIN w.heap
        BY <4>1, <2>3, <2>6
      <4>2. CASE a = n
        BY <4>2, <2>3, <2>6, <1>0 DEF Sound, WorldOK, Node, DraftIds, o
      <4> QED
        BY <4>1, <4>2, <1>p, <2>3, <2>6
    <3> QED
      BY <3>1, <2>8 DEF Sound, WorldOK, ExistsIn
  <2>10. WorldOK(v)
    <3>1. ASSUME NEW x \in DraftIds(v)
          PROVE  /\ Node(v, x).original \in DOMAIN v.heap
                 /\ Node(v, x).copy \in DOMAIN v.heap \cup {Null}
                 /\ Node(v, x).parent \in DraftIds(v) \cup {Null}
                 /\ Node(v, x).parent # Null => Node(v, x).key \in Keys
                 /\ \A i \in DOMAIN Node(v, x).callbacks :
                       Node(v, x).callbacks[i].target \in DraftIds(v)
      <4>1. x \in DraftIds(w) /\ Node(v, x) = ds[x] /\ Node(w, x) = w.drafts[x]
        BY <2>6, <2>8 DEF Node
      <4>2. /\ w.drafts[x].original \in DOMAIN w.heap
            /\ w.drafts[x].copy \in DOMAIN w.heap \cup {Null}
            /\ w.drafts[x].parent \in DraftIds(w) \cup {Null}
            /\ w.drafts[x].parent # Null => w.drafts[x].key \in Keys
            /\ \A i \in DOMAIN w.drafts[x].callbacks :
                  w.drafts[x].callbacks[i].target \in DraftIds(w)
        BY <4>1 DEF Sound, WorldOK
      <4>3. n \in DOMAIN v.heap
        BY <2>3, <2>6
      <4> QED
        BY <4>1, <4>2, <4>3, <2>7, <2>8
    <3> QED
      BY <3>1, <2>6, <2>8, <2>9 DEF Sound, WorldOK
  <2>11. n \notin DOMAIN base
    BY <1>p DEF Sound, Kept
  <2>12. Kept(v)
    BY <1>p, <2>3, <2>6, <2>7, <2>8, <2>11 DEF Sound, Kept, Node
  <2>13. n # Null
    BY <2>3, <1>p DEF Null
  <2>14. \A x \in DraftIds(w) : /\ Node(v, x) = ds[x]
                                /\ Node(w, x) = w.drafts[x]
                                /\ Node(w, x).parent \in DraftIds(w) \cup {Null}
    BY <2>6 DEF Node, Sound, WorldOK
  <2>15. Linked(v)
    <3> SUFFICES ASSUME NEW x \in DraftIds(w), Node(v, x).parent # Null
                 PROVE  Node(v, Node(v, x).parent).copy # Null
      BY <2>8 DEF Linked
    <3>1. /\ Node(v, x).parent = Node(w, x).parent
          /\ Node(w, x).parent \in DraftIds(w)
      BY <2>7, <2>14
    <3>2. Node(w, Node(w, x).parent).copy # Null
      BY <3>1 DEF Sound, Linked
    <3> QED
      BY <3>1, <3>2, <2>7, <2>13, <2>14
  <2>16. Marked(v)
    <3>e. ASSUME NEW x \in DraftIds(w), HasEntries(v, x)
          PROVE  Node(v, x).operated
      BY <3>e, <2>7, <2>14 DEF Sound, Marked, HasEntries
    <3> SUFFICES ASSUME NEW x \in DraftIds(w), Node(v, x).operated
                 PROVE  /\ Node(v, x).copy # Null
                        /\ Node(v, x).parent # Null =>
                              Node(v, Node(v, x).parent).operated
      BY <2>8, <3>e DEF Marked
    <3>1. Node(w, x).operated /\ Node(v, x).parent = Node(w, x).parent
      BY <2>7, <2>14
    <3>2. /\ Node(w, x).copy # Null
          /\ Node(w, x).parent # Null => Node(w, Node(w, x).parent).operated
      BY <3>1 DEF Sound, Marked
    <3> QED
      BY <3>1, <3>2, <2>7, <2>13, <2>14
  <2>17. Node(v, d).copy # Null
    BY <2>7, <2>13, <2>14
  <2> QED
    BY <2>7, <2>8, <2>10, <2>12, <2>14, <2>15, <2>16, <2>17 DEF Sound, v
<1> QED
  BY <1>a, <1>b

\* markChanged() marks a set of drafts that is closed upwards.
LEMMA MarkChangedSound ==
    ASSUME NEW w, Sound(w), NEW d \in DraftIds(w), Node(w, d).copy # Null
    PROVE  LET v == MarkChanged(w, d)
           IN  /\ Sound(v)
               /\ DraftIds(v) = DraftIds(w)
               /\ v.heap = w.heap
               /\ Node(v, d).operated
               /\ \A x \in DraftIds(w) : /\ Node(v, x).copy = Node(w, x).copy
                                         /\ Node(v, x).original = Node(w, x).original
<1> DEFINE up == Climbed(w, d)
           ds == [x \in DraftIds(w) |->
                    IF x \in up THEN [w.drafts[x] EXCEPT !.operated = TRUE]
                                ELSE w.drafts[x]]
           next(x) == /\ ~Node(w, x).operated
                      /\ Node(w, x).parent # Null
           closed(S) == \A y \in S : next(y) => Node(w, y).parent \in S
<1>0. w \in World
  BY DEF Sound, WorldOK
<1>1. w.drafts \in [DraftIds(w) -> DraftState]
  BY <1>0, WorldParts DEF DraftIds
<1>2. up \subseteq DraftIds(w)
  BY DEF Climbed
<1>3. \A x \in up : Node(w, x).copy # Null
  <2> DEFINE S == {x \in DraftIds(w) : Node(w, x).copy # Null}
  <2>1. closed(S)
    BY DEF Sound, WorldOK, Linked
  <2>2. S \in SUBSET DraftIds(w) /\ d \in S
    OBVIOUS
  <2>3. up \subseteq S
    BY <2>1, <2>2 DEF Climbed
  <2> QED
    BY <2>3
<1>4. \A x \in up : next(x) => Node(w, x).parent \in up
  <2> SUFFICES ASSUME NEW x \in up, next(x)
               PROVE  Node(w, x).parent \in up
    OBVIOUS
  <2>1. Node(w, x).parent \in DraftIds(w)
    BY <1>2 DEF Sound, WorldOK
  <2>2. ASSUME NEW S \in SUBSET DraftIds(w), d \in S, closed(S)
        PROVE  Node(w, x).parent \in S
    <3>1. x \in S
      BY <2>2 DEF Climbed
    <3> QED
      BY <2>2, <3>1
  <2> QED
    BY <2>1, <2>2 DEF Climbed
<1>5. ds \in [DOMAIN w.drafts -> DraftState]
  BY <1>1 DEF DraftState, DraftIds
<1>6. \A x \in DraftIds(w) :
         /\ ds[x].original = w.drafts[x].original
         /\ ds[x].copy = w.drafts[x].copy
         /\ ds[x].parent = w.drafts[x].parent
         /\ ds[x].key = w.drafts[x].key
         /\ ds[x].callbacks = w.drafts[x].callbacks
         /\ ds[x].assigned = w.drafts[x].assigned
         /\ ds[x].operated = (x \in up \/ w.drafts[x].operated)
  <2> SUFFICES ASSUME NEW x \in DraftIds(w)
               PROVE  /\ ds[x].original = w.drafts[x].original
                      /\ ds[x].copy = w.drafts[x].copy
                      /\ ds[x].parent = w.drafts[x].parent
                      /\ ds[x].key = w.drafts[x].key
                      /\ ds[x].callbacks = w.drafts[x].callbacks
                      /\ ds[x].assigned = w.drafts[x].assigned
                      /\ ds[x].operated = (x \in up \/ w.drafts[x].operated)
    OBVIOUS
  <2>1. w.drafts[x] \in DraftState
    BY <1>1
  <2> QED
    BY <2>1 DEF DraftState
<1>7. MarkChanged(w, d) = [w EXCEPT !.drafts = ds]
  BY DEF MarkChanged
<1>8. DOMAIN ds = DraftIds(w) /\ d \in up
  BY DEF Climbed
<1> HIDE DEF ds, up
<1>e. ASSUME NEW x \in DraftIds(w), NEW k \in Keys, ds[x].assigned[k] # "none"
      PROVE  ds[x].operated
  <2>1. w.drafts[x].operated
    BY <1>6, <1>e DEF Sound, Marked, HasEntries, Node
  <2> QED
    BY <1>6, <2>1
<1>9. \A x \in DraftIds(w) :
         ds[x].operated =>
            /\ ds[x].copy # Null
            /\ ds[x].parent # Null => ds[ds[x].parent].operated
  <2> SUFFICES ASSUME NEW x \in DraftIds(w), ds[x].operated
               PROVE  /\ ds[x].copy # Null
                      /\ ds[x].parent # Null => ds[ds[x].parent].operated
    OBVIOUS
  <2>1. /\ Node(w, x) = w.drafts[x]
        /\ Node(w, x).parent \in DraftIds(w) \cup {Null}
        /\ Node(w, x).operated =>
              /\ Node(w, x).copy # Null
              /\ Node(w, x).parent # Null => Node(w, Node(w, x).parent).operated
    BY DEF Sound, WorldOK, Marked, Node
  <2>2. Node(w, x).copy # Null
    BY <1>3, <1>6, <2>1
  <2>3. ASSUME Node(w, x).parent # Null
        PROVE  \/ Node(w, x).parent \in up
               \/ w.drafts[Node(w, x).parent].operated
    BY <1>4, <1>6, <2>1, <2>3 DEF Node
  <2> QED
    BY ZenonT(60), <1>6, <2>1, <2>2, <2>3
<1>10. \A x \in DraftIds(w) :
          /\ \A i \in DOMAIN ds[x].callbacks :
                ds[x].callbacks[i].target \in DraftIds(w)
          /\ (\E k \in Keys : ds[x].assigned[k] # "none") => ds[x].operated
          /\ ds[x].operated =>
                /\ ds[x].copy # Null
                /\ ds[x].parent # Null => ds[ds[x].parent].operated
  BY <1>6, <1>9, <1>e DEF Sound, WorldOK, Node
<1>11. Sound([w EXCEPT !.drafts = ds])
  BY <1>5, <1>6, <1>10, DraftsChange
<1>12. LET v == [w EXCEPT !.drafts = ds]
       IN  v.heap = w.heap /\ v.drafts = ds
  BY <1>0 DEF World
<1>13. ds[d].operated
  BY <1>6, <1>8
<1> QED
  BY <1>6, <1>7, <1>8, <1>11, <1>12, <1>13 DEF DraftIds, Node

\* createDraft() keeps a world sound.
LEMMA CreateDraftSound ==
    ASSUME NEW w, Sound(w), NEW a \in DOMAIN base,
           NEW p \in DraftIds(w), Node(w, p).copy # Null, NEW k \in Keys
    PROVE  LET v == CreateDraft(w, a, p, k)
           IN  /\ Sound(v)
               /\ DraftIds(v) = DraftIds(w) \cup {Len(v.drafts)}
               /\ Len(v.drafts) \in Nat
               /\ v.heap = w.heap
               /\ \A x \in DraftIds(w) : Node(v, x) = Node(w, x)
<1> DEFINE v == CreateDraft(w, a, p, k)
           n == Len(w.drafts) + 1
           new == [original |-> a, copy |-> Null, parent |-> p, key |-> k,
                   operated |-> FALSE, finalized |-> FALSE,
                   assigned |-> [i \in Keys |-> "none"], callbacks |-> <<>>]
           ds == Append(w.drafts, new)
           task == [kind |-> "node", draft |-> n]
           ts == Append(w.tasks, task)
<1>0. w \in World
  BY DEF Sound, WorldOK
<1>1. /\ w.heap \in Seq(Object) /\ w.drafts \in Seq(DraftState) /\ w.tasks \in Seq(Task)
      /\ DOMAIN w.heap = 1 .. Len(w.heap) /\ Len(w.heap) \in Nat
      /\ DOMAIN w.drafts = 1 .. Len(w.drafts) /\ Len(w.drafts) \in Nat
      /\ DOMAIN w.tasks = 1 .. Len(w.tasks) /\ Len(w.tasks) \in Nat
  BY <1>0, WorldParts DEF World
<1>2. n \in Nat /\ n \notin DOMAIN w.drafts
  BY <1>1
<1>a. a \in DOMAIN w.heap
  BY DEF Sound, Kept
<1>3. new \in DraftState
  <2>1. a \in Nat /\ p \in Nat
    BY <1>1, <1>a DEF DraftIds
  <2>2. <<>> \in Seq(Callback)
    OBVIOUS
  <2> QED
    BY <2>1, <2>2 DEF DraftState, Flags, Null
<1>4. task \in Task
  BY <1>2 DEF Task
<1>5. /\ ds \in Seq(DraftState) /\ Len(ds) = n /\ DOMAIN ds = 1 .. n
      /\ \A x \in DOMAIN w.drafts : ds[x] = w.drafts[x]
      /\ ds[n] = new
  BY <1>1, <1>2, <1>3, AppendProperties, LenProperties
<1>6. /\ ts \in Seq(Task) /\ DOMAIN ts = 1 .. Len(w.tasks) + 1
      /\ \A i \in DOMAIN w.tasks : ts[i] = w.tasks[i]
      /\ ts[Len(w.tasks) + 1] = task
  BY <1>1, <1>4, AppendProperties, LenProperties
<1>7. v = [w EXCEPT !.drafts = ds, !.tasks = ts]
  BY DEF CreateDraft
<1>8. v \in World /\ v.heap = w.heap /\ v.drafts = ds /\ v.tasks = ts
  BY <1>0, <1>5, <1>6, <1>7 DEF World
<1>9. DraftIds(v) = DraftIds(w) \cup {n}
  BY <1>1, <1>5, <1>8 DEF DraftIds
<1>10. /\ new.original = a /\ new.copy = Null /\ new.parent = p /\ new.key = k
       /\ new.operated = FALSE /\ new.callbacks = <<>>
       /\ \A i \in Keys : new.assigned[i] = "none"
       /\ task.draft = n
  OBVIOUS
<1> HIDE DEF v, ds, ts, new, task, n
<1>11. /\ \A x \in DraftIds(w) : Node(v, x) = Node(w, x)
       /\ Node(v, n) = new
  BY <1>5, <1>8 DEF Node, DraftIds
<1>12. WorldOK(v)
  <2>1. \A b \in DOMAIN v.heap, i \in Keys : ExistsIn(v, v.heap[b].at[i])
    BY <1>8, <1>9 DEF Sound, WorldOK, ExistsIn
  <2>2. ASSUME NEW x \in DraftIds(v)
        PROVE  /\ Node(v, x).original \in DOMAIN v.heap
               /\ Node(v, x).copy \in DOMAIN v.heap \cup {Null}
               /\ Node(v, x).parent \in DraftIds(v) \cup {Null}
               /\ Node(v, x).parent # Null => Node(v, x).key \in Keys
               /\ \A i \in DOMAIN Node(v, x).callbacks :
                     Node(v, x).callbacks[i].target \in DraftIds(v)
    <3>1. CASE x \in DraftIds(w)
      BY <3>1, <1>8, <1>9, <1>11 DEF Sound, WorldOK
    <3>2. CASE x = n
      BY <3>2, <1>a, <1>8, <1>9, <1>10, <1>11
    <3> QED
      BY <3>1, <3>2, <1>9
  <2>3. \A i \in DOMAIN v.tasks : v.tasks[i].draft \in DraftIds(v)
    <3> SUFFICES ASSUME NEW i \in DOMAIN v.tasks
                 PROVE  v.tasks[i].draft \in DraftIds(v)
      OBVIOUS
    <3>1. CASE i \in DOMAIN w.tasks
      BY <3>1, <1>6, <1>8, <1>9 DEF Sound, WorldOK
    <3>2. CASE i = Len(w.tasks) + 1
      BY <3>2, <1>6, <1>8, <1>9, <1>10
    <3> QED
      BY <3>1, <3>2, <1>1, <1>6, <1>8
  <2> QED
    BY <1>8, <1>9, <2>1, <2>2, <2>3 DEF Sound, WorldOK
<1>13. Kept(v)
  <2>1. Null \notin DOMAIN base
    BY <1>1 DEF Sound, Kept, Null
  <2> QED
    BY <1>8, <1>9, <1>10, <1>11, <2>1 DEF Sound, Kept
<1>14. Linked(v)
  <2> SUFFICES ASSUME NEW x \in DraftIds(v), Node(v, x).parent # Null
               PROVE  Node(v, Node(v, x).parent).copy # Null
    BY DEF Linked
  <2>1. CASE x \in DraftIds(w)
    BY <2>1, <1>11 DEF Sound, WorldOK, Linked
  <2>2. CASE x = n
    BY <2>2, <1>10, <1>11
  <2> QED
    BY <2>1, <2>2, <1>9
<1>15. Marked(v)
  <2>e. ASSUME NEW x \in DraftIds(v), HasEntries(v, x)
        PROVE  Node(v, x).operated
    <3>1. x \in DraftIds(w)
      BY <2>e, <1>9, <1>10, <1>11 DEF HasEntries
    <3> QED
      BY <2>e, <3>1, <1>11 DEF Sound, Marked, HasEntries
  <2> SUFFICES ASSUME NEW x \in DraftIds(v), Node(v, x).operated
               PROVE  /\ Node(v, x).copy # Null
                      /\ Node(v, x).parent # Null =>
                            Node(v, Node(v, x).parent).operated
    BY <2>e DEF Marked
  <2>1. CASE x \in DraftIds(w)
    BY <2>1, <1>11 DEF Sound, WorldOK, Marked
  <2>2. CASE x = n
    BY <2>2, <1>10, <1>11
  <2> QED
    BY <2>1, <2>2, <1>9
<1> QED
  BY <1>2, <1>5, <1>8, <1>9, <1>11, <1>12, <1>13, <1>14, <1>15 DEF Sound, v

\* A read through a draft.
LEMMA DraftChildSound ==
    ASSUME NEW w, Sound(w), BaseClosed, NEW d \in DraftIds(w), NEW k \in Keys,
           IsObj(Latest(w, d).at[k]),
           Latest(w, d).at[k] = Original(w, d).at[k]
    PROVE  Sound(DraftChild(w, d, k))
<1> DEFINE a == Latest(w, d).at[k].id
           w1 == EnsureShallowCopy(w, d)
           w2 == CreateDraft(w1, a, d, k)
           n == Len(w2.drafts)
<1>1. /\ Sound(w1) /\ DraftIds(w1) = DraftIds(w)
      /\ DOMAIN w.heap \subseteq DOMAIN w1.heap
      /\ Node(w1, d).copy # Null
  BY EnsureShallowCopySound
<1>2. Node(w, d).original \in DOMAIN base
      /\ Original(w, d) = base[Node(w, d).original]
  BY DEF Sound, Kept, Original
<1>3. a \in DOMAIN base
  BY <1>2 DEF BaseClosed
<1>4. /\ Sound(w2) /\ DraftIds(w2) = DraftIds(w1) \cup {n} /\ n \in Nat
      /\ Node(w2, d) = Node(w1, d)
  BY <1>1, <1>3, CreateDraftSound
<1>5. Draft(n) \in Value /\ ExistsIn(w2, Draft(n))
  BY <1>4 DEF Draft, Value, ExistsIn, IsObj, IsDraft
<1>6. Sound(Put(w2, d, k, Draft(n)))
  BY <1>1, <1>4, <1>5, PutSound
<1> QED
  BY <1>6 DEF DraftChild

\* markFinalization() keeps a world sound.
LEMMA MarkFinalizationSound ==
    ASSUME NEW w, Sound(w), NEW d \in DraftIds(w), NEW k \in Keys,
           NEW v \in Value, ExistsIn(w, v)
    PROVE  Sound(MarkFinalization(w, d, k, v))
<1>0. /\ w \in World /\ w.tasks \in Seq(Task) /\ w.handled \in SUBSET Nat
      /\ DOMAIN w.tasks = 1 .. Len(w.tasks) /\ Len(w.tasks) \in Nat
      /\ w.drafts \in [DraftIds(w) -> DraftState]
      /\ d \in Nat
  BY WorldParts DEF Sound, WorldOK, World, DraftIds
<1>1. CASE IsDraft(v)
  <2> DEFINE e == v.id
             call == [target |-> d, key |-> k]
             cs == Append(w.drafts[e].callbacks, call)
             ds == [w.drafts EXCEPT ![e].callbacks = cs]
  <2>1. e \in DraftIds(w)
    BY <1>1 DEF ExistsIn
  <2>2. w.drafts[e].callbacks \in Seq(Callback) /\ call \in Callback
    BY <1>0, <2>1 DEF DraftState, Callback
  <2>3. /\ cs \in Seq(Callback)
        /\ \A i \in DOMAIN cs : cs[i].target \in DraftIds(w)
    <3> DEFINE old == w.drafts[e].callbacks
    <3>1. \A i \in DOMAIN old : old[i].target \in DraftIds(w)
      BY <2>1 DEF Sound, WorldOK, Node
    <3>2. old \in Seq(Callback) /\ cs = Append(old, call) /\ call.target = d
      BY <2>2
    <3> HIDE DEF old, call, cs
    <3>3. /\ cs \in Seq(Callback) /\ Len(cs) = Len(old) + 1
          /\ \A i \in 1 .. Len(old) : cs[i] = old[i]
          /\ cs[Len(old) + 1] = call
      BY <2>2, <3>2, AppendProperties
    <3>4. /\ DOMAIN cs = 1 .. Len(cs) /\ DOMAIN old = 1 .. Len(old)
          /\ Len(old) \in Nat
      BY <3>2, <3>3, LenProperties
    <3> QED
      BY <3>1, <3>2, <3>3, <3>4
  <2>4. MarkFinalization(w, d, k, v) = [w EXCEPT !.drafts = ds]
    BY <1>1 DEF MarkFinalization, IsDraft, IsObj
  <2> HIDE DEF cs
  <2>5. ds \in [DOMAIN w.drafts -> DraftState]
    <3>1. [w.drafts[e] EXCEPT !.callbacks = cs] \in DraftState
      BY ZenonT(60), <1>0, <2>1, <2>3 DEF DraftState
    <3> QED
      BY <1>0, <2>1, <3>1 DEF DraftIds
  <2>6. \A x \in DraftIds(w) :
           /\ ds[x].original = w.drafts[x].original
           /\ ds[x].copy = w.drafts[x].copy
           /\ ds[x].parent = w.drafts[x].parent
           /\ ds[x].key = w.drafts[x].key
           /\ ds[x].operated = w.drafts[x].operated
           /\ ds[x].assigned = w.drafts[x].assigned
           /\ ds[x].callbacks = IF x = e THEN cs ELSE w.drafts[x].callbacks
    BY <1>0, <2>1 DEF DraftState
  <2> HIDE DEF ds
  <2>e. ASSUME NEW x \in DraftIds(w), NEW j \in Keys, ds[x].assigned[j] # "none"
        PROVE  ds[x].operated
    <3>1. w.drafts[x].operated
      BY <2>6, <2>e DEF Sound, Marked, HasEntries, Node
    <3> QED
      BY <2>6, <3>1
  <2>7. \A x \in DraftIds(w) :
           /\ \A i \in DOMAIN ds[x].callbacks :
                 ds[x].callbacks[i].target \in DraftIds(w)
           /\ (\E j \in Keys : ds[x].assigned[j] # "none") => ds[x].operated
           /\ ds[x].operated =>
                 /\ ds[x].copy # Null
                 /\ ds[x].parent # Null => ds[ds[x].parent].operated
    BY <2>3, <2>6, <2>e DEF Sound, WorldOK, Marked, Node
  <2>8. Sound([w EXCEPT !.drafts = ds])
    BY <2>5, <2>6, <2>7, DraftsChange
  <2> QED
    BY <2>4, <2>8
<1>2. CASE ~IsDraft(v) /\ IsObj(v)
  <2> DEFINE task == [kind |-> "assigned", draft |-> d, key |-> k, value |-> v]
             ts == Append(w.tasks, task)
  <2>1. task \in Task
    BY <1>0 DEF Task
  <2>2. /\ ts \in Seq(Task) /\ DOMAIN ts = 1 .. Len(w.tasks) + 1
        /\ \A i \in DOMAIN w.tasks : ts[i] = w.tasks[i]
        /\ ts[Len(w.tasks) + 1] = task
    BY <1>0, <2>1, AppendProperties, LenProperties
  <2>3. task.draft = d
    OBVIOUS
  <2>4. MarkFinalization(w, d, k, v) = [w EXCEPT !.tasks = ts]
    BY <1>2 DEF MarkFinalization, IsDraft, IsObj
  <2>5. [w EXCEPT !.tasks = ts] = [w EXCEPT !.tasks = ts, !.handled = w.handled]
    BY <1>0 DEF World
  <2> HIDE DEF task, ts
  <2>6. \A i \in DOMAIN ts : ts[i].draft \in DraftIds(w)
    <3>1. \A i \in DOMAIN w.tasks : w.tasks[i].draft \in DraftIds(w)
      BY DEF Sound, WorldOK
    <3>2. w.tasks \in Seq(Task)
      BY <1>0 DEF World
    <3>3. DOMAIN ts = DOMAIN w.tasks \cup {Len(w.tasks) + 1}
      BY <2>2, <3>2, LenProperties
    <3> QED
      BY <2>2, <2>3, <3>1, <3>3
  <2>7. Sound([w EXCEPT !.tasks = ts, !.handled = w.handled])
    BY <1>0, <2>2, <2>6, TasksChange
  <2> QED
    BY <2>4, <2>5, <2>7
<1>3. CASE ~IsDraft(v) /\ ~IsObj(v)
  BY <1>3 DEF MarkFinalization
<1> QED
  BY <1>1, <1>2, <1>3

\* The final value of a draft exists.
LEMMA FinalExists ==
    ASSUME NEW w, Sound(w), NEW d \in DraftIds(w)
    PROVE  Final(w, d) \in Value /\ ExistsIn(w, Final(w, d)) /\ ~IsDraft(Final(w, d))
<1>1. /\ DOMAIN w.heap \subseteq Nat
      /\ Node(w, d).original \in DOMAIN w.heap
      /\ Node(w, d).operated => Node(w, d).copy \in DOMAIN w.heap
  BY WorldParts DEF Sound, WorldOK, Marked
<1> QED
  BY <1>1 DEF Final, Obj, Value, ExistsIn, IsObj, IsDraft

\* Writing into an object, key by key.
LEMMA ObjectChange ==
    ASSUME NEW o \in Object, NEW at \in [Keys -> Value]
    PROVE  /\ [o EXCEPT !.at = at] \in Object
           /\ [o EXCEPT !.at = at].at = at
           /\ at = o.at => [o EXCEPT !.at = at] = o
BY DEF Object

\* A change of objects that replaces only drafts, by values that exist.
LEMMA SettleSound ==
    ASSUME NEW w, Sound(w), BaseClosed,
           NEW at \in [DOMAIN w.heap -> [Keys -> Value]],
           \A a \in DOMAIN w.heap, k \in Keys :
              \/ at[a][k] = w.heap[a].at[k]
              \/ IsDraft(w.heap[a].at[k]) /\ ExistsIn(w, at[a][k])
    PROVE  LET h == [a \in DOMAIN w.heap |-> [w.heap[a] EXCEPT !.at = at[a]]]
           IN  Sound([w EXCEPT !.heap = h])
<1> DEFINE h == [a \in DOMAIN w.heap |-> [w.heap[a] EXCEPT !.at = at[a]]]
<1>1. w.heap \in [DOMAIN w.heap -> Object]
  BY WorldParts DEF Sound, WorldOK
<1>2. ASSUME NEW a \in DOMAIN w.heap
      PROVE  h[a] \in Object /\ h[a].at = at[a]
             /\ (at[a] = w.heap[a].at => h[a] = w.heap[a])
  BY <1>1, ObjectChange
<1>3. h \in [DOMAIN w.heap -> Object]
  BY <1>2
<1> HIDE DEF h
<1>4. ASSUME NEW a \in DOMAIN base
      PROVE  h[a] = w.heap[a]
  <2>1. a \in DOMAIN w.heap /\ w.heap[a] = base[a]
    BY DEF Sound, Kept
  <2>2. w.heap[a].at \in [Keys -> Value]
    BY <1>1, <2>1 DEF Object
  <2>3. \A k \in Keys : at[a][k] = w.heap[a].at[k]
    BY <2>1 DEF BaseClosed
  <2>4. at[a] = w.heap[a].at
    BY <2>1, <2>2, <2>3
  <2> QED
    BY <1>2, <2>1, <2>4
<1>5. \A a \in DOMAIN w.heap, k \in Keys : ExistsIn(w, h[a].at[k])
  BY <1>2 DEF Sound, WorldOK
<1>6. Sound([w EXCEPT !.heap = h])
  BY <1>3, <1>4, <1>5, HeapChange
<1> QED
  BY <1>6 DEF h

\* A draft with entries in its assignedMap is marked, so that both tests of
\* finalization agree.
LEMMA EntriesMarked ==
    ASSUME NEW w, Sound(w), NEW d \in DraftIds(w)
    PROVE  HasEntries(w, d) => Node(w, d).operated
BY DEF Sound, Marked

\* handleValue() keeps a world sound: what it takes for changed has a
\* copy.
LEMMA HandleValueSound ==
    ASSUME NEW w, Sound(w), BaseClosed, NEW v
    PROVE  Sound(HandleValue(w, v))
<1> DEFINE visited == Visited(w, v)
           settled(u) == IF IsDraft(u) THEN Final(w, u.id) ELSE u
           stands(u) == IF IsDraft(u)
                        THEN Obj(IF HasEntries(w, u.id) \/ Node(w, u.id).operated
                                 THEN Node(w, u.id).copy
                                 ELSE Node(w, u.id).original)
                        ELSE u
           at == [a \in DOMAIN w.heap |-> [k \in Keys |->
                    IF a \in visited THEN settled(w.heap[a].at[k])
                                     ELSE w.heap[a].at[k]]]
           h == [a \in DOMAIN w.heap |-> [w.heap[a] EXCEPT !.at = at[a]]]
           g == [a \in DOMAIN w.heap |->
                   IF a \in visited
                   THEN [w.heap[a] EXCEPT !.at = [k \in Keys |-> stands(@[k])]]
                   ELSE w.heap[a]]
           hs == w.handled \cup visited
           w1 == [w EXCEPT !.heap = h]
<1>1. /\ w \in World /\ w.heap \in [DOMAIN w.heap -> Object]
      /\ DOMAIN w.heap \subseteq Nat
      /\ w.tasks \in Seq(Task) /\ w.handled \subseteq Nat
  BY WorldParts DEF Sound, WorldOK, World
<1>2. ASSUME NEW a \in DOMAIN w.heap, NEW k \in Keys
      PROVE  /\ at[a][k] \in Value
             /\ \/ at[a][k] = w.heap[a].at[k]
                \/ IsDraft(w.heap[a].at[k]) /\ ExistsIn(w, at[a][k])
  <2>1. w.heap[a].at[k] \in Value /\ ExistsIn(w, w.heap[a].at[k])
    BY <1>1 DEF Object, Sound, WorldOK
  <2>2. CASE IsDraft(w.heap[a].at[k])
    <3>1. /\ Final(w, w.heap[a].at[k].id) \in Value
          /\ ExistsIn(w, Final(w, w.heap[a].at[k].id))
      BY <2>1, <2>2, FinalExists DEF ExistsIn
    <3> QED
      BY <2>1, <2>2, <3>1
  <2>3. CASE ~IsDraft(w.heap[a].at[k])
    BY <2>1, <2>3
  <2> QED
    BY <2>2, <2>3
<1>3. at \in [DOMAIN w.heap -> [Keys -> Value]]
  BY <1>2
<1>4. Sound(w1)
  <2> HIDE DEF at
  <2> QED
    BY <1>2, <1>3, SettleSound
<1>5. g = h
  <2>1. ASSUME NEW a \in DOMAIN w.heap
        PROVE  g[a] = h[a]
    <3>1. CASE a \in visited
      <4>1. \A k \in Keys : stands(w.heap[a].at[k]) = settled(w.heap[a].at[k])
        BY <1>1, EntriesMarked DEF Final, Sound, WorldOK, ExistsIn
      <4>2. [k \in Keys |-> stands(w.heap[a].at[k])] = at[a]
        BY <3>1, <4>1
      <4> HIDE DEF settled, stands, at
      <4> QED
        BY <3>1, <4>2
    <3>2. CASE a \notin visited
      <4>1. w.heap[a] \in Object /\ w.heap[a].at \in [Keys -> Value]
        BY <1>1 DEF Object
      <4>2. at[a] = w.heap[a].at
        BY <3>2, <4>1
      <4> HIDE DEF at
      <4>3. [w.heap[a] EXCEPT !.at = at[a]] = w.heap[a]
        BY <4>1, <4>2, ObjectChange
      <4> QED
        BY <3>2, <4>3
    <3> QED
      BY <3>1, <3>2
  <2> QED
    BY <2>1
<1>6. HandleValue(w, v) = [w EXCEPT !.heap = g, !.handled = hs]
  BY DEF HandleValue
<1> HIDE DEF g, h
<1>7. /\ w1.tasks = w.tasks /\ w1.drafts = w.drafts /\ w1.heap = h
      /\ w1.handled = w.handled
      /\ [w EXCEPT !.heap = h, !.handled = hs]
         = [w1 EXCEPT !.tasks = w.tasks, !.handled = hs]
  BY <1>1 DEF World
<1>8. hs \in SUBSET Nat
  BY <1>1 DEF Visited, LedTo
<1>9. \A i \in DOMAIN w.tasks : w.tasks[i].draft \in DraftIds(w1)
  BY <1>7 DEF Sound, WorldOK, DraftIds
<1>10. Sound([w1 EXCEPT !.tasks = w.tasks, !.handled = hs])
  BY <1>1, <1>4, <1>8, <1>9, TasksChange
<1> QED
  BY <1>5, <1>6, <1>7, <1>10

\* The callbacks of a draft keep a world sound.
LEMMA RunCallbacksSound ==
    ASSUME NEW w, Sound(w), BaseClosed, NEW d \in DraftIds(w)
    PROVE  Sound(RunCallbacks(w, d))
<1> DEFINE there(a, k) == \E i \in DOMAIN Node(w, d).callbacks :
                            LET callback == Node(w, d).callbacks[i]
                            IN  /\ Node(w, callback.target).copy = a
                                /\ callback.key = k
           at == [a \in DOMAIN w.heap |-> [k \in Keys |->
                    IF there(a, k) /\ w.heap[a].at[k] = Draft(d)
                    THEN Final(w, d) ELSE w.heap[a].at[k]]]
           h == [a \in DOMAIN w.heap |-> [w.heap[a] EXCEPT !.at = at[a]]]
           g == [a \in DOMAIN w.heap |->
                   [w.heap[a] EXCEPT !.at = [k \in Keys |->
                       IF there(a, k) /\ @[k] = Draft(d)
                       THEN Final(w, d) ELSE @[k]]]]
<1>1. w.heap \in [DOMAIN w.heap -> Object]
  BY WorldParts DEF Sound, WorldOK
<1>2. Final(w, d) \in Value /\ ExistsIn(w, Final(w, d))
  BY FinalExists
<1>3. ASSUME NEW a \in DOMAIN w.heap, NEW k \in Keys
      PROVE  /\ at[a][k] \in Value
             /\ \/ at[a][k] = w.heap[a].at[k]
                \/ IsDraft(w.heap[a].at[k]) /\ ExistsIn(w, at[a][k])
  <2>1. w.heap[a].at[k] \in Value
    BY <1>1 DEF Object
  <2>2. IsDraft(Draft(d))
    BY DEF IsDraft, Draft
  <2> HIDE DEF there
  <2>3. at[a][k] = IF there(a, k) /\ w.heap[a].at[k] = Draft(d)
                   THEN Final(w, d) ELSE w.heap[a].at[k]
    OBVIOUS
  <2> QED
    BY <1>2, <2>1, <2>2, <2>3
<1>4. at \in [DOMAIN w.heap -> [Keys -> Value]]
  BY <1>3
<1>5. g = h
  OBVIOUS
<1>6. RunCallbacks(w, d) = [w EXCEPT !.heap = g]
  BY DEF RunCallbacks
<1> HIDE DEF at
<1>7. Sound([w EXCEPT !.heap = h])
  BY <1>3, <1>4, SettleSound
<1> QED
  BY <1>5, <1>6, <1>7

\* finalizePatches() marks the draft whose patches it generated.
LEMMA FinalizedSound ==
    ASSUME NEW w, Sound(w), NEW d \in DraftIds(w)
    PROVE  Sound(Finalized(w, d)) /\ DraftIds(Finalized(w, d)) = DraftIds(w)
           /\ \A x \in DraftIds(w) :
                 /\ Node(Finalized(w, d), x).copy = Node(w, x).copy
                 /\ Node(Finalized(w, d), x).parent = Node(w, x).parent
                 /\ Node(Finalized(w, d), x).key = Node(w, x).key
<1> DEFINE ds == [w.drafts EXCEPT ![d].finalized = TRUE]
<1>0. w \in World
  BY DEF Sound, WorldOK
<1>1. w.drafts \in [DraftIds(w) -> DraftState]
  BY <1>0, WorldParts DEF DraftIds
<1>2. ds \in [DOMAIN w.drafts -> DraftState]
  BY <1>1 DEF DraftState, DraftIds
<1>3. \A x \in DraftIds(w) :
         /\ ds[x].original = w.drafts[x].original
         /\ ds[x].copy = w.drafts[x].copy
         /\ ds[x].parent = w.drafts[x].parent
         /\ ds[x].key = w.drafts[x].key
         /\ ds[x].operated = w.drafts[x].operated
         /\ ds[x].assigned = w.drafts[x].assigned
         /\ ds[x].callbacks = w.drafts[x].callbacks
  BY <1>1 DEF DraftState
<1>4. DOMAIN ds = DraftIds(w)
  BY <1>2 DEF DraftIds
<1> HIDE DEF ds
<1>e. ASSUME NEW x \in DraftIds(w), NEW k \in Keys, ds[x].assigned[k] # "none"
      PROVE  ds[x].operated
  <2>1. w.drafts[x].operated
    BY <1>3, <1>e DEF Sound, Marked, HasEntries, Node
  <2> QED
    BY <1>3, <2>1
<1>5. \A x \in DraftIds(w) :
         /\ \A i \in DOMAIN ds[x].callbacks :
               ds[x].callbacks[i].target \in DraftIds(w)
         /\ (\E k \in Keys : ds[x].assigned[k] # "none") => ds[x].operated
         /\ ds[x].operated =>
               /\ ds[x].copy # Null
               /\ ds[x].parent # Null => ds[ds[x].parent].operated
  BY <1>3, <1>e DEF Sound, WorldOK, Marked, Node
<1>6. Sound([w EXCEPT !.drafts = ds])
  BY <1>2, <1>3, <1>5, DraftsChange
<1>7. [w EXCEPT !.drafts = ds].drafts = ds
  BY <1>0 DEF World
<1>a. CASE Generates(w, d)
  <2>1. Finalized(w, d) = [w EXCEPT !.drafts = ds]
    BY <1>a DEF Finalized, ds
  <2> QED
    BY <1>3, <1>4, <1>6, <1>7, <2>1 DEF DraftIds, Node
<1>b. CASE ~Generates(w, d)
  BY <1>b DEF Finalized
<1> QED
  BY <1>a, <1>b

\* finalities.draft.pop().
LEMMA PoppedSound ==
    ASSUME NEW w, Sound(w), w.tasks # <<>>
    PROVE  LET v == [w EXCEPT !.tasks = Front(@)]
           IN  Sound(v) /\ v.drafts = w.drafts /\ v.heap = w.heap
               /\ Last(w.tasks) \in Task /\ Last(w.tasks).draft \in DraftIds(w)
<1> DEFINE ts == SubSeq(w.tasks, 1, Len(w.tasks) - 1)
<1>0. /\ w \in World /\ w.tasks \in Seq(Task) /\ w.handled \in SUBSET Nat
      /\ DOMAIN w.tasks = 1 .. Len(w.tasks) /\ Len(w.tasks) \in Nat
      /\ w.tasks \in [1 .. Len(w.tasks) -> Task]
  BY WorldParts DEF Sound, WorldOK, World
<1>1. Len(w.tasks) # 0
  BY <1>0, EmptySeq
<1>2. Last(w.tasks) = w.tasks[Len(w.tasks)]
  BY DEF Last
<1>3. ts \in Seq(Task) /\ DOMAIN ts = 1 .. Len(w.tasks) - 1
      /\ \A i \in DOMAIN ts : ts[i] = w.tasks[i]
  BY <1>0, <1>1
<1>4. \A i \in DOMAIN ts : ts[i].draft \in DraftIds(w)
  BY <1>0, <1>3 DEF Sound, WorldOK
<1>5. Sound([w EXCEPT !.tasks = ts, !.handled = w.handled])
  BY <1>0, <1>3, <1>4, TasksChange
<1>6. [w EXCEPT !.tasks = Front(@)] = [w EXCEPT !.tasks = ts, !.handled = w.handled]
  BY <1>0 DEF World, Front
<1>7. w.tasks[Len(w.tasks)] \in Task /\ w.tasks[Len(w.tasks)].draft \in DraftIds(w)
  BY <1>0, <1>1 DEF Sound, WorldOK
<1> QED
  BY <1>0, <1>2, <1>5, <1>6, <1>7 DEF World

\* Map.clear().
LEMMA ClearSound ==
    ASSUME NEW w, Sound(w), NEW d \in DraftIds(w), Node(w, d).copy # Null,
           Node(w, d).operated, NEW flags \in [Keys -> Flags]
    PROVE  Sound([w EXCEPT !.drafts[d].assigned = flags,
                           !.heap[Node(w, d).copy] = Empty("map")])
<1> DEFINE c == Node(w, d).copy
           ds == [w.drafts EXCEPT ![d].assigned = flags]
           w1 == [w EXCEPT !.drafts = ds]
           h == [w.heap EXCEPT ![c] = Empty("map")]
<1>0. w \in World
  BY DEF Sound, WorldOK
<1>1. w.drafts \in [DraftIds(w) -> DraftState]
  BY <1>0, WorldParts DEF DraftIds
<1>2. ds \in [DOMAIN w.drafts -> DraftState]
  BY <1>1 DEF DraftState, DraftIds
<1>3. \A x \in DraftIds(w) :
         /\ ds[x].original = w.drafts[x].original
         /\ ds[x].copy = w.drafts[x].copy
         /\ ds[x].parent = w.drafts[x].parent
         /\ ds[x].key = w.drafts[x].key
         /\ ds[x].operated = w.drafts[x].operated
         /\ ds[x].callbacks = w.drafts[x].callbacks
         /\ x # d => ds[x].assigned = w.drafts[x].assigned
  BY <1>1 DEF DraftState
<1>e. ASSUME NEW x \in DraftIds(w), NEW k \in Keys, ds[x].assigned[k] # "none"
      PROVE  ds[x].operated
  <2> HIDE DEF ds
  <2>1. w.drafts[x].operated
    BY <1>3, <1>e DEF Sound, Marked, HasEntries, Node
  <2> QED
    BY <1>3, <2>1
<1>4. \A x \in DraftIds(w) :
         /\ \A i \in DOMAIN ds[x].callbacks :
               ds[x].callbacks[i].target \in DraftIds(w)
         /\ (\E k \in Keys : ds[x].assigned[k] # "none") => ds[x].operated
         /\ ds[x].operated =>
               /\ ds[x].copy # Null
               /\ ds[x].parent # Null => ds[ds[x].parent].operated
  <2> HIDE DEF ds
  <2> QED
    BY <1>3, <1>e DEF Sound, WorldOK, Marked, Node
<1>5. Sound(w1)
  <2> HIDE DEF ds
  <2> QED
    BY <1>2, <1>3, <1>4, DraftsChange
<1>6. w1.heap = w.heap /\ w1.tasks = w.tasks
  BY <1>0 DEF World
<1>7. c \in DOMAIN w.heap /\ c \notin DOMAIN base
  BY DEF Sound, WorldOK, Kept
<1>8. /\ Empty("map") \in Object
      /\ \A k \in Keys : Empty("map").at[k] = Absent
  BY DEF Empty, Object, ObjectTypes, Absent, Value
<1>9. /\ h \in [DOMAIN w1.heap -> Object]
      /\ \A a \in DOMAIN base : h[a] = w1.heap[a]
  BY <1>0, <1>6, <1>7, <1>8, WorldParts DEF Sound, Kept
<1>10. \A a \in DOMAIN w1.heap, k \in Keys : ExistsIn(w1, h[a].at[k])
  <2> SUFFICES ASSUME NEW a \in DOMAIN w1.heap, NEW k \in Keys
               PROVE  ExistsIn(w1, h[a].at[k])
    OBVIOUS
  <2>1. CASE a = c
    <3>1. h[a].at[k] = Absent
      BY <2>1, <1>6, <1>8
    <3> QED
      BY <3>1 DEF ExistsIn, IsObj, IsDraft, Absent
  <2>2. CASE a # c
    <3>1. h[a] = w1.heap[a]
      BY <2>2, <1>6
    <3> QED
      BY <3>1, <1>5 DEF Sound, WorldOK
  <2> QED
    BY <2>1, <2>2
<1>11. Sound([w1 EXCEPT !.heap = h])
  BY <1>5, <1>9, <1>10, HeapChange
<1>12. [w EXCEPT !.drafts[d].assigned = flags, !.heap[c] = Empty("map")]
       = [w1 EXCEPT !.heap = h]
  BY <1>0 DEF World
<1> QED
  BY <1>11, <1>12

\* A new object in the heap.
LEMMA HeapGrows ==
    ASSUME NEW w, Sound(w), NEW o \in Object,
           \A k \in Keys : ExistsIn(w, o.at[k])
    PROVE  Sound([w EXCEPT !.heap = Append(@, o)])
<1> DEFINE h == Append(w.heap, o)
           v == [w EXCEPT !.heap = h]
           n == Len(w.heap) + 1
<1>0. w \in World
  BY DEF Sound, WorldOK
<1>1. w.heap \in Seq(Object) /\ DOMAIN w.heap = 1 .. Len(w.heap) /\ Len(w.heap) \in Nat
  BY <1>0, WorldParts DEF World
<1>2. /\ h \in Seq(Object) /\ DOMAIN h = 1 .. n /\ n \in Nat
      /\ \A a \in DOMAIN w.heap : h[a] = w.heap[a]
      /\ h[n] = o
  BY <1>1, AppendProperties, LenProperties
<1>3. /\ v \in World
      /\ v.heap = h /\ v.drafts = w.drafts /\ v.tasks = w.tasks
  BY <1>0, <1>2 DEF World
<1>4. DOMAIN w.heap \subseteq DOMAIN v.heap
  BY <1>1, <1>2, <1>3
<1> HIDE DEF h, v
<1>5. \A a \in DOMAIN v.heap, k \in Keys : ExistsIn(v, v.heap[a].at[k])
  <2> SUFFICES ASSUME NEW a \in DOMAIN v.heap, NEW k \in Keys
               PROVE  ExistsIn(v, v.heap[a].at[k])
    OBVIOUS
  <2>1. ExistsIn(w, v.heap[a].at[k])
    <3>1. CASE a \in DOMAIN w.heap
      BY <3>1, <1>2, <1>3 DEF Sound, WorldOK
    <3>2. CASE a = n
      BY <3>2, <1>2, <1>3
    <3> QED
      BY <3>1, <3>2, <1>1, <1>2, <1>3
  <2> QED
    BY <2>1, <1>3, <1>4 DEF ExistsIn, DraftIds
<1>6. WorldOK(v)
  BY <1>3, <1>4, <1>5 DEF Sound, WorldOK, DraftIds, Node
<1>7. Kept(v) /\ Linked(v) /\ Marked(v)
  BY <1>2, <1>3, <1>4 DEF Sound, Kept, Linked, Marked, HasEntries, DraftIds, Node
<1> QED
  BY <1>6, <1>7 DEF Sound, v, h

-----------------------------------------------------------------------------
(***************************************************************************)
(* The inductive invariant, and one step per action.                       *)
(***************************************************************************)

IInv == TypeOK /\ Kept(W) /\ Linked(W) /\ Marked(W)

\* What the actions may use of it.
LEMMA InvParts ==
    ASSUME IInv
    PROVE  /\ Sound(W) /\ BaseClosed
           /\ W.heap = heap /\ W.drafts = drafts /\ W.tasks = tasks
           /\ DraftIds(W) = DOMAIN drafts /\ Root \in DraftIds(W)
           /\ DOMAIN base \subseteq DOMAIN heap
           /\ base \in Seq(Object) /\ Len(base) \in Nat
           /\ DOMAIN base = 1 .. Len(base)
<1>1. Sound(W)
  BY DEF IInv, TypeOK, Sound
<1>2. IsBase(base)
  BY BasesAssumption DEF IInv, TypeOK
<1>3. /\ base \in Seq(Object) /\ Len(base) \in Nat
      /\ DOMAIN base = 1 .. Len(base)
  BY <1>2, LenProperties DEF IsBase
<1>4. BaseClosed
  <2> SUFFICES ASSUME NEW a \in DOMAIN base, NEW k \in Keys
               PROVE  /\ base[a].at[k].kind # "draft"
                      /\ base[a].at[k].kind = "obj" =>
                            base[a].at[k].id \in DOMAIN base
    BY DEF BaseClosed, IsDraft, IsObj
  <2>1. CASE base[a].at[k] = Absent
    BY <2>1 DEF Absent
  <2>2. CASE base[a].at[k] \in PrimValues
    BY <2>2 DEF PrimValues, Prim
  <2>3. CASE \E c \in DOMAIN base : base[a].at[k] = Obj(c)
    BY <2>3 DEF Obj
  <2> QED
    BY <1>2, <2>1, <2>2, <2>3 DEF IsBase
<1>5. W.heap = heap /\ W.drafts = drafts /\ W.tasks = tasks
  BY DEF W
<1> QED
  BY <1>1, <1>3, <1>4, <1>5 DEF Sound, WorldOK, Kept, DraftIds

\* A step to a sound world keeps it.
LEMMA StepKeeps ==
    ASSUME IInv, NEW w, Sound(w), Become(w), base' = base,
           phase' \in Phases, returned' \in Seq(Value), Len(returned') <= 1,
           result' \in Value, writes' \in 0 .. MaxWrites
    PROVE  IInv'
<1>1. W' = w
  BY DEF Sound, WorldOK, World, W, Become
<1>2. WorldOK(w) /\ Kept(w) /\ Linked(w) /\ Marked(w)
  BY DEF Sound
<1>3. WorldOK(W)'
  BY <1>1, <1>2 DEF WorldOK, ExistsIn, DraftIds, Node, Root
<1>4. Kept(W)' /\ Linked(W)' /\ Marked(W)'
  BY <1>1, <1>2 DEF Kept, Linked, Marked, HasEntries, DraftIds, Node
<1>5. TypeOK'
  BY <1>3 DEF IInv, TypeOK
<1> QED
  BY <1>4, <1>5 DEF IInv

\* So does a step of the recipe, which Change counts.
LEMMA ChangeKeeps ==
    ASSUME IInv, NEW w, Sound(w), Change(w)
    PROVE  IInv'
<1>1. Become(w) /\ base' = base /\ phase' = phase /\ returned' = returned
      /\ result' = result /\ writes' = writes + 1 /\ writes < MaxWrites
  BY DEF Change
<1>2. /\ phase \in Phases /\ returned \in Seq(Value) /\ Len(returned) <= 1
      /\ result \in Value /\ writes \in 0 .. MaxWrites
  BY DEF IInv, TypeOK
<1>3. writes' \in 0 .. MaxWrites
  BY <1>1, <1>2, BoundsAssumption
<1> QED
  BY <1>1, <1>2, <1>3, StepKeeps

\* The recipe holds values that exist.
LEMMA RecipeValuesExist ==
    ASSUME IInv, NEW v \in RecipeValues
    PROVE  v \in Value /\ ExistsIn(W, v)
<1>1. DOMAIN drafts \subseteq Nat /\ DOMAIN heap \subseteq Nat
  BY InvParts, WorldParts DEF Sound, WorldOK
<1>2. CASE v \in PrimValues
  BY <1>2, DataAssumption DEF PrimValues, Prim, Value, ExistsIn, IsObj, IsDraft
<1>3. CASE v \in {Draft(d) : d \in DOMAIN drafts}
  BY <1>1, <1>3, InvParts DEF Draft, Value, ExistsIn, IsObj, IsDraft
<1>4. CASE v \in {Obj(a) : a \in DOMAIN base \cup Fresh(W)}
  BY <1>1, <1>4, InvParts DEF Fresh, Obj, Value, ExistsIn, IsObj, IsDraft
<1> QED
  BY <1>2, <1>3, <1>4 DEF RecipeValues

\* A value that exists still does after ensureShallowCopy() and markChanged(),
\* with which every change of the recipe starts.
LEMMA ChangedSound ==
    ASSUME NEW w, Sound(w), NEW d \in DraftIds(w)
    PROVE  LET v == MarkChanged(EnsureShallowCopy(w, d), d)
           IN  /\ Sound(v)
               /\ DraftIds(v) = DraftIds(w)
               /\ Node(v, d).copy # Null /\ Node(v, d).operated
               /\ \A u : ExistsIn(w, u) => ExistsIn(v, u)
<1> DEFINE w1 == EnsureShallowCopy(w, d)
<1>1. /\ Sound(w1) /\ DraftIds(w1) = DraftIds(w)
      /\ DOMAIN w.heap \subseteq DOMAIN w1.heap
      /\ Node(w1, d).copy # Null
  BY EnsureShallowCopySound
<1> HIDE DEF w1
<1>2. LET v == MarkChanged(w1, d)
      IN  /\ Sound(v)
          /\ DraftIds(v) = DraftIds(w1)
          /\ v.heap = w1.heap
          /\ Node(v, d).copy = Node(w1, d).copy /\ Node(v, d).operated
  BY <1>1, MarkChangedSound
<1> QED
  BY <1>1, <1>2 DEF w1, ExistsIn

\* Assigned leaves the heap and the copies alone.
LEMMA AssignedKeeps ==
    ASSUME NEW w, Sound(w), NEW d \in DraftIds(w), NEW k \in Keys,
           NEW flag \in Flags, flag = "none" \/ Node(w, d).operated
    PROVE  LET v == Assigned(w, d, k, flag)
           IN  /\ Sound(v)
               /\ DraftIds(v) = DraftIds(w)
               /\ Node(v, d).copy = Node(w, d).copy
               /\ \A u : ExistsIn(w, u) => ExistsIn(v, u)
<1> DEFINE v == Assigned(w, d, k, flag)
<1>1. w \in World /\ w.drafts \in [DraftIds(w) -> DraftState]
  BY WorldParts DEF Sound, WorldOK, DraftIds
<1>2. /\ v.heap = w.heap
      /\ v.drafts = [w.drafts EXCEPT ![d].assigned[k] = flag]
  BY <1>1 DEF Assigned, World
<1>3. DraftIds(v) = DraftIds(w) /\ Node(v, d).copy = Node(w, d).copy
  BY <1>1, <1>2 DEF DraftIds, Node, DraftState
<1> QED
  BY <1>2, <1>3, AssignedSound DEF ExistsIn

\* Put leaves the drafts and the addresses alone.
LEMMA PutKeeps ==
    ASSUME NEW w, Sound(w), NEW d \in DraftIds(w), Node(w, d).copy # Null,
           NEW k \in Keys, NEW v \in Value, ExistsIn(w, v)
    PROVE  LET x == Put(w, d, k, v)
           IN  /\ Sound(x) /\ x.drafts = w.drafts
               /\ \A u : ExistsIn(w, u) => ExistsIn(x, u)
<1> DEFINE x == Put(w, d, k, v)
<1>1. w \in World /\ w.heap \in [DOMAIN w.heap -> Object]
  BY WorldParts DEF Sound, WorldOK
<1>2. x.drafts = w.drafts /\ DOMAIN x.heap = DOMAIN w.heap
  BY <1>1 DEF Put, World
<1> QED
  BY <1>2, PutSound DEF ExistsIn, DraftIds

\* A removed key holds nothing.
LEMMA AbsentExists == Absent \in Value /\ \A w : ExistsIn(w, Absent)
BY DEF Absent, Value, ExistsIn, IsObj, IsDraft

\* The recipe reads: a draft is created.
LEMMA ReadKeeps ==
    ASSUME IInv, NEW d \in DOMAIN drafts, NEW k \in Keys, Drafts(d, k)
    PROVE  IInv'
<1>1. Sound(W) /\ BaseClosed /\ d \in DraftIds(W)
  BY InvParts
<1>2. /\ IsObj(Latest(W, d).at[k]) /\ Become(DraftChild(W, d, k))
      /\ Latest(W, d).at[k] = Original(W, d).at[k]
  BY DEF Drafts
<1>3. Sound(DraftChild(W, d, k))
  BY <1>1, <1>2, DraftChildSound
<1>4. /\ base' = base /\ phase' = phase /\ returned' = returned
      /\ result' = result /\ writes' = writes
      /\ phase \in Phases /\ returned \in Seq(Value) /\ Len(returned) <= 1
      /\ result \in Value /\ writes \in 0 .. MaxWrites
  BY DEF Drafts, IInv, TypeOK
<1> QED
  BY <1>2, <1>3, <1>4, StepKeeps

\* A draft that reads other than its original has a copy.
LEMMA CopyExists ==
    ASSUME IInv, NEW d \in DraftIds(W), Latest(W, d) # Original(W, d)
    PROVE  Node(W, d).copy # Null
BY DEF Latest, LatestAddress, Original

\* Assigning the original of the draft that is there.
LEMMA SetTrapRestoreKeeps ==
    ASSUME IInv, NEW d \in DOMAIN drafts, NEW k \in Keys,
           NEW v \in RecipeValues, SetTrapRestore(d, k, v)
    PROVE  IInv'
<1> DEFINE w == Put(W, d, k, v)
           same == HasOwn(Original(W, d), k) /\ v = Read(Original(W, d), k)
           m == MarkChanged(w, d)
           s == Assigned(m, d, k, "set")
           r == Assigned(w, d, k, "none")
           f == MarkFinalization(s, d, k, v)
<1>1. /\ Sound(W) /\ BaseClosed /\ d \in DraftIds(W)
      /\ v \in Value /\ ExistsIn(W, v)
  BY InvParts, RecipeValuesExist
<1>2. Node(W, d).copy # Null
  <2>1. IsDraft(Latest(W, d).at[k])
    BY DEF SetTrapRestore, DropsDraft
  <2>2. Original(W, d) = base[Node(W, d).original]
        /\ Node(W, d).original \in DOMAIN base
    BY <1>1 DEF Sound, Kept, Original
  <2>3. ~IsDraft(Original(W, d).at[k])
    BY <1>1, <2>2 DEF BaseClosed
  <2> QED
    BY <1>1, <2>1, <2>3, CopyExists
<1>3. /\ Sound(w) /\ DraftIds(w) = DraftIds(W) /\ Node(w, d).copy # Null
      /\ ExistsIn(w, v)
  BY <1>1, <1>2, PutKeeps DEF DraftIds, Node
<1>4. Change(IF same THEN r ELSE f)
  BY DEF SetTrapRestore
<1> HIDE DEF w, same
<1>5. Sound(r)
  BY <1>1, <1>3, AssignedKeeps DEF Flags
<1>6. /\ Sound(m) /\ DraftIds(m) = DraftIds(w) /\ ExistsIn(m, v)
      /\ Node(m, d).operated
  BY <1>1, <1>3, MarkChangedSound DEF ExistsIn
<1> HIDE DEF m
<1>7. Sound(s) /\ DraftIds(s) = DraftIds(m) /\ ExistsIn(s, v)
  BY <1>1, <1>3, <1>6, AssignedKeeps DEF Flags
<1> HIDE DEF s
<1>8. Sound(f)
  BY <1>1, <1>3, <1>6, <1>7, MarkFinalizationSound
<1> HIDE DEF r, f
<1> QED
  BY <1>4, <1>5, <1>8, ChangeKeeps

\* The worlds of an assignment: the draft gets its copy and its mark, then the
\* entry of assignedMap, then the value.
LEMMA WriteSound ==
    ASSUME NEW w, Sound(w), NEW d \in DraftIds(w), NEW k \in Keys,
           NEW flag \in Flags, NEW v \in Value, ExistsIn(w, v)
    PROVE  LET m == MarkChanged(EnsureShallowCopy(w, d), d)
               x == Put(Assigned(m, d, k, flag), d, k, v)
           IN  /\ Sound(x) /\ DraftIds(x) = DraftIds(w) /\ ExistsIn(x, v)
               /\ Sound(MarkFinalization(x, d, k, v))
<1> DEFINE m == MarkChanged(EnsureShallowCopy(w, d), d)
           a == Assigned(m, d, k, flag)
           x == Put(a, d, k, v)
<1>1. /\ Sound(m) /\ DraftIds(m) = DraftIds(w) /\ Node(m, d).copy # Null
      /\ ExistsIn(m, v) /\ Node(m, d).operated
  BY ChangedSound
<1> HIDE DEF m
<1>2. /\ Sound(a) /\ DraftIds(a) = DraftIds(w) /\ Node(a, d).copy # Null
      /\ ExistsIn(a, v)
  BY <1>1, AssignedKeeps
<1> HIDE DEF a
<1>3. Sound(x) /\ DraftIds(x) = DraftIds(w) /\ ExistsIn(x, v)
  BY <1>2, PutKeeps DEF DraftIds
<1> HIDE DEF x
<1>4. Sound(MarkFinalization(x, d, k, v))
  BY <1>3, MarkFinalizationSound
<1> QED
  BY <1>3, <1>4 DEF x, a, m

\* In the Map methods assignedMap is written before the value, as in WriteSound,
\* and in the traps of objects too.
LEMMA SetTrapKeeps ==
    ASSUME IInv, NEW d \in DOMAIN drafts, NEW k \in Keys,
           NEW v \in RecipeValues, SetTrap(d, k, v)
    PROVE  IInv'
<1> DEFINE m == MarkChanged(EnsureShallowCopy(W, d), d)
           same == HasOwn(Original(W, d), k) /\ v = Read(Original(W, d), k)
           flag == IF same THEN "none" ELSE "set"
           x == Put(Assigned(m, d, k, flag), d, k, v)
           f == MarkFinalization(x, d, k, v)
<1>1. Sound(W) /\ d \in DraftIds(W) /\ v \in Value /\ ExistsIn(W, v)
  BY InvParts, RecipeValuesExist
<1>2. flag \in Flags
  BY DEF Flags
<1>3. Change(f)
  BY DEF SetTrap
<1> HIDE DEF flag
<1>4. Sound(f)
  BY <1>1, <1>2, WriteSound
<1> HIDE DEF f
<1> QED
  BY <1>3, <1>4, ChangeKeeps

\* Map.set() keeps the invariant.
LEMMA MapSetKeeps ==
    ASSUME IInv, NEW d \in DOMAIN drafts, NEW k \in Keys,
           NEW v \in RecipeValues, MapSet(d, k, v)
    PROVE  IInv'
<1> DEFINE m == MarkChanged(EnsureShallowCopy(W, d), d)
           f == MarkFinalization(Put(Assigned(m, d, k, "set"), d, k, v), d, k, v)
<1>1. Sound(W) /\ d \in DraftIds(W) /\ v \in Value /\ ExistsIn(W, v)
  BY InvParts, RecipeValuesExist
<1>2. Change(f)
  BY DEF MapSet
<1>3. Sound(f)
  BY <1>1, WriteSound DEF Flags
<1> HIDE DEF f
<1> QED
  BY <1>2, <1>3, ChangeKeeps

\* Deleting a key, of an object or of a Map.
LEMMA DeletePropertyTrapKeeps ==
    ASSUME IInv, NEW d \in DOMAIN drafts, NEW k \in Keys,
           DeletePropertyTrap(d, k)
    PROVE  IInv'
<1> DEFINE m == MarkChanged(EnsureShallowCopy(W, d), d)
           x == Put(Assigned(m, d, k, "deleted"), d, k, Absent)
<1>1. Sound(W) /\ d \in DraftIds(W)
  BY InvParts
<1>2. Change(x)
  BY DEF DeletePropertyTrap
<1>3. Sound(x)
  BY <1>1, AbsentExists, WriteSound DEF Flags
<1> HIDE DEF x
<1> QED
  BY <1>2, <1>3, ChangeKeeps

\* Map.delete() keeps the invariant.
LEMMA MapDeleteKeeps ==
    ASSUME IInv, NEW d \in DOMAIN drafts, NEW k \in Keys, MapDelete(d, k)
    PROVE  IInv'
<1> DEFINE m == MarkChanged(EnsureShallowCopy(W, d), d)
           flag == IF HasOwn(Original(W, d), k) THEN "deleted" ELSE "none"
           x == Put(Assigned(m, d, k, flag), d, k, Absent)
<1>1. Sound(W) /\ d \in DraftIds(W)
  BY InvParts
<1>2. flag \in Flags
  BY DEF Flags
<1>3. Change(x)
  BY DEF MapDelete
<1> HIDE DEF flag
<1>4. Sound(x)
  BY <1>1, <1>2, AbsentExists, WriteSound
<1> HIDE DEF x
<1> QED
  BY <1>3, <1>4, ChangeKeeps

\* Deleting a key that the recipe added: it is the copy that has it.
LEMMA DeleteAddedKeeps ==
    ASSUME IInv, NEW d \in DOMAIN drafts, NEW k \in Keys, DeleteAdded(d, k)
    PROVE  IInv'
<1> DEFINE a == Assigned(W, d, k, "none")
           x == Put(a, d, k, Absent)
<1>1. Sound(W) /\ d \in DraftIds(W)
  BY InvParts
<1>2. Node(W, d).copy # Null
  <2>1. ~HasOwn(Original(W, d), k) /\ HasOwn(Latest(W, d), k)
    BY DEF DeleteAdded
  <2> QED
    BY <1>1, <2>1, CopyExists
<1>3. Sound(a) /\ DraftIds(a) = DraftIds(W) /\ Node(a, d).copy # Null
  BY <1>1, <1>2, AssignedKeeps DEF Flags
<1>4. Change(x)
  BY DEF DeleteAdded
<1> HIDE DEF a
<1>5. Sound(x)
  BY <1>1, <1>3, AbsentExists, PutKeeps
<1> HIDE DEF x
<1> QED
  BY <1>4, <1>5, ChangeKeeps

\* Map.clear() keeps the invariant.
LEMMA MapClearKeeps ==
    ASSUME IInv, NEW d \in DOMAIN drafts, MapClear(d)
    PROVE  IInv'
<1> DEFINE m == MarkChanged(EnsureShallowCopy(W, d), d)
           flags == [k \in Keys |->
                       IF HasOwn(Original(W, d), k) THEN "deleted" ELSE "none"]
           x == [m EXCEPT !.drafts[d].assigned = flags,
                          !.heap[Node(m, d).copy] = Empty("map")]
<1>1. Sound(W) /\ d \in DraftIds(W)
  BY InvParts
<1>2. /\ Sound(m) /\ DraftIds(m) = DraftIds(W) /\ Node(m, d).copy # Null
      /\ Node(m, d).operated
  BY <1>1, ChangedSound
<1>3. flags \in [Keys -> Flags]
  BY DEF Flags
<1>4. Change(x)
  BY DEF MapClear
<1> HIDE DEF m, flags
<1>5. Sound(x)
  BY <1>1, <1>2, <1>3, ClearSound
<1> HIDE DEF x
<1> QED
  BY <1>4, <1>5, ChangeKeeps

\* The recipe's own objects lie outside the base.
LEMMA NewObjectKeeps ==
    ASSUME IInv, NEW type \in FreshTypes, NEW k \in Keys,
           NEW v \in RecipeValues, NewObject(type, k, v)
    PROVE  IInv'
<1> DEFINE o == [Empty(type) EXCEPT !.at[k] = v]
           x == [W EXCEPT !.heap = Append(@, o)]
<1>1. Sound(W) /\ v \in Value /\ ExistsIn(W, v)
  BY InvParts, RecipeValuesExist
<1>2. type \in ObjectTypes
  BY BoundsAssumption
<1>3. o \in Object /\ \A i \in Keys : o.at[i] = v \/ o.at[i] = Absent
  BY <1>1, <1>2, AbsentExists DEF Empty, Object
<1>4. \A i \in Keys : ExistsIn(W, o.at[i])
  BY <1>1, <1>3, AbsentExists
<1>5. /\ Become(x) /\ base' = base /\ phase' = phase /\ returned' = returned
      /\ result' = result /\ writes' = writes
      /\ phase \in Phases /\ returned \in Seq(Value) /\ Len(returned) <= 1
      /\ result \in Value /\ writes \in 0 .. MaxWrites
  BY DEF NewObject, IInv, TypeOK
<1> HIDE DEF o
<1>6. Sound(x)
  BY <1>1, <1>3, <1>4, HeapGrows
<1> HIDE DEF x
<1> QED
  BY <1>5, <1>6, StepKeeps

\* A write to an object of the recipe's own keeps the invariant.
LEMMA WriteFreshKeeps ==
    ASSUME IInv, NEW a \in DOMAIN heap, NEW k \in Keys,
           NEW v \in RecipeValues, WriteFresh(a, k, v)
    PROVE  IInv'
<1> DEFINE h == [heap EXCEPT ![a].at[k] = v]
           x == [W EXCEPT !.heap = h]
<1>1. /\ Sound(W) /\ v \in Value /\ ExistsIn(W, v) /\ W.heap = heap
      /\ DOMAIN base = 1 .. Len(base) /\ Len(base) \in Nat
  BY InvParts, RecipeValuesExist
<1>2. heap \in [DOMAIN heap -> Object]
  BY <1>1, WorldParts DEF Sound, WorldOK
<1>3. a \notin DOMAIN base
  <2>1. a > Len(base)
    BY <1>1 DEF WriteFresh, Fresh
  <2> QED
    BY <1>1, <2>1
<1>4. h \in [DOMAIN W.heap -> Object]
  BY <1>1, <1>2 DEF Object
<1>5. \A c \in DOMAIN base : h[c] = W.heap[c]
  BY <1>1, <1>2, <1>3 DEF Sound, Kept
<1>6. \A c \in DOMAIN W.heap, i \in Keys : ExistsIn(W, h[c].at[i])
  BY <1>1, <1>2 DEF Sound, WorldOK, Object
<1>7. Sound(x)
  BY <1>1, <1>4, <1>5, <1>6, HeapChange
<1>8. Change(x)
  BY <1>1 DEF WriteFresh, W
<1> HIDE DEF x
<1> QED
  BY <1>7, <1>8, ChangeKeeps

\* A changed draft has a copy; what stands for any draft exists.
LEMMA HandleReturnValueSound ==
    ASSUME NEW w, Sound(w), BaseClosed, NEW v
    PROVE  Sound(HandleReturnValue(w, v))
<1> DEFINE held == Held(w, v)
           at == [a \in DOMAIN w.heap |-> [k \in Keys |->
                    IF a \in held /\ IsDraft(w.heap[a].at[k])
                    THEN Obj(Node(w, w.heap[a].at[k].id).original)
                    ELSE w.heap[a].at[k]]]
           h == [a \in DOMAIN w.heap |-> [w.heap[a] EXCEPT !.at = at[a]]]
           g == [a \in DOMAIN w.heap |->
                   IF a \in held
                   THEN [w.heap[a] EXCEPT !.at = [k \in Keys |->
                            IF IsDraft(@[k]) THEN Obj(Node(w, @[k].id).original)
                                             ELSE @[k]]]
                   ELSE w.heap[a]]
<1>0. w \in World
  BY DEF Sound, WorldOK
<1>1. w.heap \in [DOMAIN w.heap -> Object] /\ DOMAIN w.heap \subseteq Nat
  BY <1>0, WorldParts
<1>2. ASSUME NEW a \in DOMAIN w.heap, NEW k \in Keys
      PROVE  /\ at[a][k] \in Value
             /\ \/ at[a][k] = w.heap[a].at[k]
                \/ IsDraft(w.heap[a].at[k]) /\ ExistsIn(w, at[a][k])
  <2> DEFINE u == w.heap[a].at[k]
  <2>1. u \in Value /\ ExistsIn(w, u)
    BY <1>1 DEF Object, Sound, WorldOK
  <2>2. at[a][k] = IF a \in held /\ IsDraft(u)
                   THEN Obj(Node(w, u.id).original) ELSE u
    OBVIOUS
  <2> HIDE DEF at, u
  <2>3. CASE a \in held /\ IsDraft(u)
    <3>1. Node(w, u.id).original \in DOMAIN w.heap
      BY <2>1, <2>3 DEF ExistsIn, Sound, WorldOK
    <3> QED
      BY <1>1, <2>2, <2>3, <3>1 DEF Obj, Value, ExistsIn, IsObj, IsDraft, u
  <2>4. CASE ~(a \in held /\ IsDraft(u))
    BY <2>1, <2>2, <2>4 DEF u
  <2> QED
    BY <2>3, <2>4
<1>3. at \in [DOMAIN w.heap -> [Keys -> Value]]
  BY <1>2
<1>4. g = h
  <2>1. ASSUME NEW a \in DOMAIN w.heap
        PROVE  g[a] = h[a]
    <3>1. CASE a \in held
      BY <3>1
    <3>2. CASE a \notin held
      <4>1. w.heap[a] \in Object /\ w.heap[a].at \in [Keys -> Value]
        BY <1>1 DEF Object
      <4>2. at[a] = w.heap[a].at
        BY <3>2, <4>1
      <4> HIDE DEF at
      <4>3. [w.heap[a] EXCEPT !.at = at[a]] = w.heap[a]
        BY <4>1, <4>2, ObjectChange
      <4> QED
        BY <3>2, <4>3
    <3> QED
      BY <3>1, <3>2
  <2> QED
    BY <2>1
<1>5. HandleReturnValue(w, v) = [w EXCEPT !.heap = g]
  BY DEF HandleReturnValue
<1> HIDE DEF at
<1>6. Sound([w EXCEPT !.heap = h])
  BY <1>2, <1>3, SettleSound
<1> QED
  BY <1>4, <1>5, <1>6

\* The end of the recipe.
LEMMA EndRecipeKeeps ==
    ASSUME IInv, NEW v \in RecipeValues \cup {Undefined}, EndRecipe(v)
    PROVE  IInv'
<1> DEFINE x == IF IsObj(v) THEN HandleReturnValue(W, v) ELSE W
<1>1. /\ Sound(W) /\ BaseClosed /\ DOMAIN W.heap \subseteq Nat
      /\ v \in Value /\ ExistsIn(W, v)
  <2>1. Undefined \in PrimValues
    BY DataAssumption DEF Undefined, PrimValues
  <2>2. v \in RecipeValues
    BY <2>1 DEF RecipeValues
  <2> QED
    BY <2>2, InvParts, RecipeValuesExist, WorldParts DEF Sound, WorldOK
<1>2. Become(x)
  BY DEF EndRecipe
<1>3. Sound(x)
  BY <1>1, HandleReturnValueSound
<1>4. /\ base' = base /\ phase' \in Phases /\ result' = result /\ writes' = writes
      /\ result \in Value /\ writes \in 0 .. MaxWrites
  BY DEF EndRecipe, Phases, IInv, TypeOK
<1>5. \/ returned' = <<>>
      \/ returned' = <<v>>
      \/ IsDraft(v) /\ returned' = <<Obj(Node(W, v.id).original)>>
  BY DEF EndRecipe
<1>6. ASSUME IsDraft(v)
      PROVE  Obj(Node(W, v.id).original) \in Value
  <2>1. Node(W, v.id).original \in DOMAIN W.heap
    BY <1>1, <1>6 DEF ExistsIn, Sound, WorldOK
  <2> QED
    BY <1>1, <2>1 DEF Obj, Value
<1>7. returned' \in Seq(Value) /\ Len(returned') <= 1
  <2>1. CASE returned' = <<>>
    BY <2>1
  <2>2. CASE returned' = <<v>>
    BY <1>1, <2>2
  <2>3. CASE IsDraft(v) /\ returned' = <<Obj(Node(W, v.id).original)>>
    BY <1>6, <2>3
  <2> QED
    BY <1>5, <2>1, <2>2, <2>3
<1> HIDE DEF x
<1> QED
  BY <1>2, <1>3, <1>4, <1>7, StepKeeps

\* The steps that leave the world alone.
LEMMA PhaseKeeps ==
    ASSUME IInv, Fail \/ Return
    PROVE  IInv'
<1>1. Sound(W) /\ Root \in DraftIds(W)
  BY InvParts
<1>2. /\ Become(W) /\ base' = base /\ returned' = returned /\ writes' = writes
      /\ returned \in Seq(Value) /\ Len(returned) <= 1
      /\ result \in Value /\ writes \in 0 .. MaxWrites
  BY DEF Fail, Return, Become, W, IInv, TypeOK
<1>3. phase' \in Phases
  BY DEF Fail, Return, Phases
<1>4. Final(W, Root) \in Value
  BY <1>1, FinalExists
<1>5. returned # <<>> => Head(returned) \in Value
  BY <1>2
<1>6. result' \in Value
  BY <1>2, <1>4, <1>5 DEF Fail, Return
<1> QED
  BY <1>1, <1>2, <1>3, <1>6, StepKeeps

\* The finalization of a node writes final values into the copy of its parent
\* and into the copies that its callbacks name.
LEMMA FinalizeNodeKeeps ==
    ASSUME IInv, FinalizeNode
    PROVE  IInv'
<1> DEFINE d == Last(tasks).draft
           p == Node(W, d).parent
           k == Node(W, d).key
           here == IF p = Null THEN Draft(d) ELSE Copy(W, p).at[k]
           w == IF here = Draft(d) THEN Finalized(Popped, d) ELSE Popped
           y == IF p # Null /\ IsDraft(here)
                THEN Put(w, p, k, Final(w, here.id)) ELSE w
<1>1. /\ Sound(W) /\ BaseClosed /\ tasks # <<>> /\ W.tasks = tasks
  BY InvParts DEF FinalizeNode, Finalizing
<1>2. /\ Sound(Popped) /\ Popped.drafts = W.drafts /\ Popped.heap = W.heap
      /\ d \in DraftIds(W)
  BY <1>1, PoppedSound DEF Popped
<1>3. Become(RunCallbacks(y, d))
  BY DEF FinalizeNode
<1>4. /\ base' = base /\ phase' = phase /\ returned' = returned
      /\ result' = result /\ writes' = writes
      /\ phase \in Phases /\ returned \in Seq(Value) /\ Len(returned) <= 1
      /\ result \in Value /\ writes \in 0 .. MaxWrites
  BY DEF FinalizeNode, IInv, TypeOK
<1>5. ASSUME p # Null
      PROVE  /\ p \in DraftIds(W) /\ k \in Keys /\ Node(W, p).copy # Null
             /\ ExistsIn(W, here)
  <2>1. p \in DraftIds(W) /\ k \in Keys /\ Node(W, p).copy # Null
    BY <1>1, <1>2, <1>5 DEF Sound, WorldOK, Linked
  <2>2. Node(W, p).copy \in DOMAIN W.heap
    BY <1>1, <2>1 DEF Sound, WorldOK
  <2> QED
    BY <1>1, <1>5, <2>1, <2>2 DEF Sound, WorldOK, Copy
<1> HIDE DEF here
<1>6. /\ Sound(w) /\ DraftIds(w) = DraftIds(W)
      /\ \A x \in DraftIds(W) : Node(w, x).copy = Node(W, x).copy
  BY <1>2, FinalizedSound DEF DraftIds, Node
<1> HIDE DEF w, p, k
<1>7. Sound(y) /\ DraftIds(y) = DraftIds(W)
  <2>1. CASE p # Null /\ IsDraft(here)
    <3>1. /\ p \in DraftIds(w) /\ k \in Keys /\ Node(w, p).copy # Null
          /\ here.id \in DraftIds(w)
      BY <1>5, <1>6, <2>1 DEF ExistsIn
    <3>2. Final(w, here.id) \in Value /\ ExistsIn(w, Final(w, here.id))
      BY <1>6, <3>1, FinalExists
    <3> QED
      BY <1>6, <2>1, <3>1, <3>2, PutKeeps DEF DraftIds
  <2>2. CASE ~(p # Null /\ IsDraft(here))
    BY <1>6, <2>2
  <2> QED
    BY <2>1, <2>2
<1> HIDE DEF y
<1>8. Sound(RunCallbacks(y, d))
  BY <1>1, <1>2, <1>7, RunCallbacksSound
<1> QED
  BY <1>3, <1>4, <1>8, StepKeeps

\* A deferred task keeps the invariant.
LEMMA FinalizeTaskKeeps ==
    ASSUME IInv, FinalizeTask
    PROVE  IInv'
<1>1. Sound(W) /\ BaseClosed /\ tasks # <<>> /\ W.tasks = tasks
  BY InvParts DEF FinalizeTask, Finalizing
<1>2. Sound(Popped)
  BY <1>1, PoppedSound DEF Popped
<1>3. Sound(FinalizeAssigned(Popped, Last(tasks)))
  BY <1>1, <1>2, HandleValueSound DEF FinalizeAssigned
<1>4. /\ Become(FinalizeAssigned(Popped, Last(tasks)))
      /\ base' = base /\ phase' = phase /\ returned' = returned
      /\ result' = result /\ writes' = writes
      /\ phase \in Phases /\ returned \in Seq(Value) /\ Len(returned) <= 1
      /\ result \in Value /\ writes \in 0 .. MaxWrites
  BY DEF FinalizeTask, IInv, TypeOK
<1> QED
  BY <1>3, <1>4, StepKeeps

\* The initial world: the base, and the draft of its root in the list.
LEMMA InitWorld ==
    ASSUME Init
    PROVE  /\ IsBase(base) /\ base \in Seq(Object) /\ Len(base) \in Nat
           /\ DOMAIN base = 1 .. Len(base) /\ 1 \in DOMAIN base
           /\ W.heap = base /\ W.handled = {} /\ DraftIds(W) = {1}
           /\ W.drafts \in Seq(DraftState) /\ W.tasks \in Seq(Task)
           /\ Node(W, 1).original = 1 /\ Node(W, 1).copy = Null
           /\ Node(W, 1).parent = Null /\ ~Node(W, 1).operated
           /\ Node(W, 1).callbacks = <<>>
           /\ \A k \in Keys : Node(W, 1).assigned[k] = "none"
           /\ DOMAIN W.tasks = {1}
           /\ W.tasks[1] = [kind |-> "node", draft |-> 1]
<1> DEFINE new == [original |-> 1, copy |-> Null, parent |-> Null, key |-> NoKey,
                   operated |-> FALSE, finalized |-> FALSE,
                   assigned |-> [i \in Keys |-> "none"], callbacks |-> <<>>]
           task == [kind |-> "node", draft |-> 1]
<1>1. base \in Bases /\ IsBase(base)
  BY BasesAssumption DEF Init
<1>2. /\ base \in Seq(Object) /\ Len(base) \in Nat
      /\ DOMAIN base = 1 .. Len(base) /\ 1 \in DOMAIN base
  <2>1. base \in Seq(Object) /\ base # <<>>
    BY <1>1 DEF IsBase
  <2>2. Len(base) \in Nat \ {0}
    BY <2>1, EmptySeq
  <2> QED
    BY <2>1, <2>2, LenProperties
<1>3. heap = base /\ drafts = <<new>> /\ tasks = <<task>> /\ handled = {}
  <2> DEFINE w0 == [heap |-> base, drafts |-> <<>>, tasks |-> <<>>, handled |-> {}]
             w == CreateDraft(w0, 1, Null, NoKey)
  <2>1. heap = base /\ drafts = w.drafts /\ tasks = w.tasks /\ handled = w.handled
    BY DEF Init
  <2>2. /\ Len(<<>>) = 0 /\ Append(<<>>, new) = <<new>>
        /\ Append(<<>>, task) = <<task>>
    OBVIOUS
  <2>3. /\ w.drafts = Append(<<>>, new) /\ w.handled = {}
        /\ w.tasks = Append(<<>>, [kind |-> "node", draft |-> Len(<<>>) + 1])
    BY DEF CreateDraft
  <2>4. [kind |-> "node", draft |-> Len(<<>>) + 1] = task
    BY <2>2
  <2> HIDE DEF new, task, w
  <2> QED
    BY <2>1, <2>2, <2>3, <2>4
<1>4. new \in DraftState /\ task \in Task
  <2>1. <<>> \in Seq(Callback) /\ [i \in Keys |-> "none"] \in [Keys -> Flags]
    BY DEF Flags
  <2> QED
    BY <2>1 DEF DraftState, Task, Null
<1>5. drafts \in Seq(DraftState) /\ tasks \in Seq(Task)
  BY <1>3, <1>4
<1>6. /\ DraftIds(W) = {1} /\ Node(W, 1) = new
      /\ W.heap = base /\ DOMAIN W.tasks = {1} /\ W.tasks[1] = task
  BY <1>3 DEF W, DraftIds, Node
<1>7. W.drafts = drafts /\ W.tasks = tasks /\ W.handled = {}
  BY <1>3 DEF W
<1> QED
  BY <1>1, <1>2, <1>5, <1>6, <1>7

\* The invariant holds when the producer starts.
LEMMA InitSound ==
    ASSUME Init
    PROVE  IInv
<1>1. base \in Bases
  BY DEF Init
<1>2. /\ IsBase(base) /\ base \in Seq(Object) /\ Len(base) \in Nat
      /\ DOMAIN base = 1 .. Len(base) /\ 1 \in DOMAIN base
      /\ W.heap = base /\ W.handled = {} /\ DraftIds(W) = {1}
      /\ W.drafts \in Seq(DraftState) /\ W.tasks \in Seq(Task)
      /\ Node(W, 1).original = 1 /\ Node(W, 1).copy = Null
      /\ Node(W, 1).parent = Null /\ ~Node(W, 1).operated
      /\ Node(W, 1).callbacks = <<>>
      /\ \A k \in Keys : Node(W, 1).assigned[k] = "none"
      /\ DOMAIN W.tasks = {1}
      /\ W.tasks[1] = [kind |-> "node", draft |-> 1]
  BY InitWorld
<1>6. W \in World
  BY <1>2 DEF W, World
<1>8. \A a \in DOMAIN base, k \in Keys : ExistsIn(W, base[a].at[k])
  <2> SUFFICES ASSUME NEW a \in DOMAIN base, NEW k \in Keys
               PROVE  ExistsIn(W, base[a].at[k])
    OBVIOUS
  <2>1. CASE base[a].at[k] = Absent
    BY <2>1, AbsentExists
  <2>2. CASE base[a].at[k] \in PrimValues
    BY <2>2 DEF PrimValues, Prim, ExistsIn, IsObj, IsDraft
  <2>3. CASE \E c \in DOMAIN base : base[a].at[k] = Obj(c)
    BY <1>2, <2>3 DEF Obj, ExistsIn, IsObj, IsDraft
  <2> QED
    BY <1>2, <2>1, <2>2, <2>3 DEF IsBase
<1>9. WorldOK(W)
  BY <1>2, <1>6, <1>8 DEF WorldOK, Root, Null
<1>10. Kept(W) /\ Linked(W) /\ Marked(W)
  BY <1>2 DEF Kept, Linked, Marked, HasEntries, Null
<1>11. TypeOK
  BY <1>1, <1>9, AbsentExists, BoundsAssumption DEF Init, TypeOK, Phases
<1> QED
  BY <1>10, <1>11 DEF IInv

\* Every step of a producer keeps the invariant.
LEMMA NextKeeps ==
    ASSUME IInv, [Next]_vars
    PROVE  IInv'
<1>1. CASE Recipe
  <2>1. ASSUME NEW d \in DOMAIN drafts, NEW k \in Keys,
               GetTrap(d, k) \/ GetEntry(d, k)
        PROVE  IInv'
    BY <2>1, ReadKeeps DEF GetTrap, GetEntry
  <2>2. ASSUME NEW d \in DOMAIN drafts, NEW k \in Keys,
               DeletePropertyTrap(d, k) \/ DeleteAdded(d, k) \/ MapDelete(d, k)
        PROVE  IInv'
    BY <2>2, DeletePropertyTrapKeeps, DeleteAddedKeeps, MapDeleteKeeps
  <2>3. ASSUME NEW d \in DOMAIN drafts, NEW k \in Keys, NEW v \in RecipeValues,
               SetTrapRestore(d, k, v) \/ SetTrap(d, k, v) \/ MapSet(d, k, v)
        PROVE  IInv'
    BY <2>3, SetTrapRestoreKeeps, SetTrapKeeps, MapSetKeeps
  <2>4. ASSUME NEW d \in DOMAIN drafts, MapClear(d)
        PROVE  IInv'
    BY <2>4, MapClearKeeps
  <2>5. ASSUME NEW k \in Keys, NEW v \in RecipeValues, NEW type \in FreshTypes,
               NewObject(type, k, v)
        PROVE  IInv'
    BY <2>5, NewObjectKeeps
  <2>6. ASSUME NEW k \in Keys, NEW v \in RecipeValues, NEW a \in DOMAIN heap,
               WriteFresh(a, k, v)
        PROVE  IInv'
    BY <2>6, WriteFreshKeeps
  <2> QED
    BY <1>1, <2>1, <2>2, <2>3, <2>4, <2>5, <2>6 DEF Recipe
<1>2. CASE \E v \in ReturnValues : EndRecipe(v)
  <2>1. PICK v \in ReturnValues : EndRecipe(v)
    BY <1>2
  <2>2. v \in RecipeValues \cup {Undefined}
    BY DEF ReturnValues
  <2> QED
    BY <2>1, <2>2, EndRecipeKeeps
<1>6. CASE Fail \/ Return
  BY <1>6, PhaseKeeps
<1>3. CASE FinalizeNode
  BY <1>3, FinalizeNodeKeeps
<1>4. CASE FinalizeTask
  BY <1>4, FinalizeTaskKeeps
<1>5. CASE UNCHANGED vars
  <2>1. /\ Become(W) /\ base' = base /\ phase' = phase /\ returned' = returned
        /\ result' = result /\ writes' = writes
    BY <1>5 DEF vars, Become, W
  <2>2. /\ Sound(W) /\ phase \in Phases
        /\ returned \in Seq(Value) /\ Len(returned) <= 1
        /\ result \in Value /\ writes \in 0 .. MaxWrites
    BY InvParts DEF IInv, TypeOK
  <2> QED
    BY <2>1, <2>2, StepKeeps
<1> QED
  BY <1>1, <1>2, <1>3, <1>4, <1>5, <1>6 DEF Next, Ended

\* The invariant holds in every state: types, the base, copies and marks.
THEOREM InductiveInvariant == Spec => []IInv
<1>1. Init => IInv
  BY InitSound
<1>2. IInv /\ [Next]_vars => IInv'
  BY NextKeeps
<1> QED
  BY <1>1, <1>2, PTL DEF Spec

-----------------------------------------------------------------------------

\* The state of the producer is well typed, whatever the base state and the
\* recipe: every reference, copy, parent, callback and task leads somewhere.
THEOREM TypeCorrect == Spec => []TypeOK
<1>1. IInv => TypeOK
  BY DEF IInv
<1> QED
  BY <1>1, InductiveInvariant, PTL

\* The caller's state is never written to: no trap, no Map method and no step of
\* finalizeDraft() changes an object of the base.
THEOREM BaseStateUntouched == Spec => []BaseUntouched
<1>1. IInv => BaseUntouched
  BY InvParts DEF IInv, Kept, BaseUntouched
<1> QED
  BY <1>1, InductiveInvariant, PTL

\* markChanged() reaches the root from every draft that changed, and only drafts
\* with a copy are ever marked.
THEOREM ChangesMarkedToRoot == Spec => []ChangesReachRoot
<1>1. IInv => ChangesReachRoot
  BY DEF IInv, Marked, ChangesReachRoot
<1> QED
  BY <1>1, InductiveInvariant, PTL

-----------------------------------------------------------------------------
(***************************************************************************)
(* What a step of a producer does to the drafts, to the objects they work  *)
(* on, and to the entries of finalities.draft, in the terms that the       *)
(* invariants about unchanged drafts and about the finalization use.       *)
(***************************************************************************)

\* Draft e gives way to its final value at key k of draft d's copy.
CallsBack(w, e, d, k) ==
    \E i \in DOMAIN Node(w, e).callbacks :
        /\ Node(w, e).callbacks[i].target = d
        /\ Node(w, e).callbacks[i].key = k

Queued(w, task) == \E i \in DOMAIN w.tasks : w.tasks[i] = task

NodeTask(d)           == [kind |-> "node", draft |-> d]
AssignedTask(d, k, v) == [kind |-> "assigned", draft |-> d, key |-> k, value |-> v]

\* No step changes what a draft was created with, takes back a mark or a copy,
\* or, in the recipe, an entry of the lists.
Extends(w, x) ==
    /\ \A e \in DraftIds(w) :
          /\ e \in DraftIds(x)
          /\ Node(x, e).original = Node(w, e).original
          /\ Node(x, e).parent = Node(w, e).parent
          /\ Node(x, e).key = Node(w, e).key
          /\ Node(w, e).operated => Node(x, e).operated
          /\ Node(w, e).copy # Null => Node(x, e).copy = Node(w, e).copy
          /\ \A d, k : CallsBack(w, e, d, k) => CallsBack(x, e, d, k)
    /\ \A task : Queued(w, task) => Queued(x, task)
    /\ x.handled = w.handled

\* Only the copy of draft d changes, which is new if there was none.
CopyOnly(w, x, d) ==
    /\ \A e \in DraftIds(w) : e # d => /\ Node(x, e).copy = Node(w, e).copy
                                       /\ Node(x, e).assigned = Node(w, e).assigned
    /\ Node(x, d).copy # Null
    /\ Node(w, d).copy = Null => Node(x, d).copy \notin DOMAIN w.heap
    /\ DOMAIN x.heap = DOMAIN w.heap \cup {Node(x, d).copy}
    /\ \A a \in DOMAIN w.heap : a # Node(x, d).copy => x.heap[a] = w.heap[a]

-----------------------------------------------------------------------------
(***************************************************************************)
(* The functions of DraftHeap, field by field.                             *)
(***************************************************************************)

\* A draft without a copy gets one, of its original.
LEMMA EnsureShallowCopyDoes ==
    ASSUME NEW w, Sound(w), NEW d \in DraftIds(w)
    PROVE  LET x == EnsureShallowCopy(w, d)
           IN  /\ DraftIds(x) = DraftIds(w)
               /\ x.tasks = w.tasks /\ x.handled = w.handled
               /\ \A e \in DraftIds(w) :
                     /\ Node(x, e).original = Node(w, e).original
                     /\ Node(x, e).parent = Node(w, e).parent
                     /\ Node(x, e).key = Node(w, e).key
                     /\ Node(x, e).operated = Node(w, e).operated
                     /\ Node(x, e).assigned = Node(w, e).assigned
                     /\ Node(x, e).callbacks = Node(w, e).callbacks
                     /\ Node(w, e).copy # Null => Node(x, e).copy = Node(w, e).copy
               /\ CopyOnly(w, x, d)
               /\ Copy(x, d) = Latest(w, d)
<1> DEFINE x == EnsureShallowCopy(w, d)
           o == w.heap[w.drafts[d].original]
           n == Len(w.heap) + 1
           h == Append(w.heap, o)
           ds == [w.drafts EXCEPT ![d].copy = n]
<1>0. w \in World /\ d \in DOMAIN w.drafts
  BY DEF Sound, WorldOK, DraftIds
<1>p. /\ Len(w.heap) \in Nat
      /\ w.drafts \in [1 .. Len(w.drafts) -> DraftState] /\ Len(w.drafts) \in Nat
      /\ DOMAIN w.heap = 1 .. Len(w.heap) /\ DOMAIN w.drafts = 1 .. Len(w.drafts)
      /\ w.heap \in Seq(Object)
  BY <1>0, WorldParts DEF World
<1>a. CASE w.drafts[d].copy # Null
  <2>1. x = w
    BY <1>a DEF EnsureShallowCopy, Node
  <2>2. w.drafts[d].copy \in DOMAIN w.heap
    BY <1>0, <1>a DEF Sound, WorldOK, DraftIds, Node
  <2> QED
    BY <1>a, <2>1, <2>2 DEF Node, CopyOnly, Copy, Latest, LatestAddress
<1>b. CASE w.drafts[d].copy = Null
  <2>1. x = [w EXCEPT !.heap = h, !.drafts = ds]
    BY <1>b DEF EnsureShallowCopy, Node, Original
  <2>2. o \in Object
    BY <1>0, <1>p DEF Sound, WorldOK, Node, DraftIds
  <2>3. /\ h \in Seq(Object) /\ DOMAIN h = 1 .. n /\ n \in Nat
        /\ \A a \in DOMAIN w.heap : h[a] = w.heap[a]
        /\ h[n] = o
    BY <1>p, <2>2, AppendProperties, LenProperties
  <2>4. /\ x.heap = h /\ x.drafts = ds /\ x.tasks = w.tasks
        /\ x.handled = w.handled
    BY <1>0, <2>1 DEF World
  <2>5. \A e \in DraftIds(w) :
           /\ ds[e].original = w.drafts[e].original
           /\ ds[e].copy = IF e = d THEN n ELSE w.drafts[e].copy
           /\ ds[e].assigned = w.drafts[e].assigned
           /\ ds[e].parent = w.drafts[e].parent
           /\ ds[e].key = w.drafts[e].key
           /\ ds[e].operated = w.drafts[e].operated
           /\ ds[e].callbacks = w.drafts[e].callbacks
    BY <1>p DEF DraftState, DraftIds
  <2>6. DraftIds(x) = DraftIds(w)
    BY <1>p, <2>4 DEF DraftIds
  <2>7. n # Null /\ n \notin DOMAIN w.heap /\ DOMAIN h = DOMAIN w.heap \cup {n}
    BY <1>p, <2>3 DEF Null
  <2>8. Latest(w, d) = o
    BY <1>b DEF Latest, LatestAddress, Node
  <2> HIDE DEF h, ds, o, n
  <2>9. \A e \in DraftIds(w) : Node(x, e) = ds[e] /\ Node(w, e) = w.drafts[e]
    BY <2>4 DEF Node
  <2>10. CopyOnly(w, x, d)
    BY <1>b, <2>3, <2>4, <2>5, <2>7, <2>9, <1>0 DEF CopyOnly, DraftIds
  <2>11. Copy(x, d) = Latest(w, d)
    BY <2>3, <2>4, <2>5, <2>8, <2>9, <1>0 DEF Copy, DraftIds
  <2> HIDE DEF x
  <2>12. ASSUME NEW e \in DraftIds(w)
         PROVE  Node(w, e).copy # Null => Node(x, e).copy = Node(w, e).copy
    BY <1>b, <2>5, <2>9
  <2> QED
    BY <2>4, <2>5, <2>6, <2>9, <2>10, <2>11, <2>12 DEF x
<1> QED
  BY <1>a, <1>b

\* markChanged() only sets marks: on d, and on every draft above a marked
\* one.
LEMMA MarkChangedDoes ==
    ASSUME NEW w, Sound(w), NEW d \in DraftIds(w)
    PROVE  LET x == MarkChanged(w, d)
           IN  /\ DraftIds(x) = DraftIds(w)
               /\ x.heap = w.heap /\ x.tasks = w.tasks /\ x.handled = w.handled
               /\ Node(x, d).operated
               /\ \A e \in DraftIds(w) :
                     /\ Node(x, e).original = Node(w, e).original
                     /\ Node(x, e).parent = Node(w, e).parent
                     /\ Node(x, e).key = Node(w, e).key
                     /\ Node(x, e).copy = Node(w, e).copy
                     /\ Node(w, e).operated => Node(x, e).operated
                     /\ Node(x, e).assigned = Node(w, e).assigned
                     /\ Node(x, e).callbacks = Node(w, e).callbacks
<1> DEFINE up == Climbed(w, d)
           ds == [e \in DraftIds(w) |->
                    IF e \in up THEN [w.drafts[e] EXCEPT !.operated = TRUE]
                                ELSE w.drafts[e]]
           x == MarkChanged(w, d)
<1>0. w \in World
  BY DEF Sound, WorldOK
<1>1. w.drafts \in [DraftIds(w) -> DraftState]
  BY <1>0, WorldParts DEF DraftIds
<1>2. d \in up
  BY DEF Climbed
<1> HIDE DEF up
<1>3. ASSUME NEW e \in DraftIds(w)
      PROVE  /\ ds[e].original = w.drafts[e].original
             /\ ds[e].copy = w.drafts[e].copy
             /\ ds[e].parent = w.drafts[e].parent
             /\ ds[e].key = w.drafts[e].key
             /\ ds[e].callbacks = w.drafts[e].callbacks
             /\ ds[e].assigned = w.drafts[e].assigned
             /\ ds[e].operated = (e \in up \/ w.drafts[e].operated)
  <2>1. w.drafts[e] \in DraftState
    BY <1>1
  <2> QED
    BY <2>1 DEF DraftState
<1>4. DOMAIN ds = DraftIds(w)
  OBVIOUS
<1>5. x = [w EXCEPT !.drafts = ds]
  BY DEF MarkChanged, up
<1>6. x.heap = w.heap /\ x.drafts = ds /\ x.tasks = w.tasks /\ x.handled = w.handled
  BY <1>0, <1>5 DEF World
<1> HIDE DEF ds, x
<1>7. \A e \in DraftIds(w) : Node(x, e) = ds[e] /\ Node(w, e) = w.drafts[e]
  BY <1>6 DEF Node
<1>8. DraftIds(x) = DraftIds(w)
  BY <1>4, <1>6 DEF DraftIds
<1>9. \A e \in DraftIds(w) :
         /\ Node(x, e).original = Node(w, e).original
         /\ Node(x, e).parent = Node(w, e).parent
         /\ Node(x, e).key = Node(w, e).key
         /\ Node(x, e).copy = Node(w, e).copy
         /\ Node(w, e).operated => Node(x, e).operated
         /\ Node(x, e).assigned = Node(w, e).assigned
         /\ Node(x, e).callbacks = Node(w, e).callbacks
  BY ZenonT(60), <1>3, <1>7
<1>10. Node(x, d).operated
  BY <1>2, <1>3, <1>7
<1> QED
  BY <1>6, <1>8, <1>9, <1>10 DEF x

\* An entry in assignedMap changes nothing else.
LEMMA AssignedDoes ==
    ASSUME NEW w, Sound(w), NEW d \in DraftIds(w), NEW k \in Keys, NEW flag \in Flags
    PROVE  LET x == Assigned(w, d, k, flag)
           IN  /\ DraftIds(x) = DraftIds(w)
               /\ x.heap = w.heap /\ x.tasks = w.tasks /\ x.handled = w.handled
               /\ \A e \in DraftIds(w) :
                     /\ Node(x, e).original = Node(w, e).original
                     /\ Node(x, e).parent = Node(w, e).parent
                     /\ Node(x, e).key = Node(w, e).key
                     /\ Node(x, e).copy = Node(w, e).copy
                     /\ Node(x, e).operated = Node(w, e).operated
                     /\ Node(x, e).callbacks = Node(w, e).callbacks
                     /\ e # d => Node(x, e).assigned = Node(w, e).assigned
               /\ \A j \in Keys :
                     Node(x, d).assigned[j] = IF j = k THEN flag
                                              ELSE Node(w, d).assigned[j]
<1> DEFINE ds == [w.drafts EXCEPT ![d].assigned[k] = flag]
           x == Assigned(w, d, k, flag)
<1>0. w \in World
  BY DEF Sound, WorldOK
<1>1. w.drafts \in [DOMAIN w.drafts -> DraftState]
  BY <1>0, WorldParts
<1>2. \A e \in DraftIds(w) :
         /\ ds[e].original = w.drafts[e].original
         /\ ds[e].copy = w.drafts[e].copy
         /\ ds[e].parent = w.drafts[e].parent
         /\ ds[e].key = w.drafts[e].key
         /\ ds[e].operated = w.drafts[e].operated
         /\ ds[e].callbacks = w.drafts[e].callbacks
         /\ e # d => ds[e].assigned = w.drafts[e].assigned
  BY <1>1 DEF DraftState, DraftIds
<1>3. \A j \in Keys : ds[d].assigned[j] = IF j = k THEN flag ELSE w.drafts[d].assigned[j]
  BY <1>1 DEF DraftState, DraftIds
<1>4. DOMAIN ds = DraftIds(w)
  BY DEF DraftIds
<1>5. x = [w EXCEPT !.drafts = ds]
  BY DEF Assigned
<1>6. x.heap = w.heap /\ x.drafts = ds /\ x.tasks = w.tasks /\ x.handled = w.handled
  BY <1>0, <1>5 DEF World
<1> HIDE DEF ds, x
<1>7. \A e \in DraftIds(w) : Node(x, e) = ds[e] /\ Node(w, e) = w.drafts[e]
  BY <1>6 DEF Node
<1> QED
  BY <1>2, <1>3, <1>4, <1>6, <1>7 DEF x, DraftIds

\* set() writes one key of one copy.
LEMMA PutDoes ==
    ASSUME NEW w, Sound(w), NEW d \in DraftIds(w), Node(w, d).copy # Null,
           NEW k \in Keys, NEW v
    PROVE  LET x == Put(w, d, k, v)
           IN  /\ x.drafts = w.drafts /\ x.tasks = w.tasks /\ x.handled = w.handled
               /\ DOMAIN x.heap = DOMAIN w.heap
               /\ \A a \in DOMAIN w.heap : a # Node(w, d).copy => x.heap[a] = w.heap[a]
               /\ Copy(x, d).type = Copy(w, d).type
               /\ \A j \in Keys : Copy(x, d).at[j] = IF j = k THEN v ELSE Copy(w, d).at[j]
<1> DEFINE c == Node(w, d).copy
           h == [w.heap EXCEPT ![c].at[k] = v]
           x == Put(w, d, k, v)
<1>0. w \in World /\ c \in DOMAIN w.heap
  BY DEF Sound, WorldOK
<1>1. w.heap \in [DOMAIN w.heap -> Object]
  BY <1>0, WorldParts
<1>2. /\ DOMAIN h = DOMAIN w.heap
      /\ \A a \in DOMAIN w.heap : a # c => h[a] = w.heap[a]
      /\ h[c].type = w.heap[c].type
      /\ \A j \in Keys : h[c].at[j] = IF j = k THEN v ELSE w.heap[c].at[j]
  BY <1>0, <1>1 DEF Object
<1>3. x = [w EXCEPT !.heap = h]
  BY DEF Put
<1>4. x.heap = h /\ x.drafts = w.drafts /\ x.tasks = w.tasks /\ x.handled = w.handled
  BY <1>0, <1>3 DEF World
<1>5. Copy(x, d) = h[c] /\ Copy(w, d) = w.heap[c]
  BY <1>4 DEF Copy, Node
<1> HIDE DEF h
<1> QED
  BY <1>2, <1>4, <1>5

\* A list with an entry more.
LEMMA AppendHolds ==
    ASSUME NEW S, NEW s \in Seq(S), NEW v \in S
    PROVE  /\ DOMAIN Append(s, v) = DOMAIN s \cup {Len(s) + 1}
           /\ \A i \in DOMAIN s : Append(s, v)[i] = s[i]
           /\ Append(s, v)[Len(s) + 1] = v
<1>1. /\ Append(s, v) \in Seq(S) /\ Len(Append(s, v)) = Len(s) + 1
      /\ \A i \in 1 .. Len(s) : Append(s, v)[i] = s[i]
      /\ Append(s, v)[Len(s) + 1] = v
      /\ Len(s) \in Nat /\ DOMAIN s = 1 .. Len(s)
  BY AppendProperties, LenProperties
<1>2. DOMAIN Append(s, v) = 1 .. Len(s) + 1
  BY <1>1, LenProperties
<1> QED
  BY <1>1, <1>2

\* markFinalization() adds a callback or a deferred task, whichever the
\* value needs.
LEMMA MarkFinalizationDoes ==
    ASSUME NEW w, Sound(w), NEW d \in DraftIds(w), NEW k \in Keys,
           NEW v \in Value, ExistsIn(w, v)
    PROVE  LET x == MarkFinalization(w, d, k, v)
           IN  /\ DraftIds(x) = DraftIds(w)
               /\ x.heap = w.heap /\ x.handled = w.handled
               /\ \A e \in DraftIds(w) :
                     /\ Node(x, e).original = Node(w, e).original
                     /\ Node(x, e).parent = Node(w, e).parent
                     /\ Node(x, e).key = Node(w, e).key
                     /\ Node(x, e).copy = Node(w, e).copy
                     /\ Node(x, e).operated = Node(w, e).operated
                     /\ Node(x, e).assigned = Node(w, e).assigned
                     /\ \A c, j : CallsBack(w, e, c, j) => CallsBack(x, e, c, j)
               /\ \A task : Queued(w, task) => Queued(x, task)
               /\ IsDraft(v) => CallsBack(x, v.id, d, k)
               /\ IsObj(v) => Queued(x, AssignedTask(d, k, v))
<1> DEFINE x == MarkFinalization(w, d, k, v)
<1>0. /\ w \in World /\ w.tasks \in Seq(Task)
      /\ w.drafts \in [DraftIds(w) -> DraftState] /\ d \in Nat
  BY WorldParts DEF Sound, WorldOK, World, DraftIds
<1>1. CASE IsDraft(v)
  <2> DEFINE e == v.id
             old == w.drafts[e].callbacks
             call == [target |-> d, key |-> k]
             cs == Append(old, call)
             ds == [w.drafts EXCEPT ![e].callbacks = cs]
  <2>1. e \in DraftIds(w)
    BY <1>1 DEF ExistsIn
  <2>2. old \in Seq(Callback) /\ call \in Callback /\ call.target = d /\ call.key = k
    BY <1>0, <2>1 DEF DraftState, Callback
  <2>3. x = [w EXCEPT !.drafts = ds]
    BY <1>1 DEF MarkFinalization, IsDraft, IsObj
  <2> HIDE DEF call, cs
  <2>4. \A y \in DraftIds(w) :
           /\ ds[y].original = w.drafts[y].original
           /\ ds[y].copy = w.drafts[y].copy
           /\ ds[y].parent = w.drafts[y].parent
           /\ ds[y].key = w.drafts[y].key
           /\ ds[y].operated = w.drafts[y].operated
           /\ ds[y].assigned = w.drafts[y].assigned
           /\ ds[y].callbacks = IF y = e THEN cs ELSE w.drafts[y].callbacks
    BY <1>0, <2>1 DEF DraftState
  <2>5. /\ x.heap = w.heap /\ x.drafts = ds /\ x.tasks = w.tasks
        /\ x.handled = w.handled
    BY <1>0, <2>3 DEF World
  <2>6. DraftIds(x) = DraftIds(w)
    BY <1>0, <2>5 DEF DraftIds
  <2>7. /\ DOMAIN cs = DOMAIN old \cup {Len(old) + 1}
        /\ \A i \in DOMAIN old : cs[i] = old[i]
        /\ cs[Len(old) + 1] = call
    <3> HIDE DEF old
    <3> QED
      BY <2>2, AppendHolds DEF cs
  <2> HIDE DEF ds, x
  <2>8. \A y \in DraftIds(w) : Node(x, y) = ds[y] /\ Node(w, y) = w.drafts[y]
    BY <2>5 DEF Node
  <2>9. ASSUME NEW y \in DraftIds(w), NEW c, NEW j, CallsBack(w, y, c, j)
        PROVE  CallsBack(x, y, c, j)
    <3>1. CASE y = e
      <4>1. PICK i \in DOMAIN old : old[i].target = c /\ old[i].key = j
        BY <2>8, <2>9, <3>1 DEF CallsBack
      <4>2. i \in DOMAIN cs /\ cs[i].target = c /\ cs[i].key = j
        BY <2>7, <4>1
      <4> QED
        BY <2>4, <2>8, <3>1, <4>2 DEF CallsBack
    <3>2. CASE y # e
      BY <2>4, <2>8, <2>9, <3>2 DEF CallsBack
    <3> QED
      BY <3>1, <3>2
  <2>10. CallsBack(x, e, d, k)
    <3>1. Node(x, e).callbacks = cs
      BY <2>1, <2>4, <2>8
    <3> HIDE DEF old
    <3> QED
      BY <2>2, <2>7, <3>1 DEF CallsBack
  <2>11. ~IsObj(v)
    BY <1>1 DEF IsDraft, IsObj
  <2> HIDE DEF e
  <2>12. \A task : Queued(w, task) => Queued(x, task)
    BY <2>5 DEF Queued
  <2> QED
    BY <2>4, <2>5, <2>6, <2>8, <2>9, <2>10, <2>11, <2>12 DEF x, e
<1>2. CASE ~IsDraft(v) /\ IsObj(v)
  <2> DEFINE task == AssignedTask(d, k, v)
             ts == Append(w.tasks, task)
  <2>1. task \in Task
    BY <1>0 DEF Task, AssignedTask
  <2>2. /\ DOMAIN ts = DOMAIN w.tasks \cup {Len(w.tasks) + 1}
        /\ \A i \in DOMAIN w.tasks : ts[i] = w.tasks[i]
        /\ ts[Len(w.tasks) + 1] = task
    <3> HIDE DEF task
    <3> QED
      BY <1>0, <2>1, AppendHolds
  <2>3. x = [w EXCEPT !.tasks = ts]
    BY <1>2 DEF MarkFinalization, IsDraft, IsObj, AssignedTask
  <2>4. /\ x.heap = w.heap /\ x.drafts = w.drafts /\ x.tasks = ts
        /\ x.handled = w.handled
    BY <1>0, <2>3 DEF World
  <2> HIDE DEF x, ts, task
  <2>5. \A t : Queued(w, t) => Queued(x, t)
    BY <2>2, <2>4 DEF Queued
  <2>6. Queued(x, task)
    BY <2>2, <2>4 DEF Queued
  <2> QED
    BY <1>2, <2>4, <2>5, <2>6 DEF x, task, DraftIds, Node, CallsBack
<1>3. CASE ~IsDraft(v) /\ ~IsObj(v)
  <2>1. x = w
    BY <1>3 DEF MarkFinalization
  <2> QED
    BY <1>3, <2>1
<1> QED
  BY <1>1, <1>2, <1>3

\* createDraft() adds one draft without a copy, queued for the
\* finalization.
LEMMA CreateDraftDoes ==
    ASSUME NEW w, Sound(w), NEW a \in DOMAIN base, NEW p \in DraftIds(w),
           NEW k \in Keys
    PROVE  LET x == CreateDraft(w, a, p, k)
               n == Len(w.drafts) + 1
           IN  /\ n \notin DraftIds(w) /\ n \in Nat /\ Len(x.drafts) = n
               /\ DraftIds(x) = DraftIds(w) \cup {n}
               /\ x.heap = w.heap /\ x.handled = w.handled
               /\ \A e \in DraftIds(w) : Node(x, e) = Node(w, e)
               /\ Node(x, n).original = a /\ Node(x, n).copy = Null
               /\ Node(x, n).parent = p /\ Node(x, n).key = k
               /\ Node(x, n).operated = FALSE
               /\ \A j \in Keys : Node(x, n).assigned[j] = "none"
               /\ \A task : Queued(w, task) => Queued(x, task)
               /\ Queued(x, NodeTask(n))
<1> DEFINE x == CreateDraft(w, a, p, k)
           n == Len(w.drafts) + 1
           new == [original |-> a, copy |-> Null, parent |-> p, key |-> k,
                   operated |-> FALSE, finalized |-> FALSE,
                   assigned |-> [i \in Keys |-> "none"], callbacks |-> <<>>]
           ds == Append(w.drafts, new)
           ts == Append(w.tasks, NodeTask(n))
<1>0. w \in World
  BY DEF Sound, WorldOK
<1>1. /\ w.drafts \in Seq(DraftState) /\ w.tasks \in Seq(Task)
      /\ DOMAIN w.heap = 1 .. Len(w.heap) /\ Len(w.heap) \in Nat
      /\ DOMAIN w.drafts = 1 .. Len(w.drafts) /\ Len(w.drafts) \in Nat
      /\ DOMAIN w.tasks = 1 .. Len(w.tasks) /\ Len(w.tasks) \in Nat
  BY <1>0, WorldParts DEF World
<1>2. n \in Nat /\ n \notin DraftIds(w)
  BY <1>1 DEF DraftIds
<1>3. new \in DraftState
  <2>1. a \in Nat /\ p \in Nat
    BY <1>1 DEF DraftIds, Sound, Kept
  <2>2. <<>> \in Seq(Callback)
    OBVIOUS
  <2> QED
    BY <2>1, <2>2 DEF DraftState, Flags, Null
<1>4. NodeTask(n) \in Task
  BY <1>2 DEF Task, NodeTask
<1>5. x = [w EXCEPT !.drafts = ds, !.tasks = ts]
  BY DEF CreateDraft, NodeTask
<1>6. /\ x.heap = w.heap /\ x.drafts = ds /\ x.tasks = ts
      /\ x.handled = w.handled
  BY <1>0, <1>5 DEF World
<1>7. /\ new.original = a /\ new.copy = Null /\ new.parent = p /\ new.key = k
      /\ new.operated = FALSE
      /\ \A i \in Keys : new.assigned[i] = "none"
  OBVIOUS
<1> HIDE DEF x, new
<1>8. /\ DOMAIN ds = DraftIds(w) \cup {n}
      /\ \A e \in DraftIds(w) : ds[e] = w.drafts[e]
      /\ ds[n] = new /\ Len(ds) = n
  BY <1>1, <1>3, AppendHolds, AppendProperties DEF DraftIds
<1> HIDE DEF n
<1>9. /\ DOMAIN ts = DOMAIN w.tasks \cup {Len(w.tasks) + 1}
      /\ \A i \in DOMAIN w.tasks : ts[i] = w.tasks[i]
      /\ ts[Len(w.tasks) + 1] = NodeTask(n)
  BY <1>1, <1>4, AppendHolds
<1> HIDE DEF ds, ts
<1>10. /\ \A task : Queued(w, task) => Queued(x, task)
       /\ Queued(x, NodeTask(n))
  BY <1>6, <1>9 DEF Queued
<1>11. /\ DraftIds(x) = DraftIds(w) \cup {n}
       /\ \A e \in DraftIds(w) : Node(x, e) = Node(w, e)
       /\ Node(x, n) = new
  BY <1>6, <1>8 DEF Node, DraftIds
<1> QED
  BY <1>2, <1>6, <1>7, <1>8, <1>10, <1>11 DEF x, n

-----------------------------------------------------------------------------
(***************************************************************************)
(* The steps of the recipe.                                                *)
(***************************************************************************)

\* The keys K of draft d were written, one key or those of a Map: all of them
\* are v now.  Without a mark, that is what the original holds there.  What v
\* leads to was noted.
Wrote(w, x, d, K, v) ==
    /\ d \in DraftIds(w) /\ K \subseteq Keys
    /\ Extends(w, x)
    /\ DraftIds(x) = DraftIds(w)
    /\ CopyOnly(w, x, d)
    /\ \A j \in Keys : Copy(x, d).at[j] = IF j \in K THEN v ELSE Latest(w, d).at[j]
    /\ \/ Copy(x, d).type = Latest(w, d).type /\ \E k : K = {k}
       \/ Copy(x, d).type = "map" /\ K = Keys /\ v = Absent
    /\ \A j \in Keys \ K : Node(x, d).assigned[j] = Node(w, d).assigned[j]
    /\ \/ Node(x, d).operated
       \/ /\ Copy(x, d).type = Latest(w, d).type
          /\ \A j \in K : v = Original(w, d).at[j]
    /\ IsDraft(v) => \A j \in K : CallsBack(x, v.id, d, j)
    /\ IsObj(v) /\ v.id \notin DOMAIN base =>
          \A j \in K : /\ Node(x, d).assigned[j] = "set"
                       /\ Queued(x, AssignedTask(d, j, v))

\* Key k of draft d was read, which created draft n for what is there.
Drafted(w, x, d, k, n) ==
    /\ d \in DraftIds(w) /\ k \in Keys
    /\ Extends(w, x)
    /\ n \in Nat /\ n \notin DraftIds(w) /\ DraftIds(x) = DraftIds(w) \cup {n}
    /\ CopyOnly(w, x, d)
    /\ \A e \in DraftIds(w) : /\ Node(x, e).operated = Node(w, e).operated
                              /\ Node(x, e).assigned = Node(w, e).assigned
    /\ Copy(x, d).type = Latest(w, d).type
    /\ \A j \in Keys : Copy(x, d).at[j] = IF j = k THEN Draft(n) ELSE Latest(w, d).at[j]
    /\ Latest(w, d).at[k] = Original(w, d).at[k]
    /\ Original(w, d).at[k] = Obj(Node(x, n).original)
    /\ Node(x, n).copy = Null /\ Node(x, n).parent = d /\ Node(x, n).key = k
    /\ ~Node(x, n).operated
    /\ Queued(x, NodeTask(n))

\* An assignment, from the mark to markFinalization(), writes one key of
\* one copy and registers what it wrote.
LEMMA WriteDoes ==
    ASSUME NEW w, Sound(w), NEW d \in DraftIds(w), NEW k \in Keys,
           NEW flag \in Flags, NEW v \in Value, ExistsIn(w, v),
           IsObj(v) /\ v.id \notin DOMAIN base => flag = "set"
    PROVE  LET m == MarkChanged(EnsureShallowCopy(w, d), d)
               p == Put(Assigned(m, d, k, flag), d, k, v)
           IN  Wrote(w, MarkFinalization(p, d, k, v), d, {k}, v)
<1> DEFINE c == EnsureShallowCopy(w, d)
           m == MarkChanged(c, d)
           a == Assigned(m, d, k, flag)
           p == Put(a, d, k, v)
           x == MarkFinalization(p, d, k, v)
<1>1. /\ Sound(c) /\ DraftIds(c) = DraftIds(w) /\ Node(c, d).copy # Null
      /\ DOMAIN w.heap \subseteq DOMAIN c.heap
  BY EnsureShallowCopySound
<1>2. /\ c.tasks = w.tasks /\ c.handled = w.handled
      /\ \A e \in DraftIds(w) :
            /\ Node(c, e).original = Node(w, e).original
            /\ Node(c, e).parent = Node(w, e).parent
            /\ Node(c, e).key = Node(w, e).key
            /\ Node(c, e).operated = Node(w, e).operated
            /\ Node(c, e).assigned = Node(w, e).assigned
            /\ Node(c, e).callbacks = Node(w, e).callbacks
            /\ Node(w, e).copy # Null => Node(c, e).copy = Node(w, e).copy
      /\ CopyOnly(w, c, d)
      /\ Copy(c, d) = Latest(w, d)
  BY EnsureShallowCopyDoes
<1> HIDE DEF c
<1>3. /\ Sound(m) /\ DraftIds(m) = DraftIds(c)
      /\ m.heap = c.heap /\ m.tasks = c.tasks /\ m.handled = c.handled
      /\ Node(m, d).operated
      /\ \A e \in DraftIds(c) :
            /\ Node(m, e).original = Node(c, e).original
            /\ Node(m, e).parent = Node(c, e).parent
            /\ Node(m, e).key = Node(c, e).key
            /\ Node(m, e).copy = Node(c, e).copy
            /\ Node(c, e).operated => Node(m, e).operated
            /\ Node(m, e).assigned = Node(c, e).assigned
            /\ Node(m, e).callbacks = Node(c, e).callbacks
  BY <1>1, MarkChangedDoes, MarkChangedSound
<1> HIDE DEF m
<1>4. /\ Sound(a) /\ DraftIds(a) = DraftIds(m)
      /\ a.heap = m.heap /\ a.tasks = m.tasks /\ a.handled = m.handled
      /\ \A e \in DraftIds(m) :
            /\ Node(a, e).original = Node(m, e).original
            /\ Node(a, e).parent = Node(m, e).parent
            /\ Node(a, e).key = Node(m, e).key
            /\ Node(a, e).copy = Node(m, e).copy
            /\ Node(a, e).operated = Node(m, e).operated
            /\ Node(a, e).callbacks = Node(m, e).callbacks
            /\ e # d => Node(a, e).assigned = Node(m, e).assigned
      /\ \A j \in Keys :
            Node(a, d).assigned[j] = IF j = k THEN flag ELSE Node(m, d).assigned[j]
  BY <1>1, <1>3, AssignedDoes, AssignedSound
<1> HIDE DEF a
<1>5. Node(a, d).copy = Node(c, d).copy /\ Node(a, d).copy # Null
  BY <1>1, <1>3, <1>4
<1>6. ExistsIn(a, v)
  BY <1>1, <1>3, <1>4 DEF ExistsIn
<1>7. /\ Sound(p)
      /\ p.drafts = a.drafts /\ p.tasks = a.tasks /\ p.handled = a.handled
      /\ DOMAIN p.heap = DOMAIN a.heap
      /\ \A b \in DOMAIN a.heap : b # Node(a, d).copy => p.heap[b] = a.heap[b]
      /\ Copy(p, d).type = Copy(a, d).type
      /\ \A j \in Keys : Copy(p, d).at[j] = IF j = k THEN v ELSE Copy(a, d).at[j]
  BY <1>1, <1>3, <1>4, <1>5, <1>6, PutDoes, PutSound
<1>8. DraftIds(p) = DraftIds(a) /\ \A e : Node(p, e) = Node(a, e)
  BY <1>7 DEF DraftIds, Node
<1> HIDE DEF p
<1>9. ExistsIn(p, v)
  BY <1>6, <1>7, <1>8 DEF ExistsIn
<1>10. /\ DraftIds(x) = DraftIds(p)
       /\ x.heap = p.heap /\ x.handled = p.handled
       /\ \A e \in DraftIds(p) :
             /\ Node(x, e).original = Node(p, e).original
             /\ Node(x, e).parent = Node(p, e).parent
             /\ Node(x, e).key = Node(p, e).key
             /\ Node(x, e).copy = Node(p, e).copy
             /\ Node(x, e).operated = Node(p, e).operated
             /\ Node(x, e).assigned = Node(p, e).assigned
             /\ \A b, j : CallsBack(p, e, b, j) => CallsBack(x, e, b, j)
       /\ \A task : Queued(p, task) => Queued(x, task)
       /\ IsDraft(v) => CallsBack(x, v.id, d, k)
       /\ IsObj(v) => Queued(x, AssignedTask(d, k, v))
  BY <1>1, <1>3, <1>4, <1>7, <1>8, <1>9, MarkFinalizationDoes
<1> HIDE DEF x
<1>11. DraftIds(x) = DraftIds(w)
  BY <1>1, <1>3, <1>4, <1>8, <1>10
<1>12. ASSUME NEW e \in DraftIds(w)
       PROVE  /\ Node(x, e).original = Node(w, e).original
              /\ Node(x, e).parent = Node(w, e).parent
              /\ Node(x, e).key = Node(w, e).key
              /\ Node(x, e).copy = Node(c, e).copy
              /\ Node(w, e).operated => Node(x, e).operated
              /\ e # d => Node(x, e).assigned = Node(w, e).assigned
              /\ Node(p, e).callbacks = Node(w, e).callbacks
  BY <1>1, <1>2, <1>3, <1>4, <1>8, <1>10
<1>13. ASSUME NEW e \in DraftIds(w), NEW b, NEW j, CallsBack(w, e, b, j)
       PROVE  CallsBack(x, e, b, j)
  <2>1. CallsBack(p, e, b, j)
    BY <1>12, <1>13 DEF CallsBack
  <2> QED
    BY <2>1, <1>10, <1>11
<1>14. ASSUME NEW task, Queued(w, task) PROVE Queued(x, task)
  <2>1. p.tasks = w.tasks
    BY <1>2, <1>3, <1>4, <1>7
  <2>2. Queued(p, task)
    BY <1>14, <2>1 DEF Queued
  <2> QED
    BY <2>2, <1>10
<1>15. Extends(w, x)
  <2>1. x.handled = w.handled
    BY <1>2, <1>3, <1>4, <1>7, <1>10
  <2> QED
    BY <1>2, <1>11, <1>12, <1>13, <1>14, <2>1 DEF Extends
<1>16. Node(x, d).copy = Node(c, d).copy
  BY <1>12
<1>17. CopyOnly(w, x, d)
  <2>1. DOMAIN x.heap = DOMAIN c.heap
    BY <1>3, <1>4, <1>7, <1>10
  <2>2. \A b \in DOMAIN c.heap : b # Node(x, d).copy => x.heap[b] = c.heap[b]
    BY <1>3, <1>4, <1>5, <1>7, <1>10, <1>16
  <2>3. \A b \in DOMAIN w.heap : b # Node(x, d).copy => x.heap[b] = w.heap[b]
    BY <1>2, <1>16, <2>2 DEF CopyOnly
  <2> QED
    BY <1>2, <1>12, <1>16, <2>1, <2>3 DEF CopyOnly
<1>18. /\ Copy(x, d).type = Latest(w, d).type
       /\ \A j \in Keys : Copy(x, d).at[j] = IF j = k THEN v ELSE Latest(w, d).at[j]
  <2>1. Copy(a, d) = Latest(w, d)
    BY <1>2, <1>3, <1>4, <1>5 DEF Copy
  <2>2. Copy(x, d) = Copy(p, d)
    BY <1>10, <1>11, <1>8, <1>4, <1>3, <1>1 DEF Copy
  <2> QED
    BY <1>7, <2>1, <2>2
<1>19. \A j \in Keys : Node(x, d).assigned[j] = IF j = k THEN flag ELSE Node(w, d).assigned[j]
  BY <1>1, <1>2, <1>3, <1>4, <1>8, <1>10
<1>20. Node(x, d).operated
  BY <1>1, <1>3, <1>4, <1>8, <1>10
<1> QED
  BY <1>10, <1>11, <1>15, <1>17, <1>18, <1>19, <1>20 DEF Wrote, x, p, a, m, c

\* Writing to the copy alone: a value that the original holds, or to a draft that
\* is marked.
LEMMA PutWrites ==
    ASSUME NEW w, Sound(w), NEW d \in DraftIds(w), Node(w, d).copy # Null,
           NEW k \in Keys, NEW v, ~IsDraft(v), IsObj(v) => v.id \in DOMAIN base,
           v = Original(w, d).at[k] \/ Node(w, d).operated
    PROVE  Wrote(w, Put(w, d, k, v), d, {k}, v)
<1> DEFINE x == Put(w, d, k, v)
<1>1. /\ x.drafts = w.drafts /\ x.tasks = w.tasks /\ x.handled = w.handled
      /\ DOMAIN x.heap = DOMAIN w.heap
      /\ \A a \in DOMAIN w.heap : a # Node(w, d).copy => x.heap[a] = w.heap[a]
      /\ Copy(x, d).type = Copy(w, d).type
      /\ \A j \in Keys : Copy(x, d).at[j] = IF j = k THEN v ELSE Copy(w, d).at[j]
  BY PutDoes
<1> HIDE DEF x
<1>2. DraftIds(x) = DraftIds(w) /\ \A e : Node(x, e) = Node(w, e)
  BY <1>1 DEF DraftIds, Node
<1>3. Extends(w, x)
  BY <1>1, <1>2 DEF Extends, CallsBack, Queued
<1>4. Node(w, d).copy \in DOMAIN w.heap
  BY DEF Sound, WorldOK
<1>5. CopyOnly(w, x, d)
  BY <1>1, <1>2, <1>4 DEF CopyOnly
<1>6. Latest(w, d) = Copy(w, d)
  BY DEF Latest, LatestAddress, Copy
<1> QED
  BY <1>1, <1>2, <1>3, <1>5, <1>6 DEF Wrote, x

\* Afterwards marks and entries of the lists may follow, and the entry of
\* assignedMap, if the value needs no finalization.
LEMMA WroteAndNoted ==
    ASSUME NEW w, NEW y, NEW x, NEW d, NEW K, NEW v,
           Wrote(w, y, d, K, v), ~IsDraft(v), IsObj(v) => v.id \in DOMAIN base,
           DraftIds(x) = DraftIds(y), x.heap = y.heap, x.handled = y.handled,
           \A task : Queued(y, task) => Queued(x, task),
           \A e \in DraftIds(y) :
              /\ Node(x, e).original = Node(y, e).original
              /\ Node(x, e).parent = Node(y, e).parent
              /\ Node(x, e).key = Node(y, e).key
              /\ Node(x, e).copy = Node(y, e).copy
              /\ Node(y, e).operated => Node(x, e).operated
              /\ e # d => Node(x, e).assigned = Node(y, e).assigned
              /\ \A b, j : CallsBack(y, e, b, j) => CallsBack(x, e, b, j),
           \A j \in Keys \ K : Node(x, d).assigned[j] = Node(y, d).assigned[j]
    PROVE  Wrote(w, x, d, K, v)
<1>1. d \in DraftIds(w) /\ DraftIds(y) = DraftIds(w) /\ K \subseteq Keys
  BY DEF Wrote
<1>2. Extends(w, x)
  BY <1>1 DEF Wrote, Extends
<1>3. Copy(x, d) = Copy(y, d) /\ Node(x, d).copy = Node(y, d).copy
  BY <1>1 DEF Copy
<1>4. CopyOnly(w, x, d)
  BY <1>1, <1>3 DEF Wrote, CopyOnly
<1>5. \/ Node(x, d).operated
      \/ /\ Copy(x, d).type = Latest(w, d).type
         /\ \A j \in K : v = Original(w, d).at[j]
  BY <1>1, <1>3 DEF Wrote
<1> QED
  BY <1>1, <1>2, <1>3, <1>4, <1>5 DEF Wrote

\* Assigning the original over its draft writes one key of a copy that is
\* there.
LEMMA RestoreDoes ==
    ASSUME NEW w, Sound(w), NEW d \in DraftIds(w), Node(w, d).copy # Null,
           NEW k \in Keys, NEW v \in Value, ExistsIn(w, v),
           ~IsDraft(v), IsObj(v) => v.id \in DOMAIN base
    PROVE  LET p == Put(w, d, k, v)
           IN  /\ v = Original(w, d).at[k] =>
                     Wrote(w, Assigned(p, d, k, "none"), d, {k}, v)
               /\ Wrote(w, MarkFinalization(Assigned(MarkChanged(p, d), d, k, "set"),
                                            d, k, v), d, {k}, v)
<1> DEFINE p == Put(w, d, k, v)
           r == Assigned(p, d, k, "none")
           m == MarkChanged(p, d)
           s == Assigned(m, d, k, "set")
           x == MarkFinalization(s, d, k, v)
<1>1. /\ Sound(p) /\ DraftIds(p) = DraftIds(w) /\ ExistsIn(p, v)
      /\ Node(p, d).copy # Null
  BY PutKeeps DEF DraftIds, Node
<1>2. ASSUME v = Original(w, d).at[k]
      PROVE  Wrote(w, r, d, {k}, v)
  <2>1. Wrote(w, p, d, {k}, v)
    BY <1>2, PutWrites
  <2> HIDE DEF p
  <2>2. /\ DraftIds(r) = DraftIds(p)
        /\ r.heap = p.heap /\ r.tasks = p.tasks /\ r.handled = p.handled
        /\ \A e \in DraftIds(p) :
              /\ Node(r, e).original = Node(p, e).original
              /\ Node(r, e).parent = Node(p, e).parent
              /\ Node(r, e).key = Node(p, e).key
              /\ Node(r, e).copy = Node(p, e).copy
              /\ Node(r, e).operated = Node(p, e).operated
              /\ Node(r, e).callbacks = Node(p, e).callbacks
              /\ e # d => Node(r, e).assigned = Node(p, e).assigned
        /\ \A j \in Keys :
              Node(r, d).assigned[j] = IF j = k THEN "none" ELSE Node(p, d).assigned[j]
    BY <1>1, AssignedDoes DEF Flags
  <2> HIDE DEF r
  <2> QED
    BY <2>1, <2>2, WroteAndNoted DEF CallsBack, Queued
<1>3. Wrote(w, x, d, {k}, v)
  <2>1. /\ Sound(m) /\ DraftIds(m) = DraftIds(p) /\ Node(m, d).operated
        /\ m.heap = p.heap /\ m.tasks = p.tasks /\ m.handled = p.handled
        /\ \A e \in DraftIds(p) :
              /\ Node(m, e).original = Node(p, e).original
              /\ Node(m, e).parent = Node(p, e).parent
              /\ Node(m, e).key = Node(p, e).key
              /\ Node(m, e).copy = Node(p, e).copy
              /\ Node(p, e).operated => Node(m, e).operated
              /\ Node(m, e).assigned = Node(p, e).assigned
              /\ Node(m, e).callbacks = Node(p, e).callbacks
    <3> HIDE DEF p
    <3> QED
      BY <1>1, MarkChangedDoes, MarkChangedSound
  <2>2. Wrote(w, m, d, {k}, v)
    <3>1. /\ p.drafts = w.drafts /\ p.tasks = w.tasks /\ p.handled = w.handled
          /\ DOMAIN p.heap = DOMAIN w.heap
          /\ \A a \in DOMAIN w.heap : a # Node(w, d).copy => p.heap[a] = w.heap[a]
          /\ Copy(p, d).type = Copy(w, d).type
          /\ \A j \in Keys : Copy(p, d).at[j] = IF j = k THEN v ELSE Copy(w, d).at[j]
      BY PutDoes
    <3> HIDE DEF p, m
    <3>2. DraftIds(p) = DraftIds(w) /\ \A e : Node(p, e) = Node(w, e)
      BY <3>1 DEF DraftIds, Node
    <3>3. Node(w, d).copy \in DOMAIN w.heap
      BY DEF Sound, WorldOK
    <3>4. CopyOnly(w, m, d)
      BY <2>1, <3>1, <3>2, <3>3 DEF CopyOnly
    <3>5. Latest(w, d) = Copy(w, d) /\ Copy(m, d) = Copy(p, d)
      BY <2>1, <3>2 DEF Latest, LatestAddress, Copy
    <3>6. Extends(w, m)
      BY <2>1, <3>1, <3>2 DEF Extends, CallsBack, Queued
    <3> QED
      BY <2>1, <3>1, <3>2, <3>4, <3>5, <3>6 DEF Wrote
  <2>3. DraftIds(p) = DraftIds(w)
    BY <1>1
  <2> HIDE DEF m
  <2>4. /\ Sound(s) /\ DraftIds(s) = DraftIds(m)
        /\ s.heap = m.heap /\ s.tasks = m.tasks /\ s.handled = m.handled
        /\ \A e \in DraftIds(m) :
              /\ Node(s, e).original = Node(m, e).original
              /\ Node(s, e).parent = Node(m, e).parent
              /\ Node(s, e).key = Node(m, e).key
              /\ Node(s, e).copy = Node(m, e).copy
              /\ Node(s, e).operated = Node(m, e).operated
              /\ Node(s, e).callbacks = Node(m, e).callbacks
              /\ e # d => Node(s, e).assigned = Node(m, e).assigned
        /\ \A j \in Keys :
              Node(s, d).assigned[j] = IF j = k THEN "set" ELSE Node(m, d).assigned[j]
    BY <2>1, <2>3, AssignedDoes, AssignedSound DEF Flags
  <2> HIDE DEF s
  <2>5. Wrote(w, s, d, {k}, v)
    BY <2>2, <2>4, WroteAndNoted DEF CallsBack, Queued
  <2>6. ExistsIn(s, v)
    BY <1>1, <2>1, <2>4 DEF ExistsIn
  <2>7. /\ DraftIds(x) = DraftIds(s)
        /\ x.heap = s.heap /\ x.handled = s.handled
        /\ \A e \in DraftIds(s) :
              /\ Node(x, e).original = Node(s, e).original
              /\ Node(x, e).parent = Node(s, e).parent
              /\ Node(x, e).key = Node(s, e).key
              /\ Node(x, e).copy = Node(s, e).copy
              /\ Node(x, e).operated = Node(s, e).operated
              /\ Node(x, e).assigned = Node(s, e).assigned
              /\ \A b, j : CallsBack(s, e, b, j) => CallsBack(x, e, b, j)
        /\ \A task : Queued(s, task) => Queued(x, task)
    BY <2>1, <2>3, <2>4, <2>6, MarkFinalizationDoes
  <2>8. d \in DraftIds(s)
    BY <2>1, <2>3, <2>4
  <2> HIDE DEF x
  <2> QED
    BY <2>5, <2>7, <2>8, WroteAndNoted
<1> QED
  BY <1>2, <1>3

\* clear() empties the copy of a marked Map draft.
LEMMA ClearDoes ==
    ASSUME NEW w, Sound(w), NEW d \in DraftIds(w), NEW flags
    PROVE  LET m == MarkChanged(EnsureShallowCopy(w, d), d)
               x == [m EXCEPT !.drafts[d].assigned = flags,
                              !.heap[Node(m, d).copy] = Empty("map")]
           IN  Wrote(w, x, d, Keys, Absent)
<1> DEFINE c == EnsureShallowCopy(w, d)
           m == MarkChanged(c, d)
           n == Node(m, d).copy
           ds == [m.drafts EXCEPT ![d].assigned = flags]
           h == [m.heap EXCEPT ![n] = Empty("map")]
           x == [m EXCEPT !.drafts = ds, !.heap = h]
<1>1. /\ Sound(c) /\ DraftIds(c) = DraftIds(w) /\ Node(c, d).copy # Null
      /\ DOMAIN w.heap \subseteq DOMAIN c.heap
  BY EnsureShallowCopySound
<1>2. /\ c.tasks = w.tasks /\ c.handled = w.handled
      /\ \A e \in DraftIds(w) :
            /\ Node(c, e).original = Node(w, e).original
            /\ Node(c, e).parent = Node(w, e).parent
            /\ Node(c, e).key = Node(w, e).key
            /\ Node(c, e).operated = Node(w, e).operated
            /\ Node(c, e).assigned = Node(w, e).assigned
            /\ Node(c, e).callbacks = Node(w, e).callbacks
            /\ Node(w, e).copy # Null => Node(c, e).copy = Node(w, e).copy
      /\ CopyOnly(w, c, d)
  BY EnsureShallowCopyDoes
<1> HIDE DEF c
<1>3. /\ Sound(m) /\ DraftIds(m) = DraftIds(c)
      /\ m.heap = c.heap /\ m.tasks = c.tasks /\ m.handled = c.handled
      /\ Node(m, d).operated
      /\ \A e \in DraftIds(c) :
            /\ Node(m, e).original = Node(c, e).original
            /\ Node(m, e).parent = Node(c, e).parent
            /\ Node(m, e).key = Node(c, e).key
            /\ Node(m, e).copy = Node(c, e).copy
            /\ Node(c, e).operated => Node(m, e).operated
            /\ Node(m, e).assigned = Node(c, e).assigned
            /\ Node(m, e).callbacks = Node(c, e).callbacks
  BY <1>1, MarkChangedDoes, MarkChangedSound
<1> HIDE DEF m
<1>4. m \in World /\ m.drafts \in [DraftIds(m) -> DraftState] /\ n \in DOMAIN m.heap
  BY <1>1, <1>3, WorldParts DEF Sound, WorldOK, DraftIds
<1>5. \A e \in DraftIds(m) :
         /\ ds[e].original = m.drafts[e].original
         /\ ds[e].copy = m.drafts[e].copy
         /\ ds[e].parent = m.drafts[e].parent
         /\ ds[e].key = m.drafts[e].key
         /\ ds[e].operated = m.drafts[e].operated
         /\ ds[e].callbacks = m.drafts[e].callbacks
         /\ e # d => ds[e].assigned = m.drafts[e].assigned
  BY <1>4 DEF DraftState
<1>6. /\ DOMAIN h = DOMAIN m.heap /\ h[n] = Empty("map")
      /\ \A a \in DOMAIN m.heap : a # n => h[a] = m.heap[a]
  BY <1>4
<1>7. /\ x.heap = h /\ x.drafts = ds /\ x.tasks = m.tasks
      /\ x.handled = m.handled
  BY <1>4 DEF World
<1>8. DOMAIN ds = DraftIds(m)
  BY <1>4
<1>9. [m EXCEPT !.drafts[d].assigned = flags, !.heap[n] = Empty("map")] = x
  BY <1>4 DEF World
<1> HIDE DEF ds, h, x
<1>10. /\ DraftIds(x) = DraftIds(w)
       /\ \A e \in DraftIds(w) : Node(x, e) = ds[e] /\ Node(m, e) = m.drafts[e]
  BY <1>1, <1>3, <1>7, <1>8 DEF DraftIds, Node
<1>11. ASSUME NEW e \in DraftIds(w)
       PROVE  /\ Node(x, e).original = Node(w, e).original
              /\ Node(x, e).parent = Node(w, e).parent
              /\ Node(x, e).key = Node(w, e).key
              /\ Node(x, e).copy = Node(c, e).copy
              /\ Node(w, e).operated => Node(x, e).operated
              /\ e # d => Node(x, e).assigned = Node(w, e).assigned
              /\ Node(x, e).callbacks = Node(w, e).callbacks
  BY <1>1, <1>2, <1>3, <1>5, <1>10
<1>12. Extends(w, x)
  BY <1>2, <1>3, <1>7, <1>10, <1>11 DEF Extends, CallsBack, Queued
<1>13. Node(x, d).copy = n /\ Node(x, d).copy = Node(c, d).copy
  BY <1>1, <1>3, <1>11
<1>14. CopyOnly(w, x, d)
  BY <1>2, <1>3, <1>6, <1>7, <1>11, <1>13 DEF CopyOnly
<1>15. /\ Copy(x, d) = Empty("map") /\ Empty("map").type = "map"
       /\ \A j \in Keys : Empty("map").at[j] = Absent
  BY <1>6, <1>7, <1>13 DEF Copy, Empty
<1>16. Node(x, d).operated
  BY <1>1, <1>3, <1>5, <1>10
<1>17. ~IsDraft(Absent) /\ ~IsObj(Absent)
  BY DEF IsDraft, IsObj, Absent
<1>18. Wrote(w, x, d, Keys, Absent)
  BY <1>10, <1>12, <1>14, <1>15, <1>16, <1>17 DEF Wrote
<1> HIDE DEF n
<1> QED
  BY <1>9, <1>18 DEF n, m, c

\* A read adds a draft of what the original holds at the key, and puts it
\* there in the parent's copy.
LEMMA DraftChildDoes ==
    ASSUME NEW w, Sound(w), BaseClosed, NEW d \in DraftIds(w), NEW k \in Keys,
           IsObj(Latest(w, d).at[k]),
           Latest(w, d).at[k] = Original(w, d).at[k]
    PROVE  \E n : Drafted(w, DraftChild(w, d, k), d, k, n)
<1> DEFINE u == Latest(w, d).at[k]
           c == EnsureShallowCopy(w, d)
           n == Len(c.drafts) + 1
           y == CreateDraft(c, u.id, d, k)
           x == Put(y, d, k, Draft(n))
<1>1. /\ Sound(c) /\ DraftIds(c) = DraftIds(w) /\ Node(c, d).copy # Null
      /\ DOMAIN w.heap \subseteq DOMAIN c.heap
  BY EnsureShallowCopySound
<1>2. /\ c.tasks = w.tasks /\ c.handled = w.handled
      /\ \A e \in DraftIds(w) :
            /\ Node(c, e).original = Node(w, e).original
            /\ Node(c, e).parent = Node(w, e).parent
            /\ Node(c, e).key = Node(w, e).key
            /\ Node(c, e).operated = Node(w, e).operated
            /\ Node(c, e).assigned = Node(w, e).assigned
            /\ Node(c, e).callbacks = Node(w, e).callbacks
            /\ Node(w, e).copy # Null => Node(c, e).copy = Node(w, e).copy
      /\ CopyOnly(w, c, d)
      /\ Copy(c, d) = Latest(w, d)
  BY EnsureShallowCopyDoes
<1>3. /\ Node(w, d).original \in DOMAIN base
      /\ Original(w, d) = base[Node(w, d).original]
  BY DEF Sound, Kept, Original
<1>4. u.id \in DOMAIN base
  BY <1>3 DEF BaseClosed
<1>5. u = Obj(u.id)
  <2>1. u \in Value
    <3>1. Node(w, d).original \in DOMAIN w.heap /\ w \in World
      BY DEF Sound, WorldOK
    <3>2. Original(w, d) \in Object
      BY <3>1, WorldParts DEF Original
    <3> QED
      BY <3>2 DEF Object
  <2> QED
    BY <2>1 DEF Value, Obj, IsObj
<1> HIDE DEF c, u
<1>6. /\ n \notin DraftIds(c) /\ n \in Nat /\ Len(y.drafts) = n
      /\ DraftIds(y) = DraftIds(c) \cup {n}
      /\ y.heap = c.heap /\ y.handled = c.handled
      /\ \A e \in DraftIds(c) : Node(y, e) = Node(c, e)
      /\ Node(y, n).original = u.id /\ Node(y, n).copy = Null
      /\ Node(y, n).parent = d /\ Node(y, n).key = k
      /\ Node(y, n).operated = FALSE
      /\ \A j \in Keys : Node(y, n).assigned[j] = "none"
      /\ \A task : Queued(c, task) => Queued(y, task)
      /\ Queued(y, NodeTask(n))
  BY <1>1, <1>4, CreateDraftDoes
<1>7. Sound(y)
  BY <1>1, <1>4, CreateDraftSound
<1>8. DraftChild(w, d, k) = x
  BY <1>6 DEF DraftChild, c, u
<1> HIDE DEF y, n
<1>9. d \in DraftIds(y) /\ Node(y, d) = Node(c, d) /\ Node(y, d).copy # Null
  BY <1>1, <1>6
<1>10. /\ x.drafts = y.drafts /\ x.tasks = y.tasks /\ x.handled = y.handled
       /\ DOMAIN x.heap = DOMAIN y.heap
       /\ \A a \in DOMAIN y.heap : a # Node(y, d).copy => x.heap[a] = y.heap[a]
       /\ Copy(x, d).type = Copy(y, d).type
       /\ \A j \in Keys : Copy(x, d).at[j] = IF j = k THEN Draft(n) ELSE Copy(y, d).at[j]
  BY <1>7, <1>9, PutDoes
<1> HIDE DEF x
<1>11. DraftIds(x) = DraftIds(y) /\ \A e : Node(x, e) = Node(y, e)
  BY <1>10 DEF DraftIds, Node
<1>12. \A e \in DraftIds(w) : Node(x, e) = Node(c, e)
  BY <1>1, <1>6, <1>11
<1>13. Copy(y, d) = Latest(w, d)
  BY <1>2, <1>6, <1>9 DEF Copy
<1>14. \A task : Queued(w, task) => Queued(x, task)
  <2>1. \A task : Queued(w, task) => Queued(c, task)
    BY <1>2 DEF Queued
  <2>2. \A task : Queued(y, task) => Queued(x, task)
    BY <1>10 DEF Queued
  <2> QED
    BY <1>6, <2>1, <2>2
<1>15. Queued(x, NodeTask(n))
  BY <1>6, <1>10 DEF Queued
<1>16. Extends(w, x)
  BY <1>1, <1>2, <1>6, <1>10, <1>11, <1>12, <1>14 DEF Extends, CallsBack
<1>17. CopyOnly(w, x, d)
  BY <1>2, <1>6, <1>9, <1>10, <1>11, <1>12 DEF CopyOnly
<1>18. Original(w, d).at[k] = Obj(Node(x, n).original)
  BY <1>5, <1>6, <1>11 DEF u
<1>19. Drafted(w, x, d, k, n)
  BY <1>1, <1>2, <1>6, <1>10, <1>11, <1>12, <1>13, <1>15, <1>16, <1>17, <1>18
     DEF Drafted
<1> QED
  BY <1>8, <1>19

-----------------------------------------------------------------------------
\* The recipe made an object of its own, or changed one.
Made(w, x, o) ==
    /\ x.drafts = w.drafts /\ x.tasks = w.tasks /\ x.handled = w.handled
    /\ Len(w.heap) + 1 \notin DOMAIN w.heap
    /\ DOMAIN x.heap = DOMAIN w.heap \cup {Len(w.heap) + 1}
    /\ \A a \in DOMAIN w.heap : x.heap[a] = w.heap[a]
    /\ x.heap[Len(w.heap) + 1] = o

Overwrote(w, x, a, k, v) ==
    /\ a \in Fresh(w) /\ k \in Keys
    /\ x.drafts = w.drafts /\ x.tasks = w.tasks /\ x.handled = w.handled
    /\ DOMAIN x.heap = DOMAIN w.heap
    /\ \A c \in DOMAIN w.heap : c # a => x.heap[c] = w.heap[c]
    /\ x.heap[a].type = w.heap[a].type
    /\ \A j \in Keys : x.heap[a].at[j] = IF j = k THEN v ELSE w.heap[a].at[j]

\* The steps of the recipe, and whether their outcome is within the bounds.
Assigns(x) == \E d, K : \E v \in RecipeValues \cup {Absent} :
                 Wrote(W, x, d, K, v) /\ Bounded(x)
Reads(x)   == \E d, k, n : Drafted(W, x, d, k, n)
Makes(x)   == \E o \in Object :
                 /\ Made(W, x, o) /\ Bounded(x)
                 /\ \A j \in Keys : o.at[j] \in RecipeValues \cup {Absent}
Mends(x)   == \E a, k : \E v \in RecipeValues : Overwrote(W, x, a, k, v) /\ Bounded(x)

\* The world after a step is a record of the variables.
LEMMA BecomesWorld ==
    ASSUME NEW x, Sound(x), Become(x)
    PROVE  W' = x
BY DEF Sound, WorldOK, World, W, Become

\* The next world is sound if the next state satisfies the invariant.
LEMMA NextSound ==
    ASSUME IInv', base' = base, NEW x, W' = x
    PROVE  Sound(x)
<1>1. /\ WorldOK(W)' /\ Kept(W)' /\ Linked(W)' /\ Marked(W)'
  BY DEF IInv, TypeOK
<1>2. WorldOK(x)
  BY <1>1 DEF WorldOK, ExistsIn, DraftIds, Node, Root
<1>3. Kept(x) /\ Linked(x) /\ Marked(x)
  BY <1>1 DEF Kept, Linked, Marked, HasEntries, DraftIds, Node
<1> QED
  BY <1>2, <1>3 DEF Sound

\* What the original holds at a key belongs to the base.
LEMMA OriginalHoldsBase ==
    ASSUME NEW w, Sound(w), BaseClosed, NEW d \in DraftIds(w), NEW k \in Keys
    PROVE  LET u == Original(w, d).at[k]
           IN  /\ ~IsDraft(u) /\ (IsObj(u) => u.id \in DOMAIN base)
               /\ u \in Value
<1>1. /\ Node(w, d).original \in DOMAIN base
      /\ Original(w, d) = base[Node(w, d).original]
  BY DEF Sound, Kept, Original
<1>2. Node(w, d).original \in DOMAIN w.heap /\ w \in World
  BY DEF Sound, WorldOK
<1>3. Original(w, d) \in Object
  BY <1>2, WorldParts DEF Original
<1> QED
  BY <1>1, <1>3 DEF BaseClosed, Object

\* A step that Change makes has a bounded outcome.
LEMMA ChangeSteps ==
    ASSUME NEW x, Change(x), Sound(x)
    PROVE  /\ W' = x /\ Bounded(x)
           /\ UNCHANGED <<base, phase, patches, inverse, returned, result>>
BY BecomesWorld DEF Change

\* Dropping a draft by its original is a write to a copy.
LEMMA SetTrapRestoreSteps ==
    ASSUME IInv, NEW d \in DOMAIN drafts, NEW k \in Keys,
           NEW v \in RecipeValues, SetTrapRestore(d, k, v)
    PROVE  \E x : W' = x /\ Assigns(x)
<1> DEFINE p == Put(W, d, k, v)
           same == HasOwn(Original(W, d), k) /\ v = Read(Original(W, d), k)
           m == MarkChanged(p, d)
           s == Assigned(m, d, k, "set")
           r == Assigned(p, d, k, "none")
           f == MarkFinalization(s, d, k, v)
<1>1. /\ Sound(W) /\ BaseClosed /\ d \in DraftIds(W)
      /\ v \in Value /\ ExistsIn(W, v)
  BY InvParts, RecipeValuesExist
<1>2. /\ IsDraft(Latest(W, d).at[k])
      /\ v = Obj(Node(W, Latest(W, d).at[k].id).original)
  BY DEF SetTrapRestore, DropsDraft
<1>3. Node(W, d).copy # Null
  <2>1. ~IsDraft(Original(W, d).at[k])
    BY <1>1, OriginalHoldsBase
  <2> QED
    BY <1>1, <1>2, <2>1, CopyExists
<1>4. ~IsDraft(v) /\ (IsObj(v) => v.id \in DOMAIN base)
  <2>1. Latest(W, d).at[k].id \in DraftIds(W)
    <3>1. LatestAddress(W, d) \in DOMAIN W.heap
      BY <1>1 DEF LatestAddress, Sound, WorldOK
    <3>2. ExistsIn(W, Latest(W, d).at[k])
      BY <1>1, <3>1 DEF Latest, Sound, WorldOK
    <3> QED
      BY <1>2, <3>2 DEF ExistsIn
  <2>2. Node(W, Latest(W, d).at[k].id).original \in DOMAIN base
    BY <1>1, <2>1 DEF Sound, Kept
  <2> QED
    BY <1>2, <2>2 DEF Obj, IsDraft, IsObj
<1>5. /\ v = Original(W, d).at[k] => Wrote(W, r, d, {k}, v)
      /\ Wrote(W, f, d, {k}, v)
  BY <1>1, <1>3, <1>4, RestoreDoes
<1>6. Change(IF same THEN r ELSE f)
  BY DEF SetTrapRestore
<1>7. same => v = Original(W, d).at[k]
  BY DEF HasOwn, Read
<1>8. Sound(r) /\ Sound(f)
  <2>1. /\ Sound(p) /\ DraftIds(p) = DraftIds(W) /\ Node(p, d).copy # Null
        /\ ExistsIn(p, v)
    BY <1>1, <1>3, PutKeeps DEF DraftIds, Node
  <2> HIDE DEF p
  <2>2. Sound(r)
    BY <1>1, <2>1, AssignedKeeps DEF Flags
  <2>3. /\ Sound(m) /\ DraftIds(m) = DraftIds(p) /\ ExistsIn(m, v)
        /\ Node(m, d).operated
    BY <1>1, <2>1, MarkChangedSound DEF ExistsIn
  <2> HIDE DEF m
  <2>4. Sound(s) /\ DraftIds(s) = DraftIds(m) /\ ExistsIn(s, v)
    BY <1>1, <2>1, <2>3, AssignedKeeps DEF Flags
  <2> HIDE DEF s
  <2>5. Sound(f)
    BY <1>1, <2>1, <2>3, <2>4, MarkFinalizationSound
  <2> QED
    BY <2>2, <2>5
<1> HIDE DEF r, f, same
<1>9. CASE same
  <2>1. W' = r /\ Bounded(r)
    BY <1>6, <1>8, <1>9, ChangeSteps
  <2> QED
    BY <1>5, <1>7, <1>9, <2>1 DEF Assigns
<1>10. CASE ~same
  <2>1. W' = f /\ Bounded(f)
    BY <1>6, <1>8, <1>10, ChangeSteps
  <2> QED
    BY <1>5, <1>10, <2>1 DEF Assigns
<1> QED
  BY <1>9, <1>10

\* What an assignment makes of the world, as a step of the recipe.
LEMMA WriteSteps ==
    ASSUME IInv, NEW d \in DOMAIN drafts, NEW k \in Keys, NEW flag \in Flags,
           NEW v \in RecipeValues \cup {Absent},
           IsObj(v) /\ v.id \notin DOMAIN base => flag = "set",
           LET m == MarkChanged(EnsureShallowCopy(W, d), d)
               p == Put(Assigned(m, d, k, flag), d, k, v)
           IN  Change(MarkFinalization(p, d, k, v))
    PROVE  \E x : W' = x /\ Assigns(x)
<1> DEFINE m == MarkChanged(EnsureShallowCopy(W, d), d)
           p == Put(Assigned(m, d, k, flag), d, k, v)
           f == MarkFinalization(p, d, k, v)
<1>1. Sound(W) /\ d \in DraftIds(W)
  BY InvParts
<1>2. v \in Value /\ ExistsIn(W, v)
  BY RecipeValuesExist, AbsentExists
<1>3. Sound(f)
  BY <1>1, <1>2, WriteSound
<1>4. Wrote(W, f, d, {k}, v)
  BY <1>1, <1>2, WriteDoes
<1>5. Change(f)
  OBVIOUS
<1> HIDE DEF f
<1>6. W' = f /\ Bounded(f)
  BY <1>3, <1>5, ChangeSteps
<1> QED
  BY <1>4, <1>6 DEF Assigns

\* A deletion leaves nothing to be finalized.
LEMMA AbsentNotMarked ==
    ASSUME NEW w, NEW d, NEW k
    PROVE  MarkFinalization(w, d, k, Absent) = w
BY DEF MarkFinalization, IsDraft, IsObj, Absent

\* The assignments of objects and Maps are such steps.
LEMMA AssignmentSteps ==
    ASSUME IInv, NEW d \in DOMAIN drafts, NEW k \in Keys,
           \/ \E v \in RecipeValues : SetTrap(d, k, v) \/ MapSet(d, k, v)
           \/ DeletePropertyTrap(d, k)
           \/ MapDelete(d, k)
    PROVE  \E x : W' = x /\ Assigns(x)
<1> DEFINE m == MarkChanged(EnsureShallowCopy(W, d), d)
<1>0. /\ ~IsObj(Absent) /\ "none" \in Flags /\ "set" \in Flags /\ "deleted" \in Flags
  BY DEF IsObj, Absent, Flags
<1>1. ASSUME NEW v \in RecipeValues, SetTrap(d, k, v)
      PROVE  \E x : W' = x /\ Assigns(x)
  <2> DEFINE same == HasOwn(Original(W, d), k) /\ v = Read(Original(W, d), k)
             flag == IF same THEN "none" ELSE "set"
             f == MarkFinalization(Put(Assigned(m, d, k, flag), d, k, v), d, k, v)
  <2>1. Change(f)
    BY <1>1 DEF SetTrap
  <2>2. IsObj(v) /\ v.id \notin DOMAIN base => flag = "set"
    <3>1. same => v = Original(W, d).at[k]
      BY DEF HasOwn, Read
    <3>2. same => (IsObj(v) => v.id \in DOMAIN base)
      BY <3>1, InvParts, OriginalHoldsBase
    <3> QED
      BY <3>2
  <2>3. flag \in Flags
    BY <1>0
  <2> HIDE DEF flag
  <2> QED
    BY <2>1, <2>2, <2>3, WriteSteps
<1>2. ASSUME NEW v \in RecipeValues, MapSet(d, k, v)
      PROVE  \E x : W' = x /\ Assigns(x)
  <2>1. Change(MarkFinalization(Put(Assigned(m, d, k, "set"), d, k, v), d, k, v))
    BY <1>2 DEF MapSet
  <2> QED
    BY <1>0, <2>1, WriteSteps
<1>3. CASE DeletePropertyTrap(d, k)
  <2>1. Change(Put(Assigned(m, d, k, "deleted"), d, k, Absent))
    BY <1>3 DEF DeletePropertyTrap
  <2>2. Change(MarkFinalization(Put(Assigned(m, d, k, "deleted"), d, k, Absent), d, k, Absent))
    BY <2>1, AbsentNotMarked
  <2> QED
    BY <1>0, <2>2, WriteSteps
<1>4. CASE MapDelete(d, k)
  <2> DEFINE flag == IF HasOwn(Original(W, d), k) THEN "deleted" ELSE "none"
  <2>1. Change(Put(Assigned(m, d, k, flag), d, k, Absent))
    BY <1>4 DEF MapDelete
  <2>2. Change(MarkFinalization(Put(Assigned(m, d, k, flag), d, k, Absent), d, k, Absent))
    BY <2>1, AbsentNotMarked
  <2>3. flag \in Flags
    BY <1>0
  <2> HIDE DEF flag
  <2> QED
    BY <1>0, <2>2, <2>3, WriteSteps
<1> QED
  BY <1>1, <1>2, <1>3, <1>4

\* Deleting an added key is a write to a copy.
LEMMA DeleteAddedSteps ==
    ASSUME IInv, NEW d \in DOMAIN drafts, NEW k \in Keys, DeleteAdded(d, k)
    PROVE  \E x : W' = x /\ Assigns(x)
<1> DEFINE a == Assigned(W, d, k, "none")
           x == Put(a, d, k, Absent)
<1>1. Sound(W) /\ d \in DraftIds(W)
  BY InvParts
<1>2. Node(W, d).copy # Null
  <2>1. ~HasOwn(Original(W, d), k) /\ HasOwn(Latest(W, d), k)
    BY DEF DeleteAdded
  <2> QED
    BY <1>1, <2>1, CopyExists
<1>3. Sound(a) /\ DraftIds(a) = DraftIds(W) /\ Node(a, d).copy # Null
  BY <1>1, <1>2, AssignedKeeps DEF Flags
<1>4. /\ a.heap = W.heap /\ a.tasks = W.tasks /\ a.handled = W.handled
      /\ \A e \in DraftIds(W) :
            /\ Node(a, e).original = Node(W, e).original
            /\ Node(a, e).parent = Node(W, e).parent
            /\ Node(a, e).key = Node(W, e).key
            /\ Node(a, e).copy = Node(W, e).copy
            /\ Node(a, e).operated = Node(W, e).operated
            /\ Node(a, e).callbacks = Node(W, e).callbacks
            /\ e # d => Node(a, e).assigned = Node(W, e).assigned
      /\ \A j \in Keys :
            Node(a, d).assigned[j] = IF j = k THEN "none" ELSE Node(W, d).assigned[j]
  BY <1>1, AssignedDoes DEF Flags
<1>5. Change(x)
  BY DEF DeleteAdded
<1> HIDE DEF a
<1>6. Sound(x)
  BY <1>1, <1>3, AbsentExists, PutKeeps
<1>7. /\ x.drafts = a.drafts /\ x.tasks = a.tasks /\ x.handled = a.handled
      /\ DOMAIN x.heap = DOMAIN a.heap
      /\ \A b \in DOMAIN a.heap : b # Node(a, d).copy => x.heap[b] = a.heap[b]
      /\ Copy(x, d).type = Copy(a, d).type
      /\ \A j \in Keys : Copy(x, d).at[j] = IF j = k THEN Absent ELSE Copy(a, d).at[j]
  BY <1>1, <1>3, PutDoes
<1> HIDE DEF x
<1>8. DraftIds(x) = DraftIds(a) /\ \A e : Node(x, e) = Node(a, e)
  BY <1>7 DEF DraftIds, Node
<1>9. Extends(W, x)
  BY <1>3, <1>4, <1>7, <1>8 DEF Extends, CallsBack, Queued
<1>10. Node(W, d).copy \in DOMAIN W.heap
  BY <1>1, <1>2 DEF Sound, WorldOK
<1>11. CopyOnly(W, x, d)
  BY <1>1, <1>2, <1>3, <1>4, <1>7, <1>8, <1>10 DEF CopyOnly
<1>12. Copy(a, d) = Latest(W, d)
  BY <1>1, <1>2, <1>4 DEF Copy, Latest, LatestAddress
<1>13. Original(W, d).at[k] = Absent
  BY DEF DeleteAdded, HasOwn
<1>14. ~IsDraft(Absent) /\ ~IsObj(Absent)
  BY DEF IsDraft, IsObj, Absent
<1>15. Wrote(W, x, d, {k}, Absent)
  BY <1>1, <1>3, <1>4, <1>7, <1>8, <1>9, <1>11, <1>12, <1>13, <1>14 DEF Wrote
<1>16. W' = x /\ Bounded(x)
  BY <1>5, <1>6, ChangeSteps
<1> QED
  BY <1>15, <1>16 DEF Assigns

\* Map.clear() as a step of the recipe.
LEMMA MapClearSteps ==
    ASSUME IInv, NEW d \in DOMAIN drafts, MapClear(d)
    PROVE  \E x : W' = x /\ Assigns(x)
<1> DEFINE m == MarkChanged(EnsureShallowCopy(W, d), d)
           flags == [k \in Keys |->
                       IF HasOwn(Original(W, d), k) THEN "deleted" ELSE "none"]
           x == [m EXCEPT !.drafts[d].assigned = flags,
                          !.heap[Node(m, d).copy] = Empty("map")]
<1>1. Sound(W) /\ d \in DraftIds(W)
  BY InvParts
<1>2. /\ Sound(m) /\ DraftIds(m) = DraftIds(W) /\ Node(m, d).copy # Null
      /\ Node(m, d).operated
  BY <1>1, ChangedSound
<1>3. flags \in [Keys -> Flags]
  BY DEF Flags
<1>4. Change(x)
  BY DEF MapClear
<1>5. Wrote(W, x, d, Keys, Absent)
  <2> HIDE DEF flags
  <2> QED
    BY <1>1, ClearDoes
<1> HIDE DEF m, flags
<1>6. Sound(x)
  BY <1>1, <1>2, <1>3, ClearSound
<1> HIDE DEF x
<1>7. W' = x /\ Bounded(x)
  BY <1>4, <1>6, ChangeSteps
<1> QED
  BY <1>5, <1>7 DEF Assigns

\* A read that drafts is a step that adds a draft.
LEMMA ReadSteps ==
    ASSUME IInv, NEW d \in DOMAIN drafts, NEW k \in Keys, Drafts(d, k)
    PROVE  \E x : W' = x /\ Reads(x)
<1> DEFINE x == DraftChild(W, d, k)
<1>1. Sound(W) /\ BaseClosed /\ d \in DraftIds(W)
  BY InvParts
<1>2. /\ IsObj(Latest(W, d).at[k]) /\ Become(x)
      /\ Latest(W, d).at[k] = Original(W, d).at[k]
  BY DEF Drafts
<1>3. Sound(x)
  BY <1>1, <1>2, DraftChildSound
<1>4. \E n : Drafted(W, x, d, k, n)
  BY <1>1, <1>2, DraftChildDoes
<1> HIDE DEF x
<1>5. W' = x
  BY <1>2, <1>3, BecomesWorld
<1> QED
  BY <1>4, <1>5 DEF Reads

\* An object of the recipe's own is added to the heap.
LEMMA NewObjectSteps ==
    ASSUME IInv, NEW type \in FreshTypes, NEW k \in Keys,
           NEW v \in RecipeValues, NewObject(type, k, v)
    PROVE  \E x : W' = x /\ Makes(x)
<1> DEFINE o == [Empty(type) EXCEPT !.at[k] = v]
           h == Append(W.heap, o)
           x == [W EXCEPT !.heap = h]
<1>1. Sound(W) /\ v \in Value /\ ExistsIn(W, v) /\ W \in World
  BY InvParts, RecipeValuesExist DEF Sound, WorldOK
<1>2. type \in ObjectTypes
  BY BoundsAssumption
<1>3. o \in Object /\ \A i \in Keys : o.at[i] = v \/ o.at[i] = Absent
  BY <1>1, <1>2, AbsentExists DEF Empty, Object
<1>4. \A i \in Keys : ExistsIn(W, o.at[i])
  BY <1>1, <1>3, AbsentExists
<1>5. Become(x) /\ Bounded(x)
  BY DEF NewObject
<1> HIDE DEF o
<1>6. Sound(x)
  BY <1>1, <1>3, <1>4, HeapGrows
<1>7. /\ W.heap \in Seq(Object) /\ DOMAIN W.heap = 1 .. Len(W.heap)
      /\ Len(W.heap) \in Nat
  BY <1>1, WorldParts DEF World
<1>8. /\ DOMAIN h = DOMAIN W.heap \cup {Len(W.heap) + 1}
      /\ \A i \in DOMAIN W.heap : h[i] = W.heap[i]
      /\ h[Len(W.heap) + 1] = o
  BY <1>3, <1>7, AppendHolds
<1>9. Len(W.heap) + 1 \notin DOMAIN W.heap
  BY <1>7
<1>10. /\ x.heap = h /\ x.drafts = W.drafts /\ x.tasks = W.tasks
       /\ x.handled = W.handled
  BY <1>1 DEF World
<1> HIDE DEF x, h
<1>11. Made(W, x, o)
  BY <1>8, <1>9, <1>10 DEF Made
<1>12. W' = x
  BY <1>5, <1>6, BecomesWorld
<1> QED
  BY <1>3, <1>5, <1>11, <1>12 DEF Makes

\* A write to an object of the recipe's own leaves drafts and copies
\* alone.
LEMMA WriteFreshSteps ==
    ASSUME IInv, NEW a \in DOMAIN heap, NEW k \in Keys,
           NEW v \in RecipeValues, WriteFresh(a, k, v)
    PROVE  \E x : W' = x /\ Mends(x)
<1> DEFINE h == [heap EXCEPT ![a].at[k] = v]
           x == [W EXCEPT !.heap = h]
<1>1. /\ Sound(W) /\ v \in Value /\ ExistsIn(W, v) /\ W.heap = heap
      /\ DOMAIN base = 1 .. Len(base) /\ Len(base) \in Nat /\ W \in World
  BY InvParts, RecipeValuesExist DEF Sound, WorldOK
<1>2. heap \in [DOMAIN heap -> Object]
  BY <1>1, WorldParts DEF Sound, WorldOK
<1>3. a \in Fresh(W) /\ a \notin DOMAIN base
  <2>1. a \in Fresh(W)
    BY DEF WriteFresh
  <2>2. a > Len(base)
    BY <2>1 DEF Fresh
  <2> QED
    BY <1>1, <2>1, <2>2
<1>4. h \in [DOMAIN W.heap -> Object]
  BY <1>1, <1>2 DEF Object
<1>5. \A c \in DOMAIN base : h[c] = W.heap[c]
  BY <1>1, <1>2, <1>3 DEF Sound, Kept
<1>6. \A c \in DOMAIN W.heap, i \in Keys : ExistsIn(W, h[c].at[i])
  BY <1>1, <1>2 DEF Sound, WorldOK, Object
<1>7. Sound(x)
  BY <1>1, <1>4, <1>5, <1>6, HeapChange
<1>8. Change(x)
  BY <1>1 DEF WriteFresh, W
<1>9. /\ DOMAIN h = DOMAIN heap
      /\ \A c \in DOMAIN heap : c # a => h[c] = heap[c]
      /\ h[a].type = heap[a].type
      /\ \A j \in Keys : h[a].at[j] = IF j = k THEN v ELSE heap[a].at[j]
  BY <1>2 DEF Object
<1>10. /\ x.heap = h /\ x.drafts = W.drafts /\ x.tasks = W.tasks
       /\ x.handled = W.handled
  BY <1>1 DEF World
<1> HIDE DEF x, h
<1>11. Overwrote(W, x, a, k, v)
  BY <1>1, <1>3, <1>9, <1>10 DEF Overwrote
<1>12. W' = x /\ Bounded(x)
  BY <1>7, <1>8, ChangeSteps
<1> QED
  BY <1>11, <1>12 DEF Mends

\* A step of the recipe is one of the four kinds, and leaves the rest.
LEMMA RecipeSteps ==
    ASSUME IInv, Recipe
    PROVE  /\ UNCHANGED <<base, phase, patches, inverse, returned, result>>
           /\ phase = "recipe"
           /\ \E x : W' = x /\ (Assigns(x) \/ Reads(x) \/ Makes(x) \/ Mends(x))
<1> USE DEF Change
<1>1. ASSUME NEW d \in DOMAIN drafts, NEW k \in Keys, GetTrap(d, k) \/ GetEntry(d, k)
      PROVE  /\ UNCHANGED <<base, phase, patches, inverse, returned, result>>
             /\ phase = "recipe"
             /\ \E x : W' = x /\ Reads(x)
  BY <1>1, ReadSteps DEF GetTrap, GetEntry, Drafts
<1>2. ASSUME NEW d \in DOMAIN drafts, NEW k \in Keys,
             \/ DeletePropertyTrap(d, k)
             \/ DeleteAdded(d, k)
             \/ MapDelete(d, k)
             \/ \E v \in RecipeValues : \/ SetTrapRestore(d, k, v)
                                        \/ SetTrap(d, k, v)
                                        \/ MapSet(d, k, v)
      PROVE  /\ UNCHANGED <<base, phase, patches, inverse, returned, result>>
             /\ phase = "recipe"
             /\ \E x : W' = x /\ Assigns(x)
  <2>1. /\ UNCHANGED <<base, phase, patches, inverse, returned, result>>
        /\ phase = "recipe"
    BY <1>2 DEF DeletePropertyTrap, DeleteAdded, MapDelete, SetTrapRestore, SetTrap, MapSet
  <2>2. \E x : W' = x /\ Assigns(x)
    BY <1>2, AssignmentSteps, DeleteAddedSteps, SetTrapRestoreSteps
  <2> QED
    BY <2>1, <2>2
<1>3. ASSUME NEW d \in DOMAIN drafts, MapClear(d)
      PROVE  /\ UNCHANGED <<base, phase, patches, inverse, returned, result>>
             /\ phase = "recipe"
             /\ \E x : W' = x /\ Assigns(x)
  BY <1>3, MapClearSteps DEF MapClear
<1>4. ASSUME NEW type \in FreshTypes, NEW k \in Keys, NEW v \in RecipeValues,
             NewObject(type, k, v)
      PROVE  /\ UNCHANGED <<base, phase, patches, inverse, returned, result>>
             /\ phase = "recipe"
             /\ \E x : W' = x /\ Makes(x)
  BY <1>4, NewObjectSteps DEF NewObject
<1>5. ASSUME NEW a \in DOMAIN heap, NEW k \in Keys, NEW v \in RecipeValues,
             WriteFresh(a, k, v)
      PROVE  /\ UNCHANGED <<base, phase, patches, inverse, returned, result>>
             /\ phase = "recipe"
             /\ \E x : W' = x /\ Mends(x)
  BY <1>5, WriteFreshSteps DEF WriteFresh
<1> QED
  BY <1>1, <1>2, <1>3, <1>4, <1>5 DEF Recipe

-----------------------------------------------------------------------------
(***************************************************************************)
(* The steps of the finalization.                                          *)
(***************************************************************************)

\* The finalization leaves a value, or puts the original of a draft or its
\* final value in its place.
Settled(w, u, v) ==
    \/ v = u
    \/ IsDraft(u) /\ v = Obj(Node(w, u.id).original)
    \/ IsDraft(u) /\ Node(w, u.id).operated /\ v = Obj(Node(w, u.id).copy)

\* The finalization changes nothing but such values and the finalized marks.
Finalizes(w, x) ==
    /\ DraftIds(x) = DraftIds(w)
    /\ \A e \in DraftIds(w) :
          /\ Node(x, e).original = Node(w, e).original
          /\ Node(x, e).copy = Node(w, e).copy
          /\ Node(x, e).parent = Node(w, e).parent
          /\ Node(x, e).key = Node(w, e).key
          /\ Node(x, e).operated = Node(w, e).operated
          /\ Node(x, e).assigned = Node(w, e).assigned
          /\ Node(x, e).callbacks = Node(w, e).callbacks
    /\ DOMAIN x.heap = DOMAIN w.heap
    /\ \A a \in DOMAIN w.heap :
          /\ x.heap[a].type = w.heap[a].type
          /\ \A k \in Keys : Settled(w, w.heap[a].at[k], x.heap[a].at[k])

\* A final value settles the draft.
LEMMA FinalSettles ==
    ASSUME NEW w, NEW u, IsDraft(u)
    PROVE  Settled(w, u, Final(w, u.id))
BY DEF Settled, Final

\* One step after another, on the same drafts.
LEMMA FinalizesTwice ==
    ASSUME NEW w, NEW y, NEW x, Sound(w), Finalizes(w, y), Finalizes(y, x)
    PROVE  Finalizes(w, x)
<1>1. ASSUME NEW a \in DOMAIN w.heap, NEW k \in Keys
      PROVE  Settled(w, w.heap[a].at[k], x.heap[a].at[k])
  <2> DEFINE t == w.heap[a].at[k]
             u == y.heap[a].at[k]
             v == x.heap[a].at[k]
  <2>1. Settled(w, t, u) /\ Settled(y, u, v)
    BY <1>1 DEF Finalizes
  <2>2. ExistsIn(w, t)
    BY DEF Sound, WorldOK
  <2>3. \A b : ~IsDraft(Obj(b))
    BY DEF IsDraft, Obj
  <2>4. IsDraft(t) => /\ t.id \in DraftIds(w)
                      /\ Node(y, t.id).original = Node(w, t.id).original
                      /\ Node(y, t.id).copy = Node(w, t.id).copy
                      /\ Node(y, t.id).operated = Node(w, t.id).operated
    BY <2>2 DEF ExistsIn, Finalizes
  <2> HIDE DEF t, u, v
  <2>5. Settled(w, t, v)
    BY <2>1, <2>3, <2>4 DEF Settled
  <2> QED
    BY <2>5 DEF t, v
<1>2. \A e \in DraftIds(w) :
         /\ Node(x, e).original = Node(w, e).original
         /\ Node(x, e).copy = Node(w, e).copy
         /\ Node(x, e).parent = Node(w, e).parent
         /\ Node(x, e).key = Node(w, e).key
         /\ Node(x, e).operated = Node(w, e).operated
         /\ Node(x, e).assigned = Node(w, e).assigned
         /\ Node(x, e).callbacks = Node(w, e).callbacks
  BY DEF Finalizes
<1>3. /\ DraftIds(x) = DraftIds(w) /\ DOMAIN x.heap = DOMAIN w.heap
      /\ \A a \in DOMAIN w.heap : x.heap[a].type = w.heap[a].type
  BY DEF Finalizes
<1> QED
  BY <1>1, <1>2, <1>3 DEF Finalizes

\* What a value leads to: it is looked into, and so is all that it holds.
LEMMA LedToCloses ==
    ASSUME NEW w, Sound(w), NEW v, ExistsIn(w, v), NEW shut
    PROVE  LET led == LedTo(w, v, shut)
           IN  /\ led \subseteq DOMAIN w.heap \ shut
               /\ IsObj(v) => v.id \in led \cup shut
               /\ \A a \in led, k \in Keys :
                     IsObj(w.heap[a].at[k]) => w.heap[a].at[k].id \in led \cup shut
<1> DEFINE led == LedTo(w, v, shut)
           open(u) == IsObj(u) /\ u.id \notin shut
           closed == {S \in SUBSET (DOMAIN w.heap \ shut) :
                         /\ open(v) => v.id \in S
                         /\ \A a \in S, k \in Keys :
                               open(w.heap[a].at[k]) => w.heap[a].at[k].id \in S}
<1>1. led = {a \in DOMAIN w.heap \ shut : \A S \in closed : a \in S}
  BY DEF LedTo
<1>2. ASSUME open(v) PROVE v.id \in led
  BY <1>1, <1>2 DEF ExistsIn
<1>3. ASSUME NEW a \in led, NEW k \in Keys, open(w.heap[a].at[k])
      PROVE  w.heap[a].at[k].id \in led
  <2>1. a \in DOMAIN w.heap
    BY <1>1
  <2>2. w.heap[a].at[k].id \in DOMAIN w.heap \ shut
    BY <1>3, <2>1 DEF Sound, WorldOK, ExistsIn
  <2>3. \A S \in closed : w.heap[a].at[k].id \in S
    BY <1>1, <1>3
  <2> HIDE DEF closed
  <2> QED
    BY <1>1, <2>2, <2>3
<1> QED
  BY <1>1, <1>2, <1>3

\* handleValue() settles the drafts in the objects it visits, and adds
\* these to handledSet.
LEMMA HandleValueDoes ==
    ASSUME NEW w, Sound(w), NEW v
    PROVE  LET x == HandleValue(w, v)
           IN  /\ x.drafts = w.drafts /\ x.tasks = w.tasks
               /\ x.handled = w.handled \cup Visited(w, v)
               /\ Finalizes(w, x)
               /\ \A a \in Visited(w, v), k \in Keys : ~IsDraft(x.heap[a].at[k])
               /\ \A a \in DOMAIN w.heap, k \in Keys :
                     \/ x.heap[a].at[k] = w.heap[a].at[k]
                     \/ /\ IsDraft(w.heap[a].at[k])
                        /\ x.heap[a].at[k] = Final(w, w.heap[a].at[k].id)
<1> DEFINE visited == Visited(w, v)
           stands(u) == IF IsDraft(u)
                        THEN Obj(IF HasEntries(w, u.id) \/ Node(w, u.id).operated
                                 THEN Node(w, u.id).copy
                                 ELSE Node(w, u.id).original)
                        ELSE u
           g == [a \in DOMAIN w.heap |->
                   IF a \in visited
                   THEN [w.heap[a] EXCEPT !.at = [k \in Keys |-> stands(@[k])]]
                   ELSE w.heap[a]]
           x == HandleValue(w, v)
<1>1. w \in World /\ w.heap \in [DOMAIN w.heap -> Object]
  BY WorldParts DEF Sound, WorldOK
<1>2. x = [w EXCEPT !.heap = g, !.handled = @ \cup visited]
  BY DEF HandleValue
<1>3. /\ x.heap = g /\ x.drafts = w.drafts /\ x.tasks = w.tasks
      /\ x.handled = w.handled \cup visited
  BY <1>1, <1>2 DEF World
<1> HIDE DEF x, visited
<1>4. ASSUME NEW u, ExistsIn(w, u)
      PROVE  IF IsDraft(u) THEN stands(u) = Final(w, u.id) ELSE stands(u) = u
  <2>1. IsDraft(u) => u.id \in DraftIds(w)
    BY <1>4 DEF ExistsIn
  <2>2. IsDraft(u) /\ HasEntries(w, u.id) => Node(w, u.id).operated
    BY <2>1, EntriesMarked
  <2> QED
    BY <2>2 DEF Final
<1> HIDE DEF stands
<1>5. ASSUME NEW a \in DOMAIN w.heap
      PROVE  /\ g[a].type = w.heap[a].type
             /\ \A k \in Keys : g[a].at[k] = IF a \in visited
                                             THEN stands(w.heap[a].at[k])
                                             ELSE w.heap[a].at[k]
  BY <1>1, <1>5 DEF Object
<1>6. DOMAIN g = DOMAIN w.heap
  OBVIOUS
<1> HIDE DEF g
<1>7. \A a \in DOMAIN w.heap, k \in Keys : ExistsIn(w, w.heap[a].at[k])
  BY DEF Sound, WorldOK
<1>8. ASSUME NEW a \in DOMAIN w.heap, NEW k \in Keys
      PROVE  \/ x.heap[a].at[k] = w.heap[a].at[k]
             \/ /\ IsDraft(w.heap[a].at[k])
                /\ x.heap[a].at[k] = Final(w, w.heap[a].at[k].id)
  BY <1>3, <1>4, <1>5, <1>7
<1>9. Finalizes(w, x)
  <2>1. ASSUME NEW a \in DOMAIN w.heap, NEW k \in Keys
        PROVE  Settled(w, w.heap[a].at[k], x.heap[a].at[k])
    BY <1>8, FinalSettles DEF Settled
  <2> QED
    BY <1>3, <1>5, <1>6, <2>1 DEF Finalizes, DraftIds, Node
<1>10. \A d : ~IsDraft(Final(w, d))
  BY DEF Final, IsDraft, Obj
<1>11. visited \subseteq DOMAIN w.heap
  BY DEF visited, Visited, LedTo
<1>12. ASSUME NEW a \in visited, NEW k \in Keys
       PROVE  ~IsDraft(x.heap[a].at[k])
  BY <1>3, <1>4, <1>5, <1>7, <1>10, <1>11
<1> QED
  BY <1>3, <1>8, <1>9, <1>12 DEF x, visited

\* The callbacks of d settle it, and nothing else, where it was assigned.
LEMMA RunCallbacksDoes ==
    ASSUME NEW w, Sound(w), NEW d \in DraftIds(w)
    PROVE  LET x == RunCallbacks(w, d)
           IN  /\ x.drafts = w.drafts /\ x.tasks = w.tasks /\ x.handled = w.handled
               /\ Finalizes(w, x)
               /\ \A a \in DOMAIN w.heap, k \in Keys :
                     \/ x.heap[a].at[k] = w.heap[a].at[k]
                     \/ /\ w.heap[a].at[k] = Draft(d)
                        /\ x.heap[a].at[k] = Final(w, d)
               /\ \A c \in DraftIds(w), k \in Keys :
                     CallsBack(w, d, c, k) /\ Node(w, c).copy # Null =>
                        Copy(x, c).at[k] # Draft(d)
<1> DEFINE there(a, k) == \E i \in DOMAIN Node(w, d).callbacks :
                            LET callback == Node(w, d).callbacks[i]
                            IN  /\ Node(w, callback.target).copy = a
                                /\ callback.key = k
           g == [a \in DOMAIN w.heap |->
                   [w.heap[a] EXCEPT !.at = [k \in Keys |->
                       IF there(a, k) /\ @[k] = Draft(d)
                       THEN Final(w, d) ELSE @[k]]]]
           x == RunCallbacks(w, d)
<1>1. w \in World /\ w.heap \in [DOMAIN w.heap -> Object]
  BY WorldParts DEF Sound, WorldOK
<1>2. x = [w EXCEPT !.heap = g]
  BY DEF RunCallbacks
<1>3. /\ x.heap = g /\ x.drafts = w.drafts /\ x.tasks = w.tasks
      /\ x.handled = w.handled
  BY <1>1, <1>2 DEF World
<1> HIDE DEF x
<1>4. ASSUME NEW c \in DraftIds(w), NEW k \in Keys, CallsBack(w, d, c, k)
      PROVE  there(Node(w, c).copy, k)
  BY <1>4 DEF CallsBack
<1> HIDE DEF there
<1>5. ASSUME NEW a \in DOMAIN w.heap
      PROVE  /\ g[a].type = w.heap[a].type
             /\ \A k \in Keys : g[a].at[k] = IF there(a, k) /\ w.heap[a].at[k] = Draft(d)
                                             THEN Final(w, d)
                                             ELSE w.heap[a].at[k]
  BY <1>1, <1>5 DEF Object
<1>6. DOMAIN g = DOMAIN w.heap
  OBVIOUS
<1> HIDE DEF g
<1>7. ASSUME NEW a \in DOMAIN w.heap, NEW k \in Keys
      PROVE  \/ x.heap[a].at[k] = w.heap[a].at[k]
             \/ /\ w.heap[a].at[k] = Draft(d)
                /\ x.heap[a].at[k] = Final(w, d)
  BY <1>3, <1>5
<1>8. IsDraft(Draft(d)) /\ Draft(d).id = d
  BY DEF IsDraft, Draft
<1>9. Finalizes(w, x)
  <2>1. ASSUME NEW a \in DOMAIN w.heap, NEW k \in Keys
        PROVE  Settled(w, w.heap[a].at[k], x.heap[a].at[k])
    <3>1. Settled(w, Draft(d), Final(w, d))
      BY <1>8, FinalSettles
    <3> QED
      BY <1>7, <3>1 DEF Settled
  <2> QED
    BY <1>3, <1>5, <1>6, <2>1 DEF Finalizes, DraftIds, Node
<1>10. ASSUME NEW c \in DraftIds(w), NEW k \in Keys,
              CallsBack(w, d, c, k), Node(w, c).copy # Null
       PROVE  Copy(x, c).at[k] # Draft(d)
  <2>1. Node(w, c).copy \in DOMAIN w.heap
    BY <1>10 DEF Sound, WorldOK
  <2>2. there(Node(w, c).copy, k)
    BY <1>4, <1>10
  <2>3. Final(w, d) # Draft(d)
    BY <1>8 DEF Final, Obj, IsDraft
  <2>4. g[Node(w, c).copy].at[k] # Draft(d)
    BY <1>5, <2>1, <2>2, <2>3
  <2>5. Copy(x, c) = g[Node(w, c).copy]
    BY <1>3 DEF Copy, Node
  <2> QED
    BY <2>4, <2>5
<1> QED
  BY <1>3, <1>7, <1>9, <1>10 DEF x

\* handleReturnValue() settles the drafts in the objects it visits.
LEMMA HandleReturnValueDoes ==
    ASSUME NEW w, Sound(w), NEW v
    PROVE  LET x == HandleReturnValue(w, v)
           IN  /\ x.drafts = w.drafts /\ x.tasks = w.tasks /\ x.handled = w.handled
               /\ Finalizes(w, x)
               /\ \A a \in DOMAIN w.heap, k \in Keys :
                     IF a \in Held(w, v) /\ IsDraft(w.heap[a].at[k])
                     THEN x.heap[a].at[k] = Obj(Node(w, w.heap[a].at[k].id).original)
                     ELSE x.heap[a].at[k] = w.heap[a].at[k]
<1> DEFINE held == Held(w, v)
           stands(u) == IF IsDraft(u) THEN Obj(Node(w, u.id).original) ELSE u
           g == [a \in DOMAIN w.heap |->
                   IF a \in held
                   THEN [w.heap[a] EXCEPT !.at = [k \in Keys |-> stands(@[k])]]
                   ELSE w.heap[a]]
           x == HandleReturnValue(w, v)
<1>1. w \in World /\ w.heap \in [DOMAIN w.heap -> Object]
  BY WorldParts DEF Sound, WorldOK
<1>2. x = [w EXCEPT !.heap = g]
  BY DEF HandleReturnValue
<1>3. /\ x.heap = g /\ x.drafts = w.drafts /\ x.tasks = w.tasks
      /\ x.handled = w.handled
  BY <1>1, <1>2 DEF World
<1> HIDE DEF x, held
<1>4. \A u : IF IsDraft(u) THEN stands(u) = Obj(Node(w, u.id).original) ELSE stands(u) = u
  OBVIOUS
<1> HIDE DEF stands
<1>5. ASSUME NEW a \in DOMAIN w.heap
      PROVE  /\ g[a].type = w.heap[a].type
             /\ \A k \in Keys : g[a].at[k] = IF a \in held
                                             THEN stands(w.heap[a].at[k])
                                             ELSE w.heap[a].at[k]
  BY <1>1, <1>5 DEF Object
<1>6. DOMAIN g = DOMAIN w.heap
  OBVIOUS
<1> HIDE DEF g
<1>7. ASSUME NEW a \in DOMAIN w.heap, NEW k \in Keys
      PROVE  IF a \in held /\ IsDraft(w.heap[a].at[k])
             THEN x.heap[a].at[k] = Obj(Node(w, w.heap[a].at[k].id).original)
             ELSE x.heap[a].at[k] = w.heap[a].at[k]
  BY <1>3, <1>4, <1>5
<1>8. Finalizes(w, x)
  BY <1>3, <1>5, <1>6, <1>7 DEF Finalizes, Settled, DraftIds, Node
<1> QED
  BY <1>3, <1>7, <1>8 DEF x, held

\* A draft gives way to its final value, where anything changes.
Finishes(w, x) ==
    \A a \in DOMAIN w.heap, k \in Keys :
        \/ x.heap[a].at[k] = w.heap[a].at[k]
        \/ /\ IsDraft(w.heap[a].at[k])
           /\ x.heap[a].at[k] = Final(w, w.heap[a].at[k].id)

\* The entry of the draft node d is worked off: d is at none of the places
\* where it was assigned or read.
NodeDone(w, x, d) ==
    /\ d \in DraftIds(w)
    /\ Finalizes(w, x) /\ Finishes(w, x)
    /\ x.handled = w.handled
    /\ \A task : Queued(w, task) => task = NodeTask(d) \/ Queued(x, task)
    /\ \A c \in DraftIds(w), k \in Keys :
          /\ Node(w, c).copy # Null
          /\ CallsBack(w, d, c, k) \/ (Node(w, d).parent = c /\ Node(w, d).key = k)
          => Copy(x, c).at[k] # Draft(d)

\* The entry of an object that was assigned is worked off: the object is among
\* the handled ones if it is still there.  What a newly handled object holds is
\* handled, and no draft.
TaskDone(w, x, d, k, v) ==
    /\ Finalizes(w, x) /\ Finishes(w, x)
    /\ w.handled \subseteq x.handled /\ x.handled \subseteq w.handled \cup DOMAIN w.heap
    /\ \A task : Queued(w, task) => task = AssignedTask(d, k, v) \/ Queued(x, task)
    /\ \A a \in x.handled \ w.handled, j \in Keys :
          /\ ~IsDraft(x.heap[a].at[j])
          /\ IsObj(w.heap[a].at[j]) => w.heap[a].at[j].id \in x.handled
    /\ /\ Copy(w, d).at[k] = v /\ Len(w.drafts) > 1
       /\ Node(w, d).assigned[k] = "set" /\ IsObj(v)
       => v.id \in x.handled

\* Taking the last entry off the list.
LEMMA PoppedDoes ==
    ASSUME IInv, tasks # <<>>
    PROVE  /\ Popped.heap = W.heap /\ Popped.drafts = W.drafts
           /\ Popped.handled = W.handled
           /\ Finalizes(W, Popped)
           /\ \A task : Queued(W, task) => task = Last(tasks) \/ Queued(Popped, task)
           /\ Last(tasks) \in Task
<1> DEFINE ts == SubSeq(tasks, 1, Len(tasks) - 1)
<1>0. /\ Sound(W) /\ W \in World /\ W.tasks = tasks
      /\ tasks \in Seq(Task) /\ DOMAIN tasks = 1 .. Len(tasks) /\ Len(tasks) \in Nat
  BY InvParts, WorldParts DEF Sound, WorldOK, World
<1>1. Len(tasks) # 0
  BY <1>0, EmptySeq
<1>2. ts \in Seq(Task) /\ DOMAIN ts = 1 .. Len(tasks) - 1
      /\ \A i \in DOMAIN ts : ts[i] = tasks[i]
  BY <1>0, <1>1
<1>3. Popped = [W EXCEPT !.tasks = ts]
  BY <1>0 DEF Popped, Front, World
<1>4. /\ Popped.heap = W.heap /\ Popped.drafts = W.drafts
      /\ Popped.handled = W.handled /\ Popped.tasks = ts
  BY <1>0, <1>3 DEF World
<1>5. Last(tasks) = tasks[Len(tasks)] /\ Last(tasks) \in Task
  BY <1>0, <1>1 DEF Last
<1> HIDE DEF ts
<1>6. ASSUME NEW task, Queued(W, task), task # Last(tasks)
      PROVE  Queued(Popped, task)
  <2>1. PICK i \in 1 .. Len(tasks) : tasks[i] = task
    BY <1>0, <1>6 DEF Queued
  <2>2. i \in DOMAIN ts
    BY <1>0, <1>2, <1>5, <1>6, <2>1
  <2> QED
    BY <1>2, <1>4, <2>1, <2>2 DEF Queued
<1>7. Finalizes(W, Popped)
  BY <1>4 DEF Finalizes, Settled, DraftIds, Node
<1> QED
  BY <1>4, <1>5, <1>6, <1>7

\* Marking a draft as finalized.
LEMMA FinalizedDoes ==
    ASSUME NEW w, Sound(w), NEW d \in DraftIds(w)
    PROVE  LET x == Finalized(w, d)
           IN  /\ x.heap = w.heap /\ x.tasks = w.tasks /\ x.handled = w.handled
               /\ Finalizes(w, x)
<1> DEFINE x == Finalized(w, d)
           ds == [w.drafts EXCEPT ![d].finalized = TRUE]
<1>0. w \in World /\ w.drafts \in [DraftIds(w) -> DraftState]
  BY WorldParts DEF Sound, WorldOK, DraftIds
<1>1. CASE ~Generates(w, d)
  BY <1>1 DEF Finalized, Finalizes, Settled
<1>2. CASE Generates(w, d)
  <2>1. x = [w EXCEPT !.drafts = ds]
    BY <1>2 DEF Finalized
  <2>2. /\ x.heap = w.heap /\ x.drafts = ds /\ x.tasks = w.tasks
        /\ x.handled = w.handled
    BY <1>0, <2>1 DEF World
  <2>3. DOMAIN ds = DraftIds(w)
    BY DEF DraftIds
  <2>4. \A e \in DraftIds(w) :
           /\ ds[e].original = w.drafts[e].original
           /\ ds[e].copy = w.drafts[e].copy
           /\ ds[e].parent = w.drafts[e].parent
           /\ ds[e].key = w.drafts[e].key
           /\ ds[e].operated = w.drafts[e].operated
           /\ ds[e].assigned = w.drafts[e].assigned
           /\ ds[e].callbacks = w.drafts[e].callbacks
    BY <1>0 DEF DraftState
  <2> HIDE DEF ds, x
  <2>5. Finalizes(w, x)
    BY <2>2, <2>3, <2>4 DEF Finalizes, Settled, DraftIds, Node
  <2> QED
    BY <2>2, <2>5 DEF x
<1> QED
  BY <1>1, <1>2

\* Final values do not change as the finalization goes on.
LEMMA FinalStays ==
    ASSUME NEW w, NEW x, Finalizes(w, x), NEW d \in DraftIds(w)
    PROVE  Final(x, d) = Final(w, d)
BY DEF Finalizes, Final

\* Two such steps.
LEMMA FinishesTwice ==
    ASSUME NEW w, NEW y, NEW x, Sound(w), Finalizes(w, y),
           Finishes(w, y), Finishes(y, x)
    PROVE  Finishes(w, x)
<1> SUFFICES ASSUME NEW a \in DOMAIN w.heap, NEW k \in Keys
             PROVE  \/ x.heap[a].at[k] = w.heap[a].at[k]
                    \/ /\ IsDraft(w.heap[a].at[k])
                       /\ x.heap[a].at[k] = Final(w, w.heap[a].at[k].id)
  BY DEF Finishes
<1>1. DOMAIN y.heap = DOMAIN w.heap
  BY DEF Finalizes
<1>2. \/ y.heap[a].at[k] = w.heap[a].at[k]
      \/ /\ IsDraft(w.heap[a].at[k])
         /\ y.heap[a].at[k] = Final(w, w.heap[a].at[k].id)
  BY DEF Finishes
<1>3. \/ x.heap[a].at[k] = y.heap[a].at[k]
      \/ /\ IsDraft(y.heap[a].at[k])
         /\ x.heap[a].at[k] = Final(y, y.heap[a].at[k].id)
  BY <1>1 DEF Finishes
<1>4. IsDraft(w.heap[a].at[k]) => Final(y, w.heap[a].at[k].id) = Final(w, w.heap[a].at[k].id)
  BY FinalStays DEF Sound, WorldOK, ExistsIn
<1>5. \A d : ~IsDraft(Final(w, d))
  BY DEF Final, IsDraft, Obj
<1> QED
  BY <1>2, <1>3, <1>4, <1>5

\* Without a change of the heap, nothing else gives way.
LEMMA FinishesSame ==
    ASSUME NEW w, NEW x, x.heap = w.heap
    PROVE  Finishes(w, x)
BY DEF Finishes

\* finalizeNode() with the node's callbacks.
LEMMA FinalizeNodeSteps ==
    ASSUME IInv, FinalizeNode
    PROVE  \E x, d : W' = x /\ Sound(x) /\ NodeDone(W, x, d)
<1> DEFINE d == Last(tasks).draft
           p == Node(W, d).parent
           k == Node(W, d).key
           here == IF p = Null THEN Draft(d) ELSE Copy(W, p).at[k]
           w == IF here = Draft(d) THEN Finalized(Popped, d) ELSE Popped
           y == IF p # Null /\ IsDraft(here)
                THEN Put(w, p, k, Final(w, here.id)) ELSE w
           x == RunCallbacks(y, d)
<1>1. /\ Sound(W) /\ tasks # <<>> /\ W.tasks = tasks
  BY InvParts DEF FinalizeNode, Finalizing
<1>2. /\ Sound(Popped) /\ d \in DraftIds(W)
  BY <1>1, PoppedSound DEF Popped
<1>3. /\ Popped.heap = W.heap /\ Popped.drafts = W.drafts
      /\ Popped.handled = W.handled
      /\ Finalizes(W, Popped)
      /\ \A task : Queued(W, task) => task = Last(tasks) \/ Queued(Popped, task)
      /\ Last(tasks) \in Task
  BY <1>1, PoppedDoes
<1>4. Last(tasks) = NodeTask(d)
  <2>1. Last(tasks).kind = "node"
    BY DEF FinalizeNode
  <2> QED
    BY <1>3, <2>1 DEF Task, NodeTask
<1>5. Become(x)
  BY DEF FinalizeNode
<1>6. IsDraft(Draft(d)) /\ Draft(d).id = d
  BY DEF IsDraft, Draft
<1>7. ASSUME p # Null
      PROVE  /\ p \in DraftIds(W) /\ k \in Keys /\ Node(W, p).copy # Null
             /\ Node(W, p).copy \in DOMAIN W.heap
             /\ ExistsIn(W, here)
             /\ here = Copy(W, p).at[k]
  <2>1. p \in DraftIds(W) /\ k \in Keys /\ Node(W, p).copy # Null
    BY <1>1, <1>2, <1>7 DEF Sound, WorldOK, Linked
  <2>2. Node(W, p).copy \in DOMAIN W.heap
    BY <1>1, <2>1 DEF Sound, WorldOK
  <2> QED
    BY <1>1, <1>7, <2>1, <2>2 DEF Sound, WorldOK, Copy
<1>8. p = Null => here = Draft(d)
  OBVIOUS
<1> HIDE DEF here
<1>9. /\ Sound(w) /\ Finalizes(W, w) /\ w.heap = W.heap
      /\ w.handled = W.handled /\ w.tasks = Popped.tasks
  <2>1. CASE here = Draft(d)
    <3>1. d \in DraftIds(Popped)
      BY <1>2, <1>3 DEF DraftIds
    <3>2. /\ Sound(w) /\ Finalizes(Popped, w) /\ w.heap = Popped.heap
          /\ w.handled = Popped.handled /\ w.tasks = Popped.tasks
      BY <1>2, <2>1, <3>1, FinalizedSound, FinalizedDoes
    <3> QED
      BY <1>1, <1>3, <3>2, FinalizesTwice
  <2>2. CASE here # Draft(d)
    BY <1>2, <1>3, <2>2
  <2> QED
    BY <2>1, <2>2
<1>10. /\ DraftIds(w) = DraftIds(W)
       /\ \A e \in DraftIds(W) : Node(w, e).copy = Node(W, e).copy
  BY <1>9 DEF Finalizes
<1> HIDE DEF w, p, k
<1>11. /\ Sound(y) /\ Finalizes(w, y) /\ Finishes(w, y)
       /\ y.handled = w.handled /\ y.tasks = w.tasks
       /\ p # Null => Copy(y, p).at[k] # Draft(d)
  <2>1. CASE p # Null /\ IsDraft(here)
    <3> DEFINE f == Final(w, here.id)
    <3>1. /\ p \in DraftIds(w) /\ k \in Keys /\ Node(w, p).copy # Null
          /\ here.id \in DraftIds(w) /\ here = Copy(w, p).at[k]
      BY <1>7, <1>9, <1>10, <2>1 DEF ExistsIn, Copy
    <3>2. f \in Value /\ ExistsIn(w, f)
      BY <1>9, <3>1, FinalExists
    <3>3. /\ ~IsDraft(f) /\ Settled(w, here, f)
      BY <2>1, FinalSettles DEF Final, Obj, IsDraft
    <3>4. y = Put(w, p, k, f)
      BY <2>1
    <3> HIDE DEF f, y
    <3>5. Sound(y)
      BY <1>9, <3>1, <3>2, <3>4, PutSound
    <3>6. /\ y.drafts = w.drafts /\ y.tasks = w.tasks /\ y.handled = w.handled
          /\ DOMAIN y.heap = DOMAIN w.heap
          /\ \A a \in DOMAIN w.heap : a # Node(w, p).copy => y.heap[a] = w.heap[a]
          /\ Copy(y, p).type = Copy(w, p).type
          /\ \A j \in Keys : Copy(y, p).at[j] = IF j = k THEN f ELSE Copy(w, p).at[j]
      BY <1>9, <3>1, <3>4, PutDoes
    <3>7. Copy(y, p) = y.heap[Node(w, p).copy] /\ Copy(w, p) = w.heap[Node(w, p).copy]
      BY <3>6 DEF Copy, Node
    <3>8. \A a \in DOMAIN w.heap :
             /\ y.heap[a].type = w.heap[a].type
             /\ \A j \in Keys : \/ y.heap[a].at[j] = w.heap[a].at[j]
                                \/ w.heap[a].at[j] = here /\ y.heap[a].at[j] = f
      BY <3>1, <3>6, <3>7
    <3>9. Finalizes(w, y)
      BY <3>3, <3>6, <3>8 DEF Finalizes, Settled, DraftIds, Node
    <3>10. Finishes(w, y)
      BY <2>1, <3>8 DEF Finishes, f
    <3>11. Copy(y, p).at[k] # Draft(d)
      BY <1>6, <3>1, <3>3, <3>6
    <3> QED
      BY <3>5, <3>6, <3>9, <3>10, <3>11
  <2>2. CASE ~(p # Null /\ IsDraft(here))
    <3>1. y = w
      BY <2>2
    <3>2. p # Null => Copy(w, p).at[k] # Draft(d)
      BY <1>6, <1>7, <1>9, <1>10, <2>2 DEF Copy
    <3> QED
      BY <1>9, <3>1, <3>2 DEF Finalizes, Finishes, Settled
  <2> QED
    BY <2>1, <2>2
<1> HIDE DEF y
<1>12. DraftIds(y) = DraftIds(W) /\ Finalizes(W, y) /\ Finishes(W, y)
  BY <1>1, <1>9, <1>11, FinalizesTwice, FinishesTwice, FinishesSame DEF Finalizes
<1>13. /\ Sound(x)
       /\ x.drafts = y.drafts /\ x.tasks = y.tasks /\ x.handled = y.handled
       /\ Finalizes(y, x)
       /\ \A a \in DOMAIN y.heap, j \in Keys :
             \/ x.heap[a].at[j] = y.heap[a].at[j]
             \/ /\ y.heap[a].at[j] = Draft(d)
                /\ x.heap[a].at[j] = Final(y, d)
       /\ \A c \in DraftIds(y), j \in Keys :
             CallsBack(y, d, c, j) /\ Node(y, c).copy # Null => Copy(x, c).at[j] # Draft(d)
  BY <1>2, <1>11, <1>12, RunCallbacksSound, RunCallbacksDoes, InvParts
<1> HIDE DEF x, d
<1>14. Finalizes(W, x) /\ Finishes(W, x)
  <2>1. Finishes(y, x)
    BY <1>6, <1>13 DEF Finishes
  <2> QED
    BY <1>1, <1>12, <1>13, <2>1, FinalizesTwice, FinishesTwice
<1>15. x.handled = W.handled
       /\ \A task : Queued(W, task) => task = NodeTask(d) \/ Queued(x, task)
  BY <1>3, <1>4, <1>9, <1>11, <1>13 DEF Queued
<1>16. ASSUME NEW c \in DraftIds(W), NEW j \in Keys, Node(W, c).copy # Null,
              CallsBack(W, d, c, j) \/ (p = c /\ k = j)
       PROVE  Copy(x, c).at[j] # Draft(d)
  <2>1. CASE CallsBack(W, d, c, j)
    <3>1. CallsBack(y, d, c, j) /\ Node(y, c).copy # Null /\ c \in DraftIds(y)
      BY <1>2, <1>12, <1>16, <2>1 DEF Finalizes, CallsBack
    <3> QED
      BY <1>13, <3>1
  <2>2. CASE p = c /\ k = j
    <3>1. p # Null
      BY <1>1, <1>16, <2>2, WorldParts DEF Sound, WorldOK, DraftIds, Null
    <3>2. Copy(y, c).at[j] # Draft(d)
      BY <1>11, <2>2, <3>1
    <3>3. Node(y, c).copy = Node(x, c).copy /\ Node(y, c).copy \in DOMAIN y.heap
      <4>1. Node(y, c).copy = Node(W, c).copy /\ c \in DraftIds(y)
        BY <1>12, <1>16 DEF Finalizes
      <4> QED
        BY <1>11, <1>13, <1>16, <4>1 DEF Sound, WorldOK, Node
    <3>4. Final(y, d) # Draft(d)
      BY <1>6 DEF Final, Obj, IsDraft
    <3> QED
      BY <1>13, <1>16, <3>2, <3>3, <3>4 DEF Copy
  <2> QED
    BY <1>16, <2>1, <2>2
<1>17. NodeDone(W, x, d)
  BY <1>2, <1>14, <1>15, <1>16 DEF NodeDone, p, k
<1>18. W' = x
  BY <1>5, <1>13, BecomesWorld
<1> QED
  BY <1>13, <1>17, <1>18

\* The deferred callback of an object that was assigned.
LEMMA FinalizeTaskSteps ==
    ASSUME IInv, FinalizeTask
    PROVE  \E x, d, k, v : W' = x /\ Sound(x) /\ TaskDone(W, x, d, k, v)
<1> DEFINE task == Last(tasks)
           x == FinalizeAssigned(Popped, task)
<1>1. /\ Sound(W) /\ BaseClosed /\ tasks # <<>> /\ W.tasks = tasks
  BY InvParts DEF FinalizeTask, Finalizing
<1>2. /\ Sound(Popped) /\ task.draft \in DraftIds(W)
  BY <1>1, PoppedSound DEF Popped
<1>3. /\ Popped.heap = W.heap /\ Popped.drafts = W.drafts
      /\ Popped.handled = W.handled
      /\ Finalizes(W, Popped)
      /\ \A t : Queued(W, t) => t = task \/ Queued(Popped, t)
      /\ task \in Task
  BY <1>1, PoppedDoes
<1>4. /\ task = AssignedTask(task.draft, task.key, task.value)
      /\ task.value \in Value /\ task.key \in Keys
  <2>1. task.kind = "assigned"
    BY DEF FinalizeTask
  <2> HIDE DEF task
  <2> QED
    BY <1>3, <2>1 DEF Task, AssignedTask
<1>5. Become(x)
  BY DEF FinalizeTask
<1> DEFINE d == task.draft
           k == task.key
           v == task.value
           applies == /\ Copy(W, d).at[k] = v /\ Len(W.drafts) > 1
                      /\ Node(W, d).assigned[k] = "set"
<1>6. x = IF applies THEN HandleValue(Popped, v) ELSE Popped
  BY <1>3 DEF FinalizeAssigned, Copy, Node
<1>7. ~applies => TaskDone(W, x, d, k, v)
  <2> SUFFICES ASSUME ~applies PROVE TaskDone(W, x, d, k, v)
    OBVIOUS
  <2>1. x = Popped
    BY <1>6
  <2> HIDE DEF x, d, k, v
  <2> QED
    BY <1>3, <1>4, <2>1, FinishesSame DEF TaskDone, d, k, v
<1>8. ASSUME applies PROVE TaskDone(W, x, d, k, v) /\ Sound(x)
  <2>1. x = HandleValue(Popped, v)
    BY <1>6, <1>8
  <2>2. IsObj(v) => v.id \in DOMAIN W.heap
    <3> SUFFICES ASSUME IsObj(v) PROVE v.id \in DOMAIN W.heap
      OBVIOUS
    <3>1. Node(W, d).copy # Null
      BY <1>1, <1>2, <1>4, <1>8 DEF Sound, Marked, HasEntries
    <3>2. Node(W, d).copy \in DOMAIN W.heap
      BY <1>1, <1>2, <3>1 DEF Sound, WorldOK
    <3>3. ExistsIn(W, W.heap[Node(W, d).copy].at[k])
      BY <1>1, <1>4, <3>2 DEF Sound, WorldOK
    <3> QED
      BY <1>8, <3>3 DEF ExistsIn, Copy
  <2>3. ExistsIn(Popped, v)
    <3>1. ~IsDraft(v) \/ v.id \in DraftIds(W)
      <4>1. Node(W, d).copy \in DOMAIN W.heap
        BY <1>1, <1>2, <1>4, <1>8 DEF Sound, WorldOK, Marked, HasEntries
      <4>2. ExistsIn(W, W.heap[Node(W, d).copy].at[k])
        BY <1>1, <1>4, <4>1 DEF Sound, WorldOK
      <4> QED
        BY <1>8, <4>2 DEF ExistsIn, Copy
    <3> QED
      BY <1>3, <2>2, <3>1 DEF ExistsIn, DraftIds
  <2>4. /\ x.drafts = Popped.drafts /\ x.tasks = Popped.tasks
        /\ x.handled = Popped.handled \cup Visited(Popped, v)
        /\ Finalizes(Popped, x)
        /\ \A a \in Visited(Popped, v), j \in Keys : ~IsDraft(x.heap[a].at[j])
        /\ \A a \in DOMAIN Popped.heap, j \in Keys :
              \/ x.heap[a].at[j] = Popped.heap[a].at[j]
              \/ /\ IsDraft(Popped.heap[a].at[j])
                 /\ x.heap[a].at[j] = Final(Popped, Popped.heap[a].at[j].id)
    BY <1>2, <2>1, HandleValueDoes
  <2>5. /\ Visited(Popped, v) \subseteq DOMAIN Popped.heap
        /\ IsObj(v) => v.id \in Visited(Popped, v) \cup Popped.handled
        /\ \A a \in Visited(Popped, v), j \in Keys :
              IsObj(Popped.heap[a].at[j]) =>
                 Popped.heap[a].at[j].id \in Visited(Popped, v) \cup Popped.handled
    BY <1>2, <2>3, LedToCloses DEF Visited
  <2>6. Sound(x)
    BY <1>1, <1>2, <2>1, <2>3, HandleValueSound
  <2> HIDE DEF x, d, k, v
  <2>7. Finalizes(W, x)
    BY <1>1, <1>3, <2>4, FinalizesTwice
  <2>8. Finishes(W, x)
    <3>1. Finishes(Popped, x)
      BY <2>4 DEF Finishes
    <3> QED
      BY <1>1, <1>3, <3>1, FinishesTwice, FinishesSame
  <2>9. \A t : Queued(W, t) => t = AssignedTask(d, k, v) \/ Queued(x, t)
    BY <1>3, <1>4, <2>4 DEF Queued, d, k, v
  <2>10. \A a \in x.handled \ W.handled, j \in Keys :
            /\ ~IsDraft(x.heap[a].at[j])
            /\ IsObj(W.heap[a].at[j]) => W.heap[a].at[j].id \in x.handled
    BY <1>3, <2>4, <2>5
  <2>11. IsObj(v) => v.id \in x.handled
    BY <2>4, <2>5
  <2>12. /\ W.handled \subseteq x.handled
         /\ x.handled \subseteq W.handled \cup DOMAIN W.heap
    BY <1>3, <2>4, <2>5
  <2> QED
    BY <2>6, <2>7, <2>8, <2>9, <2>10, <2>11, <2>12 DEF TaskDone
<1>9. Sound(x)
  BY <1>2, <1>6, <1>8
<1>10. W' = x
  BY <1>5, <1>9, BecomesWorld
<1> HIDE DEF x, d, k, v, applies
<1> QED
  BY <1>7, <1>8, <1>9, <1>10

\* The end of the recipe: what a returned object leads to holds no draft any more.
RecipeEnded(w, x, v) ==
    /\ Finalizes(w, x)
    /\ x.tasks = w.tasks /\ x.handled = w.handled
    /\ ~IsObj(v) => x = w
    /\ IsObj(v) =>
          /\ v.id \in Held(w, v) /\ Held(w, v) \subseteq DOMAIN w.heap
          /\ \A a \in Held(w, v), k \in Keys :
                IsObj(w.heap[a].at[k]) => w.heap[a].at[k].id \in Held(w, v)
          /\ \A a \in DOMAIN w.heap, k \in Keys :
                IF a \in Held(w, v) /\ IsDraft(w.heap[a].at[k])
                THEN x.heap[a].at[k] = Obj(Node(w, w.heap[a].at[k].id).original)
                ELSE x.heap[a].at[k] = w.heap[a].at[k]

\* The end of a recipe replaces drafts in what the recipe returned, if it
\* returned an object, by originals.
LEMMA EndRecipeSteps ==
    ASSUME IInv, NEW v \in RecipeValues \cup {Undefined}, EndRecipe(v)
    PROVE  \E x : W' = x /\ Sound(x) /\ RecipeEnded(W, x, v)
<1> DEFINE x == IF IsObj(v) THEN HandleReturnValue(W, v) ELSE W
<1>1. Sound(W) /\ BaseClosed
  BY InvParts
<1>2. Become(x)
  BY DEF EndRecipe
<1>3. ExistsIn(W, v)
  <2>1. CASE v \in RecipeValues
    BY <2>1, RecipeValuesExist
  <2>2. CASE v = Undefined
    BY <2>2 DEF Undefined, Prim, ExistsIn, IsObj, IsDraft
  <2> QED
    BY <2>1, <2>2
<1>4. CASE IsObj(v)
  <2>1. x = HandleReturnValue(W, v)
    BY <1>4
  <2>2. /\ x.tasks = W.tasks /\ x.handled = W.handled /\ Finalizes(W, x)
        /\ \A a \in DOMAIN W.heap, k \in Keys :
              IF a \in Held(W, v) /\ IsDraft(W.heap[a].at[k])
              THEN x.heap[a].at[k] = Obj(Node(W, W.heap[a].at[k].id).original)
              ELSE x.heap[a].at[k] = W.heap[a].at[k]
    BY <1>1, <2>1, HandleReturnValueDoes
  <2>3. /\ Held(W, v) \subseteq DOMAIN W.heap
        /\ v.id \in Held(W, v)
        /\ \A a \in Held(W, v), k \in Keys :
              IsObj(W.heap[a].at[k]) => W.heap[a].at[k].id \in Held(W, v)
    BY <1>1, <1>3, <1>4, LedToCloses DEF Held
  <2>4. Sound(x)
    BY <1>1, <1>3, <1>4, <2>1, HandleReturnValueSound
  <2> HIDE DEF x
  <2>5. W' = x
    BY <1>2, <2>4, BecomesWorld
  <2> QED
    BY <1>4, <2>2, <2>3, <2>4, <2>5 DEF RecipeEnded
<1>5. CASE ~IsObj(v)
  <2>1. x = W
    BY <1>5
  <2>2. W' = W
    BY <1>1, <1>2, <2>1, BecomesWorld
  <2>3. Finalizes(W, W)
    BY DEF Finalizes, Settled
  <2> QED
    BY <1>1, <1>5, <2>2, <2>3 DEF RecipeEnded
<1> QED
  BY <1>4, <1>5

\* Every other step leaves the world.
LEMMA OtherSteps ==
    ASSUME Fail \/ Return \/ UNCHANGED vars
    PROVE  W' = W /\ UNCHANGED base
BY DEF Fail, Return, vars, W

\* What a step does to the world: one of the four kinds in the recipe, values
\* settling after it.
LEMMA WorldSteps ==
    ASSUME IInv, [Next]_vars
    PROVE  /\ UNCHANGED base
           /\ \E x : W' = x /\ Sound(x) /\ \/ Assigns(x)
                                           \/ Reads(x)
                                           \/ Makes(x)
                                           \/ Mends(x)
                                           \/ Finalizes(W, x)
<1>0. IInv'
  BY NextKeeps
<1>1. CASE Recipe
  BY <1>0, <1>1, RecipeSteps, NextSound
<1>2. CASE \E v \in ReturnValues : EndRecipe(v)
  <2>1. PICK v \in RecipeValues \cup {Undefined} : EndRecipe(v)
    BY <1>2 DEF ReturnValues
  <2> QED
    BY <2>1, EndRecipeSteps DEF EndRecipe, RecipeEnded
<1>3. CASE FinalizeNode
  BY <1>3, FinalizeNodeSteps DEF FinalizeNode, NodeDone
<1>4. CASE FinalizeTask
  BY <1>4, FinalizeTaskSteps DEF FinalizeTask, TaskDone
<1>5. CASE Fail \/ Return \/ UNCHANGED vars
  <2>1. Sound(W) /\ Finalizes(W, W)
    BY InvParts DEF Finalizes, Settled
  <2> QED
    BY <1>5, <2>1, OtherSteps
<1> QED
  BY <1>1, <1>2, <1>3, <1>4, <1>5 DEF Next, Ended
=============================================================================
