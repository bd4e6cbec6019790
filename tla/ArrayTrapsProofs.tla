------------------------- MODULE ArrayTrapsProofs --------------------------
(***************************************************************************)
(* The traps of an array draft, for every base state and every bound: what *)
(* is true of its records and caches at any moment of a recipe (Sound),    *)
(* and that reads, assignments, deletions and the methods that go through  *)
(* them element by element keep it so and do what an ordinary array does   *)
(* (Does).                                                                 *)
(***************************************************************************)
EXTENDS ArrayProperties, SequenceTheorems, WellFoundedInduction, FiniteSetTheorems, TLAPS

-----------------------------------------------------------------------------
(***************************************************************************)
(* What is true of an array draft and its elements during a recipe.        *)
(***************************************************************************)

Index == Nat \ {0}

\* The base is part of the heap, unchanged.
BaseKept(w) ==
    /\ w.original = base.array
    /\ Len(base.heap) <= Len(w.heap)
    /\ \A a \in DOMAIN base.heap : w.heap[a] = base.heap[a]

\* Drafts are of elements of the base, and their copies lie outside of it.
DraftsApart(w) ==
    \A d \in DOMAIN w.drafts :
        /\ w.drafts[d].key \in DOMAIN base.array
        /\ base.array[w.drafts[d].key] = Obj(w.drafts[d].original)
        /\ w.drafts[d].copy \in {Null} \cup (Len(base.heap) + 1 .. Len(w.heap))

\* A changed draft has a copy, no copy holds a draft, and objects hold drafts
\* that exist.
HeapInOrder(w) ==
    /\ \A d \in DOMAIN w.drafts :
          /\ w.drafts[d].operated => w.drafts[d].copy # Null
          /\ w.drafts[d].copy # Null => ~IsDraft(w.heap[w.drafts[d].copy])
    /\ \A a \in DOMAIN w.heap :
          IsDraft(w.heap[a]) => w.heap[a].id \in DOMAIN w.drafts

\* What the records say of a value v at index i.  A draft is finalized there,
\* and known there as a child or as assigned.  An object is recorded as assigned
\* unless it is the element of that index, or one that moved; an object of the
\* recipe always is, and has a task.
Fits(w, i, v) ==
    /\ IsDraft(v) =>
          /\ v.id \in DOMAIN w.drafts
          /\ i = w.drafts[v.id].key \/ i \in w.drafts[v.id].callbacks
          /\ <<i, v.id>> \in w.children \/ i \in w.assigned
    /\ IsObj(v) =>
          /\ v.id \in DOMAIN w.heap
          /\ i \in w.assigned => v # At(w.original, i)
          /\ ~w.relocated /\ v # At(w.original, i) => i \in w.assigned
          /\ v \notin Range(w.original) =>
                i \in w.assigned /\ [at |-> i, value |-> v] \in w.tasks

AllFit(w) == \A i \in Index : Fits(w, i, At(w.array, i))

\* The caches are right, and a changed array is a copy.
CachesRight(w) ==
    /\ w.array # w.original => w.copied
    /\ w.dense = "yes" => ~HasHoles(w.array)
    /\ w.inert = "yes" => \A i \in DOMAIN w.array : ~IsRef(w.array[i])

\* Without a mark, the array holds what the original holds, or drafts of that.
Untouched(w) ==
    ~w.operated =>
        /\ Len(w.array) = Len(w.original)
        /\ \A i \in DOMAIN w.array :
              \/ w.array[i] = w.original[i]
              \/ /\ IsDraft(w.array[i])
                 /\ w.original[i] = Obj(w.drafts[w.array[i].id].original)
        /\ \A d \in DOMAIN w.drafts : ~w.drafts[d].operated

Sound(w) == /\ w \in World
            /\ BaseKept(w) /\ DraftsApart(w) /\ HeapInOrder(w)
            /\ AllFit(w) /\ CachesRight(w) /\ Untouched(w)

\* w became u by reads and writes: the heap stays, and drafts are at most added.
Grows(w, u) ==
    /\ u.heap = w.heap /\ u.original = w.original
    /\ Len(w.drafts) <= Len(u.drafts)
    /\ \A d \in DOMAIN w.drafts :
          /\ u.drafts[d].original = w.drafts[d].original
          /\ u.drafts[d].key = w.drafts[d].key
          /\ u.drafts[d].copy = w.drafts[d].copy
          /\ u.drafts[d].operated = w.drafts[d].operated
          /\ w.drafts[d].callbacks \subseteq u.drafts[d].callbacks
    /\ \A d \in DOMAIN u.drafts \ DOMAIN w.drafts :
          /\ u.drafts[d].key \in DOMAIN base.array
          /\ base.array[u.drafts[d].key] = Obj(u.drafts[d].original)
          /\ u.drafts[d].copy = Null /\ ~u.drafts[d].operated
    /\ w.tasks \subseteq u.tasks
    /\ w.operated => u.operated
    /\ w.relocated => u.relocated

\* What a reader finds at i: an element of the base, or the value itself.
SlotOf(w, i, v) == IF IsObj(v) /\ BaseIndex(w, v, i) # Null THEN Base(v.id) ELSE v
SlotAt(w, i)    == SlotOf(w, i, At(w.array, i))

\* Where t was, u has v: the same, or a draft made since w.
Shows(w, u, t, v) ==
    \/ v = t
    \/ /\ t.kind = "base" /\ IsDraft(v)
       /\ v.id \in DOMAIN u.drafts \ DOMAIN w.drafts
       /\ u.drafts[v.id].original = t.id

\* A value that can be assigned.
Usable(w, v) == /\ v \in Value /\ v # Absent
                /\ IsDraft(v) => v.id \in DOMAIN w.drafts
                /\ IsObj(v) => v.id \in DOMAIN w.heap

\* The base state of the producer, as the constants promise it.
BaseOK == /\ base.array \in Seq(Value) /\ base.heap \in Seq(Value)
          /\ \A v \in Range(base.array) \cup Range(base.heap) : ~IsDraft(v)
          /\ \A v \in Range(base.array) : IsObj(v) => v.id \in DOMAIN base.heap

-----------------------------------------------------------------------------
(***************************************************************************)
(* Numbers, and indices of a sequence.                                     *)
(***************************************************************************)

LEMMA MaxOfTwo ==
    ASSUME NEW a \in Int, NEW b \in Int
    PROVE  /\ Max({a, b}) = IF a >= b THEN a ELSE b
           /\ Min({a, b}) = IF a <= b THEN a ELSE b
<1>1. CASE a >= b
  <2>1. \A x \in {a, b} : (\A y \in {a, b} : x >= y) => x = a
    BY <1>1
  <2>2. \A y \in {a, b} : a >= y
    BY <1>1
  <2>3. Max({a, b}) = a
    BY <2>1, <2>2 DEF Max
  <2>4. \A x \in {a, b} : (\A y \in {a, b} : x =< y) => x = b
    BY <1>1
  <2>5. \A y \in {a, b} : b =< y
    BY <1>1
  <2>6. Min({a, b}) = b
    BY <2>4, <2>5 DEF Min
  <2>7. a <= b => a = b
    BY <1>1
  <2> QED BY <1>1, <2>3, <2>6, <2>7
<1>2. CASE ~(a >= b)
  <2>1. \A x \in {a, b} : (\A y \in {a, b} : x >= y) => x = b
    BY <1>2
  <2>2. \A y \in {a, b} : b >= y
    BY <1>2
  <2>3. Max({a, b}) = b
    BY <2>1, <2>2 DEF Max
  <2>4. \A x \in {a, b} : (\A y \in {a, b} : x =< y) => x = a
    BY <1>2
  <2>5. \A y \in {a, b} : a =< y
    BY <1>2
  <2>6. Min({a, b}) = a
    BY <2>4, <2>5 DEF Min
  <2> QED BY <1>2, <2>3, <2>6
<1> QED BY <1>1, <1>2

LEMMA MaxAmong ==
    ASSUME NEW a \in Int, NEW b \in Int
    PROVE  /\ Max({a, b}) \in Int /\ Min({a, b}) \in Int
           /\ Max({a, b}) \in {a, b} /\ Min({a, b}) \in {a, b}
<1>1. CASE a >= b
  BY <1>1, MaxOfTwo
<1>2. CASE ~(a >= b)
  BY <1>2, MaxOfTwo
<1> QED BY <1>1, <1>2

LEMMA NatLeast ==
    ASSUME NEW T, T \subseteq Nat, T # {}
    PROVE  \E n \in T : \A m \in T : n <= m
<1> DEFINE R == OpToRel(<, Nat)
<1>1. IsWellFoundedOn(R, Nat)
  BY NatLessThanWellFounded
<1>2. \A m, n \in Nat : m < n => <<m, n>> \in R
  BY DEF R, OpToRel
<1> HIDE DEF R
<1>3. PICK n \in T : \A m \in T : <<m, n>> \notin R
  BY <1>1, WFMin
<1>4. \A m \in T : m \in Nat /\ n \in Nat /\ ~(m < n)
  BY <1>2, <1>3
<1>5. \A m \in T : n <= m
  BY <1>4
<1> QED
  BY <1>5

\* What holds for 0, and for the next number of each it holds for, holds for all.
LEMMA SetInduction ==
    ASSUME NEW S, 0 \in S, \A n \in Nat : n \in S => n + 1 \in S
    PROVE  Nat \subseteq S
<1> SUFFICES ASSUME NEW k \in Nat, k \notin S PROVE FALSE
  OBVIOUS
<1>1. PICK n \in Nat \ S : \A m \in Nat \ S : n <= m
  BY NatLeast
<1>2. n # 0 /\ n - 1 \in Nat /\ n - 1 + 1 = n
  BY <1>1
<1>3. n - 1 \in S
  BY <1>1, <1>2
<1> QED
  BY <1>1, <1>2, <1>3

LEMMA HasMax ==
    ASSUME NEW n \in Nat, NEW S \in SUBSET (0 .. n), S # {}
    PROVE  Max(S) \in S /\ \A m \in S : m <= Max(S)
<1> DEFINE T == {n - m : m \in S}
<1>0. \A m \in S : m \in Nat /\ m <= n /\ n - m \in Nat
  OBVIOUS
<1>1. T \subseteq Nat /\ T # {}
  BY <1>0
<1>2. PICK l \in T : \A t \in T : l <= t
  <2> HIDE DEF T
  <2> QED BY <1>1, NatLeast
<1>3. PICK m \in S : l = n - m
  BY <1>2
<1>4. ASSUME NEW x \in S
      PROVE  m >= x
  <2>1. n - x \in T
    OBVIOUS
  <2>2. n - m <= n - x
    BY <1>2, <1>3, <2>1
  <2> QED BY <1>0, <2>2
<1>5. \E x \in S : \A y \in S : x >= y
  BY <1>4
<1> QED BY <1>5 DEF Max

LEMMA LastIndex ==
    ASSUME NEW S, NEW s \in Seq(S), NEW v
    PROVE  /\ LastIndexOf(s, v) \in {0} \cup DOMAIN s
           /\ LastIndexOf(s, v) = 0 => \A i \in DOMAIN s : s[i] # v
           /\ LastIndexOf(s, v) # 0 => s[LastIndexOf(s, v)] = v
<1> DEFINE T == {Null} \cup {i \in DOMAIN s : s[i] = v}
           m == Max(T)
<1>1. Len(s) \in Nat /\ DOMAIN s = 1 .. Len(s)
  BY LenProperties
<1>2. T \in SUBSET (0 .. Len(s)) /\ T # {}
  BY <1>1 DEF Null
<1> HIDE DEF T
<1>3. m \in T /\ \A i \in T : i <= m
  BY <1>1, <1>2, HasMax
<1> HIDE DEF m
<1>4. LastIndexOf(s, v) = m
  BY DEF LastIndexOf, m, T
<1>5. m \in {0} \cup DOMAIN s
  BY <1>3 DEF T, Null
<1>6. ASSUME m = 0, NEW i \in DOMAIN s
      PROVE  s[i] # v
  <2>1. i \notin T
    BY <1>1, <1>3, <1>6
  <2> QED BY <2>1 DEF T
<1>7. m # 0 => s[m] = v
  BY <1>3 DEF T, Null
<1> QED BY <1>4, <1>5, <1>6, <1>7

\* The original index of a value is one where the original array holds it, and
\* there is one at home, or once elements moved and the value is not assigned.
LEMMA BaseIndexIs ==
    ASSUME NEW w \in World, NEW v, NEW i \in Nat \ {0}, v # Absent
    PROVE  /\ BaseIndex(w, v, i) # Null =>
                /\ BaseIndex(w, v, i) \in DOMAIN w.original
                /\ w.original[BaseIndex(w, v, i)] = v
           /\ BaseIndex(w, v, i) # Null <=>
                \/ At(w.original, i) = v
                \/ /\ w.relocated /\ i \notin w.assigned
                   /\ v \in Range(w.original)
<1>0. w.original \in Seq(Value)
  BY DEF World
<1> DEFINE l == LastIndexOf(w.original, v)
<1>1. /\ l \in {0} \cup DOMAIN w.original
      /\ l = 0 => \A j \in DOMAIN w.original : w.original[j] # v
      /\ l # 0 => w.original[l] = v
  BY <1>0, LastIndex
<1>2. l # 0 <=> v \in Range(w.original)
  BY <1>1 DEF Range
<1> HIDE DEF l
<1>3. CASE At(w.original, i) = v
  <2>1. BaseIndex(w, v, i) = i
    BY <1>3 DEF BaseIndex
  <2>2. i \in DOMAIN w.original /\ w.original[i] = v
    BY <1>3 DEF At
  <2> QED BY <1>3, <2>1, <2>2 DEF Null
<1>4. CASE At(w.original, i) # v /\ w.relocated /\ i \notin w.assigned
  <2>1. BaseIndex(w, v, i) = l
    BY <1>4 DEF BaseIndex, l
  <2> QED BY <1>1, <1>2, <1>4, <2>1 DEF Null
<1>5. CASE At(w.original, i) # v /\ ~(w.relocated /\ i \notin w.assigned)
  <2>1. BaseIndex(w, v, i) = Null
    BY <1>5 DEF BaseIndex
  <2> QED BY <1>5, <2>1
<1> QED BY <1>3, <1>4, <1>5

-----------------------------------------------------------------------------
(***************************************************************************)
(* Worlds, and what the helpers of the traps leave alone.                  *)
(***************************************************************************)

LEMMA WorldParts ==
    ASSUME NEW w \in World
    PROVE  /\ w.original \in Seq(Value) /\ w.array \in Seq(Value)
           /\ w.copied \in BOOLEAN /\ w.operated \in BOOLEAN /\ w.length \in BOOLEAN
           /\ w.assigned \in SUBSET (Nat \ {0}) /\ w.children \in SUBSET (Nat \X Nat)
           /\ w.relocated \in BOOLEAN /\ w.from \in Nat /\ w.to \in Nat
           /\ w.dense \in Cache /\ w.inert \in Cache
           /\ w.heap \in Seq(Value) /\ w.drafts \in Seq(ElementDraft)
           /\ w.tasks \in SUBSET [at : Nat, value : Value]
BY DEF World

LEMMA Values ==
    /\ Absent \in Value /\ Undefined \in Value /\ Absent # Undefined
    /\ ~IsRef(Absent) /\ ~IsRef(Undefined)
    /\ \A n \in Nat : /\ Draft(n) \in Value /\ Obj(n) \in Value /\ Prim(n) \in Value
                      /\ IsDraft(Draft(n)) /\ ~IsObj(Draft(n)) /\ Draft(n).id = n
                      /\ IsObj(Obj(n)) /\ ~IsDraft(Obj(n)) /\ Obj(n).id = n
                      /\ ~IsRef(Prim(n)) /\ Prim(n) # Absent
                      /\ Draft(n) # Absent /\ Obj(n) # Absent
    /\ \A v \in Value : /\ v.id \in Nat
                        /\ IsDraft(v) => (v = Draft(v.id) /\ ~IsObj(v))
                        /\ IsObj(v) => (v = Obj(v.id) /\ ~IsDraft(v))
                        /\ v.kind # "base"
BY DEF Value, Absent, Undefined, Prim, Obj, Draft, IsRef, IsObj, IsDraft

\* What marking a value for finalization leaves alone, and what it adds.
MarkedFrom(w, u, i, v) ==
    /\ u \in World /\ Grows(w, u)
    /\ u.original = w.original /\ u.array = w.array /\ u.copied = w.copied
    /\ u.operated = w.operated /\ u.assigned = w.assigned
    /\ u.length = w.length /\ u.children = w.children
    /\ u.relocated = w.relocated
    /\ u.dense = w.dense /\ u.inert = w.inert /\ u.heap = w.heap
    /\ Len(u.drafts) = Len(w.drafts) /\ DOMAIN u.drafts = DOMAIN w.drafts
    /\ IsDraft(v) => i \in u.drafts[v.id].callbacks
    /\ IsObj(v) /\ v \notin Range(w.original) => [at |-> i, value |-> v] \in u.tasks

LEMMA DraftIs ==
    ASSUME NEW n \in Nat
    PROVE  /\ Draft(n) \in Value /\ IsDraft(Draft(n)) /\ ~IsObj(Draft(n))
           /\ Draft(n).id = n /\ Draft(n) # Absent /\ IsRef(Draft(n))
BY DEF Value, Absent, Draft, IsObj, IsDraft, IsRef

LEMMA ObjIs ==
    ASSUME NEW n \in Nat
    PROVE  /\ Obj(n) \in Value /\ IsObj(Obj(n)) /\ ~IsDraft(Obj(n))
           /\ Obj(n).id = n /\ Obj(n) # Absent /\ IsRef(Obj(n))
BY DEF Value, Absent, Obj, IsObj, IsDraft, IsRef

LEMMA ValueIs ==
    ASSUME NEW v \in Value
    PROVE  /\ v.id \in Nat
           /\ IsDraft(v) => (v = Draft(v.id) /\ ~IsObj(v))
           /\ IsObj(v) => (v = Obj(v.id) /\ ~IsDraft(v))
           /\ v.kind # "base" /\ (v = Absent => ~IsRef(v))
BY DEF Value, Draft, Obj, IsRef, IsObj, IsDraft, Absent

LEMMA MarkFinalizationFields ==
    ASSUME NEW w \in World, NEW i \in Nat, NEW v \in Value,
           IsDraft(v) => v.id \in DOMAIN w.drafts,
           NEW u, u = MarkFinalization(w, i, v)
    PROVE  MarkedFrom(w, u, i, v)
<1>0. /\ w.drafts \in Seq(ElementDraft) /\ w.tasks \in SUBSET [at : Nat, value : Value]
  BY WorldParts
<1>1. CASE IsDraft(v)
  <2> DEFINE n == [w.drafts[v.id] EXCEPT !.callbacks = @ \cup {i}]
             ds == [w.drafts EXCEPT ![v.id] = n]
  <2>0. ~IsObj(v)
    BY <1>1 DEF IsDraft, IsObj
  <2>1. u = [w EXCEPT !.drafts = ds]
    <3>1. u = [w EXCEPT !.drafts[v.id].callbacks = @ \cup {i}]
      BY <1>1, <2>0 DEF MarkFinalization
    <3> QED BY <3>1 DEF World
  <2>2. w.drafts[v.id] \in ElementDraft
    BY <1>0, <1>1, ElementOfSeq
  <2>3. /\ n \in ElementDraft
        /\ n.original = w.drafts[v.id].original /\ n.key = w.drafts[v.id].key
        /\ n.copy = w.drafts[v.id].copy /\ n.operated = w.drafts[v.id].operated
        /\ n.callbacks = w.drafts[v.id].callbacks \cup {i}
    BY <2>2 DEF ElementDraft
  <2> HIDE DEF n
  <2>4. /\ ds \in Seq(ElementDraft) /\ Len(ds) = Len(w.drafts)
        /\ DOMAIN ds = DOMAIN w.drafts
        /\ \A d \in DOMAIN w.drafts : ds[d] = IF d = v.id THEN n ELSE w.drafts[d]
    BY <1>0, <1>1, <2>3
  <2> HIDE DEF ds
  <2>6. u \in World
    BY <2>1, <2>4 DEF World
  <2>7. u.drafts = ds /\ u.tasks = w.tasks
    BY <2>1 DEF World
  <2>8. /\ u.original = w.original /\ u.array = w.array /\ u.copied = w.copied
        /\ u.operated = w.operated /\ u.assigned = w.assigned
        /\ u.length = w.length /\ u.children = w.children
        /\ u.relocated = w.relocated /\ u.from = w.from /\ u.to = w.to
        /\ u.dense = w.dense /\ u.inert = w.inert /\ u.heap = w.heap
    BY <2>1 DEF World
  <2>9. \A d \in DOMAIN w.drafts :
           /\ u.drafts[d].original = w.drafts[d].original
           /\ u.drafts[d].key = w.drafts[d].key
           /\ u.drafts[d].copy = w.drafts[d].copy
           /\ u.drafts[d].operated = w.drafts[d].operated
           /\ w.drafts[d].callbacks \subseteq u.drafts[d].callbacks
    BY <2>3, <2>4, <2>7
  <2>10. Len(w.drafts) <= Len(u.drafts) /\ DOMAIN u.drafts = DOMAIN w.drafts
    BY <1>0, <2>4, <2>7, LenProperties
  <2>11. Grows(w, u)
    BY <2>7, <2>8, <2>9, <2>10 DEF Grows
  <2> QED BY <1>1, <2>0, <2>3, <2>4, <2>6, <2>7, <2>8, <2>11 DEF MarkedFrom
<1>2. CASE IsObj(v) /\ v \notin Range(w.original)
  <2> DEFINE t == [at |-> i, value |-> v]
             ts == w.tasks \cup {t}
  <2>0. ~IsDraft(v)
    BY <1>2 DEF IsDraft, IsObj
  <2>1. u = [w EXCEPT !.tasks = ts]
    BY <1>2, <2>0 DEF MarkFinalization
  <2>2. ts \in SUBSET [at : Nat, value : Value] /\ t \in ts
    BY <1>0
  <2> HIDE DEF ts
  <2>3. u \in World
    BY <2>1, <2>2 DEF World
  <2>4. /\ u.original = w.original /\ u.array = w.array /\ u.copied = w.copied
        /\ u.operated = w.operated /\ u.assigned = w.assigned
        /\ u.length = w.length /\ u.children = w.children
        /\ u.relocated = w.relocated /\ u.from = w.from /\ u.to = w.to
        /\ u.dense = w.dense /\ u.inert = w.inert /\ u.heap = w.heap
        /\ u.drafts = w.drafts /\ u.tasks = ts
    BY <2>1 DEF World
  <2>5. w.tasks \subseteq ts
    BY DEF ts
  <2>6. Len(w.drafts) \in Nat
    BY <1>0, LenProperties
  <2>7. Grows(w, u)
    BY <2>4, <2>5, <2>6 DEF Grows
  <2> QED BY <2>0, <2>2, <2>3, <2>4, <2>7 DEF MarkedFrom
<1>3. CASE ~IsDraft(v) /\ ~(IsObj(v) /\ v \notin Range(w.original))
  <2>1. u = w
    BY <1>3 DEF MarkFinalization
  <2>2. Len(w.drafts) \in Nat
    BY <1>0, LenProperties
  <2>3. Grows(w, u)
    BY <2>1, <2>2 DEF Grows
  <2> QED BY <1>3, <2>1, <2>3 DEF MarkedFrom
<1> QED BY <1>1, <1>2, <1>3

RangedFrom(w, u) ==
    /\ u \in World /\ u.relocated
    /\ u.original = w.original /\ u.array = w.array /\ u.copied = w.copied
    /\ u.operated = w.operated /\ u.assigned = w.assigned
    /\ u.length = w.length /\ u.children = w.children
    /\ u.dense = w.dense /\ u.inert = w.inert /\ u.heap = w.heap
    /\ u.drafts = w.drafts /\ u.tasks = w.tasks

LEMMA MarkRangeFields ==
    ASSUME NEW w \in World, NEW from \in Nat, NEW to \in Nat,
           NEW u, u = MarkRange(w, from, to)
    PROVE  RangedFrom(w, u)
<1> DEFINE f == IF w.to >= w.from THEN Min({w.from, from}) ELSE from
           t == IF w.to >= w.from THEN Max({w.to, to}) ELSE to
<1>0. w.from \in Nat /\ w.to \in Nat
  BY WorldParts
<1>a. /\ Min({w.from, from}) \in {w.from, from}
      /\ Max({w.to, to}) \in {w.to, to}
  BY <1>0, MaxAmong
<1>1. f \in Nat /\ t \in Nat
  BY <1>0, <1>a
<1>2. u = [w EXCEPT !.from = f, !.to = t, !.relocated = TRUE]
  BY DEF MarkRange
<1> HIDE DEF f, t
<1> QED BY <1>1, <1>2 DEF World, RangedFrom

\* What a change of length leaves alone.
ResizedFrom(w, u) ==
    /\ u \in World /\ u.dense = "unknown"
    /\ w.relocated => u.relocated
    /\ u.original = w.original /\ u.array = w.array /\ u.copied = w.copied
    /\ u.operated = w.operated /\ u.assigned = w.assigned
    /\ u.children = w.children
    /\ u.inert = w.inert /\ u.heap = w.heap
    /\ u.drafts = w.drafts /\ u.tasks = w.tasks

LEMMA ResizedFields ==
    ASSUME NEW w \in World, NEW n \in Nat, NEW u, u = Resized(w, n)
    PROVE  ResizedFrom(w, u)
<1> DEFINE a   == Len(w.array)
           b   == Len(w.original)
           end == Min({a, b})
           w1  == [w EXCEPT !.dense = "unknown"]
<1>0. a \in Nat /\ b \in Nat
  BY WorldParts, LenProperties
<1>1. end \in Nat
  <2> HIDE DEF a, b
  <2>0. a \in Int /\ b \in Int
    BY <1>0
  <2>1. Min({a, b}) \in {a, b}
    BY <2>0, MaxAmong
  <2> QED BY <1>0, <2>1
<1>2. /\ w1 \in World /\ w1.dense = "unknown" /\ w1.relocated = w.relocated
      /\ w1.original = w.original /\ w1.array = w.array /\ w1.copied = w.copied
      /\ w1.operated = w.operated /\ w1.assigned = w.assigned
      /\ w1.length = w.length /\ w1.children = w.children
      /\ w1.inert = w.inert /\ w1.heap = w.heap
      /\ w1.drafts = w.drafts /\ w1.tasks = w.tasks
  BY DEF World, Cache
<1>3. u = IF n < end THEN MarkRange(w1, n + 1, end) ELSE w1
  BY DEF Resized
<1> HIDE DEF end, w1
<1>4. CASE n < end
  <2>1. PICK m \in Nat : m = n + 1
    OBVIOUS
  <2>2. u = MarkRange(w1, m, end)
    BY <1>3, <1>4, <2>1
  <2>3. RangedFrom(w1, u)
    BY <1>1, <1>2, <2>2, MarkRangeFields
  <2> QED BY <1>2, <2>3 DEF RangedFrom, ResizedFrom
<1>5. CASE ~(n < end)
  BY <1>2, <1>3, <1>5 DEF ResizedFrom
<1> QED BY <1>4, <1>5

-----------------------------------------------------------------------------
(***************************************************************************)
(* What follows from growing.                                              *)
(***************************************************************************)

LEMMA GrowsSame ==
    ASSUME NEW w \in World, NEW u \in World,
           u.heap = w.heap, u.original = w.original, u.drafts = w.drafts,
           u.tasks = w.tasks, w.operated => u.operated, w.relocated => u.relocated
    PROVE  Grows(w, u)
<1>1. w.drafts \in Seq(ElementDraft) /\ Len(w.drafts) \in Nat
  BY WorldParts, LenProperties
<1> QED BY <1>1 DEF Grows

LEMMA GrowsTwice ==
    ASSUME NEW w \in World, NEW u \in World, NEW t \in World,
           Grows(w, u), Grows(u, t)
    PROVE  Grows(w, t)
<1>1. /\ Len(w.drafts) \in Nat /\ Len(u.drafts) \in Nat /\ Len(t.drafts) \in Nat
      /\ DOMAIN w.drafts = 1 .. Len(w.drafts) /\ DOMAIN u.drafts = 1 .. Len(u.drafts)
      /\ DOMAIN t.drafts = 1 .. Len(t.drafts)
  BY WorldParts, LenProperties
<1>2. DOMAIN w.drafts \subseteq DOMAIN u.drafts /\ DOMAIN u.drafts \subseteq DOMAIN t.drafts
  BY <1>1 DEF Grows
<1>3. ASSUME NEW d \in DOMAIN w.drafts
      PROVE  /\ t.drafts[d].original = w.drafts[d].original
             /\ t.drafts[d].key = w.drafts[d].key
             /\ t.drafts[d].copy = w.drafts[d].copy
             /\ t.drafts[d].operated = w.drafts[d].operated
             /\ w.drafts[d].callbacks \subseteq t.drafts[d].callbacks
  <2>1. d \in DOMAIN u.drafts
    BY <1>2
  <2> QED BY <2>1 DEF Grows
<1>4. ASSUME NEW d \in DOMAIN t.drafts \ DOMAIN w.drafts
      PROVE  /\ t.drafts[d].key \in DOMAIN base.array
             /\ base.array[t.drafts[d].key] = Obj(t.drafts[d].original)
             /\ t.drafts[d].copy = Null /\ ~t.drafts[d].operated
  <2>1. CASE d \in DOMAIN u.drafts
    <3>1. d \in DOMAIN u.drafts \ DOMAIN w.drafts
      BY <2>1
    <3> QED BY <2>1, <3>1 DEF Grows
  <2>2. CASE d \notin DOMAIN u.drafts
    BY <2>2 DEF Grows
  <2> QED BY <2>1, <2>2
<1>5. /\ t.heap = w.heap /\ t.original = w.original
      /\ Len(w.drafts) <= Len(t.drafts) /\ w.tasks \subseteq t.tasks
      /\ (w.operated => t.operated) /\ (w.relocated => t.relocated)
  BY <1>1 DEF Grows
<1> QED BY <1>3, <1>4, <1>5 DEF Grows

LEMMA GrowsDomain ==
    ASSUME NEW w \in World, NEW u \in World, Grows(w, u)
    PROVE  DOMAIN w.drafts \subseteq DOMAIN u.drafts
<1>1. /\ Len(w.drafts) \in Nat /\ Len(u.drafts) \in Nat
      /\ DOMAIN w.drafts = 1 .. Len(w.drafts) /\ DOMAIN u.drafts = 1 .. Len(u.drafts)
  BY WorldParts, LenProperties
<1> QED BY <1>1 DEF Grows

\* The base, the drafts and the heap stay in order.
LEMMA GrowsKeeps ==
    ASSUME NEW w \in World, NEW u \in World, Grows(w, u),
           BaseKept(w), DraftsApart(w), HeapInOrder(w)
    PROVE  BaseKept(u) /\ DraftsApart(u) /\ HeapInOrder(u)
<1>0. DOMAIN w.drafts \subseteq DOMAIN u.drafts
  BY GrowsDomain
<1>1. BaseKept(u)
  BY DEF BaseKept, Grows
<1>2. DraftsApart(u)
  BY <1>0 DEF DraftsApart, Grows
<1>3. HeapInOrder(u)
  <2>1. ASSUME NEW d \in DOMAIN u.drafts
        PROVE  /\ u.drafts[d].operated => u.drafts[d].copy # Null
               /\ u.drafts[d].copy # Null => ~IsDraft(u.heap[u.drafts[d].copy])
    <3>1. CASE d \in DOMAIN w.drafts
      BY <3>1 DEF HeapInOrder, Grows
    <3>2. CASE d \notin DOMAIN w.drafts
      BY <3>2 DEF Grows
    <3> QED BY <3>1, <3>2
  <2>2. \A a \in DOMAIN u.heap :
           IsDraft(u.heap[a]) => u.heap[a].id \in DOMAIN u.drafts
    BY <1>0 DEF HeapInOrder, Grows
  <2> QED BY <2>1, <2>2 DEF HeapInOrder
<1> QED BY <1>1, <1>2, <1>3

\* What fits at an index still does, and reads the same, if the records of
\* that index stay.
LEMMA StaysFit ==
    ASSUME NEW w \in World, NEW u \in World, Grows(w, u),
           NEW i \in Index, NEW v \in Value, Fits(w, i, v),
           i \in u.assigned <=> i \in w.assigned,
           IsDraft(v) /\ <<i, v.id>> \in w.children => <<i, v.id>> \in u.children
    PROVE  Fits(u, i, v) /\ SlotOf(u, i, v) = SlotOf(w, i, v)
<1>0. DOMAIN w.drafts \subseteq DOMAIN u.drafts
  BY GrowsDomain
<1>1. ASSUME IsDraft(v)
      PROVE  /\ v.id \in DOMAIN u.drafts
             /\ i = u.drafts[v.id].key \/ i \in u.drafts[v.id].callbacks
             /\ <<i, v.id>> \in u.children \/ i \in u.assigned
  BY <1>0, <1>1 DEF Fits, Grows
<1>2. ASSUME IsObj(v)
      PROVE  /\ v.id \in DOMAIN u.heap
             /\ i \in u.assigned => v # At(u.original, i)
             /\ ~u.relocated /\ v # At(u.original, i) => i \in u.assigned
             /\ v \notin Range(u.original) =>
                   i \in u.assigned /\ [at |-> i, value |-> v] \in u.tasks
  BY <1>2 DEF Fits, Grows
<1>3. Fits(u, i, v)
  BY <1>1, <1>2 DEF Fits
<1>4. ASSUME IsObj(v)
      PROVE  BaseIndex(u, v, i) # Null <=> BaseIndex(w, v, i) # Null
  <2>0. v # Absent
    BY <1>4, Values DEF IsRef
  <2>1. BaseIndex(w, v, i) # Null <=>
                \/ At(w.original, i) = v
                \/ /\ w.relocated /\ i \notin w.assigned
                   /\ v \in Range(w.original)
    BY <2>0, BaseIndexIs DEF Index
  <2>2. BaseIndex(u, v, i) # Null <=>
                \/ At(u.original, i) = v
                \/ /\ u.relocated /\ i \notin u.assigned
                   /\ v \in Range(u.original)
    BY <2>0, BaseIndexIs DEF Index
  <2> QED BY <1>4, <2>1, <2>2 DEF Grows, Fits
<1>5. SlotOf(u, i, v) = SlotOf(w, i, v)
  BY <1>4 DEF SlotOf
<1> QED BY <1>3, <1>5

\* What SlotOf is, in terms of the records.
LEMMA SlotOfIs ==
    ASSUME NEW w \in World, NEW i \in Index, NEW v \in Value
    PROVE  /\ ~IsObj(v) => SlotOf(w, i, v) = v
           /\ IsObj(v) => SlotOf(w, i, v) =
                IF \/ At(w.original, i) = v
                   \/ w.relocated /\ i \notin w.assigned /\ v \in Range(w.original)
                THEN Base(v.id) ELSE v
<1>1. CASE IsObj(v)
  <2>0. v # Absent
    BY <1>1, Values DEF IsRef
  <2>1. BaseIndex(w, v, i) # Null <=>
                \/ At(w.original, i) = v
                \/ /\ w.relocated /\ i \notin w.assigned
                   /\ v \in Range(w.original)
    BY <2>0, BaseIndexIs DEF Index
  <2> QED BY <1>1, <2>1 DEF SlotOf
<1>2. CASE ~IsObj(v)
  BY <1>2 DEF SlotOf
<1> QED BY <1>1, <1>2

-----------------------------------------------------------------------------
(***************************************************************************)
(* The traps.                                                              *)
(***************************************************************************)

LEMMA AtIs ==
    ASSUME NEW s \in Seq(Value), NEW i \in Nat
    PROVE  /\ At(s, i) \in Value
           /\ i \in DOMAIN s => At(s, i) = s[i]
           /\ i \notin DOMAIN s => At(s, i) = Absent
           /\ Own(s, i) => i \in DOMAIN s
           /\ i \in DOMAIN s <=> i \in 1 .. Len(s)
<1>1. DOMAIN s = 1 .. Len(s)
  BY LenProperties
<1>2. CASE i \in DOMAIN s
  <2>1. s[i] \in Value
    BY <1>2, ElementOfSeq
  <2> QED BY <1>1, <1>2, <2>1 DEF At
<1>3. CASE i \notin DOMAIN s
  BY <1>1, <1>3, Values DEF At, Own
<1> QED BY <1>2, <1>3

LEMMA WriteIs ==
    ASSUME NEW s \in Seq(Value), NEW i \in Index, NEW v \in Value
    PROVE  /\ Write(s, i, v) \in Seq(Value)
           /\ Len(Write(s, i, v)) = IF i > Len(s) THEN i ELSE Len(s)
<1> DEFINE n == Len(s)
           m == Max({n, i})
<1>1. n \in Nat /\ i \in Int /\ n \in Int /\ DOMAIN s = 1 .. n /\ i \in Nat /\ i # 0
  BY LenProperties DEF Index
<1>2. m = IF i > n THEN i ELSE n
  <2> HIDE DEF n
  <2>1. Max({n, i}) = IF n >= i THEN n ELSE i
    BY <1>1, MaxOfTwo
  <2> QED BY <1>1, <2>1
<1>3. m \in Nat
  BY <1>1, <1>2
<1>4. Write(s, i, v) = [j \in 1 .. m |-> IF j = i THEN v ELSE At(s, j)]
  BY DEF Write
<1> HIDE DEF n, m
<1>5. \A j \in 1 .. m : At(s, j) \in Value
  BY <1>3, AtIs
<1>6. /\ Write(s, i, v) \in Seq(Value)
      /\ Len(Write(s, i, v)) = m /\ DOMAIN Write(s, i, v) = 1 .. m
  BY <1>3, <1>4, <1>5
<1> QED BY <1>2, <1>6 DEF n

LEMMA WriteAt ==
    ASSUME NEW s \in Seq(Value), NEW i \in Index, NEW v \in Value, NEW j \in Index
    PROVE  At(Write(s, i, v), j) = IF j = i THEN v ELSE At(s, j)
<1> DEFINE m == IF i > Len(s) THEN i ELSE Len(s)
           t == Write(s, i, v)
<1>1. Len(s) \in Nat /\ DOMAIN s = 1 .. Len(s) /\ i \in Nat /\ j \in Nat /\ j # 0
  BY LenProperties DEF Index
<1>2. t \in Seq(Value) /\ Len(t) = m
  BY WriteIs
<1>3. DOMAIN t = 1 .. m
  BY <1>2, LenProperties
<1>4. t = [k \in DOMAIN t |-> IF k = i THEN v ELSE At(s, k)]
  BY DEF Write
<1> HIDE DEF t
<1>5. CASE j \in 1 .. m
  BY <1>3, <1>4, <1>5 DEF At, t
<1>6. CASE j \notin 1 .. m
  <2>1. j # i /\ j \notin DOMAIN s
    BY <1>1, <1>6 DEF Index
  <2> QED BY <1>3, <1>6, <2>1 DEF At, t
<1> QED BY <1>5, <1>6

LEMMA ResizeIs ==
    ASSUME NEW s \in Seq(Value), NEW n \in Nat
    PROVE  Resize(s, n) \in Seq(Value) /\ Len(Resize(s, n)) = n
<1>1. \A j \in 1 .. n : At(s, j) \in Value
  BY AtIs
<1>2. Resize(s, n) = [j \in 1 .. n |-> At(s, j)]
  BY DEF Resize
<1>3. Resize(s, n) \in Seq(Value) /\ Len(Resize(s, n)) = n /\ DOMAIN Resize(s, n) = 1 .. n
  BY <1>1, <1>2
<1> QED BY <1>3

LEMMA ResizeAt ==
    ASSUME NEW s \in Seq(Value), NEW n \in Nat, NEW j \in Index
    PROVE  At(Resize(s, n), j) = IF j <= n THEN At(s, j) ELSE Absent
<1>1. DOMAIN Resize(s, n) = 1 .. n /\ \A k \in 1 .. n : Resize(s, n)[k] = At(s, k)
  BY DEF Resize
<1>2. j \in 1 .. n <=> j <= n
  BY DEF Index
<1> QED BY <1>1, <1>2 DEF At

LEMMA PutIs ==
    ASSUME NEW s \in Seq(Value), NEW i \in DOMAIN s, NEW v \in Value,
           NEW t, t = [s EXCEPT ![i] = v]
    PROVE  t \in Seq(Value) /\ Len(t) = Len(s) /\ DOMAIN t = DOMAIN s
BY LenProperties

LEMMA PutAt ==
    ASSUME NEW s \in Seq(Value), NEW i \in DOMAIN s, NEW v \in Value,
           NEW t, t = [s EXCEPT ![i] = v], NEW j \in Index
    PROVE  At(t, j) = IF j = i THEN v ELSE At(s, j)
<1>1. DOMAIN t = DOMAIN s
  BY PutIs
<1>2. t[i] = v
  OBVIOUS
<1>3. CASE j \in DOMAIN s
  <2>1. j # i => t[j] = s[j]
    BY <1>3
  <2> QED BY <1>1, <1>2, <1>3, <2>1 DEF At
<1>4. CASE j \notin DOMAIN s
  BY <1>1, <1>4 DEF At
<1> QED BY <1>3, <1>4

LEMMA SoundParts ==
    ASSUME NEW w, Sound(w)
    PROVE  /\ w \in World /\ BaseKept(w) /\ DraftsApart(w) /\ HeapInOrder(w)
           /\ AllFit(w) /\ CachesRight(w) /\ Untouched(w)
BY DEF Sound

\* The original holds no drafts.
LEMMA OriginalIs ==
    ASSUME BaseOK, NEW w, Sound(w), NEW i \in Nat
    PROVE  /\ ~IsDraft(At(w.original, i))
           /\ At(w.original, i) \in Value
           /\ w.original = base.array /\ w.original \in Seq(Value)
<1>1. w.original = base.array /\ base.array \in Seq(Value)
  BY SoundParts DEF BaseKept, BaseOK
<1>2. CASE i \in DOMAIN base.array
  <2>1. base.array[i] \in Range(base.array)
    BY <1>2 DEF Range
  <2> QED BY <1>1, <1>2, <2>1, AtIs DEF BaseOK
<1>3. CASE i \notin DOMAIN base.array
  BY <1>1, <1>3, AtIs, Values DEF IsRef
<1> QED BY <1>2, <1>3

\* A draft of the element at i takes its place.
Drafting(w, i, key) ==
    LET d == Len(w.drafts) + 1
    IN  [CreateDraft(EnsureShallowCopy(w), w.array[i].id, key)
            EXCEPT !.array[i] = Draft(d),
                   !.children = {c \in @ : c[1] # i} \cup {<<i, d>>}]

\* u is w with a copy and one more draft.
CreatedFrom(w, u) ==
    /\ u \in World /\ u.copied
    /\ u.original = w.original /\ u.array = w.array
    /\ u.operated = w.operated /\ u.assigned = w.assigned
    /\ u.length = w.length /\ u.children = w.children
    /\ u.relocated = w.relocated
    /\ u.dense = w.dense /\ u.inert = w.inert /\ u.heap = w.heap
    /\ u.tasks = w.tasks
    /\ Len(w.drafts) \in Nat /\ DOMAIN w.drafts = 1 .. Len(w.drafts)
    /\ Len(u.drafts) = Len(w.drafts) + 1 /\ DOMAIN u.drafts = 1 .. Len(u.drafts)

LEMMA CreateDraftFields ==
    ASSUME NEW w \in World, NEW a \in Nat, NEW key \in Nat,
           NEW u, u = CreateDraft(EnsureShallowCopy(w), a, key)
    PROVE  CreatedFrom(w, u)
<1> DEFINE n == [original |-> a, key |-> key, copy |-> Null, operated |-> FALSE,
                 assigned |-> FALSE, callbacks |-> {}]
           ds == Append(w.drafts, n)
<1>1. u = [w EXCEPT !.copied = TRUE, !.drafts = ds]
  BY DEF CreateDraft, EnsureShallowCopy, World
<1>2. n \in ElementDraft /\ n.original = a /\ n.key = key /\ n.copy = Null /\ ~n.operated
  BY DEF ElementDraft, Null
<1>3. w.drafts \in Seq(ElementDraft) /\ Len(w.drafts) \in Nat /\ DOMAIN w.drafts = 1 .. Len(w.drafts)
  BY WorldParts, LenProperties
<1>4. /\ ds \in Seq(ElementDraft) /\ Len(ds) = Len(w.drafts) + 1
      /\ DOMAIN ds = 1 .. Len(ds)
      /\ \A d \in 1 .. Len(w.drafts) : ds[d] = w.drafts[d]
      /\ ds[Len(w.drafts) + 1] = n
  <2> HIDE DEF n
  <2> QED BY <1>2, <1>3, AppendProperties
<1> HIDE DEF ds
<1>5. u \in World
  BY <1>1, <1>4 DEF World
<1>6. u.drafts = ds
  BY <1>1 DEF World
<1>7. /\ u.copied
      /\ u.original = w.original /\ u.array = w.array
      /\ u.operated = w.operated /\ u.assigned = w.assigned
      /\ u.length = w.length /\ u.children = w.children
      /\ u.relocated = w.relocated /\ u.from = w.from /\ u.to = w.to
      /\ u.dense = w.dense /\ u.inert = w.inert /\ u.heap = w.heap
      /\ u.tasks = w.tasks
  BY <1>1 DEF World
<1> HIDE DEF n
<1> QED BY <1>2, <1>3, <1>4, <1>5, <1>6, <1>7 DEF CreatedFrom

\* The node of a new draft.
NodeIs(u, d, a, key) ==
    /\ u.drafts[d].original = a /\ u.drafts[d].key = key
    /\ u.drafts[d].copy = Null /\ ~u.drafts[d].operated

LEMMA CreatedNode ==
    ASSUME NEW w \in World, NEW a \in Nat, NEW key \in Nat,
           NEW u, u = CreateDraft(EnsureShallowCopy(w), a, key)
    PROVE  NodeIs(u, Len(w.drafts) + 1, a, key)
<1> DEFINE n == [original |-> a, key |-> key, copy |-> Null, operated |-> FALSE,
                 assigned |-> FALSE, callbacks |-> {}]
           ds == Append(w.drafts, n)
<1>1. u = [w EXCEPT !.copied = TRUE, !.drafts = ds]
  BY DEF CreateDraft, EnsureShallowCopy, World
<1>2. n \in ElementDraft /\ n.original = a /\ n.key = key /\ n.copy = Null /\ ~n.operated
  BY DEF ElementDraft, Null
<1>3. w.drafts \in Seq(ElementDraft) /\ Len(w.drafts) \in Nat /\ DOMAIN w.drafts = 1 .. Len(w.drafts)
  BY WorldParts, LenProperties
<1>4. /\ ds \in Seq(ElementDraft) /\ Len(ds) = Len(w.drafts) + 1
      /\ DOMAIN ds = 1 .. Len(ds)
      /\ \A d \in 1 .. Len(w.drafts) : ds[d] = w.drafts[d]
      /\ ds[Len(w.drafts) + 1] = n
  <2> HIDE DEF n
  <2> QED BY <1>2, <1>3, AppendProperties
<1> HIDE DEF ds
<1>5. u \in World
  BY <1>1, <1>4 DEF World
<1>6. u.drafts = ds
  BY <1>1 DEF World
<1> HIDE DEF n
<1> QED BY <1>2, <1>3, <1>4, <1>6 DEF NodeIs

LEMMA CreatedBefore ==
    ASSUME NEW w \in World, NEW a \in Nat, NEW key \in Nat,
           NEW u, u = CreateDraft(EnsureShallowCopy(w), a, key), NEW d \in DOMAIN w.drafts
    PROVE  u.drafts[d] = w.drafts[d]
<1> DEFINE n == [original |-> a, key |-> key, copy |-> Null, operated |-> FALSE,
                 assigned |-> FALSE, callbacks |-> {}]
           ds == Append(w.drafts, n)
<1>1. u = [w EXCEPT !.copied = TRUE, !.drafts = ds]
  BY DEF CreateDraft, EnsureShallowCopy, World
<1>2. n \in ElementDraft /\ n.original = a /\ n.key = key /\ n.copy = Null /\ ~n.operated
  BY DEF ElementDraft, Null
<1>3. w.drafts \in Seq(ElementDraft) /\ Len(w.drafts) \in Nat /\ DOMAIN w.drafts = 1 .. Len(w.drafts)
  BY WorldParts, LenProperties
<1>4. /\ ds \in Seq(ElementDraft) /\ Len(ds) = Len(w.drafts) + 1
      /\ DOMAIN ds = 1 .. Len(ds)
      /\ \A e \in 1 .. Len(w.drafts) : ds[e] = w.drafts[e]
      /\ ds[Len(w.drafts) + 1] = n
  <2> HIDE DEF n
  <2> QED BY <1>2, <1>3, AppendProperties
<1> HIDE DEF ds
<1>6. u.drafts = ds
  BY <1>1 DEF World
<1> QED BY <1>3, <1>4, <1>6

LEMMA CreatedGrows ==
    ASSUME NEW w \in World, NEW a \in Nat, NEW key \in Nat,
           key \in DOMAIN base.array, base.array[key] = Obj(a),
           NEW u, u = CreateDraft(EnsureShallowCopy(w), a, key)
    PROVE  Grows(w, u)
<1>0. CreatedFrom(w, u)
  BY CreateDraftFields
<1>1. /\ u.heap = w.heap /\ u.original = w.original /\ u.tasks = w.tasks
      /\ u.operated = w.operated /\ u.relocated = w.relocated
      /\ Len(w.drafts) \in Nat /\ DOMAIN w.drafts = 1 .. Len(w.drafts)
      /\ Len(u.drafts) = Len(w.drafts) + 1 /\ DOMAIN u.drafts = 1 .. Len(u.drafts)
  BY <1>0 DEF CreatedFrom
<1>2. ASSUME NEW d \in DOMAIN u.drafts \ DOMAIN w.drafts
      PROVE  /\ u.drafts[d].key \in DOMAIN base.array
             /\ base.array[u.drafts[d].key] = Obj(u.drafts[d].original)
             /\ u.drafts[d].copy = Null /\ ~u.drafts[d].operated
  <2>1. d = Len(w.drafts) + 1
    BY <1>1
  <2>2. NodeIs(u, d, a, key)
    BY <2>1, CreatedNode
  <2> QED BY <2>2 DEF NodeIs
<1>3. Len(w.drafts) <= Len(u.drafts)
  BY <1>1
<1>4. ASSUME NEW d \in DOMAIN w.drafts
      PROVE  u.drafts[d] = w.drafts[d]
  BY CreatedBefore
<1> QED BY <1>1, <1>2, <1>3, <1>4 DEF Grows

\* u is w with draft d in place of the element at i, and the nodes of c.
DraftedFrom(w, u, i, d, c) ==
    /\ u \in World /\ u.copied
    /\ u.original = w.original
    /\ u.array = [w.array EXCEPT ![i] = Draft(d)]
    /\ u.operated = w.operated /\ u.assigned = w.assigned
    /\ u.children = {n \in w.children : n[1] # i} \cup {<<i, d>>}
    /\ u.relocated = w.relocated
    /\ u.dense = w.dense /\ u.inert = w.inert /\ u.heap = w.heap
    /\ u.tasks = w.tasks /\ u.drafts = c.drafts

LEMMA DraftingFields ==
    ASSUME NEW w \in World, NEW i \in DOMAIN w.array, NEW a \in Nat,
           w.array[i] = Obj(a), NEW key \in Nat,
           NEW c, c = CreateDraft(EnsureShallowCopy(w), a, key),
           NEW u, u = Drafting(w, i, key)
    PROVE  DraftedFrom(w, u, i, Len(w.drafts) + 1, c)
<1>0. w.array[i] \in Value /\ w.array \in Seq(Value) /\ i \in Nat /\ w.array[i].id = a
  BY WorldParts, ElementOfSeq, LenProperties, Values
<1>2. CreatedFrom(w, c)
  BY CreateDraftFields
<1>c. Len(w.drafts) \in Nat
  BY WorldParts, LenProperties
<1> DEFINE d  == Len(w.drafts) + 1
           s  == [w.array EXCEPT ![i] = Draft(d)]
           cs == {n \in w.children : n[1] # i} \cup {<<i, d>>}
<1>b. d \in Nat
  BY <1>c
<1>3. u = [c EXCEPT !.array[i] = Draft(d),
                     !.children = {n \in @ : n[1] # i} \cup {<<i, d>>}]
  BY <1>0 DEF Drafting
<1>4. u = [c EXCEPT !.array = s, !.children = cs]
  BY <1>2, <1>3 DEF World, CreatedFrom
<1>5. Draft(d) \in Value
  BY <1>b, Values
<1>6. s \in Seq(Value)
  BY <1>0, <1>5
<1>7. cs \in SUBSET (Nat \X Nat)
  BY <1>0, <1>b, WorldParts
<1> HIDE DEF d, s, cs
<1>8. u \in World
  BY ZenonT(60), <1>2, <1>4, <1>6, <1>7 DEF World, CreatedFrom
<1>9. /\ u.copied = c.copied /\ u.original = c.original /\ u.array = s
      /\ u.operated = c.operated /\ u.assigned = c.assigned
      /\ u.children = cs /\ u.relocated = c.relocated
      /\ u.dense = c.dense /\ u.inert = c.inert /\ u.heap = c.heap
      /\ u.tasks = c.tasks /\ u.drafts = c.drafts
  BY <1>2, <1>4 DEF World, CreatedFrom
<1> QED BY <1>2, <1>8, <1>9 DEF s, cs, d, CreatedFrom, DraftedFrom

-----------------------------------------------------------------------------
(***************************************************************************)
(* What an operation makes of the array, as a reader sees it.              *)
(***************************************************************************)

View(w) == [i \in Index |-> SlotAt(w, i)]

\* A reader of u finds f, or drafts made since w.
Turns(w, u, f) == /\ Sound(u) /\ Grows(w, u)
                  /\ \A i \in Index : Shows(w, u, f[i], SlotAt(u, i))

LEMMA TurnsParts ==
    ASSUME NEW w, NEW u, NEW f, Turns(w, u, f)
    PROVE  Sound(u) /\ Grows(w, u)
BY DEF Turns

LEMMA ViewIs ==
    ASSUME NEW w, NEW i \in Index
    PROVE  View(w)[i] = SlotAt(w, i)
BY DEF View

LEMMA TurnsSame ==
    ASSUME NEW w, Sound(w), NEW f, \A i \in Index : f[i] = SlotAt(w, i)
    PROVE  Turns(w, w, f)
<1>1. Grows(w, w)
  BY SoundParts, GrowsSame
<1> QED BY <1>1 DEF Turns, Shows

\* An element of the base that has a draft made since shows through a third
\* world, too.
LEMMA ShowsTwice ==
    ASSUME NEW w \in World, NEW u \in World, NEW t \in World, Grows(w, u), Grows(u, t),
           NEW x, NEW y, NEW z, Shows(w, u, x, y), Shows(u, t, y, z)
    PROVE  Shows(w, t, x, z)
<1>1. DOMAIN w.drafts \subseteq DOMAIN u.drafts /\ DOMAIN u.drafts \subseteq DOMAIN t.drafts
  BY GrowsDomain
<1>2. CASE y = x
  <2>1. CASE z = y
    BY <1>2, <2>1 DEF Shows
  <2>2. CASE z # y
    <3>1. /\ y.kind = "base" /\ IsDraft(z)
          /\ z.id \in DOMAIN t.drafts \ DOMAIN u.drafts
          /\ t.drafts[z.id].original = y.id
      BY <2>2 DEF Shows
    <3> QED BY <1>1, <1>2, <3>1 DEF Shows
  <2> QED BY <2>1, <2>2
<1>3. CASE y # x
  <2>1. /\ x.kind = "base" /\ IsDraft(y)
        /\ y.id \in DOMAIN u.drafts \ DOMAIN w.drafts
        /\ u.drafts[y.id].original = x.id
    BY <1>3 DEF Shows
  <2>2. z = y
    BY <2>1 DEF Shows, IsDraft
  <2>3. t.drafts[y.id].original = u.drafts[y.id].original
    BY <2>1 DEF Grows
  <2> QED BY <1>1, <2>1, <2>2, <2>3 DEF Shows
<1> QED BY <1>2, <1>3

LEMMA TurnsTwice ==
    ASSUME NEW w \in World, NEW u \in World, NEW t \in World, NEW f, NEW g,
           Grows(w, u), Turns(u, t, g), \A i \in Index : Shows(w, u, f[i], g[i])
    PROVE  Turns(w, t, f)
<1>1. Sound(t) /\ Grows(u, t)
  BY DEF Turns
<1>2. Grows(w, t)
  BY <1>1, GrowsTwice
<1>3. ASSUME NEW i \in Index
      PROVE  Shows(w, t, f[i], SlotAt(t, i))
  <2>1. Shows(w, u, f[i], g[i]) /\ Shows(u, t, g[i], SlotAt(t, i))
    BY DEF Turns
  <2>2. PICK x, y, z : x = f[i] /\ y = g[i] /\ z = SlotAt(t, i)
    OBVIOUS
  <2>3. Shows(w, t, x, z)
    BY <1>1, <2>1, <2>2, ShowsTwice
  <2> QED BY <2>2, <2>3
<1> QED BY <1>1, <1>2, <1>3 DEF Turns

-----------------------------------------------------------------------------
(***************************************************************************)
(* The get trap.                                                           *)
(***************************************************************************)

\* What follows of a draft's node from its creation.
LEMMA NodeStays ==
    ASSUME NEW w \in World, NEW u \in World, Grows(w, u), NEW d \in DOMAIN w.drafts,
           NEW a, NEW key, NodeIs(w, d, a, key)
    PROVE  NodeIs(u, d, a, key)
BY DEF NodeIs, Grows

LEMMA DraftingGrows ==
    ASSUME BaseOK, NEW w, Sound(w), NEW i \in DOMAIN w.array, NEW a \in Nat,
           w.array[i] = Obj(a), NEW key \in Nat, key \in DOMAIN base.array,
           base.array[key] = Obj(a),
           NEW u, u = Drafting(w, i, key)
    PROVE  Grows(w, u) /\ NodeIs(u, Len(w.drafts) + 1, a, key)
           /\ Len(u.drafts) = Len(w.drafts) + 1
<1>0. w \in World /\ IsObj(w.array[i]) /\ w.array[i].id = a
  BY SoundParts, Values
<1>1. PICK c : c = CreateDraft(EnsureShallowCopy(w), a, key)
  OBVIOUS
<1>2. CreatedFrom(w, c) /\ Grows(w, c) /\ NodeIs(c, Len(w.drafts) + 1, a, key)
  BY <1>0, <1>1, CreateDraftFields, CreatedGrows, CreatedNode
<1>3. /\ u \in World /\ u.original = w.original
      /\ u.operated = w.operated /\ u.relocated = w.relocated
      /\ u.heap = w.heap /\ u.tasks = w.tasks /\ u.drafts = c.drafts
  <2>1. DraftedFrom(w, u, i, Len(w.drafts) + 1, c)
    BY <1>0, <1>1, DraftingFields
  <2> QED BY <2>1 DEF DraftedFrom
<1>4. /\ c \in World /\ c.heap = w.heap /\ c.original = w.original
      /\ c.tasks = w.tasks /\ c.operated = w.operated /\ c.relocated = w.relocated
      /\ Len(c.drafts) = Len(w.drafts) + 1
  BY <1>2 DEF CreatedFrom
<1>5. Grows(c, u)
  BY <1>3, <1>4, GrowsSame
<1>6. Grows(w, u)
  BY <1>0, <1>2, <1>3, <1>4, <1>5, GrowsTwice
<1>7. NodeIs(u, Len(w.drafts) + 1, a, key)
  BY <1>2, <1>3 DEF NodeIs
<1> QED BY <1>3, <1>4, <1>6, <1>7

\* A read drafts the element at i, if it is one of the base, and then finds no
\* element of the base there.
GotFrom(w, u, i) ==
    /\ Turns(w, u, View(w))
    /\ Len(u.array) = Len(w.array)
    /\ At(u.array, i) = SlotAt(u, i)
    /\ At(u.array, i) = Absent <=> At(w.array, i) = Absent

LEMMA GetTrapDrafts ==
    ASSUME BaseOK, NEW w, Sound(w), NEW i \in Index, Drafts(w, i),
           NEW u, u = GetTrap(w, i)
    PROVE  GotFrom(w, u, i)
<1>0. /\ w \in World /\ BaseKept(w) /\ DraftsApart(w) /\ HeapInOrder(w)
      /\ AllFit(w) /\ CachesRight(w) /\ Untouched(w)
  BY SoundParts
<1>1. /\ w.array \in Seq(Value) /\ w.original \in Seq(Value) /\ w.original = base.array
      /\ Len(w.drafts) \in Nat /\ DOMAIN w.drafts = 1 .. Len(w.drafts)
  BY <1>0, WorldParts, LenProperties DEF BaseKept
<1>2. i \in Nat /\ IsObj(At(w.array, i)) /\ BaseIndex(w, w.array[i], i) # Null
  BY DEF Drafts, Index
<1>3. i \in DOMAIN w.array /\ At(w.array, i) = w.array[i] /\ w.array[i] \in Value
  BY <1>1, <1>2, AtIs, Values DEF IsRef, Own
<1>4. PICK a \in Nat : w.array[i] = Obj(a) /\ w.array[i].id = a
  BY <1>2, <1>3, ValueIs
<1>5. PICK key \in Nat : key = BaseIndex(w, w.array[i], i) /\ key \in DOMAIN base.array
                         /\ base.array[key] = Obj(a)
  <2>1. w.array[i] # Absent
    BY <1>4, Values
  <2>2. /\ BaseIndex(w, w.array[i], i) \in DOMAIN w.original
        /\ w.original[BaseIndex(w, w.array[i], i)] = w.array[i]
    BY <1>0, <1>2, <2>1, BaseIndexIs DEF Index
  <2>3. DOMAIN w.original \subseteq Nat
    BY <1>1, LenProperties
  <2> QED BY <1>1, <1>4, <2>2, <2>3
<1>6. PICK d \in Nat : d = Len(w.drafts) + 1
  BY <1>1
<1>7. PICK t : t = Drafting(w, i, key)
  OBVIOUS
<1>8. u = IF key = i THEN t ELSE MarkFinalization(t, i, Draft(d))
  BY <1>5, <1>6, <1>7 DEF GetTrap, Drafting
<1>9. PICK c : c = CreateDraft(EnsureShallowCopy(w), a, key)
  OBVIOUS
<1>10. DraftedFrom(w, t, i, d, c)
  BY <1>0, <1>3, <1>4, <1>6, <1>7, <1>9, DraftingFields
<1>11. Grows(w, t) /\ NodeIs(t, d, a, key) /\ Len(t.drafts) = d
  BY <1>0, <1>3, <1>4, <1>5, <1>6, <1>7, DraftingGrows
<1>12. t \in World
  BY <1>10 DEF DraftedFrom
<1>13. /\ u \in World /\ Grows(w, u) /\ NodeIs(u, d, a, key)
       /\ d \in DOMAIN u.drafts \ DOMAIN w.drafts
  <2>1. t.drafts \in Seq(ElementDraft) /\ DOMAIN t.drafts = 1 .. d
    BY <1>11, <1>12, WorldParts, LenProperties
  <2>2. d \in DOMAIN t.drafts /\ d \notin DOMAIN w.drafts
    BY <1>1, <1>6, <2>1
  <2>3. CASE key = i
    BY <1>8, <1>11, <1>12, <2>2, <2>3
  <2>4. CASE key # i
    <3>1. Draft(d) \in Value /\ IsDraft(Draft(d)) /\ Draft(d).id = d
      BY DraftIs
    <3>2. u = MarkFinalization(t, i, Draft(d))
      BY <1>8, <2>4
    <3>3. MarkedFrom(t, u, i, Draft(d))
      BY <1>2, <1>12, <2>2, <3>1, <3>2, MarkFinalizationFields
    <3>6. u \in World /\ Grows(t, u) /\ DOMAIN u.drafts = DOMAIN t.drafts
      BY <3>3 DEF MarkedFrom
    <3>4. Grows(w, u)
      BY <1>0, <1>11, <1>12, <3>6, GrowsTwice
    <3>5. NodeIs(u, d, a, key)
      BY <1>11, <1>12, <2>2, <3>6, NodeStays
    <3> QED BY <2>2, <3>4, <3>5, <3>6
  <2> QED BY <2>3, <2>4
<1>14. /\ u.copied /\ u.original = w.original
       /\ u.array = [w.array EXCEPT ![i] = Draft(d)]
       /\ u.operated = w.operated /\ u.assigned = w.assigned
       /\ u.children = {n \in w.children : n[1] # i} \cup {<<i, d>>}
       /\ u.relocated = w.relocated
       /\ u.dense = w.dense /\ u.inert = w.inert /\ u.heap = w.heap
  <2>1. CASE key = i
    BY <1>8, <1>10, <2>1 DEF DraftedFrom
  <2>2. CASE key # i
    <3>1. Draft(d) \in Value /\ IsDraft(Draft(d)) /\ Draft(d).id = d
      BY DraftIs
    <3>2. u = MarkFinalization(t, i, Draft(d))
      BY <1>8, <2>2
    <3>3. d \in DOMAIN t.drafts
      <4>1. t.drafts \in Seq(ElementDraft)
        BY <1>12, WorldParts
      <4> QED BY <1>6, <1>11, <1>1, <4>1, LenProperties
    <3>4. MarkedFrom(t, u, i, Draft(d))
      BY <1>2, <1>12, <3>1, <3>2, <3>3, MarkFinalizationFields
    <3> QED BY <1>10, <3>4 DEF DraftedFrom, MarkedFrom
  <2> QED BY <2>1, <2>2
<1>15. key = i \/ i \in u.drafts[d].callbacks
  <2>1. ASSUME key # i PROVE i \in u.drafts[d].callbacks
    <3>1. Draft(d) \in Value /\ IsDraft(Draft(d)) /\ Draft(d).id = d
      BY DraftIs
    <3>2. u = MarkFinalization(t, i, Draft(d))
      BY <1>8, <2>1
    <3>3. d \in DOMAIN t.drafts
      <4>1. t.drafts \in Seq(ElementDraft)
        BY <1>12, WorldParts
      <4> QED BY <1>6, <1>11, <1>1, <4>1, LenProperties
    <3>4. MarkedFrom(t, u, i, Draft(d))
      BY <1>2, <1>12, <3>1, <3>2, <3>3, MarkFinalizationFields
    <3> QED BY <3>1, <3>4 DEF MarkedFrom
  <2> QED BY <2>1

<1>16. /\ Len(u.array) = Len(w.array) /\ At(u.array, i) = Draft(d)
       /\ Draft(d) \in Value /\ IsDraft(Draft(d)) /\ ~IsObj(Draft(d)) /\ Draft(d).id = d
       /\ Draft(d) # Absent
  <2>1. /\ Draft(d) \in Value /\ IsDraft(Draft(d)) /\ ~IsObj(Draft(d)) /\ Draft(d).id = d
        /\ Draft(d) # Absent
    BY DraftIs
  <2>2. PICK v \in Value : v = Draft(d)
    BY <2>1
  <2>3. i \in Index /\ u.array = [w.array EXCEPT ![i] = v]
    BY <1>14, <2>2
  <2>4. Len(u.array) = Len(w.array)
    BY <1>1, <1>3, <2>3, PutIs
  <2>5. At(u.array, i) = v
    <3>1. \A j \in Index : At(u.array, j) = IF j = i THEN v ELSE At(w.array, j)
      BY <1>1, <1>3, <2>3, PutAt
    <3> QED BY <3>1
  <2> QED BY <2>1, <2>2, <2>4, <2>5
<1>17. ASSUME NEW j \in Index, j # i
       PROVE  At(u.array, j) = At(w.array, j) /\ At(w.array, j) \in Value
  <2>1. PICK v \in Value : v = Draft(d)
    BY <1>16
  <2>2. u.array = [w.array EXCEPT ![i] = v]
    BY <1>14, <2>1
  <2>3. At(u.array, j) = At(w.array, j)
    BY <1>1, <1>3, <1>17, <2>2, PutAt
  <2>4. j \in Nat
    BY DEF Index
  <2> QED BY <1>1, <2>3, <2>4, AtIs
<1>18. ASSUME NEW j \in Index
       PROVE  Fits(u, j, At(u.array, j))
  <2>1. CASE j = i
    <3>1. d \in DOMAIN u.drafts /\ u.drafts[d].key = key
      BY <1>13 DEF NodeIs
    <3>2. <<i, d>> \in u.children
      BY <1>14
    <3> QED BY <1>15, <1>16, <2>1, <3>1, <3>2 DEF Fits
  <2>2. CASE j # i
    <3>1. PICK v \in Value : v = At(w.array, j) /\ v = At(u.array, j)
      BY <1>17, <2>2
    <3>2. Fits(w, j, v)
      BY <1>0, <3>1 DEF AllFit
    <3>3. <<j, v.id>> \in w.children => <<j, v.id>> \in u.children
      BY <1>14, <2>2
    <3> QED BY <1>0, <1>13, <1>14, <3>1, <3>2, <3>3, StaysFit
  <2> QED BY <2>1, <2>2
<1>19. ASSUME NEW j \in Index
       PROVE  Shows(w, u, SlotAt(w, j), SlotAt(u, j))
  <2>1. CASE j = i
    <3>1. SlotAt(u, i) = Draft(d)
      BY <1>16 DEF SlotAt, SlotOf
    <3>2. SlotAt(w, i) = Base(a)
      BY <1>2, <1>3, <1>4 DEF SlotAt, SlotOf
    <3>3. u.drafts[d].original = a /\ Base(a).kind = "base" /\ Base(a).id = a
      BY <1>13 DEF NodeIs, Base
    <3> QED BY <1>13, <1>16, <2>1, <3>1, <3>2, <3>3 DEF Shows
  <2>2. CASE j # i
    <3>1. PICK v \in Value : v = At(w.array, j) /\ v = At(u.array, j)
      BY <1>17, <2>2
    <3>2. Fits(w, j, v)
      BY <1>0, <3>1 DEF AllFit
    <3>3. <<j, v.id>> \in w.children => <<j, v.id>> \in u.children
      BY <1>14, <2>2
    <3>4. SlotOf(u, j, v) = SlotOf(w, j, v)
      BY <1>0, <1>13, <1>14, <3>2, <3>3, StaysFit
    <3> QED BY <3>1, <3>4 DEF SlotAt, Shows
  <2> QED BY <2>1, <2>2
<1>20. BaseKept(u) /\ DraftsApart(u) /\ HeapInOrder(u)
  BY <1>0, <1>13, GrowsKeeps
<1>21. CachesRight(u)
  <2>1. ASSUME u.dense = "yes"
        PROVE  ~HasHoles(u.array)
    BY <1>0, <1>1, <1>3, <1>14, <1>16, <2>1 DEF CachesRight, HasHoles
  <2>2. w.inert # "yes"
    BY <1>0, <1>2, <1>3 DEF CachesRight, IsRef
  <2> QED BY <1>14, <2>1, <2>2 DEF CachesRight
<1>22. Untouched(u)
  <2> SUFFICES ASSUME ~u.operated
               PROVE  /\ Len(u.array) = Len(u.original)
                      /\ \A j \in DOMAIN u.array :
                            \/ u.array[j] = u.original[j]
                            \/ /\ IsDraft(u.array[j])
                               /\ u.original[j] = Obj(u.drafts[u.array[j].id].original)
                      /\ \A e \in DOMAIN u.drafts : ~u.drafts[e].operated
    BY DEF Untouched
  <2>1. /\ Len(w.array) = Len(w.original)
        /\ \A j \in DOMAIN w.array :
              \/ w.array[j] = w.original[j]
              \/ /\ IsDraft(w.array[j])
                 /\ w.original[j] = Obj(w.drafts[w.array[j].id].original)
        /\ \A e \in DOMAIN w.drafts : ~w.drafts[e].operated
    BY <1>0, <1>14 DEF Untouched
  <2>2. ASSUME NEW j \in DOMAIN u.array
        PROVE  \/ u.array[j] = u.original[j]
               \/ /\ IsDraft(u.array[j])
                  /\ u.original[j] = Obj(u.drafts[u.array[j].id].original)
    <3>0. j \in DOMAIN w.array /\ j \in Index /\ w.array[j] = At(w.array, j)
      BY <1>1, <1>14, <2>2, LenProperties DEF Index, At
    <3>1. CASE j = i
      <4>1. w.original[i] = Obj(a)
        BY <1>2, <1>3, <1>4, <2>1 DEF IsDraft, IsObj
      <4>2. u.drafts[d].original = a
        BY <1>13 DEF NodeIs
      <4>3. u.array[i] = Draft(d)
        BY <1>3, <1>14
      <4> QED BY <1>14, <1>16, <3>1, <4>1, <4>2, <4>3
    <3>2. CASE j # i
      <4>1. u.array[j] = w.array[j]
        BY <1>14, <3>0, <3>2
      <4>2. IsDraft(w.array[j]) => w.array[j].id \in DOMAIN w.drafts
        BY <1>0, <3>0 DEF AllFit, Fits
      <4>3. IsDraft(w.array[j]) =>
               u.drafts[w.array[j].id].original = w.drafts[w.array[j].id].original
        BY <1>13, <4>2 DEF Grows
      <4> QED BY <1>14, <2>1, <3>0, <4>1, <4>3
    <3> QED BY <3>1, <3>2
  <2>3. ASSUME NEW e \in DOMAIN u.drafts
        PROVE  ~u.drafts[e].operated
    <3>1. CASE e \in DOMAIN w.drafts
      BY <1>13, <2>1, <3>1 DEF Grows
    <3>2. CASE e \notin DOMAIN w.drafts
      BY <1>13, <3>2 DEF Grows
    <3> QED BY <3>1, <3>2
  <2> QED BY <1>14, <1>16, <2>1, <2>2, <2>3
<1>23. AllFit(u)
  BY <1>18 DEF AllFit
<1>24. Sound(u)
  BY <1>13, <1>20, <1>21, <1>22, <1>23 DEF Sound
<1>25. Turns(w, u, View(w))
  BY <1>13, <1>19, <1>24, ViewIs DEF Turns
<1>26. At(u.array, i) = SlotAt(u, i)
  BY <1>16 DEF SlotAt, SlotOf
<1>27. At(w.array, i) # Absent
  BY <1>3, <1>4, Values
<1> QED BY <1>16, <1>25, <1>26, <1>27 DEF GotFrom

LEMMA GetTrapKeeps ==
    ASSUME BaseOK, NEW w, Sound(w), NEW i \in Index, ~Drafts(w, i),
           NEW u, u = GetTrap(w, i)
    PROVE  u = w /\ GotFrom(w, u, i)
<1>1. u = w
  BY DEF GetTrap
<1>2. Turns(w, w, View(w))
  BY ViewIs, TurnsSame
<1>3. At(w.array, i) = SlotAt(w, i)
  <2>1. CASE ~IsObj(At(w.array, i))
    BY <2>1 DEF SlotAt, SlotOf
  <2>2. CASE IsObj(At(w.array, i))
    <3>1. w.array \in Seq(Value) /\ i \in Nat
      BY SoundParts, WorldParts DEF Index
    <3>2. i \in DOMAIN w.array
      BY <2>2, <3>1, AtIs, Values DEF IsRef
    <3> QED BY <2>2, <3>1, <3>2, AtIs DEF SlotAt, SlotOf, Drafts
  <2> QED BY <2>1, <2>2
<1> QED BY <1>1, <1>2, <1>3 DEF GotFrom

LEMMA GetTrapTurns ==
    ASSUME BaseOK, NEW w, Sound(w), NEW i \in Index, NEW u, u = GetTrap(w, i)
    PROVE  GotFrom(w, u, i)
BY GetTrapDrafts, GetTrapKeeps

-----------------------------------------------------------------------------
(***************************************************************************)
(* The set trap.                                                           *)
(***************************************************************************)

\* A change at one index.
LEMMA OneChanged ==
    ASSUME NEW w, Sound(w), NEW u \in World, Grows(w, u), NEW i \in Index, NEW x,
           \A j \in Index \ {i} : At(u.array, j) = At(w.array, j),
           \A j \in Index \ {i} : j \in u.assigned <=> j \in w.assigned,
           u.children = w.children,
           Fits(u, i, At(u.array, i)), CachesRight(u), Untouched(u),
           SlotAt(u, i) = x
    PROVE  Turns(w, u, [View(w) EXCEPT ![i] = x])
<1>0. /\ w \in World /\ BaseKept(w) /\ DraftsApart(w) /\ HeapInOrder(w) /\ AllFit(w)
  BY SoundParts
<1>1. BaseKept(u) /\ DraftsApart(u) /\ HeapInOrder(u)
  BY <1>0, GrowsKeeps
<1>2. ASSUME NEW j \in Index, j # i
      PROVE  Fits(u, j, At(u.array, j)) /\ SlotAt(u, j) = SlotAt(w, j)
  <2>0. w.array \in Seq(Value) /\ j \in Nat
    BY <1>0, WorldParts DEF Index
  <2>1. PICK v \in Value : v = At(w.array, j) /\ v = At(u.array, j)
    BY <1>2, <2>0, AtIs
  <2>2. Fits(w, j, v)
    BY <1>0, <2>1 DEF AllFit
  <2>3. j \in u.assigned <=> j \in w.assigned
    BY <1>2
  <2>4. Fits(u, j, v) /\ SlotOf(u, j, v) = SlotOf(w, j, v)
    BY <1>0, <2>2, <2>3, StaysFit
  <2> QED BY <2>1, <2>4 DEF SlotAt
<1>3. AllFit(u)
  BY <1>2 DEF AllFit
<1>4. Sound(u)
  BY <1>1, <1>3 DEF Sound
<1> DEFINE f == [View(w) EXCEPT ![i] = x]
<1>5. f[i] = x /\ \A j \in Index : j # i => f[j] = SlotAt(w, j)
  BY DEF View
<1> HIDE DEF f
<1>6. \A j \in Index : f[j] = SlotAt(u, j)
  BY <1>2, <1>5
<1>7. Turns(w, u, f)
  BY <1>4, <1>6 DEF Turns, Shows
<1> QED BY <1>7 DEF f

\* Where a value settles when it is set.
LEMMA SettleAs ==
    ASSUME NEW w \in World, w.original = base.array, NEW i \in Index, NEW v \in Value,
           IsObj(v) /\ v # At(w.original, i) => i \in w.assigned
    PROVE  SlotOf(w, i, v) = Settle(i, v)
<1>1. CASE ~IsObj(v)
  BY <1>1 DEF SlotOf, Settle
<1>2. CASE IsObj(v)
  <2>1. SlotOf(w, i, v) =
                IF \/ At(w.original, i) = v
                   \/ w.relocated /\ i \notin w.assigned /\ v \in Range(w.original)
                THEN Base(v.id) ELSE v
    BY <1>2, SlotOfIs
  <2> QED BY <1>2, <2>1 DEF Settle
<1> QED BY <1>1, <1>2

LEMMA AssignCaches ==
    ASSUME NEW s \in Seq(Value), NEW i \in Index, NEW v \in Value, v # Absent
    PROVE  /\ ~HasHoles(s) /\ i <= Len(s) + 1 => ~HasHoles(Write(s, i, v))
           /\ ~IsRef(v) /\ (\A j \in DOMAIN s : ~IsRef(s[j])) =>
                 \A j \in DOMAIN Write(s, i, v) : ~IsRef(Write(s, i, v)[j])
<1> DEFINE t == Write(s, i, v)
           m == IF i > Len(s) THEN i ELSE Len(s)
<1>0. Len(s) \in Nat /\ DOMAIN s = 1 .. Len(s) /\ i \in Nat /\ i # 0
  BY LenProperties DEF Index
<1>1. t \in Seq(Value) /\ Len(t) = m
  BY WriteIs
<1>2. DOMAIN t = 1 .. m
  BY <1>1, LenProperties
<1>3. ASSUME NEW j \in DOMAIN t
      PROVE  t[j] = IF j = i THEN v ELSE At(s, j)
  <2>1. j \in Index /\ At(t, j) = t[j]
    BY <1>0, <1>2 DEF Index, At
  <2>2. At(t, j) = IF j = i THEN v ELSE At(s, j)
    BY <2>1, WriteAt
  <2> QED BY <2>1, <2>2
<1> HIDE DEF t
<1>4. ASSUME ~HasHoles(s), i <= Len(s) + 1
      PROVE  ~HasHoles(t)
  <2>1. ASSUME NEW j \in DOMAIN t, j # i PROVE t[j] # Absent
    <3>1. j \in DOMAIN s
      BY <1>0, <1>2, <1>4, <2>1
    <3> QED BY <1>3, <1>4, <2>1, <3>1 DEF HasHoles, At
  <2> QED BY <1>3, <2>1 DEF HasHoles
<1>5. ASSUME ~IsRef(v), \A j \in DOMAIN s : ~IsRef(s[j]), NEW j \in DOMAIN t
      PROVE  ~IsRef(t[j])
  <2>1. ~IsRef(Absent)
    BY Values
  <2> QED BY <1>3, <1>5, <2>1 DEF At
<1> QED BY <1>4, <1>5 DEF t

\* What an assignment is before the length and the finalization are looked at.
Assigning(w, i, v) ==
    [Prepare(w) EXCEPT
        !.inert = IF IsRef(v) THEN "unknown" ELSE @,
        !.assigned = IF At(w.original, i) = v THEN @ \ {i} ELSE @ \cup {i},
        !.array = Write(@, i, v)]

AssigningFrom(w, u, i, v) ==
    /\ u \in World /\ u.copied /\ u.operated
    /\ u.original = w.original
    /\ u.array = Write(w.array, i, v)
    /\ u.assigned = (IF At(w.original, i) = v THEN w.assigned \ {i}
                                              ELSE w.assigned \cup {i})
    /\ u.children = w.children /\ u.relocated = w.relocated
    /\ u.dense = w.dense
    /\ u.inert = (IF IsRef(v) THEN "unknown" ELSE w.inert)
    /\ u.heap = w.heap /\ u.drafts = w.drafts /\ u.tasks = w.tasks

LEMMA AssigningFields ==
    ASSUME NEW w \in World, NEW i \in Index, NEW v \in Value,
           NEW u, u = Assigning(w, i, v)
    PROVE  AssigningFrom(w, u, i, v)
<1> DEFINE n == IF IsRef(v) THEN "unknown" ELSE w.inert
           as == IF At(w.original, i) = v THEN w.assigned \ {i}
                                          ELSE w.assigned \cup {i}
           s == Write(w.array, i, v)
<1>1. u = [w EXCEPT !.copied = TRUE, !.operated = TRUE, !.inert = n,
                    !.assigned = as, !.array = s]
  BY DEF Assigning, Prepare, MarkChanged, EnsureShallowCopy, World
<1>2. i \in Nat
  BY DEF Index
<1>3. n \in Cache /\ as \in SUBSET (Nat \ {0})
  BY <1>2, WorldParts DEF Cache, Index
<1>4. s \in Seq(Value)
  BY WorldParts, WriteIs
<1> HIDE DEF n, as, s
<1>5. u \in World
  BY <1>1, <1>3, <1>4 DEF World
<1>6. /\ u.copied = TRUE /\ u.operated = TRUE
      /\ u.original = w.original /\ u.array = s
      /\ u.assigned = as /\ u.children = w.children /\ u.relocated = w.relocated
      /\ u.dense = w.dense /\ u.inert = n
      /\ u.heap = w.heap /\ u.drafts = w.drafts /\ u.tasks = w.tasks
  BY <1>1 DEF World
<1> QED BY <1>5, <1>6 DEF n, as, s, AssigningFrom

\* What an assignment does.
AssignFrom(w, u, i, v) ==
    /\ u \in World /\ Grows(w, u)
    /\ u.copied /\ u.operated
    /\ u.original = w.original
    /\ u.array = Write(w.array, i, v)
    /\ u.assigned = (IF At(w.original, i) = v THEN w.assigned \ {i}
                                              ELSE w.assigned \cup {i})
    /\ u.children = w.children
    /\ (u.dense = w.dense /\ i <= Len(w.array) + 1) \/ u.dense = "unknown"
    /\ u.inert = (IF IsRef(v) THEN "unknown" ELSE w.inert)
    /\ u.heap = w.heap /\ DOMAIN u.drafts = DOMAIN w.drafts
    /\ IsDraft(v) => i \in u.drafts[v.id].callbacks
    /\ IsObj(v) /\ v \notin Range(w.original) => [at |-> i, value |-> v] \in u.tasks

LEMMA AssignFields ==
    ASSUME NEW w \in World, NEW i \in Index, NEW v, Usable(w, v),
           NEW u, u = Assign(w, i, v)
    PROVE  AssignFrom(w, u, i, v)
<1>0. v \in Value /\ (IsDraft(v) => v.id \in DOMAIN w.drafts) /\ i \in Nat
  BY DEF Usable, Index
<1>1. PICK n \in Nat : n = Len(w.array)
  BY WorldParts, LenProperties
<1>2. PICK t : t = Assigning(w, i, v)
  OBVIOUS
<1>3. AssigningFrom(w, t, i, v)
  BY <1>0, <1>2, AssigningFields
<1>4. PICK r : r = IF i > Len(w.array) + 1 THEN Resized(t, n) ELSE t
  OBVIOUS
<1>5. u = MarkFinalization(r, i, v)
  BY <1>1, <1>2, <1>4 DEF Assign, Assigning
<1>6. /\ r \in World /\ (w.relocated => r.relocated)
      /\ r.original = w.original /\ r.array = t.array /\ r.copied /\ r.operated
      /\ r.assigned = t.assigned /\ r.children = t.children
      /\ r.inert = t.inert /\ r.heap = w.heap
      /\ r.drafts = w.drafts /\ r.tasks = w.tasks
      /\ (r.dense = w.dense /\ i <= Len(w.array) + 1) \/ r.dense = "unknown"
  <2>1. CASE i > Len(w.array) + 1
    <3>1. t \in World /\ r = Resized(t, n)
      BY <1>3, <1>4, <2>1 DEF AssigningFrom
    <3>2. ResizedFrom(t, r)
      BY <1>1, <3>1, ResizedFields
    <3> QED BY <1>3, <3>2 DEF ResizedFrom, AssigningFrom
  <2>2. CASE ~(i > Len(w.array) + 1)
    <3>1. r = t
      BY <1>4, <2>2
    <3>2. i <= Len(w.array) + 1
      BY <1>0, <1>1, <2>2
    <3> QED BY <1>3, <3>1, <3>2 DEF AssigningFrom
  <2> QED BY <2>1, <2>2
<1>7. MarkedFrom(r, u, i, v)
  BY <1>0, <1>5, <1>6, MarkFinalizationFields
<1>8. Grows(w, r)
  <2>1. w.operated => r.operated
    BY <1>6
  <2> QED BY <1>6, <2>1, GrowsSame
<1>9. u \in World /\ Grows(r, u)
  BY <1>7 DEF MarkedFrom
<1>10. Grows(w, u)
  BY <1>6, <1>8, <1>9, GrowsTwice
<1>11. /\ t.array = Write(w.array, i, v)
       /\ t.assigned = (IF At(w.original, i) = v THEN w.assigned \ {i}
                                                 ELSE w.assigned \cup {i})
       /\ t.children = w.children
       /\ t.inert = (IF IsRef(v) THEN "unknown" ELSE w.inert)
  BY <1>3 DEF AssigningFrom
<1>12. /\ u.original = r.original /\ u.array = r.array /\ u.copied = r.copied
       /\ u.operated = r.operated /\ u.assigned = r.assigned
       /\ u.children = r.children
       /\ u.dense = r.dense /\ u.inert = r.inert /\ u.heap = r.heap
       /\ DOMAIN u.drafts = DOMAIN r.drafts
       /\ IsDraft(v) => i \in u.drafts[v.id].callbacks
       /\ IsObj(v) /\ v \notin Range(r.original) => [at |-> i, value |-> v] \in u.tasks
  BY <1>7 DEF MarkedFrom
<1> QED BY <1>6, <1>9, <1>10, <1>11, <1>12 DEF AssignFrom

LEMMA AssignTurns ==
    ASSUME BaseOK, NEW w, Sound(w), NEW i \in Index, NEW v, Usable(w, v),
           NEW u, u = Assign(w, i, v)
    PROVE  Turns(w, u, [View(w) EXCEPT ![i] = Settle(i, v)])
<1>0. w \in World /\ w.original = base.array /\ CachesRight(w)
  BY SoundParts DEF BaseKept
<1>1. v \in Value /\ v # Absent /\ i \in Nat /\ w.array \in Seq(Value)
      /\ (IsDraft(v) => v.id \in DOMAIN w.drafts) /\ (IsObj(v) => v.id \in DOMAIN w.heap)
  BY <1>0, WorldParts DEF Usable, Index
<1>2. AssignFrom(w, u, i, v)
  BY <1>0, AssignFields
<1>3. u \in World /\ Grows(w, u) /\ u.children = w.children /\ u.operated
      /\ u.original = w.original
  BY <1>2 DEF AssignFrom
<1>4. ASSUME NEW j \in Index
      PROVE  At(u.array, j) = IF j = i THEN v ELSE At(w.array, j)
  <2>1. u.array = Write(w.array, i, v)
    BY <1>2 DEF AssignFrom
  <2> QED BY <1>1, <2>1, WriteAt
<1>5. \A j \in Index \ {i} : j \in u.assigned <=> j \in w.assigned
  BY <1>2 DEF AssignFrom
<1>6. i \in u.assigned <=> v # At(w.original, i)
  BY <1>2 DEF AssignFrom
<1>7. Fits(u, i, v)
  <2>1. ASSUME IsDraft(v)
        PROVE  /\ v.id \in DOMAIN u.drafts
               /\ i = u.drafts[v.id].key \/ i \in u.drafts[v.id].callbacks
               /\ <<i, v.id>> \in u.children \/ i \in u.assigned
    <3>1. v # At(w.original, i)
      BY <1>1, <2>1, OriginalIs
    <3> QED BY <1>1, <1>2, <1>6, <2>1, <3>1 DEF AssignFrom
  <2>2. ASSUME IsObj(v)
        PROVE  /\ v.id \in DOMAIN u.heap
               /\ i \in u.assigned => v # At(u.original, i)
               /\ ~u.relocated /\ v # At(u.original, i) => i \in u.assigned
               /\ v \notin Range(u.original) =>
                     i \in u.assigned /\ [at |-> i, value |-> v] \in u.tasks
    <3>1. ASSUME v \notin Range(w.original)
          PROVE  v # At(w.original, i)
      BY <1>1, <3>1 DEF At, Range
    <3> QED BY <1>1, <1>2, <1>6, <2>2, <3>1 DEF AssignFrom
  <2> QED BY <2>1, <2>2 DEF Fits
<1>8. CachesRight(u)
  <2>0. u.array = Write(w.array, i, v) /\ u.copied
    BY <1>2 DEF AssignFrom
  <2>1. ASSUME u.dense = "yes" PROVE ~HasHoles(u.array)
    <3>1. w.dense = "yes" /\ i <= Len(w.array) + 1
      BY <1>2, <2>1 DEF AssignFrom
    <3> QED BY <1>0, <1>1, <2>0, <3>1, AssignCaches DEF CachesRight
  <2>2. ASSUME u.inert = "yes" PROVE \A j \in DOMAIN u.array : ~IsRef(u.array[j])
    <3>1. ~IsRef(v) /\ w.inert = "yes"
      BY <1>2, <2>2 DEF AssignFrom
    <3> QED BY <1>0, <1>1, <2>0, <3>1, AssignCaches DEF CachesRight
  <2> QED BY <2>0, <2>1, <2>2 DEF CachesRight
<1>9. Untouched(u)
  BY <1>3 DEF Untouched
<1>10. SlotAt(u, i) = Settle(i, v)
  <2>1. u.original = base.array /\ (IsObj(v) /\ v # At(u.original, i) => i \in u.assigned)
    BY <1>0, <1>3, <1>6
  <2>2. SlotOf(u, i, v) = Settle(i, v)
    BY <1>1, <1>3, <2>1, SettleAs
  <2> QED BY <1>4, <2>2 DEF SlotAt
<1>11. \A j \in Index \ {i} : At(u.array, j) = At(w.array, j)
  BY <1>4
<1>12. Fits(u, i, At(u.array, i))
  BY <1>4, <1>7
<1> QED BY <1>3, <1>5, <1>8, <1>9, <1>10, <1>11, <1>12, OneChanged

\* A draft at i gives way to its original.
DroppedFrom(w, u, i, v) ==
    /\ u \in World /\ Grows(w, u)
    /\ u.copied = w.copied
    /\ u.original = w.original
    /\ u.array = [w.array EXCEPT ![i] = v]
    /\ u.assigned = (IF At(w.original, i) = v THEN w.assigned \ {i}
                                              ELSE w.assigned \cup {i})
    /\ u.operated \/ (At(w.original, i) = v /\ u.operated = w.operated
                      /\ u.drafts = w.drafts)
    /\ u.children = w.children
    /\ u.dense = w.dense /\ u.inert = w.inert

LEMMA DropDraftFields ==
    ASSUME NEW w \in World, NEW i \in DOMAIN w.array, i \in Nat, NEW v \in Value,
           IsObj(v),
           NEW u, u = DropDraft(w, i, v)
    PROVE  DroppedFrom(w, u, i, v)
<1>0. w.array \in Seq(Value) /\ ~IsDraft(v)
  BY WorldParts, ValueIs
<1> DEFINE s == [w.array EXCEPT ![i] = v]
<1>1. s \in Seq(Value)
  BY <1>0, PutIs
<1>2. w.assigned \ {i} \in SUBSET (Nat \ {0}) /\ w.assigned \cup {i} \in SUBSET (Nat \ {0})
  BY WorldParts
<1>3. CASE At(w.original, i) = v
  <2>1. u = [w EXCEPT !.array[i] = v, !.assigned = @ \ {i}]
    BY <1>3 DEF DropDraft, World
  <2>2. u = [w EXCEPT !.array = s, !.assigned = w.assigned \ {i}]
    BY <2>1 DEF World
  <2> HIDE DEF s
  <2>3. /\ u \in World /\ u.array = s /\ u.assigned = w.assigned \ {i}
        /\ u.copied = w.copied /\ u.operated = w.operated
        /\ u.original = w.original /\ u.children = w.children
        /\ u.relocated = w.relocated
        /\ u.dense = w.dense /\ u.inert = w.inert
        /\ u.heap = w.heap /\ u.drafts = w.drafts /\ u.tasks = w.tasks
    BY <1>1, <1>2, <2>2 DEF World
  <2>4. Grows(w, u)
    BY <2>3, GrowsSame
  <2> QED BY <1>3, <2>3, <2>4 DEF s, DroppedFrom
<1>4. CASE At(w.original, i) # v
  <2> DEFINE t == [w EXCEPT !.array = s, !.operated = TRUE,
                            !.assigned = w.assigned \cup {i}]
  <2>1. u = MarkFinalization(t, i, v)
    BY <1>4 DEF DropDraft, MarkChanged, World
  <2> HIDE DEF s
  <2>3. /\ t \in World /\ t.array = s /\ t.assigned = w.assigned \cup {i}
        /\ t.copied = w.copied /\ t.operated
        /\ t.original = w.original /\ t.children = w.children
        /\ t.relocated = w.relocated
        /\ t.dense = w.dense /\ t.inert = w.inert
        /\ t.heap = w.heap /\ t.drafts = w.drafts /\ t.tasks = w.tasks
    BY <1>1, <1>2 DEF World
  <2> HIDE DEF t
  <2>4. Grows(w, t)
    BY <2>3, GrowsSame
  <2>5. MarkedFrom(t, u, i, v)
    BY <1>0, <2>1, <2>3, MarkFinalizationFields
  <2>6. u \in World /\ Grows(t, u)
    BY <2>5 DEF MarkedFrom
  <2>7. Grows(w, u)
    BY <2>3, <2>4, <2>6, GrowsTwice
  <2> QED BY <1>4, <2>3, <2>5, <2>7 DEF s, DroppedFrom, MarkedFrom
<1> QED BY <1>3, <1>4

LEMMA DropDraftTurns ==
    ASSUME BaseOK, NEW w, Sound(w), NEW i \in Index, NEW v,
           IsDraft(At(w.array, i)),
           v = Obj(Node(w, At(w.array, i).id).original),
           NEW u, u = DropDraft(w, i, v)
    PROVE  /\ Turns(w, u, [View(w) EXCEPT ![i] = Settle(i, v)])
           /\ Len(u.array) = Len(w.array)
<1>0. /\ w \in World /\ w.original = base.array /\ CachesRight(w) /\ BaseKept(w)
      /\ AllFit(w) /\ DraftsApart(w) /\ Untouched(w)
  BY SoundParts DEF BaseKept
<1>1. i \in Nat /\ w.array \in Seq(Value) /\ w.drafts \in Seq(ElementDraft)
  BY <1>0, WorldParts DEF Index
<1>2. i \in DOMAIN w.array /\ w.array[i] = At(w.array, i)
  BY <1>1, AtIs, Values DEF IsRef, Own
<1>3. PICK d : d = At(w.array, i).id /\ d \in DOMAIN w.drafts
  BY <1>0 DEF AllFit, Fits
<1>4. v = Obj(w.drafts[d].original) /\ w.drafts[d] \in ElementDraft
  BY <1>1, <1>3, ElementOfSeq DEF Node
<1>5. w.drafts[d].original \in Nat
  BY <1>4 DEF ElementDraft
<1>6. v \in Value /\ IsObj(v) /\ v # Absent /\ ~IsDraft(v) /\ v.id \in Nat
  BY <1>4, <1>5, ObjIs, ValueIs
<1>7. v \in Range(base.array)
  BY <1>0, <1>3, <1>4 DEF DraftsApart, Range
<1>8. v.id \in DOMAIN w.heap
  <2>1. v.id \in DOMAIN base.heap
    BY <1>6, <1>7 DEF BaseOK
  <2>2. w.heap \in Seq(Value) /\ base.heap \in Seq(Value)
    BY <1>0, WorldParts DEF BaseOK
  <2>3. /\ DOMAIN w.heap = 1 .. Len(w.heap) /\ DOMAIN base.heap = 1 .. Len(base.heap)
        /\ Len(w.heap) \in Nat /\ Len(base.heap) \in Nat
    BY <2>2, LenProperties
  <2> QED BY <1>0, <1>6, <2>1, <2>3 DEF BaseKept
<1>9. DroppedFrom(w, u, i, v)
  BY <1>0, <1>1, <1>2, <1>6, DropDraftFields
<1>10. /\ u \in World /\ Grows(w, u) /\ u.original = w.original
       /\ u.array = [w.array EXCEPT ![i] = v] /\ u.children = w.children
  BY <1>9 DEF DroppedFrom
<1>11. Len(u.array) = Len(w.array) /\ DOMAIN u.array = DOMAIN w.array
  BY <1>1, <1>2, <1>6, <1>10, PutIs
<1>12. ASSUME NEW j \in Index
       PROVE  At(u.array, j) = IF j = i THEN v ELSE At(w.array, j)
  BY <1>1, <1>2, <1>6, <1>10, PutAt
<1>13. \A j \in Index \ {i} : j \in u.assigned <=> j \in w.assigned
  BY <1>9 DEF DroppedFrom
<1>14. i \in u.assigned <=> v # At(w.original, i)
  BY <1>9 DEF DroppedFrom
<1>15. Fits(u, i, v)
  BY <1>0, <1>6, <1>7, <1>8, <1>10, <1>14 DEF Fits, Grows
<1>16. CachesRight(u)
  <2>1. u.dense = w.dense /\ u.inert = w.inert /\ u.copied = w.copied
    BY <1>9 DEF DroppedFrom
  <2>2. w.copied
    <3>1. w.array # w.original
      BY <1>1, OriginalIs
    <3> QED BY <1>0, <3>1 DEF CachesRight
  <2>3. ASSUME w.dense = "yes" PROVE ~HasHoles(u.array)
    BY <1>0, <1>2, <1>6, <1>10, <1>11, <2>3 DEF CachesRight, HasHoles
  <2>4. w.inert # "yes"
    BY <1>0, <1>2 DEF CachesRight, IsRef
  <2> QED BY <2>1, <2>2, <2>3, <2>4 DEF CachesRight
<1>17. Untouched(u)
  <2> SUFFICES ASSUME ~u.operated
               PROVE  /\ Len(u.array) = Len(u.original)
                      /\ \A j \in DOMAIN u.array :
                            \/ u.array[j] = u.original[j]
                            \/ /\ IsDraft(u.array[j])
                               /\ u.original[j] = Obj(u.drafts[u.array[j].id].original)
                      /\ \A e \in DOMAIN u.drafts : ~u.drafts[e].operated
    BY DEF Untouched
  <2>1. ~w.operated /\ At(w.original, i) = v /\ u.drafts = w.drafts
    BY <1>9 DEF DroppedFrom
  <2>2. /\ Len(w.array) = Len(w.original)
        /\ \A j \in DOMAIN w.array :
              \/ w.array[j] = w.original[j]
              \/ /\ IsDraft(w.array[j])
                 /\ w.original[j] = Obj(w.drafts[w.array[j].id].original)
        /\ \A e \in DOMAIN w.drafts : ~w.drafts[e].operated
    BY <1>0, <2>1 DEF Untouched
  <2>3. w.original[i] = v
    BY <1>6, <2>1 DEF At
  <2>4. \A j \in DOMAIN u.array : u.array[j] = IF j = i THEN v ELSE w.array[j]
    BY <1>2, <1>10, <1>11
  <2> QED BY <1>10, <1>11, <2>1, <2>2, <2>3, <2>4
<1>18. SlotAt(u, i) = Settle(i, v)
  <2>1. u.original = base.array /\ (IsObj(v) /\ v # At(u.original, i) => i \in u.assigned)
    BY <1>0, <1>10, <1>14
  <2>2. SlotOf(u, i, v) = Settle(i, v)
    BY <1>6, <1>10, <2>1, SettleAs
  <2> QED BY <1>12, <2>2 DEF SlotAt
<1>19. \A j \in Index \ {i} : At(u.array, j) = At(w.array, j)
  BY <1>12
<1>20. Fits(u, i, At(u.array, i))
  BY <1>12, <1>15
<1>21. Turns(w, u, [View(w) EXCEPT ![i] = Settle(i, v)])
  BY <1>10, <1>13, <1>16, <1>17, <1>18, <1>19, <1>20, OneChanged
<1> QED BY <1>11, <1>21

\* The set trap at an index.
LEMMA SetTrapTurns ==
    ASSUME BaseOK, NEW w, Sound(w), NEW i \in Index, NEW v, Usable(w, v),
           NEW u, u = SetTrap(w, i, v)
    PROVE  /\ Turns(w, u, [View(w) EXCEPT ![i] = Settle(i, v)])
           /\ Len(u.array) = IF i > Len(w.array) THEN i ELSE Len(w.array)
<1>0. /\ w \in World /\ w.original = base.array /\ w.array \in Seq(Value)
      /\ Len(w.array) \in Nat /\ DOMAIN w.array = 1 .. Len(w.array)
  BY SoundParts, WorldParts, LenProperties DEF BaseKept
<1>1. v \in Value /\ v # Absent /\ i \in Nat
  BY DEF Usable, Index
<1> DEFINE current == At(w.array, i)
           drops == IsDraft(current) /\ v = Obj(Node(w, current.id).original)
           same  == v = Seen(current) /\ Own(w.array, i) /\ ~IsMovedElement(w, v, i)
<1>2. u = CASE drops            -> DropDraft(w, i, v)
            [] ~drops /\ same   -> w
            [] ~drops /\ ~same  -> Assign(w, i, v)
  BY DEF SetTrap
<1>3. current # Absent => i <= Len(w.array)
  BY <1>0, <1>1 DEF At
<1>4. CASE drops
  <2>1. u = DropDraft(w, i, v)
    BY <1>2, <1>4
  <2>2. /\ Turns(w, u, [View(w) EXCEPT ![i] = Settle(i, v)])
        /\ Len(u.array) = Len(w.array)
    BY <1>4, <2>1, DropDraftTurns
  <2>3. current # Absent
    BY <1>4, Values DEF IsRef
  <2> QED BY <1>0, <1>1, <1>3, <2>2, <2>3
<1>5. CASE ~drops /\ same
  <2>1. u = w
    <3> HIDE DEF drops, same
    <3> QED BY <1>2, <1>5
  <2>2. current # Absent /\ v = current /\ ~IsMovedElement(w, v, i)
    BY <1>5 DEF Own, Seen
  <2>3. SlotAt(w, i) = SlotOf(w, i, v)
    BY <2>2 DEF SlotAt
  <2>4. SlotOf(w, i, v) = Settle(i, v)
    <3>1. CASE ~IsObj(v)
      BY <3>1 DEF SlotOf, Settle
    <3>2. CASE IsObj(v) /\ v = At(w.original, i)
      <4>1. BaseIndex(w, v, i) # Null
        BY <1>0, <1>1, <3>2, BaseIndexIs DEF Index
      <4> QED BY <1>0, <3>2, <4>1 DEF SlotOf, Settle
    <3>3. CASE IsObj(v) /\ v # At(w.original, i)
      <4>1. BaseIndex(w, v, i) = Null
        BY <2>2, <3>3 DEF IsMovedElement, IsRef
      <4> QED BY <1>0, <3>3, <4>1 DEF SlotOf, Settle
    <3> QED BY <3>1, <3>2, <3>3
  <2> DEFINE f == [View(w) EXCEPT ![i] = Settle(i, v)]
  <2>5. f[i] = Settle(i, v) /\ \A j \in Index : j # i => f[j] = SlotAt(w, j)
    BY DEF View
  <2> HIDE DEF f
  <2>6. \A j \in Index : f[j] = SlotAt(w, j)
    BY <2>3, <2>4, <2>5
  <2>7. Turns(w, u, f)
    BY <2>1, <2>6, TurnsSame
  <2> QED BY <1>0, <1>1, <1>3, <2>1, <2>2, <2>7 DEF f
<1>6. CASE ~drops /\ ~same
  <2>1. u = Assign(w, i, v)
    <3> HIDE DEF drops, same
    <3> QED BY <1>2, <1>6
  <2>2. Turns(w, u, [View(w) EXCEPT ![i] = Settle(i, v)])
    BY <2>1, AssignTurns
  <2>3. u.array = Write(w.array, i, v)
    <3>1. AssignFrom(w, u, i, v)
      BY <1>0, <2>1, AssignFields
    <3> QED BY <3>1 DEF AssignFrom
  <2> QED BY <1>0, <1>1, <2>2, <2>3, WriteIs
<1> QED BY <1>4, <1>5, <1>6

-----------------------------------------------------------------------------
(***************************************************************************)
(* The set trap at length, and deletion.                                   *)
(***************************************************************************)

LengthFrom(w, u, n) ==
    /\ u \in World /\ Grows(w, u) /\ u.copied /\ u.operated
    /\ u.array = Resize(w.array, n)
    /\ u.assigned = w.assigned /\ u.children = w.children
    /\ (u.dense = w.dense /\ n <= Len(w.array)) \/ u.dense = "unknown"
    /\ u.inert = w.inert

LEMMA SetLengthFields ==
    ASSUME NEW w \in World, NEW n \in Nat, n # Len(w.array),
           NEW u, u = SetLength(w, n)
    PROVE  LengthFrom(w, u, n)
<1>1. PICK m \in Nat : m = Len(w.array)
  BY WorldParts, LenProperties
<1> DEFINE s == Resize(w.array, n)
           l == (n # Len(w.original))
           t == [w EXCEPT !.copied = TRUE, !.operated = TRUE, !.length = l, !.array = s]
<1>2. s \in Seq(Value) /\ l \in BOOLEAN
  BY WorldParts, ResizeIs
<1>3. u = IF n > m THEN Resized(t, m) ELSE t
  BY <1>1 DEF SetLength, Prepare, MarkChanged, EnsureShallowCopy, World
<1> HIDE DEF s, l
<1>4. /\ t \in World /\ t.copied /\ t.operated /\ t.array = s
      /\ t.original = w.original /\ t.relocated = w.relocated
      /\ t.assigned = w.assigned /\ t.children = w.children
      /\ t.dense = w.dense /\ t.inert = w.inert /\ t.heap = w.heap
      /\ t.drafts = w.drafts /\ t.tasks = w.tasks
  BY <1>2 DEF World
<1> HIDE DEF t
<1>5. CASE n > m
  <2>1. ResizedFrom(t, u)
    BY <1>1, <1>3, <1>4, <1>5, ResizedFields
  <2>2. /\ u \in World /\ u.dense = "unknown" /\ (w.relocated => u.relocated)
        /\ u.original = w.original /\ u.array = s /\ u.copied
        /\ u.operated /\ u.assigned = w.assigned /\ u.children = w.children
        /\ u.inert = w.inert /\ u.heap = w.heap
        /\ u.drafts = w.drafts /\ u.tasks = w.tasks
    BY <1>4, <2>1 DEF ResizedFrom
  <2>3. Grows(w, u)
    BY <2>2, GrowsSame
  <2> QED BY <2>2, <2>3 DEF s, LengthFrom
<1>6. CASE ~(n > m)
  <2>1. u = t /\ n <= Len(w.array)
    BY <1>1, <1>3, <1>6
  <2>2. Grows(w, u)
    BY <1>4, <2>1, GrowsSame
  <2> QED BY <1>4, <2>1, <2>2 DEF s, LengthFrom
<1> QED BY <1>5, <1>6

LEMMA SlotOfAbsent ==
    ASSUME NEW w, NEW i, At(w.array, i) = Absent
    PROVE  SlotAt(w, i) = Absent
BY Values DEF SlotAt, SlotOf, IsRef

LEMMA FitsAbsent ==
    ASSUME NEW w, NEW i
    PROVE  Fits(w, i, Absent)
BY Values DEF Fits, IsRef

LEMMA SetLengthTurns ==
    ASSUME NEW w, Sound(w), NEW n \in Nat, NEW u, u = SetLength(w, n)
    PROVE  /\ Turns(w, u, [j \in Index |-> IF j <= n THEN SlotAt(w, j) ELSE Absent])
           /\ Len(u.array) = n
<1>0. /\ w \in World /\ BaseKept(w) /\ DraftsApart(w) /\ HeapInOrder(w) /\ AllFit(w)
      /\ CachesRight(w) /\ w.array \in Seq(Value) /\ Len(w.array) \in Nat
      /\ DOMAIN w.array = 1 .. Len(w.array)
  BY SoundParts, WorldParts, LenProperties
<1> DEFINE f == [j \in Index |-> IF j <= n THEN SlotAt(w, j) ELSE Absent]
<1>1. \A j \in Index : f[j] = IF j <= n THEN SlotAt(w, j) ELSE Absent
  OBVIOUS
<1> HIDE DEF f
<1>2. CASE n = Len(w.array)
  <2>1. u = w
    BY <1>2 DEF SetLength
  <2>2. ASSUME NEW j \in Index PROVE f[j] = SlotAt(w, j)
    <3>1. j > n => At(w.array, j) = Absent
      BY <1>0, <1>2 DEF At, Index
    <3>2. j \in Nat
      BY DEF Index
    <3> QED BY <1>1, <3>1, <3>2, SlotOfAbsent
  <2> QED BY <1>2, <2>1, <2>2, TurnsSame DEF f
<1>3. CASE n # Len(w.array)
  <2>1. LengthFrom(w, u, n)
    BY <1>0, <1>3, SetLengthFields
  <2>2. /\ u \in World /\ Grows(w, u) /\ u.array = Resize(w.array, n)
        /\ u.assigned = w.assigned /\ u.children = w.children
    BY <2>1 DEF LengthFrom
  <2>3. ASSUME NEW j \in Index
        PROVE  At(u.array, j) = IF j <= n THEN At(w.array, j) ELSE Absent
    BY <1>0, <2>2, ResizeAt
  <2>4. ASSUME NEW j \in Index
        PROVE  Fits(u, j, At(u.array, j)) /\ SlotAt(u, j) = f[j]
    <3>1. CASE j <= n
      <4>1. PICK v \in Value : v = At(w.array, j) /\ v = At(u.array, j)
        BY <1>0, <2>3, <3>1, AtIs DEF Index
      <4>2. Fits(w, j, v)
        BY <1>0, <4>1 DEF AllFit
      <4>3. Fits(u, j, v) /\ SlotOf(u, j, v) = SlotOf(w, j, v)
        BY <1>0, <2>2, <4>2, StaysFit
      <4> QED BY <1>1, <3>1, <4>1, <4>3 DEF SlotAt
    <3>2. CASE ~(j <= n)
      BY <1>1, <2>3, <3>2, FitsAbsent, SlotOfAbsent
    <3> QED BY <3>1, <3>2
  <2>5. CachesRight(u)
    <3>1. ASSUME u.dense = "yes" PROVE ~HasHoles(u.array)
      <4>1. w.dense = "yes" /\ n <= Len(w.array)
        BY <2>1, <3>1 DEF LengthFrom
      <4>2. ~HasHoles(w.array)
        BY <1>0, <4>1 DEF CachesRight
      <4> QED BY <1>0, <2>2, <4>1, <4>2 DEF HasHoles, Resize, At
    <3>2. ASSUME u.inert = "yes" PROVE \A j \in DOMAIN u.array : ~IsRef(u.array[j])
      <4>1. w.inert = "yes"
        BY <2>1, <3>2 DEF LengthFrom
      <4>2. \A j \in DOMAIN w.array : ~IsRef(w.array[j])
        BY <1>0, <4>1 DEF CachesRight
      <4>3. ~IsRef(Absent)
        BY Values
      <4> QED BY <2>2, <4>2, <4>3 DEF Resize, At
    <3>3. u.copied
      BY <2>1 DEF LengthFrom
    <3> QED BY <3>1, <3>2, <3>3 DEF CachesRight
  <2>6. BaseKept(u) /\ DraftsApart(u) /\ HeapInOrder(u)
    BY <1>0, <2>2, GrowsKeeps
  <2>7. Untouched(u)
    BY <2>1 DEF LengthFrom, Untouched
  <2>8. AllFit(u)
    BY <2>4 DEF AllFit
  <2>9. Sound(u)
    BY <2>2, <2>5, <2>6, <2>7, <2>8 DEF Sound
  <2>10. Turns(w, u, f)
    BY <2>2, <2>4, <2>9 DEF Turns, Shows
  <2>11. Len(u.array) = n
    BY <1>0, <2>2, ResizeIs
  <2> QED BY <2>10, <2>11 DEF f
<1> QED BY <1>2, <1>3

\* What a hole makes of a slot: an element becomes undefined, a hole stays.
Emptied(x) == IF x = Absent THEN Absent ELSE Undefined

LEMMA AbsentSlot ==
    ASSUME NEW w, NEW i
    PROVE  SlotAt(w, i) = Absent <=> At(w.array, i) = Absent
<1>1. Base(At(w.array, i).id) # Absent
  BY DEF Base, Absent
<1>2. IsObj(At(w.array, i)) => At(w.array, i) # Absent
  BY Values DEF IsRef
<1> QED BY <1>1, <1>2 DEF SlotAt, SlotOf

LEMMA UndefinedIs ==
    /\ Undefined \in Value /\ Undefined # Absent
    /\ ~IsObj(Undefined) /\ ~IsDraft(Undefined)
    /\ \A i : Settle(i, Undefined) = Undefined
BY DEF Undefined, Prim, Value, Absent, IsObj, IsDraft, Settle

LEMMA DeleteTrapTurns ==
    ASSUME BaseOK, NEW w, Sound(w), NEW i \in Index, NEW u, u = DeleteTrap(w, i)
    PROVE  /\ Turns(w, u, [View(w) EXCEPT ![i] = Emptied(SlotAt(w, i))])
           /\ Len(u.array) = Len(w.array)
<1>0. w.array \in Seq(Value) /\ Len(w.array) \in Nat /\ DOMAIN w.array = 1 .. Len(w.array)
      /\ i \in Nat
  BY SoundParts, WorldParts, LenProperties DEF Index
<1>1. CASE Own(w.array, i)
  <2>1. u = SetTrap(w, i, Undefined)
    BY <1>1 DEF DeleteTrap
  <2>2. Usable(w, Undefined)
    BY UndefinedIs DEF Usable
  <2>3. Settle(i, Undefined) = Undefined
    BY UndefinedIs
  <2>4. Emptied(SlotAt(w, i)) = Settle(i, Undefined)
    BY <1>1, <2>3, AbsentSlot DEF Emptied, Own
  <2>5. PICK x : x = Undefined
    OBVIOUS
  <2>6. /\ Turns(w, u, [View(w) EXCEPT ![i] = Settle(i, x)])
        /\ Len(u.array) = IF i > Len(w.array) THEN i ELSE Len(w.array)
    BY <2>1, <2>2, <2>5, SetTrapTurns
  <2>7. ~(i > Len(w.array))
    BY <1>0, <1>1 DEF Own, At
  <2> QED BY <2>4, <2>5, <2>6, <2>7
<1>2. CASE ~Own(w.array, i)
  <2>1. u = w
    BY <1>2 DEF DeleteTrap
  <2>2. SlotAt(w, i) = Absent
    BY <1>2, AbsentSlot DEF Own
  <2> DEFINE f == [View(w) EXCEPT ![i] = Emptied(SlotAt(w, i))]
  <2>3. f[i] = SlotAt(w, i) /\ \A j \in Index : j # i => f[j] = SlotAt(w, j)
    BY <2>2 DEF View, Emptied
  <2> HIDE DEF f
  <2>4. Turns(w, u, f)
    BY <2>1, <2>3, TurnsSame
  <2> QED BY <2>1, <2>4 DEF f
<1> QED BY <1>1, <1>2

-----------------------------------------------------------------------------
(***************************************************************************)
(* Steps that leave the array alone.                                       *)
(***************************************************************************)

LEMMA ArrayStays ==
    ASSUME NEW w, Sound(w), NEW u \in World, Grows(w, u), u.array = w.array,
           u.assigned = w.assigned, u.children = w.children,
           CachesRight(u), Untouched(u)
    PROVE  Turns(w, u, View(w))
<1>0. /\ w \in World /\ BaseKept(w) /\ DraftsApart(w) /\ HeapInOrder(w) /\ AllFit(w)
      /\ w.array \in Seq(Value)
  BY SoundParts, WorldParts
<1>1. BaseKept(u) /\ DraftsApart(u) /\ HeapInOrder(u)
  BY <1>0, GrowsKeeps
<1>2. ASSUME NEW j \in Index
      PROVE  Fits(u, j, At(u.array, j)) /\ SlotAt(u, j) = SlotAt(w, j)
  <2>1. PICK v \in Value : v = At(w.array, j) /\ v = At(u.array, j)
    BY <1>0, AtIs DEF Index
  <2>2. Fits(w, j, v)
    BY <1>0, <2>1 DEF AllFit
  <2>3. Fits(u, j, v) /\ SlotOf(u, j, v) = SlotOf(w, j, v)
    BY <1>0, <2>2, StaysFit
  <2> QED BY <2>1, <2>3 DEF SlotAt
<1>3. Sound(u)
  BY <1>1, <1>2 DEF Sound, AllFit
<1> QED BY <1>2, <1>3, ViewIs DEF Turns, Shows

\* Nodes that were and are added stay unchanged.
LEMMA UntouchedStays ==
    ASSUME NEW w, Sound(w), NEW u \in World, Grows(w, u), u.array = w.array,
           u.operated = w.operated
    PROVE  Untouched(u)
<1>0. w \in World /\ AllFit(w) /\ Untouched(w) /\ w.array \in Seq(Value)
      /\ DOMAIN w.array = 1 .. Len(w.array)
  BY SoundParts, WorldParts, LenProperties
<1> SUFFICES ASSUME ~u.operated
             PROVE  /\ Len(u.array) = Len(u.original)
                    /\ \A j \in DOMAIN u.array :
                          \/ u.array[j] = u.original[j]
                          \/ /\ IsDraft(u.array[j])
                             /\ u.original[j] = Obj(u.drafts[u.array[j].id].original)
                    /\ \A e \in DOMAIN u.drafts : ~u.drafts[e].operated
  BY DEF Untouched
<1>1. /\ Len(w.array) = Len(w.original)
      /\ \A j \in DOMAIN w.array :
            \/ w.array[j] = w.original[j]
            \/ /\ IsDraft(w.array[j])
               /\ w.original[j] = Obj(w.drafts[w.array[j].id].original)
      /\ \A e \in DOMAIN w.drafts : ~w.drafts[e].operated
  BY <1>0 DEF Untouched
<1>2. u.original = w.original
  BY DEF Grows
<1>3. ASSUME NEW j \in DOMAIN u.array
      PROVE  \/ u.array[j] = u.original[j]
             \/ /\ IsDraft(u.array[j])
                /\ u.original[j] = Obj(u.drafts[u.array[j].id].original)
  <2>1. j \in Index /\ w.array[j] = At(w.array, j)
    BY <1>0 DEF Index, At
  <2>2. IsDraft(w.array[j]) => w.array[j].id \in DOMAIN w.drafts
    BY <1>0, <2>1 DEF AllFit, Fits
  <2>3. IsDraft(w.array[j]) =>
           u.drafts[w.array[j].id].original = w.drafts[w.array[j].id].original
    BY <2>2 DEF Grows
  <2> QED BY <1>1, <1>2, <2>3
<1>4. ASSUME NEW e \in DOMAIN u.drafts
      PROVE  ~u.drafts[e].operated
  <2>1. CASE e \in DOMAIN w.drafts
    BY <1>1, <2>1 DEF Grows
  <2>2. CASE e \notin DOMAIN w.drafts
    BY <2>2 DEF Grows
  <2> QED BY <2>1, <2>2
<1> QED BY <1>1, <1>2, <1>3, <1>4

\* A removed element that gets a draft.
LEMMA RemovedTurns ==
    ASSUME BaseOK, NEW w, Sound(w), NEW v \in Value, NEW key \in Nat,
           key # Null => key \in DOMAIN base.array /\ base.array[key] = v /\ IsObj(v),
           NEW u, u = Removed(w, v, key)
    PROVE  Turns(w, u, View(w)) /\ u.array = w.array
<1>0. w \in World /\ CachesRight(w)
  BY SoundParts
<1>1. CASE key = Null
  <2>1. u = w
    BY <1>1 DEF Removed
  <2> QED BY <2>1, ViewIs, TurnsSame
<1>2. CASE key # Null
  <2>1. PICK a \in Nat : v = Obj(a) /\ v.id = a
    BY <1>2, ValueIs
  <2>2. u = CreateDraft(EnsureShallowCopy(w), a, key)
    BY <1>2, <2>1 DEF Removed
  <2>3. CreatedFrom(w, u)
    BY <1>0, <2>2, CreateDraftFields
  <2>4. key \in DOMAIN base.array /\ base.array[key] = Obj(a)
    BY <1>2, <2>1
  <2>5. Grows(w, u)
    BY <1>0, <2>2, <2>4, CreatedGrows
  <2>6. /\ u \in World /\ u.array = w.array /\ u.operated = w.operated
        /\ u.assigned = w.assigned /\ u.children = w.children
    BY <2>3 DEF CreatedFrom
  <2>7. CachesRight(u)
    BY <1>0, <2>3 DEF CreatedFrom, CachesRight
  <2>8. Untouched(u)
    BY <2>5, <2>6, UntouchedStays
  <2> QED BY <2>5, <2>6, <2>7, <2>8, ArrayStays
<1> QED BY <1>1, <1>2

LEMMA CheckDenseTurns ==
    ASSUME NEW w, Sound(w), NEW u, u = CheckDense(w)
    PROVE  /\ Turns(w, u, View(w)) /\ u.array = w.array
           /\ u.dense = "yes" => ~HasHoles(w.array)
<1>0. w \in World /\ CachesRight(w) /\ w.dense \in Cache
  BY SoundParts, WorldParts
<1>1. CASE w.dense # "unknown"
  <2>1. u = w
    BY <1>1 DEF CheckDense
  <2> QED BY <1>0, <2>1, ViewIs, TurnsSame DEF CachesRight
<1>2. CASE w.dense = "unknown"
  <2>1. u = [w EXCEPT !.dense = IF HasHoles(w.array) THEN "no" ELSE "yes"]
    BY <1>2 DEF CheckDense
  <2>a. PICK x \in Cache : x = IF HasHoles(w.array) THEN "no" ELSE "yes"
    BY DEF Cache
  <2>b. u = [w EXCEPT !.dense = x]
    BY <2>1, <2>a
  <2>c. x \in Cache
    BY <2>a
  <2>2. /\ u \in World /\ u.array = w.array /\ u.operated = w.operated
        /\ u.assigned = w.assigned /\ u.children = w.children
        /\ u.copied = w.copied /\ u.inert = w.inert
        /\ u.original = w.original /\ u.heap = w.heap
        /\ u.drafts = w.drafts /\ u.tasks = w.tasks /\ u.relocated = w.relocated
        /\ u.dense = x
    BY <1>0, <2>b, <2>c DEF World
  <2>3. Grows(w, u)
    BY <1>0, <2>2, GrowsSame
  <2>4. CachesRight(u)
    BY <1>0, <2>2, <2>a DEF CachesRight
  <2>5. Untouched(u)
    BY <2>2, <2>3, UntouchedStays
  <2> QED BY <2>a, <2>2, <2>3, <2>4, <2>5, ArrayStays
<1> QED BY <1>1, <1>2

LEMMA CheckInertTurns ==
    ASSUME NEW w, Sound(w), NEW u, u = CheckInert(w)
    PROVE  /\ Turns(w, u, View(w)) /\ u.array = w.array
           /\ u.inert = "yes" => \A i \in DOMAIN w.array : ~IsRef(w.array[i])
<1>0. w \in World /\ CachesRight(w) /\ w.inert \in Cache
  BY SoundParts, WorldParts
<1>1. CASE w.inert # "unknown"
  <2>1. u = w
    BY <1>1 DEF CheckInert
  <2> QED BY <1>0, <2>1, ViewIs, TurnsSame DEF CachesRight
<1>2. CASE w.inert = "unknown"
  <2> DEFINE some == \E i \in DOMAIN w.array : IsRef(w.array[i])
  <2>1. u = [w EXCEPT !.inert = IF some THEN "no" ELSE "yes"]
    BY <1>2 DEF CheckInert
  <2> HIDE DEF some
  <2>a. PICK x \in Cache : x = IF some THEN "no" ELSE "yes"
    BY DEF Cache
  <2>b. u = [w EXCEPT !.inert = x]
    BY <2>1, <2>a
  <2>c. x \in Cache
    BY <2>a
  <2>2. /\ u \in World /\ u.array = w.array /\ u.operated = w.operated
        /\ u.assigned = w.assigned /\ u.children = w.children
        /\ u.copied = w.copied /\ u.dense = w.dense
        /\ u.original = w.original /\ u.heap = w.heap
        /\ u.drafts = w.drafts /\ u.tasks = w.tasks /\ u.relocated = w.relocated
        /\ u.inert = x
    BY <1>0, <2>b, <2>c DEF World
  <2>3. Grows(w, u)
    BY <1>0, <2>2, GrowsSame
  <2>4. CachesRight(u)
    BY <1>0, <2>2, <2>a DEF CachesRight, some
  <2>5. Untouched(u)
    BY <2>2, <2>3, UntouchedStays
  <2>6. u.inert = "yes" => \A i \in DOMAIN w.array : ~IsRef(w.array[i])
    BY <2>2, <2>a DEF some
  <2> QED BY <2>a, <2>2, <2>3, <2>4, <2>5, <2>6, ArrayStays
<1> QED BY <1>1, <1>2

-----------------------------------------------------------------------------
(***************************************************************************)
(* The steps of a loop over the elements.                                  *)
(***************************************************************************)

\* What is at i, where x was, after v arrives there.
Lands(x, i, v) == IF v = Absent THEN Emptied(x) ELSE Settle(i, v)

\* A step leads from f to g, as a reader sees the array.
Leads(step, f, g) ==
    /\ step.op \in {"read", "remove"} => \A i \in Index : g[i] = f[i]
    /\ step.op = "set" =>
          \A i \in Index :
             g[i] = IF i = step.at THEN Settle(step.at, step.value) ELSE f[i]
    /\ step.op = "delete" =>
          \A i \in Index : g[i] = IF i = step.at THEN Emptied(f[i]) ELSE f[i]
    /\ step.op = "move" =>
          \A i \in Index :
             g[i] = IF i = step.at THEN Lands(f[step.at], step.at, f[step.from])
                    ELSE f[i]
    /\ step.op = "swap" =>
          \A i \in Index :
             g[i] = IF i = step.at THEN Lands(f[step.at], step.at, f[step.from])
                    ELSE IF i = step.from
                    THEN Lands(f[step.from], step.from, f[step.at])
                    ELSE f[i]

Legal(w, step) ==
    /\ step.op \in {"read", "set", "delete", "move", "swap", "remove"}
    /\ step.op # "remove" => step.at \in Index
    /\ step.op \in {"move", "swap"} => step.from \in Index
    /\ step.op = "swap" => step.from # step.at
    /\ step.op = "set" => Usable(w, step.value)
    /\ step.op = "remove" =>
          /\ step.value \in Value /\ step.at \in Nat
          /\ step.at # Null => /\ step.at \in DOMAIN base.array
                               /\ base.array[step.at] = step.value
                               /\ IsObj(step.value)

LEMMA UsableStays ==
    ASSUME NEW w \in World, NEW u \in World, Grows(w, u), NEW v, Usable(w, v)
    PROVE  Usable(u, v)
<1>1. DOMAIN w.drafts \subseteq DOMAIN u.drafts
  BY GrowsDomain
<1> QED BY <1>1 DEF Usable, Grows

\* What an index holds can be assigned elsewhere.
LEMMA HeldUsable ==
    ASSUME NEW w, Sound(w), NEW i \in Index, At(w.array, i) # Absent
    PROVE  Usable(w, At(w.array, i))
<1>1. w.array \in Seq(Value) /\ AllFit(w) /\ i \in Nat
  BY SoundParts, WorldParts DEF Index
<1>2. At(w.array, i) \in Value /\ Fits(w, i, At(w.array, i))
  BY <1>1, AtIs DEF AllFit
<1> QED BY <1>2 DEF Usable, Fits

LEMMA ShowsAbsent ==
    ASSUME NEW w, NEW u, NEW x, NEW y, Shows(w, u, x, y)
    PROVE  (x = Absent <=> y = Absent) /\ Emptied(x) = Emptied(y)
<1>1. CASE y = x
  BY <1>1
<1>2. CASE y # x
  <2>1. x.kind = "base" /\ y.kind = "draft"
    BY <1>2 DEF Shows, IsDraft
  <2>2. x # Absent /\ y # Absent
    BY <2>1 DEF Absent
  <2> QED BY <2>2 DEF Emptied
<1> QED BY <1>1, <1>2

LEMMA SettleShows ==
    ASSUME NEW w, NEW u, NEW x, NEW y, Shows(w, u, x, y), NEW i
    PROVE  Shows(w, u, Settle(i, x), Settle(i, y))
<1>1. CASE y = x
  BY <1>1 DEF Shows
<1>2. CASE y # x
  <2>1. x.kind = "base" /\ IsDraft(y)
    BY <1>2 DEF Shows
  <2>2. ~IsObj(x) /\ ~IsObj(y)
    BY <2>1 DEF IsObj, IsDraft
  <2>3. Settle(i, x) = x /\ Settle(i, y) = y
    BY <2>2 DEF Settle
  <2> QED BY <2>3
<1> QED BY <1>1, <1>2

LEMMA LandsShows ==
    ASSUME NEW w, NEW u, NEW x, NEW y, Shows(w, u, x, y),
           NEW a, NEW b, Shows(w, u, a, b), NEW i
    PROVE  Shows(w, u, Lands(x, i, a), Lands(y, i, b))
<1>1. (a = Absent <=> b = Absent) /\ Emptied(x) = Emptied(y)
  BY ShowsAbsent
<1>2. Shows(w, u, Settle(i, a), Settle(i, b))
  BY SettleShows
<1>3. CASE a = Absent
  BY <1>1, <1>3 DEF Lands, Shows
<1>4. CASE a # Absent
  BY <1>1, <1>2, <1>4 DEF Lands
<1> QED BY <1>3, <1>4

\* An element arrives, or nothing does.
Put(w, i, b) == IF b # Absent THEN SetTrap(w, i, b) ELSE DeleteTrap(w, i)

LEMMA PutTurns ==
    ASSUME BaseOK, NEW w, Sound(w), NEW i \in Index, NEW b,
           b # Absent => Usable(w, b), NEW u, u = Put(w, i, b)
    PROVE  /\ Turns(w, u, [View(w) EXCEPT ![i] = Lands(SlotAt(w, i), i, b)])
           /\ Len(u.array) = IF b # Absent /\ i > Len(w.array) THEN i ELSE Len(w.array)
<1>1. CASE b # Absent
  <2>1. u = SetTrap(w, i, b) /\ Lands(SlotAt(w, i), i, b) = Settle(i, b)
    BY <1>1 DEF Put, Lands
  <2> QED BY <1>1, <2>1, SetTrapTurns
<1>2. CASE b = Absent
  <2>1. u = DeleteTrap(w, i) /\ Lands(SlotAt(w, i), i, b) = Emptied(SlotAt(w, i))
    BY <1>2 DEF Put, Lands
  <2> QED BY <1>2, <2>1, DeleteTrapTurns
<1> QED BY <1>1, <1>2

\* An element that a reader of w knows as c arrives in t, where it is b.
LEMMA PutAfter ==
    ASSUME BaseOK, NEW w \in World, NEW t, NEW f, Turns(w, t, f), NEW i \in Index,
           NEW b, b # Absent => Usable(t, b), NEW c, Shows(w, t, c, b),
           NEW u, u = Put(t, i, b),
           NEW g, g[i] = Lands(f[i], i, c), \A j \in Index : j # i => g[j] = f[j]
    PROVE  /\ Turns(w, u, g) /\ Grows(t, u)
           /\ Len(u.array) = IF b # Absent /\ i > Len(t.array) THEN i ELSE Len(t.array)
<1>0. Sound(t) /\ Grows(w, t) /\ t \in World
  BY TurnsParts, SoundParts
<1> DEFINE h == [View(t) EXCEPT ![i] = Lands(SlotAt(t, i), i, b)]
<1>1. /\ Turns(t, u, h)
      /\ Len(u.array) = IF b # Absent /\ i > Len(t.array) THEN i ELSE Len(t.array)
  BY <1>0, PutTurns
<1>2. /\ h[i] = Lands(SlotAt(t, i), i, b)
      /\ \A j \in Index : j # i => h[j] = SlotAt(t, j)
  BY DEF View
<1> HIDE DEF h
<1>3. \A j \in Index : Shows(w, t, f[j], SlotAt(t, j))
  BY DEF Turns
<1>4. ASSUME NEW j \in Index
      PROVE  Shows(w, t, g[j], h[j])
  <2>1. CASE j = i
    <3>1. PICK x, y : x = f[i] /\ y = SlotAt(t, i)
      OBVIOUS
    <3>2. Shows(w, t, x, y)
      BY <1>3, <3>1
    <3>3. Shows(w, t, Lands(x, i, c), Lands(y, i, b))
      BY <3>2, LandsShows
    <3> QED BY <1>2, <2>1, <3>1, <3>3
  <2>2. CASE j # i
    BY <1>2, <1>3, <2>2
  <2> QED BY <2>1, <2>2
<1>5. u \in World /\ Grows(t, u)
  BY <1>1, TurnsParts, SoundParts
<1>6. Turns(w, u, g)
  BY <1>0, <1>1, <1>4, <1>5, TurnsTwice
<1> QED BY <1>1, <1>5, <1>6

LEMMA MoveTurns ==
    ASSUME BaseOK, NEW w, Sound(w), NEW from \in Index, NEW to \in Index,
           NEW u, u = Move(w, from, to),
           NEW g, g[to] = Lands(SlotAt(w, to), to, SlotAt(w, from)),
           \A j \in Index : j # to => g[j] = SlotAt(w, j)
    PROVE  /\ Turns(w, u, g)
           /\ to <= Len(w.array) => Len(u.array) = Len(w.array)
<1>0. w \in World /\ w.array \in Seq(Value) /\ Len(w.array) \in Nat /\ to \in Nat
  BY SoundParts, WorldParts, LenProperties DEF Index
<1>1. CASE Own(w.array, from)
  <2>1. PICK t : t = GetTrap(w, from)
    OBVIOUS
  <2>2. GotFrom(w, t, from)
    BY <2>1, GetTrapTurns
  <2>3. /\ Turns(w, t, View(w)) /\ Len(t.array) = Len(w.array)
        /\ At(t.array, from) = SlotAt(t, from) /\ At(t.array, from) # Absent
    BY <1>1, <2>2 DEF GotFrom, Own
  <2>4. Sound(t) /\ Grows(w, t)
    BY <2>3, TurnsParts
  <2>5. PICK b : b = At(t.array, from) /\ Usable(t, b) /\ b # Absent
    BY <2>3, <2>4, HeldUsable
  <2>6. At(t.array, from) = t.array[from]
    BY <2>3 DEF At
  <2>7. u = Put(t, to, b)
    BY <1>1, <2>1, <2>5, <2>6 DEF Move, Put
  <2>8. PICK c : c = SlotAt(w, from)
    OBVIOUS
  <2>9. Shows(w, t, c, b)
    BY <2>3, <2>5, <2>8, ViewIs DEF Turns
  <2>10. PICK f : f = View(w)
    OBVIOUS
  <2>11. g[to] = Lands(f[to], to, c) /\ \A j \in Index : j # to => g[j] = f[j]
    BY <2>8, <2>10, ViewIs
  <2>12. /\ Turns(w, u, g)
         /\ Len(u.array) = IF b # Absent /\ to > Len(t.array) THEN to ELSE Len(t.array)
    BY <1>0, <2>3, <2>5, <2>7, <2>9, <2>10, <2>11, PutAfter
  <2> QED BY <1>0, <2>3, <2>12
<1>2. CASE ~Own(w.array, from)
  <2>1. u = Put(w, to, Absent)
    BY <1>2 DEF Move, Put
  <2>2. SlotAt(w, from) = Absent
    BY <1>2, AbsentSlot DEF Own
  <2>3. PICK f : f = View(w)
    OBVIOUS
  <2>4. Turns(w, w, f)
    BY <2>3, ViewIs, TurnsSame
  <2>5. PICK b : b = Absent
    OBVIOUS
  <2>6. Shows(w, w, b, b)
    BY DEF Shows
  <2>7. g[to] = Lands(f[to], to, b) /\ \A j \in Index : j # to => g[j] = f[j]
    BY <2>2, <2>3, <2>5, ViewIs
  <2>8. /\ Turns(w, u, g)
        /\ Len(u.array) = IF b # Absent /\ to > Len(w.array) THEN to ELSE Len(w.array)
    BY <1>0, <2>1, <2>4, <2>5, <2>6, <2>7, PutAfter
  <2> QED BY <2>5, <2>8
<1> QED BY <1>1, <1>2

LEMMA BaseKind ==
    ASSUME NEW w, NEW i, SlotAt(w, i).kind # "base"
    PROVE  SlotAt(w, i) = At(w.array, i)
BY DEF SlotAt, SlotOf, Base

LEMMA SwapTurns ==
    ASSUME BaseOK, NEW w, Sound(w), NEW low \in Index, NEW high \in Index, low # high,
           NEW u, u = Swap(w, low, high),
           NEW g, g[low] = Lands(SlotAt(w, low), low, SlotAt(w, high)),
           g[high] = Lands(SlotAt(w, high), high, SlotAt(w, low)),
           \A j \in Index : j # low /\ j # high => g[j] = SlotAt(w, j)
    PROVE  /\ Turns(w, u, g)
           /\ low <= Len(w.array) /\ high <= Len(w.array) => Len(u.array) = Len(w.array)
<1>0. /\ w \in World /\ w.array \in Seq(Value) /\ Len(w.array) \in Nat
      /\ low \in Nat /\ high \in Nat
  BY SoundParts, WorldParts, LenProperties DEF Index
<1>1. PICK t1 : t1 = GetTrap(w, low)
  OBVIOUS
<1>2. GotFrom(w, t1, low)
  BY <1>1, GetTrapTurns
<1>3. /\ Turns(w, t1, View(w)) /\ Len(t1.array) = Len(w.array)
      /\ At(t1.array, low) = SlotAt(t1, low)
  BY <1>2 DEF GotFrom
<1>4. Sound(t1) /\ Grows(w, t1) /\ t1 \in World
  BY <1>3, TurnsParts, SoundParts
<1>5. PICK t2 : t2 = GetTrap(t1, high)
  OBVIOUS
<1>6. GotFrom(t1, t2, high)
  BY <1>4, <1>5, GetTrapTurns
<1>7. /\ Turns(t1, t2, View(t1)) /\ Len(t2.array) = Len(w.array)
      /\ At(t2.array, high) = SlotAt(t2, high)
  BY <1>3, <1>6 DEF GotFrom
<1>8. Sound(t2) /\ Grows(t1, t2) /\ t2 \in World
  BY <1>7, TurnsParts, SoundParts
<1>9. At(t2.array, low) = SlotAt(t2, low)
  <2>1. Shows(t1, t2, SlotAt(t1, low), SlotAt(t2, low))
    BY <1>7, ViewIs DEF Turns
  <2>2. At(t1.array, low) \in Value
    BY <1>0, <1>4, WorldParts, AtIs
  <2>3. SlotAt(t1, low).kind # "base"
    BY <1>3, <2>2, ValueIs
  <2>4. SlotAt(t2, low) = SlotAt(t1, low)
    BY <2>1, <2>3 DEF Shows
  <2> QED BY <2>3, <2>4, BaseKind
<1>10. PICK f : f = View(w)
  OBVIOUS
<1>11. Turns(w, t2, f)
  <2>1. \A j \in Index : Shows(w, t1, f[j], View(t1)[j])
    BY <1>3, <1>10, ViewIs DEF Turns
  <2> QED BY <1>0, <1>4, <1>7, <1>8, <2>1, TurnsTwice
<1>12. PICK a, b : a = At(t2.array, low) /\ b = At(t2.array, high)
  OBVIOUS
<1>13. (a # Absent => Usable(t2, a)) /\ (b # Absent => Usable(t2, b))
  BY <1>8, <1>12, HeldUsable
<1>14. PICK c, e : c = SlotAt(w, low) /\ e = SlotAt(w, high)
  OBVIOUS
<1>15. Shows(w, t2, c, a) /\ Shows(w, t2, e, b)
  BY <1>7, <1>9, <1>10, <1>11, <1>12, <1>14, ViewIs DEF Turns
<1>16. PICK t3 : t3 = Put(t2, low, b)
  OBVIOUS
<1>17. PICK f3 : f3 = [f EXCEPT ![low] = Lands(f[low], low, e)]
  OBVIOUS
<1>18. f3[low] = Lands(f[low], low, e) /\ \A j \in Index : j # low => f3[j] = f[j]
  BY <1>10, <1>17 DEF View
<1>19. /\ Turns(w, t3, f3) /\ Grows(t2, t3)
       /\ Len(t3.array) = IF b # Absent /\ low > Len(t2.array) THEN low ELSE Len(t2.array)
  BY <1>0, <1>11, <1>13, <1>15, <1>16, <1>18, PutAfter
<1>20. Sound(t3) /\ t3 \in World
  BY <1>19, TurnsParts, SoundParts
<1>21. Shows(w, t3, c, a)
  <2>1. Shows(t2, t3, a, a)
    BY DEF Shows
  <2>2. Grows(w, t2)
    BY <1>11, TurnsParts
  <2> QED BY <1>0, <1>8, <1>15, <1>19, <1>20, <2>1, <2>2, ShowsTwice
<1>22. a # Absent => Usable(t3, a)
  BY <1>8, <1>13, <1>19, <1>20, UsableStays
<1>23. u = Put(t3, high, a)
  BY <1>1, <1>5, <1>12, <1>16 DEF Swap, Put
<1>24. g[high] = Lands(f3[high], high, c) /\ \A j \in Index : j # high => g[j] = f3[j]
  BY <1>10, <1>14, <1>18, ViewIs
<1>25. /\ Turns(w, u, g)
       /\ Len(u.array) = IF a # Absent /\ high > Len(t3.array) THEN high
                         ELSE Len(t3.array)
  BY <1>0, <1>19, <1>21, <1>22, <1>23, <1>24, PutAfter
<1> QED BY <1>0, <1>7, <1>19, <1>25

\* A step that is right from t on is right from w on.
LEMMA AfterTurns ==
    ASSUME NEW w \in World, NEW t, NEW f, Turns(w, t, f), NEW u, NEW h, Turns(t, u, h),
           NEW g, \A j \in Index : Shows(w, t, g[j], h[j])
    PROVE  Turns(w, u, g) /\ Grows(t, u)
<1>1. t \in World /\ u \in World /\ Grows(w, t) /\ Grows(t, u)
  BY TurnsParts, SoundParts
<1>2. Turns(w, u, g)
  BY <1>1, TurnsTwice
<1> QED BY <1>1, <1>2

Stays(step, n) ==
    \/ step.op \in {"read", "delete", "remove"}
    \/ step.op \in {"set", "move"} /\ step.at <= n
    \/ step.op = "swap" /\ step.at <= n /\ step.from <= n

LEMMA TakeIs ==
    ASSUME NEW w, NEW step
    PROVE  /\ step.op = "read" => Take(w, step) = GetTrap(w, step.at)
           /\ step.op = "set" => Take(w, step) = SetTrap(w, step.at, step.value)
           /\ step.op = "delete" => Take(w, step) = DeleteTrap(w, step.at)
           /\ step.op = "move" => Take(w, step) = Move(w, step.from, step.at)
           /\ step.op = "swap" => Take(w, step) = Swap(w, step.from, step.at)
           /\ step.op = "remove" => Take(w, step) = Removed(w, step.value, step.at)
BY DEF Take

LEMMA TakeTurns ==
    ASSUME BaseOK, NEW w, Sound(w), NEW t, NEW f, Turns(w, t, f),
           NEW step, Legal(w, step), NEW u, u = Take(t, step),
           NEW g, Leads(step, f, g)
    PROVE  /\ Turns(w, u, g) /\ Grows(t, u)
           /\ Stays(step, Len(t.array)) => Len(u.array) = Len(t.array)
<1>0. w \in World /\ Sound(t) /\ t \in World /\ Grows(w, t)
  BY TurnsParts, SoundParts
<1>1. /\ t.array \in Seq(Value) /\ Len(t.array) \in Nat
      /\ \A j \in Index : Shows(w, t, f[j], SlotAt(t, j))
  BY <1>0, WorldParts, LenProperties DEF Turns
<1>2. PICK at, from, v : at = step.at /\ from = step.from /\ v = step.value
  OBVIOUS
<1>3. ASSUME step.op \in {"read", "remove"}, Turns(t, u, View(t))
      PROVE  Turns(w, u, g) /\ Grows(t, u)
  <2>1. \A j \in Index : g[j] = f[j]
    BY <1>3 DEF Leads
  <2>2. PICK h : h = View(t)
    OBVIOUS
  <2>3. \A j \in Index : Shows(w, t, g[j], h[j])
    BY <1>1, <2>1, <2>2, ViewIs
  <2> QED BY <1>0, <1>3, <2>2, <2>3, AfterTurns
<1>4. CASE step.op = "read"
  <2>1. u = GetTrap(t, at) /\ at \in Index
    BY <1>2, <1>4, TakeIs DEF Legal
  <2>2. GotFrom(t, u, at)
    BY <1>0, <2>1, GetTrapTurns
  <2> QED BY <1>3, <1>4, <2>2 DEF GotFrom
<1>5. CASE step.op = "remove"
  <2>1. u = Removed(t, v, at)
    BY <1>2, <1>5, TakeIs
  <2>2. /\ v \in Value /\ at \in Nat
        /\ at # Null => at \in DOMAIN base.array /\ base.array[at] = v /\ IsObj(v)
    BY <1>2, <1>5 DEF Legal
  <2>3. Turns(t, u, View(t)) /\ u.array = t.array
    BY <1>0, <2>1, <2>2, RemovedTurns
  <2> QED BY <1>3, <1>5, <2>3
<1>6. CASE step.op = "set"
  <2>1. u = SetTrap(t, at, v) /\ at \in Index /\ Usable(w, v)
    BY <1>2, <1>6, TakeIs DEF Legal
  <2>2. Usable(t, v) /\ v # Absent
    BY <1>0, <2>1, UsableStays DEF Usable
  <2>3. u = Put(t, at, v) /\ at \in Nat
    BY <2>1, <2>2 DEF Put, Index
  <2>4. g[at] = Lands(f[at], at, v) /\ \A j \in Index : j # at => g[j] = f[j]
    BY <1>2, <1>6, <2>1, <2>2 DEF Leads, Lands
  <2>5. Shows(w, t, v, v)
    BY DEF Shows
  <2>6. /\ Turns(w, u, g) /\ Grows(t, u)
        /\ Len(u.array) = IF v # Absent /\ at > Len(t.array) THEN at ELSE Len(t.array)
    BY <1>0, <2>1, <2>2, <2>3, <2>4, <2>5, PutAfter
  <2>7. Stays(step, Len(t.array)) => at <= Len(t.array)
    BY <1>2, <1>6 DEF Stays
  <2> QED BY <1>1, <2>3, <2>6, <2>7
<1>7. CASE step.op = "delete"
  <2>1. u = DeleteTrap(t, at) /\ at \in Index
    BY <1>2, <1>7, TakeIs DEF Legal
  <2>2. PICK b : b = Absent
    OBVIOUS
  <2>3. u = Put(t, at, b)
    BY <2>1, <2>2 DEF Put
  <2>4. g[at] = Lands(f[at], at, b) /\ \A j \in Index : j # at => g[j] = f[j]
    BY <1>2, <1>7, <2>1, <2>2 DEF Leads, Lands
  <2>5. Shows(w, t, b, b)
    BY DEF Shows
  <2>6. /\ Turns(w, u, g) /\ Grows(t, u)
        /\ Len(u.array) = IF b # Absent /\ at > Len(t.array) THEN at ELSE Len(t.array)
    BY <1>0, <2>1, <2>2, <2>3, <2>4, <2>5, PutAfter
  <2> QED BY <2>2, <2>6
<1>8. CASE step.op = "move"
  <2>1. u = Move(t, from, at) /\ at \in Index /\ from \in Index
    BY <1>2, <1>8, TakeIs DEF Legal
  <2>2. PICK h : h = [View(t) EXCEPT
                         ![at] = Lands(SlotAt(t, at), at, SlotAt(t, from))]
    OBVIOUS
  <2>3. /\ h[at] = Lands(SlotAt(t, at), at, SlotAt(t, from))
        /\ \A j \in Index : j # at => h[j] = SlotAt(t, j)
    BY <2>1, <2>2 DEF View
  <2>4. /\ Turns(t, u, h)
        /\ at <= Len(t.array) => Len(u.array) = Len(t.array)
    BY <1>0, <2>1, <2>3, MoveTurns
  <2>5. /\ g[at] = Lands(f[at], at, f[from])
        /\ \A j \in Index : j # at => g[j] = f[j]
    BY <1>2, <1>8, <2>1 DEF Leads
  <2>6. Shows(w, t, g[at], h[at])
    <3>1. PICK x, y, c, b : /\ x = f[at] /\ y = SlotAt(t, at)
                            /\ c = f[from] /\ b = SlotAt(t, from)
      OBVIOUS
    <3>2. Shows(w, t, x, y) /\ Shows(w, t, c, b)
      BY <1>1, <2>1, <3>1
    <3>3. Shows(w, t, Lands(x, at, c), Lands(y, at, b))
      BY <3>2, LandsShows
    <3> QED BY <2>3, <2>5, <3>1, <3>3
  <2>7. \A j \in Index : Shows(w, t, g[j], h[j])
    BY <1>1, <2>3, <2>5, <2>6
  <2>8. Stays(step, Len(t.array)) => at <= Len(t.array)
    BY <1>2, <1>8 DEF Stays
  <2> QED BY <1>0, <2>4, <2>7, <2>8, AfterTurns
<1>9. CASE step.op = "swap"
  <2>1. u = Swap(t, from, at) /\ at \in Index /\ from \in Index /\ from # at
    BY <1>2, <1>9, TakeIs DEF Legal
  <2>2. PICK h : h = [View(t) EXCEPT
                         ![at] = Lands(SlotAt(t, at), at, SlotAt(t, from)),
                         ![from] = Lands(SlotAt(t, from), from, SlotAt(t, at))]
    OBVIOUS
  <2>3. /\ h[at] = Lands(SlotAt(t, at), at, SlotAt(t, from))
        /\ h[from] = Lands(SlotAt(t, from), from, SlotAt(t, at))
        /\ \A j \in Index : j # from /\ j # at => h[j] = SlotAt(t, j)
    BY <2>1, <2>2 DEF View
  <2>4. /\ Turns(t, u, h)
        /\ from <= Len(t.array) /\ at <= Len(t.array) => Len(u.array) = Len(t.array)
    BY <1>0, <2>1, <2>3, SwapTurns
  <2>5. /\ g[at] = Lands(f[at], at, f[from])
        /\ g[from] = Lands(f[from], from, f[at])
        /\ \A j \in Index : j # from /\ j # at => g[j] = f[j]
    BY <1>2, <1>9, <2>1 DEF Leads
  <2>6. Shows(w, t, g[at], h[at]) /\ Shows(w, t, g[from], h[from])
    <3>1. PICK x, y, c, b : /\ x = f[at] /\ y = SlotAt(t, at)
                            /\ c = f[from] /\ b = SlotAt(t, from)
      OBVIOUS
    <3>2. Shows(w, t, x, y) /\ Shows(w, t, c, b)
      BY <1>1, <2>1, <3>1
    <3>3. Shows(w, t, Lands(x, at, c), Lands(y, at, b))
      BY <3>2, LandsShows
    <3>4. Shows(w, t, Lands(c, from, x), Lands(b, from, y))
      BY <3>2, LandsShows
    <3> QED BY <2>3, <2>5, <3>1, <3>3, <3>4
  <2>7. \A j \in Index : Shows(w, t, g[j], h[j])
    BY <1>1, <2>3, <2>5, <2>6
  <2>8. Stays(step, Len(t.array)) => at <= Len(t.array) /\ from <= Len(t.array)
    BY <1>2, <1>9 DEF Stays
  <2> QED BY <1>0, <2>4, <2>7, <2>8, AfterTurns
<1> QED BY <1>4, <1>5, <1>6, <1>7, <1>8, <1>9 DEF Legal

-----------------------------------------------------------------------------
(***************************************************************************)
(* A loop over the elements.                                               *)
(***************************************************************************)

LEMMA ListIs ==
    ASSUME NEW n \in Nat, NEW s, s = [j \in 1 .. n |-> s[j]]
    PROVE  Len(s) = n /\ DOMAIN s = 1 .. n
<1> DEFINE S == {s[j] : j \in 1 .. n}
<1>1. \A j \in 1 .. n : s[j] \in S
  OBVIOUS
<1> HIDE DEF S
<1>2. s \in [1 .. n -> S]
  BY <1>1
<1>3. s \in Seq(S) /\ Len(s) = n
  BY <1>2
<1>4. DOMAIN s = 1 .. n
  BY <1>2
<1> QED BY <1>3, <1>4

\* The worlds after each number of steps.
Running(w, steps, f) ==
    f = [n \in 0 .. Len(steps) |-> IF n = 0 THEN w ELSE Take(f[n - 1], steps[n])]

\* There are such worlds: those up to some step give those up to the next.
LEMMA Runs ==
    ASSUME NEW w, NEW steps, Len(steps) \in Nat
    PROVE  \E f : Running(w, steps, f)
<1> DEFINE turn(t, n) == Take(t, steps[n])
           E(f, m) == f = [n \in 0 .. m |-> IF n = 0 THEN w ELSE turn(f[n - 1], n)]
           T       == {m \in Nat : \E f : E(f, m)}
<1> HIDE DEF turn
<1>1. 0 \in T
  <2> DEFINE f == [n \in 0 .. 0 |-> w]
  <2>1. \A n \in 0 .. 0 : n = 0
    OBVIOUS
  <2>2. E(f, 0)
    BY <2>1
  <2> QED
    BY <2>2
<1>2. ASSUME NEW m \in Nat, m \in T PROVE m + 1 \in T
  <2>1. PICK f : E(f, m)
    BY <1>2
  <2> DEFINE next == turn(f[m], m + 1)
             g == [n \in 0 .. m + 1 |-> IF n = m + 1 THEN next ELSE f[n]]
             h == [n \in 0 .. m + 1 |-> IF n = 0 THEN w ELSE turn(g[n - 1], n)]
  <2>2. ASSUME NEW n \in 0 .. m + 1
        PROVE  g[n] = IF n = 0 THEN w ELSE turn(g[n - 1], n)
    <3>1. CASE n = m + 1
      <4>1. g[n] = next /\ n # 0 /\ n - 1 = m /\ m \in 0 .. m + 1 /\ m # m + 1
        BY <3>1
      <4>2. g[n - 1] = f[m]
        BY <4>1
      <4> QED
        BY <3>1, <4>1, <4>2
    <3>2. CASE n # m + 1
      <4>1. n \in 0 .. m /\ g[n] = f[n]
        BY <3>2
      <4>2. f[n] = IF n = 0 THEN w ELSE turn(f[n - 1], n)
        BY <2>1, <4>1
      <4>3. ASSUME n # 0 PROVE g[n - 1] = f[n - 1]
        BY <3>2, <4>3
      <4> QED
        BY <4>1, <4>2, <4>3
    <3> QED
      BY <3>1, <3>2
  <2>3. g = h
    <3> HIDE DEF next
    <3>1. \A n \in 0 .. m + 1 : g[n] = h[n]
      BY <2>2
    <3> QED
      BY <3>1
  <2>4. E(g, m + 1)
    BY <2>3
  <2> HIDE DEF g, h, E
  <2> QED
    BY <2>4
<1> HIDE DEF T
<1>3. Len(steps) \in T
  BY <1>1, <1>2, SetInduction
<1> QED
  BY <1>3 DEF T, Running, turn

LEMMA RunTurns ==
    ASSUME BaseOK, NEW w, Sound(w), NEW n \in Nat,
           NEW steps, steps = [j \in 1 .. n |-> steps[j]],
           \A j \in 1 .. n : Legal(w, steps[j]),
           NEW g, \A j \in 1 .. n : Leads(steps[j], g[j - 1], g[j]),
           NEW t, Turns(w, t, g[0]), NEW u, u = Run(t, steps)
    PROVE  /\ Turns(w, u, g[n])
           /\ (\A j \in 1 .. n : Stays(steps[j], Len(t.array))) =>
                 Len(u.array) = Len(t.array)
<1> DEFINE run == CHOOSE f : Running(t, steps, f)
           T == {m \in Nat : m <= n =>
                    /\ Turns(w, run[m], g[m])
                    /\ (\A j \in 1 .. n : Stays(steps[j], Len(t.array))) =>
                          Len(run[m].array) = Len(t.array)}
<1>1. Len(steps) = n /\ DOMAIN steps = 1 .. n
  BY ListIs
<1>2. Running(t, steps, run)
  BY <1>1, Runs
<1>3. u = run[n]
  BY <1>1 DEF Run, Running
<1> HIDE DEF run
<1>4. 0 \in T
  <2>1. run[0] = t
    BY <1>1, <1>2 DEF Running
  <2> QED BY <2>1
<1>5. ASSUME NEW m \in Nat, m \in T PROVE m + 1 \in T
  <2> SUFFICES ASSUME m + 1 <= n
               PROVE  /\ Turns(w, run[m + 1], g[m + 1])
                      /\ (\A j \in 1 .. n : Stays(steps[j], Len(t.array))) =>
                            Len(run[m + 1].array) = Len(t.array)
    OBVIOUS
  <2>1. PICK i \in 1 .. n : i = m + 1 /\ i # 0 /\ i - 1 = m /\ i \in 0 .. n
    OBVIOUS
  <2>2. /\ Turns(w, run[m], g[m])
        /\ (\A j \in 1 .. n : Stays(steps[j], Len(t.array))) =>
              Len(run[m].array) = Len(t.array)
    BY <1>5
  <2>3. run[i] = Take(run[m], steps[i])
    BY <1>1, <1>2, <2>1 DEF Running
  <2>4. Leads(steps[i], g[m], g[i]) /\ Legal(w, steps[i])
    BY <2>1
  <2>5. PICK a, b, f, h, step : /\ a = run[m] /\ b = run[i] /\ f = g[m] /\ h = g[i]
                                /\ step = steps[i]
    OBVIOUS
  <2>6. /\ Turns(w, b, h)
        /\ Stays(step, Len(a.array)) => Len(b.array) = Len(a.array)
    BY <2>2, <2>3, <2>4, <2>5, TakeTurns
  <2> QED BY <2>1, <2>2, <2>5, <2>6
<1> HIDE DEF T
<1>6. n \in T
  BY <1>4, <1>5, SetInduction
<1> QED BY <1>3, <1>6 DEF T

\* Elements are read,
LEMMA ReadAllTurns ==
    ASSUME BaseOK, NEW w, Sound(w), NEW c \in Nat,
           NEW indices, DOMAIN indices = 1 .. c, \A j \in 1 .. c : indices[j] \in Index,
           NEW t, NEW f, Turns(w, t, f), NEW u, u = ReadAll(t, indices)
    PROVE  Turns(w, u, f) /\ Len(u.array) = Len(t.array)
<1> DEFINE steps == [j \in 1 .. c |-> Step("read", indices[j], 0, Absent)]
           g == [k \in 0 .. c |-> f]
<1>1. u = Run(t, steps)
  BY DEF ReadAll
<1>2. ASSUME NEW j \in 1 .. c
      PROVE  /\ steps[j].op = "read" /\ steps[j].at = indices[j]
             /\ g[j] = f /\ g[j - 1] = f
  BY DEF Step
<1>3. g[0] = f /\ g[c] = f /\ steps = [j \in 1 .. c |-> steps[j]]
  OBVIOUS
<1> HIDE DEF steps, g
<1>4. \A j \in 1 .. c : Legal(w, steps[j]) /\ Stays(steps[j], Len(t.array))
  BY <1>2 DEF Legal, Stays
<1>5. \A j \in 1 .. c : Leads(steps[j], g[j - 1], g[j])
  BY <1>2 DEF Leads
<1>6. Turns(w, t, g[0])
  BY <1>3
<1>7. \A j \in 1 .. c : Legal(w, steps[j])
  BY <1>4
<1>8. /\ Turns(w, u, g[c])
      /\ (\A j \in 1 .. c : Stays(steps[j], Len(t.array))) => Len(u.array) = Len(t.array)
  BY <1>1, <1>3, <1>5, <1>6, <1>7, RunTurns
<1> QED BY <1>3, <1>4, <1>8

\* deleted,
EmptiedAt(f, h, indices, c) ==
    \A i \in Index : h[i] = IF \E j \in 1 .. c : indices[j] = i
                            THEN Emptied(f[i]) ELSE f[i]

LEMMA DeleteAllTurns ==
    ASSUME BaseOK, NEW w, Sound(w), NEW c \in Nat,
           NEW indices, DOMAIN indices = 1 .. c, \A j \in 1 .. c : indices[j] \in Index,
           NEW t, NEW f, Turns(w, t, f), NEW u, u = DeleteAll(t, indices),
           NEW h, EmptiedAt(f, h, indices, c)
    PROVE  Turns(w, u, h) /\ Len(u.array) = Len(t.array)
<1> DEFINE steps == [j \in 1 .. c |-> Step("delete", indices[j], 0, Absent)]
           g == [k \in 0 .. c |-> [i \in Index |->
                    IF \E j \in 1 .. k : indices[j] = i THEN Emptied(f[i]) ELSE f[i]]]
<1>1. u = Run(t, steps)
  BY DEF DeleteAll
<1>2. ASSUME NEW j \in 1 .. c
      PROVE  steps[j].op = "delete" /\ steps[j].at = indices[j]
  BY DEF Step
<1>3. steps = [j \in 1 .. c |-> steps[j]]
  OBVIOUS
<1>4. ASSUME NEW k \in 0 .. c, NEW i \in Index
      PROVE  g[k][i] = IF \E j \in 1 .. k : indices[j] = i THEN Emptied(f[i]) ELSE f[i]
  OBVIOUS
<1> HIDE DEF steps, g
<1>5. \A j \in 1 .. c : Legal(w, steps[j]) /\ Stays(steps[j], Len(t.array))
  BY <1>2 DEF Legal, Stays
<1>6. ASSUME NEW k \in 1 .. c
      PROVE  Leads(steps[k], g[k - 1], g[k])
  <2>1. ASSUME NEW i \in Index
        PROVE  g[k][i] = IF i = indices[k] THEN Emptied(g[k - 1][i]) ELSE g[k - 1][i]
    <3>1. k - 1 \in 0 .. c /\ k \in 0 .. c
      OBVIOUS
    <3>2. g[k][i] = IF \E j \in 1 .. k : indices[j] = i THEN Emptied(f[i]) ELSE f[i]
      BY <1>4, <3>1
    <3>3. g[k - 1][i] = IF \E j \in 1 .. k - 1 : indices[j] = i THEN Emptied(f[i]) ELSE f[i]
      BY <1>4, <3>1
    <3>4. (\E j \in 1 .. k : indices[j] = i)
             <=> i = indices[k] \/ \E j \in 1 .. k - 1 : indices[j] = i
      OBVIOUS
    <3>5. Emptied(Emptied(f[i])) = Emptied(f[i])
      BY UndefinedIs DEF Emptied
    <3> QED BY <3>2, <3>3, <3>4, <3>5
  <2> QED BY <1>2, <2>1 DEF Leads
<1>7. Turns(w, t, g[0])
  <2>1. \A i \in Index : g[0][i] = f[i]
    BY <1>4
  <2> QED BY <2>1 DEF Turns
<1>8. /\ Turns(w, u, g[c])
      /\ (\A j \in 1 .. c : Stays(steps[j], Len(t.array))) => Len(u.array) = Len(t.array)
  BY <1>1, <1>3, <1>5, <1>6, <1>7, RunTurns
<1>9. \A i \in Index : g[c][i] = h[i]
  BY <1>4 DEF EmptiedAt
<1>10. Turns(w, u, h)
  BY <1>8, <1>9 DEF Turns
<1> QED BY <1>5, <1>8, <1>10

\* assigned,
FilledFrom(f, h, start, items, c) ==
    \A i \in Index : h[i] = IF start <= i /\ i < start + c
                            THEN Settle(i, items[i - start + 1]) ELSE f[i]

LEMMA SetAllTurns ==
    ASSUME BaseOK, NEW w, Sound(w), NEW c \in Nat, NEW start \in Index,
           NEW items, DOMAIN items = 1 .. c, \A j \in 1 .. c : Usable(w, items[j]),
           NEW t, NEW f, Turns(w, t, f), NEW u, u = SetAll(t, start, items),
           NEW h, FilledFrom(f, h, start, items, c)
    PROVE  /\ Turns(w, u, h)
           /\ start + c <= Len(t.array) + 1 => Len(u.array) = Len(t.array)
<1> DEFINE steps == [j \in 1 .. c |-> Step("set", start + j - 1, 0, items[j])]
           g == [k \in 0 .. c |-> [i \in Index |->
                    IF start <= i /\ i < start + k THEN Settle(i, items[i - start + 1])
                    ELSE f[i]]]
<1>0. start \in Nat /\ start # 0
  BY DEF Index
<1>1. u = Run(t, steps)
  BY DEF SetAll
<1>2. ASSUME NEW j \in 1 .. c
      PROVE  /\ steps[j].op = "set" /\ steps[j].at = start + j - 1
             /\ steps[j].value = items[j]
  BY DEF Step
<1>3. steps = [j \in 1 .. c |-> steps[j]]
  OBVIOUS
<1>4. ASSUME NEW k \in 0 .. c, NEW i \in Index
      PROVE  g[k][i] = IF start <= i /\ i < start + k
                       THEN Settle(i, items[i - start + 1]) ELSE f[i]
  OBVIOUS
<1> HIDE DEF steps, g
<1>5. \A j \in 1 .. c : Legal(w, steps[j])
  BY <1>0, <1>2 DEF Legal, Index
<1>a. ASSUME start + c <= Len(t.array) + 1
      PROVE  \A j \in 1 .. c : Stays(steps[j], Len(t.array))
  <2>1. Len(t.array) \in Nat
    BY TurnsParts, SoundParts, WorldParts, LenProperties
  <2> QED BY <1>0, <1>2, <1>a, <2>1 DEF Stays
<1>6. ASSUME NEW k \in 1 .. c
      PROVE  Leads(steps[k], g[k - 1], g[k])
  <2>1. ASSUME NEW i \in Index
        PROVE  g[k][i] = IF i = start + k - 1 THEN Settle(start + k - 1, items[k])
                         ELSE g[k - 1][i]
    <3>1. k - 1 \in 0 .. c /\ k \in 0 .. c /\ i \in Nat
      BY DEF Index
    <3>2. g[k][i] = IF start <= i /\ i < start + k
                    THEN Settle(i, items[i - start + 1]) ELSE f[i]
      BY <1>4, <3>1
    <3>3. g[k - 1][i] = IF start <= i /\ i < start + (k - 1)
                        THEN Settle(i, items[i - start + 1]) ELSE f[i]
      BY <1>4, <3>1
    <3>4. CASE i = start + k - 1
      <4>1. i - start + 1 = k /\ start <= i /\ i < start + k
        BY <1>0, <3>1, <3>4
      <4> QED BY <3>2, <3>4, <4>1
    <3>5. CASE i # start + k - 1
      <4>1. (start <= i /\ i < start + k) <=> (start <= i /\ i < start + (k - 1))
        BY <1>0, <3>1, <3>5
      <4> QED BY <3>2, <3>3, <3>5, <4>1
    <3> QED BY <3>4, <3>5
  <2> QED BY <1>2, <2>1 DEF Leads
<1>7. Turns(w, t, g[0])
  <2>1. ASSUME NEW i \in Index PROVE g[0][i] = f[i]
    <3>1. ~(start <= i /\ i < start + 0)
      BY <1>0 DEF Index
    <3> QED BY <1>4, <3>1
  <2> QED BY <2>1 DEF Turns
<1>8. /\ Turns(w, u, g[c])
      /\ (\A j \in 1 .. c : Stays(steps[j], Len(t.array))) => Len(u.array) = Len(t.array)
  BY <1>1, <1>3, <1>5, <1>6, <1>7, RunTurns
<1>9. \A i \in Index : g[c][i] = h[i]
  BY <1>4 DEF FilledFrom
<1>10. Turns(w, u, h)
  BY <1>8, <1>9 DEF Turns
<1> QED BY <1>a, <1>8, <1>10

\* moved, from indices that no earlier move arrived at.
Ahead(froms, c, shift) ==
    /\ DOMAIN froms = 1 .. c
    /\ \A j \in 1 .. c : froms[j] \in Index /\ froms[j] + shift \in Index
    /\ \A j, k \in 1 .. c : j < k => /\ froms[j] # froms[k]
                                     /\ froms[j] + shift # froms[k]

MovedTo(froms, c, shift, f, h) ==
    \A i \in Index : h[i] = IF \E j \in 1 .. c : froms[j] + shift = i
                            THEN Lands(f[i], i, f[i - shift]) ELSE f[i]

LEMMA MoveAllTurns ==
    ASSUME BaseOK, NEW w, Sound(w), NEW c \in Nat, NEW shift \in Int,
           NEW froms, Ahead(froms, c, shift),
           NEW t, NEW f, Turns(w, t, f), NEW u, u = MoveAll(t, froms, shift),
           NEW h, MovedTo(froms, c, shift, f, h)
    PROVE  /\ Turns(w, u, h)
           /\ (\A j \in 1 .. c : froms[j] + shift <= Len(t.array)) =>
                 Len(u.array) = Len(t.array)
<1> DEFINE steps == [j \in 1 .. c |-> Step("move", froms[j] + shift, froms[j], Absent)]
           g == [k \in 0 .. c |-> [i \in Index |->
                    IF \E j \in 1 .. k : froms[j] + shift = i
                    THEN Lands(f[i], i, f[i - shift]) ELSE f[i]]]
<1>b. /\ DOMAIN froms = 1 .. c
      /\ \A j \in 1 .. c : froms[j] \in Index /\ froms[j] + shift \in Index
      /\ \A j, k \in 1 .. c : j < k => /\ froms[j] # froms[k]
                                       /\ froms[j] + shift # froms[k]
  BY DEF Ahead
<1>1. u = Run(t, steps)
  BY <1>b DEF MoveAll
<1>2. ASSUME NEW j \in 1 .. c
      PROVE  /\ steps[j].op = "move" /\ steps[j].at = froms[j] + shift
             /\ steps[j].from = froms[j]
  BY DEF Step
<1>3. steps = [j \in 1 .. c |-> steps[j]]
  OBVIOUS
<1>4. ASSUME NEW k \in 0 .. c, NEW i \in Index
      PROVE  g[k][i] = IF \E j \in 1 .. k : froms[j] + shift = i
                       THEN Lands(f[i], i, f[i - shift]) ELSE f[i]
  OBVIOUS
<1> HIDE DEF steps, g
<1>5. \A j \in 1 .. c : Legal(w, steps[j])
  BY <1>2, <1>b DEF Legal
<1>a. ASSUME \A j \in 1 .. c : froms[j] + shift <= Len(t.array)
      PROVE  \A j \in 1 .. c : Stays(steps[j], Len(t.array))
  BY <1>2, <1>a DEF Stays
<1>6. ASSUME NEW k \in 1 .. c
      PROVE  Leads(steps[k], g[k - 1], g[k])
  <2>0. PICK at, from : at = froms[k] + shift /\ from = froms[k]
    OBVIOUS
  <2>1. /\ at \in Index /\ from \in Index /\ at - shift = from
        /\ k \in 0 .. c /\ k - 1 \in 0 .. c
    BY <1>b, <2>0 DEF Index
  <2>2. ASSUME NEW i \in Index, i # at
        PROVE  g[k][i] = g[k - 1][i]
    <3>1. (\E j \in 1 .. k : froms[j] + shift = i)
             <=> \E j \in 1 .. k - 1 : froms[j] + shift = i
      BY <2>0, <2>2
    <3> QED BY <1>4, <2>1, <3>1
  <2>3. \A j \in 1 .. k - 1 : froms[j] # from /\ froms[j] + shift # from
    BY <1>b, <2>0
  <2>4. g[k - 1][from] = f[from]
    BY <1>4, <2>1, <2>3
  <2>5. \A j \in 1 .. k - 1 : froms[j] + shift # at
    <3> SUFFICES ASSUME NEW j \in 1 .. k - 1 PROVE froms[j] + shift # at
      OBVIOUS
    <3>1. froms[j] # from /\ froms[j] \in Int /\ from \in Int
      BY <1>b, <2>1, <2>3 DEF Index
    <3>2. PICK x : x = froms[j]
      OBVIOUS
    <3>3. x + shift # from + shift
      BY <3>1, <3>2
    <3> QED BY <2>0, <3>2, <3>3
  <2>6. g[k - 1][at] = f[at]
    BY <1>4, <2>1, <2>5
  <2>7. g[k][at] = Lands(f[at], at, f[from])
    <3>1. \E j \in 1 .. k : froms[j] + shift = at
      BY <2>0
    <3> QED BY <1>4, <2>1, <3>1
  <2>8. \A i \in Index : g[k][i] = IF i = at THEN Lands(g[k - 1][at], at, g[k - 1][from])
                                   ELSE g[k - 1][i]
    BY <2>2, <2>4, <2>6, <2>7
  <2> QED BY <1>2, <2>0, <2>8 DEF Leads
<1>7. Turns(w, t, g[0])
  <2>1. \A i \in Index : g[0][i] = f[i]
    BY <1>4
  <2> QED BY <2>1 DEF Turns
<1>8. /\ Turns(w, u, g[c])
      /\ (\A j \in 1 .. c : Stays(steps[j], Len(t.array))) => Len(u.array) = Len(t.array)
  BY <1>1, <1>3, <1>5, <1>6, <1>7, RunTurns
<1>9. \A i \in Index : g[c][i] = h[i]
  BY <1>4 DEF MovedTo
<1>10. Turns(w, u, h)
  BY <1>8, <1>9 DEF Turns
<1> QED BY <1>a, <1>8, <1>10

\* Ranges of indices.
Ascends(s, a, c) == DOMAIN s = 1 .. c /\ \A j \in 1 .. c : s[j] = a + j - 1
Descends(s, a, c) == DOMAIN s = 1 .. c /\ \A j \in 1 .. c : s[j] = a + c - j

LEMMA UpIs ==
    ASSUME NEW a \in Nat, NEW c \in Nat, NEW b, b = a + c - 1, NEW s, s = Up(a, b)
    PROVE  Ascends(s, a, c)
<1>1. b - a + 1 = c
  OBVIOUS
<1> QED BY <1>1 DEF Up, Ascends

LEMMA DownIs ==
    ASSUME NEW a \in Nat, NEW c \in Nat, NEW b, b = a + c - 1, NEW s, s = Down(b, a)
    PROVE  Descends(s, a, c)
<1>1. b - a + 1 = c /\ b \in Int
  OBVIOUS
<1>2. \A j \in 1 .. c : b + 1 - j = a + c - j
  OBVIOUS
<1> QED BY <1>1, <1>2 DEF Down, Descends

\* The elements of c indices from low on arrived from as many indices before.
Slid(f, h, low, c, by) ==
    \A i \in Index : h[i] = IF low <= i /\ i < low + c THEN Lands(f[i], i, f[i - by])
                            ELSE f[i]

LEMMA MoveUpTurns ==
    ASSUME BaseOK, NEW w, Sound(w), NEW a \in Nat, NEW c \in Nat, NEW less \in Nat,
           less < a, less # 0, NEW b, b = a + c - 1,
           NEW t, NEW f, Turns(w, t, f), NEW u, u = MoveAll(t, Up(a, b), -less),
           NEW h, Slid(f, h, a - less, c, -less)
    PROVE  /\ Turns(w, u, h)
           /\ a + c <= Len(t.array) + 1 => Len(u.array) = Len(t.array)
<1> DEFINE froms == Up(a, b)
<1>1. DOMAIN froms = 1 .. c /\ \A j \in 1 .. c : froms[j] = a + j - 1
  <2>1. Ascends(froms, a, c)
    BY UpIs
  <2> QED BY <2>1 DEF Ascends
<1> HIDE DEF froms
<1>2. \A j \in 1 .. c : froms[j] \in Index /\ froms[j] + (-less) \in Index
  BY <1>1 DEF Index
<1>3. \A j, k \in 1 .. c : j < k => /\ froms[j] # froms[k]
                                    /\ froms[j] + (-less) # froms[k]
  BY <1>1
<1>4. ASSUME NEW i \in Index
      PROVE  h[i] = IF \E j \in 1 .. c : froms[j] + (-less) = i
                    THEN Lands(f[i], i, f[i - (-less)]) ELSE f[i]
  <2>1. i \in Nat /\ i - (-less) = i + less
    BY DEF Index
  <2>2. (\E j \in 1 .. c : froms[j] + (-less) = i) <=> (a - less <= i /\ i < a - less + c)
    <3>1. ASSUME a - less <= i, i < a - less + c
          PROVE  \E j \in 1 .. c : froms[j] + (-less) = i
      <4>1. i + less - a + 1 \in 1 .. c
        BY <2>1, <3>1
      <4>2. froms[i + less - a + 1] = i + less
        BY <1>1, <2>1, <4>1
      <4> QED BY <2>1, <4>1, <4>2
    <3> QED BY <1>1, <2>1, <3>1
  <2> QED BY <2>1, <2>2 DEF Slid
<1>5. /\ Turns(w, u, h)
      /\ (\A j \in 1 .. c : froms[j] + (-less) <= Len(t.array)) =>
            Len(u.array) = Len(t.array)
  <2>1. u = MoveAll(t, froms, -less) /\ -less \in Int
    BY DEF froms
  <2>2. Ahead(froms, c, -less)
    BY <1>1, <1>2, <1>3 DEF Ahead
  <2>3. MovedTo(froms, c, -less, f, h)
    BY <1>4 DEF MovedTo
  <2> QED BY <2>1, <2>2, <2>3, MoveAllTurns
<1>6. Len(t.array) \in Nat
  BY TurnsParts, SoundParts, WorldParts, LenProperties
<1> QED BY <1>1, <1>5, <1>6

LEMMA MoveDownTurns ==
    ASSUME BaseOK, NEW w, Sound(w), NEW a \in Index, NEW c \in Nat, NEW more \in Index,
           NEW b, b = a + c - 1,
           NEW t, NEW f, Turns(w, t, f), NEW u, u = MoveAll(t, Down(b, a), more),
           NEW h, Slid(f, h, a + more, c, more)
    PROVE  Turns(w, u, h)
<1> DEFINE froms == Down(b, a)
<1>0. a \in Nat /\ more \in Nat /\ more \in Int /\ a > 0 /\ more > 0
  BY DEF Index
<1>1. DOMAIN froms = 1 .. c /\ \A j \in 1 .. c : froms[j] = a + c - j
  <2>1. Descends(froms, a, c)
    BY <1>0, DownIs
  <2> QED BY <2>1 DEF Descends
<1> HIDE DEF froms
<1>2. \A j \in 1 .. c : froms[j] \in Index /\ froms[j] + more \in Index
  BY <1>0, <1>1 DEF Index
<1>3. \A j, k \in 1 .. c : j < k => froms[j] # froms[k] /\ froms[j] + more # froms[k]
  BY <1>0, <1>1
<1>4. ASSUME NEW i \in Index
      PROVE  h[i] = IF \E j \in 1 .. c : froms[j] + more = i
                    THEN Lands(f[i], i, f[i - more]) ELSE f[i]
  <2>1. i \in Nat
    BY DEF Index
  <2>2. (\E j \in 1 .. c : froms[j] + more = i) <=> (a + more <= i /\ i < a + more + c)
    <3>1. ASSUME a + more <= i, i < a + more + c
          PROVE  \E j \in 1 .. c : froms[j] + more = i
      <4>1. a + c + more - i \in 1 .. c
        BY <1>0, <2>1, <3>1
      <4>2. froms[a + c + more - i] = i - more
        BY <1>0, <1>1, <2>1, <4>1
      <4> QED BY <1>0, <2>1, <4>1, <4>2
    <3> QED BY <1>0, <1>1, <2>1, <3>1
  <2> QED BY <2>2 DEF Slid
<1>5. u = MoveAll(t, froms, more)
  BY DEF froms
<1>6. Ahead(froms, c, more)
  BY <1>1, <1>2, <1>3 DEF Ahead
<1>7. MovedTo(froms, c, more, f, h)
  BY <1>4 DEF MovedTo
<1> QED BY <1>0, <1>5, <1>6, <1>7, MoveAllTurns

-----------------------------------------------------------------------------
(***************************************************************************)
(* The methods that go through the traps do what an ordinary array does.   *)
(***************************************************************************)

\* w became u, and a reader of u finds s, or drafts made since w.
Does(w, u, s) == /\ Sound(u) /\ Grows(w, u)
                 /\ DOMAIN s = DOMAIN u.array
                 /\ \A i \in DOMAIN s : Shows(w, u, s[i], SlotAt(u, i))

LEMMA SizeIs ==
    ASSUME NEW w, Sound(w)
    PROVE  /\ Len(w.array) \in Nat /\ w.array \in Seq(Value)
           /\ DOMAIN w.array = 1 .. Len(w.array) /\ Size(w) = Len(w.array)
<1>1. w.array \in Seq(Value)
  BY SoundParts, WorldParts
<1> QED BY <1>1, LenProperties DEF Size

LEMMA SlotsAre ==
    ASSUME NEW w, Sound(w), NEW s, s = Slots(w)
    PROVE  /\ DOMAIN s = 1 .. Len(w.array) /\ Len(s) = Len(w.array)
           /\ s \in Seq(Slot)
           /\ \A i \in Index : /\ At(s, i) = SlotAt(w, i)
                               /\ Own(s, i) <=> At(w.array, i) # Absent
           /\ \A i \in 1 .. Len(w.array) : s[i] = SlotAt(w, i)
<1>0. Len(w.array) \in Nat /\ w.array \in Seq(Value) /\ DOMAIN w.array = 1 .. Len(w.array)
  BY SizeIs
<1>1. s = [i \in DOMAIN w.array |->
              IF IsObj(w.array[i]) /\ BaseIndex(w, w.array[i], i) # Null
              THEN Base(w.array[i].id) ELSE w.array[i]]
  BY DEF Slots
<1>2. DOMAIN s = 1 .. Len(w.array) /\ s = [i \in 1 .. Len(w.array) |-> s[i]]
  BY <1>0, <1>1
<1>3. Len(s) = Len(w.array)
  BY <1>0, <1>2, ListIs
<1>4. ASSUME NEW i \in 1 .. Len(w.array)
      PROVE  s[i] = SlotAt(w, i)
  <2>1. At(w.array, i) = w.array[i]
    BY <1>0 DEF At
  <2> QED BY <1>0, <1>1, <2>1 DEF SlotAt, SlotOf
<1>5. ASSUME NEW i \in Index
      PROVE  /\ At(s, i) = SlotAt(w, i)
             /\ Own(s, i) <=> At(w.array, i) # Absent
  <2>1. CASE i \in 1 .. Len(w.array)
    <3>1. At(s, i) = SlotAt(w, i)
      BY <1>2, <1>4, <2>1 DEF At
    <3> QED BY <3>1, AbsentSlot DEF Own
  <2>2. CASE i \notin 1 .. Len(w.array)
    <3>1. At(s, i) = Absent /\ At(w.array, i) = Absent
      BY <1>0, <1>2, <2>2 DEF At
    <3> QED BY <3>1, SlotOfAbsent DEF Own
  <2> QED BY <2>1, <2>2
<1>6. ASSUME NEW i \in 1 .. Len(w.array)
      PROVE  s[i] \in Slot
  <2>1. w.array[i] \in Value
    BY <1>0
  <2>2. \A n \in Nat : Base(n) \in Slot
    BY DEF Base, Slot
  <2>3. w.array[i].id \in Nat
    BY <2>1, ValueIs
  <2> QED BY <1>0, <1>1, <2>1, <2>2, <2>3 DEF Slot
<1>7. s \in Seq(Slot)
  BY <1>0, <1>2, <1>6
<1> QED BY <1>2, <1>3, <1>4, <1>5, <1>7

\* What a call leaves in the draft is what it leaves in the ordinary array.
LEMMA DoesDrafted ==
    ASSUME NEW w, NEW u, NEW s, Does(w, u, s)
    PROVE  Slots(u) = Drafted(s, w, u)
<1>0. Sound(u) /\ DOMAIN s = DOMAIN u.array
  BY DEF Does
<1>1. /\ DOMAIN u.array = 1 .. Len(u.array) /\ Len(u.array) \in Nat
      /\ u.array \in Seq(Value)
  BY <1>0, SizeIs
<1>2. /\ DOMAIN Slots(u) = DOMAIN s
      /\ \A i \in DOMAIN s : Slots(u)[i] = SlotAt(u, i)
  BY <1>0, <1>1, SlotsAre
<1>3. ASSUME NEW i \in DOMAIN s
      PROVE  SlotAt(u, i) = IF /\ s[i].kind = "base" /\ IsDraft(At(u.array, i))
                               /\ At(u.array, i).id \notin DOMAIN w.drafts
                               /\ u.drafts[At(u.array, i).id].original = s[i].id
                            THEN At(u.array, i) ELSE s[i]
  <2>0. PICK v, x, t : v = At(u.array, i) /\ x = SlotAt(u, i) /\ t = s[i]
    OBVIOUS
  <2>1. v \in Value /\ (IsDraft(v) => ~IsObj(v))
    BY <1>0, <1>1, <2>0, ValueIs, AtIs
  <2>2. x = v \/ (x.kind = "base" /\ IsObj(v))
    <3>1. x = v \/ (x = Base(v.id) /\ IsObj(v))
      BY <2>0 DEF SlotAt, SlotOf
    <3>2. Base(v.id).kind = "base"
      BY DEF Base
    <3> QED BY <3>1, <3>2
  <2>3. IsDraft(v) => x = v
    BY <2>1, <2>2
  <2>4. IsDraft(x) => x = v
    BY <2>2 DEF IsDraft
  <2>5. \/ x = t
        \/ /\ t.kind = "base" /\ IsDraft(x) /\ x.id \notin DOMAIN w.drafts
           /\ u.drafts[x.id].original = t.id
    BY <2>0 DEF Does, Shows
  <2> QED BY <2>0, <2>3, <2>4, <2>5
<1>4. Drafted(s, w, u) =
        [i \in DOMAIN s |->
           IF /\ s[i].kind = "base" /\ IsDraft(At(u.array, i))
              /\ At(u.array, i).id \notin DOMAIN w.drafts
              /\ u.drafts[At(u.array, i).id].original = s[i].id
           THEN At(u.array, i) ELSE s[i]]
  BY DEF Drafted
<1>5. Slots(u) = [i \in DOMAIN s |-> Slots(u)[i]]
  BY <1>2 DEF Slots
<1> QED BY <1>2, <1>3, <1>4, <1>5

\* From turns to a call.
LEMMA TurnsDoes ==
    ASSUME NEW w, NEW u, NEW f, Turns(w, u, f), NEW s, DOMAIN s = 1 .. Len(u.array),
           \A i \in 1 .. Len(u.array) : s[i] = f[i]
    PROVE  Does(w, u, s)
<1>1. /\ Sound(u) /\ Grows(w, u)
      /\ \A i \in Index : Shows(w, u, f[i], SlotAt(u, i))
  BY DEF Turns
<1>2. DOMAIN u.array = 1 .. Len(u.array) /\ Len(u.array) \in Nat
  BY <1>1, SizeIs
<1>3. \A i \in 1 .. Len(u.array) : i \in Index
  BY <1>2 DEF Index
<1> QED BY <1>1, <1>2, <1>3 DEF Does

\* A length that is set after turns.
LEMMA LengthAfter ==
    ASSUME NEW w \in World, NEW t, NEW f, Turns(w, t, f), NEW n \in Nat,
           NEW u, u = SetLength(t, n), NEW s, DOMAIN s = 1 .. n,
           \A i \in 1 .. n : s[i] = f[i]
    PROVE  Does(w, u, s)
<1>0. Sound(t) /\ \A i \in Index : Shows(w, t, f[i], SlotAt(t, i))
  BY DEF Turns
<1> DEFINE h == [j \in Index |-> IF j <= n THEN SlotAt(t, j) ELSE Absent]
           g == [j \in Index |-> IF j <= n THEN f[j] ELSE Absent]
<1>1. Turns(t, u, h) /\ Len(u.array) = n
  BY <1>0, SetLengthTurns
<1>2. ASSUME NEW j \in Index PROVE Shows(w, t, g[j], h[j])
  BY <1>0 DEF Shows
<1>3. \A i \in 1 .. n : s[i] = g[i]
  BY DEF Index
<1> HIDE DEF h, g
<1>4. Turns(w, u, g)
  BY <1>1, <1>2, AfterTurns
<1> QED BY <1>1, <1>3, <1>4, TurnsDoes

\* Where x was, the arrival of v is what lands.
LEMMA LandsArrived ==
    ASSUME NEW s, NEW i, NEW v
    PROVE  Arrived(s, i, v) = Lands(At(s, i), i, v)
<1>1. Settle(i, Absent) = Absent
  BY DEF Settle, IsObj, Absent
<1>2. CASE v = Absent
  BY <1>1, <1>2 DEF Arrived, Lands, Emptied, Own
<1>3. CASE v # Absent
  BY <1>3 DEF Arrived, Lands
<1> QED BY <1>2, <1>3

\* A deletion after turns.
LEMMA DeleteAfter ==
    ASSUME BaseOK, NEW w \in World, NEW t, NEW f, Turns(w, t, f), NEW i \in Index,
           NEW u, u = DeleteTrap(t, i),
           NEW g, g[i] = Emptied(f[i]), \A j \in Index : j # i => g[j] = f[j]
    PROVE  Turns(w, u, g) /\ Len(u.array) = Len(t.array)
<1>1. u = Put(t, i, Absent)
  BY DEF Put
<1>2. Shows(w, t, Absent, Absent)
  BY DEF Shows
<1>3. g[i] = Lands(f[i], i, Absent)
  BY DEF Lands
<1>4. /\ Turns(w, u, g)
      /\ Len(u.array) = IF Absent # Absent /\ i > Len(t.array) THEN i ELSE Len(t.array)
  BY <1>1, <1>2, <1>3, PutAfter
<1> QED BY <1>4

LEMMA ProxyShiftDoes ==
    ASSUME BaseOK, NEW w, Sound(w), Len(w.array) # 0, NEW u, u = ProxyShift(w),
           NEW s, s = Slots(w)
    PROVE  Does(w, u, PlainShift(s))
<1>0. /\ Len(w.array) \in Nat /\ Size(w) = Len(w.array) /\ w \in World
      /\ DOMAIN s = 1 .. Len(w.array) /\ Len(s) = Len(w.array)
  BY SizeIs, SlotsAre, SoundParts
<1>1. PICK n \in Nat : n = Len(w.array) /\ n - 1 \in Nat /\ n \in Index /\ 1 \in Index
  BY <1>0 DEF Index
<1>2. PICK t1, t2, t3 : /\ t1 = GetTrap(w, 1) /\ t2 = MoveAll(t1, Up(2, n), -1)
                        /\ t3 = DeleteTrap(t2, n)
  OBVIOUS
<1>3. u = SetLength(t3, n - 1)
  BY <1>0, <1>1, <1>2 DEF ProxyShift
<1>4. PICK f : f = View(w)
  OBVIOUS
<1>5. Turns(w, t1, f) /\ Len(t1.array) = n
  BY <1>1, <1>2, <1>4, GetTrapTurns DEF GotFrom
<1> DEFINE h == [i \in Index |-> IF 1 <= i /\ i < n THEN Lands(f[i], i, f[i + 1]) ELSE f[i]]
           g == [h EXCEPT ![n] = Emptied(h[n])]
<1>6. Turns(w, t2, h)
  <2>1. PICK a \in Nat, c \in Nat, less \in Nat : a = 2 /\ c = n - 1 /\ less = 1
    BY <1>1
  <2>2. Slid(f, h, a - less, c, -less)
    <3>1. ASSUME NEW i \in Index
          PROVE  h[i] = IF a - less <= i /\ i < a - less + c
                        THEN Lands(f[i], i, f[i - (-less)]) ELSE f[i]
      <4>1. i \in Nat /\ i - (-less) = i + 1 /\ a - less = 1 /\ a - less + c = n
        BY <1>1, <2>1 DEF Index
      <4> QED BY <1>1, <4>1
    <3> QED BY <3>1 DEF Slid
  <2>3. n = a + c - 1 /\ less < a /\ less # 0
    BY <2>1
  <2> HIDE DEF h
  <2>4. t2 = MoveAll(t1, Up(a, n), -less)
    BY <1>2, <2>1
  <2> QED BY <1>5, <2>2, <2>3, <2>4, MoveUpTurns
<1>7. Turns(w, t3, g)
  <2>1. /\ g[n] = Emptied(h[n])
        /\ \A j \in Index : j # n => g[j] = h[j]
    BY <1>1
  <2> HIDE DEF g, h
  <2> QED BY <1>0, <1>1, <1>2, <1>6, <2>1, DeleteAfter
<1>8. PICK p : p = PlainShift(s)
  OBVIOUS
<1>9. DOMAIN p = 1 .. n - 1
  BY <1>0, <1>1, <1>8 DEF PlainShift, Rearranged
<1>10. ASSUME NEW i \in 1 .. n - 1
       PROVE  p[i] = g[i]
  <2>1. i \in Nat /\ i \in Index /\ i + 1 \in Index /\ i # n /\ i + 1 \in 1 .. n /\ i + 1 # i
    BY <1>1 DEF Index
  <2>2. p[i] = Arrived(s, i, s[i + 1])
    BY <1>0, <1>1, <1>8, <2>1 DEF PlainShift, Rearranged
  <2>3. At(s, i) = f[i] /\ s[i + 1] = f[i + 1]
    BY <1>0, <1>1, <1>4, <2>1, SlotsAre, ViewIs
  <2>4. p[i] = Lands(f[i], i, f[i + 1])
    BY <2>2, <2>3, LandsArrived
  <2> QED BY <1>1, <2>1, <2>4
<1> HIDE DEF g, h
<1>11. Does(w, u, p)
  BY <1>0, <1>1, <1>3, <1>7, <1>9, <1>10, LengthAfter
<1> QED BY <1>8, <1>11

LEMMA ProxyPopDoes ==
    ASSUME BaseOK, NEW w, Sound(w), Len(w.array) # 0, NEW u, u = ProxyPop(w),
           NEW s, s = Slots(w)
    PROVE  Does(w, u, Front(s))
<1>0. /\ Len(w.array) \in Nat /\ Size(w) = Len(w.array) /\ w \in World
      /\ DOMAIN s = 1 .. Len(w.array) /\ Len(s) = Len(w.array)
  BY SizeIs, SlotsAre, SoundParts
<1>1. PICK n \in Nat : n = Len(w.array) /\ n - 1 \in Nat /\ n \in Index /\ n # 0
  BY <1>0 DEF Index
<1>2. PICK t1, t2 : t1 = GetTrap(w, n) /\ t2 = DeleteTrap(t1, n)
  OBVIOUS
<1>3. u = SetLength(t2, n - 1)
  BY <1>0, <1>1, <1>2 DEF ProxyPop
<1>4. PICK f : f = View(w)
  OBVIOUS
<1>5. Turns(w, t1, f)
  BY <1>1, <1>2, <1>4, GetTrapTurns DEF GotFrom
<1> DEFINE g == [f EXCEPT ![n] = Emptied(f[n])]
<1>6. /\ g[n] = Emptied(f[n])
      /\ \A j \in Index : j # n => g[j] = f[j]
  BY <1>1, <1>4 DEF View
<1> HIDE DEF g
<1>7. Turns(w, t2, g)
  BY <1>0, <1>1, <1>2, <1>5, <1>6, DeleteAfter
<1>8. PICK p : p = Front(s)
  OBVIOUS
<1>9. DOMAIN p = 1 .. n - 1 /\ \A i \in 1 .. n - 1 : p[i] = s[i]
  <2>1. s \in Seq(Slot) /\ p = SubSeq(s, 1, n - 1)
    BY <1>0, <1>1, <1>8, SlotsAre DEF Front
  <2>2. /\ p \in Seq(Slot) /\ Len(p) = n - 1
        /\ \A i \in 1 .. n - 1 : p[i] = s[i]
    BY <1>0, <1>1, <2>1
  <2> QED BY <2>2
<1>10. ASSUME NEW i \in 1 .. n - 1
       PROVE  p[i] = g[i]
  <2>1. i \in Index /\ i # n /\ i \in 1 .. n
    BY <1>1 DEF Index
  <2> QED BY <1>0, <1>1, <1>4, <1>6, <1>9, <2>1, SlotsAre, ViewIs
<1>11. Does(w, u, p)
  BY <1>0, <1>1, <1>3, <1>7, <1>9, <1>10, LengthAfter
<1> QED BY <1>8, <1>11

SplicedFrom(s, p, start, items, m, n, more) ==
    /\ DOMAIN p = 1 .. n + more
    /\ \A i \in 1 .. n + more :
          /\ i < start => p[i] = s[i]
          /\ start <= i /\ i < start + m => p[i] = Arrived(s, i, items[i - start + 1])
          /\ start + m <= i =>
                p[i] = IF more = 0 THEN s[i] ELSE Arrived(s, i, s[i - more])

LEMMA PlainSpliceIs ==
    ASSUME NEW s, NEW start \in Nat, NEW deleted \in Nat, NEW items, NEW m \in Nat,
           Len(items) = m, NEW n \in Nat, Len(s) = n, NEW more, more = m - deleted,
           NEW p, p = PlainSplice(s, start, deleted, items)
    PROVE  SplicedFrom(s, p, start, items, m, n, more)
<1>1. p = [i \in 1 .. n + more |->
            CASE i < start -> s[i]
              [] i >= start /\ i < start + m -> Arrived(s, i, items[i - start + 1])
              [] OTHER -> IF more = 0 THEN s[i] ELSE Arrived(s, i, s[i - more])]
  BY DEF PlainSplice
<1>2. ASSUME NEW i \in 1 .. n + more
      PROVE  /\ i < start => p[i] = s[i]
             /\ start <= i /\ i < start + m => p[i] = Arrived(s, i, items[i - start + 1])
             /\ start + m <= i =>
                   p[i] = IF more = 0 THEN s[i] ELSE Arrived(s, i, s[i - more])
  <2>1. PICK a, b, c : /\ a = s[i] /\ b = Arrived(s, i, items[i - start + 1])
                       /\ c = IF more = 0 THEN s[i] ELSE Arrived(s, i, s[i - more])
    OBVIOUS
  <2>2. p[i] = CASE i < start -> a
                 [] i >= start /\ i < start + m -> b
                 [] OTHER -> c
    BY <1>1, <2>1
  <2>3. i < start => p[i] = a
    BY <2>2
  <2>4. start <= i /\ i < start + m => p[i] = b
    <3>1. start <= i => ~(i < start) /\ i >= start
      OBVIOUS
    <3> QED BY <2>2, <3>1
  <2>5. start + m <= i => p[i] = c
    <3>1. start + m <= i => ~(i < start) /\ ~(i >= start /\ i < start + m)
      OBVIOUS
    <3> QED BY <2>2, <3>1
  <2> QED BY <2>1, <2>3, <2>4, <2>5
<1>3. DOMAIN p = 1 .. n + more
  BY <1>1
<1> QED BY <1>2, <1>3 DEF SplicedFrom

\* Values that can be assigned, in a list.
UsableAll(w, items, m) ==
    /\ DOMAIN items = 1 .. m /\ Len(items) = m
    /\ \A j \in 1 .. m : Usable(w, items[j])

LEMMA ItemArrives ==
    ASSUME NEW w, NEW v, Usable(w, v), NEW s, NEW i
    PROVE  Arrived(s, i, v) = Settle(i, v)
BY DEF Arrived, Usable

LEMMA ProxyUnshiftDoes ==
    ASSUME BaseOK, NEW w, Sound(w), NEW items, NEW m \in Nat, UsableAll(w, items, m),
           m # 0, NEW u, u = ProxyUnshift(w, items), NEW s, s = Slots(w)
    PROVE  Does(w, u, PlainSplice(s, 1, 0, items))
<1>0. /\ Len(w.array) \in Nat /\ Size(w) = Len(w.array) /\ w \in World
      /\ DOMAIN s = 1 .. Len(w.array) /\ Len(s) = Len(w.array)
  BY SizeIs, SlotsAre, SoundParts
<1>1. PICK n \in Nat : n = Len(w.array)
  BY <1>0
<1>2. PICK one \in Index : one = 1 /\ m \in Index /\ one \in Nat
  BY DEF Index
<1>a. DOMAIN items = 1 .. m /\ Len(items) = m /\ \A j \in 1 .. m : Usable(w, items[j])
  BY DEF UsableAll
<1>3. PICK t1, t2 : t1 = MoveAll(w, Down(n, one), m) /\ t2 = SetAll(t1, one, items)
  OBVIOUS
<1>4. u = SetLength(t2, n + m)
  BY <1>0, <1>1, <1>2, <1>3, <1>a DEF ProxyUnshift
<1>5. PICK f : f = View(w)
  OBVIOUS
<1>6. Turns(w, w, f)
  BY <1>5, ViewIs, TurnsSame
<1> DEFINE h == [i \in Index |-> IF one + m <= i /\ i < one + m + n
                                 THEN Lands(f[i], i, f[i - m]) ELSE f[i]]
           g == [i \in Index |-> IF one <= i /\ i < one + m
                                 THEN Settle(i, items[i - one + 1]) ELSE h[i]]
<1>7. Slid(f, h, one + m, n, m)
  BY DEF Slid
<1>8. FilledFrom(h, g, one, items, m)
  BY DEF FilledFrom
<1>9. ASSUME NEW i \in Index
      PROVE  g[i] = IF i < 1 + m THEN Settle(i, items[i])
                    ELSE IF i < 1 + m + n THEN Lands(f[i], i, f[i - m]) ELSE f[i]
  <2>1. i \in Nat /\ 1 <= i /\ i - one + 1 = i
    BY <1>2 DEF Index
  <2> QED BY <1>2, <2>1
<1> HIDE DEF h, g
<1>10. Turns(w, t1, h)
  <2>1. n = one + n - 1
    BY <1>2
  <2> QED BY <1>2, <1>3, <1>6, <1>7, <2>1, MoveDownTurns
<1>11. Turns(w, t2, g)
  BY <1>2, <1>3, <1>8, <1>10, <1>a, SetAllTurns
<1>12. PICK p, none : p = PlainSplice(s, one, none, items) /\ none = 0
  OBVIOUS
<1>13. /\ DOMAIN p = 1 .. n + m
       /\ \A i \in 1 .. n + m :
             /\ i < one => p[i] = s[i]
             /\ one <= i /\ i < one + m => p[i] = Arrived(s, i, items[i - one + 1])
             /\ one + m <= i =>
                   p[i] = IF m = 0 THEN s[i] ELSE Arrived(s, i, s[i - m])
  <2>1. m = m - none /\ none \in Nat
    BY <1>12
  <2>2. SplicedFrom(s, p, one, items, m, n, m)
    BY <1>0, <1>1, <1>2, <1>a, <1>12, <2>1, PlainSpliceIs
  <2> QED BY <2>2 DEF SplicedFrom
<1>14. ASSUME NEW i \in 1 .. n + m
       PROVE  p[i] = g[i]
  <2>1. i \in Nat /\ i \in Index /\ 1 <= i /\ i - one + 1 = i
    BY <1>2 DEF Index
  <2>2. CASE i < 1 + m
    <3>1. p[i] = Arrived(s, i, items[i])
      BY <1>2, <1>13, <2>1, <2>2
    <3>2. Usable(w, items[i])
      BY <1>a, <2>1, <2>2
    <3> QED BY <1>9, <2>1, <2>2, <3>1, <3>2, ItemArrives
  <2>3. CASE ~(i < 1 + m)
    <3>1. i - m \in 1 .. n /\ i - m \in Index /\ i < 1 + m + n
      BY <2>1, <2>3 DEF Index
    <3>2. p[i] = Arrived(s, i, s[i - m])
      BY <1>2, <1>13, <2>1, <2>3
    <3>3. At(s, i) = f[i] /\ s[i - m] = f[i - m]
      BY <1>0, <1>1, <1>5, <2>1, <3>1, SlotsAre, ViewIs
    <3> QED BY <1>9, <2>1, <2>3, <3>1, <3>2, <3>3, LandsArrived
  <2> QED BY <2>2, <2>3
<1>15. Does(w, u, p)
  BY <1>0, <1>4, <1>11, <1>13, <1>14, LengthAfter
<1> QED BY <1>2, <1>12, <1>15

\* The elements behind a splice move, and those in front of it stay.
Behind(f, h, start, m, n, more) ==
    \A i \in Index : /\ i < start => h[i] = f[i]
                     /\ start + m <= i /\ i <= n + more =>
                           h[i] = IF more = 0 THEN f[i] ELSE Lands(f[i], i, f[i - more])

LEMMA SpliceMovesLess ==
    ASSUME BaseOK, NEW w, Sound(w), NEW start \in Index, NEW deleted \in Nat,
           NEW m \in Nat, NEW n \in Nat, start + deleted <= n + 1,
           NEW more, more = m - deleted, more < 0,
           NEW t, NEW f, Turns(w, t, f),
           NEW u, u = DeleteAll(MoveAll(t, Up(start + deleted, n), more),
                                Down(n, n + more + 1))
    PROVE  \E h : Turns(w, u, h) /\ Behind(f, h, start, m, n, more)
<1>0. start \in Nat /\ start # 0
  BY DEF Index
<1>1. PICK a \in Nat, c \in Nat, less \in Nat :
         a = start + deleted /\ c = n - start - deleted + 1 /\ less = deleted - m
  BY <1>0
<1>2. /\ n = a + c - 1 /\ less < a /\ less # 0 /\ -less = more
      /\ a - less = start + m
  BY <1>0, <1>1
<1>3. PICK t1, indices : /\ t1 = MoveAll(t, Up(a, n), -less)
                         /\ indices = Down(n, n + more + 1)
  OBVIOUS
<1>4. u = DeleteAll(t1, indices)
  BY <1>1, <1>2, <1>3
<1> DEFINE h1 == [i \in Index |-> IF a - less <= i /\ i < a - less + c
                                  THEN Lands(f[i], i, f[i - (-less)]) ELSE f[i]]
           h == [i \in Index |-> IF \E j \in 1 .. less : indices[j] = i
                                 THEN Emptied(h1[i]) ELSE h1[i]]
<1>5. Slid(f, h1, a - less, c, -less)
  BY DEF Slid
<1>6. EmptiedAt(h1, h, indices, less)
  BY DEF EmptiedAt
<1>7. ASSUME NEW i \in Index
      PROVE  h1[i] = IF start + m <= i /\ i < start + m + c
                     THEN Lands(f[i], i, f[i - more]) ELSE f[i]
  BY <1>2
<1>8. /\ DOMAIN indices = 1 .. less
      /\ \A j \in 1 .. less : indices[j] = n + more + 1 + less - j
  <2>1. n + more + 1 \in Nat /\ n = n + more + 1 + less - 1
    BY <1>0, <1>1, <1>2
  <2>2. PICK b \in Nat : b = n + more + 1
    BY <2>1
  <2>3. indices = Down(n, b) /\ n = b + less - 1
    BY <1>3, <2>1, <2>2
  <2>4. Descends(indices, b, less)
    BY <2>3, DownIs
  <2> QED BY <2>2, <2>4 DEF Descends
<1>9. \A j \in 1 .. less : indices[j] \in Index /\ indices[j] > n + more
  BY <1>0, <1>1, <1>2, <1>8 DEF Index
<1>10. ASSUME NEW i \in Index, i <= n + more
       PROVE  h[i] = h1[i]
  <2>1. ~ \E j \in 1 .. less : indices[j] = i
    BY <1>0, <1>1, <1>2, <1>9, <1>10 DEF Index
  <2> QED BY <2>1
<1> HIDE DEF h1, h
<1>11. Turns(w, t1, h1)
  BY <1>2, <1>3, <1>5, MoveUpTurns
<1>12. Turns(w, u, h)
  BY <1>4, <1>6, <1>8, <1>9, <1>11, DeleteAllTurns
<1>13. Behind(f, h, start, m, n, more)
  <2>1. ASSUME NEW i \in Index, i < start
        PROVE  h[i] = f[i]
    <3>1. i \in Nat /\ i <= n + more /\ ~(start + m <= i)
      BY <1>0, <1>1, <1>2, <2>1 DEF Index
    <3> QED BY <1>7, <1>10, <3>1
  <2>2. ASSUME NEW i \in Index, start + m <= i, i <= n + more
        PROVE  h[i] = Lands(f[i], i, f[i - more])
    <3>1. i \in Nat /\ i < start + m + c
      BY <1>0, <1>1, <1>2, <2>2 DEF Index
    <3> QED BY <1>7, <1>10, <2>2, <3>1
  <2> QED BY <1>2, <2>1, <2>2 DEF Behind
<1> QED BY <1>12, <1>13

LEMMA SpliceMovesMore ==
    ASSUME BaseOK, NEW w, Sound(w), NEW start \in Index, NEW deleted \in Nat,
           NEW m \in Nat, NEW n \in Nat, start + deleted <= n + 1,
           NEW more, more = m - deleted, more > 0,
           NEW t, NEW f, Turns(w, t, f),
           NEW u, u = MoveAll(t, Down(n, start + deleted), more)
    PROVE  \E h : Turns(w, u, h) /\ Behind(f, h, start, m, n, more)
<1>0. start \in Nat /\ start # 0 /\ more \in Index /\ more \in Nat
  BY DEF Index
<1>1. PICK a \in Index, c \in Nat :
         a = start + deleted /\ c = n - start - deleted + 1
  BY <1>0 DEF Index
<1>2. /\ n = a + c - 1 /\ a + more = start + m /\ a \in Nat
  BY <1>0, <1>1
<1> DEFINE h == [i \in Index |-> IF a + more <= i /\ i < a + more + c
                                 THEN Lands(f[i], i, f[i - more]) ELSE f[i]]
<1>3. Slid(f, h, a + more, c, more)
  BY DEF Slid
<1>4. ASSUME NEW i \in Index
      PROVE  h[i] = IF start + m <= i /\ i < start + m + c
                    THEN Lands(f[i], i, f[i - more]) ELSE f[i]
  BY <1>2
<1> HIDE DEF h
<1>5. u = MoveAll(t, Down(n, a), more)
  BY <1>1
<1>6. Turns(w, u, h)
  BY <1>0, <1>2, <1>3, <1>5, MoveDownTurns
<1>7. Behind(f, h, start, m, n, more)
  <2>1. ASSUME NEW i \in Index, i < start
        PROVE  h[i] = f[i]
    <3>1. ~(start + m <= i)
      BY <1>0, <2>1 DEF Index
    <3> QED BY <1>4, <3>1
  <2>2. ASSUME NEW i \in Index, start + m <= i, i <= n + more
        PROVE  h[i] = Lands(f[i], i, f[i - more])
    <3>1. i < start + m + c
      BY <1>0, <1>1, <1>2, <2>2 DEF Index
    <3> QED BY <1>4, <2>2, <3>1
  <2>3. more # 0
    BY <1>0
  <2> QED BY <2>1, <2>2, <2>3 DEF Behind
<1> QED BY <1>6, <1>7

LEMMA ProxySpliceDoes ==
    ASSUME BaseOK, NEW w, Sound(w), NEW start \in Index, NEW deleted \in Nat,
           start + deleted <= Len(w.array) + 1,
           NEW items, NEW m \in Nat, UsableAll(w, items, m),
           NEW u, u = ProxySplice(w, start, deleted, items), NEW s, s = Slots(w)
    PROVE  Does(w, u, PlainSplice(s, start, deleted, items))
<1>0. /\ Len(w.array) \in Nat /\ Size(w) = Len(w.array) /\ w \in World
      /\ DOMAIN s = 1 .. Len(w.array) /\ Len(s) = Len(w.array)
      /\ start \in Nat /\ start # 0
  BY SizeIs, SlotsAre, SoundParts DEF Index
<1>1. PICK n \in Nat, more \in Int : n = Len(w.array) /\ more = m - deleted
  BY <1>0
<1>a. DOMAIN items = 1 .. m /\ Len(items) = m /\ \A j \in 1 .. m : Usable(w, items[j])
  BY DEF UsableAll
<1>b. n + more \in Nat /\ start + deleted <= n + 1 /\ start - 1 <= n + more
  BY <1>0, <1>1
<1>2. PICK indices : indices = Up(start, start + deleted - 1)
  OBVIOUS
<1>3. PICK t1 : t1 = ReadAll(w, indices)
  OBVIOUS
<1>4. PICK t2 : t2 = IF more < 0
                     THEN DeleteAll(MoveAll(t1, Up(start + deleted, n), more),
                                    Down(n, n + more + 1))
                     ELSE IF more > 0 THEN MoveAll(t1, Down(n, start + deleted), more)
                     ELSE t1
  OBVIOUS
<1>5. PICK t3 : t3 = SetAll(t2, start, items)
  OBVIOUS
<1>6. u = SetLength(t3, n + more)
  BY <1>0, <1>1, <1>2, <1>3, <1>4, <1>5, <1>a DEF ProxySplice
<1>7. PICK f : f = View(w)
  OBVIOUS
<1>8. Turns(w, w, f)
  BY <1>7, ViewIs, TurnsSame
<1>9. Turns(w, t1, f)
  <2>1. PICK b : b = start + deleted - 1
    OBVIOUS
  <2>a. Ascends(indices, start, deleted)
    BY <1>0, <1>2, <2>1, UpIs
  <2>2. DOMAIN indices = 1 .. deleted /\ \A j \in 1 .. deleted : indices[j] = start + j - 1
    BY <2>a DEF Ascends
  <2>3. \A j \in 1 .. deleted : indices[j] \in Index
    BY <1>0, <2>2 DEF Index
  <2> QED BY <1>3, <1>8, <2>2, <2>3, ReadAllTurns
<1>10. \E h : Turns(w, t2, h) /\ Behind(f, h, start, m, n, more)
  <2>1. CASE more < 0
    BY <1>1, <1>4, <1>9, <1>b, <2>1, SpliceMovesLess
  <2>2. CASE more > 0
    <3>1. t2 = MoveAll(t1, Down(n, start + deleted), more)
      BY <1>4, <2>2
    <3> QED BY <1>1, <1>9, <1>b, <2>2, <3>1, SpliceMovesMore
  <2>3. CASE more = 0
    <3>1. t2 = t1 /\ Behind(f, f, start, m, n, more)
      BY <1>4, <2>3 DEF Behind
    <3> QED BY <1>9, <3>1
  <2> QED BY <2>1, <2>2, <2>3
<1>11. PICK h : Turns(w, t2, h) /\ Behind(f, h, start, m, n, more)
  BY <1>10
<1> DEFINE g == [i \in Index |-> IF start <= i /\ i < start + m
                                 THEN Settle(i, items[i - start + 1]) ELSE h[i]]
<1>12. FilledFrom(h, g, start, items, m)
  BY DEF FilledFrom
<1>13. ASSUME NEW i \in Index
       PROVE  g[i] = IF start <= i /\ i < start + m
                     THEN Settle(i, items[i - start + 1]) ELSE h[i]
  OBVIOUS
<1> HIDE DEF g
<1>14. Turns(w, t3, g)
  BY <1>5, <1>11, <1>12, <1>a, SetAllTurns
<1>15. PICK p : p = PlainSplice(s, start, deleted, items)
  OBVIOUS
<1>16. SplicedFrom(s, p, start, items, m, n, more)
  BY <1>0, <1>1, <1>15, <1>a, PlainSpliceIs
<1>17. /\ DOMAIN p = 1 .. n + more
       /\ \A i \in 1 .. n + more :
             /\ i < start => p[i] = s[i]
             /\ start <= i /\ i < start + m => p[i] = Arrived(s, i, items[i - start + 1])
             /\ start + m <= i =>
                   p[i] = IF more = 0 THEN s[i] ELSE Arrived(s, i, s[i - more])
  BY <1>16 DEF SplicedFrom
<1>18. ASSUME NEW i \in 1 .. n + more
       PROVE  p[i] = g[i]
  <2>1. i \in Nat /\ i \in Index /\ 1 <= i
    BY <1>b DEF Index
  <2>2. CASE i < start
    <3>1. p[i] = s[i] /\ ~(start <= i) /\ i \in 1 .. n
      BY <1>0, <1>17, <1>b, <2>1, <2>2
    <3>2. s[i] = f[i]
      BY <1>0, <1>1, <1>7, <2>1, <3>1, SlotsAre, ViewIs
    <3>3. h[i] = f[i]
      BY <1>11, <2>1, <2>2 DEF Behind
    <3> QED BY <1>13, <2>1, <3>1, <3>2, <3>3
  <2>3. CASE start <= i /\ i < start + m
    <3>1. p[i] = Arrived(s, i, items[i - start + 1])
      BY <1>17, <2>3
    <3>2. Usable(w, items[i - start + 1])
      <4>1. i - start + 1 \in 1 .. m
        BY <1>0, <2>1, <2>3
      <4> QED BY <1>a, <4>1
    <3> QED BY <1>13, <2>1, <2>3, <3>1, <3>2, ItemArrives
  <2>4. CASE start + m <= i
    <3>1. /\ p[i] = IF more = 0 THEN s[i] ELSE Arrived(s, i, s[i - more])
          /\ ~(i < start + m) /\ i <= n + more /\ i - more \in 1 .. n
          /\ i - more \in Index
      BY <1>0, <1>1, <1>17, <1>b, <2>1, <2>4 DEF Index
    <3>2. g[i] = IF more = 0 THEN f[i] ELSE Lands(f[i], i, f[i - more])
      BY <1>11, <1>13, <2>1, <2>4, <3>1 DEF Behind
    <3>3. At(s, i) = f[i] /\ s[i - more] = f[i - more]
      BY <1>0, <1>1, <1>7, <2>1, <3>1, SlotsAre, ViewIs
    <3>4. more = 0 => s[i] = f[i]
      BY <1>0, <1>1, <2>1, <3>1, <3>3
    <3> QED BY <3>1, <3>2, <3>3, <3>4, LandsArrived
  <2> QED BY <1>0, <2>1, <2>2, <2>3, <2>4
<1>19. Does(w, u, p)
  BY <1>0, <1>6, <1>14, <1>17, <1>18, <1>b, LengthAfter
<1> QED BY <1>15, <1>19

LEMMA HalfIs ==
    ASSUME NEW n \in Nat
    PROVE  n \div 2 \in Nat /\ 2 * (n \div 2) <= n /\ n <= 2 * (n \div 2) + 1
OBVIOUS

LEMMA ProxyReverseDoes ==
    ASSUME BaseOK, NEW w, Sound(w), NEW u, u = ProxyReverse(w), NEW s, s = Slots(w)
    PROVE  Does(w, u, PlainReverse(s))
<1>0. /\ Len(w.array) \in Nat /\ Size(w) = Len(w.array) /\ w \in World
      /\ DOMAIN s = 1 .. Len(w.array) /\ Len(s) = Len(w.array)
  BY SizeIs, SlotsAre, SoundParts
<1>1. PICK n \in Nat, c \in Nat : n = Len(w.array) /\ c = n \div 2
  BY <1>0, HalfIs
<1>2. 2 * c <= n /\ n <= 2 * c + 1
  BY <1>1, HalfIs
<1>3. PICK f : f = View(w)
  OBVIOUS
<1>4. Turns(w, w, f)
  BY <1>3, ViewIs, TurnsSame
<1> DEFINE steps == [j \in 1 .. c |-> Step("swap", n + 1 - j, j, Absent)]
           g == [k \in 0 .. c |-> [i \in Index |->
                    IF i <= k \/ (n - k < i /\ i <= n)
                    THEN Lands(f[i], i, f[n + 1 - i]) ELSE f[i]]]
<1>5. u = Run(w, steps)
  BY <1>0, <1>1 DEF ProxyReverse
<1>6. ASSUME NEW j \in 1 .. c
      PROVE  steps[j].op = "swap" /\ steps[j].at = n + 1 - j /\ steps[j].from = j
  BY DEF Step
<1>7. steps = [j \in 1 .. c |-> steps[j]]
  OBVIOUS
<1>8. ASSUME NEW k \in 0 .. c, NEW i \in Index
      PROVE  g[k][i] = IF i <= k \/ (n - k < i /\ i <= n)
                       THEN Lands(f[i], i, f[n + 1 - i]) ELSE f[i]
  OBVIOUS
<1> HIDE DEF steps, g
<1>9. ASSUME NEW j \in 1 .. c
      PROVE  /\ j \in Index /\ n + 1 - j \in Index /\ j < n + 1 - j
             /\ j <= n /\ n + 1 - j <= n
  BY <1>2 DEF Index
<1>10. \A j \in 1 .. c : Legal(w, steps[j])
  BY <1>6, <1>9 DEF Legal
<1>11. \A j \in 1 .. c : Stays(steps[j], n)
  BY <1>6, <1>9 DEF Stays
<1>12. ASSUME NEW k \in 1 .. c
       PROVE  Leads(steps[k], g[k - 1], g[k])
  <2>1. PICK high \in Index, low \in Index : high = n + 1 - k /\ low = k
    BY <1>9
  <2>2. /\ k \in 0 .. c /\ k - 1 \in 0 .. c /\ low < high /\ high = n + 1 - low
        /\ low = n + 1 - high /\ low \in Nat /\ high \in Nat
    BY <1>9, <2>1 DEF Index
  <2>3. g[k - 1][low] = f[low] /\ g[k - 1][high] = f[high]
    BY <1>2, <1>8, <2>1, <2>2
  <2>4. /\ g[k][low] = Lands(f[low], low, f[high])
        /\ g[k][high] = Lands(f[high], high, f[low])
    <3>1. low <= k /\ n - k < high /\ high <= n
      BY <1>2, <2>1, <2>2
    <3> QED BY <1>8, <2>2, <3>1
  <2>5. ASSUME NEW i \in Index, i # low, i # high
        PROVE  g[k][i] = g[k - 1][i]
    <3>1. i \in Nat
      BY DEF Index
    <3>2. (i <= k \/ (n - k < i /\ i <= n)) <=> (i <= k - 1 \/ (n - (k - 1) < i /\ i <= n))
      BY <2>1, <2>5, <3>1
    <3> QED BY <1>8, <2>2, <3>2
  <2>6. \A i \in Index : g[k][i] = IF i = high THEN Lands(g[k - 1][high], high, g[k - 1][low])
                                   ELSE IF i = low
                                   THEN Lands(g[k - 1][low], low, g[k - 1][high])
                                   ELSE g[k - 1][i]
    BY <2>2, <2>3, <2>4, <2>5
  <2> QED BY <1>6, <2>1, <2>6 DEF Leads
<1>13. Turns(w, w, g[0])
  <2>1. ASSUME NEW i \in Index PROVE g[0][i] = f[i]
    <3>1. ~(i <= 0 \/ (n - 0 < i /\ i <= n))
      BY DEF Index
    <3> QED BY <1>8, <3>1
  <2> QED BY <1>4, <2>1 DEF Turns
<1>14. /\ Turns(w, u, g[c])
       /\ (\A j \in 1 .. c : Stays(steps[j], Len(w.array))) => Len(u.array) = Len(w.array)
  BY <1>5, <1>7, <1>10, <1>12, <1>13, RunTurns
<1>15. PICK p : p = PlainReverse(s)
  OBVIOUS
<1>16. /\ DOMAIN p = 1 .. n
       /\ \A i \in 1 .. n : p[i] = IF n + 1 - i = i THEN s[i]
                                  ELSE Arrived(s, i, s[n + 1 - i])
  BY <1>0, <1>1, <1>15 DEF PlainReverse, Rearranged
<1>17. ASSUME NEW i \in 1 .. n
       PROVE  p[i] = g[c][i]
  <2>1. i \in Nat /\ i \in Index /\ n + 1 - i \in 1 .. n /\ n + 1 - i \in Index
    BY DEF Index
  <2>2. At(s, i) = f[i] /\ s[n + 1 - i] = f[n + 1 - i] /\ s[i] = f[i]
    BY <1>0, <1>1, <1>3, <2>1, SlotsAre, ViewIs
  <2>3. c \in 0 .. c /\ ((i <= c \/ (n - c < i /\ i <= n)) <=> n + 1 - i # i)
    BY <1>2, <2>1
  <2> QED BY <1>8, <1>16, <2>1, <2>2, <2>3, LandsArrived
<1>18. Does(w, u, p)
  BY <1>1, <1>11, <1>14, <1>16, <1>17, TurnsDoes
<1> QED BY <1>15, <1>18

-----------------------------------------------------------------------------
(***************************************************************************)
(* Sorting.                                                                *)
(***************************************************************************)

\* What the order depends on.
Alike(x, y) == Rank(x) = Rank(y) /\ (Rank(x) = 1 => x.id = y.id)

LEMMA RankIs ==
    ASSUME NEW v
    PROVE  Rank(v) \in 1 .. 3
BY DEF Rank

LEMMA PrecedesAlike ==
    ASSUME NEW x, NEW y, NEW a, NEW b, Alike(x, y), Alike(a, b)
    PROVE  Precedes(x, a) <=> Precedes(y, b)
BY DEF Alike, Precedes

LEMMA BeforeOrders ==
    ASSUME NEW s, NEW i \in Nat, NEW j \in Nat, NEW k \in Nat,
           s[i].id \in Nat, s[j].id \in Nat, s[k].id \in Nat
    PROVE  /\ ~Before(s, i, i)
           /\ i # j => Before(s, i, j) \/ Before(s, j, i)
           /\ Before(s, i, j) /\ Before(s, j, k) => Before(s, i, k)
<1>1. PICK x, y, z : x = s[i].id /\ y = s[j].id /\ z = s[k].id
  OBVIOUS
<1>2. PICK a, b, c : a = Rank(s[i]) /\ b = Rank(s[j]) /\ c = Rank(s[k])
  OBVIOUS
<1>3. a \in 1 .. 3 /\ b \in 1 .. 3 /\ c \in 1 .. 3
  BY <1>2, RankIs
<1> QED BY <1>1, <1>2, <1>3 DEF Before, Precedes

LEMMA PlacesAre ==
    ASSUME NEW n \in Nat, NEW s, DOMAIN s = 1 .. n, \A i \in 1 .. n : s[i].id \in Nat,
           NEW own, own = {i \in 1 .. n : s[i] # Absent},
           NEW place, place = Places(s), NEW c, c = Cardinality(own)
    PROVE  /\ DOMAIN place = own /\ c \in Nat /\ c <= n
           /\ \A k \in 1 .. c : \E i \in own : place[i] = k
<1>0. own \in SUBSET (1 .. n)
  OBVIOUS
<1>1. IsFiniteSet(1 .. n) /\ Cardinality(1 .. n) = n
  BY FS_Interval
<1>2. IsFiniteSet(own) /\ c \in Nat /\ c <= n
  BY <1>0, <1>1, FS_Subset, FS_CardinalityType
<1> DEFINE Less(i) == {j \in own : Before(s, j, i)}
<1>3. /\ DOMAIN place = own
      /\ \A i \in own : place[i] = 1 + Cardinality(Less(i))
  BY DEF Places
<1>4. \A i \in own : i \in Nat /\ s[i].id \in Nat
  BY <1>0
<1>5. ASSUME NEW i \in own
      PROVE  /\ IsFiniteSet(Less(i)) /\ Cardinality(Less(i)) \in Nat
             /\ Cardinality(Less(i)) < c
  <2>1. Less(i) \in SUBSET own
    OBVIOUS
  <2>2. IsFiniteSet(Less(i)) /\ Cardinality(Less(i)) \in Nat
    BY <1>2, <2>1, FS_Subset, FS_CardinalityType
  <2>3. i \notin Less(i)
    BY <1>4, BeforeOrders
  <2>4. IsFiniteSet(Less(i) \cup {i}) /\ Cardinality(Less(i) \cup {i}) = Cardinality(Less(i)) + 1
    <3> HIDE DEF Less
    <3> QED BY <2>2, <2>3, FS_AddElement
  <2>5. Less(i) \cup {i} \in SUBSET own
    OBVIOUS
  <2>6. Cardinality(Less(i) \cup {i}) <= c
    <3> HIDE DEF Less
    <3> QED BY <1>2, <2>5, FS_Subset
  <2> QED BY <1>2, <2>2, <2>4, <2>6
<1>6. ASSUME NEW i \in own, NEW j \in own, Before(s, i, j)
      PROVE  Cardinality(Less(i)) < Cardinality(Less(j))
  <2>1. i \notin Less(i)
    BY <1>4, BeforeOrders
  <2>2. Less(i) \cup {i} \in SUBSET Less(j)
    BY <1>4, <1>6, BeforeOrders
  <2> HIDE DEF Less
  <2>3. Cardinality(Less(i) \cup {i}) = Cardinality(Less(i)) + 1
    BY <1>5, <2>1, FS_AddElement
  <2>4. Cardinality(Less(i) \cup {i}) <= Cardinality(Less(j))
    BY <1>5, <2>2, FS_Subset
  <2> QED BY <1>5, <2>3, <2>4
<1> HIDE DEF Less
<1>7. \A i \in own : place[i] \in 1 .. c
  BY <1>2, <1>3, <1>5
<1>8. ASSUME NEW i \in own, NEW j \in own, i # j
      PROVE  place[i] # place[j]
  <2>1. Before(s, i, j) \/ Before(s, j, i)
    BY <1>4, <1>8, BeforeOrders
  <2>2. Cardinality(Less(i)) # Cardinality(Less(j))
    BY <1>5, <1>6, <2>1
  <2> QED BY <1>3, <1>5, <2>2
<1>9. place \in [own -> 1 .. c]
  <2>1. place = [i \in own |-> place[i]]
    BY <1>3 DEF Places
  <2> QED BY <1>7, <2>1
<1>10. place \in Injection(own, 1 .. c)
  BY <1>8, <1>9 DEF Injection, IsInjective
<1>11. IsFiniteSet(1 .. c) /\ Cardinality(1 .. c) = c
  BY <1>2, FS_Interval
<1>12. place \in Surjection(own, 1 .. c)
  BY <1>10, <1>11, FS_Injection
<1>13. \A k \in 1 .. c : \E i \in own : place[i] = k
  BY <1>12 DEF Surjection
<1> QED BY <1>2, <1>3, <1>13

\* t is the sorted s: its k-th element is the one at from[k].
Order(place) == [k \in 1 .. Cardinality(DOMAIN place) |->
                    CHOOSE i \in DOMAIN place : place[i] = k]
Ordered(s, t, from, c, n) ==
    /\ c \in Nat /\ c <= n /\ DOMAIN t = 1 .. c /\ Len(t) = c
    /\ \A k \in 1 .. c : /\ from[k] \in 1 .. n /\ s[from[k]] # Absent
                         /\ t[k] = s[from[k]]

LEMMA SortedIs ==
    ASSUME NEW n \in Nat, NEW s, DOMAIN s = 1 .. n, \A i \in 1 .. n : s[i].id \in Nat,
           NEW place, place = Places(s), NEW c, c = Cardinality(DOMAIN place),
           NEW from, from = Order(place), NEW t, t = Sorted(s)
    PROVE  /\ Ordered(s, t, from, c, n)
           /\ (\A i \in 1 .. n : s[i] # Absent) => c = n
<1> DEFINE own == {i \in 1 .. n : s[i] # Absent}
<1>1. /\ DOMAIN place = own /\ Cardinality(own) \in Nat /\ Cardinality(own) <= n
      /\ \A k \in 1 .. Cardinality(own) : \E i \in own : place[i] = k
  <2> HIDE DEF own
  <2>1. own = {i \in 1 .. n : s[i] # Absent}
    BY DEF own
  <2> QED BY <2>1, PlacesAre
<1>2. c = Cardinality(own) /\ c \in Nat /\ c <= n
  BY <1>1
<1>3. ASSUME NEW k \in 1 .. c
      PROVE  from[k] \in own
  <2>1. from[k] = CHOOSE i \in own : place[i] = k
    BY <1>1, <1>2 DEF Order
  <2>2. \E i \in own : place[i] = k
    BY <1>1, <1>2
  <2> HIDE DEF own
  <2> QED BY <2>1, <2>2
<1>4. t = [k \in 1 .. c |-> s[from[k]]]
  BY DEF Sorted, Order
<1>5. t = [k \in 1 .. c |-> t[k]]
  BY <1>4
<1>6. Len(t) = c
  BY <1>2, <1>5, ListIs
<1>7. Ordered(s, t, from, c, n)
  BY <1>2, <1>3, <1>4, <1>6 DEF Ordered
<1>8. ASSUME \A i \in 1 .. n : s[i] # Absent
      PROVE  c = n
  <2>1. own = 1 .. n
    BY <1>8
  <2>2. Cardinality(1 .. n) = n
    BY FS_Interval
  <2> HIDE DEF own
  <2> QED BY <1>2, <2>1, <2>2
<1> QED BY <1>7, <1>8

LEMMA PlacesAlike ==
    ASSUME NEW n \in Nat, NEW s, DOMAIN s = 1 .. n, NEW t, DOMAIN t = 1 .. n,
           \A i \in 1 .. n : Alike(s[i], t[i]) /\ (s[i] = Absent <=> t[i] = Absent)
    PROVE  Places(s) = Places(t)
<1> DEFINE own == {i \in 1 .. n : s[i] # Absent}
<1>1. {i \in DOMAIN s : s[i] # Absent} = own /\ {i \in DOMAIN t : t[i] # Absent} = own
  OBVIOUS
<1>2. ASSUME NEW i \in own
      PROVE  {j \in own : Before(s, j, i)} = {j \in own : Before(t, j, i)}
  <2>1. ASSUME NEW j \in own PROVE Before(s, j, i) <=> Before(t, j, i)
    <3>1. Alike(s[i], t[i]) /\ Alike(s[j], t[j])
      OBVIOUS
    <3>2. /\ Precedes(s[i], s[j]) <=> Precedes(t[i], t[j])
          /\ Precedes(s[j], s[i]) <=> Precedes(t[j], t[i])
      BY <3>1, PrecedesAlike
    <3> QED BY <3>2 DEF Before
  <2> QED BY <2>1
<1>3. Places(s) = [i \in own |-> 1 + Cardinality({j \in own : Before(s, j, i)})]
  BY <1>1 DEF Places
<1>4. Places(t) = [i \in own |-> 1 + Cardinality({j \in own : Before(t, j, i)})]
  BY <1>1 DEF Places
<1> QED BY <1>2, <1>3, <1>4

\* What was no element of the base stays as it is.
LEMMA ShownStays ==
    ASSUME NEW t, NEW u, Turns(t, u, View(t)), NEW i \in Index,
           SlotAt(t, i) = At(t.array, i), At(t.array, i) \in Value
    PROVE  SlotAt(u, i) = At(u.array, i) /\ SlotAt(u, i) = SlotAt(t, i)
<1>1. Shows(t, u, SlotAt(t, i), SlotAt(u, i))
  BY ViewIs DEF Turns
<1>2. SlotAt(t, i).kind # "base"
  BY ValueIs
<1>3. SlotAt(u, i) = SlotAt(t, i)
  BY <1>1, <1>2 DEF Shows
<1> QED BY <1>2, <1>3, BaseKind

\* After a loop of reads, there are no elements of the base at the indices.
LEMMA ReadAllShown ==
    ASSUME BaseOK, NEW w, Sound(w), NEW c \in Nat,
           NEW indices, DOMAIN indices = 1 .. c, \A j \in 1 .. c : indices[j] \in Index,
           NEW u, u = ReadAll(w, indices)
    PROVE  \A j \in 1 .. c : SlotAt(u, indices[j]) = At(u.array, indices[j])
<1> DEFINE steps == [j \in 1 .. c |-> Step("read", indices[j], 0, Absent)]
           run == CHOOSE f : Running(w, steps, f)
           T == {m \in Nat : m <= c =>
                    /\ Sound(run[m])
                    /\ \A j \in 1 .. m : SlotAt(run[m], indices[j])
                                            = At(run[m].array, indices[j])}
<1>1. u = Run(w, steps)
  BY DEF ReadAll
<1>2. ASSUME NEW j \in 1 .. c
      PROVE  steps[j].op = "read" /\ steps[j].at = indices[j]
  BY DEF Step
<1>3. steps = [j \in 1 .. c |-> steps[j]]
  OBVIOUS
<1> HIDE DEF steps
<1>4. Len(steps) = c /\ DOMAIN steps = 1 .. c
  BY <1>3, ListIs
<1>5. Running(w, steps, run)
  BY <1>4, Runs
<1>6. u = run[c]
  BY <1>1, <1>4 DEF Run, Running
<1> HIDE DEF run
<1>7. 0 \in T
  <2>1. run[0] = w
    BY <1>4, <1>5 DEF Running
  <2> QED BY <2>1
<1>8. ASSUME NEW m \in Nat, m \in T PROVE m + 1 \in T
  <2> SUFFICES ASSUME m + 1 <= c
               PROVE  /\ Sound(run[m + 1])
                      /\ \A j \in 1 .. m + 1 : SlotAt(run[m + 1], indices[j])
                                                  = At(run[m + 1].array, indices[j])
    OBVIOUS
  <2>1. PICK i \in 1 .. c : i = m + 1 /\ i # 0 /\ i - 1 = m /\ i \in 0 .. c
    OBVIOUS
  <2>2. /\ Sound(run[m])
        /\ \A j \in 1 .. m : SlotAt(run[m], indices[j]) = At(run[m].array, indices[j])
    BY <1>8
  <2>3. run[i] = Take(run[m], steps[i])
    BY <1>4, <1>5, <2>1 DEF Running
  <2>4. PICK a, b, at : a = run[m] /\ b = run[i] /\ at = indices[i]
    OBVIOUS
  <2>5. b = GetTrap(a, at) /\ at \in Index
    BY <1>2, <2>3, <2>4, TakeIs
  <2>6. GotFrom(a, b, at)
    BY <2>2, <2>4, <2>5, GetTrapTurns
  <2>7. Turns(a, b, View(a)) /\ SlotAt(b, at) = At(b.array, at)
    BY <2>6 DEF GotFrom
  <2>8. Sound(b)
    BY <2>7, TurnsParts
  <2>9. ASSUME NEW j \in 1 .. m
        PROVE  SlotAt(b, indices[j]) = At(b.array, indices[j])
    <3>1. j \in 1 .. c
      OBVIOUS
    <3>2. PICK k \in Index : k = indices[j]
      BY <3>1
    <3>3. At(a.array, k) \in Value
      BY <2>2, <2>4, SizeIs, AtIs DEF Index
    <3> QED BY <2>2, <2>4, <2>7, <3>2, <3>3, ShownStays
  <2>10. \A j \in 1 .. m + 1 : j \in 1 .. m \/ j = i
    BY <2>1
  <2>11. \A j \in 1 .. m + 1 : SlotAt(b, indices[j]) = At(b.array, indices[j])
    BY <2>4, <2>7, <2>9, <2>10
  <2> QED BY <2>1, <2>4, <2>8, <2>11
<1> HIDE DEF T
<1>9. c \in T
  BY <1>7, <1>8, SetInduction
<1> QED BY <1>6, <1>9 DEF T

\* The element of the array and the one that a reader finds are alike.
LEMMA SlotAlike ==
    ASSUME NEW w, NEW u, NEW x, NEW v \in Value, NEW y, NEW i,
           y = SlotOf(u, i, v), Shows(w, u, x, y)
    PROVE  Alike(x, v)
<1>1. \A z : (z.kind = "base" \/ IsRef(z)) => Rank(z) = 2
  BY DEF Rank, Undefined, Prim, IsRef, IsDraft, IsObj
<1>2. y = v \/ (IsObj(v) /\ y.kind = "base")
  <2>1. y = v \/ (IsObj(v) /\ y = Base(v.id))
    BY DEF SlotOf
  <2>2. Base(v.id).kind = "base"
    BY DEF Base
  <2> QED BY <2>1, <2>2
<1>3. Alike(y, v)
  <2>1. CASE y = v
    BY <2>1 DEF Alike
  <2>2. CASE IsObj(v) /\ y.kind = "base"
    <3>1. Rank(y) = 2 /\ Rank(v) = 2
      BY <1>1, <2>2 DEF IsRef
    <3> QED BY <3>1 DEF Alike
  <2> QED BY <1>2, <2>1, <2>2
<1>4. Alike(x, y)
  <2>1. CASE x = y
    BY <2>1 DEF Alike
  <2>2. CASE x.kind = "base" /\ IsDraft(y)
    <3>1. Rank(y) = 2 /\ Rank(x) = 2
      BY <1>1, <2>2 DEF IsRef
    <3> QED BY <3>1 DEF Alike
  <2> QED BY <2>1, <2>2 DEF Shows
<1> QED BY <1>3, <1>4 DEF Alike

\* An element that a reader finds at i settles there as itself.
LEMMA SettlesItself ==
    ASSUME NEW w \in World, w.original = base.array, NEW i \in Index,
           At(w.array, i) \in Value
    PROVE  Settle(i, SlotAt(w, i)) = SlotAt(w, i)
<1>1. PICK v : v = At(w.array, i)
  OBVIOUS
<1>2. CASE IsObj(v) /\ SlotAt(w, i) = Base(v.id)
  <2>1. ~IsObj(Base(v.id))
    BY DEF IsObj, Base
  <2> QED BY <1>2, <2>1 DEF Settle
<1>3. CASE IsObj(v) /\ SlotAt(w, i) # Base(v.id)
  <2>1. At(w.original, i) # v /\ SlotAt(w, i) = v
    BY <1>1, <1>3, SlotOfIs DEF SlotAt
  <2> QED BY <2>1 DEF Settle
<1>4. CASE ~IsObj(v)
  <2>1. SlotAt(w, i) = v
    BY <1>1, <1>4, SlotOfIs DEF SlotAt
  <2> QED BY <1>4, <2>1 DEF Settle
<1> QED BY <1>2, <1>3, <1>4

LEMMA PlainSortIs ==
    ASSUME NEW s, NEW n \in Nat, DOMAIN s = 1 .. n, NEW from, NEW c \in Nat,
           Ordered(s, Sorted(s), from, c, n),
           \A i \in 1 .. n : Settle(i, s[i]) = s[i], NEW p, p = PlainSort(s)
    PROVE  /\ DOMAIN p = 1 .. n
           /\ \A i \in 1 .. n : p[i] = IF i <= c THEN Settle(i, s[from[i]])
                                       ELSE Emptied(s[i])
<1>1. PICK t : t = Sorted(s)
  OBVIOUS
<1>2. Len(t) = c /\ \A k \in 1 .. c : t[k] = s[from[k]]
  BY <1>1 DEF Ordered
<1>3. p = [i \in 1 .. n |-> IF i <= c
                            THEN IF t[i] = s[i] THEN s[i] ELSE Settle(i, t[i])
                            ELSE Arrived(s, i, Absent)]
  BY <1>1, <1>2 DEF PlainSort
<1>4. ASSUME NEW i \in 1 .. n
      PROVE  p[i] = IF i <= c THEN Settle(i, s[from[i]]) ELSE Emptied(s[i])
  <2>1. CASE i <= c
    <3>1. i \in 1 .. c
      BY <2>1
    <3>2. t[i] = s[from[i]] /\ (p[i] = IF t[i] = s[i] THEN s[i] ELSE Settle(i, t[i]))
      BY <1>2, <1>3, <2>1, <3>1
    <3>3. Settle(i, s[i]) = s[i]
      OBVIOUS
    <3> QED BY <2>1, <3>2, <3>3
  <2>2. CASE ~(i <= c)
    <3>1. p[i] = Lands(At(s, i), i, Absent)
      BY <1>3, <2>2, LandsArrived
    <3>2. At(s, i) = s[i]
      BY DEF At
    <3> QED BY <2>2, <3>1, <3>2 DEF Lands
  <2> QED BY <2>1, <2>2
<1>5. DOMAIN p = 1 .. n
  BY <1>3
<1> QED BY <1>4, <1>5

LEMMA ProxySortDoes ==
    ASSUME BaseOK, NEW w, Sound(w), NEW u, u = ProxySort(w), NEW s, s = Slots(w)
    PROVE  Does(w, u, PlainSort(s))
<1>0. /\ Len(w.array) \in Nat /\ Size(w) = Len(w.array) /\ w \in World
      /\ DOMAIN s = 1 .. Len(w.array) /\ Len(s) = Len(w.array)
  BY SizeIs, SlotsAre, SoundParts
<1>1. PICK n \in Nat : n = Len(w.array)
  BY <1>0
<1>a. PICK one \in Nat : one = 1
  OBVIOUS
<1>b. PICK indices : indices = Up(one, n)
  OBVIOUS
<1>2. indices = Up(one, n) /\ one = 1
  BY <1>a, <1>b
<1>3. DOMAIN indices = 1 .. n /\ \A j \in 1 .. n : indices[j] = j /\ indices[j] \in Index
  <2>1. n = one + n - 1
    BY <1>2
  <2>2. Ascends(indices, one, n)
    BY <1>2, <2>1, UpIs
  <2> QED BY <1>2, <2>2 DEF Ascends, Index
<1>4. PICK t : t = ReadAll(w, indices)
  OBVIOUS
<1>5. PICK f : f = View(w)
  OBVIOUS
<1>6. Turns(w, t, f) /\ Len(t.array) = n
  <2>1. Turns(w, w, f)
    BY <1>5, ViewIs, TurnsSame
  <2> QED BY <1>1, <1>3, <1>4, <2>1, ReadAllTurns
<1>7. Sound(t) /\ t \in World /\ Grows(w, t) /\ \A i \in Index : Shows(w, t, f[i], SlotAt(t, i))
  BY <1>6, TurnsParts, SoundParts DEF Turns
<1>8. PICK a : a = t.array
  OBVIOUS
<1>9. a \in Seq(Value) /\ DOMAIN a = 1 .. n
  BY <1>6, <1>7, <1>8, SizeIs
<1>10. ASSUME NEW i \in 1 .. n
       PROVE  /\ i \in Index /\ At(t.array, i) = a[i] /\ a[i] \in Value
              /\ SlotAt(t, i) = a[i] /\ s[i] = SlotAt(w, i)
              /\ Shows(w, t, s[i], a[i])
  <2>1. i \in Index
    BY DEF Index
  <2>2. At(t.array, i) = a[i] /\ a[i] \in Value
    BY <1>8, <1>9 DEF At
  <2>3. SlotAt(t, i) = a[i]
    <3>1. \A j \in 1 .. n : SlotAt(t, indices[j]) = At(t.array, indices[j])
      BY <1>3, <1>4, ReadAllShown
    <3> QED BY <1>3, <2>2, <3>1
  <2>4. s[i] = SlotAt(w, i) /\ s[i] = f[i]
    BY <1>0, <1>1, <1>5, <2>1, SlotsAre, ViewIs
  <2> QED BY <1>7, <2>1, <2>2, <2>3, <2>4
<1>11. Places(s) = Places(a)
  <2>1. ASSUME NEW i \in 1 .. n
        PROVE  Alike(s[i], a[i]) /\ (s[i] = Absent <=> a[i] = Absent)
    <3>1. Shows(w, t, s[i], a[i]) /\ a[i] \in Value /\ a[i] = SlotOf(t, i, a[i])
      BY <1>10 DEF SlotAt
    <3> QED BY <3>1, SlotAlike, ShowsAbsent
  <2> QED BY <1>0, <1>1, <1>9, <2>1, PlacesAlike
<1>12. PICK place : place = Places(s) /\ place = Places(a)
  BY <1>11
<1>13. PICK c, from : c = Cardinality(DOMAIN place) /\ from = Order(place)
  OBVIOUS
<1>14. \A i \in 1 .. n : a[i].id \in Nat
  BY <1>10, ValueIs
<1>15. \A i \in 1 .. n : s[i].id \in Nat
  <2>1. s \in Seq(Slot)
    BY SlotsAre
  <2>2. \A x \in Slot : x.id \in Nat
    BY DEF Slot, Value
  <2> QED BY <1>0, <1>1, <2>1, <2>2
<1>16. PICK sorted, plainly : sorted = Sorted(a) /\ plainly = Sorted(s)
  OBVIOUS
<1>17. Ordered(a, sorted, from, c, n)
  BY <1>9, <1>12, <1>13, <1>14, <1>16, SortedIs
<1>18. Ordered(s, plainly, from, c, n)
  BY <1>0, <1>1, <1>12, <1>13, <1>15, <1>16, SortedIs
<1>19. /\ c \in Nat /\ c <= n /\ DOMAIN sorted = 1 .. c /\ Len(sorted) = c
       /\ \A k \in 1 .. c : /\ from[k] \in 1 .. n /\ a[from[k]] # Absent
                            /\ sorted[k] = a[from[k]]
  BY <1>17 DEF Ordered
<1>20. PICK t1, rest : t1 = SetAll(t, 1, sorted) /\ rest = Up(c + 1, n)
  OBVIOUS
<1>21. u = DeleteAll(t1, rest)
  BY <1>0, <1>1, <1>2, <1>4, <1>8, <1>16, <1>19, <1>20 DEF ProxySort
<1>22. \A k \in 1 .. c : Usable(t, sorted[k])
  <2> TAKE k \in 1 .. c
  <2>1. PICK i \in 1 .. n : i = from[k] /\ a[i] # Absent /\ sorted[k] = a[i]
    BY <1>19
  <2>2. At(t.array, i) = a[i] /\ i \in Index
    BY <1>10
  <2> QED BY <1>7, <2>1, <2>2, HeldUsable
<1> DEFINE h == [i \in Index |-> IF 1 <= i /\ i < 1 + c THEN Settle(i, sorted[i - 1 + 1])
                                 ELSE SlotAt(t, i)]
           h2 == [i \in Index |-> IF \E j \in 1 .. n - c : rest[j] = i
                                  THEN Emptied(h[i]) ELSE h[i]]
           g == [i \in Index |-> IF i <= c THEN Settle(i, s[from[i]])
                                 ELSE IF i <= n THEN Emptied(s[i]) ELSE f[i]]
<1>23. Turns(t, t1, h) /\ Len(t1.array) = n
  <2>1. FilledFrom(View(t), h, one, sorted, c)
    BY <1>2, ViewIs DEF FilledFrom
  <2>2. Turns(t, t, View(t))
    BY <1>7, ViewIs, TurnsSame
  <2>3. one + c <= Len(t.array) + 1 /\ one \in Index /\ t1 = SetAll(t, one, sorted)
    BY <1>2, <1>6, <1>19, <1>20 DEF Index
  <2> HIDE DEF h
  <2> QED BY <1>6, <1>7, <1>19, <1>22, <2>1, <2>2, <2>3, SetAllTurns
<1>24. DOMAIN rest = 1 .. n - c /\ \A j \in 1 .. n - c : rest[j] = c + j
  <2>1. PICK b \in Nat, d \in Nat : b = c + 1 /\ d = n - c /\ n = b + d - 1
    BY <1>19
  <2>2. rest = Up(b, n)
    BY <1>20, <2>1
  <2>3. Ascends(rest, b, d)
    BY <2>1, <2>2, UpIs
  <2> QED BY <1>19, <2>1, <2>3 DEF Ascends
<1>25. Turns(t, u, h2) /\ Len(u.array) = n
  <2>1. EmptiedAt(h, h2, rest, n - c)
    BY DEF EmptiedAt
  <2>2. \A j \in 1 .. n - c : rest[j] \in Index
    BY <1>19, <1>24 DEF Index
  <2>3. PICK d \in Nat : d = n - c
    BY <1>19
  <2> HIDE DEF h, h2
  <2> QED BY <1>7, <1>21, <1>23, <1>24, <2>1, <2>2, <2>3, DeleteAllTurns
<1>26. ASSUME NEW i \in Index
       PROVE  Shows(w, t, g[i], h2[i])
  <2>0. i \in Nat /\ 1 <= i /\ i - 1 + 1 = i
    BY DEF Index
  <2>1. CASE i <= c
    <3>1. i \in 1 .. c /\ i < 1 + c
      BY <1>19, <2>0, <2>1
    <3>2. PICK k \in 1 .. n : k = from[i] /\ sorted[i] = a[k]
      BY <1>19, <3>1
    <3>3. ~ \E j \in 1 .. n - c : rest[j] = i
      BY <1>19, <1>24, <2>0, <2>1
    <3>4. h2[i] = Settle(i, a[k]) /\ g[i] = Settle(i, s[k])
      BY <2>0, <2>1, <3>1, <3>2, <3>3
    <3>5. Shows(w, t, s[k], a[k])
      BY <1>10
    <3> QED BY <3>4, <3>5, SettleShows
  <2>2. CASE ~(i <= c) /\ i <= n
    <3>1. i - c \in 1 .. n - c /\ rest[i - c] = i /\ i \in 1 .. n /\ ~(i < 1 + c)
      BY SMTT(30), <1>19, <1>24, <2>0, <2>2
    <3>2. h2[i] = Emptied(SlotAt(t, i)) /\ g[i] = Emptied(s[i])
      BY <2>2, <3>1
    <3>3. Emptied(s[i]) = Emptied(SlotAt(t, i))
      BY <1>10, <3>1, ShowsAbsent
    <3> QED BY <3>2, <3>3 DEF Shows
  <2>3. CASE ~(i <= n)
    <3>1. ~(i <= c) /\ ~(i < 1 + c) /\ ~ \E j \in 1 .. n - c : rest[j] = i
      BY <1>19, <1>24, <2>0, <2>3
    <3>2. h2[i] = SlotAt(t, i) /\ g[i] = f[i]
      BY <2>3, <3>1
    <3> QED BY <1>7, <3>2
  <2> QED BY <2>1, <2>2, <2>3
<1>27. \A i \in 1 .. n : g[i] = IF i <= c THEN Settle(i, s[from[i]]) ELSE Emptied(s[i])
  BY DEF Index
<1> HIDE DEF g, h, h2
<1>28. Turns(w, u, g)
  BY <1>0, <1>6, <1>25, <1>26, AfterTurns
<1>29. PICK p : p = PlainSort(s)
  OBVIOUS
<1>30. \A i \in 1 .. n : Settle(i, s[i]) = s[i]
  <2> TAKE i \in 1 .. n
  <2>1. At(w.array, i) \in Value
    BY <1>0, <1>1, SizeIs, AtIs
  <2>2. w.original = base.array
    BY SoundParts DEF BaseKept
  <2> QED BY <1>0, <1>10, <2>1, <2>2, SettlesItself
<1>31. /\ DOMAIN p = 1 .. n
       /\ \A i \in 1 .. n : p[i] = IF i <= c THEN Settle(i, s[from[i]])
                                   ELSE Emptied(s[i])
  BY <1>0, <1>1, <1>16, <1>18, <1>19, <1>29, <1>30, PlainSortIs
<1>32. Does(w, u, p)
  BY <1>25, <1>27, <1>28, <1>31, TurnsDoes
<1> QED BY <1>29, <1>32
=============================================================================
