----------------------------- MODULE SetsProofs ------------------------------
(***************************************************************************)
(* Safety of Set drafts for every base state and every bound: setMap, the  *)
(* records of assignedMap, the copy and an iteration that is under way     *)
(* stay in step, what was deleted is gone, the new Set has the items in    *)
(* order and no draft, and the patches lead to it and back.                *)
(***************************************************************************)
EXTENDS SetProperties, SequenceTheorems, FiniteSetTheorems,
        WellFoundedInduction, TLAPS

\* The base is part of the heap, unchanged, and the Set draft knows its original.
BaseKept(w) ==
    /\ w.original = base.set
    /\ Len(base.heap) <= Len(w.heap)
    /\ \A a \in DOMAIN base.heap : w.heap[a] = base.heap[a]

\* Drafts are of objects of the base, and their copies lie outside of it.
DraftsApart(w) ==
    \A d \in DOMAIN w.drafts :
        /\ w.drafts[d].original \in DOMAIN base.heap
        /\ w.drafts[d].copy \in {Null} \cup (Len(base.heap) + 1 .. Len(w.heap))

\* The copy holds each item once, and an iteration is somewhere in it.
ItemsOnce(w) ==
    /\ \A i, j \in DOMAIN w.copy : w.copy[i] = w.copy[j] => i = j
    /\ w.position <= Len(w.copy)
    /\ w.copy # w.original => w.copied

\* setMap is a function on items of the copy, from an item to itself or to a
\* draft of it.
MapOfItems(w) ==
    /\ \A m, n \in w.setMap : m.item = n.item => m = n
    /\ \A m \in w.setMap :
          /\ m.item \in Range(w.copy)
          /\ \/ m.value = m.item
             \/ /\ IsDraft(m.value) /\ m.value.id \in DOMAIN w.drafts
                /\ m.item = Obj(w.drafts[m.value.id].original)

\* What the recipe added is recorded in setMap and assignedMap.
AddedRecorded(w) ==
    \A v \in Range(w.copy) \ Range(w.original) :
        IsRef(v) => /\ [item |-> v, value |-> v] \in w.setMap
                    /\ [item |-> v, added |-> TRUE] \in w.assigned

\* A changed draft has a copy, and no copy holds a draft.
DraftsCopied(w) ==
    \A d \in DOMAIN w.drafts :
        /\ w.drafts[d].operated => w.drafts[d].copy # Null
        /\ w.drafts[d].copy # Null => ~IsDraft(w.heap[w.drafts[d].copy])

\* What the recipe added exists, and its objects have a task; only objects and
\* drafts are mapped.
AddedQueued(w) ==
    /\ \A v \in Range(w.copy) \ Range(w.original) :
          /\ IsDraft(v) => v.id \in DOMAIN w.drafts
          /\ IsObj(v) => v.id \in DOMAIN w.heap /\ v \in w.tasks
    /\ \A m \in w.setMap : IsRef(m.item)

Sound(w) == /\ w \in World
            /\ BaseKept(w) /\ DraftsApart(w) /\ DraftsCopied(w)
            /\ ItemsOnce(w) /\ MapOfItems(w)
            /\ AddedRecorded(w) /\ AddedQueued(w)

\* Other elements and drafts, the base and the drafts' originals as before.
Rewritten(w, H, D, b) == [w EXCEPT !.heap = H, !.drafts = D, !.operated = b]
KeepsBase(w, H, D) ==
    /\ Len(w.heap) <= Len(H)
    /\ \A a \in DOMAIN base.heap : H[a] = base.heap[a]
    /\ DOMAIN w.drafts \subseteq DOMAIN D
    /\ \A d \in DOMAIN w.drafts : D[d].original = w.drafts[d].original
    /\ \A d \in DOMAIN D :
          /\ D[d].original \in DOMAIN base.heap
          /\ D[d].copy \in {Null} \cup (Len(base.heap) + 1 .. Len(H))
          /\ D[d].operated => D[d].copy # Null
          /\ D[d].copy # Null => ~IsDraft(H[D[d].copy])

\* The draft d got v in its copy, and other drafts and objects are as before.
Wrote(w, H, D, d, v) ==
    /\ DOMAIN D = DOMAIN w.drafts
    /\ \A e \in DOMAIN D : e # d => D[e] = w.drafts[e]
    /\ D[d].original = w.drafts[d].original /\ D[d].item = w.drafts[d].item
    /\ D[d].copy = IF w.drafts[d].copy # Null THEN w.drafts[d].copy
                                              ELSE Len(w.heap) + 1
    /\ D[d].operated /\ D[d].assigned = (v # w.heap[w.drafts[d].original])
    /\ H[D[d].copy] = v
    /\ \A a \in DOMAIN w.heap : a # D[d].copy => H[a] = w.heap[a]

IInv == base \in Bases /\ (phase = "recipe" => Sound(world))

-----------------------------------------------------------------------------
(***************************************************************************)
(* Sequences and worlds.                                                   *)
(***************************************************************************)

\* The components of a world.
LEMMA WorldParts ==
    ASSUME NEW w \in World
    PROVE  /\ w.copy \in [1 .. Len(w.copy) -> Value] /\ Len(w.copy) \in Nat
           /\ DOMAIN w.copy = 1 .. Len(w.copy)
           /\ w.heap \in [1 .. Len(w.heap) -> Value] /\ Len(w.heap) \in Nat
           /\ DOMAIN w.heap = 1 .. Len(w.heap)
           /\ w.drafts \in [1 .. Len(w.drafts) -> ItemDraft]
           /\ Len(w.drafts) \in Nat
           /\ DOMAIN w.drafts = 1 .. Len(w.drafts)
<1>1. w.copy \in Seq(Value) /\ w.heap \in Seq(Value) /\ w.drafts \in Seq(ItemDraft)
  BY DEF World
<1> QED
  BY <1>1, LenProperties

\* Appending keeps what is there.
LEMMA Appended ==
    ASSUME NEW S, NEW s \in Seq(S), NEW x \in S
    PROVE  /\ Append(s, x) \in Seq(S) /\ Len(Append(s, x)) = Len(s) + 1
           /\ DOMAIN s = 1 .. Len(s) /\ DOMAIN Append(s, x) = 1 .. Len(s) + 1
           /\ \A i \in DOMAIN s : Append(s, x)[i] = s[i]
           /\ Append(s, x)[Len(s) + 1] = x
           /\ Range(Append(s, x)) = Range(s) \cup {x}
<1>1. /\ Append(s, x) \in Seq(S) /\ Len(Append(s, x)) = Len(s) + 1
      /\ \A i \in 1 .. Len(s) : Append(s, x)[i] = s[i]
      /\ Append(s, x)[Len(s) + 1] = x
      /\ DOMAIN s = 1 .. Len(s) /\ Len(s) \in Nat
  BY AppendProperties, LenProperties
<1>2. DOMAIN Append(s, x) = 1 .. Len(s) + 1
  BY <1>1, LenProperties
<1>3. Range(Append(s, x)) = Range(s) \cup {x}
  BY <1>1, <1>2 DEF Range
<1> QED
  BY <1>1, <1>2, <1>3

\* Taking an item out of a sequence without repetitions.
LEMMA Removed ==
    ASSUME NEW S, NEW s \in Seq(S), NEW n \in DOMAIN s,
           \A i, j \in DOMAIN s : s[i] = s[j] => i = j
    PROVE  /\ RemoveAt(s, n) \in Seq(S) /\ Len(RemoveAt(s, n)) = Len(s) - 1
           /\ \A i \in 1 .. Len(s) - 1 :
                 RemoveAt(s, n)[i] = IF i < n THEN s[i] ELSE s[i + 1]
           /\ \A i, j \in DOMAIN RemoveAt(s, n) :
                 RemoveAt(s, n)[i] = RemoveAt(s, n)[j] => i = j
           /\ Range(RemoveAt(s, n)) = Range(s) \ {s[n]}
<1>1. DOMAIN s = 1 .. Len(s) /\ Len(s) \in Nat /\ n \in 1 .. Len(s)
  BY LenProperties
<1>2. PICK a \in Seq(S) : /\ a = SubSeq(s, 1, n - 1) /\ Len(a) = n - 1
                          /\ \A i \in 1 .. n - 1 : a[i] = s[i]
  <2>1. /\ SubSeq(s, 1, n - 1) \in Seq(S) /\ Len(SubSeq(s, 1, n - 1)) = n - 1
        /\ \A i \in 1 .. n - 1 : SubSeq(s, 1, n - 1)[i] = s[i]
    BY <1>1, SubSeqProperties
  <2> QED
    BY <2>1
<1>3. PICK b \in Seq(S) : /\ b = SubSeq(s, n + 1, Len(s)) /\ Len(b) = Len(s) - n
                          /\ \A i \in 1 .. Len(s) - n : b[i] = s[n + i]
  <2>1. /\ SubSeq(s, n + 1, Len(s)) \in Seq(S)
        /\ Len(SubSeq(s, n + 1, Len(s))) = Len(s) - n
        /\ \A i \in 1 .. Len(s) - n : SubSeq(s, n + 1, Len(s))[i] = s[n + i]
    BY <1>1, SubSeqProperties
  <2> QED
    BY <2>1
<1>4. PICK r : r = RemoveAt(s, n) /\ r = a \o b
  BY <1>2, <1>3 DEF RemoveAt
<1>5. /\ r \in Seq(S) /\ Len(r) = Len(s) - 1
      /\ \A i \in 1 .. Len(s) - 1 : r[i] = IF i < n THEN s[i] ELSE s[i + 1]
  <2>1. /\ a \o b \in Seq(S) /\ Len(a \o b) = Len(a) + Len(b)
        /\ \A i \in 1 .. Len(a) + Len(b) :
              (a \o b)[i] = IF i <= Len(a) THEN a[i] ELSE b[i - Len(a)]
    BY ConcatProperties
  <2>2. Len(a) + Len(b) = Len(s) - 1
    <3>1. /\ Len(a) = n - 1 /\ Len(b) = Len(s) - n
          /\ Len(s) \in Nat /\ n \in Nat
      BY <1>1, <1>2, <1>3
    <3>2. \A x, y \in Nat : (y - 1) + (x - y) = x - 1
      OBVIOUS
    <3> QED
      BY <3>1, <3>2
  <2>3. ASSUME NEW i \in 1 .. Len(s) - 1
        PROVE  r[i] = IF i < n THEN s[i] ELSE s[i + 1]
    <3>1. r[i] = IF i <= n - 1 THEN a[i] ELSE b[i - (n - 1)]
      BY <1>2, <1>4, <2>1, <2>2
    <3>2. CASE i < n
      BY <1>1, <1>2, <3>1, <3>2
    <3>3. CASE i >= n
      <4>1. i - (n - 1) \in 1 .. Len(s) - n /\ n + (i - (n - 1)) = i + 1
        BY <1>1, <3>3
      <4> QED
        BY SMTT(30), <1>1, <1>3, <3>1, <3>3, <4>1
    <3> QED
      BY <1>1, <3>2, <3>3
  <2> QED
    BY <1>4, <2>1, <2>2, <2>3
<1>6. DOMAIN r = 1 .. Len(s) - 1
  BY <1>5, LenProperties
<1>7. \A i, j \in DOMAIN r : r[i] = r[j] => i = j
  <2> SUFFICES ASSUME NEW i \in DOMAIN r, NEW j \in DOMAIN r, r[i] = r[j]
               PROVE  i = j
    OBVIOUS
  <2>1. /\ i \in Nat /\ j \in Nat /\ i \in DOMAIN s /\ i + 1 \in DOMAIN s
        /\ j \in DOMAIN s /\ j + 1 \in DOMAIN s
    BY <1>1, <1>6
  <2>2. /\ r[i] = s[IF i < n THEN i ELSE i + 1]
        /\ r[j] = s[IF j < n THEN j ELSE j + 1]
    BY <1>5, <1>6
  <2>3. (IF i < n THEN i ELSE i + 1) = (IF j < n THEN j ELSE j + 1)
    BY <2>1, <2>2
  <2> QED
    BY <1>1, <2>1, <2>3
<1>8. Range(r) \subseteq Range(s) \ {s[n]}
  <2> SUFFICES ASSUME NEW i \in DOMAIN r
               PROVE  r[i] \in Range(s) \ {s[n]}
    BY DEF Range
  <2>1. i \in Nat /\ i \in DOMAIN s /\ i + 1 \in DOMAIN s
    BY <1>1, <1>6
  <2>2. r[i] = IF i < n THEN s[i] ELSE s[i + 1]
    BY <1>5, <1>6
  <2>3. PICK m \in DOMAIN s : r[i] = s[m] /\ m # n
    BY <1>1, <2>1, <2>2
  <2> QED
    BY <2>3 DEF Range
<1>9. ASSUME NEW i \in DOMAIN s, i # n
      PROVE  s[i] \in Range(r)
  <2>1. CASE i < n
    BY SMTT(30), <1>1, <1>5, <1>6, <2>1 DEF Range
  <2>2. CASE i > n
    <3>1. i - 1 \in DOMAIN r /\ r[i - 1] = s[i]
      BY <1>1, <1>5, <1>6, <2>2
    <3> QED
      BY <3>1 DEF Range
  <2> QED
    BY <1>1, <1>9, <2>1, <2>2
<1>10. Range(r) = Range(s) \ {s[n]}
  BY <1>8, <1>9 DEF Range
<1> QED
  BY <1>4, <1>5, <1>7, <1>10

-----------------------------------------------------------------------------
(***************************************************************************)
(* The parts of the methods: each changes some fields and leaves the rest. *)
(***************************************************************************)

\* prepare: copied and marked, otherwise as before.
LEMMA PrepareFields ==
    ASSUME NEW w \in World
    PROVE  /\ Prepare(w) \in World
           /\ Prepare(w).copied = TRUE /\ Prepare(w).original = w.original
           /\ Prepare(w).copy = w.copy /\ Prepare(w).setMap = w.setMap
           /\ Prepare(w).assigned = w.assigned /\ Prepare(w).position = w.position
           /\ Prepare(w).heap = w.heap /\ Prepare(w).drafts = w.drafts
           /\ Prepare(w).tasks = w.tasks /\ Prepare(w).operated = TRUE
  BY DEF World, Prepare, MarkChanged, EnsureShallowCopy

\* assignedMap.set() and assignedMap.delete().
LEMMA UnassignFields ==
    ASSUME NEW w \in World, NEW item \in Value
    PROVE  /\ Unassign(w, item) \in World
           /\ Unassign(w, item).assigned = {e \in w.assigned : e.item # item}
           /\ Unassign(w, item).original = w.original
           /\ Unassign(w, item).copy = w.copy
           /\ Unassign(w, item).copied = w.copied
           /\ Unassign(w, item).setMap = w.setMap
           /\ Unassign(w, item).position = w.position
           /\ Unassign(w, item).heap = w.heap
           /\ Unassign(w, item).drafts = w.drafts
           /\ Unassign(w, item).tasks = w.tasks
           /\ Unassign(w, item).operated = w.operated
<1>1. {e \in w.assigned : e.item # item} \in SUBSET [item : Value, added : BOOLEAN]
  BY DEF World
<1> QED
  BY <1>1 DEF World, Unassign

\* assignedMap.set() overwrites what is recorded of an item.
LEMMA AssignFields ==
    ASSUME NEW w \in World, NEW item \in Value, NEW b \in BOOLEAN
    PROVE  /\ Assign(w, item, b) \in World
           /\ Assign(w, item, b).assigned =
                  {e \in w.assigned : e.item # item} \cup {[item |-> item, added |-> b]}
           /\ Assign(w, item, b).original = w.original
           /\ Assign(w, item, b).copy = w.copy
           /\ Assign(w, item, b).copied = w.copied
           /\ Assign(w, item, b).setMap = w.setMap
           /\ Assign(w, item, b).position = w.position
           /\ Assign(w, item, b).heap = w.heap
           /\ Assign(w, item, b).drafts = w.drafts
           /\ Assign(w, item, b).tasks = w.tasks
           /\ Assign(w, item, b).operated = w.operated
<1> DEFINE u == Unassign(w, item)
           A == u.assigned \cup {[item |-> item, added |-> b]}
<1>1. /\ u \in World /\ u.assigned = {e \in w.assigned : e.item # item}
      /\ u.original = w.original /\ u.copy = w.copy /\ u.copied = w.copied
      /\ u.setMap = w.setMap /\ u.position = w.position
      /\ u.heap = w.heap /\ u.drafts = w.drafts /\ u.tasks = w.tasks
      /\ u.operated = w.operated
  BY UnassignFields
<1>2. Assign(w, item, b) = [u EXCEPT !.assigned = A]
  BY DEF Assign
<1>3. A \in SUBSET [item : Value, added : BOOLEAN]
  BY <1>1 DEF World
<1> HIDE DEF u
<1> QED
  BY <1>1, <1>2, <1>3 DEF World

\* markFinalization() registers a callback or a task and changes nothing else.
LEMMA MarkFinalizationFields ==
    ASSUME NEW w \in World, NEW v \in Value, IsDraft(v) => v.id \in DOMAIN w.drafts
    PROVE  LET u == MarkFinalization(w, v)
           IN  /\ u \in World
               /\ u.original = w.original /\ u.copy = w.copy
               /\ u.copied = w.copied /\ u.setMap = w.setMap
               /\ u.assigned = w.assigned /\ u.position = w.position
               /\ u.heap = w.heap /\ DOMAIN u.drafts = DOMAIN w.drafts
               /\ \A d \in DOMAIN w.drafts :
                     /\ u.drafts[d].original = w.drafts[d].original
                     /\ u.drafts[d].copy = w.drafts[d].copy
                     /\ u.drafts[d].operated = w.drafts[d].operated
                     /\ u.drafts[d].item = w.drafts[d].item
                     /\ u.drafts[d].assigned = w.drafts[d].assigned
               /\ u.operated = w.operated
               /\ w.tasks \subseteq u.tasks /\ (IsObj(v) => v \in u.tasks)
<1>1. CASE IsDraft(v)
  <2> DEFINE D == [w.drafts EXCEPT ![v.id].added = TRUE]
  <2>1. w.drafts \in Seq(ItemDraft) /\ v.id \in DOMAIN w.drafts
    BY <1>1 DEF World
  <2>2. D \in Seq(ItemDraft)
    <3>1. D \in [DOMAIN w.drafts -> ItemDraft]
      BY ZenonT(60), <2>1, WorldParts DEF ItemDraft
    <3> QED
      BY <3>1, WorldParts, SeqDef
  <2>3. /\ DOMAIN D = DOMAIN w.drafts
        /\ \A d \in DOMAIN w.drafts : /\ D[d].original = w.drafts[d].original
                                      /\ D[d].copy = w.drafts[d].copy
                                      /\ D[d].operated = w.drafts[d].operated
                                      /\ D[d].item = w.drafts[d].item
                                      /\ D[d].assigned = w.drafts[d].assigned
    BY WorldParts DEF ItemDraft
  <2>4. MarkFinalization(w, v) = [w EXCEPT !.drafts = D]
    BY <1>1 DEF MarkFinalization, IsDraft, IsObj
  <2> HIDE DEF D
  <2> QED
    BY <1>1, <2>2, <2>3, <2>4 DEF World, IsDraft, IsObj
<1>2. CASE ~IsDraft(v)
  BY <1>2 DEF MarkFinalization, World
<1> QED
  BY <1>1, <1>2

\* A world that stays sound since items and records stay as they are.
LEMMA Unmoved ==
    ASSUME NEW w, Sound(w), NEW u \in World,
           u.original = w.original, u.copy = w.copy, u.setMap = w.setMap,
           u.assigned = w.assigned, w.copied => u.copied,
           u.position <= Len(u.copy), BaseKept(u), DraftsApart(u), DraftsCopied(u),
           w.tasks \subseteq u.tasks, Len(w.heap) <= Len(u.heap),
           DOMAIN w.drafts \subseteq DOMAIN u.drafts,
           \A d \in DOMAIN w.drafts : u.drafts[d].original = w.drafts[d].original
    PROVE  Sound(u)
<1>1. ItemsOnce(u)
  BY DEF Sound, ItemsOnce
<1>2. MapOfItems(u)
  BY DEF Sound, MapOfItems
<1>3. AddedRecorded(u)
  BY DEF Sound, AddedRecorded
<1>4. AddedQueued(u)
  <2>1. DOMAIN w.heap \subseteq DOMAIN u.heap
    BY WorldParts DEF Sound
  <2> QED
    BY <2>1 DEF Sound, AddedQueued
<1> QED
  BY <1>1, <1>2, <1>3, <1>4 DEF Sound

-----------------------------------------------------------------------------
(***************************************************************************)
(* The methods of the Set.                                                 *)
(***************************************************************************)

\* What Add() makes of the parts of a world.
LEMMA AddFields ==
    ASSUME NEW w, Sound(w), NEW v \in Value,
           IsDraft(v) => v.id \in DOMAIN w.drafts,
           IsObj(v) => v.id \in DOMAIN w.heap, ~Has(w, v)
    PROVE  LET u == Add(w, v)
           IN  /\ u \in World /\ u.copied = TRUE /\ u.original = w.original
               /\ u.operated = TRUE
               /\ v \notin Range(w.copy) /\ u.copy = Append(w.copy, v)
               /\ u.setMap = IF IsRef(v) THEN w.setMap \cup {[item |-> v, value |-> v]}
                                         ELSE w.setMap
               /\ u.assigned = {e \in w.assigned : e.item # v}
                               \cup {[item |-> v, added |-> TRUE]}
               /\ u.position = w.position
               /\ u.heap = w.heap /\ DOMAIN u.drafts = DOMAIN w.drafts
               /\ \A d \in DOMAIN w.drafts :
                     /\ u.drafts[d].original = w.drafts[d].original
                     /\ u.drafts[d].copy = w.drafts[d].copy
                     /\ u.drafts[d].operated = w.drafts[d].operated
                     /\ u.drafts[d].item = w.drafts[d].item
                     /\ u.drafts[d].assigned = w.drafts[d].assigned
               /\ w.tasks \subseteq u.tasks /\ (IsObj(v) => v \in u.tasks)
<1> DEFINE p  == Prepare(w)
           a  == Assign(p, v, TRUE)
           w1 == [a EXCEPT !.copy = Append(@, v)]
           M  == Entries(w1, v)
           w2 == SetMapSet(w1, v, v)
           w3 == IF IsRef(v) THEN w2 ELSE w1
           u  == MarkFinalization(w3, v)
<1>0. w \in World /\ v \notin Range(w.copy)
  BY DEF Sound, Has
<1>1. /\ p \in World /\ p.operated = TRUE /\ p.copied = TRUE /\ p.original = w.original
      /\ p.copy = w.copy /\ p.setMap = w.setMap /\ p.assigned = w.assigned
      /\ p.position = w.position /\ p.heap = w.heap /\ p.drafts = w.drafts
      /\ p.tasks = w.tasks
  BY <1>0, PrepareFields
<1> HIDE DEF p
<1>2. /\ a \in World /\ a.operated = TRUE /\ a.copied = TRUE /\ a.original = w.original
      /\ a.copy = w.copy /\ a.setMap = w.setMap
      /\ a.assigned = {e \in w.assigned : e.item # v}
                      \cup {[item |-> v, added |-> TRUE]}
      /\ a.position = w.position /\ a.heap = w.heap /\ a.drafts = w.drafts
      /\ a.tasks = w.tasks
  BY <1>1, AssignFields
<1> HIDE DEF a
<1>3. Append(w.copy, v) \in Seq(Value) /\ w.copy \in Seq(Value)
  BY <1>0, Appended DEF World
<1>4. /\ w1 \in World /\ w1.operated = TRUE /\ w1.copied = TRUE /\ w1.original = w.original
      /\ w1.copy = Append(w.copy, v) /\ w1.setMap = w.setMap
      /\ w1.assigned = a.assigned
      /\ w1.position = w.position /\ w1.heap = w.heap /\ w1.drafts = w.drafts
      /\ w1.tasks = w.tasks
  BY <1>2, <1>3 DEF World
<1> HIDE DEF w1
<1>5. M = {} /\ w2 = [w1 EXCEPT !.setMap = w.setMap \cup {[item |-> v, value |-> v]}]
  <2>1. M = {}
    BY <1>0, <1>4 DEF Entries, Sound, MapOfItems
  <2> QED
    BY <1>4, <2>1 DEF SetMapSet, World
<1>6. /\ w3 \in World /\ w3.operated = TRUE /\ w3.copied = TRUE /\ w3.original = w.original
      /\ w3.copy = Append(w.copy, v)
      /\ w3.setMap = IF IsRef(v) THEN w.setMap \cup {[item |-> v, value |-> v]}
                                 ELSE w.setMap
      /\ w3.assigned = a.assigned
      /\ w3.position = w.position /\ w3.heap = w.heap /\ w3.drafts = w.drafts
      /\ w3.tasks = w.tasks
  <2>1. w.setMap \cup {[item |-> v, value |-> v]}
           \in SUBSET [item : Value, value : Value]
    BY <1>0 DEF World
  <2>2. /\ w2 \in World /\ w2.operated = TRUE /\ w2.copied = TRUE /\ w2.original = w.original
        /\ w2.copy = Append(w.copy, v)
        /\ w2.setMap = w.setMap \cup {[item |-> v, value |-> v]}
        /\ w2.assigned = a.assigned
        /\ w2.position = w.position /\ w2.heap = w.heap /\ w2.drafts = w.drafts
        /\ w2.tasks = w.tasks
    BY <1>4, <1>5, <2>1 DEF World
  <2> HIDE DEF w2
  <2> QED
    BY <1>4, <2>2
<1> HIDE DEF w3
<1>7. /\ u \in World /\ u.operated = TRUE /\ u.copied = TRUE /\ u.original = w.original
      /\ u.copy = Append(w.copy, v) /\ u.setMap = w3.setMap
      /\ u.assigned = a.assigned /\ u.position = w.position
      /\ u.heap = w.heap /\ DOMAIN u.drafts = DOMAIN w.drafts
      /\ \A d \in DOMAIN w.drafts :
            /\ u.drafts[d].original = w.drafts[d].original
            /\ u.drafts[d].copy = w.drafts[d].copy
            /\ u.drafts[d].operated = w.drafts[d].operated
            /\ u.drafts[d].item = w.drafts[d].item
            /\ u.drafts[d].assigned = w.drafts[d].assigned
      /\ w.tasks \subseteq u.tasks /\ (IsObj(v) => v \in u.tasks)
  BY <1>6, MarkFinalizationFields
<1>8. Add(w, v) = u
  BY DEF Add, p, a, w1, w3
<1> HIDE DEF u
<1> QED
  BY <1>0, <1>2, <1>6, <1>7, <1>8

\* A new item is recorded in assignedMap and, as an object, in setMap.
LEMMA AddSound ==
    ASSUME NEW w, Sound(w), NEW v \in Value,
           IsDraft(v) => v.id \in DOMAIN w.drafts,
           IsObj(v) => v.id \in DOMAIN w.heap
    PROVE  Sound(Add(w, v))
<1>1. CASE Has(w, v)
  BY <1>1 DEF Add
<1>2. CASE ~Has(w, v)
  <2> DEFINE u == Add(w, v)
  <2>0. w \in World /\ v \notin Range(w.copy) /\ w.copy \in Seq(Value)
    BY <1>2 DEF Sound, Has, World
  <2>7. /\ u \in World /\ u.copied = TRUE /\ u.original = w.original
        /\ u.operated = TRUE
        /\ v \notin Range(w.copy) /\ u.copy = Append(w.copy, v)
        /\ u.setMap = IF IsRef(v) THEN w.setMap \cup {[item |-> v, value |-> v]}
                                  ELSE w.setMap
        /\ u.assigned = {e \in w.assigned : e.item # v}
                        \cup {[item |-> v, added |-> TRUE]}
        /\ u.position = w.position
        /\ u.heap = w.heap /\ DOMAIN u.drafts = DOMAIN w.drafts
        /\ \A d \in DOMAIN w.drafts :
              /\ u.drafts[d].original = w.drafts[d].original
              /\ u.drafts[d].copy = w.drafts[d].copy
              /\ u.drafts[d].operated = w.drafts[d].operated
              /\ u.drafts[d].item = w.drafts[d].item
              /\ u.drafts[d].assigned = w.drafts[d].assigned
        /\ w.tasks \subseteq u.tasks /\ (IsObj(v) => v \in u.tasks)
    BY <1>2, AddFields
  <2> HIDE DEF u
  <2>9. /\ Len(u.copy) = Len(w.copy) + 1 /\ Len(w.copy) \in Nat
        /\ DOMAIN w.copy = 1 .. Len(w.copy)
        /\ DOMAIN u.copy = 1 .. Len(w.copy) + 1
        /\ \A i \in DOMAIN w.copy : u.copy[i] = w.copy[i]
        /\ u.copy[Len(w.copy) + 1] = v /\ Range(u.copy) = Range(w.copy) \cup {v}
    BY <2>0, <2>7, Appended, WorldParts
  <2>10. BaseKept(u) /\ DraftsApart(u) /\ DraftsCopied(u)
    BY <2>7 DEF Sound, BaseKept, DraftsApart, DraftsCopied
  <2>11. ItemsOnce(u)
    <3>1. ASSUME NEW i \in DOMAIN u.copy, NEW j \in DOMAIN u.copy,
                 u.copy[i] = u.copy[j]
          PROVE  i = j
      <4>1. \A n \in DOMAIN w.copy : w.copy[n] # v
        BY <2>0 DEF Range
      <4> QED
        BY SMTT(30), <2>9, <3>1, <4>1 DEF Sound, ItemsOnce
    <3>2. u.position <= Len(u.copy)
      BY <2>0, <2>7, <2>9 DEF Sound, ItemsOnce, World
    <3> QED
      BY <2>7, <3>1, <3>2 DEF ItemsOnce
  <2>12. MapOfItems(u)
    <3>1. \A m \in w.setMap : m.item # v
      BY <2>0 DEF Sound, MapOfItems
    <3> QED
      BY <2>7, <2>9, <3>1 DEF Sound, MapOfItems
  <2>13. AddedRecorded(u)
    BY <2>7, <2>9 DEF Sound, AddedRecorded
  <2>14. AddedQueued(u)
    BY <2>7, <2>9 DEF Sound, AddedQueued
  <2> QED
    BY <2>7, <2>10, <2>11, <2>12, <2>13, <2>14 DEF Sound, u
<1> QED
  BY <1>1, <1>2

\* The item that a value in the Set stands for is in the copy.
LEMMA ItemInCopy ==
    ASSUME NEW w, NEW v, Has(w, v)
    PROVE  ItemOf(w, v) \in Range(w.copy)
  BY DEF Has, ItemOf

\* What Delete() makes of the parts of a world.
LEMMA DeleteFields ==
    ASSUME NEW w, Sound(w), NEW v \in Value, Has(w, v)
    PROVE  LET u    == Delete(w, v)
               item == ItemOf(w, v)
           IN  /\ u \in World /\ u.copied = TRUE /\ u.original = w.original
               /\ u.operated = TRUE
               /\ \E n \in DOMAIN w.copy :
                     /\ w.copy[n] = item /\ u.copy = RemoveAt(w.copy, n)
                     /\ u.position = IF n <= w.position THEN w.position - 1
                                                        ELSE w.position
               /\ u.setMap = {m \in w.setMap : m.item # item}
               /\ \A e \in w.assigned : e.item # item => e \in u.assigned
               /\ \A e \in u.assigned : e.item # item => e \in w.assigned
               /\ IsDraft(item) \/ [item |-> item, added |-> FALSE] \in u.assigned
               /\ u.heap = w.heap /\ u.drafts = w.drafts /\ u.tasks = w.tasks
<1> DEFINE item == ItemOf(w, v)
           p    == Prepare(w)
           a    == IF IsDraft(v) /\ item = v THEN Unassign(p, v)
                   ELSE Assign(p, item, FALSE)
           w1   == SetMapDelete(a, item)
           n    == IndexIn(w1.copy, item)
           u    == Shorten(w1, item)
<1>0. w \in World
  BY DEF Sound
<1>1. item \in Range(w.copy) /\ item \in Value
  <2>1. w.copy \in Seq(Value)
    BY <1>0 DEF World
  <2> QED
    BY <2>1, ItemInCopy, RangeOfSeq DEF Range
<1>2. /\ p \in World /\ p.copied = TRUE /\ p.original = w.original
      /\ p.copy = w.copy /\ p.setMap = w.setMap /\ p.assigned = w.assigned
      /\ p.position = w.position /\ p.heap = w.heap /\ p.drafts = w.drafts
      /\ p.tasks = w.tasks /\ p.operated = TRUE
  BY <1>0, PrepareFields
<1> HIDE DEF p
<1>3. /\ a \in World /\ a.copied = TRUE /\ a.original = w.original
      /\ a.copy = w.copy /\ a.setMap = w.setMap
      /\ \A e \in w.assigned : e.item # item => e \in a.assigned
      /\ \A e \in a.assigned : e.item # item => e \in w.assigned
      /\ IsDraft(item) \/ [item |-> item, added |-> FALSE] \in a.assigned
      /\ a.operated = TRUE
      /\ a.position = w.position /\ a.heap = w.heap /\ a.drafts = w.drafts
      /\ a.tasks = w.tasks
  <2> HIDE DEF item
  <2>1. CASE IsDraft(v) /\ item = v
    BY <1>2, <2>1, UnassignFields
  <2>2. CASE ~(IsDraft(v) /\ item = v)
    <3>1. a = Assign(p, item, FALSE)
      BY <2>2
    <3> HIDE DEF a, p
    <3>2. /\ a \in World
          /\ a.assigned = {e \in p.assigned : e.item # item}
                          \cup {[item |-> item, added |-> FALSE]}
          /\ a.original = p.original /\ a.copy = p.copy /\ a.copied = p.copied
          /\ a.setMap = p.setMap /\ a.position = p.position /\ a.heap = p.heap
          /\ a.drafts = p.drafts /\ a.tasks = p.tasks /\ a.operated = p.operated
      BY <1>1, <1>2, <3>1, AssignFields
    <3> QED
      BY <1>2, <3>2
  <2> QED
    BY <2>1, <2>2
<1>4. Delete(w, v) = u
  BY DEF Delete, p
<1> HIDE DEF a
<1>5. /\ w1 \in World /\ w1.copied = TRUE /\ w1.original = w.original
      /\ w1.copy = w.copy /\ w1.setMap = {m \in w.setMap : m.item # item}
      /\ w1.assigned = a.assigned /\ w1.operated = TRUE
      /\ w1.position = w.position /\ w1.heap = w.heap /\ w1.drafts = w.drafts
      /\ w1.tasks = w.tasks
  <2>1. a.setMap \ Entries(a, item) = {m \in w.setMap : m.item # item}
    BY <1>3 DEF Entries
  <2>2. {m \in w.setMap : m.item # item} \in SUBSET [item : Value, value : Value]
    BY <1>0 DEF World
  <2>3. w1 = [a EXCEPT !.setMap = {m \in w.setMap : m.item # item}]
    BY <1>3, <2>1 DEF SetMapDelete, World
  <2> HIDE DEF w1
  <2> QED
    BY <1>3, <2>2, <2>3 DEF World
<1> HIDE DEF w1
<1>6. n \in DOMAIN w.copy /\ w.copy[n] = item
  BY <1>1, <1>5 DEF IndexIn, Range
<1>7. RemoveAt(w.copy, n) \in Seq(Value)
  <2>1. w.copy \in Seq(Value) /\ \A i, j \in DOMAIN w.copy : w.copy[i] = w.copy[j] => i = j
    BY <1>0 DEF World, Sound, ItemsOnce
  <2> QED
    BY <1>6, <2>1, Removed
<1> DEFINE k == IF n <= w.position THEN w.position - 1 ELSE w.position
<1>8. k \in Nat /\ w.position \in Nat
  <2>1. n \in Nat /\ n >= 1 /\ w.position \in Nat
    BY <1>0, <1>6, WorldParts DEF World
  <2> HIDE DEF n
  <2> QED
    BY <2>1
<1>9. u = [w1 EXCEPT !.copy = RemoveAt(w.copy, n), !.position = k]
  BY <1>1, <1>5 DEF Shorten, World
<1> HIDE DEF u, n, k, item
<1>10. /\ u \in World /\ u.copied = TRUE /\ u.original = w.original
       /\ u.operated = TRUE
       /\ u.copy = RemoveAt(w.copy, n) /\ u.position = k
       /\ u.setMap = {m \in w.setMap : m.item # item}
       /\ \A e \in w.assigned : e.item # item => e \in u.assigned
       /\ \A e \in u.assigned : e.item # item => e \in w.assigned
       /\ IsDraft(item) \/ [item |-> item, added |-> FALSE] \in u.assigned
       /\ u.heap = w.heap /\ u.drafts = w.drafts /\ u.tasks = w.tasks
  BY <1>3, <1>5, <1>7, <1>8, <1>9 DEF World
<1> QED
  BY <1>4, <1>6, <1>10 DEF item, k

\* Deleting an item leaves no entry under it, and the records of others.
LEMMA DeleteSound ==
    ASSUME NEW w, Sound(w), NEW v \in Value
    PROVE  Sound(Delete(w, v))
<1>1. CASE ~Has(w, v)
  BY <1>1 DEF Delete
<1>2. CASE Has(w, v)
  <2> DEFINE u    == Delete(w, v)
             item == ItemOf(w, v)
  <2>0. /\ u \in World /\ u.copied = TRUE /\ u.original = w.original
        /\ \E n \in DOMAIN w.copy :
              /\ w.copy[n] = item /\ u.copy = RemoveAt(w.copy, n)
              /\ u.position = IF n <= w.position THEN w.position - 1
                                                 ELSE w.position
        /\ u.setMap = {m \in w.setMap : m.item # item}
        /\ \A e \in w.assigned : e.item # item => e \in u.assigned
        /\ u.heap = w.heap /\ u.drafts = w.drafts /\ u.tasks = w.tasks
    BY <1>2, DeleteFields
  <2> HIDE DEF u, item
  <2>1. PICK n \in DOMAIN w.copy :
           /\ w.copy[n] = item /\ u.copy = RemoveAt(w.copy, n)
           /\ u.position = IF n <= w.position THEN w.position - 1 ELSE w.position
    BY <2>0
  <2>2. /\ Len(u.copy) = Len(w.copy) - 1
        /\ \A i, j \in DOMAIN u.copy : u.copy[i] = u.copy[j] => i = j
        /\ Range(u.copy) = Range(w.copy) \ {item}
    <3>1. /\ w.copy \in Seq(Value)
          /\ \A i, j \in DOMAIN w.copy : w.copy[i] = w.copy[j] => i = j
      BY DEF World, Sound, ItemsOnce
    <3>2. /\ RemoveAt(w.copy, n) \in Seq(Value)
          /\ Len(RemoveAt(w.copy, n)) = Len(w.copy) - 1
          /\ \A i \in 1 .. Len(w.copy) - 1 :
                RemoveAt(w.copy, n)[i] = IF i < n THEN w.copy[i] ELSE w.copy[i + 1]
          /\ \A i, j \in DOMAIN RemoveAt(w.copy, n) :
                RemoveAt(w.copy, n)[i] = RemoveAt(w.copy, n)[j] => i = j
          /\ Range(RemoveAt(w.copy, n)) = Range(w.copy) \ {w.copy[n]}
      BY <3>1, Removed
    <3> QED
      BY <2>1, <3>2
  <2>3. BaseKept(u) /\ DraftsApart(u) /\ DraftsCopied(u)
    BY <2>0 DEF Sound, BaseKept, DraftsApart, DraftsCopied
  <2>4. ItemsOnce(u)
    <3>1. /\ n \in Nat /\ n >= 1 /\ n <= Len(w.copy) /\ Len(w.copy) \in Nat
          /\ w.position \in Nat /\ w.position <= Len(w.copy)
      BY <2>1, WorldParts DEF World, Sound, ItemsOnce
    <3>2. u.position <= Len(u.copy)
      BY <2>1, <2>2, <3>1
    <3> QED
      BY <2>0, <2>2, <3>2 DEF ItemsOnce
  <2>5. MapOfItems(u)
    BY <2>0, <2>2 DEF Sound, MapOfItems
  <2>6. AddedRecorded(u)
    BY <2>0, <2>2 DEF Sound, AddedRecorded
  <2>7. AddedQueued(u)
    BY <2>0, <2>2 DEF Sound, AddedQueued
  <2> QED
    BY <2>0, <2>3, <2>4, <2>5, <2>6, <2>7 DEF Sound, u
<1> QED
  BY <1>1, <1>2

\* clear() leaves no item, and nothing in setMap.
LEMMA ClearSound ==
    ASSUME NEW w, Sound(w)
    PROVE  Sound(Clear(w))
<1>1. CASE w.copy = <<>>
  BY <1>1 DEF Clear
<1>2. CASE w.copy # <<>>
  <2> DEFINE p == Prepare(w)
             u == [p EXCEPT !.assigned = AllDeleted(w), !.setMap = {},
                            !.copy = <<>>, !.position = 0]
  <2>1. /\ w \in World /\ p \in World /\ p.copied = TRUE /\ p.original = w.original
        /\ p.heap = w.heap /\ p.drafts = w.drafts
    BY PrepareFields DEF Sound
  <2>2. AllDeleted(w) \in SUBSET [item : Value, added : BOOLEAN]
    <3>1. w.original \in Seq(Value)
      BY <2>1 DEF World
    <3>2. Range(w.original) \subseteq Value
      BY <3>1, RangeOfSeq DEF Range
    <3>3. w.assigned \in SUBSET [item : Value, added : BOOLEAN]
      BY <2>1 DEF World
    <3>4. \A x \in Range(w.original) :
             [item |-> x, added |-> FALSE] \in [item : Value, added : BOOLEAN]
      BY <3>2
    <3> QED
      BY <3>3, <3>4 DEF AllDeleted
  <2> HIDE DEF p
  <2>3. /\ u \in World /\ u.copied = TRUE /\ u.original = w.original
        /\ u.copy = <<>> /\ u.setMap = {} /\ u.position = 0
        /\ u.heap = w.heap /\ u.drafts = w.drafts
    <3>1. <<>> \in Seq(Value) /\ {} \in SUBSET [item : Value, value : Value]
      BY EmptySeq
    <3> QED
      BY <2>1, <2>2, <3>1 DEF World
  <2>4. Clear(w) = u
    BY <1>2 DEF Clear, p
  <2> HIDE DEF u
  <2>5. DOMAIN u.copy = {} /\ Range(u.copy) = {} /\ Len(u.copy) = 0
    BY <2>3 DEF Range
  <2>6. BaseKept(u) /\ DraftsApart(u) /\ DraftsCopied(u)
    BY <2>3 DEF Sound, BaseKept, DraftsApart, DraftsCopied
  <2>7. ItemsOnce(u) /\ MapOfItems(u) /\ AddedRecorded(u) /\ AddedQueued(u)
    BY <2>3, <2>5 DEF ItemsOnce, MapOfItems, AddedRecorded, AddedQueued
  <2> QED
    BY <2>3, <2>4, <2>6, <2>7 DEF Sound
<1> QED
  BY <1>1, <1>2

-----------------------------------------------------------------------------
(***************************************************************************)
(* Iterations, drafts and objects.                                         *)
(***************************************************************************)

\* values() starts at the first item.
LEMMA ValuesSound ==
    ASSUME NEW w, Sound(w)
    PROVE  Sound(Values(w))
<1> DEFINE u == Values(w)
<1>1. w \in World
  BY DEF Sound
<1>2. /\ u \in World /\ u.copied = TRUE /\ u.position = 0
      /\ u.original = w.original /\ u.copy = w.copy /\ u.setMap = w.setMap
      /\ u.assigned = w.assigned /\ u.heap = w.heap /\ u.drafts = w.drafts
      /\ u.tasks = w.tasks
  BY <1>1 DEF Values, EnsureShallowCopy, World
<1> HIDE DEF u
<1>5. Len(w.heap) <= Len(u.heap)
  BY <1>1, <1>2, WorldParts
<1>3. u.position <= Len(u.copy)
  BY <1>1, <1>2, WorldParts
<1>4. BaseKept(u) /\ DraftsApart(u) /\ DraftsCopied(u)
  BY <1>2 DEF Sound, BaseKept, DraftsApart, DraftsCopied
<1> QED
  BY <1>2, <1>3, <1>4, <1>5, Unmoved DEF u

\* Objects and drafts are added, or changed outside of the base.
LEMMA HeapSound ==
    ASSUME NEW w, Sound(w), NEW H \in Seq(Value), NEW D \in Seq(ItemDraft),
           NEW b \in BOOLEAN, KeepsBase(w, H, D), Len(base.heap) \in Nat
    PROVE  Sound(Rewritten(w, H, D, b))
<1> USE DEF KeepsBase
<1> DEFINE u == Rewritten(w, H, D, b)
<1>1. w \in World /\ Len(w.heap) \in Nat /\ Len(H) \in Nat
  BY WorldParts, LenProperties DEF Sound
<1>2. /\ u \in World /\ u.copied = w.copied /\ u.position = w.position
      /\ u.original = w.original /\ u.copy = w.copy /\ u.setMap = w.setMap
      /\ u.assigned = w.assigned /\ u.heap = H /\ u.drafts = D
      /\ u.tasks = w.tasks
  BY <1>1 DEF World, Rewritten
<1> HIDE DEF u
<1>3. BaseKept(u)
  BY <1>1, <1>2 DEF Sound, BaseKept
<1>4. DraftsApart(u) /\ DraftsCopied(u)
  BY <1>2 DEF DraftsApart, DraftsCopied
<1>5. u.position <= Len(u.copy)
  BY <1>2 DEF Sound, ItemsOnce
<1>6. Sound(u)
  BY <1>2, <1>3, <1>4, <1>5, Unmoved
<1> QED
  BY <1>6 DEF u

\* The base states.
LEMMA BaseParts ==
    ASSUME base \in Bases
    PROVE  /\ base.heap \in Seq(Value) /\ Len(base.heap) \in Nat
           /\ DOMAIN base.heap = 1 .. Len(base.heap)
           /\ base.set \in Seq(Value)
           /\ \A v \in Range(base.set) :
                 ~IsDraft(v) /\ (IsObj(v) => v.id \in DOMAIN base.heap)
           /\ \A a \in DOMAIN base.heap : ~IsDraft(base.heap[a])
           /\ base.side.id \in DOMAIN base.heap
           /\ \A i, j \in DOMAIN base.set : base.set[i] = base.set[j] => i = j
  BY SetBasesAssumption, LenProperties DEF IsBase, IsInjective, Range

\* A draft of an object of the base.
LEMMA CreateDraftSound ==
    ASSUME base \in Bases, NEW w, Sound(w), NEW a \in DOMAIN base.heap,
           NEW b \in BOOLEAN
    PROVE  LET u == CreateDraft(w, a, b)
           IN  /\ Sound(u) /\ u.copy = w.copy /\ u.setMap = w.setMap
               /\ u.original = w.original /\ u.assigned = w.assigned
               /\ DOMAIN u.drafts = 1 .. Len(w.drafts) + 1
               /\ u.drafts[Len(w.drafts) + 1].original = a
<1> DEFINE x == [original |-> a, item |-> b, copy |-> Null, operated |-> FALSE,
                 assigned |-> FALSE, added |-> FALSE]
           D == Append(w.drafts, x)
           u == CreateDraft(w, a, b)
<1>0. w \in World /\ Len(base.heap) \in Nat /\ DOMAIN base.heap = 1 .. Len(base.heap)
  BY BaseParts DEF Sound
<1>1. x \in ItemDraft
  BY <1>0 DEF ItemDraft, Null
<1>2. w.drafts \in Seq(ItemDraft) /\ w.heap \in Seq(Value) /\ w.operated \in BOOLEAN
  BY <1>0 DEF World
<1>3. x.original = a /\ x.copy = Null /\ ~x.operated
  OBVIOUS
<1> HIDE DEF x
<1>4. /\ D \in Seq(ItemDraft) /\ DOMAIN w.drafts = 1 .. Len(w.drafts)
      /\ Len(w.drafts) \in Nat /\ DOMAIN D = 1 .. Len(w.drafts) + 1
      /\ \A d \in DOMAIN w.drafts : D[d] = w.drafts[d]
      /\ D[Len(w.drafts) + 1] = x
  BY <1>1, <1>2, Appended, LenProperties
<1> HIDE DEF D
<1>5. u = Rewritten(w, w.heap, D, w.operated)
  BY <1>0 DEF CreateDraft, World, D, x, Rewritten
<1>6. \A d \in DOMAIN D :
         /\ D[d].original \in DOMAIN base.heap
         /\ D[d].copy \in {Null} \cup (Len(base.heap) + 1 .. Len(w.heap))
         /\ D[d].operated => D[d].copy # Null
         /\ D[d].copy # Null => ~IsDraft(w.heap[D[d].copy])
  BY <1>3, <1>4 DEF Sound, DraftsApart, DraftsCopied
<1>7. Len(w.heap) <= Len(w.heap)
  BY <1>2, LenProperties
<1>8. Sound(Rewritten(w, w.heap, D, w.operated))
  <2>1. \A a1 \in DOMAIN base.heap : w.heap[a1] = base.heap[a1]
    BY DEF Sound, BaseKept
  <2>2. /\ DOMAIN w.drafts \subseteq DOMAIN D
        /\ \A d \in DOMAIN w.drafts : D[d].original = w.drafts[d].original
    BY <1>4
  <2>3. KeepsBase(w, w.heap, D)
    BY <1>6, <1>7, <2>1, <2>2 DEF KeepsBase
  <2> QED
    BY <1>0, <1>2, <1>4, <2>3, HeapSound
<1>9. /\ u.copy = w.copy /\ u.setMap = w.setMap /\ u.original = w.original
      /\ u.assigned = w.assigned /\ u.drafts = D
  BY <1>0, <1>5 DEF World, Rewritten
<1> QED
  BY <1>3, <1>4, <1>5, <1>8, <1>9

\* next() maps an item of the original to its new draft.
LEMMA NextSound ==
    ASSUME base \in Bases, NEW w, Sound(w), w.position < Len(w.copy)
    PROVE  Sound(Next(w))
<1> DEFINE item == w.copy[w.position + 1]
           w1   == [w EXCEPT !.position = @ + 1]
           u    == CreateDraft(w1, item.id, TRUE)
           e    == [item |-> item, value |-> Draft(Len(w1.drafts) + 1)]
           M    == {m \in u.setMap : m.item # item} \cup {e}
<1>1. /\ w \in World /\ w.position \in Nat /\ Len(w.copy) \in Nat
      /\ w.position + 1 \in DOMAIN w.copy
  <2>1. w \in World /\ w.position \in Nat
    BY DEF Sound, World
  <2> QED
    BY <2>1, WorldParts
<1>2. item \in Range(w.copy) /\ item \in Value
  BY <1>1, WorldParts DEF Range
<1> HIDE DEF item
<1>3. Sound(w1) /\ w1.drafts = w.drafts /\ w1.copy = w.copy
  <2>1. /\ w1 \in World /\ w1.copied = w.copied /\ w1.position = w.position + 1
        /\ w1.original = w.original /\ w1.copy = w.copy /\ w1.setMap = w.setMap
        /\ w1.assigned = w.assigned /\ w1.heap = w.heap /\ w1.drafts = w.drafts
        /\ w1.tasks = w.tasks
    <3>1. w.position + 1 \in Nat
      BY <1>1
    <3> DEFINE n == w.position + 1
    <3> HIDE DEF n
    <3>2. w1 = [w EXCEPT !.position = n]
      BY <1>1 DEF n, World
    <3> QED
      BY <1>1, <3>1, <3>2 DEF World, n
  <2> HIDE DEF w1
  <2>2. BaseKept(w1) /\ DraftsApart(w1) /\ DraftsCopied(w1)
    BY <2>1 DEF Sound, BaseKept, DraftsApart, DraftsCopied
  <2>3. w1.position <= Len(w1.copy) /\ Len(w.heap) <= Len(w1.heap)
    BY <1>1, <2>1, WorldParts
  <2> QED
    BY <2>1, <2>2, <2>3, Unmoved
<1>4. CASE /\ SetItemValue(w, item) = item /\ IsObj(item)
           /\ item \in Range(w.original)
  <2>1. item.id \in DOMAIN base.heap
    BY <1>4, BaseParts DEF Sound, BaseKept
  <2>2. /\ Sound(u) /\ u.copy = w.copy /\ u.setMap = w1.setMap
        /\ u.original = w1.original /\ u.assigned = w1.assigned
        /\ DOMAIN u.drafts = 1 .. Len(w1.drafts) + 1
        /\ u.drafts[Len(w1.drafts) + 1].original = item.id
    BY <1>3, <2>1, CreateDraftSound
  <2>3. Next(w) = SetMapSet(u, item, Draft(Len(w1.drafts) + 1))
    BY <1>3, <1>4 DEF Next, item
  <2>4. w1.original = w.original /\ Len(w1.drafts) \in Nat
    BY <1>1, <1>3, WorldParts DEF World, Sound
  <2>5. /\ e \in [item : Value, value : Value] /\ e.item = item
        /\ e.value = Draft(Len(w1.drafts) + 1)
    BY <1>2, <2>4 DEF Draft, Value
  <2>6. e.item = Obj(item.id) /\ IsDraft(e.value) /\ e.value.id = Len(w1.drafts) + 1
    BY <1>2, <1>4, <2>5 DEF Obj, IsObj, Value, Draft, IsDraft
  <2> HIDE DEF u, w1, e
  <2>7. u \in World /\ M \in SUBSET [item : Value, value : Value]
    BY <2>2, <2>5 DEF Sound, World
  <2>8. Next(w) = [u EXCEPT !.setMap = M]
    <3>1. SetMapSet(u, item, Draft(Len(w1.drafts) + 1)) = [u EXCEPT !.setMap = M]
      BY <2>7 DEF SetMapSet, Entries, World, e
    <3> QED
      BY <2>3, <3>1
  <2> DEFINE z == [u EXCEPT !.setMap = M]
  <2>9. /\ z \in World /\ z.copied = u.copied /\ z.position = u.position
        /\ z.original = u.original /\ z.copy = u.copy /\ z.setMap = M
        /\ z.assigned = u.assigned /\ z.heap = u.heap /\ z.drafts = u.drafts
        /\ z.tasks = u.tasks
    BY <2>7 DEF World
  <2> HIDE DEF z
  <2>10. BaseKept(z) /\ DraftsApart(z) /\ DraftsCopied(z) /\ ItemsOnce(z)
    BY <2>2, <2>9 DEF Sound, BaseKept, DraftsApart, DraftsCopied, ItemsOnce
  <2>11. MapOfItems(z)
    <3>1. MapOfItems(u)
      BY <2>2 DEF Sound
    <3>2. Len(w1.drafts) + 1 \in DOMAIN u.drafts
      BY <2>2, <2>4
    <3> QED
      BY ZenonT(60), <1>2, <2>2, <2>5, <2>6, <2>9, <3>1, <3>2 DEF MapOfItems
  <2>12. AddedRecorded(z)
    <3>1. AddedRecorded(u) /\ item \in Range(u.original)
      BY <1>4, <2>2, <2>4 DEF Sound
    <3> QED
      BY <2>9, <3>1 DEF AddedRecorded
  <2>13. AddedQueued(z)
    <3>1. IsRef(e.item)
      BY <1>4, <2>5 DEF IsRef
    <3> QED
      BY <2>2, <2>9, <3>1 DEF Sound, AddedQueued
  <2> QED
    BY <2>8, <2>9, <2>10, <2>11, <2>12, <2>13 DEF Sound, z
<1>5. CASE ~ /\ SetItemValue(w, item) = item /\ IsObj(item)
             /\ item \in Range(w.original)
  BY <1>3, <1>5 DEF Next, item
<1> QED
  BY <1>4, <1>5

\* The set trap of an element's draft writes to the draft's copy, which it makes
\* outside of the base.
LEMMA SetElementFields ==
    ASSUME base \in Bases, NEW w, Sound(w), NEW d \in DOMAIN w.drafts,
           NEW v \in Value, ~IsDraft(v)
    PROVE  \/ SetElement(w, d, v) = w
           \/ \E H \in Seq(Value), D \in Seq(ItemDraft) :
                 /\ KeepsBase(w, H, D) /\ Wrote(w, H, D, d, v)
                 /\ SetElement(w, d, v) = Rewritten(w, H, D, TRUE)
<1>0. /\ w \in World /\ w.heap \in Seq(Value) /\ w.drafts \in Seq(ItemDraft)
      /\ Len(w.heap) \in Nat /\ DOMAIN w.heap = 1 .. Len(w.heap)
      /\ w.drafts \in [DOMAIN w.drafts -> ItemDraft]
      /\ DOMAIN w.drafts = 1 .. Len(w.drafts) /\ Len(w.drafts) \in Nat
  BY WorldParts DEF Sound, World
<1>1. /\ Len(base.heap) \in Nat /\ DOMAIN base.heap = 1 .. Len(base.heap)
      /\ Len(base.heap) <= Len(w.heap)
      /\ \A a \in DOMAIN base.heap : w.heap[a] = base.heap[a]
      /\ \A e \in DOMAIN w.drafts :
            /\ w.drafts[e].original \in DOMAIN base.heap
            /\ w.drafts[e].copy \in {Null} \cup (Len(base.heap) + 1 .. Len(w.heap))
            /\ w.drafts[e].operated => w.drafts[e].copy # Null
            /\ w.drafts[e].copy # Null => ~IsDraft(w.heap[w.drafts[e].copy])
  BY BaseParts DEF Sound, BaseKept, DraftsApart, DraftsCopied
<1> DEFINE o  == w.drafts[d].original
           c0 == w.drafts[d].copy
           c  == IF c0 # Null THEN c0 ELSE Len(w.heap) + 1
           H0 == IF c0 # Null THEN w.heap ELSE Append(w.heap, w.heap[o])
           H  == [H0 EXCEPT ![c] = v]
           x  == [w.drafts[d] EXCEPT !.copy = c, !.operated = TRUE,
                                     !.assigned = (v # w.heap[o])]
           D  == [w.drafts EXCEPT ![d] = x]
<1>2. /\ H0 \in Seq(Value) /\ c \in DOMAIN H0 /\ c \notin DOMAIN base.heap
      /\ Len(w.heap) <= Len(H0) /\ Len(H0) \in Nat /\ DOMAIN H0 = 1 .. Len(H0)
      /\ c \in Len(base.heap) + 1 .. Len(H0)
      /\ \A a \in DOMAIN base.heap : a \in DOMAIN H0 /\ H0[a] = base.heap[a]
      /\ \A a \in DOMAIN w.heap : a \in DOMAIN H0 /\ H0[a] = w.heap[a]
  <2>1. CASE c0 # Null
    BY <1>0, <1>1, <2>1
  <2>2. CASE c0 = Null
    <3>1. w.heap[o] \in Value
      BY <1>0, <1>1
    <3>2. /\ H0 \in Seq(Value) /\ Len(H0) = Len(w.heap) + 1
          /\ DOMAIN H0 = 1 .. Len(w.heap) + 1
          /\ \A a \in DOMAIN w.heap : H0[a] = w.heap[a]
      BY <1>0, <2>2, <3>1, Appended
    <3> HIDE DEF H0
    <3> QED
      BY <1>0, <1>1, <2>2, <3>2
  <2> QED
    BY <2>1, <2>2
<1>3. /\ x \in ItemDraft /\ x.original = o /\ x.copy = c /\ c # Null
      /\ x.item = w.drafts[d].item /\ x.operated /\ x.assigned = (v # w.heap[o])
  <2>1. c \in Nat /\ c # Null
    BY <1>0, <1>1 DEF Null
  <2> HIDE DEF c
  <2> QED
    BY <1>0, <2>1 DEF ItemDraft
<1> HIDE DEF c, H0, x
<1>4. /\ H \in Seq(Value) /\ Len(H) = Len(H0)
      /\ \A a \in DOMAIN base.heap : H[a] = base.heap[a]
      /\ \A a \in DOMAIN w.heap : H[a] = IF a = c THEN v ELSE w.heap[a]
      /\ H[c] = v
  <2>1. H \in [1 .. Len(H0) -> Value]
    BY <1>2, LenProperties
  <2>2. H \in Seq(Value) /\ DOMAIN H = 1 .. Len(H0)
    BY <1>2, <2>1, SeqDef
  <2>3. Len(H) = Len(H0)
    BY <1>2, <2>2, LenProperties
  <2> QED
    BY <1>2, <2>2, <2>3
<1>5. /\ D \in Seq(ItemDraft) /\ DOMAIN D = DOMAIN w.drafts
      /\ \A e \in DOMAIN w.drafts : D[e] = IF e = d THEN x ELSE w.drafts[e]
  <2>1. D \in [1 .. Len(w.drafts) -> ItemDraft]
    BY <1>0, <1>3
  <2> QED
    BY <1>0, <2>1, SeqDef
<1>6. \A e \in DOMAIN D :
         /\ D[e].original \in DOMAIN base.heap
         /\ D[e].copy \in {Null} \cup (Len(base.heap) + 1 .. Len(H))
         /\ D[e].operated => D[e].copy # Null
         /\ D[e].copy # Null => ~IsDraft(H[D[e].copy])
  <2> SUFFICES ASSUME NEW e \in DOMAIN D
               PROVE  /\ D[e].original \in DOMAIN base.heap
                      /\ D[e].copy \in {Null} \cup (Len(base.heap) + 1 .. Len(H))
                      /\ D[e].operated => D[e].copy # Null
                      /\ D[e].copy # Null => ~IsDraft(H[D[e].copy])
    OBVIOUS
  <2> HIDE DEF D, H
  <2>1. CASE e = d
    BY <1>1, <1>2, <1>3, <1>4, <1>5, <2>1
  <2>2. CASE e # d
    <3>1. D[e] = w.drafts[e] /\ e \in DOMAIN w.drafts
      BY <1>5, <2>2
    <3>2. w.drafts[e].copy = Null
          \/ (/\ w.drafts[e].copy \in Nat /\ Len(base.heap) + 1 <= w.drafts[e].copy
              /\ w.drafts[e].copy <= Len(w.heap))
      BY <1>0, <1>1, <3>1 DEF Null
    <3>3. w.drafts[e].copy # Null => w.drafts[e].copy \in DOMAIN w.heap
      BY <1>0, <1>1, <3>2
    <3>4. w.drafts[e].copy # Null => ~IsDraft(H[w.drafts[e].copy])
      BY <1>1, <1>4, <3>1, <3>3
    <3> QED
      BY <1>0, <1>1, <1>2, <1>4, <3>1, <3>2, <3>4
  <2> QED
    BY <2>1, <2>2
<1>7. \A e \in DOMAIN w.drafts : D[e].original = w.drafts[e].original
  BY <1>3, <1>5
<1>8. \/ SetElement(w, d, v) = w
      \/ SetElement(w, d, v) =
            [w EXCEPT !.heap = H, !.drafts = D, !.operated = TRUE]
  <2>1. CASE c0 # Null
    <3>1. c = c0 /\ H0 = w.heap
      BY <2>1 DEF c, H0
    <3>2. /\ D = [w.drafts EXCEPT ![d].operated = TRUE,
                                  ![d].assigned = (v # w.heap[o])]
      BY <1>0, <3>1 DEF x, ItemDraft
    <3> QED
      BY <1>0, <2>1, <3>1, <3>2 DEF SetElement, MarkChanged, Node, World
  <2>2. CASE c0 = Null
    <3> DEFINE D1 == [w.drafts EXCEPT ![d].copy = c]
               w1 == [w EXCEPT !.heap = H0, !.drafts[d].copy = c]
               D2 == [D1 EXCEPT ![d].operated = TRUE,
                                ![d].assigned = (v # w.heap[o])]
    <3>1. c = Len(w.heap) + 1 /\ H0 = Append(w.heap, w.heap[o])
      BY <2>2 DEF c, H0
    <3>2. w1 = [w EXCEPT !.heap = H0, !.drafts = D1]
      OBVIOUS
    <3>3. D1[d].copy = c /\ D2 = D
      BY <1>0 DEF x, ItemDraft
    <3>4. w1.heap = H0 /\ w1.drafts = D1
      BY <1>0, <3>2 DEF World
    <3>5. [MarkChanged(w1) EXCEPT !.heap[w1.drafts[d].copy] = v,
                                  !.drafts[d].operated = TRUE,
                                  !.drafts[d].assigned = (v # w.heap[o])]
             = [w EXCEPT !.heap = H, !.drafts = D2, !.operated = TRUE]
      <4> DEFINE m == MarkChanged(w1)
                 y == (v # w.heap[o])
      <4>1. w1.drafts[d].copy = c
        BY <3>3, <3>4
      <4> HIDE DEF D1, H0
      <4>2. m = [w EXCEPT !.heap = H0, !.drafts = D1, !.operated = TRUE]
        BY <1>0, <3>2 DEF MarkChanged, World
      <4>3. m.heap = H0 /\ m.drafts = D1
        BY <1>0, <4>2 DEF World
      <4> HIDE DEF m, w1, y
      <4>4. m \in World
        <5>1. D1 \in Seq(ItemDraft)
          <6>1. c \in Nat
            BY <1>2
          <6>2. D1 \in [1 .. Len(w.drafts) -> ItemDraft]
            BY <1>0, <6>1 DEF D1, ItemDraft
          <6> QED
            BY <1>0, <6>2, SeqDef
        <5> QED
          BY <1>0, <1>2, <4>2, <5>1 DEF World
      <4>5. [m EXCEPT !.heap = [H0 EXCEPT ![c] = v],
                      !.drafts = [D1 EXCEPT ![d].operated = TRUE,
                                            ![d].assigned = y]]
               = [w EXCEPT !.heap = H, !.drafts = D2, !.operated = TRUE]
        BY <1>0, <4>2 DEF World, y
      <4>6. [m EXCEPT !.heap[c] = v, !.drafts[d].operated = TRUE,
                      !.drafts[d].assigned = y]
               = [m EXCEPT !.heap = [H0 EXCEPT ![c] = v],
                           !.drafts = [D1 EXCEPT ![d].operated = TRUE,
                                                 ![d].assigned = y]]
        <5>1. [m EXCEPT !.heap[c] = v, !.drafts[d].operated = TRUE,
                        !.drafts[d].assigned = y]
                 = [m EXCEPT !.heap = [m.heap EXCEPT ![c] = v],
                             !.drafts = [m.drafts EXCEPT ![d].operated = TRUE,
                                                         ![d].assigned = y]]
          BY ZenonT(60), <4>4 DEF World
        <5> QED
          BY <4>3, <5>1
      <4> QED
        BY <4>1, <4>5, <4>6 DEF m, y
    <3>6. SetElement(w, d, v) = w
          \/ SetElement(w, d, v) =
             [MarkChanged(w1) EXCEPT !.heap[w1.drafts[d].copy] = v,
                                     !.drafts[d].operated = TRUE,
                                     !.drafts[d].assigned = (v # w.heap[o])]
      BY <2>2, <3>1 DEF SetElement, Node
    <3> QED
      BY <3>3, <3>5, <3>6
  <2> QED
    BY <2>1, <2>2
<1> HIDE DEF H, D
<1>9. KeepsBase(w, H, D)
  BY <1>2, <1>4, <1>5, <1>6, <1>7 DEF KeepsBase
<1>10. Wrote(w, H, D, d, v)
  BY <1>3, <1>4, <1>5 DEF Wrote, c
<1> QED
  BY <1>4, <1>5, <1>8, <1>9, <1>10 DEF Rewritten

\* Writing to an element's draft, whether or not the Set is marked for it.
LEMMA ElementSound ==
    ASSUME base \in Bases, NEW w, Sound(w), NEW d \in DOMAIN w.drafts,
           NEW v \in Value, ~IsDraft(v), NEW b \in BOOLEAN
    PROVE  /\ Sound(SetElement(w, d, v))
           /\ Sound([SetElement(w, d, v) EXCEPT !.operated = b])
<1> DEFINE s == SetElement(w, d, v)
<1>0. /\ Len(base.heap) \in Nat /\ w \in World
      /\ w.heap \in Seq(Value) /\ w.drafts \in Seq(ItemDraft)
      /\ Len(w.heap) \in Nat
  BY BaseParts, WorldParts DEF Sound, World
<1>1. CASE s = w
  <2>1. KeepsBase(w, w.heap, w.drafts)
    BY <1>0 DEF Sound, BaseKept, DraftsApart, DraftsCopied, KeepsBase
  <2>2. Sound(Rewritten(w, w.heap, w.drafts, b))
    BY <1>0, <2>1, HeapSound
  <2>3. Rewritten(w, w.heap, w.drafts, b) = [w EXCEPT !.operated = b]
    BY <1>0 DEF World, Rewritten
  <2> QED
    BY <1>1, <2>2, <2>3
<1>2. CASE s # w
  <2> HIDE DEF s
  <2>1. PICK H \in Seq(Value), D \in Seq(ItemDraft) :
           KeepsBase(w, H, D) /\ s = Rewritten(w, H, D, TRUE)
    BY <1>2, SetElementFields DEF s
  <2>2. \A c \in BOOLEAN : Sound(Rewritten(w, H, D, c))
    BY <1>0, <2>1, HeapSound
  <2>3. [s EXCEPT !.operated = b] = Rewritten(w, H, D, b)
    BY <1>0, <2>1 DEF World, Rewritten
  <2> QED
    BY <2>1, <2>2, <2>3 DEF s
<1> QED
  BY <1>1, <1>2

\* An object that the recipe makes is a new one.
LEMMA FreshSound ==
    ASSUME base \in Bases, NEW w, Sound(w), NEW v \in Value
    PROVE  Sound([w EXCEPT !.heap = Append(@, v)])
<1> DEFINE H == Append(w.heap, v)
<1>0. /\ Len(base.heap) \in Nat /\ DOMAIN base.heap = 1 .. Len(base.heap)
      /\ w \in World /\ w.heap \in Seq(Value) /\ w.drafts \in Seq(ItemDraft)
      /\ Len(w.heap) \in Nat /\ DOMAIN w.heap = 1 .. Len(w.heap)
      /\ w.operated \in BOOLEAN
  BY BaseParts, WorldParts DEF Sound, World
<1>1. /\ H \in Seq(Value) /\ Len(H) = Len(w.heap) + 1
      /\ \A a \in DOMAIN w.heap : H[a] = w.heap[a]
  BY <1>0, Appended
<1>2. [w EXCEPT !.heap = Append(@, v)]
         = Rewritten(w, H, w.drafts, w.operated)
  BY <1>0 DEF World, Rewritten
<1> HIDE DEF H
<1>3. /\ Len(w.heap) <= Len(H)
      /\ \A a \in DOMAIN base.heap : H[a] = base.heap[a]
  BY <1>0, <1>1 DEF Sound, BaseKept
<1>4. \A e \in DOMAIN w.drafts :
         /\ w.drafts[e].original \in DOMAIN base.heap
         /\ w.drafts[e].copy \in {Null} \cup (Len(base.heap) + 1 .. Len(H))
         /\ w.drafts[e].operated => w.drafts[e].copy # Null
         /\ w.drafts[e].copy # Null => ~IsDraft(H[w.drafts[e].copy])
  <2> SUFFICES ASSUME NEW e \in DOMAIN w.drafts
               PROVE  /\ w.drafts[e].original \in DOMAIN base.heap
                      /\ w.drafts[e].copy
                            \in {Null} \cup (Len(base.heap) + 1 .. Len(H))
                      /\ w.drafts[e].operated => w.drafts[e].copy # Null
                      /\ w.drafts[e].copy # Null => ~IsDraft(H[w.drafts[e].copy])
    OBVIOUS
  <2>1. /\ w.drafts[e].original \in DOMAIN base.heap
        /\ w.drafts[e].copy \in {Null} \cup (Len(base.heap) + 1 .. Len(w.heap))
        /\ w.drafts[e].operated => w.drafts[e].copy # Null
        /\ w.drafts[e].copy # Null => ~IsDraft(w.heap[w.drafts[e].copy])
    BY DEF Sound, DraftsApart, DraftsCopied
  <2>2. w.drafts[e].copy # Null => w.drafts[e].copy \in DOMAIN w.heap
    BY <1>0, <2>1
  <2> QED
    BY <1>0, <1>1, <2>1, <2>2
<1>5. Sound(Rewritten(w, H, w.drafts, w.operated))
  <2>1. KeepsBase(w, H, w.drafts)
    BY <1>3, <1>4 DEF KeepsBase
  <2> QED
    BY <1>0, <1>1, <2>1, HeapSound
<1> QED
  BY <1>2, <1>5

-----------------------------------------------------------------------------
(***************************************************************************)
(* The invariant.                                                          *)
(***************************************************************************)

\* What a recipe adds or deletes is a value, and its drafts are known.
LEMMA RecipeValuesOK ==
    ASSUME base \in Bases, Sound(world), NEW v \in RecipeValues
    PROVE  /\ v \in Value
           /\ IsDraft(v) => v.id \in DOMAIN world.drafts
           /\ IsObj(v) => v.id \in DOMAIN world.heap
<1>0. /\ Len(base.heap) \in Nat /\ Len(world.heap) \in Nat
      /\ DOMAIN world.drafts = 1 .. Len(world.drafts) /\ Len(world.drafts) \in Nat
      /\ DOMAIN world.heap = 1 .. Len(world.heap)
      /\ DOMAIN base.heap = 1 .. Len(base.heap) /\ Len(base.heap) <= Len(world.heap)
  BY BaseParts, WorldParts DEF Sound, BaseKept
<1>1. CASE v \in {Prim(n) : n \in Prims}
  <2>1. v \in Value /\ v.kind = "prim"
    BY <1>1, SetBoundsAssumption DEF Prim, Value
  <2> QED
    BY <2>1 DEF IsDraft, IsObj
<1>2. CASE v \in {Draft(d) : d \in DOMAIN world.drafts}
  BY <1>0, <1>2 DEF Draft, Value, IsDraft, IsObj
<1>3. CASE v \in {Obj(a) : a \in Fresh}
  BY <1>0, <1>3 DEF Obj, Value, IsDraft, IsObj, Fresh
<1>4. CASE v \in Range(base.set)
  <2>1. base.set \in Seq(Value) /\ ~IsDraft(v) /\ (IsObj(v) => v.id \in DOMAIN base.heap)
    BY <1>4, BaseParts
  <2> QED
    BY <1>0, <1>4, <2>1, LenProperties DEF Range
<1> QED
  BY <1>1, <1>2, <1>3, <1>4 DEF RecipeValues

\* No draft exists yet, and nothing is mapped.
LEMMA InitOK == Init => IInv
<1> SUFFICES ASSUME Init
             PROVE  Sound(world)
  BY DEF Init, IInv
<1>1. base \in Bases
  BY DEF Init
<1>2. /\ base.heap \in Seq(Value) /\ base.set \in Seq(Value)
      /\ \A i, j \in DOMAIN base.set : base.set[i] = base.set[j] => i = j
      /\ Len(base.heap) \in Nat /\ Len(base.set) \in Nat
  BY <1>1, BaseParts, LenProperties
<1>3. <<>> \in Seq(ItemDraft) /\ DOMAIN <<>> = {}
  BY EmptySeq
<1> DEFINE none == <<>>
<1>4. world = [original |-> base.set, copy |-> base.set, copied |-> FALSE,
               operated |-> FALSE, setMap |-> {}, assigned |-> {},
               position |-> 0, heap |-> base.heap,
               drafts |-> none, tasks |-> {}]
  BY DEF Init
<1>5. none \in Seq(ItemDraft) /\ DOMAIN none = {}
  BY <1>3
<1> HIDE DEF none
<1>6. world \in World
  BY <1>2, <1>4, <1>5 DEF World
<1>7. BaseKept(world) /\ DraftsApart(world) /\ DraftsCopied(world) /\ ItemsOnce(world)
  BY <1>2, <1>4, <1>5 DEF BaseKept, DraftsApart, DraftsCopied, ItemsOnce
<1>8. MapOfItems(world) /\ AddedRecorded(world) /\ AddedQueued(world)
  BY <1>4 DEF MapOfItems, AddedRecorded, AddedQueued
<1> QED
  BY <1>6, <1>7, <1>8 DEF Sound

\* Soundness speaks of the world and of the base, which stays.
LEMMA SoundNext ==
    ASSUME base' = base, Sound(world')
    PROVE  Sound(world)'
  BY DEF Sound, BaseKept, DraftsApart, DraftsCopied, ItemsOnce, MapOfItems,
         AddedRecorded, AddedQueued

\* One step per action.
LEMMA NextOK == IInv /\ [Step]_vars => IInv'
<1> SUFFICES ASSUME IInv, [Step]_vars
             PROVE  IInv'
  OBVIOUS
<1>0. base \in Bases
  BY DEF IInv
<1>1. CASE UNCHANGED vars
  <2>1. base' = base /\ world' = world /\ phase' = phase
    BY <1>1 DEF vars
  <2>2. Sound(world) => Sound(world)'
    BY <2>1, SoundNext
  <2> QED
    BY <2>1, <2>2 DEF IInv
<1>2. CASE Finish
  BY <1>2 DEF Finish, IInv
<1>3. CASE Recipe
  <2> SUFFICES ASSUME phase = "recipe", base' = base, phase' = phase, Sound(world)
               PROVE  Sound(world')
    <3>1. phase = "recipe" /\ base' = base /\ phase' = phase
      BY <1>3 DEF Recipe, Iterate, NextItem, ClearCall, ReadSide, AddCall,
                  DeleteCall, NewObject, WriteElement, Read, Change
    <3>2. Sound(world)
      BY <3>1 DEF IInv
    <3> QED
      BY <3>1, <3>2, SoundNext DEF IInv
  <2>1. CASE Iterate
    BY <2>1, ValuesSound DEF Iterate, Read
  <2>2. CASE NextItem
    BY <1>0, <2>2, NextSound DEF NextItem, Read
  <2>3. CASE ClearCall
    BY <2>3, ClearSound DEF ClearCall, Change
  <2>4. CASE ReadSide
    <3>1. world' = CreateDraft(world, base.side.id, FALSE)
      BY <2>4 DEF ReadSide, Read
    <3>2. base.side.id \in DOMAIN base.heap
      BY <1>0, BaseParts
    <3> QED
      BY <1>0, <3>1, <3>2, CreateDraftSound
  <2>5. ASSUME NEW v \in RecipeValues, AddCall(v) \/ DeleteCall(v) \/ NewObject(v)
        PROVE  Sound(world')
    <3>1. /\ v \in Value /\ (IsDraft(v) => v.id \in DOMAIN world.drafts)
          /\ IsObj(v) => v.id \in DOMAIN world.heap
      BY <1>0, RecipeValuesOK
    <3>2. CASE AddCall(v)
      BY <3>1, <3>2, AddSound DEF AddCall, Change
    <3>3. CASE DeleteCall(v)
      BY <3>1, <3>3, DeleteSound DEF DeleteCall, Change
    <3>4. CASE NewObject(v)
      BY <1>0, <3>1, <3>4, FreshSound DEF NewObject, Read
    <3> QED
      BY <2>5, <3>2, <3>3, <3>4
  <2>6. ASSUME NEW d \in DOMAIN world.drafts, NEW n \in Prims,
               WriteElement(d, Prim(n))
        PROVE  Sound(world')
    <3>1. Prim(n) \in Value /\ world.operated \in BOOLEAN /\ ~IsDraft(Prim(n))
      BY SetBoundsAssumption DEF Prim, Value, Sound, World, IsDraft
    <3>2. /\ Sound(SetElement(world, d, Prim(n)))
          /\ Sound([SetElement(world, d, Prim(n))
                       EXCEPT !.operated = world.operated])
      BY <1>0, <3>1, ElementSound
    <3>3. \/ world' = SetElement(world, d, Prim(n))
          \/ world' = [SetElement(world, d, Prim(n))
                          EXCEPT !.operated = world.operated]
      BY <2>6 DEF WriteElement, Change
    <3> QED
      BY <3>2, <3>3
  <2> QED
    BY <1>3, <2>1, <2>2, <2>3, <2>4, <2>5, <2>6 DEF Recipe
<1> QED
  BY <1>1, <1>2, <1>3 DEF Step

\* The invariant holds in every behaviour.
LEMMA Invariant == Spec => []IInv
  BY InitOK, NextOK, PTL DEF Spec

-----------------------------------------------------------------------------

\* setMap, assignedMap, the copy and the iteration stay in step with each other,
\* whatever add(), delete() and clear() do while the recipe iterates.
THEOREM SetsStayInStep == Spec => []SetMapInStep
<1>1. IInv => SetMapInStep
  <2> SUFFICES ASSUME base \in Bases, Sound(world)
               PROVE  /\ world \in World
                      /\ SubSeq(world.heap, 1, Len(base.heap)) = base.heap
                      /\ world.copy # world.original => world.copied
                      /\ world.position <= Len(world.copy)
                      /\ \A m \in world.setMap :
                            /\ m.item \in Range(world.copy)
                            /\ \/ m.value = m.item
                               \/ /\ IsDraft(m.value)
                                  /\ OriginalOf(world, m.value) = m.item
                      /\ \A v \in Range(world.copy) \ Range(world.original) :
                            IsRef(v) => Mapped(world, v) = v /\ IsAdded(world, v)
    BY DEF IInv, SetMapInStep
  <2>1. SubSeq(world.heap, 1, Len(base.heap)) = base.heap
    <3> DEFINE s == SubSeq(world.heap, 1, Len(base.heap))
    <3>1. /\ base.heap \in Seq(Value) /\ Len(base.heap) \in Nat
          /\ DOMAIN base.heap = 1 .. Len(base.heap)
          /\ Len(base.heap) <= Len(world.heap)
          /\ \A a \in DOMAIN base.heap : world.heap[a] = base.heap[a]
      BY BaseParts DEF Sound, BaseKept
    <3>2. \A i \in 1 .. Len(base.heap) : world.heap[i] \in Value
      BY <3>1, LenProperties
    <3>3. /\ s \in Seq(Value)
          /\ Len(s) = IF 1 <= Len(base.heap) THEN Len(base.heap) - 1 + 1 ELSE 0
          /\ \A i \in 1 .. Len(base.heap) - 1 + 1 : s[i] = world.heap[1 + i - 1]
      BY <3>1, <3>2, SubSeqProperties
    <3> HIDE DEF s
    <3>4. Len(s) = Len(base.heap)
      BY <3>1, <3>3
    <3>5. \A i \in 1 .. Len(s) : s[i] = base.heap[i]
      <4> SUFFICES ASSUME NEW i \in 1 .. Len(base.heap)
                   PROVE  s[i] = base.heap[i]
        BY <3>4
      <4>1. i \in 1 .. Len(base.heap) - 1 + 1 /\ 1 + i - 1 = i
        BY <3>1
      <4> QED
        BY <3>1, <3>3, <4>1
    <3>6. s = base.heap
      BY <3>1, <3>3, <3>4, <3>5, SeqEqual
    <3> QED
      BY <3>6 DEF s
  <2>2. ASSUME NEW m \in world.setMap
        PROVE  /\ m.item \in Range(world.copy)
               /\ \/ m.value = m.item
                  \/ IsDraft(m.value) /\ OriginalOf(world, m.value) = m.item
    BY DEF Sound, MapOfItems, OriginalOf, Node
  <2>3. ASSUME NEW v \in Range(world.copy) \ Range(world.original), IsRef(v)
        PROVE  Mapped(world, v) = v /\ IsAdded(world, v)
    <3> DEFINE m == [item |-> v, value |-> v]
    <3>1. m \in world.setMap /\ [item |-> v, added |-> TRUE] \in world.assigned
      BY <2>3 DEF Sound, AddedRecorded
    <3>2. \A n \in world.setMap : n.item = v => n = m
      BY <3>1 DEF Sound, MapOfItems
    <3>3. Entries(world, v) = {m}
      BY <3>1, <3>2 DEF Entries
    <3>4. (CHOOSE n \in Entries(world, v) : TRUE) = m
      BY <3>3
    <3> QED
      BY <3>1, <3>3, <3>4 DEF Mapped, IsAdded
  <2> QED
    BY <2>1, <2>2, <2>3 DEF Sound, ItemsOnce
<1> QED
  BY <1>1, Invariant, PTL

\* What delete() took out is no member any more, be it named by the item or by
\* the draft of it.
THEOREM DeletedItemsAreGone == Spec => DeletedIsGone
<1>1. ASSUME IInv, NEW v \in RecipeValues, ~Ambiguous(v), DeleteCall(v)
      PROVE  ~Has(world', v)
  <2>1. /\ phase = "recipe" /\ world' = Delete(world, v)
        /\ Delete(world, v) # world
    BY <1>1 DEF DeleteCall, Change
  <2>2. base \in Bases /\ Sound(world)
    BY <1>1, <2>1 DEF IInv
  <2>3. v \in Value /\ Has(world, v)
    BY <2>1, <2>2, RecipeValuesOK DEF Delete
  <2> DEFINE item == ItemOf(world, v)
             u    == Delete(world, v)
  <2>4. /\ \E n \in DOMAIN world.copy :
              world.copy[n] = item /\ u.copy = RemoveAt(world.copy, n)
        /\ u.drafts = world.drafts
    BY <2>2, <2>3, DeleteFields
  <2> HIDE DEF item, u
  <2>5. Range(u.copy) = Range(world.copy) \ {item}
    <3>1. PICK n \in DOMAIN world.copy :
             world.copy[n] = item /\ u.copy = RemoveAt(world.copy, n)
      BY <2>4
    <3>2. /\ world.copy \in Seq(Value)
          /\ \A i, j \in DOMAIN world.copy : world.copy[i] = world.copy[j] => i = j
      BY <2>2 DEF World, Sound, ItemsOnce
    <3> QED
      BY <3>1, <3>2, Removed
  <2>6. OriginalOf(u, v) = OriginalOf(world, v)
    BY <2>4 DEF OriginalOf, Node
  <2>7. v \notin Range(u.copy) /\ OriginalOf(world, v) \notin Range(u.copy)
    <3>1. CASE OriginalOf(world, v) \in Range(world.copy)
      <4>1. item = OriginalOf(world, v)
        BY <3>1 DEF item, ItemOf
      <4>2. v \in Range(world.copy) => v = OriginalOf(world, v)
        BY <1>1, <3>1 DEF Ambiguous, OriginalOf
      <4> QED
        BY <2>5, <4>1, <4>2
    <3>2. CASE OriginalOf(world, v) \notin Range(world.copy)
      BY <2>5, <3>2 DEF item, ItemOf
    <3> QED
      BY <3>1, <3>2
  <2>8. ~Has(u, v)
    BY <2>6, <2>7 DEF Has
  <2> QED
    BY <2>1, <2>8 DEF u
<1>2. IInv /\ [Step]_vars
        => [\A v \in RecipeValues :
              ~Ambiguous(v) /\ DeleteCall(v) => ~Has(world', v)]_vars
  BY <1>1
<1> QED
  BY <1>2, Invariant, PTL DEF Spec, DeletedIsGone

-----------------------------------------------------------------------------
(***************************************************************************)
(* The new Set.  Its items and the list of drafts are worked off in loops, *)
(* so there is induction over the number of turns.                         *)
(***************************************************************************)

\* A set of numbers has a least element.
LEMMA NatLeast ==
    ASSUME NEW T, T \subseteq Nat, T # {}
    PROVE  \E n \in T : \A m \in T : n <= m
<1> DEFINE R == OpToRel(<, Nat)
<1>1. IsWellFoundedOn(R, Nat)
  BY NatLessThanWellFounded
<1>2. \A m, n \in Nat : m < n => <<m, n>> \in R
  BY DEF R, OpToRel
<1> HIDE DEF R
<1>3. PICK n \in T : \A m \in T : <<m, n>> \notin R
  BY <1>1, WFMin
<1>4. \A m \in T : m \in Nat /\ n \in Nat /\ ~(m < n)
  BY <1>2, <1>3
<1>5. \A m \in T : n <= m
  BY <1>4
<1> QED
  BY <1>5

\* What holds for 0, and for the next number of each it holds for, holds for all.
LEMMA SetInduction ==
    ASSUME NEW S, 0 \in S, \A n \in Nat : n \in S => n + 1 \in S
    PROVE  Nat \subseteq S
<1> SUFFICES ASSUME NEW k \in Nat, k \notin S PROVE FALSE
  OBVIOUS
<1>1. PICK n \in Nat \ S : \A m \in Nat \ S : n <= m
  BY NatLeast
<1>2. n # 0 /\ n - 1 \in Nat /\ n - 1 + 1 = n
  BY <1>1
<1>3. n - 1 \in S
  BY <1>1, <1>2
<1> QED
  BY <1>1, <1>2, <1>3


\* The items kept after each number of items of s.
Keeping(s, f) ==
    f = [n \in 0 .. Len(s) |->
            IF n = 0 THEN <<>>
            ELSE IF s[n] \in Range(f[n - 1]) THEN f[n - 1]
            ELSE Append(f[n - 1], s[n])]

\* There are such lists: those up to some item give those up to the next.
LEMMA KeepingRuns ==
    ASSUME NEW s, Len(s) \in Nat
    PROVE  \E f : Keeping(s, f)
<1> DEFINE turn(t, n) == IF s[n] \in Range(t) THEN t ELSE Append(t, s[n])
           E(f, m) == f = [n \in 0 .. m |-> IF n = 0 THEN <<>> ELSE turn(f[n - 1], n)]
           T       == {m \in Nat : \E f : E(f, m)}
<1> HIDE DEF turn
<1>1. 0 \in T
  <2> DEFINE f == [n \in 0 .. 0 |-> <<>>]
  <2>1. \A n \in 0 .. 0 : n = 0
    OBVIOUS
  <2>2. E(f, 0)
    BY <2>1
  <2> QED
    BY <2>2
<1>2. ASSUME NEW m \in Nat, m \in T PROVE m + 1 \in T
  <2>1. PICK f : E(f, m)
    BY <1>2
  <2> DEFINE next == turn(f[m], m + 1)
             g == [n \in 0 .. m + 1 |-> IF n = m + 1 THEN next ELSE f[n]]
             h == [n \in 0 .. m + 1 |-> IF n = 0 THEN <<>> ELSE turn(g[n - 1], n)]
  <2>2. ASSUME NEW n \in 0 .. m + 1
        PROVE  g[n] = IF n = 0 THEN <<>> ELSE turn(g[n - 1], n)
    <3>1. CASE n = m + 1
      <4>1. g[n] = next /\ n # 0 /\ n - 1 = m /\ m \in 0 .. m + 1 /\ m # m + 1
        BY <3>1
      <4>2. g[n - 1] = f[m]
        BY <4>1
      <4> QED
        BY <3>1, <4>1, <4>2
    <3>2. CASE n # m + 1
      <4>1. n \in 0 .. m /\ g[n] = f[n]
        BY <3>2
      <4>2. f[n] = IF n = 0 THEN <<>> ELSE turn(f[n - 1], n)
        BY <2>1, <4>1
      <4>3. ASSUME n # 0 PROVE g[n - 1] = f[n - 1]
        BY <3>2, <4>3
      <4> QED
        BY <4>1, <4>2, <4>3
    <3> QED
      BY <3>1, <3>2
  <2>3. g = h
    <3> HIDE DEF next
    <3>1. \A n \in 0 .. m + 1 : g[n] = h[n]
      BY <2>2
    <3> QED
      BY <3>1
  <2>4. E(g, m + 1)
    BY <2>3
  <2> HIDE DEF g, h, E
  <2> QED
    BY <2>4
<1> HIDE DEF T
<1>3. Len(s) \in T
  BY <1>1, <1>2, SetInduction
<1> QED
  BY <1>3 DEF T, Keeping, turn

\* A new Set has no other items than it is given, ...
LEMMA DistinctItems ==
    ASSUME NEW s \in Seq(Value)
    PROVE  Range(Distinct(s)) \subseteq Range(s)
<1> DEFINE kept == CHOOSE f : Keeping(s, f)
           T    == {n \in Nat : n <= Len(s) =>
                       kept[n] \in Seq(Value) /\ Range(kept[n]) \subseteq Range(s)}
<1>1. Len(s) \in Nat /\ DOMAIN s = 1 .. Len(s) /\ \A i \in DOMAIN s : s[i] \in Value
  BY LenProperties
<1>2. Keeping(s, kept)
  BY <1>1, KeepingRuns
<1>3. Distinct(s) = kept[Len(s)]
  BY DEF Distinct, Keeping
<1> HIDE DEF kept
<1>4. 0 \in T
  <2>1. kept[0] = <<>>
    BY <1>1, <1>2 DEF Keeping
  <2>2. kept[0] \in Seq(Value) /\ Len(kept[0]) = 0
    BY <2>1
  <2>3. DOMAIN kept[0] = {}
    BY <2>2, LenProperties
  <2>4. Range(kept[0]) = {}
    BY <2>3 DEF Range
  <2> QED
    BY <2>2, <2>4
<1>5. ASSUME NEW n \in Nat, n \in T PROVE n + 1 \in T
  <2> SUFFICES ASSUME n + 1 <= Len(s)
               PROVE  kept[n + 1] \in Seq(Value) /\ Range(kept[n + 1]) \subseteq Range(s)
    OBVIOUS
  <2>1. n <= Len(s) /\ n + 1 \in 0 .. Len(s) /\ n + 1 # 0 /\ n + 1 - 1 = n
        /\ n + 1 \in DOMAIN s
    BY <1>1
  <2>2. kept[n] \in Seq(Value) /\ Range(kept[n]) \subseteq Range(s)
    BY <1>5, <2>1
  <2>3. kept[n + 1] = IF s[n + 1] \in Range(kept[n]) THEN kept[n]
                      ELSE Append(kept[n], s[n + 1])
    <3>1. PICK i \in 0 .. Len(s) : i = n + 1 /\ i # 0 /\ i - 1 = n
      BY <2>1
    <3>2. kept[i] = IF s[i] \in Range(kept[i - 1]) THEN kept[i - 1]
                    ELSE Append(kept[i - 1], s[i])
      BY <1>2, <3>1 DEF Keeping
    <3> QED
      BY <3>1, <3>2
  <2>4. s[n + 1] \in Value /\ s[n + 1] \in Range(s)
    BY <1>1, <2>1 DEF Range
  <2>5. /\ Append(kept[n], s[n + 1]) \in Seq(Value)
        /\ Range(Append(kept[n], s[n + 1])) = Range(kept[n]) \cup {s[n + 1]}
    BY <2>2, <2>4, Appended
  <2> QED
    BY <2>2, <2>3, <2>4, <2>5
<1> HIDE DEF T
<1>6. Len(s) \in T
  BY <1>1, <1>4, <1>5, SetInduction
<1> QED
  BY <1>1, <1>3, <1>6 DEF T

\* ... and all of them in their order, if each is there once.
LEMMA DistinctKeeps ==
    ASSUME NEW s \in Seq(Value), \A i, j \in DOMAIN s : s[i] = s[j] => i = j
    PROVE  Distinct(s) = s
<1> DEFINE kept == CHOOSE f : Keeping(s, f)
           T    == {n \in Nat : n <= Len(s) =>
                       /\ kept[n] \in Seq(Value) /\ Len(kept[n]) = n
                       /\ \A i \in 1 .. n : kept[n][i] = s[i]}
<1>1. /\ Len(s) \in Nat /\ DOMAIN s = 1 .. Len(s) /\ \A i \in DOMAIN s : s[i] \in Value
      /\ s = [i \in 1 .. Len(s) |-> s[i]]
  BY LenProperties
<1>2. Keeping(s, kept)
  BY <1>1, KeepingRuns
<1>3. Distinct(s) = kept[Len(s)]
  BY DEF Distinct, Keeping
<1> HIDE DEF kept
<1>4. 0 \in T
  <2>1. kept[0] = <<>>
    BY <1>1, <1>2 DEF Keeping
  <2>2. kept[0] \in Seq(Value) /\ Len(kept[0]) = 0
    BY <2>1
  <2> QED
    BY <2>2
<1>5. ASSUME NEW n \in Nat, n \in T PROVE n + 1 \in T
  <2> SUFFICES ASSUME n + 1 <= Len(s)
               PROVE  /\ kept[n + 1] \in Seq(Value) /\ Len(kept[n + 1]) = n + 1
                      /\ \A i \in 1 .. n + 1 : kept[n + 1][i] = s[i]
    OBVIOUS
  <2>1. n <= Len(s) /\ n + 1 \in 0 .. Len(s) /\ n + 1 # 0 /\ n + 1 - 1 = n
        /\ n + 1 \in DOMAIN s
    BY <1>1
  <2>2. /\ kept[n] \in Seq(Value) /\ Len(kept[n]) = n
        /\ \A i \in 1 .. n : kept[n][i] = s[i]
    BY <1>5, <2>1
  <2>3. kept[n + 1] = IF s[n + 1] \in Range(kept[n]) THEN kept[n]
                      ELSE Append(kept[n], s[n + 1])
    <3>1. PICK i \in 0 .. Len(s) : i = n + 1 /\ i # 0 /\ i - 1 = n
      BY <2>1
    <3>2. kept[i] = IF s[i] \in Range(kept[i - 1]) THEN kept[i - 1]
                    ELSE Append(kept[i - 1], s[i])
      BY <1>2, <3>1 DEF Keeping
    <3> QED
      BY <3>1, <3>2
  <2>4. s[n + 1] \in Value
    BY <1>1, <2>1
  <2>5. s[n + 1] \notin Range(kept[n])
    <3> SUFFICES ASSUME NEW i \in DOMAIN kept[n], kept[n][i] = s[n + 1] PROVE FALSE
      BY DEF Range
    <3>1. i \in 1 .. n
      BY <2>2, LenProperties
    <3>2. s[i] = s[n + 1] /\ i \in DOMAIN s /\ i # n + 1
      BY <1>1, <2>1, <2>2, <3>1
    <3> QED
      BY <2>1, <3>2
  <2>6. /\ Append(kept[n], s[n + 1]) \in Seq(Value)
        /\ Len(Append(kept[n], s[n + 1])) = n + 1
        /\ DOMAIN kept[n] = 1 .. n
        /\ \A i \in DOMAIN kept[n] : Append(kept[n], s[n + 1])[i] = kept[n][i]
        /\ Append(kept[n], s[n + 1])[n + 1] = s[n + 1]
    BY <2>2, <2>4, Appended
  <2> QED
    BY <2>2, <2>3, <2>5, <2>6
<1> HIDE DEF T
<1>6. Len(s) \in T
  BY <1>1, <1>4, <1>5, SetInduction
<1>7. /\ kept[Len(s)] \in Seq(Value) /\ Len(kept[Len(s)]) = Len(s)
      /\ \A i \in 1 .. Len(s) : kept[Len(s)][i] = s[i]
  BY <1>1, <1>6 DEF T
<1>8. kept[Len(s)] = [i \in 1 .. Len(s) |-> kept[Len(s)][i]]
  BY <1>7, LenProperties
<1> QED
  BY <1>1, <1>3, <1>7, <1>8

-----------------------------------------------------------------------------
(***************************************************************************)
(* Finalization of the drafts.                                             *)
(***************************************************************************)
\* A world whose heap may hold anything.
Shaped(w) == \E r \in World : \E H : w = [r EXCEPT !.heap = H]

\* setMap.get(), for a function.
LEMMA MappedIs ==
    ASSUME NEW x, \A m, n \in x.setMap : m.item = n.item => m = n,
           NEW e \in x.setMap
    PROVE  Mapped(x, e.item) = e.value
<1>1. Entries(x, e.item) = {e}
  BY DEF Entries
<1>2. (CHOOSE m \in Entries(x, e.item) : TRUE) = e
  BY <1>1
<1> QED
  BY <1>1, <1>2 DEF Mapped

\* What is not mapped has no entry.
LEMMA MappedNot ==
    ASSUME NEW x, NEW item, \A m \in x.setMap : m.item # item
    PROVE  Mapped(x, item) = Absent
<1>1. Entries(x, item) = {}
  BY DEF Entries
<1> QED
  BY <1>1 DEF Mapped

\* setMap of x has the items of w's, and each item stands for what it stood for
\* in w or for the final value of it.
Settled(w, x) ==
    /\ x = [w EXCEPT !.setMap = x.setMap]
    /\ \A m, n \in x.setMap : m.item = n.item => m = n
    /\ \A m \in w.setMap : \E n \in x.setMap : n.item = m.item
    /\ \A n \in x.setMap :
          /\ IsRef(n.value)
          /\ \E m \in w.setMap : /\ m.item = n.item
                                 /\ GetValue(w, n.value) = GetValue(w, m.value)

\* The final value of a draft depends on the drafts only.
LEMMA SettledGet ==
    ASSUME NEW w, NEW x, x.drafts = w.drafts, NEW v
    PROVE  GetValue(x, v) = GetValue(w, v)
  BY DEF GetValue, FinalElement, Node

LEMMA SettledFields ==
    ASSUME NEW w, Shaped(w), NEW x, Settled(w, x)
    PROVE  /\ x.original = w.original /\ x.copy = w.copy /\ x.heap = w.heap
           /\ x.drafts = w.drafts /\ x.operated = w.operated
           /\ x.assigned = w.assigned /\ x.tasks = w.tasks
<1> DEFINE S == x.setMap
<1>1. x = [w EXCEPT !.setMap = S]
  BY DEF Settled
<1> HIDE DEF S
<1> QED
  BY <1>1 DEF World, Shaped

\* Replacing a draft by its final value settles an item.
LEMMA ReplacedSettled ==
    ASSUME NEW w, Shaped(w), NEW x, Settled(w, x), NEW item, NEW d,
           Mapped(x, item) = d, IsDraft(d)
    PROVE  Settled(w, SetMapSet(x, item, GetValue(x, d)))
<1> DEFINE v == GetValue(x, d)
           e == [item |-> item, value |-> v]
           S == (x.setMap \ Entries(x, item)) \cup {e}
           y == SetMapSet(x, item, v)
           Sx == x.setMap
<1>1. PICK n \in x.setMap : n.item = item /\ n.value = d
  <2>1. Absent # d
    BY DEF Absent, IsDraft
  <2>2. PICK n \in x.setMap : n.item = item
    BY <2>1, MappedNot
  <2>3. Mapped(x, item) = n.value
    BY <2>2, MappedIs DEF Settled
  <2> QED
    BY <2>2, <2>3
<1>2. /\ \A k \in S : k = e \/ (k \in x.setMap /\ k.item # item)
      /\ \A k \in x.setMap : k.item # item => k \in S
      /\ e \in S /\ e.item = item /\ e.value = v
  BY DEF Entries
<1>3. /\ x = [w EXCEPT !.setMap = Sx] /\ y = [x EXCEPT !.setMap = S]
  BY DEF Settled, SetMapSet
<1>4. IsRef(v) /\ GetValue(w, v) = GetValue(w, d)
  <2>1. v = GetValue(w, d)
    BY SettledFields, SettledGet
  <2>2. v = FinalElement(w, d.id)
    BY <2>1 DEF GetValue
  <2>3. IsObj(v) /\ ~IsDraft(v)
    BY <2>2 DEF FinalElement, Obj, IsObj, IsDraft
  <2> QED
    BY <2>1, <2>3 DEF IsRef, GetValue
<1> HIDE DEF S, e, v, Sx
<1>5. y = [w EXCEPT !.setMap = S] /\ y.setMap = S
  BY <1>3 DEF World, Shaped
<1> HIDE DEF y
<1>6. \A m, k \in S : m.item = k.item => m = k
  BY <1>2 DEF Settled
<1>7. \A m \in w.setMap : \E k \in S : k.item = m.item
  <2> TAKE m \in w.setMap
  <2>1. PICK k \in x.setMap : k.item = m.item
    BY DEF Settled
  <2>2. CASE k.item = item
    BY <1>2, <2>1, <2>2
  <2>3. CASE k.item # item
    BY <1>2, <2>1, <2>3
  <2> QED
    BY <2>2, <2>3
<1>8. ASSUME NEW k \in S
      PROVE  /\ IsRef(k.value)
             /\ \E m \in w.setMap : /\ m.item = k.item
                                    /\ GetValue(w, k.value) = GetValue(w, m.value)
  <2>1. CASE k = e
    <3>1. PICK m \in w.setMap : m.item = item /\ GetValue(w, d) = GetValue(w, m.value)
      BY <1>1 DEF Settled
    <3> QED
      BY <1>2, <1>4, <2>1, <3>1
  <2>2. CASE k \in x.setMap
    BY <2>2 DEF Settled
  <2> QED
    BY <1>2, <2>1, <2>2
<1>9. Settled(w, y)
  BY <1>5, <1>6, <1>7, <1>8 DEF Settled
<1> QED
  BY <1>9 DEF y, v

\* Finalizing one draft.
LEMMA NodeSettled ==
    ASSUME NEW w, Shaped(w), NEW x, Settled(w, x), NEW d
    PROVE  Settled(w, FinalizeNode(x, d))
<1> DEFINE y == FinalizeItem(x, d)
<1>1. Settled(w, y)
  <2> DEFINE item == Obj(Node(x, d).original)
             v    == Mapped(x, item)
  <2>1. \/ y = x
        \/ IsDraft(v) /\ y = SetMapSet(x, item, GetValue(x, v))
    BY DEF FinalizeItem
  <2> HIDE DEF item, y
  <2> QED
    BY <2>1, ReplacedSettled
<1> HIDE DEF y
<1>2. Settled(w, RunCallback(y, d))
  <2> DEFINE v == Draft(d)
  <2>1. IsDraft(v) /\ GetValue(y, v) = FinalElement(y, d)
    BY DEF IsDraft, Draft, GetValue
  <2>2. \/ RunCallback(y, d) = y
        \/ /\ Mapped(y, v) = v
           /\ RunCallback(y, d) = SetMapSet(y, v, FinalElement(y, d))
    BY DEF RunCallback
  <2> HIDE DEF v
  <2> QED
    BY <1>1, <2>1, <2>2, ReplacedSettled
<1> QED
  BY <1>2 DEF FinalizeNode, y

\* The states of the loop over the drafts.
Turn(state, d) ==
    [w |-> FinalizeNode(state.w, d),
     patches |-> state.patches
                 \o FieldPatches(state.w, d, Held(state.w, Draft(d))),
     inverse |-> state.inverse
                 \o FieldPatches(state.w, d,
                                 state.w.heap[Node(state.w, d).original])]
Turning(w, N, f) ==
    f = [n \in 0 .. N |->
            IF n = 0 THEN [w |-> w, patches |-> <<>>, inverse |-> <<>>]
            ELSE Turn(f[n - 1], N + 1 - n)]

\* There are such states: those up to some turn give the next.
LEMMA TurningRuns ==
    ASSUME NEW w, NEW N \in Nat
    PROVE  \E f : Turning(w, N, f)
<1> DEFINE first == [w |-> w, patches |-> <<>>, inverse |-> <<>>]
           E(f, m) == f = [n \in 0 .. m |->
                              IF n = 0 THEN first ELSE Turn(f[n - 1], N + 1 - n)]
           T       == {m \in Nat : \E f : E(f, m)}
<1> HIDE DEF first
<1>1. 0 \in T
  <2> DEFINE f == [n \in 0 .. 0 |-> first]
  <2>1. \A n \in 0 .. 0 : n = 0
    OBVIOUS
  <2>2. E(f, 0)
    BY <2>1
  <2> QED
    BY <2>2
<1>2. ASSUME NEW m \in Nat, m \in T PROVE m + 1 \in T
  <2>1. PICK f : E(f, m)
    BY <1>2
  <2> DEFINE next == Turn(f[m], N + 1 - (m + 1))
             g == [n \in 0 .. m + 1 |-> IF n = m + 1 THEN next ELSE f[n]]
             h == [n \in 0 .. m + 1 |-> IF n = 0 THEN first
                                        ELSE Turn(g[n - 1], N + 1 - n)]
  <2>2. ASSUME NEW n \in 0 .. m + 1
        PROVE  g[n] = IF n = 0 THEN first ELSE Turn(g[n - 1], N + 1 - n)
    <3>1. CASE n = m + 1
      <4>1. g[n] = next /\ n # 0 /\ n - 1 = m /\ m \in 0 .. m + 1 /\ m # m + 1
        BY <3>1
      <4>2. g[n - 1] = f[m]
        BY <4>1
      <4> QED
        BY <3>1, <4>1, <4>2
    <3>2. CASE n # m + 1
      <4>1. n \in 0 .. m /\ g[n] = f[n]
        BY <3>2
      <4>2. f[n] = IF n = 0 THEN first ELSE Turn(f[n - 1], N + 1 - n)
        BY <2>1, <4>1
      <4>3. ASSUME n # 0 PROVE g[n - 1] = f[n - 1]
        BY <3>2, <4>3
      <4> QED
        BY <4>1, <4>2, <4>3
    <3> QED
      BY <3>1, <3>2
  <2>3. g = h
    <3> HIDE DEF next
    <3>1. \A n \in 0 .. m + 1 : g[n] = h[n]
      BY <2>2
    <3> QED
      BY <3>1
  <2>4. E(g, m + 1)
    BY <2>3
  <2> HIDE DEF g, h, E
  <2> QED
    BY <2>4
<1> HIDE DEF T
<1>3. N \in T
  BY <1>1, <1>2, SetInduction
<1> QED
  BY <1>3 DEF T, Turning, first

\* Finalizing all of them settles the items.
LEMMA DraftsSettled ==
    ASSUME NEW w, Shaped(w), \A m, n \in w.setMap : m.item = n.item => m = n,
           \A m \in w.setMap : IsRef(m.value)
    PROVE  Settled(w, FinalizeDrafts(w).w)
<1> DEFINE N == Len(w.drafts)
           after == CHOOSE f : Turning(w, N, f)
           T == {n \in Nat : n <= N => Settled(w, after[n].w)}
<1>1. N \in Nat
  BY LenProperties DEF Shaped, World
<1>2. Turning(w, N, after)
  BY <1>1, TurningRuns
<1>3. FinalizeDrafts(w) = after[N]
  BY DEF FinalizeDrafts, Turning, Turn
<1> HIDE DEF after, N
<1>4. 0 \in T
  <2>1. after[0].w = w
    BY <1>1, <1>2 DEF Turning
  <2>2. w = [w EXCEPT !.setMap = w.setMap]
    BY DEF World, Shaped
  <2>3. Settled(w, w)
    BY <2>2 DEF Settled
  <2> QED
    BY <2>1, <2>3
<1>5. ASSUME NEW n \in Nat, n \in T PROVE n + 1 \in T
  <2> SUFFICES ASSUME n + 1 <= N PROVE Settled(w, after[n + 1].w)
    OBVIOUS
  <2>1. PICK i \in 0 .. N : i = n + 1 /\ i # 0 /\ i - 1 = n /\ n <= N
    BY <1>1
  <2>2. after[i] = Turn(after[n], N + 1 - i)
    BY <1>2, <2>1 DEF Turning
  <2>3. Settled(w, after[n].w)
    BY <1>5, <2>1
  <2>4. after[i].w = FinalizeNode(after[n].w, N + 1 - i)
    BY <2>2 DEF Turn
  <2> QED
    BY <2>1, <2>3, <2>4, NodeSettled
<1> HIDE DEF T
<1>6. N \in T
  BY <1>1, <1>4, <1>5, SetInduction
<1> QED
  BY <1>1, <1>3, <1>6 DEF T

\* finalizeAssigned() writes to the objects that the recipe added: the draft in
\* one, if there is any, gives way to its final value.
LEMMA AssignedFields ==
    ASSUME NEW w \in World
    PROVE  LET u == FinalizeAssigned(w)
           IN  /\ Shaped(u)
               /\ u.original = w.original /\ u.copy = w.copy /\ u.drafts = w.drafts
               /\ u.setMap = w.setMap /\ u.operated = w.operated
               /\ u.assigned = w.assigned
               /\ \A a \in DOMAIN w.heap :
                     u.heap[a] = IF /\ Obj(a) \in w.tasks /\ Mapped(w, Obj(a)) = Obj(a)
                                    /\ IsAdded(w, Obj(a)) /\ IsDraft(w.heap[a])
                                 THEN FinalElement(w, w.heap[a].id) ELSE w.heap[a]
<1> DEFINE due(v) == v \in w.tasks /\ Mapped(w, v) = v /\ IsAdded(w, v)
           H == [a \in DOMAIN w.heap |->
                    IF due(Obj(a)) /\ IsDraft(w.heap[a])
                    THEN FinalElement(w, w.heap[a].id) ELSE w.heap[a]]
           u == FinalizeAssigned(w)
<1>1. u = [w EXCEPT !.heap = H]
  BY DEF FinalizeAssigned
<1>2. \A a \in DOMAIN w.heap :
         H[a] = IF due(Obj(a)) /\ IsDraft(w.heap[a])
                THEN FinalElement(w, w.heap[a].id) ELSE w.heap[a]
  OBVIOUS
<1> HIDE DEF H, u
<1>3. /\ u.original = w.original /\ u.copy = w.copy /\ u.drafts = w.drafts
      /\ u.setMap = w.setMap /\ u.operated = w.operated
      /\ u.assigned = w.assigned /\ u.heap = H
  BY <1>1 DEF World
<1>4. Shaped(u)
  BY <1>1 DEF Shaped
<1> QED
  BY <1>2, <1>3, <1>4 DEF u

\* An item of the copy stands for itself or for a draft of it.
LEMMA ItemStands ==
    ASSUME base \in Bases, Sound(world), NEW i \in DOMAIN world.copy
    PROVE  LET item == world.copy[i]
               v    == SetItemValue(world, item)
           IN  /\ item \in Value /\ v \in Value
               /\ v = item \/ IsDraft(v)
               /\ IsDraft(v) => v.id \in DOMAIN world.drafts
               /\ \A m \in world.setMap : m.item = item => v = m.value
               /\ (\A m \in world.setMap : m.item # item) => v = item /\ ~IsDraft(item)
<1> DEFINE item == world.copy[i]
           v    == SetItemValue(world, item)
<1>1. /\ item \in Value /\ item \in Range(world.copy)
      /\ world.setMap \subseteq [item : Value, value : Value]
  BY WorldParts DEF Sound, World, Range
<1>2. IsDraft(item) => item.id \in DOMAIN world.drafts
                       /\ [item |-> item, value |-> item] \in world.setMap
  <2> SUFFICES ASSUME IsDraft(item)
               PROVE  item.id \in DOMAIN world.drafts
                      /\ [item |-> item, value |-> item] \in world.setMap
    OBVIOUS
  <2>1. item \notin Range(world.original)
    BY BaseParts DEF Sound, BaseKept
  <2> QED
    BY <1>1, <2>1 DEF Sound, AddedQueued, AddedRecorded, IsRef
<1> HIDE DEF item
<1>3. ASSUME NEW m \in world.setMap, m.item = item
      PROVE  v = m.value /\ (v = item \/ (IsDraft(v) /\ v.id \in DOMAIN world.drafts))
  <2>1. Mapped(world, item) = m.value
    BY <1>3, MappedIs DEF Sound, MapOfItems
  <2>2. \/ m.value = item
        \/ IsDraft(m.value) /\ m.value.id \in DOMAIN world.drafts
    BY <1>3 DEF Sound, MapOfItems
  <2>3. IsRef(item)
    BY <1>3 DEF Sound, AddedQueued
  <2>4. m.value # Absent
    BY <2>2, <2>3 DEF IsRef, IsDraft, IsObj, Absent
  <2>5. v = m.value
    BY <2>1, <2>4 DEF SetItemValue
  <2> HIDE DEF v
  <2> QED
    BY <2>2, <2>5
<1>4. ASSUME \A m \in world.setMap : m.item # item
      PROVE  v = item /\ ~IsDraft(item)
  <2>1. Mapped(world, item) = Absent
    BY <1>4, MappedNot
  <2> QED
    BY <1>2, <1>4, <2>1 DEF SetItemValue
<1>5. v \in Value
  BY <1>1, <1>3, <1>4
<1> HIDE DEF v
<1>6. /\ v = item \/ IsDraft(v)
      /\ IsDraft(v) => v.id \in DOMAIN world.drafts
  BY <1>2, <1>3, <1>4
<1>7. /\ \A m \in world.setMap : m.item = item => v = m.value
      /\ (\A m \in world.setMap : m.item # item) => v = item /\ ~IsDraft(item)
  BY <1>3, <1>4
<1> QED
  BY <1>1, <1>5, <1>6, <1>7 DEF item, v

\* What the items of the copy stand for.
Stands(w) == [i \in DOMAIN w.copy |-> GetValue(w, SetItemValue(w, w.copy[i]))]

\* Final values are values.
LEMMA StandsValue ==
    ASSUME base \in Bases, Sound(world)
    PROVE  /\ Stands(world) \in Seq(Value)
           /\ DOMAIN Stands(world) = DOMAIN world.copy
<1>1. ASSUME NEW i \in DOMAIN world.copy
      PROVE  GetValue(world, SetItemValue(world, world.copy[i])) \in Value
  <2> DEFINE v == SetItemValue(world, world.copy[i])
  <2>1. v \in Value /\ (IsDraft(v) => v.id \in DOMAIN world.drafts)
    BY <1>1, ItemStands
  <2> HIDE DEF v
  <2>2. CASE IsDraft(v)
    <3>1. world.drafts[v.id] \in ItemDraft
      BY <2>1, <2>2, WorldParts DEF Sound
    <3>2. PICK a \in Nat : a = IF world.drafts[v.id].operated
                               THEN world.drafts[v.id].copy
                               ELSE world.drafts[v.id].original
      BY <3>1 DEF ItemDraft
    <3>3. GetValue(world, v) = Obj(a)
      BY <2>2, <3>2 DEF GetValue, FinalElement, Node
    <3> QED
      BY <3>3 DEF Obj, Value, v
  <2> QED
    BY <2>1, <2>2 DEF GetValue, v
<1>2. DOMAIN world.copy = 1 .. Len(world.copy) /\ Len(world.copy) \in Nat
  BY WorldParts DEF Sound
<1> QED
  BY <1>1, <1>2, LenProperties DEF Stands

\* Finish: the Set and the heap it leaves.
LEMMA FinishSet ==
    ASSUME base \in Bases, Sound(world), Finish
    PROVE  /\ result'.set = IF ~world.operated THEN base.set
                            ELSE Distinct(Stands(world))
           /\ world'.heap = FinalizeAssigned(world).heap
           /\ world'.original = base.set /\ world'.operated = world.operated
           /\ world'.assigned = world.assigned /\ world'.drafts = world.drafts
           /\ world.operated => world'.copy = result'.set
<1> DEFINE u   == FinalizeAssigned(world)
           x   == FinalizeDrafts(u).w
           set == FinalizeSetValue(x)
<1>1. /\ result'.set = IF set.operated THEN set.copy ELSE set.original
      /\ world' = set
  BY DEF Finish
<1>2. /\ Shaped(u) /\ u.original = world.original /\ u.copy = world.copy
      /\ u.drafts = world.drafts /\ u.setMap = world.setMap
      /\ u.operated = world.operated /\ u.assigned = world.assigned
  BY AssignedFields DEF Sound
<1>3. /\ \A m, n \in u.setMap : m.item = n.item => m = n
      /\ \A m \in u.setMap : IsRef(m.value)
  BY <1>2 DEF Sound, MapOfItems, AddedQueued, IsRef
<1> HIDE DEF u
<1>4. Settled(u, x)
  BY <1>2, <1>3, DraftsSettled
<1> HIDE DEF x
<1>5. /\ x.original = base.set /\ x.copy = world.copy /\ x.heap = u.heap
      /\ x.drafts = world.drafts /\ x.operated = world.operated
      /\ x.assigned = world.assigned
  BY <1>2, <1>4, SettledFields DEF Sound, BaseKept
<1>6. \A v : GetValue(x, v) = GetValue(world, v) /\ GetValue(u, v) = GetValue(world, v)
  BY <1>2, <1>5, SettledGet
<1>7. ASSUME NEW i \in DOMAIN world.copy
      PROVE  LET item == world.copy[i]
                 v    == SetItemValue(world, item)
             IN  /\ GetValue(x, SetItemValue(x, item)) = GetValue(world, v)
                 /\ \/ v = item /\ ~IsDraft(v)
                    \/ \E n \in x.setMap : n.item = item
                                        /\ GetValue(x, n.value) = GetValue(world, v)
  <2> DEFINE item == world.copy[i]
             v    == SetItemValue(world, item)
  <2>1. /\ \A m \in world.setMap : m.item = item => v = m.value
        /\ (\A m \in world.setMap : m.item # item) => v = item /\ ~IsDraft(item)
    BY ItemStands
  <2> HIDE DEF item, v
  <2>2. CASE \E n \in x.setMap : n.item = item
    <3>1. PICK n \in x.setMap : n.item = item
      BY <2>2
    <3>2. IsRef(n.value) /\ Mapped(x, item) = n.value
      BY <1>4, <3>1, MappedIs DEF Settled
    <3>3. PICK m \in world.setMap :
             m.item = item /\ GetValue(u, n.value) = GetValue(u, m.value)
      BY <1>2, <1>4, <3>1 DEF Settled
    <3>4. GetValue(x, n.value) = GetValue(world, v)
      BY <1>6, <2>1, <3>3
    <3>5. SetItemValue(x, item) = n.value
      BY <3>2 DEF SetItemValue, IsRef, IsDraft, IsObj, Absent
    <3> QED
      BY <3>1, <3>4, <3>5 DEF item, v
  <2>3. CASE \A n \in x.setMap : n.item # item
    <3>1. \A m \in world.setMap : m.item # item
      BY <1>2, <1>4, <2>3 DEF Settled
    <3>2. Mapped(x, item) = Absent
      BY <2>3, MappedNot
    <3>3. SetItemValue(x, item) = item
      BY <3>2 DEF SetItemValue
    <3> QED
      BY <1>6, <2>1, <3>1, <3>3 DEF item, v
  <2> QED
    BY <2>2, <2>3
<1>8. Rebuilt(x) = Distinct(Stands(world))
  <2> DEFINE f == [i \in DOMAIN x.copy |-> GetValue(x, SetItemValue(x, x.copy[i]))]
  <2>1. f = Stands(world)
    BY <1>5, <1>7 DEF Stands
  <2>2. Rebuilt(x) = Distinct(f)
    BY DEF Rebuilt
  <2> QED
    BY <2>1, <2>2
<1>9. ASSUME world.operated, \A m \in x.setMap : GetValue(x, m.value) = m.item
      PROVE  Distinct(Stands(world)) = world.copy
  <2>1. ASSUME NEW i \in DOMAIN world.copy
        PROVE  Stands(world)[i] = world.copy[i]
    BY <1>7, <1>9 DEF Stands, GetValue
  <2>2. /\ Stands(world) \in Seq(Value) /\ world.copy \in Seq(Value)
        /\ DOMAIN Stands(world) = DOMAIN world.copy
    BY StandsValue DEF Sound, World
  <2>3. Stands(world) = world.copy
    BY <2>1, <2>2, SeqEqual, LenProperties
  <2> QED
    BY <2>2, <2>3, DistinctKeeps DEF Sound, ItemsOnce
<1>10. /\ set.operated = world.operated /\ set.original = base.set
       /\ set.heap = u.heap /\ set.assigned = world.assigned
       /\ set.drafts = world.drafts
       /\ world.operated => set.copy = Distinct(Stands(world))
  <2> DEFINE R == Rebuilt(x)
             again == /\ x.operated
                      /\ x.assigned = {}
                         \/ \E m \in x.setMap : GetValue(x, m.value) # m.item
  <2>1. set = IF again THEN [x EXCEPT !.copy = R] ELSE x
    BY DEF FinalizeSetValue
  <2>2. PICK r \in World : \E H : u = [r EXCEPT !.heap = H]
    BY <1>2 DEF Shaped
  <2> DEFINE M == x.setMap
  <2>3. x = [u EXCEPT !.setMap = M]
    BY <1>4 DEF Settled
  <2> HIDE DEF R, set, M
  <2>4. CASE again
    <3>1. set = [x EXCEPT !.copy = R]
      BY <2>1, <2>4
    <3>2. /\ set.operated = x.operated /\ set.original = x.original
          /\ set.heap = x.heap /\ set.copy = R
          /\ set.assigned = x.assigned /\ set.drafts = x.drafts
      BY <2>2, <2>3, <3>1 DEF World
    <3> QED
      BY <1>5, <1>8, <3>2 DEF R
  <2>5. CASE ~again
    BY <1>5, <1>9, <2>1, <2>5
  <2> QED
    BY <2>4, <2>5
<1> HIDE DEF set
<1> QED
  BY <1>1, <1>10 DEF u

-----------------------------------------------------------------------------
\* create() returns the items of the Set in order, once each, as what they stood
\* for, whether finalizeSetValue() rebuilds the Set or leaves it.
THEOREM ItemsStayInOrder == Spec => ResultInOrder
<1>1. ASSUME IInv, Finish
      PROVE  result'.set =
                IF ~world.operated THEN base.set
                ELSE Distinct([i \in DOMAIN world.copy |->
                        GetValue(world, SetItemValue(world, world.copy[i]))])
  <2>1. base \in Bases /\ Sound(world)
    BY <1>1 DEF IInv, Finish
  <2> QED
    BY <1>1, <2>1, FinishSet DEF Stands
<1> DEFINE A == Finish =>
                  result'.set =
                     IF ~world.operated THEN base.set
                     ELSE Distinct([i \in DOMAIN world.copy |->
                             GetValue(world, SetItemValue(world, world.copy[i]))])
<1>2. IInv /\ [Step]_vars => [A]_vars
  BY <1>1
<1> QED
  BY <1>2, Invariant, PTL DEF Spec, ResultInOrder

\* What an item stands for in the end is no draft, and holds none: an unchanged
\* item is as it was, a changed one is a copy, and finalizeAssigned() has been
\* through the objects that the recipe added.
LEMMA FinalItem ==
    ASSUME base \in Bases, Sound(world), NEW i \in DOMAIN world.copy
    PROVE  LET v == GetValue(world, SetItemValue(world, world.copy[i]))
           IN  ~IsDraft(v) /\ (IsObj(v) => ~IsDraft(FinalizeAssigned(world).heap[v.id]))
<1> DEFINE item == world.copy[i]
           y    == SetItemValue(world, item)
           v    == GetValue(world, y)
           H    == FinalizeAssigned(world).heap
<1>1. /\ item \in Value /\ y \in Value /\ (y = item \/ IsDraft(y))
      /\ IsDraft(y) => y.id \in DOMAIN world.drafts
      /\ \A m \in world.setMap : m.item = item => y = m.value
  BY ItemStands
<1>2. item \in Range(world.copy)
  BY DEF Range
<1> HIDE DEF item, y
<1>3. \A a \in DOMAIN world.heap :
         H[a] = IF /\ Obj(a) \in world.tasks /\ Mapped(world, Obj(a)) = Obj(a)
                   /\ IsAdded(world, Obj(a)) /\ IsDraft(world.heap[a])
                THEN FinalElement(world, world.heap[a].id) ELSE world.heap[a]
  BY AssignedFields DEF Sound
<1> HIDE DEF H
<1>4. \A d : ~IsDraft(FinalElement(world, d))
  BY DEF FinalElement, Obj, IsDraft
<1>5. \A a \in DOMAIN world.heap : ~IsDraft(world.heap[a]) => ~IsDraft(H[a])
  BY <1>3
<1>6. \A a \in DOMAIN base.heap : a \in DOMAIN world.heap /\ ~IsDraft(H[a])
  <2> TAKE a \in DOMAIN base.heap
  <2>1. a \in DOMAIN world.heap
    BY BaseParts, WorldParts DEF Sound, BaseKept
  <2>2. world.heap[a] = base.heap[a] /\ ~IsDraft(base.heap[a])
    BY BaseParts DEF Sound, BaseKept
  <2> QED
    BY <1>5, <2>1, <2>2
<1>7. CASE IsDraft(y)
  <2> DEFINE n == world.drafts[y.id]
  <2>1. v = Obj(IF n.operated THEN n.copy ELSE n.original)
    BY <1>7 DEF GetValue, FinalElement, Node
  <2>2. /\ n.original \in DOMAIN base.heap
        /\ n.copy \in {Null} \cup (Len(base.heap) + 1 .. Len(world.heap))
        /\ n.operated => n.copy # Null /\ ~IsDraft(world.heap[n.copy])
    BY <1>1, <1>7 DEF Sound, DraftsApart, DraftsCopied
  <2> HIDE DEF n, v
  <2>3. n.operated => n.copy \in DOMAIN world.heap
    BY <2>2, BaseParts, WorldParts DEF Sound
  <2>4. ~IsDraft(v) /\ v.id = IF n.operated THEN n.copy ELSE n.original
    BY <2>1 DEF Obj, IsDraft
  <2>5. ~IsDraft(H[v.id])
    BY <1>5, <1>6, <2>2, <2>3, <2>4
  <2> QED
    BY <2>4, <2>5 DEF v, H, y, item
<1>8. CASE ~IsDraft(y)
  <2>1. v = item /\ y = item
    BY <1>1, <1>8 DEF GetValue
  <2> HIDE DEF v
  <2>2. ASSUME IsObj(item) PROVE ~IsDraft(H[item.id])
    <3>1. CASE item \in Range(world.original)
      <4>1. item.id \in DOMAIN base.heap
        BY <2>2, <3>1, BaseParts DEF Sound, BaseKept
      <4> QED
        BY <1>6, <4>1
    <3>2. CASE item \notin Range(world.original)
      <4>1. item.id \in DOMAIN world.heap /\ item \in world.tasks
        BY <1>2, <2>2, <3>2 DEF Sound, AddedQueued
      <4>2. /\ [item |-> item, value |-> item] \in world.setMap
            /\ [item |-> item, added |-> TRUE] \in world.assigned
        BY <1>2, <2>2, <3>2 DEF Sound, AddedRecorded, IsRef
      <4> DEFINE e == [item |-> item, value |-> item]
      <4>3. e \in world.setMap /\ e.item = item /\ e.value = item
        BY <4>2
      <4> HIDE DEF e
      <4>4. Mapped(world, item) = item
        BY <4>3, MappedIs DEF Sound, MapOfItems
      <4>5. Obj(item.id) = item
        BY <1>1, <2>2 DEF Value, Obj, IsObj
      <4> QED
        BY <1>3, <1>4, <4>1, <4>2, <4>4, <4>5 DEF IsAdded
    <3> QED
      BY <3>1, <3>2
  <2> QED
    BY <1>8, <2>1, <2>2 DEF v, H, y, item
<1> QED
  BY <1>7, <1>8

\* No draft is left in the Set that create() returns, nor in one of its objects.
THEOREM NewSetHasNoDraft == Spec => []NoDraftReturned
<1>1. Init => NoDraftReturned
  BY DEF Init, NoDraftReturned
<1>2. ASSUME IInv, Finish PROVE NoDraftReturned'
  <2>1. base \in Bases /\ Sound(world)
    BY <1>2 DEF IInv, Finish
  <2>2. /\ result'.set = IF ~world.operated THEN base.set ELSE Distinct(Stands(world))
        /\ world'.heap = FinalizeAssigned(world).heap
    BY <1>2, <2>1, FinishSet
  <2> SUFFICES ASSUME NEW v \in Range(result'.set)
               PROVE  ~IsDraft(v) /\ (IsObj(v) => ~IsDraft(world'.heap[v.id]))
    BY DEF NoDraftReturned
  <2>3. CASE ~world.operated
    <3>1. ~IsDraft(v) /\ (IsObj(v) => v.id \in DOMAIN base.heap)
      BY <2>1, <2>2, <2>3, BaseParts
    <3>2. ASSUME IsObj(v) PROVE ~IsDraft(world'.heap[v.id])
      <4>1. /\ v.id \in DOMAIN world.heap
            /\ world.heap[v.id] = base.heap[v.id] /\ ~IsDraft(base.heap[v.id])
        BY <2>1, <3>1, <3>2, BaseParts, WorldParts DEF Sound, BaseKept
      <4> QED
        BY <2>1, <2>2, <4>1, AssignedFields DEF Sound
    <3> QED
      BY <3>1, <3>2
  <2>4. CASE world.operated
    <3>1. v \in Range(Stands(world))
      BY <2>1, <2>2, <2>4, StandsValue, DistinctItems
    <3>2. PICK i \in DOMAIN world.copy :
             v = GetValue(world, SetItemValue(world, world.copy[i]))
      BY <2>1, <3>1, StandsValue DEF Range, Stands
    <3> QED
      BY <2>1, <2>2, <3>2, FinalItem
  <2> QED
    BY <2>3, <2>4
<1>3. IInv /\ NoDraftReturned /\ [Step]_vars => NoDraftReturned'
  <2> SUFFICES ASSUME IInv, NoDraftReturned, [Step]_vars PROVE NoDraftReturned'
    OBVIOUS
  <2>1. CASE UNCHANGED vars
    BY <2>1 DEF vars, NoDraftReturned
  <2>2. CASE Finish
    BY <1>2, <2>2
  <2>3. CASE Recipe
    <3>1. phase' = phase /\ phase = "recipe"
      BY <2>3 DEF Recipe, Iterate, NextItem, ClearCall, ReadSide, AddCall,
                  DeleteCall, NewObject, WriteElement, Read, Change
    <3> QED
      BY <3>1 DEF NoDraftReturned
  <2> QED
    BY <2>1, <2>2, <2>3 DEF Step
<1> QED
  BY <1>1, <1>3, Invariant, PTL DEF Spec

-----------------------------------------------------------------------------
(***************************************************************************)
(* What the patches rely on.                                               *)
(***************************************************************************)
Recorded(w, v) == \E e \in w.assigned : e.item = v

\* Items without a record are those of the original, in their order.
OrderKept(w) ==
    /\ \A v \in Range(w.copy) \cup Range(w.original) :
          ~Recorded(w, v) => v \in Range(w.copy) /\ v \in Range(w.original)
    /\ \A i, j \in DOMAIN w.copy : \A p, q \in DOMAIN w.original :
          /\ i < j
          /\ w.original[p] = w.copy[i] /\ ~Recorded(w, w.copy[i])
          /\ w.original[q] = w.copy[j] /\ ~Recorded(w, w.copy[j])
          => p < q

\* An item without a record is mapped to its draft, of which there is one at most;
\* the draft of no item is that of the object beside the Set, and no item is mapped
\* to it.
ItemDrafts(w) ==
    /\ \A d \in DOMAIN w.drafts : w.drafts[d].item =>
          LET item == Obj(w.drafts[d].original)
          IN  /\ item \in Range(w.original)
              /\ ~Recorded(w, item) => [item |-> item, value |-> Draft(d)] \in w.setMap
              /\ w.drafts[d].operated => w.operated
    /\ \A d \in DOMAIN w.drafts : ~w.drafts[d].item =>
          w.drafts[d].original = base.side.id
    /\ \A d, e \in DOMAIN w.drafts : ~w.drafts[d].item /\ ~w.drafts[e].item => d = e
    /\ \A m \in w.setMap : m.value # m.item =>
          m.value.id \in DOMAIN w.drafts /\ w.drafts[m.value.id].item

\* Each copy is of one draft, and without an assignment it is as the original.
CopiesOwn(w) ==
    /\ \A d, e \in DOMAIN w.drafts :
          w.drafts[d].copy # Null /\ w.drafts[d].copy = w.drafts[e].copy => d = e
    /\ \A d \in DOMAIN w.drafts :
          w.drafts[d].operated /\ ~w.drafts[d].assigned =>
              w.heap[w.drafts[d].copy] = w.heap[w.drafts[d].original]

Tracked(w) == OrderKept(w) /\ ItemDrafts(w) /\ CopiesOwn(w)

\* A draft is as before, but for callbacks.
SameDraft(x, y) ==
    /\ x.original = y.original /\ x.copy = y.copy /\ x.operated = y.operated
    /\ x.item = y.item /\ x.assigned = y.assigned

LEMMA TrackedOn ==
    ASSUME base \in Bases, NEW w, Sound(w), Tracked(w), NEW u,
           u.original = w.original, u.copy = w.copy, u.setMap = w.setMap,
           u.assigned = w.assigned, w.operated => u.operated,
           DOMAIN u.drafts = DOMAIN w.drafts,
           \A d \in DOMAIN w.drafts : SameDraft(u.drafts[d], w.drafts[d]),
           \A a \in DOMAIN w.heap : u.heap[a] = w.heap[a]
    PROVE  Tracked(u)
<1>1. OrderKept(u)
  BY DEF Tracked, OrderKept, Recorded
<1>2. ItemDrafts(u)
  BY DEF Tracked, ItemDrafts, Recorded, SameDraft
<1>3. ASSUME NEW d \in DOMAIN u.drafts, u.drafts[d].operated, ~u.drafts[d].assigned
      PROVE  u.heap[u.drafts[d].copy] = u.heap[u.drafts[d].original]
  <2>1. /\ w.drafts[d].operated /\ ~w.drafts[d].assigned
        /\ u.drafts[d].copy = w.drafts[d].copy
        /\ u.drafts[d].original = w.drafts[d].original
    BY <1>3 DEF SameDraft
  <2>2. /\ w.drafts[d].original \in DOMAIN base.heap
        /\ w.drafts[d].copy \in Len(base.heap) + 1 .. Len(w.heap)
    BY <2>1 DEF Sound, DraftsApart, DraftsCopied
  <2>3. w.drafts[d].original \in DOMAIN w.heap /\ w.drafts[d].copy \in DOMAIN w.heap
    BY <2>2, BaseParts, WorldParts DEF Sound, BaseKept
  <2> QED
    BY <2>1, <2>3 DEF Tracked, CopiesOwn
<1>4. CopiesOwn(u)
  BY <1>3 DEF Tracked, CopiesOwn, SameDraft
<1> QED
  BY <1>1, <1>2, <1>4 DEF Tracked

\* A new item is recorded, and last.
LEMMA AddTracked ==
    ASSUME base \in Bases, NEW w, Sound(w), Tracked(w), NEW v \in Value,
           IsDraft(v) => v.id \in DOMAIN w.drafts,
           IsObj(v) => v.id \in DOMAIN w.heap
    PROVE  Tracked(Add(w, v))
<1>1. CASE Has(w, v)
  BY <1>1 DEF Add
<1>2. CASE ~Has(w, v)
  <2> DEFINE u == Add(w, v)
  <2>0. w \in World /\ w.copy \in Seq(Value)
    BY DEF Sound, World
  <2>1. /\ u \in World /\ u.copied = TRUE /\ u.original = w.original
        /\ u.operated = TRUE
        /\ v \notin Range(w.copy) /\ u.copy = Append(w.copy, v)
        /\ u.setMap = IF IsRef(v) THEN w.setMap \cup {[item |-> v, value |-> v]}
                                  ELSE w.setMap
        /\ u.assigned = {e \in w.assigned : e.item # v}
                        \cup {[item |-> v, added |-> TRUE]}
        /\ u.position = w.position
        /\ u.heap = w.heap /\ DOMAIN u.drafts = DOMAIN w.drafts
        /\ \A d \in DOMAIN w.drafts :
              /\ u.drafts[d].original = w.drafts[d].original
              /\ u.drafts[d].copy = w.drafts[d].copy
              /\ u.drafts[d].operated = w.drafts[d].operated
              /\ u.drafts[d].item = w.drafts[d].item
              /\ u.drafts[d].assigned = w.drafts[d].assigned
        /\ w.tasks \subseteq u.tasks /\ (IsObj(v) => v \in u.tasks)
    BY <1>2, AddFields
  <2> HIDE DEF u
  <2>2. /\ DOMAIN w.copy = 1 .. Len(w.copy)
        /\ DOMAIN u.copy = 1 .. Len(w.copy) + 1
        /\ \A i \in DOMAIN w.copy : u.copy[i] = w.copy[i]
        /\ u.copy[Len(w.copy) + 1] = v /\ Range(u.copy) = Range(w.copy) \cup {v}
    BY <2>0, <2>1, Appended
  <2>3. Recorded(u, v) /\ \A x : x # v => (Recorded(u, x) <=> Recorded(w, x))
    <3> DEFINE r == [item |-> v, added |-> TRUE]
    <3>1. r.item = v /\ r \in u.assigned
      BY <2>1
    <3>2. \A e : e.item # v => (e \in u.assigned <=> e \in w.assigned)
      BY <2>1, <3>1
    <3> HIDE DEF r
    <3> QED
      BY <3>1, <3>2 DEF Recorded
  <2>4. OrderKept(u)
    <3>1. \A i \in DOMAIN u.copy : ~Recorded(u, u.copy[i]) =>
             i \in DOMAIN w.copy /\ u.copy[i] = w.copy[i] /\ ~Recorded(w, w.copy[i])
      BY <2>0, <2>2, <2>3, WorldParts
    <3> QED
      BY <2>1, <2>2, <2>3, <3>1 DEF Tracked, OrderKept
  <2>5. ItemDrafts(u)
    BY <2>1, <2>3 DEF Tracked, ItemDrafts
  <2>6. CopiesOwn(u)
    BY <2>1 DEF Tracked, CopiesOwn
  <2> QED
    BY <2>4, <2>5, <2>6 DEF Tracked, u
<1> QED
  BY <1>1, <1>2

\* A deleted item is recorded, unless it was an added draft.
LEMMA DeleteTracked ==
    ASSUME base \in Bases, NEW w, Sound(w), Tracked(w), NEW v \in Value
    PROVE  Tracked(Delete(w, v))
<1>1. CASE ~Has(w, v)
  BY <1>1 DEF Delete
<1>2. CASE Has(w, v)
  <2> DEFINE u    == Delete(w, v)
             item == ItemOf(w, v)
  <2>0. /\ u \in World /\ u.copied = TRUE /\ u.original = w.original
        /\ u.operated = TRUE
        /\ \E n \in DOMAIN w.copy :
              /\ w.copy[n] = item /\ u.copy = RemoveAt(w.copy, n)
              /\ u.position = IF n <= w.position THEN w.position - 1
                                                 ELSE w.position
        /\ u.setMap = {m \in w.setMap : m.item # item}
        /\ \A e \in w.assigned : e.item # item => e \in u.assigned
        /\ \A e \in u.assigned : e.item # item => e \in w.assigned
        /\ IsDraft(item) \/ [item |-> item, added |-> FALSE] \in u.assigned
        /\ u.heap = w.heap /\ u.drafts = w.drafts /\ u.tasks = w.tasks
    BY <1>2, DeleteFields
  <2> HIDE DEF u, item
  <2>1. PICK n \in DOMAIN w.copy : w.copy[n] = item /\ u.copy = RemoveAt(w.copy, n)
    BY <2>0
  <2>2. /\ Len(u.copy) = Len(w.copy) - 1 /\ u.copy \in Seq(Value)
        /\ \A i \in 1 .. Len(w.copy) - 1 :
              u.copy[i] = IF i < n THEN w.copy[i] ELSE w.copy[i + 1]
        /\ Range(u.copy) = Range(w.copy) \ {item}
    <3>1. /\ w.copy \in Seq(Value)
          /\ \A i, j \in DOMAIN w.copy : w.copy[i] = w.copy[j] => i = j
      BY DEF World, Sound, ItemsOnce
    <3> QED
      BY <2>1, <3>1, Removed
  <2>3. /\ \A x : x # item => (Recorded(u, x) <=> Recorded(w, x))
        /\ IsDraft(item) \/ Recorded(u, item)
    BY <2>0 DEF Recorded
  <2>4. \A x \in Range(w.original) : ~IsDraft(x)
    BY BaseParts DEF Sound, BaseKept
  <2>5. OrderKept(u)
    <3>1. \A x \in Range(u.copy) \cup Range(u.original) :
             ~Recorded(u, x) => x \in Range(u.copy) /\ x \in Range(u.original)
      BY <2>0, <2>2, <2>3, <2>4 DEF Tracked, OrderKept
    <3>2. ASSUME NEW i \in DOMAIN u.copy, NEW j \in DOMAIN u.copy, i < j
          PROVE  \E k, l \in DOMAIN w.copy :
                    /\ u.copy[i] = w.copy[k] /\ u.copy[j] = w.copy[l] /\ k < l
      <4>1. /\ i \in 1 .. Len(w.copy) - 1 /\ j \in 1 .. Len(w.copy) - 1
            /\ DOMAIN w.copy = 1 .. Len(w.copy) /\ Len(w.copy) \in Nat /\ n \in Nat
        BY <2>1, <2>2, WorldParts, LenProperties DEF Sound
      <4> DEFINE k == IF i < n THEN i ELSE i + 1
                 l == IF j < n THEN j ELSE j + 1
      <4>2. k \in DOMAIN w.copy /\ l \in DOMAIN w.copy /\ k < l
        BY <3>2, <4>1
      <4>3. u.copy[i] = w.copy[k] /\ u.copy[j] = w.copy[l]
        BY <2>2, <4>1
      <4> HIDE DEF k, l
      <4> QED
        BY <4>2, <4>3
    <3>3. \A x \in Range(u.copy) : x # item
      BY <2>2
    <3>4. \A i \in DOMAIN u.copy : Recorded(u, u.copy[i]) <=> Recorded(w, u.copy[i])
      BY <2>3, <3>3 DEF Range
    <3>5. ASSUME NEW i \in DOMAIN u.copy, NEW j \in DOMAIN u.copy, i < j,
                 NEW p \in DOMAIN u.original, NEW q \in DOMAIN u.original,
                 u.original[p] = u.copy[i], ~Recorded(u, u.copy[i]),
                 u.original[q] = u.copy[j], ~Recorded(u, u.copy[j])
          PROVE  p < q
      <4>1. PICK k, l \in DOMAIN w.copy :
               /\ u.copy[i] = w.copy[k] /\ u.copy[j] = w.copy[l] /\ k < l
        BY <3>2, <3>5
      <4> QED
        BY <2>0, <3>4, <3>5, <4>1 DEF Tracked, OrderKept
    <3> QED
      BY <3>1, <3>5 DEF OrderKept
  <2>6. ItemDrafts(u)
    <3>1. ASSUME NEW d \in DOMAIN w.drafts, ~Recorded(u, Obj(w.drafts[d].original))
          PROVE  /\ Obj(w.drafts[d].original) # item
                 /\ ~Recorded(w, Obj(w.drafts[d].original))
      <4>1. ~IsDraft(Obj(w.drafts[d].original))
        BY DEF Obj, IsDraft
      <4> QED
        BY <2>3, <3>1, <4>1
    <3> QED
      BY <2>0, <3>1 DEF Tracked, ItemDrafts
  <2>7. CopiesOwn(u)
    BY <2>0 DEF Tracked, CopiesOwn
  <2> QED
    BY <2>5, <2>6, <2>7 DEF Tracked, u
<1> QED
  BY <1>1, <1>2

\* clear() records every item of the original.
LEMMA ClearTracked ==
    ASSUME base \in Bases, NEW w, Sound(w), Tracked(w)
    PROVE  Tracked(Clear(w))
<1>1. CASE w.copy = <<>>
  BY <1>1 DEF Clear
<1>2. CASE w.copy # <<>>
  <2> DEFINE p == Prepare(w)
             u == [p EXCEPT !.assigned = AllDeleted(w), !.setMap = {},
                            !.copy = <<>>, !.position = 0]
  <2>1. /\ p \in World /\ p.original = w.original /\ p.operated = TRUE
        /\ p.heap = w.heap /\ p.drafts = w.drafts
    BY PrepareFields DEF Sound
  <2> HIDE DEF p
  <2>2. /\ u.original = w.original /\ u.copy = <<>> /\ u.operated = TRUE
        /\ u.assigned = AllDeleted(w) /\ u.heap = w.heap /\ u.drafts = w.drafts
    BY <2>1 DEF World
  <2>0. u.setMap = {}
    BY <2>1 DEF World
  <2>3. Clear(w) = u
    BY <1>2 DEF Clear, p
  <2> HIDE DEF u
  <2>4. DOMAIN u.copy = {} /\ Range(u.copy) = {}
    BY <2>2 DEF Range
  <2>5. \A v \in Range(w.original) : Recorded(u, v)
    <3> TAKE v \in Range(w.original)
    <3>1. [item |-> v, added |-> FALSE] \in u.assigned
      BY <2>2 DEF AllDeleted
    <3> QED
      BY <3>1 DEF Recorded
  <2>6. OrderKept(u)
    BY <2>2, <2>4, <2>5 DEF OrderKept
  <2>7. ItemDrafts(u)
    BY <2>0, <2>2, <2>5 DEF Tracked, ItemDrafts
  <2>8. CopiesOwn(u)
    BY <2>2 DEF Tracked, CopiesOwn
  <2> QED
    BY <2>3, <2>6, <2>7, <2>8 DEF Tracked
<1> QED
  BY <1>1, <1>2

\* A draft of an item is made where none is mapped, and one of the object beside
\* the Set where there is none.
LEMMA DraftTracked ==
    ASSUME base \in Bases, NEW w, Sound(w), Tracked(w), NEW a \in DOMAIN base.heap,
           NEW b \in BOOLEAN, NEW u,
           u.original = w.original, u.copy = w.copy, u.assigned = w.assigned,
           u.operated = w.operated, u.heap = w.heap,
           u.drafts = CreateDraft(w, a, b).drafts,
           b => /\ Obj(a) \in Range(w.original)
                /\ [item |-> Obj(a), value |-> Draft(Len(w.drafts) + 1)] \in u.setMap
                /\ \A d \in DOMAIN w.drafts :
                      [item |-> Obj(a), value |-> Draft(d)] \notin w.setMap,
           ~b => a = base.side.id /\ \A d \in DOMAIN w.drafts : w.drafts[d].item,
           \A m \in w.setMap : (b => m.item # Obj(a)) => m \in u.setMap,
           \A m \in u.setMap :
              m \in w.setMap \/ (b /\ m.value = Draft(Len(w.drafts) + 1))
    PROVE  Tracked(u)
<1> DEFINE n == Len(w.drafts) + 1
           x == [original |-> a, item |-> b, copy |-> Null, operated |-> FALSE,
                 assigned |-> FALSE, added |-> FALSE]
<1>1. w \in World /\ w.drafts \in Seq(ItemDraft) /\ x \in ItemDraft
  BY BaseParts DEF Sound, World, ItemDraft, Null
<1>2. /\ x.original = a /\ x.item = b /\ x.copy = Null /\ ~x.operated
      /\ u.drafts = Append(w.drafts, x)
  BY <1>1 DEF CreateDraft, World
<1> HIDE DEF x
<1>3. /\ DOMAIN w.drafts = 1 .. Len(w.drafts) /\ Len(w.drafts) \in Nat
      /\ DOMAIN u.drafts = 1 .. n /\ u.drafts[n] = x
      /\ \A d \in DOMAIN w.drafts : u.drafts[d] = w.drafts[d]
  BY <1>1, <1>2, Appended, LenProperties
<1>4. \A d \in DOMAIN u.drafts : d # n => d \in DOMAIN w.drafts
  BY <1>3
<1> HIDE DEF n
<1>5. \A v : Recorded(u, v) <=> Recorded(w, v)
  BY DEF Recorded
<1>6. OrderKept(u)
  BY <1>5 DEF Tracked, OrderKept
<1>7. ASSUME NEW d \in DOMAIN u.drafts, u.drafts[d].item
      PROVE  LET item == Obj(u.drafts[d].original)
             IN  /\ item \in Range(u.original)
                 /\ ~Recorded(u, item) =>
                       [item |-> item, value |-> Draft(d)] \in u.setMap
                 /\ u.drafts[d].operated => u.operated
  <2>1. CASE d = n
    BY <1>2, <1>3, <1>7, <2>1 DEF n
  <2>2. CASE d # n
    <3> DEFINE item == Obj(w.drafts[d].original)
               m    == [item |-> item, value |-> Draft(d)]
    <3>1. /\ d \in DOMAIN w.drafts /\ u.drafts[d] = w.drafts[d]
          /\ item \in Range(w.original)
          /\ ~Recorded(w, item) => m \in w.setMap
          /\ w.drafts[d].operated => w.operated
      BY <1>3, <1>4, <1>7, <2>2 DEF Tracked, ItemDrafts
    <3>2. m \in w.setMap => m \in u.setMap
      <4>1. m.item = item /\ m \in w.setMap => (b => item # Obj(a))
        BY <3>1
      <4> QED
        BY <4>1
    <3> QED
      BY <1>5, <3>1, <3>2
  <2> QED
    BY <2>1, <2>2
<1>8. ItemDrafts(u)
  <2>1. \A d \in DOMAIN u.drafts : ~u.drafts[d].item => u.drafts[d].original = base.side.id
    BY <1>2, <1>3, <1>4 DEF Tracked, ItemDrafts
  <2>2. \A d, e \in DOMAIN u.drafts : ~u.drafts[d].item /\ ~u.drafts[e].item => d = e
    BY <1>2, <1>3, <1>4 DEF Tracked, ItemDrafts
  <2>3. ASSUME NEW m \in u.setMap, m.value # m.item
        PROVE  m.value.id \in DOMAIN u.drafts /\ u.drafts[m.value.id].item
    <3>1. CASE m \in w.setMap
      BY <1>3, <2>3, <3>1 DEF Tracked, ItemDrafts, n
    <3>2. CASE b /\ m.value = Draft(n)
      <4>1. m.value.id = n /\ n \in DOMAIN u.drafts
        BY <1>3, <3>2 DEF Draft, n
      <4> QED
        BY <1>2, <1>3, <3>2, <4>1
    <3> QED
      BY <3>1, <3>2 DEF n
  <2> QED
    BY <1>7, <2>1, <2>2, <2>3 DEF ItemDrafts
<1>9. CopiesOwn(u)
  BY <1>2, <1>3, <1>4 DEF Tracked, CopiesOwn
<1> QED
  BY <1>6, <1>8, <1>9 DEF Tracked

\* next() makes a draft where setMap has none.
LEMMA NextTracked ==
    ASSUME base \in Bases, NEW w, Sound(w), Tracked(w), w.position < Len(w.copy)
    PROVE  Tracked(Next(w))
<1> DEFINE item == w.copy[w.position + 1]
           w1   == [w EXCEPT !.position = @ + 1]
           c    == CreateDraft(w1, item.id, TRUE)
           e    == [item |-> item, value |-> Draft(Len(w.drafts) + 1)]
           M    == (c.setMap \ Entries(c, item)) \cup {e}
           u    == [c EXCEPT !.setMap = M]
<1>1. w \in World
  BY DEF Sound
<1>2. /\ w1.original = w.original /\ w1.copy = w.copy /\ w1.setMap = w.setMap
      /\ w1.assigned = w.assigned /\ w1.heap = w.heap /\ w1.drafts = w.drafts
      /\ w1.operated = w.operated
  BY <1>1 DEF World
<1>3. item \in Value
  <2>1. w.position + 1 \in DOMAIN w.copy
    BY <1>1, WorldParts DEF World
  <2> QED
    BY <1>1, <2>1, WorldParts
<1> HIDE DEF item
<1>4. CASE /\ SetItemValue(w, item) = item /\ IsObj(item)
           /\ item \in Range(w.original)
  <2>1. Next(w) = u
    BY <1>4 DEF Next, item, SetMapSet
  <2>2. /\ c.original = w.original /\ c.copy = w.copy /\ c.setMap = w.setMap
        /\ c.assigned = w.assigned /\ c.heap = w.heap /\ c.operated = w.operated
        /\ c.drafts = CreateDraft(w, item.id, TRUE).drafts
    BY <1>1 DEF CreateDraft, World
  <2>3. c = [w EXCEPT !.position = w.position + 1, !.drafts = c.drafts]
    BY <1>1 DEF CreateDraft, World
  <2> HIDE DEF c, M
  <2>4. /\ u.original = w.original /\ u.copy = w.copy /\ u.setMap = M
        /\ u.assigned = w.assigned /\ u.heap = w.heap /\ u.operated = w.operated
        /\ u.drafts = CreateDraft(w, item.id, TRUE).drafts
    BY <1>1, <2>2, <2>3 DEF World
  <2>5. M = (w.setMap \ Entries(w, item)) \cup {e}
    BY <2>2 DEF M, Entries
  <2> HIDE DEF u
  <2>6. item = Obj(item.id) /\ item.id \in DOMAIN base.heap
    BY <1>3, <1>4, BaseParts DEF Value, Obj, IsObj, Sound, BaseKept
  <2>7. e \in u.setMap /\ \A m \in w.setMap : m.item # item => m \in u.setMap
    BY <2>4, <2>5 DEF Entries
  <2>8. ASSUME NEW d \in DOMAIN w.drafts,
               [item |-> item, value |-> Draft(d)] \in w.setMap
        PROVE  FALSE
    <3> DEFINE m == [item |-> item, value |-> Draft(d)]
    <3>1. m \in w.setMap /\ m.item = item /\ m.value = Draft(d)
      BY <2>8
    <3> HIDE DEF m
    <3>2. Mapped(w, item) = Draft(d)
      BY <3>1, MappedIs DEF Sound, MapOfItems
    <3>3. SetItemValue(w, item) = Draft(d)
      BY <3>2 DEF SetItemValue, Draft, Absent
    <3> QED
      BY <1>4, <3>3 DEF Draft, IsObj
  <2>9. Tracked(u)
    <3>1. [item |-> Obj(item.id), value |-> Draft(Len(w.drafts) + 1)] \in u.setMap
      BY <2>6, <2>7
    <3>2. \A d \in DOMAIN w.drafts :
             [item |-> Obj(item.id), value |-> Draft(d)] \notin w.setMap
      BY <2>6, <2>8
    <3>3. Obj(item.id) \in Range(w.original)
      BY <1>4, <2>6
    <3>4. \A m \in w.setMap : m.item # Obj(item.id) => m \in u.setMap
      BY <2>6, <2>7
    <3>5. \A m \in u.setMap : m \in w.setMap \/ m.value = Draft(Len(w.drafts) + 1)
      BY <2>4, <2>5
    <3> QED
      BY <2>4, <2>6, <3>1, <3>2, <3>3, <3>4, <3>5, DraftTracked
  <2> QED
    BY <2>1, <2>9
<1>5. CASE ~ /\ SetItemValue(w, item) = item /\ IsObj(item)
             /\ item \in Range(w.original)
  <2>1. Next(w) = w1
    BY <1>5 DEF Next, item
  <2>2. \A d \in DOMAIN w.drafts : SameDraft(w1.drafts[d], w.drafts[d])
    BY <1>2 DEF SameDraft
  <2> HIDE DEF w1
  <2> QED
    BY <1>2, <2>1, <2>2, TrackedOn
<1> QED
  BY <1>4, <1>5

\* A write reaches the copy of one draft, and tells whether it differs.
LEMMA WriteTracked ==
    ASSUME base \in Bases, NEW w, Sound(w), Tracked(w), NEW d \in DOMAIN w.drafts,
           NEW v, NEW H \in Seq(Value), NEW D \in Seq(ItemDraft), NEW b \in BOOLEAN,
           Wrote(w, H, D, d, v), w.operated => b, w.drafts[d].item => b
    PROVE  Tracked(Rewritten(w, H, D, b))
<1> DEFINE u == Rewritten(w, H, D, b)
<1>1. /\ u.original = w.original /\ u.copy = w.copy /\ u.setMap = w.setMap
      /\ u.assigned = w.assigned /\ u.heap = H /\ u.drafts = D /\ u.operated = b
  BY DEF Sound, World, Rewritten
<1> HIDE DEF u
<1>2. /\ Len(base.heap) \in Nat /\ DOMAIN base.heap = 1 .. Len(base.heap)
      /\ Len(base.heap) <= Len(w.heap) /\ Len(w.heap) \in Nat
      /\ DOMAIN w.heap = 1 .. Len(w.heap)
      /\ \A e \in DOMAIN w.drafts :
            /\ w.drafts[e].original \in DOMAIN base.heap
            /\ w.drafts[e].copy \in {Null} \cup (Len(base.heap) + 1 .. Len(w.heap))
            /\ w.drafts[e].operated => w.drafts[e].copy # Null
  BY BaseParts, WorldParts DEF Sound, BaseKept, DraftsApart, DraftsCopied
<1>3. /\ DOMAIN D = DOMAIN w.drafts
      /\ \A e \in DOMAIN D : e # d => D[e] = w.drafts[e]
      /\ D[d].original = w.drafts[d].original /\ D[d].item = w.drafts[d].item
      /\ D[d].copy = IF w.drafts[d].copy # Null THEN w.drafts[d].copy
                                                ELSE Len(w.heap) + 1
      /\ D[d].operated /\ D[d].assigned = (v # w.heap[w.drafts[d].original])
      /\ H[D[d].copy] = v
      /\ \A a \in DOMAIN w.heap : a # D[d].copy => H[a] = w.heap[a]
  BY DEF Wrote
<1>4. \A x : Recorded(u, x) <=> Recorded(w, x)
  BY <1>1 DEF Recorded
<1>5. OrderKept(u)
  BY <1>1, <1>4 DEF Tracked, OrderKept
<1>6. ItemDrafts(u)
  <2>1. \A e \in DOMAIN D : /\ D[e].item = w.drafts[e].item
                           /\ D[e].original = w.drafts[e].original
                           /\ D[e].operated => w.drafts[e].operated \/ e = d
    BY <1>3
  <2>2. \A m \in u.setMap : m.value # m.item =>
           m.value.id \in DOMAIN D /\ D[m.value.id].item
    BY <1>1, <1>3, <2>1 DEF Tracked, ItemDrafts
  <2>3. ASSUME NEW e \in DOMAIN D, D[e].item
        PROVE  LET item == Obj(D[e].original)
               IN  /\ item \in Range(u.original)
                   /\ ~Recorded(u, item) => [item |-> item, value |-> Draft(e)] \in u.setMap
                   /\ D[e].operated => u.operated
    <3>1. e \in DOMAIN w.drafts /\ w.drafts[e].item
      BY <1>3, <2>1, <2>3
    <3>2. /\ Obj(w.drafts[e].original) \in Range(w.original)
          /\ ~Recorded(w, Obj(w.drafts[e].original)) =>
                [item |-> Obj(w.drafts[e].original), value |-> Draft(e)] \in w.setMap
          /\ w.drafts[e].operated => w.operated
      BY <3>1 DEF Tracked, ItemDrafts
    <3>3. D[e].original = w.drafts[e].original
      <4>1. CASE e = d
        BY <1>3, <4>1
      <4>2. CASE e # d
        BY <1>3, <4>2
      <4> QED
        BY <4>1, <4>2
    <3>4. D[e].operated => b
      <4>1. CASE e = d
        BY <3>1, <4>1
      <4>2. CASE e # d
        <5>1. D[e] = w.drafts[e]
          BY <1>3, <4>2
        <5> QED
          BY <3>2, <5>1
      <4> QED
        BY <4>1, <4>2
    <3>5. u.operated = b
      BY <1>1
    <3>6. D[e].operated => u.operated
      BY <3>4, <3>5, Zenon
    <3>7. Obj(D[e].original) \in Range(u.original)
      BY <1>1, <3>2, <3>3, Zenon
    <3>8. ~Recorded(u, Obj(D[e].original)) =>
             [item |-> Obj(D[e].original), value |-> Draft(e)] \in u.setMap
      <4>1. u.setMap = w.setMap
        BY <1>1
      <4> QED
        BY <1>4, <3>2, <3>3, <4>1
    <3> QED
      BY <3>6, <3>7, <3>8
  <2>4. \A e \in DOMAIN D : ~D[e].item => D[e].original = base.side.id
    BY <1>3, <2>1 DEF Tracked, ItemDrafts
  <2>5. \A e, f \in DOMAIN D : ~D[e].item /\ ~D[f].item => e = f
    BY <1>3, <2>1 DEF Tracked, ItemDrafts
  <2> QED
    BY <1>1, <2>2, <2>3, <2>4, <2>5 DEF ItemDrafts
<1>7. ASSUME NEW e \in DOMAIN D, NEW f \in DOMAIN D, D[e].copy # Null,
             D[e].copy = D[f].copy
      PROVE  e = f
  <2>1. \A g \in DOMAIN D : g # d => D[g].copy # Len(w.heap) + 1
    <3> SUFFICES ASSUME NEW g \in DOMAIN D, g # d
                 PROVE  D[g].copy # Len(w.heap) + 1
      OBVIOUS
    <3>1. w.drafts[g].copy = 0 \/ w.drafts[g].copy \in Len(base.heap) + 1 .. Len(w.heap)
      BY <1>2, <1>3 DEF Null
    <3>2. D[g].copy = w.drafts[g].copy
      BY <1>3
    <3> QED
      BY <1>2, <3>1, <3>2
  <2>2. \A g, h \in DOMAIN w.drafts :
           w.drafts[g].copy # Null /\ w.drafts[g].copy = w.drafts[h].copy => g = h
    BY DEF Tracked, CopiesOwn
  <2> QED
    BY <1>3, <1>7, <2>1, <2>2
<1>8. ASSUME NEW e \in DOMAIN D, D[e].operated, ~D[e].assigned
      PROVE  H[D[e].copy] = H[D[e].original]
  <2>1. D[d].copy \notin DOMAIN base.heap
    BY <1>2, <1>3 DEF Null
  <2>2. D[e].original \in DOMAIN w.heap /\ D[e].original # D[d].copy
        /\ D[e].original = w.drafts[e].original
    BY SMTT(30), <1>2, <1>3, <2>1
  <2>3. H[D[e].original] = w.heap[w.drafts[e].original]
    BY <1>3, <2>2
  <2>4. CASE e = d
    BY <1>3, <1>8, <2>3, <2>4
  <2>5. CASE e # d
    <3>1. D[e] = w.drafts[e] /\ D[e].copy # Null /\ D[e].copy \in DOMAIN w.heap
      BY <1>2, <1>3, <1>8, <2>5
    <3>2. D[e].copy # D[d].copy
      BY <1>7, <2>5, <3>1, <1>3
    <3>3. H[D[e].copy] = w.heap[w.drafts[e].copy]
      BY <1>3, <3>1, <3>2
    <3> QED
      BY <1>3, <1>8, <2>3, <3>1, <3>3 DEF Tracked, CopiesOwn
  <2> QED
    BY <2>4, <2>5
<1>9. CopiesOwn(u)
  BY <1>1, <1>7, <1>8 DEF CopiesOwn
<1> QED
  BY <1>5, <1>6, <1>9 DEF Tracked, u

LEMMA ElementTracked ==
    ASSUME base \in Bases, NEW w, Sound(w), Tracked(w), NEW d \in DOMAIN w.drafts,
           NEW v \in Value, ~IsDraft(v)
    PROVE  LET u == SetElement(w, d, v)
           IN  Tracked(IF w.drafts[d].item THEN u
                       ELSE [u EXCEPT !.operated = w.operated])
<1> DEFINE u == SetElement(w, d, v)
<1>0. w \in World /\ w.operated \in BOOLEAN
  BY DEF Sound, World
<1>1. CASE u = w
  <2>1. [w EXCEPT !.operated = w.operated] = w
    BY <1>0 DEF World
  <2> QED
    BY <1>1, <2>1
<1>2. CASE u # w
  <2> HIDE DEF u
  <2>1. PICK H \in Seq(Value), D \in Seq(ItemDraft) :
           Wrote(w, H, D, d, v) /\ u = Rewritten(w, H, D, TRUE)
    BY <1>2, SetElementFields DEF u
  <2>2. [u EXCEPT !.operated = w.operated] = Rewritten(w, H, D, w.operated)
    BY <1>0, <2>1 DEF Rewritten, World
  <2>3. Tracked(Rewritten(w, H, D, TRUE))
    BY <2>1, WriteTracked
  <2>4. ~w.drafts[d].item => Tracked(Rewritten(w, H, D, w.operated))
    BY <1>0, <2>1, WriteTracked
  <2> QED
    BY <2>1, <2>2, <2>3, <2>4 DEF u
<1> QED
  BY <1>1, <1>2

\* Nothing is recorded, and the copy is the original.
LEMMA InitTracked == Init => Tracked(world)
<1> SUFFICES ASSUME Init PROVE Tracked(world)
  OBVIOUS
<1>1. base \in Bases
  BY DEF Init
<1> DEFINE none == <<>>
<1>2. /\ world.original = base.set /\ world.copy = base.set
      /\ world.drafts = none /\ world.setMap = {}
  BY DEF Init
<1>3. DOMAIN none = {}
  OBVIOUS
<1> HIDE DEF none
<1>4. OrderKept(world)
  <2>1. \A i \in DOMAIN base.set : i \in Int
    BY <1>1, BaseParts, LenProperties
  <2> QED
    BY <1>1, <1>2, <2>1, BaseParts DEF OrderKept
<1>5. ItemDrafts(world) /\ CopiesOwn(world)
  BY <1>2, <1>3 DEF ItemDrafts, CopiesOwn
<1> QED
  BY <1>4, <1>5 DEF Tracked

TInv == IInv /\ (phase = "recipe" => Tracked(world))

LEMMA TrackedNext ==
    ASSUME base' = base, Tracked(world')
    PROVE  Tracked(world)'
  BY DEF Tracked, OrderKept, ItemDrafts, CopiesOwn, Recorded

\* One step per action.
LEMMA TrackedStep == TInv /\ [Step]_vars => TInv'
<1> SUFFICES ASSUME TInv, [Step]_vars
             PROVE  (phase = "recipe" => Tracked(world))'
  BY NextOK DEF TInv
<1>0. base \in Bases
  BY DEF TInv, IInv
<1>1. CASE UNCHANGED vars
  <2>1. base' = base /\ world' = world /\ phase' = phase
    BY <1>1 DEF vars
  <2>2. Tracked(world) => Tracked(world)'
    BY <2>1, TrackedNext
  <2> QED
    BY <2>1, <2>2 DEF TInv
<1>2. CASE Finish
  BY <1>2 DEF Finish
<1>3. CASE Recipe
  <2> SUFFICES ASSUME phase = "recipe", Sound(world), Tracked(world)
               PROVE  Tracked(world')
    <3>1. phase = "recipe" /\ base' = base /\ phase' = phase
      BY <1>3 DEF Recipe, Iterate, NextItem, ClearCall, ReadSide, AddCall,
                  DeleteCall, NewObject, WriteElement, Read, Change
    <3>2. Sound(world) /\ Tracked(world)
      BY <3>1 DEF TInv, IInv
    <3> QED
      BY <3>1, <3>2, TrackedNext
  <2>0. world \in World
    BY DEF Sound
  <2>1. CASE Iterate
    <3> DEFINE u == Values(world)
    <3>1. /\ u.original = world.original /\ u.copy = world.copy
          /\ u.setMap = world.setMap /\ u.assigned = world.assigned
          /\ u.heap = world.heap /\ u.drafts = world.drafts
          /\ u.operated = world.operated
      BY <2>0 DEF Values, EnsureShallowCopy, World
    <3>2. world' = u
      BY <2>1 DEF Iterate, Read
    <3> HIDE DEF u
    <3>3. \A d \in DOMAIN world.drafts : SameDraft(u.drafts[d], world.drafts[d])
      BY <3>1 DEF SameDraft
    <3>4. Tracked(u)
      BY <1>0, <3>1, <3>3, TrackedOn
    <3> QED
      BY <3>2, <3>4
  <2>2. CASE NextItem
    BY <1>0, <2>2, NextTracked DEF NextItem, Read
  <2>3. CASE ClearCall
    BY <1>0, <2>3, ClearTracked DEF ClearCall, Change
  <2>4. CASE ReadSide
    <3> DEFINE u == CreateDraft(world, base.side.id, FALSE)
    <3>1. world' = u /\ SideDrafts(world) = {}
      BY <2>4 DEF ReadSide, Read
    <3>2. base.side.id \in DOMAIN base.heap
      BY <1>0, BaseParts
    <3>3. /\ u.original = world.original /\ u.copy = world.copy
          /\ u.setMap = world.setMap /\ u.assigned = world.assigned
          /\ u.heap = world.heap /\ u.operated = world.operated
      BY <2>0 DEF CreateDraft, World
    <3>4. \A d \in DOMAIN world.drafts : world.drafts[d].item
      BY <3>1 DEF SideDrafts
    <3>5. PICK x : x = u
      OBVIOUS
    <3>6. x.drafts = CreateDraft(world, base.side.id, FALSE).drafts
      BY <3>5
    <3> HIDE DEF u
    <3>7. Tracked(x)
      BY <1>0, <3>2, <3>3, <3>4, <3>5, <3>6, DraftTracked
    <3> QED
      BY <3>1, <3>5, <3>7
  <2>5. ASSUME NEW v \in RecipeValues, AddCall(v) \/ DeleteCall(v) \/ NewObject(v)
        PROVE  Tracked(world')
    <3>1. /\ v \in Value /\ (IsDraft(v) => v.id \in DOMAIN world.drafts)
          /\ IsObj(v) => v.id \in DOMAIN world.heap
      BY <1>0, RecipeValuesOK
    <3>2. CASE AddCall(v)
      BY <1>0, <3>1, <3>2, AddTracked DEF AddCall, Change
    <3>3. CASE DeleteCall(v)
      BY <1>0, <3>1, <3>3, DeleteTracked DEF DeleteCall, Change
    <3>4. CASE NewObject(v)
      <4> DEFINE u == [world EXCEPT !.heap = Append(@, v)]
      <4>1. /\ u.original = world.original /\ u.copy = world.copy
            /\ u.setMap = world.setMap /\ u.assigned = world.assigned
            /\ u.heap = Append(world.heap, v) /\ u.drafts = world.drafts
            /\ u.operated = world.operated
        BY <2>0 DEF World
      <4>2. world' = u
        BY <3>4 DEF NewObject, Read
      <4> HIDE DEF u
      <4>3. \A a \in DOMAIN world.heap : u.heap[a] = world.heap[a]
        <5>1. world.heap \in Seq(Value)
          BY <2>0 DEF World
        <5> QED
          BY <3>1, <4>1, <5>1, Appended
      <4>4. \A d \in DOMAIN world.drafts : SameDraft(u.drafts[d], world.drafts[d])
        BY <4>1 DEF SameDraft
      <4>5. Tracked(u)
        BY <1>0, <4>1, <4>3, <4>4, TrackedOn
      <4> QED
        BY <4>2, <4>5
    <3> QED
      BY <2>5, <3>2, <3>3, <3>4
  <2>6. ASSUME NEW d \in DOMAIN world.drafts, NEW n \in Prims,
               WriteElement(d, Prim(n))
        PROVE  Tracked(world')
    <3> DEFINE u == SetElement(world, d, Prim(n))
    <3>1. Prim(n) \in Value /\ ~IsDraft(Prim(n))
      BY SetBoundsAssumption DEF Prim, Value, IsDraft
    <3>2. Tracked(IF world.drafts[d].item THEN u
                  ELSE [u EXCEPT !.operated = world.operated])
      BY <1>0, <3>1, ElementTracked
    <3>3. world' = IF world.drafts[d].item THEN u
                   ELSE [u EXCEPT !.operated = world.operated]
      BY <2>6 DEF WriteElement, Change, Node
    <3> QED
      BY <3>2, <3>3
  <2> QED
    BY <1>3, <2>1, <2>2, <2>3, <2>4, <2>5, <2>6 DEF Recipe
<1> QED
  BY <1>1, <1>2, <1>3 DEF Step

LEMMA TrackedInvariant == Spec => []TInv
<1>1. Init => TInv
  BY InitOK, InitTracked DEF TInv
<1> QED
  BY <1>1, TrackedStep, PTL DEF Spec

-----------------------------------------------------------------------------
(***************************************************************************)
(* apply(): the items of a state have values and trees.                    *)
(***************************************************************************)
\* The states after each number of patches.
Applying(w, s, ps, f) ==
    f = [n \in 0 .. Len(ps) |->
            IF n = 0 THEN s ELSE ApplyPatch(w, f[n - 1], ps[n])]

\* There are such states: those up to some patch give those up to the next.
LEMMA ApplyingRuns ==
    ASSUME NEW w, NEW s, NEW ps, Len(ps) \in Nat
    PROVE  \E f : Applying(w, s, ps, f)
<1> DEFINE turn(t, n) == ApplyPatch(w, t, ps[n])
           E(f, m) == f = [n \in 0 .. m |-> IF n = 0 THEN s ELSE turn(f[n - 1], n)]
           T       == {m \in Nat : \E f : E(f, m)}
<1> HIDE DEF turn
<1>1. 0 \in T
  <2> DEFINE f == [n \in 0 .. 0 |-> s]
  <2>1. \A n \in 0 .. 0 : n = 0
    OBVIOUS
  <2>2. E(f, 0)
    BY <2>1
  <2> QED
    BY <2>2
<1>2. ASSUME NEW m \in Nat, m \in T PROVE m + 1 \in T
  <2>1. PICK f : E(f, m)
    BY <1>2
  <2> DEFINE next == turn(f[m], m + 1)
             g == [n \in 0 .. m + 1 |-> IF n = m + 1 THEN next ELSE f[n]]
             h == [n \in 0 .. m + 1 |-> IF n = 0 THEN s ELSE turn(g[n - 1], n)]
  <2>2. ASSUME NEW n \in 0 .. m + 1
        PROVE  g[n] = IF n = 0 THEN s ELSE turn(g[n - 1], n)
    <3>1. CASE n = m + 1
      <4>1. g[n] = next /\ n # 0 /\ n - 1 = m /\ m \in 0 .. m + 1 /\ m # m + 1
        BY <3>1
      <4>2. g[n - 1] = f[m]
        BY <4>1
      <4> QED
        BY <3>1, <4>1, <4>2
    <3>2. CASE n # m + 1
      <4>1. n \in 0 .. m /\ g[n] = f[n]
        BY <3>2
      <4>2. f[n] = IF n = 0 THEN s ELSE turn(f[n - 1], n)
        BY <2>1, <4>1
      <4>3. ASSUME n # 0 PROVE g[n - 1] = f[n - 1]
        BY <3>2, <4>3
      <4> QED
        BY <4>1, <4>2, <4>3
    <3> QED
      BY <3>1, <3>2
  <2>3. g = h
    <3> HIDE DEF next
    <3>1. \A n \in 0 .. m + 1 : g[n] = h[n]
      BY <2>2
    <3> QED
      BY <3>1
  <2>4. E(g, m + 1)
    BY <2>3
  <2> HIDE DEF g, h, E
  <2> QED
    BY <2>4
<1> HIDE DEF T
<1>3. Len(ps) \in T
  BY <1>1, <1>2, SetInduction
<1> QED
  BY <1>3 DEF T, Applying, turn

\* apply() goes through the patches one by one.
LEMMA ApplySteps ==
    ASSUME NEW w, NEW s, NEW ps, Len(ps) \in Nat
    PROVE  \E f : /\ f[0] = s /\ ApplyAll(w, s, ps) = f[Len(ps)]
                  /\ \A n \in Nat : n + 1 <= Len(ps) =>
                        f[n + 1] = ApplyPatch(w, f[n], ps[n + 1])
<1> DEFINE f == CHOOSE g : Applying(w, s, ps, g)
<1>1. Applying(w, s, ps, f)
  BY ApplyingRuns
<1>2. ApplyAll(w, s, ps) = f[Len(ps)]
  BY DEF ApplyAll, Applying
<1> HIDE DEF f
<1>3. f[0] = s
  BY <1>1 DEF Applying
<1>4. ASSUME NEW n \in Nat, n + 1 <= Len(ps)
      PROVE  f[n + 1] = ApplyPatch(w, f[n], ps[n + 1])
  <2>1. PICK i \in 0 .. Len(ps) : i = n + 1 /\ i # 0 /\ i - 1 = n
    BY <1>4
  <2>2. f[i] = ApplyPatch(w, f[i - 1], ps[i])
    BY <1>1, <2>1 DEF Applying
  <2> QED
    BY <2>1, <2>2
<1> QED
  BY <1>2, <1>3, <1>4

\* Patches that come after others are applied after them.
LEMMA ApplyCat ==
    ASSUME NEW S, NEW w, NEW s, NEW ps \in Seq(S), NEW qs \in Seq(S)
    PROVE  ApplyAll(w, s, ps \o qs) = ApplyAll(w, ApplyAll(w, s, ps), qs)
<1> DEFINE m == Len(ps)
           t == ApplyAll(w, s, ps)
<1>0. PICK r : r = ps \o qs
  OBVIOUS
<1>1. /\ m \in Nat /\ Len(qs) \in Nat /\ Len(r) = m + Len(qs)
      /\ \A i \in 1 .. m + Len(qs) : r[i] = IF i <= m THEN ps[i] ELSE qs[i - m]
  BY <1>0, ConcatProperties, LenProperties
<1>2. PICK f : /\ f[0] = s /\ t = f[m]
               /\ \A n \in Nat : n + 1 <= m => f[n + 1] = ApplyPatch(w, f[n], ps[n + 1])
  BY <1>1, ApplySteps
<1>3. PICK g : /\ g[0] = t /\ ApplyAll(w, t, qs) = g[Len(qs)]
               /\ \A n \in Nat : n + 1 <= Len(qs) =>
                     g[n + 1] = ApplyPatch(w, g[n], qs[n + 1])
  BY <1>1, ApplySteps
<1> HIDE DEF m, t
<1>4. PICK h : /\ h[0] = s /\ ApplyAll(w, s, r) = h[m + Len(qs)]
               /\ \A n \in Nat : n + 1 <= m + Len(qs) =>
                     h[n + 1] = ApplyPatch(w, h[n], r[n + 1])
  <2>1. Len(r) \in Nat
    BY <1>1
  <2>2. PICK h : /\ h[0] = s /\ ApplyAll(w, s, r) = h[Len(r)]
                 /\ \A n \in Nat : n + 1 <= Len(r) =>
                       h[n + 1] = ApplyPatch(w, h[n], r[n + 1])
    BY <2>1, ApplySteps
  <2> QED
    BY <1>1, <2>2
<1> DEFINE T == {n \in Nat : n <= m => h[n] = f[n]}
           U == {n \in Nat : n <= Len(qs) => h[m + n] = g[n]}
<1>5. m \in T
  <2>1. 0 \in T
    BY <1>2, <1>4
  <2>2. ASSUME NEW n \in Nat, n \in T PROVE n + 1 \in T
    <3> SUFFICES ASSUME n + 1 <= m PROVE h[n + 1] = f[n + 1]
      OBVIOUS
    <3>1. n <= m /\ n + 1 \in 1 .. m + Len(qs) /\ n + 1 <= m + Len(qs)
      BY <1>1
    <3>2. r[n + 1] = ps[n + 1]
      BY <1>1, <3>1
    <3> QED
      BY <1>2, <1>4, <2>2, <3>1, <3>2
  <2> HIDE DEF T
  <2> QED
    BY <1>1, <2>1, <2>2, SetInduction
<1>6. h[m] = t
  BY <1>1, <1>2, <1>5
<1>7. Len(qs) \in U
  <2>1. 0 \in U
    BY <1>1, <1>3, <1>6
  <2>2. ASSUME NEW n \in Nat, n \in U PROVE n + 1 \in U
    <3> SUFFICES ASSUME n + 1 <= Len(qs) PROVE h[m + (n + 1)] = g[n + 1]
      OBVIOUS
    <3>1. PICK k \in Nat : k = m + n /\ k + 1 = m + (n + 1) /\ k + 1 \in 1 .. m + Len(qs)
                           /\ k + 1 <= m + Len(qs) /\ ~(k + 1 <= m)
                           /\ k + 1 - m = n + 1 /\ n <= Len(qs)
      BY <1>1
    <3>2. r[k + 1] = qs[n + 1]
      <4>1. r[k + 1] = IF k + 1 <= m THEN ps[k + 1] ELSE qs[k + 1 - m]
        BY <1>1, <3>1
      <4> QED
        BY <3>1, <4>1
    <3>3. h[k] = g[n]
      BY <2>2, <3>1
    <3>4. h[k + 1] = ApplyPatch(w, g[n], qs[n + 1])
      BY <1>4, <3>1, <3>2, <3>3
    <3> QED
      BY <1>3, <3>1, <3>4
  <2> HIDE DEF U
  <2> QED
    BY <1>1, <2>1, <2>2, SetInduction
<1> QED
  BY <1>0, <1>1, <1>3, <1>4, <1>7 DEF t

\* A state whose items have the values V and the trees T.
Shown(V, T, x) ==
    [items |-> [i \in DOMAIN V |-> [value |-> V[i], tree |-> T[i]]], side |-> x]
Trees(w, s) == [i \in DOMAIN s |-> Tree(w, s[i])]

\* The tree that a patch of x gives.
Given(w, p) == <<Obj(0)>> \o Leaf(w, p.value)

LEMMA StateShown ==
    ASSUME NEW w, NEW s, NEW side
    PROVE  StateOf(w, s, side) = Shown(s, Trees(w, s), Tree(w, side))
  BY DEF StateOf, Shown, Trees

\* Patches of x leave the values, and lead to the trees T2 and x2 if there is one
\* wherever these differ from the trees before.
LEMMA FieldsApplied ==
    ASSUME NEW w, NEW V \in Seq(Value), NEW T1, NEW T2, NEW x1, NEW x2,
           NEW ps, Len(ps) \in Nat,
           \A n \in 1 .. Len(ps) :
              /\ ps[n].op = "field"
              /\ ps[n].at = 0 => Given(w, ps[n]) = x2
              /\ ps[n].at # 0 => ps[n].at \in DOMAIN V /\ Given(w, ps[n]) = T2[ps[n].at],
           \A i \in DOMAIN V : T1[i] = T2[i] \/ \E n \in 1 .. Len(ps) : ps[n].at = i,
           x1 = x2 \/ \E n \in 1 .. Len(ps) : ps[n].at = 0
    PROVE  ApplyAll(w, Shown(V, T1, x1), ps) = Shown(V, T2, x2)
<1> DEFINE s == Shown(V, T1, x1)
<1> HIDE DEF s
<1>1. PICK f : /\ f[0] = s /\ ApplyAll(w, s, ps) = f[Len(ps)]
               /\ \A n \in Nat : n + 1 <= Len(ps) =>
                     f[n + 1] = ApplyPatch(w, f[n], ps[n + 1])
  BY ApplySteps
<1> DEFINE Good(n) ==
              \E T, x : /\ f[n] = Shown(V, T, x)
                        /\ \A i \in DOMAIN V :
                              \/ T[i] = T2[i]
                              \/ /\ T[i] = T1[i]
                                 /\ \A k \in 1 .. n : ps[k].at # i
                        /\ \/ x = x2
                           \/ x = x1 /\ \A k \in 1 .. n : ps[k].at # 0
           G == {n \in Nat : n <= Len(ps) => Good(n)}
<1>0. DOMAIN V = 1 .. Len(V) /\ Len(V) \in Nat
  BY LenProperties
<1>2. 0 \in G
  <2>1. \A k \in 1 .. 0 : FALSE
    OBVIOUS
  <2> QED
    BY <1>1, <2>1 DEF s
<1>3. ASSUME NEW n \in Nat, n \in G PROVE n + 1 \in G
  <2> SUFFICES ASSUME n + 1 <= Len(ps) PROVE Good(n + 1)
    OBVIOUS
  <2>1. PICK T, x : /\ f[n] = Shown(V, T, x)
                    /\ \A i \in DOMAIN V :
                          \/ T[i] = T2[i]
                          \/ /\ T[i] = T1[i]
                             /\ \A k \in 1 .. n : ps[k].at # i
                    /\ \/ x = x2
                       \/ x = x1 /\ \A k \in 1 .. n : ps[k].at # 0
    BY <1>3
  <2>2. n + 1 \in 1 .. Len(ps) /\ \A k \in 1 .. n + 1 : k = n + 1 \/ k \in 1 .. n
    OBVIOUS
  <2> DEFINE p == ps[n + 1]
             y == IF p.at = 0 THEN x2 ELSE x
             S == [i \in DOMAIN V |-> IF i = p.at THEN T2[i] ELSE T[i]]
  <2>3. /\ p.op = "field"
        /\ p.at = 0 => Given(w, p) = x2
        /\ p.at # 0 => p.at \in DOMAIN V /\ Given(w, p) = T2[p.at]
    BY <2>2
  <2>4. f[n + 1] = ApplyPatch(w, Shown(V, T, x), p)
    BY <1>1, <2>1
  <2> HIDE DEF p
  <2>5. ApplyPatch(w, Shown(V, T, x), p) = Shown(V, S, y)
    <3> DEFINE st == Shown(V, T, x)
    <3>0. /\ DOMAIN st.items = DOMAIN V /\ st.side = x
          /\ st = [items |-> st.items, side |-> x]
          /\ \A i \in DOMAIN V : st.items[i] = [value |-> V[i], tree |-> T[i]]
      BY DEF Shown
    <3>1. CASE p.at = 0
      <4>1. ApplyPatch(w, st, p) = [st EXCEPT !.side = Given(w, p)]
        BY <2>3, <3>1 DEF ApplyPatch, Given
      <4>2. [st EXCEPT !.side = Given(w, p)] = [items |-> st.items, side |-> x2]
        BY <2>3, <3>0, <3>1
      <4>3. \A i \in DOMAIN V : i # p.at
        BY <1>0, <3>1
      <4>4. st.items = [i \in DOMAIN V |-> [value |-> V[i], tree |-> S[i]]]
        BY <4>3 DEF Shown
      <4> HIDE DEF st, S
      <4> QED
        BY <3>1, <4>1, <4>2, <4>4 DEF st, Shown
    <3>2. CASE p.at # 0
      <4> DEFINE g == Given(w, p)
                 I == st.items
      <4>1. ApplyPatch(w, st, p) = [st EXCEPT !.items[p.at].tree = g]
        BY <2>3, <3>2 DEF ApplyPatch, Given
      <4>2. g = T2[p.at] /\ p.at \in DOMAIN V
        BY <2>3, <3>2
      <4>3. I = [i \in DOMAIN V |-> [value |-> V[i], tree |-> T[i]]]
        BY DEF Shown
      <4>4. st = [items |-> I, side |-> x]
        BY <3>0
      <4> HIDE DEF g, st, I
      <4> DEFINE e == [I[p.at] EXCEPT !.tree = g]
                 J == [I EXCEPT ![p.at] = e]
      <4>5. e = [value |-> V[p.at], tree |-> g]
        BY <4>2, <4>3
      <4>6. J = [i \in DOMAIN V |-> [value |-> V[i], tree |-> S[i]]]
        <5> HIDE DEF e
        <5> QED
          BY <4>2, <4>3, <4>5
      <4>7. [st EXCEPT !.items[p.at].tree = g] = [items |-> J, side |-> x]
        BY <4>4
      <4> HIDE DEF S, J
      <4> QED
        BY <3>2, <4>1, <4>6, <4>7 DEF st, Shown
    <3> QED
      BY <3>1, <3>2
  <2>6. \A i \in DOMAIN V :
           \/ S[i] = T2[i]
           \/ /\ S[i] = T1[i]
              /\ \A k \in 1 .. n + 1 : ps[k].at # i
    BY <2>1, <2>2 DEF p
  <2>7. y = x2 \/ (y = x1 /\ \A k \in 1 .. n + 1 : ps[k].at # 0)
    BY <2>1, <2>2 DEF p
  <2> HIDE DEF S, y
  <2> QED
    BY <2>4, <2>5, <2>6, <2>7
<1> HIDE DEF G
<1>4. Len(ps) \in G
  BY <1>2, <1>3, SetInduction
<1>5. PICK T, x : /\ f[Len(ps)] = Shown(V, T, x)
                  /\ \A i \in DOMAIN V :
                        \/ T[i] = T2[i]
                        \/ /\ T[i] = T1[i]
                           /\ \A k \in 1 .. Len(ps) : ps[k].at # i
                  /\ \/ x = x2
                     \/ x = x1 /\ \A k \in 1 .. Len(ps) : ps[k].at # 0
  BY <1>4 DEF G
<1>6. x = x2 /\ \A i \in DOMAIN V : T[i] = T2[i]
  BY <1>5
<1>7. [i \in DOMAIN V |-> [value |-> V[i], tree |-> T[i]]]
      = [i \in DOMAIN V |-> [value |-> V[i], tree |-> T2[i]]]
  BY <1>6
<1>8. Shown(V, T, x) = Shown(V, T2, x2)
  BY <1>6, <1>7 DEF Shown
<1> QED
  BY <1>1, <1>5, <1>8 DEF s

\* Deleting an item that is there once.
LEMMA WithoutShown ==
    ASSUME NEW w, NEW V \in Seq(Value), \A i, j \in DOMAIN V : V[i] = V[j] => i = j,
           NEW n \in DOMAIN V, NEW x
    PROVE  LET U == RemoveAt(V, n)
           IN  Without(Shown(V, Trees(w, V), x).items, V[n])
                  = Shown(U, Trees(w, U), x).items
<1> DEFINE item(v) == [value |-> v, tree |-> Tree(w, v)]
           I == [i \in DOMAIN V |-> item(V[i])]
           S == {item(v) : v \in Value}
           U == RemoveAt(V, n)
           at == {i \in DOMAIN I : I[i].value = V[n]}
<1>1. /\ DOMAIN V = 1 .. Len(V) /\ Len(V) \in Nat
      /\ \A i \in DOMAIN V : V[i] \in Value
  BY LenProperties
<1>2. /\ U \in Seq(Value) /\ Len(U) = Len(V) - 1
      /\ \A i \in 1 .. Len(V) - 1 : U[i] = IF i < n THEN V[i] ELSE V[i + 1]
  BY Removed
<1>3. at = {n}
  OBVIOUS
<1>4. Shown(V, Trees(w, V), x).items = I /\ DOMAIN I = DOMAIN V
  BY DEF Shown, Trees
<1>5. Without(I, V[n]) = RemoveAt(I, n)
  <2>1. at # {} /\ (CHOOSE i \in at : TRUE) = n
    BY <1>3
  <2> QED
    BY <2>1 DEF Without
<1> HIDE DEF item, at, U
<1>6. I \in Seq(S) /\ Len(I) = Len(V)
  <2>1. \A i \in 1 .. Len(V) : I[i] \in S
    BY <1>1
  <2>2. I \in [1 .. Len(V) -> S]
    BY <1>1, <2>1
  <2> QED
    BY <1>1, <2>2, LenProperties
<1>7. \A i, j \in DOMAIN I : I[i] = I[j] => i = j
  <2> TAKE i, j \in DOMAIN I
  <2>1. item(V[i]).value = V[i] /\ item(V[j]).value = V[j]
    BY DEF item
  <2>2. I[i] = item(V[i]) /\ I[j] = item(V[j])
    OBVIOUS
  <2> QED
    BY <1>4, <2>1, <2>2
<1>8. /\ RemoveAt(I, n) \in Seq(S) /\ Len(RemoveAt(I, n)) = Len(V) - 1
      /\ \A i \in 1 .. Len(V) - 1 : RemoveAt(I, n)[i] = IF i < n THEN I[i] ELSE I[i + 1]
  <2>1. n \in DOMAIN I
    BY <1>4
  <2> HIDE DEF I, S
  <2> QED
    BY <1>6, <1>7, <2>1, Removed
<1>9. Shown(U, Trees(w, U), x).items = [i \in 1 .. Len(V) - 1 |-> item(U[i])]
  <2>1. DOMAIN U = 1 .. Len(V) - 1
    BY <1>2, LenProperties
  <2> QED
    BY <2>1 DEF Shown, Trees, item
<1>10. RemoveAt(I, n) = [i \in 1 .. Len(V) - 1 |-> item(U[i])]
  <2>1. DOMAIN RemoveAt(I, n) = 1 .. Len(V) - 1
    BY <1>8, LenProperties
  <2>2. RemoveAt(I, n) = [i \in 1 .. Len(V) - 1 |-> RemoveAt(I, n)[i]]
    BY <1>8, <2>1, LenProperties
  <2>3. ASSUME NEW i \in 1 .. Len(V) - 1 PROVE RemoveAt(I, n)[i] = item(U[i])
    <3>1. i \in DOMAIN V /\ i + 1 \in DOMAIN V
      BY <1>1
    <3>2. I[i] = item(V[i]) /\ I[i + 1] = item(V[i + 1])
      BY <3>1
    <3> QED
      BY <1>2, <1>8, <3>2
  <2> QED
    BY <2>2, <2>3
<1> QED
  BY <1>4, <1>5, <1>9, <1>10 DEF U

\* Patches with one operation, one for each value of a set.
EachOnce(ps) == \A m, n \in 1 .. Len(ps) : ps[m].value = ps[n].value => m = n
PatchesOf(ps, op, S) ==
    /\ \A n \in 1 .. Len(ps) : ps[n].op = op
    /\ S = {ps[n].value : n \in 1 .. Len(ps)}
    /\ EachOnce(ps)

\* Patches that remove items leave the others.
LEMMA RemovesApplied ==
    ASSUME NEW w, NEW V \in Seq(Value), IsInjective(V),
           NEW x, NEW ps, Len(ps) \in Nat,
           NEW S \in SUBSET Range(V), PatchesOf(ps, "remove", S)
    PROVE  \E U \in Seq(Value) :
              /\ IsInjective(U)
              /\ Range(U) = Range(V) \ S
              /\ ApplyAll(w, Shown(V, Trees(w, V), x), ps) = Shown(U, Trees(w, U), x)
<1> DEFINE s == Shown(V, Trees(w, V), x)
<1> HIDE DEF s
<1>0. /\ \A n \in 1 .. Len(ps) : ps[n].op = "remove" /\ ps[n].value \in Range(V)
      /\ S = {ps[n].value : n \in 1 .. Len(ps)} /\ EachOnce(ps)
  BY DEF PatchesOf
<1>1. PICK f : /\ f[0] = s /\ ApplyAll(w, s, ps) = f[Len(ps)]
               /\ \A n \in Nat : n + 1 <= Len(ps) =>
                     f[n + 1] = ApplyPatch(w, f[n], ps[n + 1])
  BY ApplySteps
<1> DEFINE Good(n) ==
              \E U \in Seq(Value) :
                 /\ IsInjective(U)
                 /\ Range(U) = Range(V) \ {ps[m].value : m \in 1 .. n}
                 /\ f[n] = Shown(U, Trees(w, U), x)
           G == {n \in Nat : n <= Len(ps) => Good(n)}
<1>2. 0 \in G
  <2>1. {ps[m].value : m \in 1 .. 0} = {}
    OBVIOUS
  <2> QED
    BY <1>1, <2>1 DEF s
<1>3. ASSUME NEW n \in Nat, n \in G PROVE n + 1 \in G
  <2> SUFFICES ASSUME n + 1 <= Len(ps) PROVE Good(n + 1)
    OBVIOUS
  <2>1. PICK U \in Seq(Value) :
           /\ IsInjective(U)
           /\ Range(U) = Range(V) \ {ps[m].value : m \in 1 .. n}
           /\ f[n] = Shown(U, Trees(w, U), x)
    BY <1>3 DEF G
  <2>2. /\ n + 1 \in 1 .. Len(ps) /\ 1 .. n + 1 = (1 .. n) \cup {n + 1}
        /\ \A m \in 1 .. n : m \in 1 .. Len(ps) /\ m # n + 1
    OBVIOUS
  <2> DEFINE v == ps[n + 1].value
  <2>3. v \in Range(U)
    BY <1>0, <2>1, <2>2 DEF EachOnce
  <2>4. PICK k \in DOMAIN U : U[k] = v
    BY <2>3 DEF Range
  <2> DEFINE X == RemoveAt(U, k)
             st == Shown(U, Trees(w, U), x)
  <2>5. /\ X \in Seq(Value) /\ Range(X) = Range(U) \ {v}
        /\ IsInjective(X)
    BY <2>1, <2>4, Removed DEF IsInjective
  <2>6. ApplyPatch(w, st, ps[n + 1]) = [st EXCEPT !.items = Without(st.items, v)]
    BY <1>0, <2>2 DEF ApplyPatch
  <2>7. Without(st.items, v) = Shown(X, Trees(w, X), x).items
    <3> HIDE DEF v
    <3> QED
      BY <2>1, <2>4, WithoutShown DEF IsInjective
  <2>8. f[n + 1] = [st EXCEPT !.items = Shown(X, Trees(w, X), x).items]
    BY <1>1, <2>1, <2>6, <2>7
  <2>9. f[n + 1] = Shown(X, Trees(w, X), x)
    BY <2>8 DEF Shown
  <2>10. Range(X) = Range(V) \ {ps[m].value : m \in 1 .. n + 1}
    BY <2>1, <2>2, <2>5
  <2> HIDE DEF X
  <2> QED
    BY <2>5, <2>9, <2>10
<1> HIDE DEF G
<1>4. Len(ps) \in G
  BY <1>2, <1>3, SetInduction
<1>5. Good(Len(ps))
  BY <1>4 DEF G
<1> QED
  BY <1>0, <1>1, <1>5 DEF s

\* A state with the trees of the items U, whatever their values.
Showing(w, s, U, x) ==
    \E W \in Seq(Value) : Len(W) = Len(U) /\ s = Shown(W, Trees(w, U), x)

\* Patches that add items show them after the others.
LEMMA AddsApplied ==
    ASSUME NEW w, NEW V \in Seq(Value), IsInjective(V),
           NEW x, NEW ps, Len(ps) \in Nat,
           NEW S \in SUBSET Value, S \cap Range(V) = {}, PatchesOf(ps, "add", S)
    PROVE  \E U \in Seq(Value) :
              /\ IsInjective(U) /\ Range(U) = Range(V) \cup S
              /\ Showing(w, ApplyAll(w, Shown(V, Trees(w, V), x), ps), U, x)
<1> DEFINE s == Shown(V, Trees(w, V), x)
<1> HIDE DEF s
<1>0. /\ \A n \in 1 .. Len(ps) : ps[n].op = "add" /\ ps[n].value \in Value
                                  /\ ps[n].value \notin Range(V)
      /\ S = {ps[n].value : n \in 1 .. Len(ps)} /\ EachOnce(ps)
  BY DEF PatchesOf
<1>1. PICK f : /\ f[0] = s /\ ApplyAll(w, s, ps) = f[Len(ps)]
               /\ \A n \in Nat : n + 1 <= Len(ps) =>
                     f[n + 1] = ApplyPatch(w, f[n], ps[n + 1])
  BY ApplySteps
<1> DEFINE Good(n) ==
              \E W, U \in Seq(Value) :
                 /\ IsInjective(U)
                 /\ Len(W) = Len(U)
                 /\ Range(U) = Range(V) \cup {ps[m].value : m \in 1 .. n}
                 /\ f[n] = Shown(W, Trees(w, U), x)
           G == {n \in Nat : n <= Len(ps) => Good(n)}
<1> HIDE DEF Good
<1>2. 0 \in G
  <2>1. {ps[m].value : m \in 1 .. 0} = {}
    OBVIOUS
  <2> QED
    BY <1>1, <2>1 DEF s, Good
<1>3. ASSUME NEW n \in Nat, n \in G PROVE n + 1 \in G
  <2> SUFFICES ASSUME n + 1 <= Len(ps) PROVE Good(n + 1)
    BY DEF G
  <2>1. PICK W \in Seq(Value), U \in Seq(Value) :
           /\ IsInjective(U)
           /\ Len(W) = Len(U)
           /\ Range(U) = Range(V) \cup {ps[m].value : m \in 1 .. n}
           /\ f[n] = Shown(W, Trees(w, U), x)
    BY <1>3 DEF G, Good
  <2>2. /\ n + 1 \in 1 .. Len(ps) /\ 1 .. n + 1 = (1 .. n) \cup {n + 1}
        /\ \A m \in 1 .. n : m \in 1 .. Len(ps) /\ m # n + 1
    OBVIOUS
  <2> DEFINE v == ps[n + 1].value
             c == IF IsRef(v) THEN Absent ELSE v
             Y == Append(W, c)
             X == Append(U, v)
             st == Shown(W, Trees(w, U), x)
  <2>3. v \in Value /\ v \notin Range(U) /\ c \in Value
    BY <1>0, <2>1, <2>2 DEF EachOnce, Absent, Value
  <2> HIDE DEF v, c
  <2>4. /\ X \in Seq(Value) /\ Len(X) = Len(U) + 1
        /\ DOMAIN U = 1 .. Len(U) /\ DOMAIN X = 1 .. Len(U) + 1
        /\ \A i \in DOMAIN U : X[i] = U[i]
        /\ X[Len(U) + 1] = v /\ Range(X) = Range(U) \cup {v}
    BY <2>3, Appended
  <2>5. /\ Y \in Seq(Value) /\ Len(Y) = Len(W) + 1
        /\ DOMAIN W = 1 .. Len(W) /\ DOMAIN Y = 1 .. Len(W) + 1
        /\ \A i \in DOMAIN W : Y[i] = W[i]
        /\ Y[Len(W) + 1] = c
    BY <2>3, Appended
  <2>6. IsInjective(X)
    <3>1. \A i \in DOMAIN U : X[i] # v
      BY <2>3, <2>4 DEF Range
    <3>2. \A i \in DOMAIN X : i \in DOMAIN U \/ i = Len(U) + 1
      BY <2>4, LenProperties
    <3> HIDE DEF X
    <3> QED
      BY <2>1, <2>4, <3>1, <3>2 DEF IsInjective
  <2>7. ApplyPatch(w, st, ps[n + 1]) = [st EXCEPT !.items = Append(st.items, Cloned(w, v))]
    BY <1>0, <2>2 DEF ApplyPatch, v
  <2> DEFINE item(a, b) == [value |-> a, tree |-> Tree(w, b)]
  <2>8. Append(st.items, Cloned(w, v)) = Shown(Y, Trees(w, X), x).items
    <3> DEFINE I == [i \in 1 .. Len(W) |-> item(W[i], U[i])]
               K == {item(a, b) : a \in Value, b \in Value}
    <3>1. st.items = I
      BY <2>1, <2>4, <2>5 DEF Shown, Trees
    <3>2. Cloned(w, v) = item(c, v)
      BY DEF Cloned, c
    <3>3. Shown(Y, Trees(w, X), x).items = [i \in 1 .. Len(W) + 1 |-> item(Y[i], X[i])]
      BY <2>1, <2>4, <2>5 DEF Shown, Trees
    <3> HIDE DEF item
    <3>4. I \in Seq(K) /\ Len(I) = Len(W) /\ item(c, v) \in K
      <4>1. \A i \in 1 .. Len(W) : W[i] \in Value /\ U[i] \in Value
        BY <2>1, <2>4, <2>5, LenProperties
      <4>2. I \in [1 .. Len(W) -> K] /\ Len(W) \in Nat
        BY <4>1, LenProperties
      <4> QED
        BY <2>3, <4>2, LenProperties
    <3> HIDE DEF K
    <3>5. /\ Append(I, item(c, v)) \in Seq(K)
          /\ DOMAIN I = 1 .. Len(W) /\ DOMAIN Append(I, item(c, v)) = 1 .. Len(W) + 1
          /\ \A i \in DOMAIN I : Append(I, item(c, v))[i] = I[i]
          /\ Append(I, item(c, v))[Len(W) + 1] = item(c, v)
      <4> HIDE DEF I
      <4> QED
        BY <3>4, Appended
    <3> DEFINE J == Append(I, item(c, v))
    <3>6. J = [i \in 1 .. Len(W) + 1 |-> J[i]]
      <4> HIDE DEF I
      <4> QED
        BY <3>5, LenProperties
    <3>7. ASSUME NEW i \in 1 .. Len(W) + 1 PROVE J[i] = item(Y[i], X[i])
      <4>1. CASE i = Len(W) + 1
        BY <2>1, <2>4, <2>5, <3>5, <4>1
      <4>2. CASE i # Len(W) + 1
        <5>1. i \in 1 .. Len(W)
          BY <4>2, LenProperties
        <5>2. I[i] = item(W[i], U[i])
          BY <5>1
        <5> HIDE DEF I
        <5> QED
          BY <2>1, <2>4, <2>5, <3>5, <5>1, <5>2
      <4> QED
        BY <4>1, <4>2
    <3> HIDE DEF J
    <3>8. J = [i \in 1 .. Len(W) + 1 |-> item(Y[i], X[i])]
      BY <3>6, <3>7
    <3> HIDE DEF I
    <3> QED
      BY <3>1, <3>2, <3>3, <3>8 DEF J
  <2>9. f[n + 1] = [st EXCEPT !.items = Shown(Y, Trees(w, X), x).items]
    BY <1>1, <2>1, <2>7, <2>8
  <2>10. f[n + 1] = Shown(Y, Trees(w, X), x)
    BY <2>9 DEF Shown
  <2>11. Range(X) = Range(V) \cup {ps[m].value : m \in 1 .. n + 1}
    BY <2>1, <2>2, <2>4 DEF v
  <2>12. Len(Y) = Len(X)
    BY <2>1, <2>4, <2>5
  <2>13. X \in Seq(Value) /\ Y \in Seq(Value)
    BY <2>4, <2>5
  <2> HIDE DEF X, Y
  <2> QED
    BY <2>6, <2>10, <2>11, <2>12, <2>13 DEF Good
<1> HIDE DEF G
<1>4. Len(ps) \in G
  BY <1>2, <1>3, SetInduction
<1>5. Good(Len(ps))
  BY <1>4 DEF G
<1> QED
  BY <1>0, <1>1, <1>5 DEF s, Good, Showing

\* A set and its image under an injective function have the same size.
LEMMA SameSize ==
    ASSUME NEW S, IsFiniteSet(S), NEW f, \A i, j \in S : f[i] = f[j] => i = j
    PROVE  Cardinality({f[i] : i \in S}) = Cardinality(S)
<1> DEFINE T == {f[i] : i \in S}
           g == [i \in S |-> f[i]]
<1>1. g \in Injection(S, T)
  BY DEF Injection, IsInjective
<1>2. g \in Surjection(S, T)
  BY DEF Surjection
<1>3. ExistsBijection(S, T)
  BY <1>1, <1>2 DEF ExistsBijection, Bijection
<1> HIDE DEF T, g
<1>4. Cardinality(T) = Cardinality(S)
  BY <1>3, FS_Bijection
<1> QED
  BY <1>4 DEF T

\* The n items of s and the m of t, side by side with equal trees.
Paired(s, t, n, m, f) ==
    /\ s.side = t.side /\ n \in Nat /\ m \in Nat
    /\ DOMAIN s.items = 1 .. n /\ Len(s.items) = n
    /\ DOMAIN t.items = 1 .. m /\ Len(t.items) = m
    /\ \A i \in 1 .. n : f[i] \in 1 .. m /\ s.items[i].tree = t.items[f[i]].tree
    /\ \A i, j \in 1 .. n : f[i] = f[j] => i = j
    /\ \A k \in 1 .. m : \E i \in 1 .. n : f[i] = k

\* States are equal if their items can be paired.
LEMMA EqualStates ==
    ASSUME NEW s, NEW t, NEW n, NEW m, NEW f, Paired(s, t, n, m, f)
    PROVE  Equal(s, t)
<1>1. \A k \in Nat : IsFiniteSet(1 .. k) /\ Cardinality(1 .. k) = k
  <2> TAKE k \in Nat
  <2>1. 1 \in Int /\ k \in Int
    OBVIOUS
  <2>2. IsFiniteSet(1 .. k) /\ Cardinality(1 .. k) = IF 1 > k THEN 0 ELSE k - 1 + 1
    BY <2>1, FS_Interval
  <2> QED
    BY <2>2
<1> DEFINE P == 1 .. n
           Q == 1 .. m
<1>2. /\ IsFiniteSet(P) /\ Cardinality(P) = n /\ Cardinality(Q) = m
      /\ \A i \in P : f[i] \in Q /\ s.items[i].tree = t.items[f[i]].tree
      /\ \A i, j \in P : f[i] = f[j] => i = j
      /\ \A k \in Q : \E i \in P : f[i] = k
      /\ DOMAIN s.items = P /\ DOMAIN t.items = Q
      /\ Len(s.items) = n /\ Len(t.items) = m /\ s.side = t.side
  BY <1>1 DEF Paired
<1> HIDE DEF P, Q
<1>3. n = m
  <2>1. {f[i] : i \in P} = Q
    BY <1>2
  <2>2. Cardinality({f[i] : i \in P}) = Cardinality(P)
    BY <1>2, SameSize
  <2> QED
    BY <1>2, <2>1, <2>2
<1>4. ASSUME NEW tree
      PROVE  Cardinality({i \in P : s.items[i].tree = tree})
             = Cardinality({i \in Q : t.items[i].tree = tree})
  <2> DEFINE S == {i \in P : s.items[i].tree = tree}
             T == {i \in Q : t.items[i].tree = tree}
  <2>1. S \subseteq P
    OBVIOUS
  <2>2. IsFiniteSet(S)
    BY <1>2, <2>1, FS_Subset
  <2>3. \A i \in S : f[i] \in T
    BY <1>2
  <2>4. \A k \in T : \E i \in S : f[i] = k
    BY <1>2
  <2>5. \A i, j \in S : f[i] = f[j] => i = j
    BY <1>2
  <2> HIDE DEF S, T
  <2>6. {f[i] : i \in S} = T
    BY <2>3, <2>4
  <2>7. Cardinality({f[i] : i \in S}) = Cardinality(S)
    BY <2>2, <2>5, SameSize
  <2> QED
    BY <2>6, <2>7 DEF S, T
<1>5. ASSUME NEW e \in Range(s.items)
      PROVE  Cardinality({i \in DOMAIN s.items : s.items[i].tree = e.tree})
             = Cardinality({i \in DOMAIN t.items : t.items[i].tree = e.tree})
  <2>1. Cardinality({i \in P : s.items[i].tree = e.tree})
        = Cardinality({i \in Q : t.items[i].tree = e.tree})
    BY <1>4, Zenon
  <2>2. DOMAIN s.items = P /\ DOMAIN t.items = Q
    BY <1>2
  <2> QED
    BY <2>1, <2>2
<1> QED
  BY <1>2, <1>3, <1>5 DEF Equal

\* Items of a state that is shown.
LEMMA ShownItems ==
    ASSUME NEW V \in Seq(Value), NEW T, NEW x
    PROVE  /\ Shown(V, T, x).side = x
           /\ DOMAIN Shown(V, T, x).items = 1 .. Len(V) /\ Len(V) \in Nat
           /\ Len(Shown(V, T, x).items) = Len(V)
           /\ \A i \in 1 .. Len(V) : Shown(V, T, x).items[i].tree = T[i]
<1> DEFINE I == [i \in 1 .. Len(V) |-> [value |-> V[i], tree |-> T[i]]]
           S == {I[i] : i \in 1 .. Len(V)}
<1>1. DOMAIN V = 1 .. Len(V) /\ Len(V) \in Nat
  BY LenProperties
<1>2. Shown(V, T, x).items = I /\ Shown(V, T, x).side = x
  BY <1>1 DEF Shown
<1>3. /\ DOMAIN I = 1 .. Len(V) /\ \A i \in 1 .. Len(V) : I[i].tree = T[i]
      /\ I \in [1 .. Len(V) -> S]
  OBVIOUS
<1> HIDE DEF I, S
<1>4. I \in Seq(S)
  BY <1>1, <1>3
<1>5. Len(I) = Len(V)
  BY <1>1, <1>3, <1>4, LenProperties
<1> QED
  BY <1>1, <1>2, <1>3, <1>5

\* The same trees at the same positions, ...
LEMMA EqualInPlace ==
    ASSUME NEW V \in Seq(Value), NEW W \in Seq(Value), Len(V) = Len(W),
           NEW T, NEW x
    PROVE  Equal(Shown(V, T, x), Shown(W, T, x))
<1> DEFINE n == Len(V)
           f == [i \in 1 .. n |-> i]
<1>1. /\ Shown(V, T, x).side = Shown(W, T, x).side
      /\ DOMAIN Shown(V, T, x).items = 1 .. n /\ n \in Nat
      /\ Len(Shown(V, T, x).items) = n
      /\ DOMAIN Shown(W, T, x).items = 1 .. n
      /\ Len(Shown(W, T, x).items) = n
      /\ \A i \in 1 .. n :
            Shown(V, T, x).items[i].tree = Shown(W, T, x).items[i].tree
  BY ShownItems
<1>2. /\ \A i \in 1 .. n : f[i] = i
      /\ \A i, j \in 1 .. n : f[i] = f[j] => i = j
      /\ \A k \in 1 .. n : \E i \in 1 .. n : f[i] = k
  OBVIOUS
<1> DEFINE s == Shown(V, T, x)
           t == Shown(W, T, x)
<1>3. \A i \in 1 .. n : f[i] \in 1 .. n /\ s.items[i].tree = t.items[f[i]].tree
  BY <1>1, <1>2
<1> HIDE DEF s, t, f, n
<1> QED
  <2>1. Paired(s, t, n, n, f)
    BY <1>1, <1>2, <1>3 DEF Paired, s, t
  <2>2. Equal(s, t)
    BY <2>1, EqualStates
  <2> QED
    BY <2>2 DEF s, t

\* ... or the same items in another order.
LEMMA EqualReordered ==
    ASSUME NEW w, NEW x,
           NEW V \in Seq(Value), NEW U \in Seq(Value), Len(V) = Len(U),
           NEW R \in Seq(Value), Range(U) = Range(R),
           IsInjective(U),
           IsInjective(R)
    PROVE  Equal(Shown(V, Trees(w, U), x), Shown(R, Trees(w, R), x))
<1> DEFINE n == Len(V)
           m == Len(R)
           s == Shown(V, Trees(w, U), x)
           t == Shown(R, Trees(w, R), x)
           f == [i \in 1 .. n |-> CHOOSE j \in 1 .. m : R[j] = U[i]]
<1>1. /\ s.side = x /\ t.side = x
      /\ DOMAIN s.items = 1 .. n /\ n \in Nat /\ Len(s.items) = n
      /\ DOMAIN t.items = 1 .. m /\ m \in Nat /\ Len(t.items) = m
      /\ \A i \in 1 .. n : s.items[i].tree = Trees(w, U)[i]
      /\ \A i \in 1 .. m : t.items[i].tree = Trees(w, R)[i]
  BY ShownItems
<1>2. DOMAIN U = 1 .. n /\ DOMAIN R = 1 .. m
  BY LenProperties
<1>3. /\ \A i \in 1 .. n : Trees(w, U)[i] = Tree(w, U[i])
      /\ \A i \in 1 .. m : Trees(w, R)[i] = Tree(w, R[i])
  BY <1>2 DEF Trees
<1>4. \A i \in 1 .. n : \E j \in 1 .. m : R[j] = U[i]
  BY <1>2 DEF Range
<1>5. ASSUME NEW j \in 1 .. m PROVE \E i \in 1 .. n : R[j] = U[i]
  <2>1. R[j] \in Range(R)
    BY <1>2 DEF Range
  <2>2. R[j] \in Range(U)
    BY <2>1
  <2> QED
    BY <1>2, <2>2 DEF Range
<1>6. \A i \in 1 .. n : f[i] \in 1 .. m /\ R[f[i]] = U[i]
  BY <1>4
<1> HIDE DEF f, s, t, n, m
<1>7. \A i \in 1 .. n : f[i] \in 1 .. m /\ s.items[i].tree = t.items[f[i]].tree
  BY <1>1, <1>3, <1>6
<1>8. \A i, j \in 1 .. n : f[i] = f[j] => i = j
  BY <1>2, <1>6 DEF IsInjective
<1>9. \A k \in 1 .. m : \E i \in 1 .. n : f[i] = k
  BY <1>2, <1>5, <1>6 DEF IsInjective
<1>10. Paired(s, t, n, m, f)
  BY <1>1, <1>7, <1>8, <1>9 DEF Paired
<1>11. Equal(s, t)
  BY <1>10, EqualStates
<1> QED
  BY <1>11 DEF s, t

-----------------------------------------------------------------------------
(***************************************************************************)
(* The patches of the Set.                                                 *)
(***************************************************************************)
\* The items missing in t among each number of items of s.
Finding(s, t, f) ==
    f = [n \in 0 .. Len(s) |->
            IF n = 0 THEN <<>>
            ELSE IF s[n] \in Range(t) THEN f[n - 1]
            ELSE Append(f[n - 1], s[n])]

\* There are such lists: those up to some item give those up to the next.
LEMMA FindingRuns ==
    ASSUME NEW s, NEW t, Len(s) \in Nat
    PROVE  \E f : Finding(s, t, f)
<1> DEFINE turn(r, n) == IF s[n] \in Range(t) THEN r ELSE Append(r, s[n])
           E(f, m) == f = [n \in 0 .. m |-> IF n = 0 THEN <<>> ELSE turn(f[n - 1], n)]
           T       == {m \in Nat : \E f : E(f, m)}
<1> HIDE DEF turn
<1>1. 0 \in T
  <2> DEFINE f == [n \in 0 .. 0 |-> <<>>]
  <2>1. \A n \in 0 .. 0 : n = 0
    OBVIOUS
  <2>2. E(f, 0)
    BY <2>1
  <2> QED
    BY <2>2
<1>2. ASSUME NEW m \in Nat, m \in T PROVE m + 1 \in T
  <2>1. PICK f : E(f, m)
    BY <1>2
  <2> DEFINE next == turn(f[m], m + 1)
             g == [n \in 0 .. m + 1 |-> IF n = m + 1 THEN next ELSE f[n]]
             h == [n \in 0 .. m + 1 |-> IF n = 0 THEN <<>> ELSE turn(g[n - 1], n)]
  <2>2. ASSUME NEW n \in 0 .. m + 1
        PROVE  g[n] = IF n = 0 THEN <<>> ELSE turn(g[n - 1], n)
    <3>1. CASE n = m + 1
      <4>1. g[n] = next /\ n # 0 /\ n - 1 = m /\ m \in 0 .. m + 1 /\ m # m + 1
        BY <3>1
      <4>2. g[n - 1] = f[m]
        BY <4>1
      <4> QED
        BY <3>1, <4>1, <4>2
    <3>2. CASE n # m + 1
      <4>1. n \in 0 .. m /\ g[n] = f[n]
        BY <3>2
      <4>2. f[n] = IF n = 0 THEN <<>> ELSE turn(f[n - 1], n)
        BY <2>1, <4>1
      <4>3. ASSUME n # 0 PROVE g[n - 1] = f[n - 1]
        BY <3>2, <4>3
      <4> QED
        BY <4>1, <4>2, <4>3
    <3> QED
      BY <3>1, <3>2
  <2>3. g = h
    <3> HIDE DEF next
    <3>1. \A n \in 0 .. m + 1 : g[n] = h[n]
      BY <2>2
    <3> QED
      BY <3>1
  <2>4. E(g, m + 1)
    BY <2>3
  <2> HIDE DEF g, h, E
  <2> QED
    BY <2>4
<1> HIDE DEF T
<1>3. Len(s) \in T
  BY <1>1, <1>2, SetInduction
<1> QED
  BY <1>3 DEF T, Finding, turn

\* The missing items, once each if each is there once.
LEMMA MissingItems ==
    ASSUME NEW s \in Seq(Value), NEW t, IsInjective(s)
    PROVE  LET r == Missing(s, t)
           IN  /\ r \in Seq(Value) /\ Range(r) = Range(s) \ Range(t)
               /\ IsInjective(r)
<1> DEFINE found == CHOOSE f : Finding(s, t, f)
           before(n) == {s[i] : i \in 1 .. n}
           Good(n) == /\ found[n] \in Seq(Value)
                      /\ Range(found[n]) = before(n) \ Range(t)
                      /\ IsInjective(found[n])
           T == {n \in Nat : n <= Len(s) => Good(n)}
<1>1. Len(s) \in Nat /\ DOMAIN s = 1 .. Len(s) /\ \A i \in DOMAIN s : s[i] \in Value
  BY LenProperties
<1>2. Finding(s, t, found)
  BY <1>1, FindingRuns
<1>3. Missing(s, t) = found[Len(s)]
  BY DEF Missing, Finding
<1> HIDE DEF found, Good
<1>4. 0 \in T
  <2>1. found[0] = <<>>
    BY <1>1, <1>2 DEF Finding
  <2>2. found[0] \in Seq(Value) /\ Len(found[0]) = 0
    BY <2>1
  <2>3. DOMAIN found[0] = {}
    BY <2>2, LenProperties
  <2>4. Range(found[0]) = {} /\ before(0) = {}
    BY <2>3 DEF Range
  <2> QED
    BY <2>2, <2>3, <2>4 DEF Good, IsInjective
<1>5. ASSUME NEW n \in Nat, n \in T PROVE n + 1 \in T
  <2> SUFFICES ASSUME n + 1 <= Len(s) PROVE Good(n + 1)
    OBVIOUS
  <2>1. n <= Len(s) /\ n + 1 \in DOMAIN s /\ 1 .. n + 1 = (1 .. n) \cup {n + 1}
        /\ \A i \in 1 .. n : i \in DOMAIN s /\ i # n + 1
    BY <1>1
  <2>2. /\ found[n] \in Seq(Value) /\ Range(found[n]) = before(n) \ Range(t)
        /\ IsInjective(found[n])
    BY <1>5, <2>1 DEF Good
  <2>3. found[n + 1] = IF s[n + 1] \in Range(t) THEN found[n]
                       ELSE Append(found[n], s[n + 1])
    <3>1. PICK i \in 0 .. Len(s) : i = n + 1 /\ i # 0 /\ i - 1 = n
      BY <1>1, <2>1
    <3>2. found[i] = IF s[i] \in Range(t) THEN found[i - 1]
                     ELSE Append(found[i - 1], s[i])
      BY <1>2, <3>1 DEF Finding
    <3> QED
      BY <3>1, <3>2
  <2>4. before(n + 1) = before(n) \cup {s[n + 1]} /\ s[n + 1] \notin before(n)
    BY <2>1 DEF IsInjective
  <2> HIDE DEF before
  <2>5. CASE s[n + 1] \in Range(t)
    BY <2>2, <2>3, <2>4, <2>5 DEF Good
  <2>6. CASE s[n + 1] \notin Range(t)
    <3> DEFINE r == found[n]
               v == s[n + 1]
               u == Append(r, v)
    <3>1. v \in Value /\ v \notin Range(r) /\ r \in Seq(Value)
      BY <1>1, <2>1, <2>2, <2>4
    <3> HIDE DEF r, v
    <3>2. /\ u \in Seq(Value) /\ DOMAIN r = 1 .. Len(r) /\ DOMAIN u = 1 .. Len(r) + 1
          /\ \A i \in DOMAIN r : u[i] = r[i]
          /\ u[Len(r) + 1] = v /\ Range(u) = Range(r) \cup {v}
      BY <3>1, Appended
    <3>3. IsInjective(u)
      <4>1. \A i \in DOMAIN r : r[i] # v
        BY <3>1 DEF Range
      <4>2. \A i \in DOMAIN u : i \in DOMAIN r \/ i = Len(r) + 1
        BY <3>1, <3>2, LenProperties
      <4>3. IsInjective(r)
        BY <2>2 DEF r
      <4> HIDE DEF u
      <4> QED
        BY <3>2, <4>1, <4>2, <4>3 DEF IsInjective
    <3>4. found[n + 1] = u
      BY <2>3, <2>6 DEF r, v
    <3>5. Range(u) = before(n + 1) \ Range(t)
      BY <2>2, <2>4, <2>6, <3>2 DEF r, v
    <3> HIDE DEF u
    <3> QED
      BY <3>2, <3>3, <3>4, <3>5 DEF Good
  <2> QED
    BY <2>5, <2>6
<1> HIDE DEF T
<1>6. Len(s) \in T
  BY <1>1, <1>4, <1>5, SetInduction
<1>7. Good(Len(s)) /\ before(Len(s)) = Range(s)
  BY <1>1, <1>6 DEF T, Range
<1> QED
  BY <1>3, <1>7 DEF Good

\* A new Set holds each item once.
LEMMA DistinctOnce ==
    ASSUME NEW s \in Seq(Value)
    PROVE  LET r == Distinct(s)
           IN  r \in Seq(Value) /\ IsInjective(r)
<1> DEFINE kept == CHOOSE f : Keeping(s, f)
           Good(n) == /\ kept[n] \in Seq(Value)
                      /\ IsInjective(kept[n])
           T == {n \in Nat : n <= Len(s) => Good(n)}
<1>1. Len(s) \in Nat /\ DOMAIN s = 1 .. Len(s) /\ \A i \in DOMAIN s : s[i] \in Value
  BY LenProperties
<1>2. Keeping(s, kept)
  BY <1>1, KeepingRuns
<1>3. Distinct(s) = kept[Len(s)]
  BY DEF Distinct, Keeping
<1> HIDE DEF kept, Good
<1>4. 0 \in T
  <2>1. kept[0] = <<>>
    BY <1>1, <1>2 DEF Keeping
  <2>2. kept[0] \in Seq(Value) /\ Len(kept[0]) = 0
    BY <2>1
  <2>3. DOMAIN kept[0] = {}
    BY <2>2, LenProperties
  <2> QED
    BY <2>2, <2>3 DEF Good, IsInjective
<1>5. ASSUME NEW n \in Nat, n \in T PROVE n + 1 \in T
  <2> SUFFICES ASSUME n + 1 <= Len(s) PROVE Good(n + 1)
    OBVIOUS
  <2> DEFINE r == kept[n]
             v == s[n + 1]
             u == Append(r, v)
  <2>1. /\ r \in Seq(Value) /\ v \in Value
        /\ IsInjective(r)
    BY <1>1, <1>5 DEF Good
  <2>2. kept[n + 1] = IF v \in Range(r) THEN r ELSE u
    <3>1. PICK i \in 0 .. Len(s) : i = n + 1 /\ i # 0 /\ i - 1 = n
      BY <1>1
    <3>2. kept[i] = IF s[i] \in Range(kept[i - 1]) THEN kept[i - 1]
                    ELSE Append(kept[i - 1], s[i])
      BY <1>2, <3>1 DEF Keeping
    <3> QED
      BY <3>1, <3>2
  <2> HIDE DEF r, v
  <2>3. /\ u \in Seq(Value) /\ DOMAIN r = 1 .. Len(r) /\ DOMAIN u = 1 .. Len(r) + 1
        /\ \A i \in DOMAIN r : u[i] = r[i]
    BY <2>1, Appended
  <2>4. u[Len(r) + 1] = v
    BY <2>1, Appended
  <2>5. ASSUME v \notin Range(r)
        PROVE  IsInjective(u)
    <3>1. \A i \in DOMAIN r : r[i] # v
      BY <2>5 DEF Range
    <3>2. \A i \in DOMAIN u : i \in DOMAIN r \/ i = Len(r) + 1
      BY <2>1, <2>3, LenProperties
    <3> HIDE DEF u
    <3> QED
      BY <2>1, <2>3, <2>4, <3>1, <3>2 DEF IsInjective
  <2> HIDE DEF u
  <2> QED
    BY <2>1, <2>2, <2>3, <2>5 DEF Good
<1> HIDE DEF T
<1>6. Len(s) \in T
  BY <1>1, <1>4, <1>5, SetInduction
<1> QED
  BY <1>1, <1>3, <1>6 DEF T, Good

AnyPatch == [op : {"add", "remove", "field"}, at : Nat, value : Value]

LEMMA PatchesMade ==
    ASSUME NEW r \in Seq(Value), IsInjective(r),
           NEW op \in {"add", "remove"}
    PROVE  LET ps == [i \in DOMAIN r |-> Patch(op, 0, r[i])]
           IN  ps \in Seq(AnyPatch) /\ PatchesOf(ps, op, Range(r))
<1> DEFINE ps == [i \in 1 .. Len(r) |-> Patch(op, 0, r[i])]
<1>1. Len(r) \in Nat /\ DOMAIN r = 1 .. Len(r) /\ \A i \in DOMAIN r : r[i] \in Value
  BY LenProperties
<1>2. /\ \A i \in 1 .. Len(r) : ps[i].op = op /\ ps[i].value = r[i] /\ ps[i] \in AnyPatch
      /\ DOMAIN ps = 1 .. Len(r) /\ ps \in [1 .. Len(r) -> AnyPatch]
  BY <1>1 DEF Patch, AnyPatch
<1>3. ps = [i \in DOMAIN r |-> Patch(op, 0, r[i])]
  BY <1>1
<1> HIDE DEF ps
<1>4. ps \in Seq(AnyPatch)
  BY <1>1, <1>2
<1>5. Len(ps) = Len(r)
  BY <1>1, <1>2, <1>4, LenProperties
<1>6. {ps[n].value : n \in 1 .. Len(ps)} = Range(r)
  BY <1>1, <1>2, <1>5 DEF Range
<1>7. EachOnce(ps)
  BY <1>1, <1>2, <1>5 DEF EachOnce, IsInjective
<1>8. PatchesOf(ps, op, Range(r))
  BY <1>2, <1>5, <1>6, <1>7 DEF PatchesOf
<1> QED
  BY <1>3, <1>4, <1>8

\* Reversing a sequence.
LEMMA Reversed ==
    ASSUME NEW S, NEW s \in Seq(S)
    PROVE  /\ Reverse(s) \in Seq(S) /\ Len(Reverse(s)) = Len(s) /\ Len(s) \in Nat
           /\ \A i \in 1 .. Len(s) : Reverse(s)[i] = s[Len(s) - i + 1]
<1> DEFINE r == [i \in 1 .. Len(s) |-> s[(Len(s) - i) + 1]]
<1>1. Len(s) \in Nat /\ DOMAIN s = 1 .. Len(s) /\ \A i \in DOMAIN s : s[i] \in S
  BY LenProperties
<1>2. Reverse(s) = r
  BY DEF Reverse
<1>3. ASSUME NEW i \in 1 .. Len(s) PROVE (Len(s) - i) + 1 \in DOMAIN s
  BY <1>1
<1>4. /\ r \in [1 .. Len(s) -> S] /\ DOMAIN r = 1 .. Len(s)
      /\ \A i \in 1 .. Len(s) : r[i] = s[Len(s) - i + 1]
  BY <1>1, <1>3
<1> HIDE DEF r
<1>5. r \in Seq(S)
  BY <1>1, <1>4
<1>6. Len(r) = Len(s)
  BY <1>1, <1>4, <1>5, LenProperties
<1> QED
  BY <1>1, <1>2, <1>4, <1>5, <1>6

LEMMA ReversedCat ==
    ASSUME NEW S, NEW s \in Seq(S), NEW t \in Seq(S)
    PROVE  Reverse(s \o t) = Reverse(t) \o Reverse(s)
<1> DEFINE m == Len(s)
           n == Len(t)
           c == s \o t
           a == Reverse(t)
           b == Reverse(s)
           d == a \o b
           e == Reverse(c)
<1>1. /\ m \in Nat /\ n \in Nat /\ c \in Seq(S) /\ Len(c) = m + n
      /\ \A i \in 1 .. m + n : c[i] = IF i <= m THEN s[i] ELSE t[i - m]
  BY ConcatProperties, LenProperties
<1>2. /\ a \in Seq(S) /\ Len(a) = n /\ \A i \in 1 .. n : a[i] = t[n - i + 1]
      /\ b \in Seq(S) /\ Len(b) = m /\ \A i \in 1 .. m : b[i] = s[m - i + 1]
  BY Reversed
<1> HIDE DEF a, b, c, e, m, n
<1>3. /\ e \in Seq(S) /\ Len(e) = m + n
      /\ \A i \in 1 .. m + n : e[i] = c[m + n - i + 1]
  BY <1>1, Reversed DEF e
<1>4. /\ d \in Seq(S) /\ Len(d) = n + m
      /\ \A i \in 1 .. n + m : d[i] = IF i <= n THEN a[i] ELSE b[i - n]
  BY ZenonT(60), <1>2, ConcatProperties
<1> HIDE DEF d
<1>5. ASSUME NEW i \in 1 .. m + n PROVE d[i] = e[i]
  <2>1. e[i] = c[m + n - i + 1] /\ d[i] = IF i <= n THEN a[i] ELSE b[i - n]
    BY <1>1, <1>3, <1>4
  <2>2. CASE i <= n
    <3>1. /\ m + n - i + 1 \in 1 .. m + n /\ ~(m + n - i + 1 <= m)
          /\ m + n - i + 1 - m = n - i + 1 /\ i \in 1 .. n
      BY <1>1, <2>2
    <3>2. c[m + n - i + 1] = t[m + n - i + 1 - m]
      BY <1>1, <3>1
    <3> QED
      BY <1>2, <2>1, <2>2, <3>1, <3>2
  <2>3. CASE i > n
    <3>1. /\ m + n - i + 1 \in 1 .. m + n /\ m + n - i + 1 <= m
          /\ m + n - i + 1 = m - (i - n) + 1 /\ i - n \in 1 .. m /\ ~(i <= n)
      BY <1>1, <2>3
    <3>2. c[m + n - i + 1] = s[m + n - i + 1]
      BY <1>1, <3>1
    <3>3. b[i - n] = s[m - (i - n) + 1]
      BY <1>2, <3>1
    <3> QED
      BY <2>1, <3>1, <3>2, <3>3
  <2> QED
    BY <1>1, <2>2, <2>3
<1>6. d = e
  BY <1>1, <1>3, <1>4, <1>5, SeqEqual
<1> QED
  BY <1>6 DEF a, b, c, d, e

LEMMA PatchesReversed ==
    ASSUME NEW ps \in Seq(AnyPatch), NEW op, NEW S, PatchesOf(ps, op, S)
    PROVE  Reverse(ps) \in Seq(AnyPatch) /\ PatchesOf(Reverse(ps), op, S)
<1> DEFINE n == Len(ps)
           rs == Reverse(ps)
<1>1. /\ rs \in Seq(AnyPatch) /\ Len(rs) = n /\ n \in Nat
      /\ \A i \in 1 .. n : rs[i] = ps[n - i + 1]
  BY Reversed
<1>2. /\ \A i \in 1 .. n : ps[i].op = op
      /\ S = {ps[i].value : i \in 1 .. n}
      /\ \A i, j \in 1 .. n : ps[i].value = ps[j].value => i = j
  BY DEF PatchesOf, EachOnce
<1> HIDE DEF rs, n
<1>3. \A i \in 1 .. n : n - i + 1 \in 1 .. n /\ n - (n - i + 1) + 1 = i
  BY <1>1
<1>4. \A i \in 1 .. n : rs[i].op = op
  BY <1>1, <1>2, <1>3
<1>5. \A i, j \in 1 .. n : rs[i].value = rs[j].value => i = j
  <2> TAKE i, j \in 1 .. n
  <2> HAVE rs[i].value = rs[j].value
  <2>1. n - i + 1 = n - j + 1
    BY <1>1, <1>2, <1>3
  <2> QED
    BY <1>1, <2>1
<1>6. {rs[i].value : i \in 1 .. n} = S
  <2>1. ASSUME NEW i \in 1 .. n
        PROVE  /\ rs[i].value \in S
               /\ \E j \in 1 .. n : rs[j].value = ps[i].value
    <3>1. rs[i] = ps[n - i + 1] /\ rs[n - i + 1] = ps[i]
      BY <1>1, <1>3
    <3> QED
      BY <1>2, <1>3, <3>1
  <2>2. \A v \in S : \E i \in 1 .. n : v = ps[i].value
    BY <1>2
  <2>3. \A v \in S : \E j \in 1 .. n : rs[j].value = v
    BY <2>1, <2>2
  <2> QED
    BY <2>1, <2>3
<1>7. PatchesOf(rs, op, S)
  BY <1>1, <1>4, <1>5, <1>6 DEF PatchesOf, EachOnce
<1> QED
  BY <1>1, <1>7 DEF rs

\* Removing the items that one Set has and the other has not, and adding those
\* that only the other has, leads to the items of the other, in some order.
LEMMA Exchanged ==
    ASSUME NEW w, NEW x, NEW A \in Seq(Value), NEW B \in Seq(Value),
           IsInjective(A),
           IsInjective(B),
           NEW ps \in Seq(AnyPatch), NEW qs \in Seq(AnyPatch),
           PatchesOf(ps, "remove", Range(A) \ Range(B)),
           PatchesOf(qs, "add", Range(B) \ Range(A))
    PROVE  \E R \in Seq(Value) :
              /\ IsInjective(R) /\ Range(R) = Range(B)
              /\ Showing(w, ApplyAll(w, Shown(A, Trees(w, A), x), ps \o qs), R, x)
<1> DEFINE s == Shown(A, Trees(w, A), x)
           t == ApplyAll(w, s, ps)
<1>1. Len(ps) \in Nat /\ Len(qs) \in Nat
  BY LenProperties
<1>2. \A v \in Range(B) : v \in Value
  BY LenProperties DEF Range
<1>3. PICK U \in Seq(Value) :
         /\ IsInjective(U) /\ Range(U) = Range(A) \ (Range(A) \ Range(B))
         /\ t = Shown(U, Trees(w, U), x)
  <2> DEFINE S == Range(A) \ Range(B)
  <2>1. S \in SUBSET Range(A) /\ PatchesOf(ps, "remove", S)
    OBVIOUS
  <2> HIDE DEF S
  <2>2. \E U \in Seq(Value) :
           /\ IsInjective(U) /\ Range(U) = Range(A) \ S
           /\ ApplyAll(w, Shown(A, Trees(w, A), x), ps) = Shown(U, Trees(w, U), x)
    BY <1>1, <2>1, RemovesApplied
  <2> QED
    BY <2>2 DEF S
<1> HIDE DEF t
<1>4. PICK R \in Seq(Value) :
         /\ IsInjective(R) /\ Range(R) = Range(U) \cup (Range(B) \ Range(A))
         /\ Showing(w, ApplyAll(w, t, qs), R, x)
  <2> DEFINE S == Range(B) \ Range(A)
  <2>1. S \in SUBSET Value /\ S \cap Range(U) = {} /\ PatchesOf(qs, "add", S)
    BY <1>2, <1>3
  <2> HIDE DEF S
  <2>2. \E R \in Seq(Value) :
           /\ IsInjective(R) /\ Range(R) = Range(U) \cup S
           /\ Showing(w, ApplyAll(w, Shown(U, Trees(w, U), x), qs), R, x)
    BY <1>1, <1>3, <2>1, AddsApplied
  <2> QED
    BY <1>3, <2>2 DEF S
<1>5. Range(R) = Range(B)
  BY <1>3, <1>4
<1>6. ApplyAll(w, s, ps \o qs) = ApplyAll(w, t, qs)
  BY ApplyCat DEF t
<1> QED
  BY <1>4, <1>5, <1>6

-----------------------------------------------------------------------------
(***************************************************************************)
(* The patches of the drafts.                                              *)
(***************************************************************************)
\* A draft that was changed, and whose path is known.
Changed(w, d) == w.drafts[d].operated /\ w.drafts[d].assigned /\ HasPath(w, d)

\* The patches ps are those of the changed drafts of a set, with the values v.
FieldsOf(w, ps, D, v) ==
    /\ ps \in Seq(AnyPatch)
    /\ \A k \in 1 .. Len(ps) : \E d \in D :
          Changed(w, d) /\ ps[k] = Patch("field", ItemPath(w, d), v[d])
    /\ \A d \in D : Changed(w, d) =>
          \E k \in 1 .. Len(ps) : ps[k] = Patch("field", ItemPath(w, d), v[d])

\* Finalizing one more draft.
LEMMA OneMoreField ==
    ASSUME NEW w, NEW ps, NEW D, NEW d, NEW v, FieldsOf(w, ps, D, v),
           Patch("field", ItemPath(w, d), v[d]) \in AnyPatch \/ ~Changed(w, d)
    PROVE  FieldsOf(w, ps \o (IF Changed(w, d)
                              THEN <<Patch("field", ItemPath(w, d), v[d])>> ELSE <<>>),
                    D \cup {d}, v)
<1> DEFINE p == Patch("field", ItemPath(w, d), v[d])
<1>1. CASE Changed(w, d)
  <2> DEFINE qs == Append(ps, p)
  <2>1. p \in AnyPatch /\ ps \in Seq(AnyPatch)
    BY <1>1 DEF FieldsOf
  <2>2. ps \o <<p>> = qs
    BY <2>1
  <2> HIDE DEF p
  <2>3. /\ qs \in Seq(AnyPatch) /\ Len(qs) = Len(ps) + 1
        /\ DOMAIN ps = 1 .. Len(ps)
        /\ \A k \in DOMAIN ps : qs[k] = ps[k]
        /\ qs[Len(ps) + 1] = p
    BY <2>1, Appended
  <2>4. Len(ps) \in Nat
    BY <2>1, LenProperties
  <2> HIDE DEF qs
  <2>5. ASSUME NEW k \in 1 .. Len(qs)
        PROVE  \E e \in D \cup {d} :
                  Changed(w, e) /\ qs[k] = Patch("field", ItemPath(w, e), v[e])
    <3>1. CASE k = Len(ps) + 1
      BY <1>1, <2>3, <3>1 DEF p
    <3>2. CASE k # Len(ps) + 1
      <4>1. k \in 1 .. Len(ps)
        BY <2>3, <2>4, <3>2
      <4> QED
        BY <2>3, <4>1 DEF FieldsOf
    <3> QED
      BY <3>1, <3>2
  <2>6. ASSUME NEW e \in D \cup {d}, Changed(w, e)
        PROVE  \E k \in 1 .. Len(qs) : qs[k] = Patch("field", ItemPath(w, e), v[e])
    <3>1. CASE e = d
      <4>1. Len(ps) + 1 \in 1 .. Len(qs)
        BY <2>3, <2>4
      <4> QED
        BY <2>3, <3>1, <4>1 DEF p
    <3>2. CASE e \in D
      <4>1. PICK k \in 1 .. Len(ps) : ps[k] = Patch("field", ItemPath(w, e), v[e])
        BY <2>6, <3>2 DEF FieldsOf
      <4>2. k \in 1 .. Len(qs) /\ qs[k] = ps[k]
        BY <2>3, <2>4
      <4> QED
        BY <4>1, <4>2
    <3> QED
      BY <3>1, <3>2
  <2>7. FieldsOf(w, qs, D \cup {d}, v)
    BY <2>3, <2>5, <2>6 DEF FieldsOf
  <2> QED
    BY <1>1, <2>2, <2>7 DEF p
<1>2. CASE ~Changed(w, d)
  <2>1. ps \o <<>> = ps
    BY DEF FieldsOf
  <2>2. FieldsOf(w, ps, D \cup {d}, v)
    BY <1>2 DEF FieldsOf
  <2> QED
    BY <1>2, <2>1, <2>2
<1> QED
  BY <1>1, <1>2

\* setMap.set() leaves the other items.
LEMMA MappedOther ==
    ASSUME NEW w, Shaped(w), NEW x, Settled(w, x), NEW item, NEW v, NEW other,
           other # item
    PROVE  Mapped(SetMapSet(x, item, v), other) = Mapped(x, other)
<1> DEFINE e == [item |-> item, value |-> v]
           S == (x.setMap \ Entries(x, item)) \cup {e}
           Sx == x.setMap
           y == SetMapSet(x, item, v)
<1>1. x = [w EXCEPT !.setMap = Sx] /\ y = [x EXCEPT !.setMap = S]
  BY DEF Settled, SetMapSet
<1>2. e.item = item
  OBVIOUS
<1>3. \A m : m.item = other => (m \in S <=> m \in x.setMap)
  BY <1>2 DEF Entries
<1> HIDE DEF e, S, Sx, y
<1>4. y.setMap = S
  BY <1>1 DEF Shaped, World
<1>5. Entries(y, other) = Entries(x, other)
  BY <1>3, <1>4 DEF Entries
<1> QED
  BY <1>5 DEF Mapped, y

\* Items of different drafts are mapped apart.
LEMMA NodeMapped ==
    ASSUME NEW w, Shaped(w), NEW x, Settled(w, x), NEW d, NEW a,
           ~Node(x, d).item \/ Node(x, d).original # a
    PROVE  Mapped(FinalizeNode(x, d), Obj(a)) = Mapped(x, Obj(a))
<1> DEFINE y == FinalizeItem(x, d)
<1>1. Settled(w, y) /\ Mapped(y, Obj(a)) = Mapped(x, Obj(a))
  <2> DEFINE item == Obj(Node(x, d).original)
             v    == Mapped(x, item)
  <2>1. \/ y = x
        \/ /\ Node(x, d).item /\ IsDraft(v)
           /\ y = SetMapSet(x, item, GetValue(x, v))
    BY DEF FinalizeItem
  <2>2. Node(x, d).item => Obj(a) # item
    BY DEF Obj
  <2> HIDE DEF item, y
  <2> QED
    BY <2>1, <2>2, ReplacedSettled, MappedOther
<1> HIDE DEF y
<1>2. Mapped(RunCallback(y, d), Obj(a)) = Mapped(y, Obj(a))
  <2> DEFINE v == Draft(d)
  <2>1. v # Obj(a)
    BY DEF Draft, Obj
  <2>2. \/ RunCallback(y, d) = y
        \/ RunCallback(y, d) = SetMapSet(y, v, FinalElement(y, d))
    BY DEF RunCallback
  <2> HIDE DEF v
  <2> QED
    BY <1>1, <2>1, <2>2, MappedOther
<1> QED
  BY <1>1, <1>2 DEF FinalizeNode, y

\* The base and the copies of changed drafts are as the recipe left them.
LEMMA HeapKept ==
    ASSUME base \in Bases, Sound(world), NEW d \in DOMAIN world.drafts
    PROVE  LET H == FinalizeAssigned(world).heap
               n == world.drafts[d]
           IN  /\ n.original \in DOMAIN base.heap
               /\ H[n.original] = world.heap[n.original] /\ H[n.original] \in Value
               /\ n.operated => /\ H[n.copy] = world.heap[n.copy] /\ H[n.copy] \in Value
                                /\ n.copy \in Nat /\ n.copy \notin DOMAIN base.heap
<1> DEFINE H == FinalizeAssigned(world).heap
           n == world.drafts[d]
<1>1. \A a \in DOMAIN world.heap : ~IsDraft(world.heap[a]) => H[a] = world.heap[a]
  BY AssignedFields DEF Sound
<1> HIDE DEF H
<1>2. /\ n.original \in DOMAIN base.heap
      /\ n.copy \in {Null} \cup (Len(base.heap) + 1 .. Len(world.heap))
      /\ n.operated => n.copy # Null /\ ~IsDraft(world.heap[n.copy])
  BY DEF Sound, DraftsApart, DraftsCopied
<1> HIDE DEF n
<1>3. /\ DOMAIN base.heap = 1 .. Len(base.heap) /\ Len(base.heap) \in Nat
      /\ Len(base.heap) <= Len(world.heap) /\ Len(world.heap) \in Nat
      /\ DOMAIN world.heap = 1 .. Len(world.heap)
      /\ \A a \in DOMAIN world.heap : world.heap[a] \in Value
  BY BaseParts, WorldParts DEF Sound, BaseKept
<1>4. n.original \in DOMAIN world.heap /\ ~IsDraft(world.heap[n.original])
  <2>1. world.heap[n.original] = base.heap[n.original] /\ ~IsDraft(base.heap[n.original])
    BY <1>2, BaseParts DEF Sound, BaseKept
  <2> QED
    BY <1>2, <1>3, <2>1
<1>5. n.operated => n.copy \in DOMAIN world.heap /\ n.copy \notin DOMAIN base.heap
  BY <1>2, <1>3
<1> QED
  BY <1>1, <1>2, <1>3, <1>4, <1>5 DEF H, n

\* Where the draft of an item is, as long as nothing was added or deleted.
LEMMA ItemPlace ==
    ASSUME base \in Bases, Sound(world), Tracked(world),
           NEW d \in DOMAIN world.drafts, world.drafts[d].item
    PROVE  /\ ItemPath(world, d) \in DOMAIN base.set
           /\ base.set[ItemPath(world, d)] = Obj(world.drafts[d].original)
<1>1. Obj(world.drafts[d].original) \in Range(base.set) /\ world.original = base.set
  BY DEF Tracked, ItemDrafts, Sound, BaseKept
<1> QED
  BY <1>1 DEF ItemPath, IndexIn, Node, Range

\* The patches that a draft emits in the loop.
LEMMA FieldEmitted ==
    ASSUME NEW x, NEW d, x.original = world.original, x.drafts = world.drafts,
           x.assigned = world.assigned,
           world.assigned = {} /\ world.drafts[d].item =>
              Mapped(x, Obj(world.drafts[d].original)) = Draft(d),
           NEW v
    PROVE  FieldPatches(x, d, v) = IF Changed(world, d)
                                   THEN <<Patch("field", ItemPath(world, d), v)>>
                                   ELSE <<>>
<1>1. ItemPath(x, d) = ItemPath(world, d)
  BY DEF ItemPath, Node
<1>2. Node(x, d) = world.drafts[d] /\ Node(world, d) = world.drafts[d]
  BY DEF Node
<1>3. HasPath(x, d) <=> (world.drafts[d].item => world.assigned = {})
  BY <1>2 DEF HasPath
<1>4. HasPath(world, d) <=> (world.drafts[d].item => world.assigned = {})
  BY <1>2 DEF HasPath
<1> QED
  BY <1>1, <1>2, <1>3, <1>4 DEF FieldPatches, Changed

\* The loop over the drafts emits the patches of those that were changed.
LEMMA DraftPatches ==
    ASSUME base \in Bases, Sound(world), Tracked(world)
    PROVE  LET done == FinalizeDrafts(FinalizeAssigned(world))
               D    == DOMAIN world.drafts
           IN  /\ FieldsOf(world, done.patches, D,
                           [d \in D |-> world.heap[world.drafts[d].copy]])
               /\ FieldsOf(world, done.inverse, D,
                           [d \in D |-> world.heap[world.drafts[d].original]])
<1> DEFINE u == FinalizeAssigned(world)
           D == DOMAIN world.drafts
           N == Len(world.drafts)
           after == CHOOSE f : Turning(u, N, f)
           new == [d \in D |-> world.heap[world.drafts[d].copy]]
           old == [d \in D |-> world.heap[world.drafts[d].original]]
           Pending(n) == \A d \in 1 .. N - n : world.assigned = {} /\ world.drafts[d].item
                            => Mapped(after[n].w, Obj(world.drafts[d].original)) = Draft(d)
           Good(n) == /\ Settled(u, after[n].w)
                      /\ Pending(n)
                      /\ FieldsOf(world, after[n].patches, N - n + 1 .. N, new)
                      /\ FieldsOf(world, after[n].inverse, N - n + 1 .. N, old)
           T == {n \in Nat : n <= N => Good(n)}
<1>1. N \in Nat /\ D = 1 .. N
  BY WorldParts DEF Sound
<1>2. /\ Shaped(u) /\ u.original = world.original /\ u.drafts = world.drafts
      /\ u.setMap = world.setMap /\ u.assigned = world.assigned
  BY AssignedFields DEF Sound
<1>3. Turning(u, N, after)
  BY <1>1, TurningRuns
<1>4. FinalizeDrafts(u) = after[N]
  <2>1. Len(u.drafts) = N
    BY <1>2
  <2> QED
    BY <2>1 DEF FinalizeDrafts, Turning, Turn
<1>5. \A d \in D : /\ u.heap[world.drafts[d].original] = old[d] /\ old[d] \in Value
                   /\ world.drafts[d].operated =>
                         u.heap[world.drafts[d].copy] = new[d] /\ new[d] \in Value
  BY HeapKept
<1>6. \A d \in D : ItemPath(world, d) \in Nat
  <2> TAKE d \in D
  <2>1. CASE world.drafts[d].item
    BY <2>1, ItemPlace, BaseParts, LenProperties
  <2>2. CASE ~world.drafts[d].item
    BY <2>2 DEF ItemPath, Node
  <2> QED
    BY <2>1, <2>2
<1>7. ASSUME world.assigned = {}
      PROVE  \A d \in D : world.drafts[d].item =>
                [item |-> Obj(world.drafts[d].original), value |-> Draft(d)]
                   \in world.setMap
  BY <1>7 DEF Tracked, ItemDrafts, Recorded
<1> HIDE DEF after, N, D, u, new, old, Good
<1>8. 0 \in T
  <2>1. after[0].w = u /\ after[0].patches = <<>> /\ after[0].inverse = <<>>
    BY <1>1, <1>3 DEF Turning
  <2>2. Settled(u, u)
    <3>1. u = [u EXCEPT !.setMap = u.setMap]
      BY <1>2 DEF World, Shaped
    <3>2. /\ \A m, n \in u.setMap : m.item = n.item => m = n
          /\ \A m \in u.setMap : IsRef(m.value)
      BY <1>2 DEF Sound, MapOfItems, AddedQueued, IsRef
    <3> QED
      BY <3>1, <3>2 DEF Settled
  <2>3. Pending(0)
    <3> SUFFICES ASSUME NEW d \in 1 .. N - 0, world.assigned = {}, world.drafts[d].item
                 PROVE  Mapped(u, Obj(world.drafts[d].original)) = Draft(d)
      BY <2>1
    <3> DEFINE e == [item |-> Obj(world.drafts[d].original), value |-> Draft(d)]
    <3>1. e \in u.setMap /\ e.item = Obj(world.drafts[d].original) /\ e.value = Draft(d)
      BY <1>1, <1>2, <1>7
    <3> HIDE DEF e
    <3>2. \A m, n \in u.setMap : m.item = n.item => m = n
      BY <1>2 DEF Sound, MapOfItems
    <3>3. Mapped(u, e.item) = e.value
      BY <3>1, <3>2, MappedIs
    <3> QED
      BY <3>1, <3>3
  <2>4. \A v : FieldsOf(world, <<>>, N - 0 + 1 .. N, v)
    <3>1. N - 0 + 1 .. N = {} /\ 1 .. Len(<<>>) = {}
      BY <1>1
    <3>2. <<>> \in Seq(AnyPatch)
      OBVIOUS
    <3> QED
      BY <3>1, <3>2 DEF FieldsOf
  <2> QED
    BY <2>1, <2>2, <2>3, <2>4 DEF Good
<1>9. ASSUME NEW n \in Nat, n \in T PROVE n + 1 \in T
  <2> SUFFICES ASSUME n + 1 <= N PROVE Good(n + 1)
    OBVIOUS
  <2> DEFINE x == after[n].w
             d == N - n
  <2>1. /\ d \in D /\ N + 1 - (n + 1) = d /\ d \in 1 .. N - n /\ n <= N
        /\ (N - n + 1 .. N) \cup {d} = N - (n + 1) + 1 .. N
        /\ \A e \in 1 .. N - (n + 1) : e \in D /\ e \in 1 .. N - n /\ e # d
    BY <1>1
  <2>2. /\ Settled(u, x) /\ Pending(n)
        /\ FieldsOf(world, after[n].patches, N - n + 1 .. N, new)
        /\ FieldsOf(world, after[n].inverse, N - n + 1 .. N, old)
    BY <1>9, <2>1 DEF Good
  <2>3. after[n + 1] = Turn(after[n], d)
    <3>1. PICK i \in 0 .. N : i = n + 1 /\ i # 0 /\ i - 1 = n
      BY <1>1
    <3>2. after[i] = Turn(after[i - 1], N + 1 - i)
      BY <1>3, <3>1 DEF Turning
    <3> QED
      BY <2>1, <3>1, <3>2
  <2>4. after[n + 1] =
            [w |-> FinalizeNode(x, d),
             patches |-> after[n].patches \o FieldPatches(x, d, Held(x, Draft(d))),
             inverse |-> after[n].inverse
                         \o FieldPatches(x, d, x.heap[Node(x, d).original])]
    BY <2>3 DEF Turn
  <2> HIDE DEF x, d
  <2>5. /\ x.original = world.original /\ x.drafts = world.drafts
        /\ x.assigned = world.assigned /\ x.heap = u.heap
    BY <1>2, <2>2, SettledFields
  <2>6. world.assigned = {} /\ world.drafts[d].item =>
           Mapped(x, Obj(world.drafts[d].original)) = Draft(d)
    BY <2>1, <2>2 DEF x
  <2>7. \A v : FieldPatches(x, d, v) = IF Changed(world, d)
                                       THEN <<Patch("field", ItemPath(world, d), v)>>
                                       ELSE <<>>
    BY <2>5, <2>6, FieldEmitted
  <2>8. /\ Changed(world, d) => Held(x, Draft(d)) = new[d]
        /\ x.heap[Node(x, d).original] = old[d]
        /\ Changed(world, d) => Patch("field", ItemPath(world, d), new[d]) \in AnyPatch
        /\ Patch("field", ItemPath(world, d), old[d]) \in AnyPatch
    <3>1. Node(x, d) = world.drafts[d]
      BY <2>5 DEF Node
    <3>2. ASSUME Changed(world, d) PROVE Held(x, Draft(d)) = new[d] /\ new[d] \in Value
      <4>1. world.drafts[d].operated
        BY <3>2 DEF Changed
      <4>2. FinalElement(x, d) = Obj(world.drafts[d].copy)
        BY <3>1, <4>1 DEF FinalElement
      <4>3. Held(x, Draft(d)) = x.heap[world.drafts[d].copy]
        BY <4>2 DEF Held, Draft, IsDraft, Obj
      <4> QED
        BY <1>5, <2>1, <2>5, <4>1, <4>3
    <3> QED
      BY <1>5, <1>6, <2>1, <2>5, <3>1, <3>2 DEF Patch, AnyPatch
  <2>9. FieldsOf(world, after[n + 1].patches, N - (n + 1) + 1 .. N, new)
    <3>1. after[n + 1].patches
          = after[n].patches \o FieldPatches(x, d, Held(x, Draft(d)))
      BY <2>4
    <3>2. FieldPatches(x, d, Held(x, Draft(d)))
          = IF Changed(world, d) THEN <<Patch("field", ItemPath(world, d), new[d])>>
            ELSE <<>>
      BY <2>7, <2>8
    <3>3. FieldsOf(world, after[n].patches
                             \o (IF Changed(world, d)
                                 THEN <<Patch("field", ItemPath(world, d), new[d])>>
                                 ELSE <<>>),
                   (N - n + 1 .. N) \cup {d}, new)
      BY <2>2, <2>8, OneMoreField
    <3> QED
      BY <2>1, <3>1, <3>2, <3>3
  <2>10. FieldsOf(world, after[n + 1].inverse, N - (n + 1) + 1 .. N, old)
    <3>1. after[n + 1].inverse
          = after[n].inverse \o FieldPatches(x, d, x.heap[Node(x, d).original])
      <4> DEFINE p == FieldPatches(x, d, Held(x, Draft(d)))
                 q == FieldPatches(x, d, x.heap[Node(x, d).original])
                 y == FinalizeNode(x, d)
      <4> HIDE DEF p, q, y
      <4>1. after[n + 1] = [w |-> y, patches |-> after[n].patches \o p,
                            inverse |-> after[n].inverse \o q]
        BY <2>4 DEF p, q, y
      <4>2. after[n + 1].inverse = after[n].inverse \o q
        BY <4>1
      <4> QED
        BY <4>2 DEF q
    <3>2. FieldPatches(x, d, x.heap[Node(x, d).original])
          = IF Changed(world, d) THEN <<Patch("field", ItemPath(world, d), old[d])>>
            ELSE <<>>
      BY <2>7, <2>8
    <3>3. FieldsOf(world, after[n].inverse
                             \o (IF Changed(world, d)
                                 THEN <<Patch("field", ItemPath(world, d), old[d])>>
                                 ELSE <<>>),
                   (N - n + 1 .. N) \cup {d}, old)
      BY <2>2, <2>8, OneMoreField
    <3> QED
      BY <2>1, <3>1, <3>2, <3>3
  <2>11. after[n + 1].w = FinalizeNode(x, d)
    BY <2>4
  <2>12. Settled(u, after[n + 1].w)
    BY <1>2, <2>2, <2>11, NodeSettled
  <2>13. Pending(n + 1)
    <3> SUFFICES ASSUME NEW e \in 1 .. N - (n + 1), world.assigned = {},
                        world.drafts[e].item
                 PROVE  Mapped(FinalizeNode(x, d), Obj(world.drafts[e].original))
                        = Draft(e)
      BY <2>11
    <3> DEFINE a == world.drafts[e].original
    <3>1. Mapped(x, Obj(a)) = Draft(e)
      BY <2>1, <2>2 DEF x
    <3>2. ~Node(x, d).item \/ Node(x, d).original # a
      <4> SUFFICES ASSUME world.drafts[d].item, world.drafts[d].original = a
                   PROVE  FALSE
        BY <2>5 DEF Node
      <4>1. Mapped(x, Obj(a)) = Draft(d)
        BY <2>6
      <4> QED
        BY <2>1, <3>1, <4>1 DEF Draft
    <3> HIDE DEF a
    <3>3. Mapped(FinalizeNode(x, d), Obj(a)) = Mapped(x, Obj(a))
      BY <1>2, <2>2, <3>2, NodeMapped
    <3> QED
      BY <3>1, <3>3 DEF a
  <2> QED
    BY <2>9, <2>10, <2>12, <2>13 DEF Good
<1> HIDE DEF T
<1>10. N \in T
  BY <1>1, <1>8, <1>9, SetInduction
<1>11. N - N + 1 .. N = D
  BY <1>1
<1>12. Good(N)
  BY <1>1, <1>10 DEF T
<1> QED
  BY <1>4, <1>11, <1>12 DEF Good, u, D, new, old

-----------------------------------------------------------------------------
(***************************************************************************)
(* Nothing was added or deleted: the items are where they were.            *)
(***************************************************************************)
\* An increasing sequence of positions is nowhere behind.
LEMMA Increasing ==
    ASSUME NEW n \in Nat, NEW m \in Nat, NEW f, \A i \in 1 .. n : f[i] \in 1 .. m,
           \A i, j \in 1 .. n : i < j => f[i] < f[j]
    PROVE  \A i \in 1 .. n : i <= f[i]
<1> DEFINE T == {k \in Nat : k \in 1 .. n => k <= f[k]}
<1>1. 0 \in T
  OBVIOUS
<1>2. ASSUME NEW k \in Nat, k \in T PROVE k + 1 \in T
  <2> SUFFICES ASSUME k + 1 \in 1 .. n PROVE k + 1 <= f[k + 1]
    OBVIOUS
  <2>1. f[k + 1] \in 1 .. m
    OBVIOUS
  <2>2. CASE k = 0
    BY <2>1, <2>2
  <2>3. CASE k # 0
    <3>1. k \in 1 .. n /\ k < k + 1
      BY <2>3
    <3>2. k <= f[k] /\ f[k] < f[k + 1] /\ f[k] \in 1 .. m
      BY <1>2, <3>1
    <3> QED
      BY <2>1, <3>2
  <2> QED
    BY <2>2, <2>3
<1> HIDE DEF T
<1>3. Nat \subseteq T
  BY <1>1, <1>2, SetInduction
<1> QED
  BY <1>3 DEF T

\* Without a record the copy has the items of the original in their order.
LEMMA CopyIsOriginal ==
    ASSUME base \in Bases, Sound(world), Tracked(world), world.assigned = {}
    PROVE  world.copy = base.set
<1> DEFINE n == Len(world.copy)
           m == Len(base.set)
           f == [i \in 1 .. n |-> CHOOSE p \in 1 .. m : base.set[p] = world.copy[i]]
           g == [p \in 1 .. m |-> CHOOSE i \in 1 .. n : world.copy[i] = base.set[p]]
<1>1. /\ n \in Nat /\ DOMAIN world.copy = 1 .. n /\ world.copy \in Seq(Value)
      /\ m \in Nat /\ DOMAIN base.set = 1 .. m /\ base.set \in Seq(Value)
      /\ world.original = base.set
  BY BaseParts, WorldParts, LenProperties DEF Sound, BaseKept, World
<1>2. /\ \A i, j \in 1 .. n : world.copy[i] = world.copy[j] => i = j
      /\ \A p, q \in 1 .. m : base.set[p] = base.set[q] => p = q
  BY <1>1, BaseParts DEF Sound, ItemsOnce
<1>3. \A v : ~Recorded(world, v)
  BY DEF Recorded
<1>4. Range(world.copy) = Range(base.set)
  BY <1>1, <1>3 DEF Tracked, OrderKept
<1>5. ASSUME NEW i \in 1 .. n PROVE \E p \in 1 .. m : base.set[p] = world.copy[i]
  <2>1. world.copy[i] \in Range(base.set)
    BY <1>1, <1>4 DEF Range
  <2> QED
    BY <1>1, <2>1 DEF Range
<1>6. ASSUME NEW p \in 1 .. m PROVE \E i \in 1 .. n : world.copy[i] = base.set[p]
  <2>1. base.set[p] \in Range(world.copy)
    BY <1>1, <1>4 DEF Range
  <2> QED
    BY <1>1, <2>1 DEF Range
<1>7. /\ \A i \in 1 .. n : f[i] \in 1 .. m /\ base.set[f[i]] = world.copy[i]
      /\ \A p \in 1 .. m : g[p] \in 1 .. n /\ world.copy[g[p]] = base.set[p]
  BY <1>5, <1>6
<1>8. \A i, j \in 1 .. n : \A p, q \in 1 .. m :
         i < j /\ base.set[p] = world.copy[i] /\ base.set[q] = world.copy[j] => p < q
  BY <1>1, <1>3 DEF Tracked, OrderKept
<1> HIDE DEF f, g, n, m
<1>9. \A i, j \in 1 .. n : i < j => f[i] < f[j]
  BY <1>7, <1>8
<1>10. \A p, q \in 1 .. m : p < q => g[p] < g[q]
  <2> TAKE p, q \in 1 .. m
  <2> HAVE p < q
  <2>1. g[p] \in 1 .. n /\ g[q] \in 1 .. n /\ p \in Nat /\ q \in Nat
    BY <1>7
  <2>2. g[p] # g[q]
    BY <1>2, <1>7, <2>1
  <2>3. ~(g[q] < g[p])
    BY <1>7, <1>8, <2>1
  <2> QED
    BY <1>1, <2>1, <2>2, <2>3
<1>11. \A i \in 1 .. n : i <= f[i]
  BY <1>1, <1>7, <1>9, Increasing
<1>12. \A p \in 1 .. m : p <= g[p]
  BY <1>1, <1>7, <1>10, Increasing
<1>13. ASSUME NEW i \in 1 .. n PROVE i \in 1 .. m /\ world.copy[i] = base.set[i]
  <2>1. f[i] \in 1 .. m /\ g[f[i]] \in 1 .. n /\ world.copy[g[f[i]]] = world.copy[i]
    BY <1>7
  <2>2. g[f[i]] = i
    BY <1>2, <2>1
  <2>3. i <= f[i] /\ f[i] <= i
    BY <1>11, <1>12, <2>1, <2>2
  <2>4. f[i] = i
    BY <1>1, <2>1, <2>3
  <2> QED
    BY <1>7, <2>4
<1>14. ASSUME NEW p \in 1 .. m PROVE p \in 1 .. n
  <2>1. g[p] \in 1 .. n /\ p <= g[p]
    BY <1>7, <1>12
  <2> QED
    BY <1>1, <2>1
<1>15. n = m
  <2>1. n <= m
    BY <1>1, <1>13
  <2>2. m <= n
    BY <1>1, <1>14
  <2> QED
    BY <1>1, <2>1, <2>2
<1> QED
  BY <1>1, <1>13, <1>15, SeqEqual DEF n, m

\* An item stands for itself or for the final value of its draft, ...
LEMMA StandsFor ==
    ASSUME base \in Bases, Sound(world), Tracked(world), world.assigned = {},
           NEW i \in DOMAIN base.set
    PROVE  /\ world.copy = base.set /\ i \in DOMAIN Stands(world)
           /\ \/ Stands(world)[i] = base.set[i]
              \/ \E d \in DOMAIN world.drafts :
                    /\ world.drafts[d].item
                    /\ base.set[i] = Obj(world.drafts[d].original)
                    /\ Stands(world)[i] = FinalElement(world, d)
           /\ \A d \in DOMAIN world.drafts :
                 world.drafts[d].item /\ base.set[i] = Obj(world.drafts[d].original)
                 => Stands(world)[i] = FinalElement(world, d)
<1> DEFINE item == base.set[i]
           v    == SetItemValue(world, item)
           R    == Stands(world)
<1>1. world.copy = base.set
  BY CopyIsOriginal
<1>2. /\ i \in DOMAIN R /\ R[i] = GetValue(world, v)
  BY <1>1 DEF Stands
<1>3. /\ v = item \/ IsDraft(v)
      /\ \A m \in world.setMap : m.item = item => v = m.value
      /\ (\A m \in world.setMap : m.item # item) => v = item /\ ~IsDraft(item)
  BY <1>1, ItemStands
<1>4. ~IsDraft(item)
  <2>1. item \in Range(base.set)
    BY DEF Range
  <2> QED
    BY <2>1, BaseParts
<1>5. \A m \in world.setMap : m.value # m.item =>
         /\ m.value.id \in DOMAIN world.drafts /\ world.drafts[m.value.id].item
         /\ m.item = Obj(world.drafts[m.value.id].original)
  BY DEF Sound, MapOfItems, Tracked, ItemDrafts
<1>6. \A d \in DOMAIN world.drafts : world.drafts[d].item =>
         [item |-> Obj(world.drafts[d].original), value |-> Draft(d)] \in world.setMap
  BY DEF Tracked, ItemDrafts, Recorded
<1> HIDE DEF item, v, R
<1>7. ASSUME NEW d \in DOMAIN world.drafts, world.drafts[d].item,
             item = Obj(world.drafts[d].original)
      PROVE  R[i] = FinalElement(world, d)
  <2> DEFINE m == [item |-> item, value |-> Draft(d)]
  <2>1. m \in world.setMap /\ m.item = item /\ m.value = Draft(d)
    BY <1>6, <1>7
  <2> HIDE DEF m
  <2>2. v = Draft(d)
    BY <1>3, <2>1
  <2> QED
    BY <1>2, <2>2 DEF GetValue, Draft, IsDraft
<1>8. \/ R[i] = item
      \/ \E d \in DOMAIN world.drafts : /\ world.drafts[d].item
                                        /\ item = Obj(world.drafts[d].original)
                                        /\ R[i] = FinalElement(world, d)
  <2>1. CASE v = item
    BY <1>2, <1>4, <2>1 DEF GetValue
  <2>2. CASE v # item
    <3>1. PICK m \in world.setMap : m.item = item /\ v = m.value
      BY <1>3, <2>2
    <3> DEFINE d == v.id
    <3>2. /\ d \in DOMAIN world.drafts /\ world.drafts[d].item
          /\ item = Obj(world.drafts[d].original)
      BY <1>5, <2>2, <3>1
    <3> QED
      BY <1>7, <3>2
  <2> QED
    BY <2>1, <2>2
<1> QED
  BY <1>1, <1>2, <1>7, <1>8 DEF item, R

\* ... and no two stand for the same.
LEMMA StandsOnce ==
    ASSUME base \in Bases, Sound(world), Tracked(world), world.assigned = {}
    PROVE  /\ Stands(world) \in Seq(Value) /\ Len(Stands(world)) = Len(base.set)
           /\ Distinct(Stands(world)) = Stands(world)
<1> DEFINE R == Stands(world)
<1>1. world.copy = base.set
  BY CopyIsOriginal
<1>2. R \in Seq(Value) /\ DOMAIN R = DOMAIN base.set
  BY <1>1, StandsValue
<1>3. /\ DOMAIN base.set = 1 .. Len(base.set) /\ Len(base.set) \in Nat
      /\ base.set \in Seq(Value)
  BY BaseParts, LenProperties
<1>4. Len(R) = Len(base.set)
  BY <1>2, <1>3, LenProperties
<1>5. \A d, e \in DOMAIN world.drafts :
         FinalElement(world, d) = FinalElement(world, e)
         => world.drafts[d].original = world.drafts[e].original
  <2> TAKE d, e \in DOMAIN world.drafts
  <2> HAVE FinalElement(world, d) = FinalElement(world, e)
  <2> DEFINE x == world.drafts[d]
             y == world.drafts[e]
  <2>1. /\ x.original \in DOMAIN base.heap /\ y.original \in DOMAIN base.heap
        /\ x.operated => x.copy \notin DOMAIN base.heap /\ x.copy # Null
        /\ y.operated => y.copy \notin DOMAIN base.heap
    BY HeapKept DEF Sound, DraftsCopied
  <2>2. (IF x.operated THEN x.copy ELSE x.original)
        = (IF y.operated THEN y.copy ELSE y.original)
    BY DEF FinalElement, Node, Obj
  <2>3. CASE x.operated
    <3>1. y.operated /\ x.copy = y.copy
      BY <2>1, <2>2, <2>3
    <3>2. d = e
      BY <2>1, <2>3, <3>1 DEF Tracked, CopiesOwn
    <3> QED
      BY <3>2
  <2>4. CASE ~x.operated
    BY <2>1, <2>2, <2>4
  <2> QED
    BY <2>3, <2>4
<1>6. \A d \in DOMAIN world.drafts : \A i \in DOMAIN base.set :
         FinalElement(world, d) = base.set[i]
         => base.set[i] = Obj(world.drafts[d].original)
  <2> TAKE d \in DOMAIN world.drafts
  <2> TAKE i \in DOMAIN base.set
  <2> HAVE FinalElement(world, d) = base.set[i]
  <2> DEFINE x == world.drafts[d]
  <2>1. x.operated => x.copy \notin DOMAIN base.heap
    BY HeapKept
  <2>2. base.set[i] = Obj(IF x.operated THEN x.copy ELSE x.original)
    BY DEF FinalElement, Node
  <2>3. base.set[i] \in Range(base.set)
    BY DEF Range
  <2>4. IsObj(base.set[i]) => base.set[i].id \in DOMAIN base.heap
    BY <2>3, BaseParts
  <2>5. IsObj(base.set[i]) /\ base.set[i].id = IF x.operated THEN x.copy ELSE x.original
    BY <2>2 DEF Obj, IsObj
  <2>6. ~x.operated
    BY <2>1, <2>4, <2>5
  <2> QED
    BY <2>2, <2>6
<1> HIDE DEF R
<1>7. ASSUME NEW i \in DOMAIN R, NEW j \in DOMAIN R, R[i] = R[j]
      PROVE  i = j
  <2>1. \A k \in DOMAIN R :
           \/ R[k] = base.set[k]
           \/ \E d \in DOMAIN world.drafts :
                 /\ base.set[k] = Obj(world.drafts[d].original)
                 /\ R[k] = FinalElement(world, d)
    BY <1>2, StandsFor DEF R
  <2>2. base.set[i] = base.set[j]
    BY <1>2, <1>5, <1>6, <1>7, <2>1
  <2> QED
    BY <1>2, <2>2, BaseParts
<1> QED
  BY <1>2, <1>4, <1>7, DistinctKeeps DEF R

-----------------------------------------------------------------------------
(***************************************************************************)
(* Applying the patches and the inverse patches.                           *)
(***************************************************************************)
\* The object beside the Set, as create() returns it.
NewSide == IF SideDrafts(world) = {} THEN base.side
           ELSE FinalElement(world, CHOOSE d \in SideDrafts(world) : TRUE)

\* The values of x before and after the recipe, by draft.
OldValues == [d \in DOMAIN world.drafts |-> world.heap[world.drafts[d].original]]
NewValues == [d \in DOMAIN world.drafts |-> world.heap[world.drafts[d].copy]]

\* The Set has patches of its own.
Own == world.operated /\ world.assigned # {}

\* What Finish leaves: the heap of the world W and the patches.
LEMMA FinishPatches ==
    ASSUME base \in Bases, Sound(world), Finish
    PROVE  LET done == FinalizeDrafts(FinalizeAssigned(world))
           IN  /\ patches' = done.patches
                             \o (IF Own THEN ForwardPatches(world') ELSE <<>>)
               /\ inverse' = (IF Own THEN InversePatches(world') ELSE <<>>)
                             \o done.inverse
               /\ result'.side = NewSide
               /\ base' = base
<1> DEFINE done == FinalizeDrafts(FinalizeAssigned(world))
           set  == FinalizeSetValue(done.w)
           own  == set.operated /\ set.assigned # {}
           side(w) == IF SideDrafts(w) = {} THEN base.side
                      ELSE FinalElement(w, CHOOSE d \in SideDrafts(w) : TRUE)
<1>1. /\ world' = set
      /\ result'.side = side(set)
      /\ patches' = done.patches \o (IF own THEN ForwardPatches(set) ELSE <<>>)
      /\ inverse' = (IF own THEN InversePatches(set) ELSE <<>>) \o done.inverse
      /\ base' = base
  BY DEF Finish
<1>2. /\ world'.operated = world.operated /\ world'.assigned = world.assigned
      /\ world'.drafts = world.drafts
  BY FinishSet
<1> HIDE DEF set, done
<1>3. own <=> Own
  BY <1>1, <1>2 DEF Own
<1>4. side(set) = NewSide
  <2>1. SideDrafts(set) = SideDrafts(world)
    BY <1>1, <1>2 DEF SideDrafts
  <2>2. \A d : FinalElement(set, d) = FinalElement(world, d)
    BY <1>1, <1>2 DEF FinalElement, Node
  <2> QED
    BY <2>1, <2>2 DEF NewSide
<1> QED
  BY <1>1, <1>3, <1>4 DEF done

\* The values v of the changed drafts D are those of the trees T2 and x2, and there
\* is one wherever these differ from the trees T1 and x1.
Leads(w, D, v, V, T1, T2, x1, x2) ==
    /\ \A d \in D : Changed(world, d) =>
          LET i == ItemPath(world, d)
              t == <<Obj(0)>> \o Leaf(w, v[d])
          IN  /\ i = 0 => t = x2
              /\ i # 0 => i \in DOMAIN V /\ t = T2[i]
    /\ \A i \in DOMAIN V :
          T1[i] = T2[i] \/ \E d \in D : Changed(world, d) /\ ItemPath(world, d) = i
    /\ x1 = x2 \/ \E d \in D : Changed(world, d) /\ ItemPath(world, d) = 0

\* The drafts' patches lead from the one to the other.
LEMMA FieldsLead ==
    ASSUME NEW w, NEW ps, NEW D, NEW v, FieldsOf(world, ps, D, v),
           NEW V \in Seq(Value), NEW T1, NEW T2, NEW x1, NEW x2,
           Leads(w, D, v, V, T1, T2, x1, x2)
    PROVE  ApplyAll(w, Shown(V, T1, x1), ps) = Shown(V, T2, x2)
<1>1. Len(ps) \in Nat
  BY LenProperties DEF FieldsOf
<1>2. ASSUME NEW n \in 1 .. Len(ps)
      PROVE  /\ ps[n].op = "field"
             /\ ps[n].at = 0 => Given(w, ps[n]) = x2
             /\ ps[n].at # 0 => ps[n].at \in DOMAIN V /\ Given(w, ps[n]) = T2[ps[n].at]
  <2>1. PICK d \in D : Changed(world, d)
                       /\ ps[n] = Patch("field", ItemPath(world, d), v[d])
    BY DEF FieldsOf
  <2>2. /\ ps[n].op = "field" /\ ps[n].at = ItemPath(world, d)
        /\ Given(w, ps[n]) = <<Obj(0)>> \o Leaf(w, v[d])
    BY <2>1 DEF Patch, Given
  <2> QED
    BY <2>1, <2>2 DEF Leads
<1>3. ASSUME NEW d \in D, Changed(world, d)
      PROVE  \E n \in 1 .. Len(ps) : ps[n].at = ItemPath(world, d)
  <2>1. PICK n \in 1 .. Len(ps) : ps[n] = Patch("field", ItemPath(world, d), v[d])
    BY <1>3 DEF FieldsOf
  <2> QED
    BY <2>1 DEF Patch
<1>4. \A i \in DOMAIN V : T1[i] = T2[i] \/ \E n \in 1 .. Len(ps) : ps[n].at = i
  BY <1>3 DEF Leads
<1>5. x1 = x2 \/ \E n \in 1 .. Len(ps) : ps[n].at = 0
  BY <1>3 DEF Leads
<1> QED
  BY <1>1, <1>2, <1>4, <1>5, FieldsApplied

\* The world W as Finish leaves it.
EndOf(W) == W.heap = FinalizeAssigned(world).heap /\ W.drafts = world.drafts

\* The tree of an object is that of its x.
LEMMA ObjectTree ==
    ASSUME NEW w, NEW a
    PROVE  Tree(w, Obj(a)) = <<Obj(0)>> \o Leaf(w, w.heap[a])
  BY DEF Tree, Held, IsRef, IsObj, IsDraft, Obj

\* A draft's patches have the trees of its original and of its copy, and without a
\* patch these are equal.
LEMMA DraftTrees ==
    ASSUME base \in Bases, Sound(world), Tracked(world), NEW W, EndOf(W),
           NEW d \in DOMAIN world.drafts
    PROVE  LET n == world.drafts[d]
           IN  /\ <<Obj(0)>> \o Leaf(W, OldValues[d]) = Tree(W, Obj(n.original))
               /\ n.operated => <<Obj(0)>> \o Leaf(W, NewValues[d])
                                = Tree(W, FinalElement(world, d))
               /\ ~(n.operated /\ n.assigned) =>
                     Tree(W, FinalElement(world, d)) = Tree(W, Obj(n.original))
<1> DEFINE n == world.drafts[d]
<1>1. /\ W.heap[n.original] = OldValues[d]
      /\ n.operated => W.heap[n.copy] = NewValues[d]
  BY HeapKept DEF EndOf, OldValues, NewValues
<1>2. FinalElement(world, d) = Obj(IF n.operated THEN n.copy ELSE n.original)
  BY DEF FinalElement, Node
<1>3. n.operated /\ ~n.assigned => NewValues[d] = OldValues[d]
  BY DEF Tracked, CopiesOwn, OldValues, NewValues
<1> HIDE DEF n
<1>4. /\ <<Obj(0)>> \o Leaf(W, OldValues[d]) = Tree(W, Obj(n.original))
      /\ n.operated => <<Obj(0)>> \o Leaf(W, NewValues[d]) = Tree(W, Obj(n.copy))
  BY <1>1, ObjectTree
<1>5. n.operated => FinalElement(world, d) = Obj(n.copy)
  BY <1>2
<1>6. ~n.operated => FinalElement(world, d) = Obj(n.original)
  BY <1>2
<1>7. CASE n.operated
  <2>1. ~n.assigned => Tree(W, Obj(n.copy)) = Tree(W, Obj(n.original))
    BY <1>3, <1>4, <1>7
  <2> QED
    BY <1>4, <1>5, <1>7, <2>1 DEF n
<1>8. CASE ~n.operated
  BY <1>4, <1>6, <1>8 DEF n
<1> QED
  BY <1>7, <1>8

\* A position of 0 is that of the object beside the Set.
LEMMA PathOfItem ==
    ASSUME base \in Bases, Sound(world), Tracked(world),
           NEW d \in DOMAIN world.drafts
    PROVE  ItemPath(world, d) = 0 <=> ~world.drafts[d].item
<1>1. ASSUME world.drafts[d].item PROVE ItemPath(world, d) # 0
  <2>1. ItemPath(world, d) \in 1 .. Len(base.set)
    BY <1>1, ItemPlace, BaseParts, LenProperties
  <2> QED
    BY <2>1
<1>2. ASSUME ~world.drafts[d].item PROVE ItemPath(world, d) = 0
  BY <1>2 DEF ItemPath, Node
<1> QED
  BY <1>1, <1>2

\* The object beside the Set has one draft at most, with the patch that leads from
\* the old object to the new one.
LEMMA SideTrees ==
    ASSUME base \in Bases, Sound(world), Tracked(world), NEW W, EndOf(W)
    PROVE  LET x1 == Tree(W, base.side)
               x2 == Tree(W, NewSide)
           IN  /\ \A d \in DOMAIN world.drafts :
                     Changed(world, d) /\ ~world.drafts[d].item =>
                        /\ <<Obj(0)>> \o Leaf(W, OldValues[d]) = x1
                        /\ <<Obj(0)>> \o Leaf(W, NewValues[d]) = x2
               /\ \/ x1 = x2
                  \/ \E d \in DOMAIN world.drafts :
                        Changed(world, d) /\ ~world.drafts[d].item
<1> DEFINE x1 == Tree(W, base.side)
           x2 == Tree(W, NewSide)
<1>1. x1 = Tree(W, Obj(base.side.id))
  <2>1. IsObj(base.side)
    BY SetBasesAssumption DEF IsBase
  <2>2. IsRef(base.side) /\ Held(W, base.side) = W.heap[base.side.id]
    BY <2>1 DEF IsRef, Held, IsObj, IsDraft
  <2>3. x1 = <<Obj(0)>> \o Leaf(W, W.heap[base.side.id])
    BY <2>2 DEF Tree
  <2> QED
    BY <2>3, ObjectTree
<1>2. \A d \in DOMAIN world.drafts : ~world.drafts[d].item =>
         world.drafts[d].original = base.side.id
  BY DEF Tracked, ItemDrafts
<1>3. \A d, e \in DOMAIN world.drafts :
         ~world.drafts[d].item /\ ~world.drafts[e].item => d = e
  BY DEF Tracked, ItemDrafts
<1> HIDE DEF x1, x2
<1>4. ASSUME NEW d \in DOMAIN world.drafts, ~world.drafts[d].item
      PROVE  x2 = Tree(W, FinalElement(world, d))
  <2>1. d \in SideDrafts(world) /\ \A e \in SideDrafts(world) : e = d
    BY <1>3, <1>4 DEF SideDrafts
  <2>2. NewSide = FinalElement(world, d)
    BY <2>1 DEF NewSide
  <2> QED
    BY <2>2 DEF x2
<1>5. ASSUME NEW d \in DOMAIN world.drafts, Changed(world, d), ~world.drafts[d].item
      PROVE  /\ <<Obj(0)>> \o Leaf(W, OldValues[d]) = x1
             /\ <<Obj(0)>> \o Leaf(W, NewValues[d]) = x2
  <2>1. world.drafts[d].operated /\ world.drafts[d].original = base.side.id
    BY <1>2, <1>5 DEF Changed
  <2>2. <<Obj(0)>> \o Leaf(W, OldValues[d]) = Tree(W, Obj(world.drafts[d].original))
    BY DraftTrees
  <2>3. <<Obj(0)>> \o Leaf(W, NewValues[d]) = Tree(W, FinalElement(world, d))
    BY <2>1, DraftTrees
  <2>4. x2 = Tree(W, FinalElement(world, d))
    BY <1>4, <1>5
  <2> QED
    BY <1>1, <2>1, <2>2, <2>3, <2>4
<1>6. ASSUME \A d \in DOMAIN world.drafts : world.drafts[d].item \/ ~Changed(world, d)
      PROVE  x1 = x2
  <2>1. CASE SideDrafts(world) = {}
    BY <2>1 DEF NewSide, x1, x2
  <2>2. CASE SideDrafts(world) # {}
    <3>1. PICK d \in DOMAIN world.drafts : ~world.drafts[d].item
      BY <2>2 DEF SideDrafts
    <3>2. HasPath(world, d)
      BY <3>1 DEF HasPath, Node
    <3>3. ~(world.drafts[d].operated /\ world.drafts[d].assigned)
      BY <1>6, <3>1, <3>2 DEF Changed
    <3>4. Tree(W, FinalElement(world, d)) = Tree(W, Obj(world.drafts[d].original))
      BY <3>3, DraftTrees
    <3>5. x2 = Tree(W, FinalElement(world, d))
      BY <1>4, <3>1
    <3>6. world.drafts[d].original = base.side.id
      BY <1>2, <3>1
    <3> QED
      BY <1>1, <3>4, <3>5, <3>6
  <2> QED
    BY <2>1, <2>2
<1> QED
  BY <1>5, <1>6 DEF x1, x2

\* Without a patch of an item the drafts' patches change the object only.
LEMMA SideApplied ==
    ASSUME base \in Bases, Sound(world), Tracked(world), NEW W, EndOf(W),
           \A d \in DOMAIN world.drafts : world.drafts[d].item => ~Changed(world, d),
           NEW V \in Seq(Value), NEW T, NEW ps
    PROVE  LET D  == DOMAIN world.drafts
               x1 == Tree(W, base.side)
               x2 == Tree(W, NewSide)
           IN  /\ FieldsOf(world, ps, D, NewValues) =>
                     ApplyAll(W, Shown(V, T, x1), ps) = Shown(V, T, x2)
               /\ FieldsOf(world, ps, D, OldValues) =>
                     ApplyAll(W, Shown(V, T, x2), ps) = Shown(V, T, x1)
<1> DEFINE D  == DOMAIN world.drafts
           x1 == Tree(W, base.side)
           x2 == Tree(W, NewSide)
<1>1. /\ \A d \in D : Changed(world, d) /\ ~world.drafts[d].item =>
            /\ <<Obj(0)>> \o Leaf(W, OldValues[d]) = x1
            /\ <<Obj(0)>> \o Leaf(W, NewValues[d]) = x2
      /\ x1 = x2 \/ \E d \in D : Changed(world, d) /\ ~world.drafts[d].item
  BY SideTrees
<1>2. \A d \in D : ItemPath(world, d) = 0 <=> ~world.drafts[d].item
  BY PathOfItem
<1> HIDE DEF x1, x2, D
<1>3. ASSUME FieldsOf(world, ps, D, NewValues)
      PROVE  ApplyAll(W, Shown(V, T, x1), ps) = Shown(V, T, x2)
  <2>1. Leads(W, D, NewValues, V, T, T, x1, x2)
    BY <1>1, <1>2 DEF D, Leads
  <2> QED
    BY <1>3, <2>1, FieldsLead
<1>4. ASSUME FieldsOf(world, ps, D, OldValues)
      PROVE  ApplyAll(W, Shown(V, T, x2), ps) = Shown(V, T, x1)
  <2>1. Leads(W, D, OldValues, V, T, T, x2, x1)
    BY <1>1, <1>2 DEF D, Leads
  <2> QED
    BY <1>4, <2>1, FieldsLead
<1> QED
  BY <1>3, <1>4 DEF D, x1, x2

\* Where nothing was added or deleted, the items' patches lead from the items to
\* what stands for them, and back.
LEMMA PlacesLead ==
    ASSUME base \in Bases, Sound(world), Tracked(world), world.assigned = {},
           NEW W, EndOf(W)
    PROVE  LET D  == DOMAIN world.drafts
               V  == base.set
               R  == Stands(world)
               x1 == Tree(W, base.side)
               x2 == Tree(W, NewSide)
           IN  /\ Leads(W, D, NewValues, V, Trees(W, V), Trees(W, R), x1, x2)
               /\ Leads(W, D, OldValues, R, Trees(W, R), Trees(W, V), x2, x1)
<1> DEFINE D  == DOMAIN world.drafts
           V  == base.set
           R  == Stands(world)
           x1 == Tree(W, base.side)
           x2 == Tree(W, NewSide)
<1>1. /\ \A d \in D : Changed(world, d) /\ ~world.drafts[d].item =>
            /\ <<Obj(0)>> \o Leaf(W, OldValues[d]) = x1
            /\ <<Obj(0)>> \o Leaf(W, NewValues[d]) = x2
      /\ x1 = x2 \/ \E d \in D : Changed(world, d) /\ ~world.drafts[d].item
  BY SideTrees
<1>2. \A d \in D : ItemPath(world, d) = 0 <=> ~world.drafts[d].item
  BY PathOfItem
<1>3. DOMAIN R = DOMAIN V
  BY CopyIsOriginal, StandsValue
<1>4. \A i \in DOMAIN V : Trees(W, V)[i] = Tree(W, V[i]) /\ Trees(W, R)[i] = Tree(W, R[i])
  BY <1>3 DEF Trees
<1>5. \A i \in DOMAIN V :
         /\ \/ R[i] = V[i]
            \/ \E d \in D : /\ world.drafts[d].item
                            /\ V[i] = Obj(world.drafts[d].original)
                            /\ R[i] = FinalElement(world, d)
         /\ \A d \in D : world.drafts[d].item /\ V[i] = Obj(world.drafts[d].original)
                         => R[i] = FinalElement(world, d)
  BY StandsFor
<1>6. \A d \in D : world.drafts[d].item =>
         /\ ItemPath(world, d) \in DOMAIN V
         /\ V[ItemPath(world, d)] = Obj(world.drafts[d].original)
  BY ItemPlace
<1>7. \A i, j \in DOMAIN V : V[i] = V[j] => i = j
  BY BaseParts
<1>8. \A d \in D :
         /\ <<Obj(0)>> \o Leaf(W, OldValues[d]) = Tree(W, Obj(world.drafts[d].original))
         /\ world.drafts[d].operated =>
               <<Obj(0)>> \o Leaf(W, NewValues[d]) = Tree(W, FinalElement(world, d))
         /\ ~(world.drafts[d].operated /\ world.drafts[d].assigned) =>
               Tree(W, FinalElement(world, d)) = Tree(W, Obj(world.drafts[d].original))
  BY DraftTrees
<1>9. \A d \in D : Changed(world, d)
                   <=> world.drafts[d].operated /\ world.drafts[d].assigned
  BY DEF Changed, HasPath
<1> HIDE DEF D, V, R, x1, x2
<1>10. ASSUME NEW d \in D, Changed(world, d), world.drafts[d].item
       PROVE  LET i == ItemPath(world, d)
              IN  /\ i \in DOMAIN V
                  /\ <<Obj(0)>> \o Leaf(W, OldValues[d]) = Trees(W, V)[i]
                  /\ <<Obj(0)>> \o Leaf(W, NewValues[d]) = Trees(W, R)[i]
  <2> DEFINE i == ItemPath(world, d)
  <2>1. i \in DOMAIN V /\ V[i] = Obj(world.drafts[d].original)
    BY <1>6, <1>10
  <2> HIDE DEF i
  <2>2. R[i] = FinalElement(world, d)
    BY <1>5, <1>10, <2>1
  <2>3. Trees(W, V)[i] = Tree(W, V[i]) /\ Trees(W, R)[i] = Tree(W, R[i])
    BY <1>4, <2>1
  <2>4. <<Obj(0)>> \o Leaf(W, NewValues[d]) = Tree(W, FinalElement(world, d))
    BY <1>8, <1>9, <1>10
  <2>5. <<Obj(0)>> \o Leaf(W, OldValues[d]) = Tree(W, V[i])
    BY <1>8, <2>1
  <2> QED
    BY <2>1, <2>2, <2>3, <2>4, <2>5 DEF i
<1>11. ASSUME NEW i \in DOMAIN V,
              ~\E d \in D : Changed(world, d) /\ ItemPath(world, d) = i
       PROVE  Trees(W, V)[i] = Trees(W, R)[i]
  <2>1. CASE R[i] = V[i]
    BY <1>4, <2>1
  <2>2. CASE \E d \in D : /\ world.drafts[d].item
                          /\ V[i] = Obj(world.drafts[d].original)
                          /\ R[i] = FinalElement(world, d)
    <3>1. PICK d \in D : /\ world.drafts[d].item
                         /\ V[i] = Obj(world.drafts[d].original)
                         /\ R[i] = FinalElement(world, d)
      BY <2>2
    <3>2. ItemPath(world, d) = i
      BY <1>6, <1>7, <3>1
    <3>3. ~(world.drafts[d].operated /\ world.drafts[d].assigned)
      BY <1>9, <1>11, <3>2
    <3> QED
      BY <1>4, <1>8, <3>1, <3>3
  <2> QED
    BY <1>5, <2>1, <2>2
<1>12. Leads(W, D, NewValues, V, Trees(W, V), Trees(W, R), x1, x2)
  BY <1>1, <1>2, <1>10, <1>11 DEF Leads
<1>13. Leads(W, D, OldValues, R, Trees(W, R), Trees(W, V), x2, x1)
  BY <1>1, <1>2, <1>3, <1>10, <1>11 DEF Leads
<1> QED
  BY <1>12, <1>13 DEF D, V, R, x1, x2

\* The Set's own patches, and their inverse.
LEMMA OwnPatches ==
    ASSUME NEW w, NEW x, w.original \in Seq(Value), w.copy \in Seq(Value),
           IsInjective(w.original), IsInjective(w.copy)
    PROVE  LET A == w.original
               B == w.copy
           IN  /\ ForwardPatches(w) \in Seq(AnyPatch)
               /\ InversePatches(w) \in Seq(AnyPatch)
               /\ \E R \in Seq(Value) :
                     /\ IsInjective(R) /\ Range(R) = Range(B)
                     /\ Showing(w, ApplyAll(w, Shown(A, Trees(w, A), x),
                                            ForwardPatches(w)), R, x)
               /\ \E R \in Seq(Value) :
                     /\ IsInjective(R) /\ Range(R) = Range(A)
                     /\ Showing(w, ApplyAll(w, Shown(B, Trees(w, B), x),
                                            InversePatches(w)), R, x)
<1> DEFINE A == w.original
           B == w.copy
           removed == Missing(A, B)
           added   == Missing(B, A)
           made(op, r) == [i \in DOMAIN r |-> Patch(op, 0, r[i])]
<1>1. /\ removed \in Seq(Value) /\ Range(removed) = Range(A) \ Range(B)
      /\ IsInjective(removed)
  BY MissingItems
<1>2. /\ added \in Seq(Value) /\ Range(added) = Range(B) \ Range(A)
      /\ IsInjective(added)
  BY MissingItems
<1>3. /\ ForwardPatches(w) = made("remove", removed) \o made("add", added)
      /\ InversePatches(w) = Reverse(made("add", removed) \o made("remove", added))
  BY DEF ForwardPatches, InversePatches
<1> HIDE DEF removed, added
<1>4. \A op \in {"add", "remove"} :
         /\ made(op, removed) \in Seq(AnyPatch)
         /\ PatchesOf(made(op, removed), op, Range(A) \ Range(B))
         /\ made(op, added) \in Seq(AnyPatch)
         /\ PatchesOf(made(op, added), op, Range(B) \ Range(A))
  <2> TAKE op \in {"add", "remove"}
  <2>1. made(op, removed) \in Seq(AnyPatch)
        /\ PatchesOf(made(op, removed), op, Range(removed))
    BY <1>1, PatchesMade
  <2>2. made(op, added) \in Seq(AnyPatch)
        /\ PatchesOf(made(op, added), op, Range(added))
    BY <1>2, PatchesMade
  <2> QED
    BY <1>1, <1>2, <2>1, <2>2
<1> HIDE DEF made
<1> DEFINE ps == made("remove", removed)
           qs == made("add", added)
           rs == Reverse(made("remove", added))
           ts == Reverse(made("add", removed))
<1>5. /\ rs \in Seq(AnyPatch) /\ PatchesOf(rs, "remove", Range(B) \ Range(A))
      /\ ts \in Seq(AnyPatch) /\ PatchesOf(ts, "add", Range(A) \ Range(B))
  BY <1>4, PatchesReversed
<1>6. InversePatches(w) = rs \o ts
  BY <1>3, <1>4, ReversedCat
<1>7. /\ ps \in Seq(AnyPatch) /\ PatchesOf(ps, "remove", Range(A) \ Range(B))
      /\ qs \in Seq(AnyPatch) /\ PatchesOf(qs, "add", Range(B) \ Range(A))
      /\ ForwardPatches(w) = ps \o qs
  BY <1>3, <1>4
<1> HIDE DEF ps, qs, rs, ts, A, B
<1>8. A \in Seq(Value) /\ B \in Seq(Value) /\ IsInjective(A) /\ IsInjective(B)
  BY DEF A, B
<1>9. \E R \in Seq(Value) :
         /\ IsInjective(R) /\ Range(R) = Range(B)
         /\ Showing(w, ApplyAll(w, Shown(A, Trees(w, A), x), ps \o qs), R, x)
  BY <1>7, <1>8, Exchanged
<1>10. \E R \in Seq(Value) :
          /\ IsInjective(R) /\ Range(R) = Range(A)
          /\ Showing(w, ApplyAll(w, Shown(B, Trees(w, B), x), rs \o ts), R, x)
  BY <1>5, <1>8, Exchanged
<1>11. ps \o qs \in Seq(AnyPatch) /\ rs \o ts \in Seq(AnyPatch)
  BY <1>5, <1>7
<1> QED
  BY <1>6, <1>7, <1>9, <1>10, <1>11 DEF A, B

\* The same trees of as many items, some of them in another order.
LEMMA EqualShown ==
    ASSUME NEW w, NEW x, NEW s, NEW U \in Seq(Value), IsInjective(U),
           NEW R \in Seq(Value), IsInjective(R), Range(U) = Range(R),
           Showing(w, s, U, x)
    PROVE  Equal(s, Shown(R, Trees(w, R), x))
  BY EqualReordered DEF Showing

\* The world W, the Set and the patches that Finish leaves: the patches lead from
\* the base to the new state, and back.
LEMMA PatchesLead ==
    ASSUME base \in Bases, Sound(world), Tracked(world), NEW W, EndOf(W),
           W.original = base.set, NEW set, world.operated => W.copy = set,
           set = IF world.operated THEN Distinct(Stands(world)) ELSE base.set,
           NEW ps, FieldsOf(world, ps, DOMAIN world.drafts, NewValues),
           NEW qs, FieldsOf(world, qs, DOMAIN world.drafts, OldValues)
    PROVE  LET s == Shown(base.set, Trees(W, base.set), Tree(W, base.side))
               t == Shown(set, Trees(W, set), Tree(W, NewSide))
           IN  /\ Equal(ApplyAll(W, s, ps \o (IF Own THEN ForwardPatches(W) ELSE <<>>)),
                        t)
               /\ Equal(ApplyAll(W, t, (IF Own THEN InversePatches(W) ELSE <<>>) \o qs),
                        s)
<1> DEFINE A  == base.set
           x1 == Tree(W, base.side)
           x2 == Tree(W, NewSide)
           s  == Shown(A, Trees(W, A), x1)
           t  == Shown(set, Trees(W, set), x2)
           D  == DOMAIN world.drafts
<1>1. /\ A \in Seq(Value) /\ IsInjective(A)
      /\ Stands(world) \in Seq(Value)
  BY BaseParts, StandsValue DEF IsInjective
<1>2. set \in Seq(Value) /\ IsInjective(set)
  BY <1>1, DistinctOnce
<1>3. ps \in Seq(AnyPatch) /\ qs \in Seq(AnyPatch)
  BY DEF FieldsOf
<1>4. ASSUME \A d \in D : world.drafts[d].item => ~Changed(world, d),
             NEW V \in Seq(Value), NEW T
      PROVE  /\ ApplyAll(W, Shown(V, T, x1), ps) = Shown(V, T, x2)
             /\ ApplyAll(W, Shown(V, T, x2), qs) = Shown(V, T, x1)
  BY <1>4, SideApplied
<1>5. CASE Own
  <2> DEFINE F == ForwardPatches(W)
             I == InversePatches(W)
  <2>1. W.original = A /\ W.copy = set
    BY <1>5 DEF Own
  <2>2. \A d \in D : world.drafts[d].item => ~Changed(world, d)
    BY <1>5 DEF Own, Changed, HasPath, Node
  <2> HIDE DEF x1, x2, D, A
  <2>3. /\ F \in Seq(AnyPatch) /\ I \in Seq(AnyPatch)
        /\ \E R \in Seq(Value) :
              /\ IsInjective(R) /\ Range(R) = Range(set)
              /\ Showing(W, ApplyAll(W, Shown(A, Trees(W, A), x2), F), R, x2)
        /\ \E R \in Seq(Value) :
              /\ IsInjective(R) /\ Range(R) = Range(A)
              /\ Showing(W, ApplyAll(W, t, I), R, x2)
    BY <1>1, <1>2, <2>1, OwnPatches
  <2> HIDE DEF F, I
  <2>4. Equal(ApplyAll(W, s, ps \o F), t)
    <3>1. ApplyAll(W, s, ps \o F) = ApplyAll(W, ApplyAll(W, s, ps), F)
      BY <1>3, <2>3, ApplyCat
    <3>2. ApplyAll(W, s, ps) = Shown(A, Trees(W, A), x2)
      BY <1>1, <1>4, <2>2
    <3>3. PICK R \in Seq(Value) :
             /\ IsInjective(R) /\ Range(R) = Range(set)
             /\ Showing(W, ApplyAll(W, Shown(A, Trees(W, A), x2), F), R, x2)
      BY <2>3
    <3>4. Showing(W, ApplyAll(W, s, ps \o F), R, x2)
      BY <3>1, <3>2, <3>3
    <3> QED
      BY <1>2, <3>3, <3>4, EqualShown
  <2>5. Equal(ApplyAll(W, t, I \o qs), s)
    <3>1. ApplyAll(W, t, I \o qs) = ApplyAll(W, ApplyAll(W, t, I), qs)
      BY <1>3, <2>3, ApplyCat
    <3>2. PICK R \in Seq(Value) :
             /\ IsInjective(R) /\ Range(R) = Range(A)
             /\ Showing(W, ApplyAll(W, t, I), R, x2)
      BY <2>3
    <3>3. PICK V \in Seq(Value) :
             Len(V) = Len(R) /\ ApplyAll(W, t, I) = Shown(V, Trees(W, R), x2)
      BY <3>2 DEF Showing
    <3>4. ApplyAll(W, Shown(V, Trees(W, R), x2), qs) = Shown(V, Trees(W, R), x1)
      BY <1>4, <2>2
    <3>5. Showing(W, ApplyAll(W, t, I \o qs), R, x1)
      BY <3>1, <3>3, <3>4 DEF Showing
    <3> QED
      BY <1>1, <3>2, <3>5, EqualShown
  <2> QED
    BY <1>5, <2>4, <2>5 DEF A, F, I, x1, x2
<1>6. CASE ~Own
  <2>1. ps \o <<>> = ps /\ <<>> \o qs = qs
    BY <1>3
  <2>2. CASE world.operated
    <3> DEFINE R == Stands(world)
    <3>1. world.assigned = {}
      BY <1>6, <2>2 DEF Own
    <3>2. set = R /\ Len(R) = Len(A)
      BY <2>2, <3>1, StandsOnce
    <3>3. /\ Leads(W, D, NewValues, A, Trees(W, A), Trees(W, R), x1, x2)
          /\ Leads(W, D, OldValues, R, Trees(W, R), Trees(W, A), x2, x1)
      BY <3>1, PlacesLead
    <3> HIDE DEF x1, x2, D, A, R
    <3>4. ApplyAll(W, s, ps) = Shown(A, Trees(W, R), x2)
      BY <1>1, <3>3, FieldsLead DEF D
    <3>5. ApplyAll(W, t, qs) = Shown(R, Trees(W, A), x1)
      BY <1>2, <3>2, <3>3, FieldsLead DEF D
    <3>6. /\ Equal(Shown(A, Trees(W, R), x2), Shown(R, Trees(W, R), x2))
          /\ Equal(Shown(R, Trees(W, A), x1), Shown(A, Trees(W, A), x1))
      BY <1>1, <1>2, <3>2, EqualInPlace
    <3>7. Equal(ApplyAll(W, s, ps), t) /\ Equal(ApplyAll(W, t, qs), s)
      BY <3>2, <3>4, <3>5, <3>6
    <3> QED
      BY <1>6, <2>1, <3>7 DEF A, x1, x2
  <2>3. CASE ~world.operated
    <3>1. set = A
      BY <2>3
    <3>2. \A d \in D : world.drafts[d].item => ~Changed(world, d)
      BY <2>3 DEF Tracked, ItemDrafts, Changed
    <3> HIDE DEF x1, x2, D, A
    <3>3. ApplyAll(W, s, ps) = t /\ ApplyAll(W, t, qs) = s
      BY <1>1, <1>4, <3>1, <3>2
    <3>4. Equal(t, t) /\ Equal(s, s)
      BY <1>1, <3>1, EqualInPlace
    <3>5. Equal(ApplyAll(W, s, ps), t) /\ Equal(ApplyAll(W, t, qs), s)
      BY <3>3, <3>4
    <3> QED
      BY <1>6, <2>1, <3>5 DEF A, x1, x2
  <2> QED
    BY <2>2, <2>3
<1> QED
  BY <1>5, <1>6

\* What Finish leaves can be replayed and inverted.
LEMMA FinishReplays ==
    ASSUME TInv, Finish
    PROVE  PatchesReplay' /\ InverseRestores'
<1>1. base \in Bases /\ Sound(world) /\ Tracked(world)
  BY DEF TInv, IInv, Finish
<1> DEFINE done == FinalizeDrafts(FinalizeAssigned(world))
<1>2. /\ FieldsOf(world, done.patches, DOMAIN world.drafts, NewValues)
      /\ FieldsOf(world, done.inverse, DOMAIN world.drafts, OldValues)
  BY <1>1, DraftPatches DEF NewValues, OldValues
<1>3. /\ patches' = done.patches \o (IF Own THEN ForwardPatches(world') ELSE <<>>)
      /\ inverse' = (IF Own THEN InversePatches(world') ELSE <<>>) \o done.inverse
      /\ result'.side = NewSide
      /\ base' = base
  BY <1>1, FinishPatches
<1>4. /\ result'.set = IF world.operated THEN Distinct(Stands(world)) ELSE base.set
      /\ EndOf(world') /\ world'.original = base.set
      /\ world.operated => world'.copy = result'.set
  BY <1>1, FinishSet DEF EndOf
<1> HIDE DEF done
<1>5. PICK W : W = world'
  OBVIOUS
<1>6. PICK set : set = result'.set
  OBVIOUS
<1> DEFINE s == Shown(base.set, Trees(W, base.set), Tree(W, base.side))
           t == Shown(set, Trees(W, set), Tree(W, NewSide))
<1>7. /\ Equal(ApplyAll(W, s, done.patches
                              \o (IF Own THEN ForwardPatches(W) ELSE <<>>)), t)
      /\ Equal(ApplyAll(W, t, (IF Own THEN InversePatches(W) ELSE <<>>)
                              \o done.inverse), s)
  BY <1>1, <1>2, <1>4, <1>5, <1>6, PatchesLead
<1>8. /\ s = StateOf(W, base.set, base.side)
      /\ t = StateOf(W, set, NewSide)
  BY StateShown
<1> HIDE DEF s, t
<1>9. /\ Equal(ApplyAll(W, s, patches'), t) /\ Equal(ApplyAll(W, t, inverse'), s)
      /\ s = StateOf(world', base'.set, base'.side)
      /\ t = StateOf(world', result'.set, result'.side)
  BY <1>3, <1>5, <1>6, <1>7, <1>8
<1> QED
  BY <1>5, <1>9 DEF PatchesReplay, InverseRestores, Before, After

\* apply() of the patches to the base gives what create() returned, whatever order
\* the recipe left the items in.
THEOREM SetPatchesReplay == Spec => []PatchesReplay
<1>1. Init => PatchesReplay
  BY DEF Init, PatchesReplay
<1>2. TInv /\ PatchesReplay /\ [Step]_vars => PatchesReplay'
  <2> SUFFICES ASSUME TInv, PatchesReplay, [Step]_vars PROVE PatchesReplay'
    OBVIOUS
  <2>1. CASE UNCHANGED vars
    BY <2>1 DEF vars, PatchesReplay, Before, After
  <2>2. CASE Finish
    BY <2>2, FinishReplays
  <2>3. CASE Recipe
    <3>1. phase' = "recipe"
      BY <2>3 DEF Recipe, Iterate, NextItem, ClearCall, ReadSide, AddCall,
                  DeleteCall, NewObject, WriteElement, Read, Change
    <3> QED
      BY <3>1 DEF PatchesReplay
  <2> QED
    BY <2>1, <2>2, <2>3 DEF Step
<1> QED
  BY <1>1, <1>2, TrackedInvariant, PTL DEF Spec

\* The inverse patches lead back to the base.
THEOREM SetPatchesInvert == Spec => []InverseRestores
<1>1. Init => InverseRestores
  BY DEF Init, InverseRestores
<1>2. TInv /\ InverseRestores /\ [Step]_vars => InverseRestores'
  <2> SUFFICES ASSUME TInv, InverseRestores, [Step]_vars PROVE InverseRestores'
    OBVIOUS
  <2>1. CASE UNCHANGED vars
    BY <2>1 DEF vars, InverseRestores, Before, After
  <2>2. CASE Finish
    BY <2>2, FinishReplays
  <2>3. CASE Recipe
    <3>1. phase' = "recipe"
      BY <2>3 DEF Recipe, Iterate, NextItem, ClearCall, ReadSide, AddCall,
                  DeleteCall, NewObject, WriteElement, Read, Change
    <3> QED
      BY <3>1 DEF InverseRestores
  <2> QED
    BY <2>1, <2>2, <2>3 DEF Step
<1> QED
  BY <1>1, <1>2, TrackedInvariant, PTL DEF Spec
=============================================================================
