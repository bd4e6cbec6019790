---------------------------- MODULE ArrayProofs -----------------------------
(***************************************************************************)
(* Safety of array drafts for every base state and every bound: natively   *)
(* run methods and the way from one method to the other, the recipe step   *)
(* by step, and its end.  The array draft reads like an ordinary array,    *)
(* its caches never lie, and what create() returns is that array without a *)
(* draft.                                                                  *)
(***************************************************************************)
EXTENDS ArrayTrapsProofs

-----------------------------------------------------------------------------
(***************************************************************************)
(* The native methods keep the records.                                    *)
(***************************************************************************)

\* The drafts t are those of s, with more callbacks.
Marks(s, t, more) ==
    /\ t \in Seq(ElementDraft) /\ Len(t) = Len(s) /\ DOMAIN t = DOMAIN s
    /\ \A d \in DOMAIN s :
          /\ t[d].original = s[d].original /\ t[d].key = s[d].key
          /\ t[d].copy = s[d].copy /\ t[d].operated = s[d].operated
          /\ t[d].callbacks = s[d].callbacks \cup more[d]

LEMMA MarksAre ==
    ASSUME NEW s \in Seq(ElementDraft), NEW more, \A d \in DOMAIN s : more[d] \in SUBSET Nat,
           NEW t, t = [d \in DOMAIN s |-> [s[d] EXCEPT !.callbacks = @ \cup more[d]]]
    PROVE  Marks(s, t, more)
<1>1. Len(s) \in Nat /\ DOMAIN s = 1 .. Len(s)
  BY LenProperties
<1>2. ASSUME NEW d \in DOMAIN s
      PROVE  /\ t[d] \in ElementDraft
             /\ t[d].original = s[d].original /\ t[d].key = s[d].key
             /\ t[d].copy = s[d].copy /\ t[d].operated = s[d].operated
             /\ t[d].callbacks = s[d].callbacks \cup more[d]
  <2>1. PICK x : x = s[d]
    OBVIOUS
  <2>2. PICK m \in SUBSET Nat : m = more[d]
    OBVIOUS
  <2>3. x \in ElementDraft
    BY <2>1
  <2>4. t[d] = [x EXCEPT !.callbacks = @ \cup m]
    BY <2>1, <2>2
  <2> QED BY <2>1, <2>2, <2>3, <2>4 DEF ElementDraft
<1>3. t = [d \in 1 .. Len(s) |-> t[d]]
  BY <1>1
<1>4. t \in Seq(ElementDraft)
  <2>1. PICK n \in Nat : n = Len(s)
    BY <1>1
  <2>2. \A d \in 1 .. n : t[d] \in ElementDraft
    BY <1>1, <1>2, <2>1
  <2>3. t \in [1 .. n -> ElementDraft]
    <3> HIDE DEF ElementDraft
    <3> QED BY <1>3, <2>1, <2>2
  <2> QED BY <2>3
<1>5. Len(t) = Len(s) /\ DOMAIN t = DOMAIN s
  BY <1>1, <1>3, ListIs
<1> QED BY <1>2, <1>4, <1>5 DEF Marks

LEMMA GrowsMarked ==
    ASSUME NEW w \in World, NEW u \in World, u.heap = w.heap, u.original = w.original,
           NEW more, Marks(w.drafts, u.drafts, more), w.tasks \subseteq u.tasks,
           w.operated => u.operated, w.relocated => u.relocated
    PROVE  Grows(w, u)
<1>1. Len(w.drafts) \in Nat
  BY WorldParts, LenProperties
<1> QED BY <1>1 DEF Grows, Marks

\* The indices at which values are recorded as assigned.
Noted(w, values) == {i \in DOMAIN values :
                        ~(Own(w.original, i) /\ values[i] = w.original[i])}

RegisteredFrom(w, u, values) ==
    /\ u \in World /\ Grows(w, u)
    /\ u.array = w.array /\ u.original = w.original
    /\ u.copied = w.copied /\ u.operated = w.operated /\ u.relocated = w.relocated
    /\ u.dense = w.dense /\ u.children = w.children /\ DOMAIN u.drafts = DOMAIN w.drafts
    /\ u.assigned = w.assigned \cup Noted(w, values)
    /\ u.inert = IF \E i \in DOMAIN values : IsRef(values[i]) THEN "unknown" ELSE w.inert
    /\ \A d \in DOMAIN w.drafts : \A i \in Noted(w, values) :
          values[i] = Draft(d) => i \in u.drafts[d].callbacks
    /\ \A i \in Noted(w, values) :
          IsObj(values[i]) /\ values[i] \notin Range(w.original)
             => [at |-> i, value |-> values[i]] \in u.tasks

LEMMA RegisterFields ==
    ASSUME NEW w \in World, NEW values, DOMAIN values \in SUBSET (Nat \ {0}),
           \A i \in DOMAIN values : values[i] \in Value,
           NEW u, u = RegisterAssigned(w, values)
    PROVE  RegisteredFrom(w, u, values)
<1>1. PICK new : new = Noted(w, values)
  OBVIOUS
<1>2. new \in SUBSET (Nat \ {0}) /\ new \subseteq DOMAIN values
  BY <1>1 DEF Noted
<1>3. PICK inert : inert = IF \E i \in DOMAIN values : IsRef(values[i]) THEN "unknown"
                           ELSE w.inert
  OBVIOUS
<1>4. PICK drafts : drafts = [d \in DOMAIN w.drafts |->
                                [w.drafts[d] EXCEPT !.callbacks =
                                    @ \cup {i \in new : values[i] = Draft(d)}]]
  OBVIOUS
<1>5. PICK tasks : tasks = {[at |-> i, value |-> values[i]] :
                              i \in {j \in new : IsObj(values[j]) /\
                                       values[j] \notin Range(w.original)}}
  OBVIOUS
<1>6. u = [w EXCEPT !.inert = inert, !.assigned = @ \cup new, !.drafts = drafts,
                    !.tasks = @ \cup tasks]
  BY <1>1, <1>3, <1>4, <1>5 DEF RegisterAssigned, Noted
<1>7. /\ w.drafts \in Seq(ElementDraft) /\ w.inert \in Cache
      /\ w.assigned \in SUBSET (Nat \ {0}) /\ w.tasks \in SUBSET [at : Nat, value : Value]
  BY WorldParts
<1>8. inert \in Cache
  BY <1>3, <1>7 DEF Cache
<1> DEFINE more == [d \in DOMAIN w.drafts |-> {i \in new : values[i] = Draft(d)}]
<1>9. Marks(w.drafts, drafts, more)
  <2>1. \A d \in DOMAIN w.drafts : more[d] \in SUBSET Nat
    BY <1>2
  <2>2. drafts = [d \in DOMAIN w.drafts |->
                    [w.drafts[d] EXCEPT !.callbacks = @ \cup more[d]]]
    BY <1>4
  <2> HIDE DEF more
  <2> QED BY <1>7, <2>1, <2>2, MarksAre
<1>10. tasks \in SUBSET [at : Nat, value : Value]
  BY <1>2, <1>5
<1>11. drafts \in Seq(ElementDraft) /\ DOMAIN drafts = DOMAIN w.drafts
  BY <1>9 DEF Marks
<1>12. PICK assigned, all : assigned = w.assigned \cup new /\ all = w.tasks \cup tasks
  OBVIOUS
<1>13. assigned \in SUBSET (Nat \ {0}) /\ all \in SUBSET [at : Nat, value : Value]
  BY <1>2, <1>7, <1>10, <1>12
<1>14. u = [w EXCEPT !.inert = inert, !.assigned = assigned, !.drafts = drafts,
                     !.tasks = all]
  BY <1>6, <1>12 DEF World
<1>15. /\ u \in World /\ u.array = w.array /\ u.original = w.original /\ u.heap = w.heap
       /\ u.copied = w.copied /\ u.operated = w.operated /\ u.relocated = w.relocated
       /\ u.dense = w.dense /\ u.children = w.children /\ u.drafts = drafts
       /\ u.assigned = assigned /\ u.inert = inert /\ u.tasks = all
  BY <1>8, <1>11, <1>13, <1>14 DEF World
<1>16. Grows(w, u)
  BY <1>9, <1>12, <1>15, GrowsMarked
<1>17. ASSUME NEW d \in DOMAIN w.drafts, NEW i \in new, values[i] = Draft(d)
       PROVE  i \in u.drafts[d].callbacks
  <2>1. i \in more[d]
    BY <1>17
  <2> HIDE DEF more
  <2> QED BY <1>9, <1>15, <2>1 DEF Marks
<1>18. ASSUME NEW i \in new, IsObj(values[i]), values[i] \notin Range(w.original)
       PROVE  [at |-> i, value |-> values[i]] \in u.tasks
  BY <1>5, <1>12, <1>15, <1>18
<1> HIDE DEF more
<1> QED BY <1>1, <1>3, <1>11, <1>12, <1>15, <1>16, <1>17, <1>18 DEF RegisteredFrom

\* Indices go to integers; those that go below 1 are dropped.
Goes(next) == \A i \in Nat : next[i] \in Int

ChildrenFrom(w, u, next) ==
    /\ u \in World /\ Grows(w, u)
    /\ u.array = w.array /\ u.original = w.original
    /\ u.copied = w.copied /\ u.operated = w.operated /\ u.relocated = w.relocated
    /\ u.dense = w.dense /\ u.inert = w.inert /\ u.assigned = w.assigned
    /\ DOMAIN u.drafts = DOMAIN w.drafts
    /\ \A i \in Nat, d \in Nat :
          <<i, d>> \in w.children /\ next[i] >= 1 =>
             /\ <<next[i], d>> \in u.children
             /\ next[i] # i /\ d \in DOMAIN w.drafts => next[i] \in u.drafts[d].callbacks

LEMMA MoveChildrenFields ==
    ASSUME NEW w \in World, NEW next, Goes(next), NEW u, u = MoveChildren(w, next)
    PROVE  ChildrenFrom(w, u, next)
<1>0. /\ w.drafts \in Seq(ElementDraft) /\ w.children \in SUBSET (Nat \X Nat)
  BY WorldParts
<1>1. PICK kept : kept = {c \in w.children : next[c[1]] >= 1}
  OBVIOUS
<1>2. \A c \in kept : c[1] \in Nat /\ c[2] \in Nat /\ next[c[1]] \in Nat
  BY <1>0, <1>1 DEF Goes
<1>3. PICK children : children = {<<next[c[1]], c[2]>> : c \in kept}
  OBVIOUS
<1>4. children \in SUBSET (Nat \X Nat)
  BY <1>2, <1>3
<1> DEFINE more == [d \in DOMAIN w.drafts |->
                       {next[c[1]] : c \in {k \in kept : k[2] = d /\ next[k[1]] # k[1]}}]
<1>5. PICK drafts : drafts = [d \in DOMAIN w.drafts |->
                                [w.drafts[d] EXCEPT !.callbacks = @ \cup more[d]]]
  OBVIOUS
<1>6. u = [w EXCEPT !.children = children, !.drafts = drafts]
  BY <1>1, <1>3, <1>5 DEF MoveChildren
<1>7. ASSUME NEW i \in Nat, NEW d \in Nat, <<i, d>> \in w.children, next[i] >= 1
      PROVE  /\ <<next[i], d>> \in children
             /\ next[i] # i /\ d \in DOMAIN w.drafts => next[i] \in more[d]
  <2>a. PICK c : c = <<i, d>>
    OBVIOUS
  <2>1. c = <<i, d>> /\ c[1] = i /\ c[2] = d
    BY <2>a
  <2>2. c \in kept
    BY <1>1, <1>7, <2>1
  <2> QED BY <1>3, <2>1, <2>2
<1>8. Marks(w.drafts, drafts, more)
  <2>1. \A d \in DOMAIN w.drafts : more[d] \in SUBSET Nat
    BY <1>2
  <2> HIDE DEF more
  <2> QED BY <1>0, <1>5, <2>1, MarksAre
<1> HIDE DEF more
<1>9. drafts \in Seq(ElementDraft) /\ DOMAIN drafts = DOMAIN w.drafts
  BY <1>8 DEF Marks
<1>10. /\ u \in World /\ u.array = w.array /\ u.original = w.original /\ u.heap = w.heap
       /\ u.copied = w.copied /\ u.operated = w.operated /\ u.relocated = w.relocated
       /\ u.dense = w.dense /\ u.children = children /\ u.drafts = drafts
       /\ u.assigned = w.assigned /\ u.inert = w.inert /\ u.tasks = w.tasks
  BY <1>4, <1>6, <1>9 DEF World
<1>11. Grows(w, u)
  BY <1>8, <1>10, GrowsMarked
<1>12. ASSUME NEW i \in Nat, NEW d \in Nat, <<i, d>> \in w.children, next[i] >= 1
       PROVE  /\ <<next[i], d>> \in u.children
              /\ next[i] # i /\ d \in DOMAIN w.drafts => next[i] \in u.drafts[d].callbacks
  BY <1>7, <1>8, <1>10, <1>12 DEF Marks
<1> QED BY <1>9, <1>10, <1>11, <1>12 DEF ChildrenFrom

\* Where the assigned values that moved are.
Arrivals(w, next) ==
    {next[i] : i \in {j \in w.assigned : next[j] >= 1 /\ next[j] # j}}
Arriving(w, next) == [i \in Arrivals(w, next) |-> Seen(At(w.array, i))]

AssignedFrom(w, u, next) ==
    /\ u \in World /\ Grows(w, u)
    /\ u.array = w.array /\ u.original = w.original
    /\ u.copied = w.copied /\ u.operated = w.operated /\ u.relocated = w.relocated
    /\ u.dense = w.dense /\ u.children = w.children
    /\ u.inert = w.inert \/ u.inert = "unknown"
    /\ DOMAIN u.drafts = DOMAIN w.drafts
    /\ u.assigned = {i \in w.assigned : next[i] >= 1 /\ next[i] = i}
                       \cup Noted(w, Arriving(w, next))
    /\ \A d \in DOMAIN w.drafts : \A i \in Noted(w, Arriving(w, next)) :
          Seen(At(w.array, i)) = Draft(d) => i \in u.drafts[d].callbacks
    /\ \A i \in Noted(w, Arriving(w, next)) :
          IsObj(Seen(At(w.array, i))) /\ Seen(At(w.array, i)) \notin Range(w.original)
             => [at |-> i, value |-> Seen(At(w.array, i))] \in u.tasks

LEMMA MoveAssignedFields ==
    ASSUME NEW w \in World, NEW next, Goes(next), NEW u, u = MoveAssigned(w, next)
    PROVE  AssignedFrom(w, u, next)
<1>0. w.assigned \in SUBSET (Nat \ {0}) /\ w.array \in Seq(Value)
  BY WorldParts
<1>1. PICK stay : stay = {i \in w.assigned : next[i] >= 1 /\ next[i] = i}
  OBVIOUS
<1>2. PICK values : values = Arriving(w, next)
  OBVIOUS
<1>3. PICK t : t = [w EXCEPT !.assigned = stay]
  OBVIOUS
<1>4. u = RegisterAssigned(t, values)
  <2>1. {i \in {j \in w.assigned : next[j] >= 1} : next[i] = i} = stay
    BY <1>1
  <2>2. {next[i] : i \in {j \in {k \in w.assigned : next[k] >= 1} : next[j] # j}}
           = Arrivals(w, next)
    BY DEF Arrivals
  <2> QED BY <1>2, <1>3, <2>1, <2>2 DEF MoveAssigned, Arriving
<1>5. /\ t \in World /\ t.array = w.array /\ t.original = w.original /\ t.heap = w.heap
      /\ t.copied = w.copied /\ t.operated = w.operated /\ t.relocated = w.relocated
      /\ t.dense = w.dense /\ t.children = w.children /\ t.drafts = w.drafts
      /\ t.assigned = stay /\ t.inert = w.inert /\ t.tasks = w.tasks
  <2>1. stay \in SUBSET (Nat \ {0})
    BY <1>0, <1>1
  <2> QED BY <1>3, <2>1 DEF World
<1>6. DOMAIN values = Arrivals(w, next) /\ DOMAIN values \in SUBSET (Nat \ {0})
  BY <1>0, <1>2 DEF Arriving, Arrivals, Goes
<1>7. \A i \in DOMAIN values : values[i] \in Value /\ values[i] = Seen(At(w.array, i))
  <2>1. \A i \in DOMAIN values : values[i] = Seen(At(w.array, i)) /\ i \in Nat
    BY <1>2, <1>6 DEF Arriving
  <2>2. \A i \in Nat : At(w.array, i) \in Value
    BY <1>0, AtIs
  <2>3. \A x \in Value : Seen(x) \in Value
    BY UndefinedIs DEF Seen
  <2> QED BY <2>1, <2>2, <2>3
<1>8. RegisteredFrom(t, u, values)
  BY <1>4, <1>5, <1>6, <1>7, RegisterFields
<1>9. Noted(t, values) = Noted(w, values)
  BY <1>5 DEF Noted
<1>10. Grows(w, t)
  BY <1>5, GrowsSame
<1>11. /\ u \in World /\ Grows(t, u)
       /\ u.array = t.array /\ u.original = t.original
       /\ u.copied = t.copied /\ u.operated = t.operated /\ u.relocated = t.relocated
       /\ u.dense = t.dense /\ u.children = t.children /\ DOMAIN u.drafts = DOMAIN t.drafts
       /\ u.assigned = t.assigned \cup Noted(t, values)
       /\ u.inert = w.inert \/ u.inert = "unknown"
  BY <1>5, <1>8 DEF RegisteredFrom
<1>12. Grows(w, u)
  BY <1>5, <1>10, <1>11, GrowsTwice
<1>13. ASSUME NEW d \in DOMAIN w.drafts, NEW i \in Noted(w, values),
              Seen(At(w.array, i)) = Draft(d)
       PROVE  i \in u.drafts[d].callbacks
  <2>1. i \in DOMAIN values
    BY DEF Noted
  <2> QED BY <1>5, <1>7, <1>8, <1>9, <1>13, <2>1 DEF RegisteredFrom
<1>14. ASSUME NEW i \in Noted(w, values), IsObj(Seen(At(w.array, i))),
              Seen(At(w.array, i)) \notin Range(w.original)
       PROVE  [at |-> i, value |-> Seen(At(w.array, i))] \in u.tasks
  <2>1. i \in DOMAIN values
    BY DEF Noted
  <2> QED BY <1>5, <1>7, <1>8, <1>9, <1>14, <2>1 DEF RegisteredFrom
<1> QED BY <1>1, <1>2, <1>5, <1>9, <1>11, <1>12, <1>13, <1>14 DEF AssignedFrom

\* The assigned values that moved, and are recorded where they are now.
Renoted(w, array, next) ==
    {k \in Arrivals(w, next) :
        ~(Own(w.original, k) /\ Seen(At(array, k)) = w.original[k])}

RelocatedFrom(w, u, array, next) ==
    /\ u \in World /\ Grows(w, u)
    /\ u.array = array /\ u.original = w.original
    /\ u.copied /\ u.operated /\ u.relocated
    /\ u.dense = w.dense /\ (u.inert = w.inert \/ u.inert = "unknown")
    /\ DOMAIN u.drafts = DOMAIN w.drafts
    /\ u.assigned = {i \in w.assigned : next[i] >= 1 /\ next[i] = i}
                       \cup Renoted(w, array, next)
    /\ \A i \in Nat, d \in Nat :
          <<i, d>> \in w.children /\ next[i] >= 1 =>
             /\ <<next[i], d>> \in u.children
             /\ next[i] # i /\ d \in DOMAIN w.drafts => next[i] \in u.drafts[d].callbacks
    /\ \A d \in DOMAIN w.drafts : \A k \in Renoted(w, array, next) :
          Seen(At(array, k)) = Draft(d) => k \in u.drafts[d].callbacks
    /\ \A k \in Renoted(w, array, next) :
          IsObj(Seen(At(array, k))) /\ Seen(At(array, k)) \notin Range(w.original)
             => [at |-> k, value |-> Seen(At(array, k))] \in u.tasks

LEMMA RelocateFields ==
    ASSUME NEW w \in World, NEW array \in Seq(Value), NEW next, Goes(next),
           NEW from \in Nat, NEW to \in Nat,
           NEW u, u = Relocate([Prepare(w) EXCEPT !.array = array], next, from, to)
    PROVE  RelocatedFrom(w, u, array, next)
<1>1. PICK t : t = [Prepare(w) EXCEPT !.array = array]
  OBVIOUS
<1>2. /\ t \in World /\ t.array = array /\ t.original = w.original /\ t.heap = w.heap
      /\ t.copied /\ t.operated /\ t.relocated = w.relocated
      /\ t.dense = w.dense /\ t.inert = w.inert /\ t.children = w.children
      /\ t.drafts = w.drafts /\ t.assigned = w.assigned /\ t.tasks = w.tasks
  <2>1. t = [w EXCEPT !.copied = TRUE, !.operated = TRUE, !.array = array]
    BY <1>1 DEF Prepare, MarkChanged, EnsureShallowCopy
  <2> QED BY <2>1 DEF World
<1>3. PICK r, c : r = MarkRange(t, from, to) /\ c = MoveChildren(r, next)
  OBVIOUS
<1>4. u = MoveAssigned(c, next)
  BY <1>1, <1>3 DEF Relocate
<1>5. RangedFrom(t, r)
  BY <1>2, <1>3, MarkRangeFields
<1>6. /\ r \in World /\ r.array = array /\ r.original = w.original /\ r.heap = w.heap
      /\ r.copied /\ r.operated /\ r.relocated
      /\ r.dense = w.dense /\ r.inert = w.inert /\ r.children = w.children
      /\ r.drafts = w.drafts /\ r.assigned = w.assigned /\ r.tasks = w.tasks
  BY <1>2, <1>5 DEF RangedFrom
<1>7. Grows(w, r)
  BY <1>6, GrowsSame
<1>8. ChildrenFrom(r, c, next)
  BY <1>3, <1>6, MoveChildrenFields
<1>9. /\ c \in World /\ Grows(r, c) /\ c.array = array /\ c.original = w.original
      /\ c.copied /\ c.operated /\ c.relocated
      /\ c.dense = w.dense /\ c.inert = w.inert /\ c.assigned = w.assigned
      /\ DOMAIN c.drafts = DOMAIN w.drafts
  BY <1>6, <1>8 DEF ChildrenFrom
<1>10. AssignedFrom(c, u, next)
  BY <1>4, <1>9, MoveAssignedFields
<1>11. /\ u \in World /\ Grows(c, u) /\ u.array = array /\ u.original = w.original
       /\ u.copied /\ u.operated /\ u.relocated
       /\ u.dense = w.dense /\ (u.inert = w.inert \/ u.inert = "unknown")
       /\ DOMAIN u.drafts = DOMAIN w.drafts /\ u.children = c.children
  BY <1>9, <1>10 DEF AssignedFrom
<1>12. Grows(w, u)
  <2>1. Grows(w, c)
    BY <1>6, <1>7, <1>9, GrowsTwice
  <2> QED BY <1>9, <1>11, <2>1, GrowsTwice
<1>13. Noted(c, Arriving(c, next)) = Renoted(w, array, next)
  <2>1. Arrivals(c, next) = Arrivals(w, next)
    BY <1>9 DEF Arrivals
  <2> QED BY <1>9, <2>1 DEF Noted, Arriving, Renoted
<1>14. u.assigned = {i \in w.assigned : next[i] >= 1 /\ next[i] = i}
                       \cup Renoted(w, array, next)
  BY <1>9, <1>10, <1>13 DEF AssignedFrom
<1>15. ASSUME NEW i \in Nat, NEW d \in Nat, <<i, d>> \in w.children, next[i] >= 1
       PROVE  /\ <<next[i], d>> \in u.children
              /\ next[i] # i /\ d \in DOMAIN w.drafts => next[i] \in u.drafts[d].callbacks
  <2>1. /\ <<next[i], d>> \in c.children
        /\ next[i] # i /\ d \in DOMAIN w.drafts => next[i] \in c.drafts[d].callbacks
    BY <1>6, <1>8, <1>15 DEF ChildrenFrom
  <2>2. d \in DOMAIN w.drafts => c.drafts[d].callbacks \subseteq u.drafts[d].callbacks
    BY <1>9, <1>11 DEF Grows
  <2> QED BY <1>11, <2>1, <2>2
<1>16. /\ \A d \in DOMAIN w.drafts : \A k \in Renoted(w, array, next) :
             Seen(At(array, k)) = Draft(d) => k \in u.drafts[d].callbacks
       /\ \A k \in Renoted(w, array, next) :
             IsObj(Seen(At(array, k))) /\ Seen(At(array, k)) \notin Range(w.original)
                => [at |-> k, value |-> Seen(At(array, k))] \in u.tasks
  BY <1>9, <1>10, <1>13 DEF AssignedFrom
<1> QED BY <1>11, <1>12, <1>14, <1>15, <1>16 DEF RelocatedFrom

\* w became x: elements moved as next says, and values were put between them.
SettledFrom(w, x, array, next, values) ==
    /\ x \in World /\ Grows(w, x)
    /\ x.array = array /\ x.original = w.original
    /\ x.copied /\ x.operated /\ x.relocated /\ x.dense = w.dense
    /\ x.inert = "yes" =>
          w.inert = "yes" /\ \A i \in DOMAIN values : ~IsRef(values[i])
    /\ DOMAIN x.drafts = DOMAIN w.drafts
    /\ \A k : k \in x.assigned <=>
                 \/ k \in w.assigned /\ next[k] >= 1 /\ next[k] = k
                 \/ k \in Renoted(w, array, next)
                 \/ k \in Noted(w, values)
    /\ \A i \in Nat, d \in Nat :
          <<i, d>> \in w.children /\ next[i] >= 1 =>
             /\ <<next[i], d>> \in x.children
             /\ next[i] # i /\ d \in DOMAIN w.drafts => next[i] \in x.drafts[d].callbacks
    /\ \A d \in DOMAIN w.drafts :
          /\ \A k \in Renoted(w, array, next) :
                Seen(At(array, k)) = Draft(d) => k \in x.drafts[d].callbacks
          /\ \A k \in Noted(w, values) :
                values[k] = Draft(d) => k \in x.drafts[d].callbacks
    /\ \A k \in Renoted(w, array, next) :
          IsObj(Seen(At(array, k))) /\ Seen(At(array, k)) \notin Range(w.original)
             => [at |-> k, value |-> Seen(At(array, k))] \in x.tasks
    /\ \A k \in Noted(w, values) :
          IsObj(values[k]) /\ values[k] \notin Range(w.original)
             => [at |-> k, value |-> values[k]] \in x.tasks

LEMMA RelocatedSettles ==
    ASSUME NEW w \in World, NEW u, NEW array, NEW next, RelocatedFrom(w, u, array, next),
           NEW values, DOMAIN values = {}
    PROVE  SettledFrom(w, u, array, next, values)
<1>1. Noted(w, values) = {}
  BY DEF Noted
<1>2. /\ u.assigned = {i \in w.assigned : next[i] >= 1 /\ next[i] = i}
                         \cup Renoted(w, array, next)
      /\ (u.inert = w.inert \/ u.inert = "unknown")
  BY DEF RelocatedFrom
<1>3. \A k : k \in u.assigned <=>
                 \/ k \in w.assigned /\ next[k] >= 1 /\ next[k] = k
                 \/ k \in Renoted(w, array, next)
                 \/ k \in Noted(w, values)
  BY <1>1, <1>2
<1>4. u.inert = "yes" => w.inert = "yes" /\ \A i \in DOMAIN values : ~IsRef(values[i])
  BY <1>2
<1> QED BY <1>1, <1>3, <1>4 DEF RelocatedFrom, SettledFrom

LEMMA RegisteredSettles ==
    ASSUME NEW w \in World, NEW u, NEW array, NEW next, RelocatedFrom(w, u, array, next),
           NEW values, NEW x, RegisteredFrom(u, x, values)
    PROVE  SettledFrom(w, x, array, next, values)
<1>1. /\ u \in World /\ Grows(w, u) /\ u.array = array /\ u.original = w.original
      /\ u.copied /\ u.operated /\ u.relocated
      /\ u.dense = w.dense /\ (u.inert = w.inert \/ u.inert = "unknown")
      /\ DOMAIN u.drafts = DOMAIN w.drafts
      /\ u.assigned = {i \in w.assigned : next[i] >= 1 /\ next[i] = i}
                         \cup Renoted(w, array, next)
  BY DEF RelocatedFrom
<1>2. /\ x \in World /\ Grows(u, x) /\ x.array = u.array /\ x.original = u.original
      /\ x.copied = u.copied /\ x.operated = u.operated /\ x.relocated = u.relocated
      /\ x.dense = u.dense /\ x.children = u.children /\ DOMAIN x.drafts = DOMAIN u.drafts
      /\ x.assigned = u.assigned \cup Noted(u, values)
      /\ x.inert = IF \E i \in DOMAIN values : IsRef(values[i]) THEN "unknown" ELSE u.inert
  BY DEF RegisteredFrom
<1>3. Noted(u, values) = Noted(w, values)
  BY <1>1 DEF Noted
<1>4. Grows(w, x)
  BY <1>1, <1>2, GrowsTwice
<1>5. x.inert = "yes" => w.inert = "yes" /\ \A i \in DOMAIN values : ~IsRef(values[i])
  BY <1>1, <1>2
<1>6. \A k : k \in x.assigned <=>
                 \/ k \in w.assigned /\ next[k] >= 1 /\ next[k] = k
                 \/ k \in Renoted(w, array, next)
                 \/ k \in Noted(w, values)
  BY <1>1, <1>2, <1>3
<1>7. \A d \in DOMAIN w.drafts : u.drafts[d].callbacks \subseteq x.drafts[d].callbacks
  BY <1>1, <1>2 DEF Grows
<1>8. u.tasks \subseteq x.tasks
  BY <1>2 DEF Grows
<1>9. ASSUME NEW i \in Nat, NEW d \in Nat, <<i, d>> \in w.children, next[i] >= 1
      PROVE  /\ <<next[i], d>> \in x.children
             /\ next[i] # i /\ d \in DOMAIN w.drafts => next[i] \in x.drafts[d].callbacks
  <2>1. /\ <<next[i], d>> \in u.children
        /\ next[i] # i /\ d \in DOMAIN w.drafts => next[i] \in u.drafts[d].callbacks
    BY <1>9 DEF RelocatedFrom
  <2> QED BY <1>2, <1>7, <2>1
<1>10. ASSUME NEW d \in DOMAIN w.drafts, NEW k \in Renoted(w, array, next),
              Seen(At(array, k)) = Draft(d)
       PROVE  k \in x.drafts[d].callbacks
  <2>1. k \in u.drafts[d].callbacks
    BY <1>10 DEF RelocatedFrom
  <2> QED BY <1>7, <2>1
<1>11. ASSUME NEW d \in DOMAIN w.drafts, NEW k \in Noted(w, values), values[k] = Draft(d)
       PROVE  k \in x.drafts[d].callbacks
  BY <1>1, <1>3, <1>11 DEF RegisteredFrom
<1>12. ASSUME NEW k \in Renoted(w, array, next), IsObj(Seen(At(array, k))),
              Seen(At(array, k)) \notin Range(w.original)
       PROVE  [at |-> k, value |-> Seen(At(array, k))] \in x.tasks
  <2>1. [at |-> k, value |-> Seen(At(array, k))] \in u.tasks
    BY <1>12 DEF RelocatedFrom
  <2> QED BY <1>8, <2>1
<1>13. ASSUME NEW k \in Noted(w, values), IsObj(values[k]), values[k] \notin Range(w.original)
       PROVE  [at |-> k, value |-> values[k]] \in x.tasks
  BY <1>1, <1>3, <1>13 DEF RegisteredFrom
<1> QED BY <1>1, <1>2, <1>4, <1>5, <1>6, <1>9, <1>10, <1>11, <1>12, <1>13 DEF SettledFrom

\* No two indices go to the same one, and none to that of a new value.
Clear(next, values) ==
    /\ Goes(next)
    /\ \A i, j \in Index : next[i] >= 1 /\ next[i] = next[j] => i = j
    /\ \A i \in Index : next[i] \notin DOMAIN values

\* A new value fits,
LEMMA ItemFits ==
    ASSUME BaseOK, NEW w, Sound(w), NEW x, NEW array, NEW next, NEW values,
           SettledFrom(w, x, array, next, values), Clear(next, values),
           NEW k \in Index, k \in DOMAIN values, NEW v, v = values[k], Usable(w, v)
    PROVE  Fits(x, k, v) /\ SlotOf(x, k, v) = Settle(k, v)
<1>0. /\ w \in World /\ w.original \in Seq(Value) /\ w.original = base.array
      /\ ~IsDraft(At(w.original, k)) /\ k \in Nat /\ w.assigned \in SUBSET (Nat \ {0})
  BY SoundParts, OriginalIs, WorldParts DEF Index
<1>1. /\ x \in World /\ Grows(w, x) /\ x.original = w.original /\ x.relocated
      /\ DOMAIN x.drafts = DOMAIN w.drafts
  BY DEF SettledFrom
<1>2. v \in Value /\ (IsDraft(v) => v.id \in DOMAIN w.drafts) /\ (IsObj(v) => v.id \in DOMAIN w.heap)
      /\ v # Absent
  BY DEF Usable
<1>3. \A i \in Nat \ {0} : next[i] # k
  BY DEF Clear, Index
<1>4. k \notin Renoted(w, array, next)
  BY <1>0, <1>3 DEF Renoted, Arrivals
<1>5. k \in x.assigned <=> k \in Noted(w, values)
  BY <1>0, <1>3, <1>4 DEF SettledFrom
<1>6. k \in Noted(w, values) <=> v # At(w.original, k)
  BY <1>2 DEF Noted, Own, At
<1>7. x.heap = w.heap
  BY <1>1 DEF Grows
<1>8. CASE IsDraft(v)
  <2>1. v = Draft(v.id) /\ ~IsObj(v)
    BY <1>2, <1>8, ValueIs
  <2>2. k \in x.assigned /\ k \in Noted(w, values)
    BY <1>0, <1>5, <1>6, <1>8
  <2>3. k \in x.drafts[v.id].callbacks
    BY <1>2, <1>8, <2>1, <2>2 DEF SettledFrom
  <2>4. Fits(x, k, v)
    BY <1>1, <1>2, <1>8, <2>1, <2>2, <2>3 DEF Fits
  <2>5. SlotOf(x, k, v) = v /\ Settle(k, v) = v
    BY <2>1 DEF SlotOf, Settle
  <2> QED BY <2>4, <2>5
<1>9. CASE IsObj(v)
  <2>1. ~IsDraft(v)
    BY <1>2, <1>9, ValueIs
  <2>2. v \notin Range(w.original) => v # At(w.original, k)
    BY <1>2 DEF At, Range
  <2>3. v \notin Range(w.original) => [at |-> k, value |-> v] \in x.tasks
    BY <1>6, <1>9, <2>2 DEF SettledFrom
  <2>4. Fits(x, k, v)
    BY <1>1, <1>2, <1>5, <1>6, <1>7, <1>9, <2>1, <2>2, <2>3 DEF Fits
  <2>5. SlotOf(x, k, v) = IF At(w.original, k) = v THEN Base(v.id) ELSE v
    BY <1>1, <1>2, <1>5, <1>6, <1>9, SlotOfIs
  <2>6. Settle(k, v) = IF At(w.original, k) = v THEN Base(v.id) ELSE v
    BY <1>0, <1>9 DEF Settle
  <2> QED BY <2>4, <2>5, <2>6
<1>10. CASE ~IsDraft(v) /\ ~IsObj(v)
  BY <1>10 DEF Fits, SlotOf, Settle
<1> QED BY <1>8, <1>9, <1>10

\* an element that did not move still fits,
LEMMA StayedFits ==
    ASSUME BaseOK, NEW w, Sound(w), NEW x, NEW array, NEW next, NEW values,
           SettledFrom(w, x, array, next, values), Clear(next, values),
           NEW k \in Index, next[k] = k, NEW v, v = At(w.array, k)
    PROVE  Fits(x, k, v) /\ SlotOf(x, k, v) = SlotAt(w, k)
<1>0. /\ w \in World /\ k \in Nat /\ k >= 1 /\ w.assigned \in SUBSET (Nat \ {0})
      /\ w.array \in Seq(Value) /\ w.children \in SUBSET (Nat \X Nat)
  BY SoundParts, WorldParts DEF Index
<1>1. x \in World /\ Grows(w, x)
  BY DEF SettledFrom
<1>2. Fits(w, k, v) /\ v \in Value
  BY <1>0, SoundParts, AtIs DEF AllFit
<1>3. k \notin Renoted(w, array, next)
  <2>1. \A j \in Nat \ {0} : next[j] = k /\ next[j] >= 1 => j = k
    BY <1>0 DEF Clear, Index
  <2> QED BY <1>0, <2>1 DEF Renoted, Arrivals
<1>4. k \notin Noted(w, values)
  BY <1>0 DEF Noted, Clear
<1>5. k \in x.assigned <=> k \in w.assigned
  BY <1>0, <1>3, <1>4 DEF SettledFrom
<1>6. IsDraft(v) /\ <<k, v.id>> \in w.children => <<k, v.id>> \in x.children
  <2>1. v.id \in Nat
    BY <1>2, ValueIs
  <2> QED BY <1>0, <2>1 DEF SettledFrom
<1> QED BY <1>0, <1>1, <1>2, <1>5, <1>6, StaysFit DEF SlotAt

\* and one that moved fits where it is now.
LEMMA MovedFits ==
    ASSUME BaseOK, NEW w, Sound(w), NEW x, NEW array, NEW next, NEW values,
           SettledFrom(w, x, array, next, values), Clear(next, values),
           NEW i \in Index, NEW k \in Index, next[i] = k, k # i,
           NEW v, v = At(w.array, i), v = At(array, k), v # Absent
    PROVE  Fits(x, k, v) /\ SlotOf(x, k, v) = Settle(k, SlotAt(w, i))
<1>0. /\ w \in World /\ k \in Nat /\ k >= 1 /\ i \in Nat /\ w.assigned \in SUBSET (Nat \ {0})
      /\ w.array \in Seq(Value) /\ w.children \in SUBSET (Nat \X Nat)
      /\ w.original \in Seq(Value) /\ w.original = base.array
      /\ ~IsDraft(At(w.original, k))
  BY SoundParts, WorldParts, OriginalIs DEF Index
<1>1. /\ x \in World /\ Grows(w, x) /\ x.original = w.original /\ x.relocated
      /\ DOMAIN x.drafts = DOMAIN w.drafts
  BY DEF SettledFrom
<1>2. Fits(w, i, v) /\ v \in Value
  <2>1. Fits(w, i, v)
    BY SoundParts DEF AllFit
  <2>2. v \in Value
    BY <1>0, AtIs
  <2> QED BY <2>1, <2>2
<1>3. \A j \in Nat \ {0} : next[j] = k => j = i
  BY <1>0 DEF Clear, Index
<1>4. Seen(v) = v
  BY DEF Seen
<1>5. k \in Renoted(w, array, next) <=> i \in w.assigned /\ v # At(w.original, k)
  <2>1. k \in Arrivals(w, next) <=> i \in w.assigned
    BY <1>0, <1>3 DEF Arrivals
  <2>2. (Own(w.original, k) /\ v = w.original[k]) <=> v = At(w.original, k)
    BY DEF Own, At
  <2> QED BY <1>4, <2>1, <2>2 DEF Renoted
<1>6. k \notin Noted(w, values)
  BY <1>0 DEF Noted, Clear
<1>7. next[k] # k
  BY <1>0, <1>3
<1>8. k \in x.assigned <=> i \in w.assigned /\ v # At(w.original, k)
  BY <1>5, <1>6, <1>7 DEF SettledFrom
<1>9. x.heap = w.heap
  BY <1>1 DEF Grows
<1>10. CASE IsDraft(v)
  <2>1. v = Draft(v.id) /\ ~IsObj(v) /\ v.id \in DOMAIN w.drafts /\ v.id \in Nat
    BY <1>2, <1>10, ValueIs DEF Fits
  <2>2. <<i, v.id>> \in w.children \/ i \in w.assigned
    BY <1>2, <1>10 DEF Fits
  <2>3. /\ k \in x.drafts[v.id].callbacks
        /\ <<k, v.id>> \in x.children \/ k \in x.assigned
    <3>1. CASE <<i, v.id>> \in w.children
      BY <1>0, <2>1, <3>1 DEF SettledFrom
    <3>2. CASE i \in w.assigned
      <4>1. v # At(w.original, k)
        BY <1>0, <1>10
      <4>2. k \in Renoted(w, array, next) /\ k \in x.assigned
        BY <1>5, <1>8, <3>2, <4>1
      <4>3. Seen(At(array, k)) = Draft(v.id)
        BY <1>4, <2>1
      <4> QED BY <2>1, <4>2, <4>3 DEF SettledFrom
    <3> QED BY <2>2, <3>1, <3>2
  <2>4. Fits(x, k, v)
    BY <1>1, <1>10, <2>1, <2>3 DEF Fits
  <2>5. SlotOf(x, k, v) = v /\ SlotAt(w, i) = v /\ Settle(k, v) = v
    BY <2>1 DEF SlotOf, SlotAt, Settle
  <2> QED BY <2>4, <2>5
<1>11. CASE IsObj(v)
  <2>1. ~IsDraft(v) /\ v.id \in DOMAIN w.heap
    BY <1>2, <1>11, ValueIs DEF Fits
  <2>2. /\ i \in w.assigned => v # At(w.original, i)
        /\ ~w.relocated /\ v # At(w.original, i) => i \in w.assigned
        /\ v \notin Range(w.original) => i \in w.assigned
    BY <1>2, <1>11 DEF Fits
  <2>3. v \notin Range(w.original) => v # At(w.original, k)
    BY DEF At, Range
  <2>4. v \notin Range(w.original) => [at |-> k, value |-> v] \in x.tasks
    BY <1>4, <1>5, <1>11, <2>2, <2>3 DEF SettledFrom
  <2>5. Fits(x, k, v)
    BY <1>1, <1>8, <1>9, <1>11, <2>1, <2>2, <2>3, <2>4 DEF Fits
  <2>6. SlotOf(x, k, v) = IF \/ At(w.original, k) = v
                             \/ k \notin x.assigned /\ v \in Range(w.original)
                          THEN Base(v.id) ELSE v
    BY <1>1, <1>2, <1>11, SlotOfIs
  <2>7. SlotAt(w, i) = IF \/ At(w.original, i) = v
                          \/ w.relocated /\ i \notin w.assigned /\ v \in Range(w.original)
                       THEN Base(v.id) ELSE v
    BY <1>0, <1>2, <1>11, SlotOfIs DEF SlotAt
  <2>8. ~IsObj(Base(v.id))
    BY DEF IsObj, Base
  <2>9. Settle(k, v) = IF At(w.original, k) = v THEN Base(v.id) ELSE v
    BY <1>0, <1>11 DEF Settle
  <2>10. Settle(k, Base(v.id)) = Base(v.id)
    BY <2>8 DEF Settle
  <2>11. CASE i \in w.assigned
    <3>1. SlotAt(w, i) = v
      BY <2>2, <2>7, <2>11
    <3> QED BY <1>8, <2>5, <2>6, <2>9, <2>11, <3>1
  <2>12. CASE i \notin w.assigned
    <3>1. v \in Range(w.original) /\ k \notin x.assigned
      BY <1>8, <2>2, <2>12
    <3>2. SlotAt(w, i) = Base(v.id)
      BY <2>2, <2>7, <2>12, <3>1
    <3>3. SlotOf(x, k, v) = Base(v.id)
      BY <2>6, <3>1
    <3> QED BY <2>5, <2>10, <3>2, <3>3
  <2> QED BY <2>11, <2>12
<1>12. CASE ~IsDraft(v) /\ ~IsObj(v)
  BY <1>12 DEF Fits, SlotOf, SlotAt, Settle
<1> QED BY <1>10, <1>11, <1>12

\* Every element of the array is a new value, or came from where next says.
Placed(w, array, next, values) ==
    \A k \in DOMAIN array :
        \/ k \in DOMAIN values /\ array[k] = values[k]
        \/ \E i \in Index : /\ next[i] = k /\ At(w.array, i) # Absent
                            /\ array[k] = At(w.array, i)

Relocates(w, x, next, values) ==
    /\ Sound(x) /\ Grows(w, x)
    /\ \A k \in DOMAIN values \cap DOMAIN x.array :
          SlotAt(x, k) = Settle(k, values[k])
    /\ \A i \in Index :
          next[i] \in DOMAIN x.array =>
             SlotAt(x, next[i]) = IF next[i] = i THEN SlotAt(w, i)
                                  ELSE Settle(next[i], SlotAt(w, i))

LEMMA SettledRelocates ==
    ASSUME BaseOK, NEW w, Sound(w), NEW x, NEW array \in Seq(Value), NEW next, NEW values,
           SettledFrom(w, x, array, next, values), Clear(next, values),
           \A k \in DOMAIN values : Usable(w, values[k]), Placed(w, array, next, values)
    PROVE  Relocates(w, x, next, values)
<1>0. /\ w \in World /\ BaseKept(w) /\ DraftsApart(w) /\ HeapInOrder(w) /\ CachesRight(w)
      /\ DOMAIN array = 1 .. Len(array) /\ Len(array) \in Nat
  BY SoundParts, LenProperties
<1>1. /\ x \in World /\ Grows(w, x) /\ x.array = array /\ x.original = w.original
      /\ x.copied /\ x.operated /\ x.dense = w.dense
      /\ x.inert = "yes" =>
            w.inert = "yes" /\ \A i \in DOMAIN values : ~IsRef(values[i])
  BY DEF SettledFrom
<1>2. \A k \in DOMAIN array : k \in Index /\ At(array, k) = array[k]
  BY <1>0 DEF Index, At
<1>3. ASSUME NEW k \in DOMAIN array, k \in DOMAIN values, array[k] = values[k]
      PROVE  Fits(x, k, array[k]) /\ SlotAt(x, k) = Settle(k, values[k])
  <2>1. Usable(w, values[k]) /\ k \in Index
    BY <1>2, <1>3
  <2>2. Fits(x, k, values[k]) /\ SlotOf(x, k, values[k]) = Settle(k, values[k])
    BY <1>3, <2>1, ItemFits
  <2> QED BY <1>1, <1>2, <1>3, <2>2 DEF SlotAt
<1>4. ASSUME NEW k \in DOMAIN array, NEW i \in Index, next[i] = k,
             At(w.array, i) # Absent, array[k] = At(w.array, i)
      PROVE  /\ Fits(x, k, array[k])
             /\ SlotAt(x, k) = IF k = i THEN SlotAt(w, i) ELSE Settle(k, SlotAt(w, i))
  <2>1. CASE k = i
    <3>1. Fits(x, k, array[k]) /\ SlotOf(x, k, array[k]) = SlotAt(w, k)
      BY <1>2, <1>4, <2>1, StayedFits
    <3> QED BY <1>1, <1>2, <2>1, <3>1 DEF SlotAt
  <2>2. CASE k # i
    <3>1. Fits(x, k, array[k]) /\ SlotOf(x, k, array[k]) = Settle(k, SlotAt(w, i))
      BY <1>2, <1>4, <2>2, MovedFits
    <3> QED BY <1>1, <1>2, <2>2, <3>1 DEF SlotAt
  <2> QED BY <2>1, <2>2
<1>5. AllFit(x)
  <2>1. ASSUME NEW k \in DOMAIN array PROVE Fits(x, k, array[k])
    BY <1>3, <1>4 DEF Placed
  <2>2. ASSUME NEW k \in Index PROVE Fits(x, k, At(array, k))
    <3>1. CASE k \in DOMAIN array
      BY <1>2, <2>1, <3>1
    <3>2. CASE k \notin DOMAIN array
      <4>1. At(array, k) = Absent
        BY <3>2 DEF At
      <4> QED BY <4>1, FitsAbsent
    <3> QED BY <3>1, <3>2
  <2> QED BY <1>1, <2>2 DEF AllFit
<1>6. CachesRight(x)
  <2>1. ASSUME NEW k \in DOMAIN array PROVE array[k] # Absent
    BY DEF Placed, Usable
  <2>2. ASSUME x.inert = "yes", NEW k \in DOMAIN array PROVE ~IsRef(array[k])
    <3>1. \A i \in DOMAIN w.array : ~IsRef(w.array[i])
      BY <1>0, <1>1, <2>2 DEF CachesRight
    <3>2. \A i \in Index : At(w.array, i) # Absent => ~IsRef(At(w.array, i))
      BY <3>1 DEF At
    <3> QED BY <1>1, <2>2, <3>2 DEF Placed
  <2> QED BY <1>1, <2>1, <2>2 DEF CachesRight, HasHoles
<1>7. Sound(x)
  <2>1. BaseKept(x) /\ DraftsApart(x) /\ HeapInOrder(x)
    BY <1>0, <1>1, GrowsKeeps
  <2>2. Untouched(x)
    BY <1>1 DEF Untouched
  <2> QED BY <1>1, <1>5, <1>6, <2>1, <2>2 DEF Sound
<1>8. ASSUME NEW k \in DOMAIN values \cap DOMAIN array
      PROVE  SlotAt(x, k) = Settle(k, values[k])
  <2>1. ~ \E i \in Index : next[i] = k
    BY DEF Clear, Index
  <2>2. array[k] = values[k]
    BY <2>1 DEF Placed
  <2> QED BY <1>3, <2>2
<1>9. ASSUME NEW i \in Index, next[i] \in DOMAIN array
      PROVE  SlotAt(x, next[i]) = IF next[i] = i THEN SlotAt(w, i)
                                  ELSE Settle(next[i], SlotAt(w, i))
  <2>1. PICK k \in DOMAIN array : k = next[i] /\ k >= 1 /\ k \notin DOMAIN values /\ i \in Nat
    BY <1>0, <1>9 DEF Clear, Index
  <2>2. PICK j \in Index : /\ next[j] = k /\ At(w.array, j) # Absent
                           /\ array[k] = At(w.array, j)
    BY <2>1 DEF Placed
  <2>3. j = i
    BY <2>1, <2>2 DEF Clear, Index
  <2> QED BY <1>4, <2>1, <2>2, <2>3
<1> QED BY <1>1, <1>7, <1>8, <1>9 DEF Relocates

-----------------------------------------------------------------------------
(***************************************************************************)
(* The native methods do what an ordinary array does.                      *)
(***************************************************************************)

LEMMA RelocatesTurns ==
    ASSUME NEW w, NEW x, NEW next, NEW values, Relocates(w, x, next, values)
    PROVE  Turns(w, x, View(x))
BY ViewIs DEF Relocates, Turns, Shows

LEMMA RelocateDoes ==
    ASSUME BaseOK, NEW w, Sound(w), NEW array \in Seq(Value), NEW next, NEW none,
           DOMAIN none = {}, Clear(next, none), Placed(w, array, next, none),
           NEW from \in Nat, NEW to \in Nat,
           NEW u, u = Relocate([Prepare(w) EXCEPT !.array = array], next, from, to)
    PROVE  Relocates(w, u, next, none) /\ u.array = array
<1>1. w \in World /\ Goes(next)
  BY SoundParts DEF Clear
<1>2. RelocatedFrom(w, u, array, next)
  BY <1>1, RelocateFields
<1>3. SettledFrom(w, u, array, next, none)
  BY <1>1, <1>2, RelocatedSettles
<1>4. \A k \in DOMAIN none : Usable(w, none[k])
  OBVIOUS
<1>5. u.array = array
  BY <1>2 DEF RelocatedFrom
<1>6. Relocates(w, u, next, none)
  BY <1>3, <1>4, SettledRelocates
<1> QED BY <1>5, <1>6

LEMMA RelocateRegisterDoes ==
    ASSUME BaseOK, NEW w, Sound(w), NEW array \in Seq(Value), NEW next, NEW values,
           DOMAIN values \in SUBSET (Nat \ {0}), \A k \in DOMAIN values : Usable(w, values[k]),
           Clear(next, values), Placed(w, array, next, values),
           NEW from \in Nat, NEW to \in Nat,
           NEW t, t = Relocate([Prepare(w) EXCEPT !.array = array], next, from, to),
           NEW u, u = RegisterAssigned(t, values)
    PROVE  Relocates(w, u, next, values) /\ u.array = array
<1>1. w \in World /\ Goes(next)
  BY SoundParts DEF Clear
<1>2. RelocatedFrom(w, t, array, next)
  BY <1>1, RelocateFields
<1>3. t \in World
  BY <1>2 DEF RelocatedFrom
<1>4. \A i \in DOMAIN values : values[i] \in Value
  BY DEF Usable
<1>5. RegisteredFrom(t, u, values)
  BY <1>3, <1>4, RegisterFields
<1>6. SettledFrom(w, u, array, next, values)
  BY <1>1, <1>2, <1>5, RegisteredSettles
<1>7. u.array = array
  BY <1>6 DEF SettledFrom
<1>8. Relocates(w, u, next, values)
  BY <1>6, SettledRelocates
<1> QED BY <1>7, <1>8

\* A removed element is drafted under an original index that held it.
Origin(key, v) ==
    /\ key \in Nat
    /\ key # Null => key \in DOMAIN base.array /\ base.array[key] = v /\ IsObj(v)

LEMMA RemovalKeyIs ==
    ASSUME BaseOK, NEW w, Sound(w), NEW i \in 1 .. Len(w.array)
    PROVE  Origin(RemovalKey(w, i), w.array[i])
<1>1. /\ w \in World /\ w.original = base.array /\ base.array \in Seq(Value)
      /\ w.array \in Seq(Value)
  BY SoundParts, SizeIs DEF BaseKept, BaseOK
<1>2. DOMAIN base.array \subseteq Nat
  BY <1>1, LenProperties
<1>3. PICK v : v = w.array[i]
  OBVIOUS
<1>4. CASE IsObj(v)
  <2>1. PICK key : key = BaseIndex(w, v, i)
    OBVIOUS
  <2>2. v # Absent
    BY <1>4 DEF Absent, IsObj
  <2>3. i \in Nat \ {0}
    BY <1>1, LenProperties
  <2>4. key # Null => key \in DOMAIN w.original /\ w.original[key] = v
    BY <1>1, <2>1, <2>2, <2>3, BaseIndexIs
  <2>5. key = Null => key \in Nat
    BY DEF Null
  <2>6. RemovalKey(w, i) = key
    BY <1>3, <1>4, <2>1 DEF RemovalKey
  <2>7. key \in Nat
    BY <1>1, <1>2, <2>4, <2>5
  <2> QED BY <1>1, <1>3, <1>4, <2>4, <2>6, <2>7 DEF Origin
<1>5. CASE ~IsObj(v)
  BY <1>3, <1>5 DEF RemovalKey, Origin, Null
<1> QED BY <1>4, <1>5

\* Without holes, every index has an element.
LEMMA Dense ==
    ASSUME NEW w, Sound(w), ~HasHoles(w.array), NEW s, s = Slots(w)
    PROVE  \A i \in 1 .. Len(w.array) :
              /\ i \in Index /\ w.array[i] # Absent /\ w.array[i] \in Value
              /\ At(w.array, i) = w.array[i]
              /\ s[i] = SlotAt(w, i) /\ s[i] # Absent
              /\ \A j : Arrived(s, j, s[i]) = Settle(j, s[i])
<1> TAKE i \in 1 .. Len(w.array)
<1>1. DOMAIN w.array = 1 .. Len(w.array) /\ Len(w.array) \in Nat /\ w.array \in Seq(Value)
  BY SizeIs
<1>2. i \in Index /\ w.array[i] # Absent /\ w.array[i] \in Value /\ At(w.array, i) = w.array[i]
  BY <1>1 DEF Index, HasHoles, At
<1>3. s[i] = SlotAt(w, i)
  BY SlotsAre
<1>4. s[i] # Absent
  BY <1>2, <1>3, AbsentSlot
<1> QED BY <1>2, <1>3, <1>4 DEF Arrived

LEMMA DenseArrives ==
    ASSUME NEW w, Sound(w), ~HasHoles(w.array), NEW s, s = Slots(w),
           NEW i \in 1 .. Len(w.array), NEW j
    PROVE  Arrived(s, j, s[i]) = Settle(j, s[i])
BY Dense

LEMMA NativeShiftDoes ==
    ASSUME BaseOK, NEW w, Sound(w), ~HasHoles(w.array), Len(w.array) # 0,
           NEW u, u = NativeShift(w), NEW s, s = Slots(w)
    PROVE  Does(w, u, PlainShift(s))
<1>0. /\ Len(w.array) \in Nat /\ Size(w) = Len(w.array) /\ w \in World
      /\ DOMAIN s = 1 .. Len(w.array) /\ Len(s) = Len(w.array)
      /\ w.array \in Seq(Value) /\ DOMAIN w.array = 1 .. Len(w.array)
  BY SizeIs, SlotsAre, SoundParts
<1>1. PICK n \in Nat : n = Len(w.array) /\ n - 1 \in Nat
  BY <1>0
<1>2. PICK array : array = Tail(w.array)
  OBVIOUS
<1>3. /\ array \in Seq(Value) /\ Len(array) = n - 1 /\ DOMAIN array = 1 .. n - 1
      /\ \A i \in 1 .. n - 1 : array[i] = w.array[i + 1]
  <2>1. w.array # <<>>
    BY <1>0
  <2>2. array \in Seq(Value) /\ Len(array) = n - 1
    BY <1>0, <1>1, <1>2, <2>1, HeadTailProperties
  <2>3. \A i \in 1 .. n - 1 : array[i] = w.array[i + 1]
    BY <1>0, <1>1, <1>2, <2>1, HeadTailProperties
  <2> QED BY <2>2, <2>3, LenProperties
<1>4. PICK next : next = [i \in Nat |-> i - 1]
  OBVIOUS
<1>5. PICK none : none = <<>>
  OBVIOUS
<1>6. PICK t : t = Relocate([Prepare(w) EXCEPT !.array = array], next, 1, n)
  OBVIOUS
<1>7. Prepare(w).array = w.array
  BY <1>0 DEF Prepare, MarkChanged, EnsureShallowCopy, World
<1>8. u = Removed(t, w.array[1], RemovalKey(w, 1))
  BY <1>0, <1>1, <1>2, <1>4, <1>6, <1>7 DEF NativeShift
<1>9. Clear(next, none)
  BY <1>4, <1>5 DEF Clear, Goes, Index
<1>10. Placed(w, array, next, none)
  <2>1. ASSUME NEW k \in 1 .. n - 1
        PROVE  \E i \in Index : /\ next[i] = k /\ At(w.array, i) # Absent
                                /\ array[k] = At(w.array, i)
    <3>1. k + 1 \in 1 .. n /\ k + 1 \in Nat /\ next[k + 1] = k
      BY <1>1, <1>4
    <3>2. /\ k + 1 \in Index /\ At(w.array, k + 1) = w.array[k + 1]
          /\ w.array[k + 1] # Absent
      BY <1>1, <3>1, Dense
    <3> QED BY <1>3, <3>1, <3>2
  <2> QED BY <1>3, <2>1 DEF Placed
<1>11. Relocates(w, t, next, none) /\ t.array = array
  <2>1. DOMAIN none = {}
    BY <1>5
  <2>2. PICK from \in Nat : from = 1
    OBVIOUS
  <2>3. t = Relocate([Prepare(w) EXCEPT !.array = array], next, from, n)
    BY <1>6, <2>2
  <2> QED BY <1>3, <1>9, <1>10, <2>1, <2>3, RelocateDoes
<1>12. Sound(t) /\ Turns(w, t, View(t))
  BY <1>11, RelocatesTurns DEF Relocates
<1>13. Turns(t, u, View(t)) /\ u.array = array
  <2>1. 1 \in 1 .. Len(w.array)
    BY <1>0
  <2>2. PICK key, v : key = RemovalKey(w, 1) /\ v = w.array[1]
    OBVIOUS
  <2>3. Origin(key, v) /\ v \in Value
    BY <2>1, <2>2, RemovalKeyIs, Dense
  <2>4. u = Removed(t, v, key)
    BY <1>8, <2>2
  <2>5. key \in Nat /\ (key # Null => key \in DOMAIN base.array /\ base.array[key] = v /\ IsObj(v))
    BY <2>3 DEF Origin
  <2> QED BY <1>11, <1>12, <2>3, <2>4, <2>5, RemovedTurns
<1>14. Turns(w, u, View(t))
  BY <1>0, <1>12, <1>13, AfterTurns DEF Shows
<1>15. PICK p : p = PlainShift(s)
  OBVIOUS
<1>16. DOMAIN p = 1 .. n - 1
  BY <1>0, <1>1, <1>15 DEF PlainShift, Rearranged
<1>17. ASSUME NEW i \in 1 .. n - 1
       PROVE  p[i] = View(t)[i]
  <2>1. i + 1 \in 1 .. n /\ i + 1 # i /\ i + 1 \in Nat /\ i \in Index
    BY <1>1 DEF Index
  <2>2. p[i] = Arrived(s, i, s[i + 1])
    BY <1>0, <1>1, <1>15, <2>1 DEF PlainShift, Rearranged
  <2>3. PICK j \in Index : j = i + 1 /\ s[j] = SlotAt(w, j) /\ Arrived(s, i, s[j]) = Settle(i, s[j])
    BY <1>1, <2>1, Dense
  <2>4. next[j] = i /\ i # j
    BY <1>4, <2>1, <2>3
  <2>5. SlotAt(t, i) = Settle(i, SlotAt(w, j))
    BY <1>3, <1>11, <2>3, <2>4 DEF Relocates
  <2> QED BY <2>1, <2>2, <2>3, <2>5, ViewIs
<1>18. Does(w, u, p)
  BY <1>3, <1>13, <1>14, <1>16, <1>17, TurnsDoes
<1> QED BY <1>15, <1>18

LEMMA NativeUnshiftDoes ==
    ASSUME BaseOK, NEW w, Sound(w), ~HasHoles(w.array),
           NEW items \in Seq(Value), NEW m \in Nat, UsableAll(w, items, m),
           m # 0, NEW u, u = NativeUnshift(w, items), NEW s, s = Slots(w)
    PROVE  Does(w, u, PlainSplice(s, 1, 0, items))
<1>0. /\ Len(w.array) \in Nat /\ Size(w) = Len(w.array) /\ w \in World
      /\ DOMAIN s = 1 .. Len(w.array) /\ Len(s) = Len(w.array)
      /\ w.array \in Seq(Value) /\ DOMAIN w.array = 1 .. Len(w.array)
  BY SizeIs, SlotsAre, SoundParts
<1>1. PICK n \in Nat : n = Len(w.array)
  BY <1>0
<1>2. /\ items \in Seq(Value) /\ DOMAIN items = 1 .. m /\ Len(items) = m
      /\ \A j \in 1 .. m : Usable(w, items[j])
  <2>1. /\ DOMAIN items = 1 .. m /\ Len(items) = m /\ \A j \in 1 .. m : Usable(w, items[j])
    BY DEF UsableAll
  <2> QED BY <2>1
<1>3. PICK array : array = items \o w.array
  OBVIOUS
<1>4. /\ array \in Seq(Value) /\ Len(array) = m + n /\ DOMAIN array = 1 .. m + n
      /\ \A i \in 1 .. m + n : array[i] = IF i <= m THEN items[i] ELSE w.array[i - m]
  <2>1. array \in Seq(Value) /\ Len(array) = m + n
    BY <1>0, <1>1, <1>2, <1>3, ConcatProperties
  <2>2. \A i \in 1 .. m + n : array[i] = IF i <= m THEN items[i] ELSE w.array[i - m]
    BY <1>0, <1>1, <1>2, <1>3, ConcatProperties
  <2> QED BY <2>1, <2>2, LenProperties
<1>5. PICK next : next = [i \in Nat |-> i + m]
  OBVIOUS
<1>6. Prepare(w).array = w.array
  BY <1>0 DEF Prepare, MarkChanged, EnsureShallowCopy, World
<1>a. PICK from \in Nat, size \in Nat : from = 1 /\ size = m + n
  OBVIOUS
<1>7. PICK t : t = Relocate([Prepare(w) EXCEPT !.array = array], next, from, size)
  OBVIOUS
<1>8. u = RegisterAssigned(t, items)
  <2>1. Size([Prepare(w) EXCEPT !.array = array]) = m + n
    BY <1>0, <1>4 DEF Prepare, MarkChanged, EnsureShallowCopy, World, Size
  <2> QED BY <1>2, <1>3, <1>5, <1>6, <1>7, <1>a, <2>1 DEF NativeUnshift
<1>9. Clear(next, items)
  BY <1>2, <1>5 DEF Clear, Goes, Index
<1>10. Placed(w, array, next, items)
  <2>1. ASSUME NEW k \in 1 .. m + n
        PROVE  \/ k \in DOMAIN items /\ array[k] = items[k]
               \/ \E i \in Index : /\ next[i] = k /\ At(w.array, i) # Absent
                                   /\ array[k] = At(w.array, i)
    <3>1. CASE k <= m
      BY <1>2, <1>4, <3>1
    <3>2. CASE ~(k <= m)
      <4>1. k - m \in 1 .. n /\ k - m \in Nat /\ next[k - m] = k
        BY <1>1, <1>5, <3>2
      <4>2. /\ k - m \in Index /\ At(w.array, k - m) = w.array[k - m]
            /\ w.array[k - m] # Absent
        BY <1>1, <4>1, Dense
      <4> QED BY <1>4, <3>2, <4>1, <4>2
    <3> QED BY <3>1, <3>2
  <2> QED BY <1>4, <2>1 DEF Placed
<1>11. Relocates(w, u, next, items) /\ u.array = array
  <2>1. DOMAIN items \in SUBSET (Nat \ {0})
    BY <1>2
  <2>2. \A k \in DOMAIN items : Usable(w, items[k])
    BY <1>2
  <2>3. from \in Nat /\ size \in Nat /\ array \in Seq(Value)
    BY <1>a, <1>4
  <2> QED BY <1>7, <1>8, <1>9, <1>10, <2>1, <2>2, <2>3, RelocateRegisterDoes
<1>12. Turns(w, u, View(u))
  BY <1>11, RelocatesTurns
<1>b. PICK one \in Nat, none \in Nat : one = 1 /\ none = 0
  OBVIOUS
<1>13. PICK p : p = PlainSplice(s, one, none, items)
  OBVIOUS
<1>14. SplicedFrom(s, p, one, items, m, n, m)
  <2>1. m = m - none
    BY <1>b
  <2> QED BY <1>0, <1>1, <1>2, <1>13, <2>1, PlainSpliceIs
<1>15. DOMAIN p = 1 .. n + m
  BY <1>14 DEF SplicedFrom
<1>16. ASSUME NEW i \in 1 .. n + m
       PROVE  p[i] = View(u)[i]
  <2>1. i \in Index /\ i \in Nat /\ i >= 1
    BY DEF Index
  <2>2. CASE i <= m
    <3>1. p[i] = Arrived(s, i, items[i])
      <4>1. one <= i /\ i < one + m /\ i - one + 1 = i
        BY <1>b, <2>2
      <4> QED BY <1>14, <4>1 DEF SplicedFrom
    <3>2. i \in 1 .. m
      BY <2>2
    <3>3. Usable(w, items[i])
      BY <1>2, <3>2
    <3>4. Arrived(s, i, items[i]) = Settle(i, items[i])
      BY <3>3, ItemArrives
    <3>5. i \in DOMAIN items \cap DOMAIN u.array
      BY <1>2, <1>4, <1>11, <3>2
    <3>6. SlotAt(u, i) = Settle(i, items[i])
      BY <1>11, <3>5 DEF Relocates
    <3> QED BY <2>1, <3>1, <3>4, <3>6, ViewIs
  <2>3. CASE ~(i <= m)
    <3>1. PICK j \in 1 .. n : j = i - m /\ j # i /\ j \in Nat
      BY <1>1, <2>1, <2>3
    <3>2. p[i] = Arrived(s, i, s[i - m])
      <4>1. one + m <= i
        BY <1>b, <2>1, <2>3
      <4> QED BY <1>14, <4>1 DEF SplicedFrom
    <3>3. j \in Index /\ s[j] = SlotAt(w, j) /\ Arrived(s, i, s[j]) = Settle(i, s[j])
      <4>1. j \in 1 .. Len(w.array)
        BY <1>1, <3>1
      <4>2. \A k : Arrived(s, k, s[j]) = Settle(k, s[j])
        BY <4>1, Dense
      <4>3. j \in Index /\ s[j] = SlotAt(w, j)
        BY <4>1, Dense
      <4> QED BY <4>2, <4>3
    <3>4. next[j] = i /\ i \in DOMAIN u.array
      BY <1>4, <1>5, <1>11, <3>1
    <3>5. SlotAt(u, i) = Settle(i, SlotAt(w, j))
      BY <1>11, <3>1, <3>3, <3>4 DEF Relocates
    <3> QED BY <2>1, <3>1, <3>2, <3>3, <3>5, ViewIs
  <2> QED BY <2>2, <2>3
<1>17. Does(w, u, p)
  <2>1. DOMAIN p = 1 .. Len(u.array) /\ Len(u.array) = n + m
    BY <1>4, <1>11, <1>15
  <2> QED BY <1>12, <1>16, <2>1, TurnsDoes
<1> QED BY <1>13, <1>17, <1>b

\* A reversed copy.
LEMMA ReverseIs ==
    ASSUME NEW S, NEW n \in Nat, NEW s, s \in Seq(S), Len(s) = n, NEW t, t = Reverse(s)
    PROVE  /\ t \in Seq(S) /\ Len(t) = n /\ DOMAIN t = 1 .. n
           /\ \A i \in 1 .. n : t[i] = s[n + 1 - i]
<1>1. t = [i \in 1 .. n |-> s[(n - i) + 1]]
  BY DEF Reverse
<1>2. \A i \in 1 .. n : (n - i) + 1 \in 1 .. n /\ (n - i) + 1 = n + 1 - i
  OBVIOUS
<1>3. \A i \in 1 .. n : s[i] \in S
  BY ElementOfSeq
<1>4. t \in [1 .. n -> S]
  BY <1>1, <1>2, <1>3
<1>5. t \in Seq(S) /\ Len(t) = n
  BY <1>4
<1>6. \A i \in 1 .. n : t[i] = s[n + 1 - i]
  BY <1>1, <1>2
<1> QED BY <1>4, <1>5, <1>6

LEMMA NativeReverseDoes ==
    ASSUME BaseOK, NEW w, Sound(w), ~HasHoles(w.array),
           NEW u, u = NativeReverse(w), NEW s, s = Slots(w)
    PROVE  Does(w, u, PlainReverse(s))
<1>0. /\ Len(w.array) \in Nat /\ Size(w) = Len(w.array) /\ w \in World
      /\ DOMAIN s = 1 .. Len(w.array) /\ Len(s) = Len(w.array)
      /\ w.array \in Seq(Value) /\ DOMAIN w.array = 1 .. Len(w.array)
  BY SizeIs, SlotsAre, SoundParts
<1>1. PICK n \in Nat : n = Len(w.array)
  BY <1>0
<1>2. PICK array : array = Reverse(w.array)
  OBVIOUS
<1>3. /\ array \in Seq(Value) /\ Len(array) = n /\ DOMAIN array = 1 .. n
      /\ \A i \in 1 .. n : array[i] = w.array[n + 1 - i]
  <2>1. Len(w.array) = n
    BY <1>1
  <2> QED BY <1>0, <1>2, <2>1, ReverseIs
<1>4. PICK next : next = [i \in Nat |-> n + 1 - i]
  OBVIOUS
<1>5. PICK none : none = <<>>
  OBVIOUS
<1>a. PICK from \in Nat : from = 1
  OBVIOUS
<1>6. u = Relocate([Prepare(w) EXCEPT !.array = array], next, from, n)
  <2>1. Prepare(w).array = w.array
    BY <1>0 DEF Prepare, MarkChanged, EnsureShallowCopy, World
  <2> QED BY <1>0, <1>1, <1>2, <1>4, <1>a, <2>1 DEF NativeReverse
<1>7. Clear(next, none)
  BY <1>4, <1>5 DEF Clear, Goes, Index
<1>8. ASSUME NEW k \in 1 .. n
      PROVE  n + 1 - k \in 1 .. n /\ next[n + 1 - k] = k /\ next[k] = n + 1 - k
  <2>1. n + 1 - k \in 1 .. n /\ n + 1 - k \in Nat /\ k \in Nat /\ n + 1 - (n + 1 - k) = k
    BY <1>8
  <2> QED BY <1>4, <2>1
<1>9. Placed(w, array, next, none)
  <2>1. ASSUME NEW k \in 1 .. n
        PROVE  \E i \in Index : /\ next[i] = k /\ At(w.array, i) # Absent
                                /\ array[k] = At(w.array, i)
    <3>1. PICK i \in 1 .. n : i = n + 1 - k /\ next[i] = k
      BY <1>8
    <3>2. i \in 1 .. Len(w.array)
      BY <1>1
    <3>3. i \in Index /\ At(w.array, i) = w.array[i] /\ w.array[i] # Absent
      BY <3>2, Dense
    <3> QED BY <1>3, <3>1, <3>3
  <2> QED BY <1>3, <2>1 DEF Placed
<1>10. Relocates(w, u, next, none) /\ u.array = array
  <2>1. DOMAIN none = {}
    BY <1>5
  <2>2. array \in Seq(Value) /\ from \in Nat
    BY <1>3, <1>a
  <2> QED BY <1>6, <1>7, <1>9, <2>1, <2>2, RelocateDoes
<1>11. Turns(w, u, View(u))
  BY <1>10, RelocatesTurns
<1>12. PICK p : p = PlainReverse(s)
  OBVIOUS
<1>13. DOMAIN p = 1 .. n /\ \A i \in 1 .. n : p[i] = IF n + 1 - i = i THEN s[i]
                                                   ELSE Arrived(s, i, s[n + 1 - i])
  BY <1>0, <1>1, <1>12 DEF PlainReverse, Rearranged
<1>14. ASSUME NEW i \in 1 .. n PROVE p[i] = View(u)[i]
  <2>1. PICK j \in 1 .. n : j = n + 1 - i /\ next[j] = i
    BY <1>8
  <2>2. j \in 1 .. Len(w.array) /\ i \in 1 .. Len(w.array)
    BY <1>1
  <2>3. i \in Index /\ s[i] = SlotAt(w, i)
    BY <2>2, Dense
  <2>4. \A k : Arrived(s, k, s[j]) = Settle(k, s[j])
    BY <2>2, Dense
  <2>5. j \in Index /\ s[j] = SlotAt(w, j)
    BY <2>2, Dense
  <2>6. next[j] \in DOMAIN u.array
    BY <1>3, <1>10, <2>1
  <2>7. SlotAt(u, i) = IF i = j THEN SlotAt(w, j) ELSE Settle(i, SlotAt(w, j))
    BY <1>10, <2>1, <2>5, <2>6 DEF Relocates
  <2>8. p[i] = IF j = i THEN s[i] ELSE Arrived(s, i, s[j])
    BY <1>13, <2>1
  <2> QED BY <2>3, <2>4, <2>5, <2>7, <2>8, ViewIs
<1>15. DOMAIN p = 1 .. Len(u.array)
  BY <1>3, <1>10, <1>13
<1>16. \A i \in 1 .. Len(u.array) : p[i] = View(u)[i]
  BY <1>3, <1>10, <1>14
<1>17. Does(w, u, p)
  BY <1>11, <1>15, <1>16, TurnsDoes
<1> QED BY <1>12, <1>17

LEMMA PalindromeDoes ==
    ASSUME BaseOK, NEW w, Sound(w), ~HasHoles(w.array), Palindrome(w), NEW s, s = Slots(w)
    PROVE  Does(w, w, PlainReverse(s))
<1>0. /\ Len(w.array) \in Nat /\ w \in World
      /\ DOMAIN s = 1 .. Len(w.array) /\ Len(s) = Len(w.array)
      /\ w.array \in Seq(Value) /\ w.original \in Seq(Value) /\ w.original = base.array
  BY SizeIs, SlotsAre, SoundParts, WorldParts DEF BaseKept
<1>1. PICK n \in Nat : n = Len(w.array)
  BY <1>0
<1>2. \A i \in 1 .. n : w.array[i] = w.array[n + 1 - i]
  <2>1. PICK t : t = Reverse(w.array)
    OBVIOUS
  <2>2. t = w.array
    BY <2>1 DEF Palindrome
  <2>3. Len(w.array) = n
    BY <1>1
  <2>4. w.array \in Seq(Value)
    BY <1>0
  <2>5. \A i \in 1 .. n : t[i] = w.array[n + 1 - i]
    BY <2>1, <2>3, <2>4, ReverseIs
  <2> QED BY <2>2, <2>5
<1>3. ASSUME NEW i \in 1 .. n
      PROVE  SlotAt(w, i) = IF IsObj(w.array[i]) THEN Base(w.array[i].id) ELSE w.array[i]
  <2>0. i \in 1 .. Len(w.array)
    BY <1>1
  <2>1. i \in Index /\ At(w.array, i) = w.array[i] /\ w.array[i] \in Value
    BY <2>0, Dense
  <2>2. PICK v : v = w.array[i]
    OBVIOUS
  <2>3. CASE IsObj(v)
    <3>1. Fits(w, i, v)
      BY <2>1, <2>2, SoundParts DEF AllFit
    <3>2. i \notin w.assigned
      BY DEF Palindrome
    <3>3. v \in Range(w.original) /\ (~w.relocated => v = At(w.original, i))
      BY <2>3, <3>1, <3>2 DEF Fits
    <3>4. SlotAt(w, i) = Base(v.id)
      BY <1>0, <2>1, <2>2, <2>3, <3>2, <3>3, SlotOfIs DEF SlotAt
    <3> QED BY <2>2, <2>3, <3>4
  <2>4. CASE ~IsObj(v)
    BY <2>1, <2>2, <2>4 DEF SlotAt, SlotOf
  <2> QED BY <2>3, <2>4
<1>4. PICK p : p = PlainReverse(s)
  OBVIOUS
<1>5. DOMAIN p = 1 .. n /\ \A i \in 1 .. n : p[i] = IF n + 1 - i = i THEN s[i]
                                                  ELSE Arrived(s, i, s[n + 1 - i])
  BY <1>0, <1>1, <1>4 DEF PlainReverse, Rearranged
<1>6. ASSUME NEW i \in 1 .. n PROVE p[i] = View(w)[i]
  <2>1. PICK j \in 1 .. n : j = n + 1 - i
    OBVIOUS
  <2>2. j \in 1 .. Len(w.array) /\ i \in 1 .. Len(w.array)
    BY <1>1
  <2>3. i \in Index /\ s[i] = SlotAt(w, i) /\ s[j] = SlotAt(w, j)
    BY <2>2, Dense
  <2>4. \A k : Arrived(s, k, s[j]) = Settle(k, s[j])
    BY <2>2, Dense
  <2>5. SlotAt(w, j) = SlotAt(w, i)
    BY <1>2, <1>3, <2>1
  <2>6. ~IsObj(SlotAt(w, i))
    BY <1>3 DEF IsObj, Base
  <2>7. Settle(i, SlotAt(w, i)) = SlotAt(w, i)
    BY <2>6 DEF Settle
  <2> QED BY <1>5, <2>1, <2>3, <2>4, <2>5, <2>7, ViewIs
<1>7. Turns(w, w, View(w))
  BY TurnsSame, ViewIs
<1>8. DOMAIN p = 1 .. Len(w.array) /\ \A i \in 1 .. Len(w.array) : p[i] = View(w)[i]
  BY <1>1, <1>5, <1>6
<1>9. Does(w, w, p)
  BY <1>7, <1>8, TurnsDoes
<1> QED BY <1>4, <1>9

LEMMA NativeSortDoes ==
    ASSUME BaseOK, NEW w, Sound(w), ~HasHoles(w.array),
           \A i \in DOMAIN w.array : ~IsRef(w.array[i]),
           NEW u, u = NativeSort(w), NEW s, s = Slots(w)
    PROVE  Does(w, u, PlainSort(s))
<1>0. /\ Len(w.array) \in Nat /\ Size(w) = Len(w.array) /\ w \in World
      /\ DOMAIN s = 1 .. Len(w.array) /\ Len(s) = Len(w.array)
      /\ w.array \in Seq(Value) /\ DOMAIN w.array = 1 .. Len(w.array)
  BY SizeIs, SlotsAre, SoundParts
<1>1. PICK n \in Nat : n = Len(w.array)
  BY <1>0
<1>2. \A i \in 1 .. n : /\ s[i] = w.array[i] /\ s[i] \in Value /\ s[i] # Absent
                        /\ ~IsRef(s[i])
  <2> SUFFICES ASSUME NEW i \in 1 .. n
               PROVE  /\ s[i] = w.array[i] /\ s[i] \in Value /\ s[i] # Absent
                      /\ ~IsRef(s[i])
    OBVIOUS
  <2>1. i \in 1 .. Len(w.array)
    BY <1>1
  <2>2. /\ w.array[i] # Absent /\ w.array[i] \in Value /\ At(w.array, i) = w.array[i]
        /\ s[i] = SlotAt(w, i) /\ ~IsRef(w.array[i])
    BY <1>0, <2>1, Dense
  <2> QED BY <2>2 DEF SlotAt, SlotOf, IsRef
<1>3. s = w.array
  <2>1. DOMAIN s = DOMAIN w.array /\ \A i \in DOMAIN s : s[i] = w.array[i]
    BY <1>0, <1>1, <1>2
  <2>2. s = [i \in DOMAIN s |-> s[i]]
    BY DEF Slots
  <2>3. w.array = [i \in DOMAIN w.array |-> w.array[i]]
    BY <1>0
  <2> QED BY <2>1, <2>2, <2>3
<1>4. PICK place, t : place = Places(s) /\ t = Sorted(s)
  OBVIOUS
<1>5. PICK from, c : from = Order(place) /\ c = Cardinality(DOMAIN place)
  OBVIOUS
<1>6. Ordered(s, t, from, c, n) /\ c = n
  <2>1. DOMAIN s = 1 .. n /\ \A i \in 1 .. n : s[i].id \in Nat
    BY <1>0, <1>1, <1>2, Values
  <2>2. \A i \in 1 .. n : s[i] # Absent
    BY <1>2
  <2> QED BY <1>4, <1>5, <2>1, <2>2, SortedIs
<1>7. /\ DOMAIN t = 1 .. n /\ Len(t) = n
      /\ \A k \in 1 .. n : from[k] \in 1 .. n /\ t[k] = s[from[k]]
  BY <1>6 DEF Ordered
<1>8. \A k \in 1 .. n : t[k] \in Value /\ t[k] # Absent /\ ~IsRef(t[k])
  BY <1>2, <1>7
<1>9. t \in Seq(Value)
  <2>1. t = [k \in 1 .. Cardinality(DOMAIN place) |->
               s[CHOOSE i \in DOMAIN place : place[i] = k]]
    BY <1>4 DEF Sorted
  <2>2. t \in [1 .. n -> Value]
    BY <1>5, <1>6, <1>8, <2>1
  <2> QED BY <2>2
<1>10. PICK p : p = PlainSort(s)
  OBVIOUS
<1>11. DOMAIN p = 1 .. n /\ \A i \in 1 .. n : p[i] = t[i]
  <2>1. \A i \in 1 .. n : ~IsObj(s[i])
    BY <1>2 DEF IsRef
  <2>2. \A i \in 1 .. n : Settle(i, s[i]) = s[i]
    BY <2>1 DEF Settle
  <2>3. DOMAIN s = 1 .. n /\ Ordered(s, Sorted(s), from, n, n)
    BY <1>0, <1>1, <1>4, <1>6
  <2>4. /\ DOMAIN p = 1 .. n
        /\ \A i \in 1 .. n : p[i] = IF i <= n THEN Settle(i, s[from[i]])
                                    ELSE Emptied(s[i])
    BY <1>10, <2>2, <2>3, PlainSortIs
  <2>5. ASSUME NEW i \in 1 .. n PROVE p[i] = t[i]
    <3>1. PICK j \in 1 .. n : j = from[i] /\ t[i] = s[j]
      BY <1>7
    <3>2. Settle(i, s[j]) = s[j]
      BY <2>1 DEF Settle
    <3> QED BY <2>4, <3>1, <3>2
  <2> QED BY <2>4, <2>5
<1>12. CASE Sorted(w.array) = w.array
  <2>1. u = w /\ t = s
    BY <1>3, <1>4, <1>12 DEF NativeSort
  <2>2. Turns(w, w, View(w))
    BY TurnsSame, ViewIs
  <2>3. \A i \in 1 .. n : p[i] = View(w)[i]
    <3> SUFFICES ASSUME NEW i \in 1 .. n PROVE p[i] = View(w)[i]
      OBVIOUS
    <3>1. i \in Index /\ s[i] = SlotAt(w, i)
      BY <1>1, Dense
    <3> QED BY <1>11, <2>1, <3>1, ViewIs
  <2>4. DOMAIN p = 1 .. Len(w.array) /\ \A i \in 1 .. Len(w.array) : p[i] = View(w)[i]
    BY <1>1, <1>11, <2>3
  <2> QED BY <1>10, <2>1, <2>2, <2>4, TurnsDoes
<1>13. CASE Sorted(w.array) # w.array
  <2>1. PICK v : v = [Prepare(w) EXCEPT !.array = t]
    OBVIOUS
  <2>2. /\ v \in World /\ v.array = t /\ v.original = w.original /\ v.heap = w.heap
        /\ v.copied /\ v.operated /\ v.drafts = w.drafts /\ v.tasks = w.tasks
        /\ v.dense = w.dense /\ v.inert = w.inert /\ v.relocated = w.relocated
    <3>1. v = [w EXCEPT !.copied = TRUE, !.operated = TRUE, !.array = t]
      BY <2>1 DEF Prepare, MarkChanged, EnsureShallowCopy
    <3> QED BY <1>0, <1>9, <3>1 DEF World
  <2>3. PICK one \in Nat : one = 1
    OBVIOUS
  <2>4. u = MarkRange(v, one, n)
    <3>1. Prepare(w).array = w.array
      BY <1>0 DEF Prepare, MarkChanged, EnsureShallowCopy, World
    <3> QED BY <1>0, <1>1, <1>3, <1>4, <1>13, <2>1, <2>3, <3>1 DEF NativeSort
  <2>5. RangedFrom(v, u)
    BY <2>2, <2>4, MarkRangeFields
  <2>6. /\ u \in World /\ u.array = t /\ u.original = w.original /\ u.heap = w.heap
        /\ u.copied /\ u.operated /\ u.drafts = w.drafts /\ u.tasks = w.tasks
        /\ u.dense = w.dense /\ u.inert = w.inert /\ u.relocated
    BY <2>2, <2>5 DEF RangedFrom
  <2>7. Grows(w, u)
    BY <1>0, <2>6, GrowsSame
  <2>8. BaseKept(u) /\ DraftsApart(u) /\ HeapInOrder(u)
    BY <1>0, <2>6, <2>7, SoundParts, GrowsKeeps
  <2>9. ASSUME NEW i \in Index PROVE ~IsRef(At(t, i))
    BY <1>7, <1>8, Values DEF At
  <2>10. AllFit(u)
    BY <2>6, <2>9 DEF AllFit, Fits, IsRef
  <2>11. CachesRight(u)
    BY <1>7, <1>8, <2>6 DEF CachesRight, HasHoles
  <2>12. Untouched(u)
    BY <2>6 DEF Untouched
  <2>13. Sound(u)
    BY <2>6, <2>8, <2>10, <2>11, <2>12 DEF Sound
  <2>14. Turns(w, u, View(u))
    BY <2>7, <2>13, ViewIs DEF Turns, Shows
  <2>15. \A i \in 1 .. n : p[i] = View(u)[i]
    <3> SUFFICES ASSUME NEW i \in 1 .. n PROVE p[i] = View(u)[i]
      OBVIOUS
    <3>1. i \in Index /\ At(u.array, i) = t[i]
      BY <1>7, <2>6 DEF Index, At
    <3>2. ~IsObj(t[i])
      BY <1>8 DEF IsRef
    <3> QED BY <1>11, <3>1, <3>2, ViewIs DEF SlotAt, SlotOf
  <2>16. DOMAIN p = 1 .. Len(u.array) /\ \A i \in 1 .. Len(u.array) : p[i] = View(u)[i]
    BY <1>7, <1>11, <2>6, <2>15
  <2> QED BY <1>10, <2>14, <2>16, TurnsDoes
<1> QED BY <1>12, <1>13

Joined(t, a, b, p, q) ==
    /\ Len(t) = p + q
    /\ \A i \in 1 .. p + q : t[i] = IF i <= p THEN a[i] ELSE b[i - p]

LEMMA JoinedIs ==
    ASSUME NEW S, NEW a \in Seq(S), NEW b \in Seq(S), NEW t, t = a \o b,
           NEW p \in Nat, Len(a) = p, NEW q \in Nat, Len(b) = q
    PROVE  t \in Seq(S) /\ Joined(t, a, b, p, q)
<1>1. t \in Seq(S) /\ Len(t) = p + q
  BY ConcatProperties
<1>2. \A i \in 1 .. p + q : t[i] = IF i <= p THEN a[i] ELSE b[i - p]
  BY ConcatProperties
<1> QED BY <1>1, <1>2 DEF Joined

Taken(t, s, a, b) ==
    /\ Len(t) = b - a + 1
    /\ \A i \in 1 .. b - a + 1 : t[i] = s[a + i - 1]

LEMMA TakenIs ==
    ASSUME NEW S, NEW s, NEW a \in Int, NEW b \in Int, a <= b + 1,
           \A i \in a .. b : s[i] \in S, NEW t, t = SubSeq(s, a, b)
    PROVE  t \in Seq(S) /\ Taken(t, s, a, b)
<1>1. t \in Seq(S) /\ Len(t) = IF a <= b THEN b - a + 1 ELSE 0
  BY SubSeqProperties
<1>2. \A i \in 1 .. b - a + 1 : t[i] = s[a + i - 1]
  BY SubSeqProperties
<1> QED BY <1>1, <1>2 DEF Taken

\* The copy of a splice.
CopyOf(t, s, items, start, m, more, size) ==
    /\ Len(t) = size /\ DOMAIN t = 1 .. size
    /\ \A i \in 1 .. size :
          /\ i < start => t[i] = s[i]
          /\ start <= i /\ i < start + m => t[i] = items[i - start + 1]
          /\ start + m <= i => t[i] = s[i - more]

LEMMA SplicedIs ==
    ASSUME NEW S, NEW s \in Seq(S), NEW n \in Nat, Len(s) = n,
           NEW items \in Seq(S), NEW m \in Nat, Len(items) = m,
           NEW start \in Nat \ {0}, NEW deleted \in Nat, start + deleted <= n + 1,
           NEW more \in Int, more = m - deleted,
           NEW t, t = SubSeq(s, 1, start - 1) \o items \o SubSeq(s, start + deleted, n)
    PROVE  t \in Seq(S) /\ CopyOf(t, s, items, start, m, more, n + more)
<1>1. PICK a, b : a = SubSeq(s, 1, start - 1) /\ b = SubSeq(s, start + deleted, n)
  OBVIOUS
<1>2. PICK e \in Nat : e = start - 1
  OBVIOUS
<1>3. PICK f \in Nat : f = start + deleted
  OBVIOUS
<1>4. DOMAIN s = 1 .. n /\ \A i \in 1 .. n : s[i] \in S
  BY ElementOfSeq, LenProperties
<1>5. a \in Seq(S) /\ Len(a) = e /\ \A i \in 1 .. e : a[i] = s[i]
  <2>1. PICK one \in Int : one = 1
    OBVIOUS
  <2>2. \A i \in one .. e : s[i] \in S
    BY <1>2, <1>4, <2>1
  <2>3. a = SubSeq(s, one, e)
    BY <1>1, <1>2, <2>1
  <2>4. e \in Int /\ one \in Int /\ one <= e + 1
    BY <1>2, <2>1
  <2>5. a \in Seq(S) /\ Taken(a, s, one, e)
    BY <2>2, <2>3, <2>4, TakenIs
  <2> QED BY <1>2, <2>1, <2>5 DEF Taken
<1>6. b \in Seq(S) /\ Len(b) = n - f + 1 /\ \A i \in 1 .. n - f + 1 : b[i] = s[f + i - 1]
  <2>1. \A i \in f .. n : s[i] \in S
    BY <1>3, <1>4
  <2>2. b = SubSeq(s, f, n) /\ f \in Int /\ n \in Int /\ f <= n + 1
    BY <1>1, <1>3
  <2>3. b \in Seq(S) /\ Taken(b, s, f, n)
    BY <2>1, <2>2, TakenIs
  <2> QED BY <2>3 DEF Taken
<1>7. PICK c : c = a \o items
  OBVIOUS
<1>8. c \in Seq(S) /\ Joined(c, a, items, e, m)
  BY <1>2, <1>5, <1>7, JoinedIs
<1>9. PICK p \in Nat, q \in Nat : p = e + m /\ q = n - f + 1
  BY <1>2, <1>3
<1>10. t \in Seq(S) /\ Joined(t, c, b, p, q)
  <2>1. t = c \o b
    BY <1>1, <1>7
  <2>2. Len(c) = p /\ Len(b) = q
    BY <1>6, <1>8, <1>9 DEF Joined
  <2> QED BY <1>6, <1>8, <1>9, <2>1, <2>2, JoinedIs
<1>11. p + q = n + more
  BY <1>2, <1>3, <1>9
<1>12. Len(t) = n + more /\ DOMAIN t = 1 .. n + more
  BY <1>10, <1>11, LenProperties DEF Joined
<1>13. ASSUME NEW i \in 1 .. n + more
       PROVE  /\ i < start => t[i] = s[i]
              /\ start <= i /\ i < start + m => t[i] = items[i - start + 1]
              /\ start + m <= i => t[i] = s[i - more]
  <2>0. t[i] = IF i <= p THEN c[i] ELSE b[i - p]
    BY <1>10, <1>11 DEF Joined
  <2>1. CASE i < start
    <3>1. i \in 1 .. e /\ i \in 1 .. e + m /\ i <= p /\ i <= e
      BY <1>2, <1>9, <2>1
    <3>2. a[i] = s[i]
      BY <1>5, <3>1
    <3>3. c[i] = a[i] /\ t[i] = c[i]
      BY <1>8, <2>0, <3>1 DEF Joined
    <3>4. ~(start <= i) /\ ~(start + m <= i)
      BY <2>1
    <3> QED BY <3>2, <3>3, <3>4
  <2>2. CASE start <= i /\ i < start + m
    <3>1. i \in 1 .. e + m /\ i <= p /\ ~(i <= e) /\ i - e = i - start + 1
      BY <1>2, <1>9, <2>2
    <3>2. ~(i < start) /\ ~(start + m <= i)
      BY <2>2
    <3>3. c[i] = items[i - e]
      BY <1>8, <3>1 DEF Joined
    <3> QED BY <2>0, <3>1, <3>2, <3>3
  <2>3. CASE start + m <= i
    <3>1. PICK j : j = i - p
      OBVIOUS
    <3>2. j \in 1 .. n - f + 1 /\ ~(i <= p) /\ f + j - 1 = i - more
      BY <1>2, <1>3, <1>9, <2>3, <3>1
    <3>3. ~(i < start) /\ ~(i < start + m)
      BY <2>3
    <3> QED BY <1>6, <2>0, <3>1, <3>2, <3>3
  <2> QED BY <2>1, <2>2, <2>3
<1> QED BY <1>10, <1>12, <1>13 DEF CopyOf

\* Where the elements go.
Opens(next, start, deleted, more) ==
    \A i \in Nat : /\ i < start => next[i] = i
                   /\ start <= i /\ i < start + deleted => next[i] = 0
                   /\ start + deleted <= i => next[i] = i + more

LEMMA OpensClear ==
    ASSUME NEW start \in Nat \ {0}, NEW deleted \in Nat, NEW m \in Nat,
           NEW more \in Int, more = m - deleted,
           NEW next, Opens(next, start, deleted, more),
           NEW values, DOMAIN values = start .. start + m - 1
    PROVE  Clear(next, values)
<1>1. ASSUME NEW i \in Nat
      PROVE  /\ next[i] \in Int
             /\ next[i] >= 1 => \/ i < start /\ next[i] = i
                                \/ start + deleted <= i /\ next[i] = i + more
             /\ next[i] < 1 => i < start + deleted
             /\ i # 0 => next[i] \notin start .. start + m - 1
  <2>1. CASE i < start
    BY <2>1 DEF Opens
  <2>2. CASE start <= i /\ i < start + deleted
    <3>1. next[i] = 0
      BY <2>2 DEF Opens
    <3> QED BY <2>2, <3>1
  <2>3. CASE start + deleted <= i
    <3>1. next[i] = i + more
      BY <2>3 DEF Opens
    <3> QED BY <2>3, <3>1
  <2> QED BY <2>1, <2>2, <2>3
<1>2. ASSUME NEW i \in Index, NEW j \in Index, next[i] >= 1, next[i] = next[j]
      PROVE  i = j
  <2>1. i \in Nat /\ j \in Nat
    BY DEF Index
  <2>2. \/ i < start /\ next[i] = i
        \/ start + deleted <= i /\ next[i] = i + more
    BY <1>1, <1>2, <2>1
  <2>3. \/ j < start /\ next[j] = j
        \/ start + deleted <= j /\ next[j] = j + more
    BY <1>1, <1>2, <2>1
  <2> QED BY <1>2, <2>1, <2>2, <2>3
<1>3. \A i \in Index : next[i] \notin DOMAIN values
  BY <1>1 DEF Index
<1>4. Goes(next)
  BY <1>1 DEF Goes
<1> QED BY <1>2, <1>3, <1>4 DEF Clear

\* Calls of removed() with legal steps.
Removals(w, steps, c) ==
    /\ steps = [j \in 1 .. c |-> steps[j]]
    /\ \A j \in 1 .. c : steps[j].op = "remove" /\ Legal(w, steps[j])

LEMMA RunRemoves ==
    ASSUME BaseOK, NEW w, Sound(w), NEW c \in Nat,
           NEW steps, Removals(w, steps, c), NEW t, NEW f, Turns(w, t, f), NEW u, u = Run(t, steps)
    PROVE  Turns(w, u, f) /\ Len(u.array) = Len(t.array)
<1> DEFINE g == [k \in 0 .. c |-> f]
<1>1. \A j \in 1 .. c : g[j] = f /\ g[j - 1] = f
  OBVIOUS
<1>2. g[0] = f /\ g[c] = f
  OBVIOUS
<1> HIDE DEF g
<1>3. \A j \in 1 .. c : Leads(steps[j], g[j - 1], g[j])
  BY <1>1 DEF Leads, Removals
<1>4. \A j \in 1 .. c : Stays(steps[j], Len(t.array))
  BY DEF Stays, Removals
<1>5. Turns(w, t, g[0])
  BY <1>2
<1>6. \A j \in 1 .. c : Legal(w, steps[j])
  BY DEF Removals
<1>a. steps = [j \in 1 .. c |-> steps[j]]
  BY DEF Removals
<1>7. /\ Turns(w, u, g[c])
      /\ (\A j \in 1 .. c : Stays(steps[j], Len(t.array))) => Len(u.array) = Len(t.array)
  BY <1>a, <1>3, <1>5, <1>6, RunTurns
<1> QED BY <1>2, <1>4, <1>7

\* The elements that a splice removes are drafted: that moves nothing.
LEMMA RemovalsAre ==
    ASSUME BaseOK, NEW w, Sound(w), NEW start \in Nat \ {0}, NEW deleted \in Nat,
           start + deleted <= Len(w.array) + 1,
           NEW steps, steps = [j \in 1 .. deleted |-> steps[j]],
           \A j \in 1 .. deleted :
              steps[j] = Step("remove", RemovalKey(w, start + j - 1), 0,
                              w.array[start + j - 1])
    PROVE  Removals(w, steps, deleted)
<1>0. w.array \in Seq(Value) /\ Len(w.array) \in Nat /\ DOMAIN w.array = 1 .. Len(w.array)
  BY SizeIs
<1>1. ASSUME NEW j \in 1 .. deleted
      PROVE  steps[j].op = "remove" /\ Legal(w, steps[j])
  <2>1. PICK i : i = start + j - 1
    OBVIOUS
  <2>2. i \in 1 .. Len(w.array)
    BY <1>0, <2>1
  <2>3. PICK v, key : v = w.array[i] /\ key = RemovalKey(w, i)
    OBVIOUS
  <2>4. steps[j] = [op |-> "remove", at |-> key, from |-> 0, value |-> v]
    BY <2>1, <2>3 DEF Step
  <2>5. Origin(key, v)
    BY <2>2, <2>3, RemovalKeyIs
  <2>6. v \in Value
    BY <1>0, <2>2, <2>3
  <2>7. PICK x : x = steps[j]
    OBVIOUS
  <2>8. x.op = "remove" /\ x.at = key /\ x.value = v
    BY <2>4, <2>7
  <2>9. Legal(w, x)
    BY <2>5, <2>6, <2>8 DEF Legal, Origin
  <2> QED BY <2>7, <2>8, <2>9
<1> QED BY <1>1 DEF Removals

LEMMA NativeSpliceDoes ==
    ASSUME BaseOK, NEW w, Sound(w), ~HasHoles(w.array), NEW start \in Nat \ {0},
           NEW deleted \in Nat, start + deleted <= Len(w.array) + 1,
           NEW items \in Seq(Value), NEW m \in Nat, UsableAll(w, items, m),
           NEW u, u = NativeSplice(w, start, deleted, items), NEW s, s = Slots(w)
    PROVE  Does(w, u, PlainSplice(s, start, deleted, items))
<1>0. /\ Len(w.array) \in Nat /\ Size(w) = Len(w.array) /\ w \in World
      /\ DOMAIN s = 1 .. Len(w.array) /\ Len(s) = Len(w.array)
      /\ w.array \in Seq(Value) /\ DOMAIN w.array = 1 .. Len(w.array)
  BY SizeIs, SlotsAre, SoundParts
<1>1. PICK n \in Nat : n = Len(w.array)
  BY <1>0
<1>2. DOMAIN items = 1 .. m /\ Len(items) = m /\ \A j \in 1 .. m : Usable(w, items[j])
  BY DEF UsableAll
<1>3. PICK more \in Int : more = m - deleted
  OBVIOUS
<1>4. PICK array : array = SubSeq(w.array, 1, start - 1) \o items
                              \o SubSeq(w.array, start + deleted, n)
  OBVIOUS
<1>a. array \in Seq(Value) /\ CopyOf(array, w.array, items, start, m, more, n + more)
  <2>1. PICK old : old = w.array
    OBVIOUS
  <2>2. start + deleted <= n + 1 /\ Len(old) = n /\ old \in Seq(Value)
    BY <1>0, <1>1, <2>1
  <2>3. more = m - deleted /\ more \in Int /\ Len(items) = m
    BY <1>2, <1>3
  <2>4. array = SubSeq(old, 1, start - 1) \o items \o SubSeq(old, start + deleted, n)
    BY <1>4, <2>1
  <2>5. array \in Seq(Value) /\ CopyOf(array, old, items, start, m, more, n + more)
    BY <2>2, <2>3, <2>4, SplicedIs
  <2> QED BY <2>1, <2>5
<1>5. /\ array \in Seq(Value) /\ Len(array) = n + more /\ DOMAIN array = 1 .. n + more
      /\ \A i \in 1 .. n + more :
            /\ i < start => array[i] = w.array[i]
            /\ start <= i /\ i < start + m => array[i] = items[i - start + 1]
            /\ start + m <= i => array[i] = w.array[i - more]
  BY <1>a DEF CopyOf
<1>6. PICK next : next = [i \in Nat |-> CASE i < start -> i
                                          [] i >= start /\ i < start + deleted -> 0
                                          [] OTHER -> i + more]
  OBVIOUS
<1>7. Opens(next, start, deleted, more)
  BY <1>6 DEF Opens
<1>8. PICK values : values = [i \in start .. start + m - 1 |-> items[i - start + 1]]
  OBVIOUS
<1>9. /\ DOMAIN values = start .. start + m - 1
      /\ DOMAIN values \in SUBSET (Nat \ {0})
      /\ \A k \in DOMAIN values : k - start + 1 \in 1 .. m /\ values[k] = items[k - start + 1]
  BY <1>8
<1>10. \A k \in DOMAIN values : Usable(w, values[k])
  BY <1>2, <1>9
<1>11. Clear(next, values)
  BY <1>3, <1>7, <1>9, OpensClear
<1>12. PICK to \in Nat : to = IF more = 0 THEN start + deleted - 1 ELSE Max({n, n + more})
  <2>1. Max({n, n + more}) \in Int /\ Max({n, n + more}) \in {n, n + more}
    BY MaxAmong
  <2>2. n + more \in Nat
    BY <1>1, <1>3
  <2>3. Max({n, n + more}) \in Nat
    BY <2>1, <2>2
  <2>4. start + deleted - 1 \in Nat
    OBVIOUS
  <2> QED BY <2>3, <2>4
<1>13. PICK t : t = Relocate([Prepare(w) EXCEPT !.array = array], next, start, to)
  OBVIOUS
<1>14. PICK r : r = RegisterAssigned(t, values)
  OBVIOUS
<1>15. PICK steps : steps = [j \in 1 .. deleted |->
                               LET i == start + j - 1
                               IN  Step("remove", RemovalKey(w, i), 0, w.array[i])]
  OBVIOUS
<1>16. u = Run(r, steps)
  <2>1. Prepare(w).array = w.array
    BY <1>0 DEF Prepare, MarkChanged, EnsureShallowCopy, World
  <2>2. Len(items) - deleted = more /\ start + Len(items) - 1 = start + m - 1
    BY <1>2, <1>3
  <2>3. [Prepare(w) EXCEPT !.array = SubSeq(@, 1, start - 1) \o items
                                        \o SubSeq(@, start + deleted, Size(w))]
           = [Prepare(w) EXCEPT !.array = array]
    BY <1>0, <1>1, <1>4, <2>1
  <2>4. [i \in Nat |-> CASE i < start -> i
                         [] i >= start /\ i < start + deleted -> 0
                         [] OTHER -> i + (Len(items) - deleted)] = next
    BY <1>6, <2>2
  <2>5. (IF Len(items) - deleted = 0 THEN start + deleted - 1
         ELSE Max({Size(w), Size(w) + (Len(items) - deleted)})) = to
    BY <1>0, <1>1, <1>12, <2>2
  <2>6. [i \in start .. start + Len(items) - 1 |-> items[i - start + 1]] = values
    BY <1>8, <2>2
  <2> QED BY <1>13, <1>14, <1>15, <2>3, <2>4, <2>5, <2>6 DEF NativeSplice
<1>17. Placed(w, array, next, values)
  <2>1. ASSUME NEW k \in 1 .. n + more
        PROVE  \/ k \in DOMAIN values /\ array[k] = values[k]
               \/ \E i \in Index : /\ next[i] = k /\ At(w.array, i) # Absent
                                   /\ array[k] = At(w.array, i)
    <3>1. CASE start <= k /\ k < start + m
      <4>1. k \in DOMAIN values
        BY <1>9, <3>1
      <4> QED BY <1>5, <1>9, <3>1, <4>1
    <3>2. ASSUME NEW i \in 1 .. n, next[i] = k, array[k] = w.array[i]
          PROVE  \E j \in Index : /\ next[j] = k /\ At(w.array, j) # Absent
                                  /\ array[k] = At(w.array, j)
      <4>1. i \in 1 .. Len(w.array)
        BY <1>1
      <4>2. i \in Index /\ At(w.array, i) = w.array[i] /\ w.array[i] # Absent
        BY <4>1, Dense
      <4> QED BY <3>2, <4>2
    <3>3. CASE k < start
      <4>1. k \in 1 .. n /\ k \in Nat
        BY <1>1, <3>3
      <4>2. next[k] = k /\ array[k] = w.array[k]
        BY <1>5, <1>7, <3>3, <4>1 DEF Opens
      <4> QED BY <3>2, <4>1, <4>2
    <3>4. CASE start + m <= k
      <4>1. PICK i \in Nat : i = k - more /\ start + deleted <= i /\ i \in 1 .. n
        BY <1>3, <3>4
      <4>2. next[i] = i + more
        BY <1>7, <4>1 DEF Opens
      <4>3. array[k] = w.array[i] /\ next[i] = k
        BY <1>5, <3>4, <4>1, <4>2
      <4> QED BY <3>2, <4>1, <4>3
    <3> QED BY <3>1, <3>3, <3>4
  <2> QED BY <1>5, <2>1 DEF Placed
<1>18. Relocates(w, r, next, values) /\ r.array = array
  <2>1. array \in Seq(Value) /\ start \in Nat /\ to \in Nat
    BY <1>5, <1>12
  <2>2. DOMAIN values \in SUBSET (Nat \ {0})
    BY <1>9
  <2> QED BY SMTT(30), <1>10, <1>11, <1>13, <1>14, <1>17, <2>1, <2>2, RelocateRegisterDoes
<1>19. Turns(w, r, View(r))
  BY <1>18, RelocatesTurns
<1>20. Turns(w, u, View(r)) /\ Len(u.array) = n + more
  <2>1. steps = [j \in 1 .. deleted |-> steps[j]]
    BY <1>15
  <2>2. \A j \in 1 .. deleted :
           steps[j] = Step("remove", RemovalKey(w, start + j - 1), 0,
                           w.array[start + j - 1])
    BY <1>15
  <2>3. Removals(w, steps, deleted)
    BY <2>1, <2>2, RemovalsAre
  <2>4. Turns(w, u, View(r)) /\ Len(u.array) = Len(r.array)
    BY <1>16, <1>19, <2>3, RunRemoves
  <2> QED BY <1>5, <1>18, <2>4
<1>21. PICK p : p = PlainSplice(s, start, deleted, items)
  OBVIOUS
<1>22. SplicedFrom(s, p, start, items, m, n, more)
  <2>1. start \in Nat
    OBVIOUS
  <2> QED BY <1>0, <1>1, <1>2, <1>3, <1>21, <2>1, PlainSpliceIs
<1>23. DOMAIN p = 1 .. n + more
  BY <1>22 DEF SplicedFrom
<1>24. ASSUME NEW i \in 1 .. n + more
       PROVE  p[i] = View(r)[i]
  <2>0. i \in Index /\ i \in Nat /\ i >= 1 /\ i \in DOMAIN r.array
    BY <1>5, <1>18 DEF Index
  <2>1. CASE start <= i /\ i < start + m
    <3>1. PICK j \in 1 .. m : j = i - start + 1
      BY <2>1
    <3>2. p[i] = Arrived(s, i, items[j])
      BY <1>22, <2>1, <3>1 DEF SplicedFrom
    <3>3. Arrived(s, i, items[j]) = Settle(i, items[j])
      BY <1>2, ItemArrives
    <3>4. i \in DOMAIN values /\ values[i] = items[j]
      BY <1>9, <2>1, <3>1
    <3>5. SlotAt(r, i) = Settle(i, values[i])
      BY <1>18, <2>0, <3>4 DEF Relocates
    <3> QED BY <2>0, <3>2, <3>3, <3>4, <3>5, ViewIs
  <2>2. ASSUME NEW j \in 1 .. n, next[j] = i,
               p[i] = IF j = i THEN s[i] ELSE Arrived(s, i, s[j])
        PROVE  p[i] = View(r)[i]
    <3>1. j \in 1 .. Len(w.array)
      BY <1>1
    <3>2. Arrived(s, i, s[j]) = Settle(i, s[j])
      BY <3>1, DenseArrives
    <3>3. j \in Index /\ s[j] = SlotAt(w, j)
      BY <3>1, Dense
    <3>4. next[j] \in DOMAIN r.array
      BY <2>0, <2>2
    <3>5. SlotAt(r, i) = IF i = j THEN SlotAt(w, j) ELSE Settle(i, SlotAt(w, j))
      BY <1>18, <2>2, <3>3, <3>4 DEF Relocates
    <3> QED BY <2>0, <2>2, <3>2, <3>3, <3>5, ViewIs
  <2>3. CASE i < start
    <3>1. i \in 1 .. n
      BY <1>1, <2>3
    <3>2. next[i] = i
      BY <1>7, <2>0, <2>3 DEF Opens
    <3>3. p[i] = s[i]
      BY <1>22, <2>3 DEF SplicedFrom
    <3> QED BY <2>2, <3>1, <3>2, <3>3
  <2>4. CASE start + m <= i
    <3>1. PICK j \in Nat : j = i - more /\ start + deleted <= j /\ j \in 1 .. n
      BY <1>3, <2>4
    <3>2. next[j] = i
      BY <1>7, <3>1 DEF Opens
    <3>3. p[i] = IF more = 0 THEN s[i] ELSE Arrived(s, i, s[i - more])
      BY <1>22, <2>4 DEF SplicedFrom
    <3>4. more = 0 <=> j = i
      BY <3>1
    <3>5. p[i] = IF j = i THEN s[i] ELSE Arrived(s, i, s[j])
      BY <3>1, <3>3, <3>4
    <3> QED BY <2>2, <3>1, <3>2, <3>5
  <2> QED BY <2>0, <2>1, <2>3, <2>4
<1>25. DOMAIN p = 1 .. Len(u.array) /\ \A i \in 1 .. Len(u.array) : p[i] = View(r)[i]
  BY <1>20, <1>23, <1>24
<1>26. Does(w, u, p)
  BY <1>20, <1>25, TurnsDoes
<1> QED BY <1>21, <1>26

-----------------------------------------------------------------------------
(***************************************************************************)
(* The methods, whichever way they take.                                   *)
(***************************************************************************)

\* The caches are filled: nothing moves.
Filled(w, t) == /\ Sound(t) /\ Grows(w, t)
                /\ t.array = w.array /\ Slots(t) = Slots(w)

LEMMA TurnsFills ==
    ASSUME NEW w, Sound(w), NEW t, Turns(w, t, View(w)), t.array = w.array
    PROVE  Filled(w, t)
<1>1. Sound(t) /\ Grows(w, t)
  BY DEF Turns
<1>2. PICK a, b : a = Slots(w) /\ b = Slots(t)
  OBVIOUS
<1>3. w.array \in Seq(Value) /\ DOMAIN w.array = 1 .. Len(w.array) /\ Len(w.array) \in Nat
  BY SizeIs
<1>4. /\ DOMAIN a = 1 .. Len(w.array)
      /\ \A i \in 1 .. Len(w.array) : a[i] = SlotAt(w, i)
  BY <1>2, SlotsAre
<1>5. /\ DOMAIN b = 1 .. Len(w.array)
      /\ \A i \in 1 .. Len(w.array) : b[i] = SlotAt(t, i)
  BY <1>1, <1>2, SlotsAre
<1>6. ASSUME NEW i \in 1 .. Len(w.array) PROVE SlotAt(t, i) = SlotAt(w, i)
  <2>1. i \in Index /\ At(w.array, i) = w.array[i] /\ At(t.array, i) = w.array[i]
        /\ w.array[i] \in Value
    BY <1>3 DEF Index, At
  <2>2. Shows(w, t, SlotAt(w, i), SlotAt(t, i))
    BY <2>1, ViewIs DEF Turns
  <2>3. CASE IsObj(w.array[i])
    <3>1. ~IsDraft(SlotAt(t, i))
      BY <2>1, <2>3, Values DEF SlotAt, SlotOf, Base, IsDraft
    <3> QED BY <2>2, <3>1 DEF Shows
  <2>4. CASE ~IsObj(w.array[i])
    BY <2>1, <2>4 DEF SlotAt, SlotOf
  <2> QED BY <2>3, <2>4
<1>7. a = [i \in DOMAIN a |-> a[i]] /\ b = [i \in DOMAIN b |-> b[i]]
  BY <1>2 DEF Slots
<1>8. a = b
  BY <1>4, <1>5, <1>6, <1>7
<1> QED BY <1>1, <1>2, <1>8 DEF Filled

LEMMA DenseFills ==
    ASSUME NEW w, Sound(w), NEW t, t = CheckDense(w)
    PROVE  /\ Filled(w, t)
           /\ IsDense(w) => ~HasHoles(t.array)
BY CheckDenseTurns, TurnsFills DEF IsDense

LEMMA InertFills ==
    ASSUME NEW w, Sound(w), NEW t, t = CheckInert(w)
    PROVE  /\ Filled(w, t)
           /\ IsInert(w) => \A i \in DOMAIN w.array : ~IsRef(w.array[i])
BY CheckInertTurns, TurnsFills DEF IsInert

LEMMA FillsTwice ==
    ASSUME NEW w, Sound(w), NEW t, Filled(w, t), NEW v, Filled(t, v)
    PROVE  Filled(w, v)
BY SoundParts, GrowsTwice DEF Filled

LEMMA DoesAfter ==
    ASSUME NEW w, Sound(w), NEW t, Filled(w, t), NEW u, NEW p, Does(t, u, p)
    PROVE  Does(w, u, p)
<1>1. Sound(u) /\ Grows(t, u) /\ DOMAIN p = DOMAIN u.array
      /\ \A i \in DOMAIN p : Shows(t, u, p[i], SlotAt(u, i))
  BY DEF Does
<1>2. Grows(w, t) /\ w \in World /\ t \in World /\ u \in World
  BY <1>1, SoundParts DEF Filled
<1>3. Grows(w, u)
  BY <1>1, <1>2, GrowsTwice
<1>4. DOMAIN w.drafts \subseteq DOMAIN t.drafts
  BY <1>2, GrowsDomain
<1>5. \A i \in DOMAIN p : Shows(w, u, p[i], SlotAt(u, i))
  BY <1>1, <1>4 DEF Shows
<1> QED BY <1>1, <1>3, <1>5 DEF Does

LEMMA UsableAllStays ==
    ASSUME NEW w, Sound(w), NEW t, Filled(w, t), NEW items, NEW m, UsableAll(w, items, m)
    PROVE  UsableAll(t, items, m)
<1>1. w \in World /\ t \in World /\ Grows(w, t)
  BY SoundParts DEF Filled
<1> QED BY <1>1, UsableStays DEF UsableAll

LEMMA DoesNothing ==
    ASSUME NEW w, Sound(w), NEW p, DOMAIN p = 1 .. Len(w.array), NEW s, s = Slots(w),
           \A i \in 1 .. Len(w.array) : p[i] = s[i]
    PROVE  Does(w, w, p)
<1>1. Turns(w, w, View(w))
  BY TurnsSame, ViewIs
<1>2. \A i \in 1 .. Len(w.array) : i \in Index /\ s[i] = SlotAt(w, i)
  BY SlotsAre, SizeIs DEF Index
<1>3. \A i \in 1 .. Len(w.array) : p[i] = View(w)[i]
  BY <1>2, ViewIs
<1> QED BY <1>1, <1>3, TurnsDoes

LEMMA ShiftDoes ==
    ASSUME BaseOK, NEW w, Sound(w), Len(w.array) # 0,
           NEW u, u = ShiftMethod(w), NEW s, s = Slots(w)
    PROVE  Does(w, u, PlainShift(s))
<1>0. w.array # <<>>
  OBVIOUS
<1>1. PICK t : t = CheckDense(w)
  OBVIOUS
<1>2. /\ Filled(w, t) /\ Sound(t) /\ Len(t.array) # 0 /\ s = Slots(t)
      /\ IsDense(w) => ~HasHoles(t.array)
  BY <1>1, DenseFills DEF Filled
<1>3. u = IF IsDense(w) THEN NativeShift(t) ELSE ProxyShift(t)
  BY <1>0, <1>1 DEF ShiftMethod
<1>4. Does(t, u, PlainShift(s))
  <2>1. CASE IsDense(w)
    BY <1>2, <1>3, <2>1, NativeShiftDoes
  <2>2. CASE ~IsDense(w)
    BY <1>2, <1>3, <2>2, ProxyShiftDoes
  <2> QED BY <2>1, <2>2
<1> QED BY <1>2, <1>4, DoesAfter

LEMMA UnshiftDoes ==
    ASSUME BaseOK, NEW w, Sound(w), NEW items \in Seq(Value), NEW m \in Nat,
           UsableAll(w, items, m), NEW u, u = UnshiftMethod(w, items), NEW s, s = Slots(w)
    PROVE  Does(w, u, PlainSplice(s, 1, 0, items))
<1>0. Len(items) = m
  BY DEF UsableAll
<1>1. CASE items = <<>>
  <2>1. u = w /\ m = 0
    BY <1>0, <1>1 DEF UnshiftMethod
  <2>2. PICK p : p = PlainSplice(s, 1, 0, items)
    OBVIOUS
  <2>3. PICK one \in Nat, none \in Nat, n \in Nat :
           one = 1 /\ none = 0 /\ n = Len(w.array)
    BY SizeIs
  <2>4. Len(s) = n
    BY <2>3, SlotsAre
  <2>5. p = PlainSplice(s, one, none, items) /\ none = m - none /\ Len(items) = m
    BY <1>0, <2>1, <2>2, <2>3
  <2>6. SplicedFrom(s, p, one, items, m, n, none)
    BY <2>3, <2>4, <2>5, PlainSpliceIs
  <2>7. DOMAIN p = 1 .. Len(w.array)
    BY <2>3, <2>6 DEF SplicedFrom
  <2>8. \A i \in 1 .. Len(w.array) : p[i] = s[i]
    <3> SUFFICES ASSUME NEW i \in 1 .. Len(w.array) PROVE p[i] = s[i]
      OBVIOUS
    <3>1. i \in 1 .. n + none /\ one + m <= i
      BY <2>1, <2>3
    <3> QED BY <2>3, <2>6, <3>1 DEF SplicedFrom
  <2>9. Does(w, w, p)
    BY <2>7, <2>8, DoesNothing
  <2> QED BY <2>1, <2>2, <2>9
<1>2. CASE items # <<>>
  <2>0. m # 0
    BY <1>0, <1>2
  <2>1. PICK t : t = CheckDense(w)
    OBVIOUS
  <2>2. /\ Filled(w, t) /\ Sound(t) /\ s = Slots(t)
        /\ IsDense(w) => ~HasHoles(t.array)
    BY <2>1, DenseFills DEF Filled
  <2>3. u = IF IsDense(w) THEN NativeUnshift(t, items) ELSE ProxyUnshift(t, items)
    BY <1>2, <2>1 DEF UnshiftMethod
  <2>4. UsableAll(t, items, m)
    BY <2>2, UsableAllStays
  <2>5. Does(t, u, PlainSplice(s, 1, 0, items))
    <3>1. CASE IsDense(w)
      BY <2>0, <2>2, <2>3, <2>4, <3>1, NativeUnshiftDoes
    <3>2. CASE ~IsDense(w)
      BY <2>0, <2>2, <2>3, <2>4, <3>2, ProxyUnshiftDoes
    <3> QED BY <3>1, <3>2
  <2> QED BY <2>2, <2>5, DoesAfter
<1> QED BY <1>1, <1>2

LEMMA SpliceDoes ==
    ASSUME BaseOK, NEW w, Sound(w), NEW start \in Nat \ {0}, NEW deleted \in Nat,
           start + deleted <= Len(w.array) + 1, NEW items \in Seq(Value), NEW m \in Nat,
           UsableAll(w, items, m), NEW u, u = SpliceMethod(w, start, deleted, items),
           NEW s, s = Slots(w)
    PROVE  Does(w, u, PlainSplice(s, start, deleted, items))
<1>0. start \in Index
  BY DEF Index
<1>1. PICK t : t = CheckDense(w)
  OBVIOUS
<1>2. /\ Filled(w, t) /\ Sound(t) /\ s = Slots(t) /\ t.array = w.array
      /\ IsDense(w) => ~HasHoles(t.array)
  BY <1>1, DenseFills DEF Filled
<1>3. UsableAll(t, items, m) /\ start + deleted <= Len(t.array) + 1
  BY <1>2, UsableAllStays
<1>4. \/ IsDense(w) /\ u = NativeSplice(t, start, deleted, items)
      \/ u = ProxySplice(t, start, deleted, items)
      \/ u = ProxySplice(w, start, deleted, items)
  BY <1>1 DEF SpliceMethod
<1>5. CASE IsDense(w) /\ u = NativeSplice(t, start, deleted, items)
  <2>1. Does(t, u, PlainSplice(s, start, deleted, items))
    BY <1>2, <1>3, <1>5, NativeSpliceDoes
  <2> QED BY <1>2, <2>1, DoesAfter
<1>6. CASE u = ProxySplice(t, start, deleted, items)
  <2>1. Does(t, u, PlainSplice(s, start, deleted, items))
    BY <1>0, <1>2, <1>3, <1>6, ProxySpliceDoes
  <2> QED BY <1>2, <2>1, DoesAfter
<1>7. CASE u = ProxySplice(w, start, deleted, items)
  BY <1>0, <1>7, ProxySpliceDoes
<1> QED BY <1>4, <1>5, <1>6, <1>7

LEMMA SortDoes ==
    ASSUME BaseOK, NEW w, Sound(w), NEW u, u = SortMethod(w), NEW s, s = Slots(w)
    PROVE  Does(w, u, PlainSort(s))
<1>1. PICK t : t = CheckInert(w)
  OBVIOUS
<1>2. PICK v : v = CheckDense(t)
  OBVIOUS
<1>3. /\ Filled(w, t) /\ Sound(t) /\ s = Slots(t) /\ t.array = w.array
      /\ IsInert(w) => \A i \in DOMAIN w.array : ~IsRef(w.array[i])
  BY <1>1, InertFills DEF Filled
<1>4. Filled(t, v) /\ (IsDense(t) => ~HasHoles(v.array))
  BY <1>2, <1>3, DenseFills
<1>5. /\ Filled(w, v) /\ Sound(v) /\ s = Slots(v) /\ v.array = w.array
  BY <1>3, <1>4, FillsTwice DEF Filled
<1>6. \/ IsInert(w) /\ IsDense(t) /\ u = NativeSort(v)
      \/ u = ProxySort(v)
      \/ u = ProxySort(t)
  BY <1>1, <1>2 DEF SortMethod
<1>7. CASE IsInert(w) /\ IsDense(t) /\ u = NativeSort(v)
  <2>1. Does(v, u, PlainSort(s))
    BY <1>3, <1>4, <1>5, <1>7, NativeSortDoes
  <2> QED BY <1>5, <2>1, DoesAfter
<1>8. CASE u = ProxySort(v)
  <2>1. Does(v, u, PlainSort(s))
    BY <1>5, <1>8, ProxySortDoes
  <2> QED BY <1>5, <2>1, DoesAfter
<1>9. CASE u = ProxySort(t)
  <2>1. Does(t, u, PlainSort(s))
    BY <1>3, <1>9, ProxySortDoes
  <2> QED BY <1>3, <2>1, DoesAfter
<1> QED BY <1>6, <1>7, <1>8, <1>9

LEMMA ReverseDoes ==
    ASSUME BaseOK, NEW w, Sound(w), NEW u, u = ReverseMethod(w), NEW s, s = Slots(w)
    PROVE  Does(w, u, PlainReverse(s))
<1>1. PICK t : t = CheckDense(w)
  OBVIOUS
<1>2. /\ Filled(w, t) /\ Sound(t) /\ s = Slots(t) /\ t.array = w.array
      /\ IsDense(w) => ~HasHoles(t.array)
  BY <1>1, DenseFills DEF Filled
<1>3. Size(w) = Len(w.array) /\ Len(w.array) \in Nat
  BY SizeIs
<1>4. CASE Size(w) < 2
  <2>1. u = w
    BY <1>3, <1>4 DEF ReverseMethod
  <2>2. PICK p : p = PlainReverse(s)
    OBVIOUS
  <2>3. DOMAIN s = 1 .. Len(w.array) /\ Len(s) = Len(w.array)
    BY SlotsAre
  <2>4. /\ DOMAIN p = 1 .. Len(w.array)
        /\ \A i \in 1 .. Len(w.array) :
              p[i] = IF Len(w.array) + 1 - i = i THEN s[i]
                     ELSE Arrived(s, i, s[Len(w.array) + 1 - i])
    BY <2>2, <2>3 DEF PlainReverse, Rearranged
  <2>5. \A i \in 1 .. Len(w.array) : Len(w.array) + 1 - i = i
    BY <1>3, <1>4
  <2>6. \A i \in 1 .. Len(w.array) : p[i] = s[i]
    BY <2>4, <2>5
  <2>7. Does(w, w, p)
    BY <2>4, <2>6, DoesNothing
  <2> QED BY <2>1, <2>2, <2>7
<1>5. CASE ~(Size(w) < 2) /\ ~IsDense(w)
  <2>1. u = ProxyReverse(t)
    BY <1>1, <1>3, <1>5 DEF ReverseMethod
  <2>2. Does(t, u, PlainReverse(s))
    BY <1>2, <2>1, ProxyReverseDoes
  <2> QED BY <1>2, <2>2, DoesAfter
<1>6. CASE ~(Size(w) < 2) /\ IsDense(w) /\ Palindrome(w)
  <2>1. u = t
    BY <1>1, <1>3, <1>6 DEF ReverseMethod
  <2>2. ~HasHoles(w.array)
    BY <1>2, <1>6
  <2>3. Palindrome(t)
    BY <1>1, <1>6, SoundParts DEF CheckDense, Palindrome, World
  <2>4. Does(t, t, PlainReverse(s))
    BY <1>2, <1>6, <2>3, PalindromeDoes
  <2> QED BY <1>2, <2>1, <2>4, DoesAfter
<1>7. CASE ~(Size(w) < 2) /\ IsDense(w) /\ ~Palindrome(w)
  <2>1. u = NativeReverse(t)
    BY <1>1, <1>3, <1>7 DEF ReverseMethod
  <2>2. Does(t, u, PlainReverse(s))
    BY <1>2, <1>7, <2>1, NativeReverseDoes
  <2> QED BY <1>2, <2>2, DoesAfter
<1> QED BY <1>4, <1>5, <1>6, <1>7

-----------------------------------------------------------------------------
(***************************************************************************)
(* The other calls.                                                        *)
(***************************************************************************)

LEMMA GetDoes ==
    ASSUME BaseOK, NEW w, Sound(w), NEW i \in Index, NEW u, u = GetTrap(w, i),
           NEW s, s = Slots(w)
    PROVE  Does(w, u, s)
<1>1. Turns(w, u, View(w)) /\ Len(u.array) = Len(w.array)
  BY GetTrapTurns DEF GotFrom
<1>2. DOMAIN s = 1 .. Len(u.array)
  BY <1>1, SlotsAre
<1>3. \A j \in 1 .. Len(w.array) : j \in Index /\ s[j] = SlotAt(w, j)
  BY SlotsAre, SizeIs DEF Index
<1>4. \A j \in 1 .. Len(u.array) : s[j] = View(w)[j]
  BY <1>1, <1>3, ViewIs
<1> QED BY <1>1, <1>2, <1>4, TurnsDoes

LEMMA SetDoes ==
    ASSUME BaseOK, NEW w, Sound(w), NEW i \in Index, NEW v, Usable(w, v),
           NEW u, u = SetTrap(w, i, v), NEW s, s = Slots(w)
    PROVE  Does(w, u, PlainSet(s, i, v))
<1>0. i \in Nat /\ Len(w.array) \in Nat /\ Len(s) = Len(w.array)
  BY SizeIs, SlotsAre DEF Index
<1>1. PICK f : f = [View(w) EXCEPT ![i] = Settle(i, v)]
  OBVIOUS
<1>2. Turns(w, u, f) /\ Len(u.array) = IF i > Len(w.array) THEN i ELSE Len(w.array)
  BY <1>1, SetTrapTurns
<1>3. Max({Len(s), i}) = Len(u.array)
  BY <1>0, <1>2, MaxOfTwo
<1>4. PICK p : p = PlainSet(s, i, v)
  OBVIOUS
<1>5. /\ DOMAIN p = 1 .. Len(u.array)
      /\ \A j \in 1 .. Len(u.array) : p[j] = IF j = i THEN Settle(i, v) ELSE At(s, j)
  BY <1>3, <1>4 DEF PlainSet, Write
<1>6. ASSUME NEW j \in 1 .. Len(u.array)
      PROVE  p[j] = f[j]
  <2>1. j \in Index
    BY DEF Index
  <2>2. At(s, j) = SlotAt(w, j)
    BY <2>1, SlotsAre
  <2>3. f[j] = IF j = i THEN Settle(i, v) ELSE SlotAt(w, j)
    BY <1>1, <2>1 DEF View
  <2> QED BY <1>5, <2>2, <2>3
<1>7. Does(w, u, p)
  BY <1>2, <1>5, <1>6, TurnsDoes
<1> QED BY <1>4, <1>7

LEMMA DeleteDoes ==
    ASSUME BaseOK, NEW w, Sound(w), NEW i \in Index, Own(w.array, i),
           NEW u, u = DeleteTrap(w, i), NEW s, s = Slots(w)
    PROVE  Does(w, u, PlainSet(s, i, Undefined))
<1>1. u = SetTrap(w, i, Undefined)
  BY DEF DeleteTrap
<1>2. Usable(w, Undefined)
  BY Values DEF Usable, IsRef
<1> QED BY <1>1, <1>2, SetDoes

LEMMA ResizeDoes ==
    ASSUME NEW w, Sound(w), NEW n \in Nat, NEW u, u = SetLength(w, n),
           NEW s, s = Slots(w)
    PROVE  Does(w, u, Resize(s, n))
<1>1. PICK f : f = [j \in Index |-> IF j <= n THEN SlotAt(w, j) ELSE Absent]
  OBVIOUS
<1>2. Turns(w, u, f) /\ Len(u.array) = n
  BY <1>1, SetLengthTurns
<1>3. PICK p : p = Resize(s, n)
  OBVIOUS
<1>4. DOMAIN p = 1 .. n /\ \A j \in 1 .. n : p[j] = At(s, j)
  BY <1>3 DEF Resize
<1>5. ASSUME NEW j \in 1 .. n PROVE p[j] = f[j]
  <2>1. j \in Index /\ j <= n
    BY DEF Index
  <2>2. At(s, j) = SlotAt(w, j)
    BY <2>1, SlotsAre
  <2> QED BY <1>1, <1>4, <2>1, <2>2
<1>6. Does(w, u, p)
  BY <1>2, <1>4, <1>5, TurnsDoes
<1> QED BY <1>3, <1>6

\* w became u by a change of the heap: the array and its records stay.
Beside(w, u) ==
    /\ u \in World
    /\ u.original = w.original /\ u.array = w.array /\ u.copied = w.copied
    /\ u.assigned = w.assigned /\ u.children = w.children
    /\ u.relocated = w.relocated /\ u.dense = w.dense /\ u.inert = w.inert
    /\ u.tasks = w.tasks /\ (u.operated \/ u.operated = w.operated)
    /\ Len(w.heap) <= Len(u.heap)
    /\ Len(u.drafts) = Len(w.drafts) /\ DOMAIN u.drafts = DOMAIN w.drafts
    /\ \A d \in DOMAIN w.drafts :
          /\ u.drafts[d].original = w.drafts[d].original
          /\ u.drafts[d].key = w.drafts[d].key
          /\ u.drafts[d].callbacks = w.drafts[d].callbacks
          /\ ~u.operated => u.drafts[d].operated = w.drafts[d].operated

LEMMA BesideKeeps ==
    ASSUME NEW w, Sound(w), NEW u, Beside(w, u),
           \A a \in DOMAIN base.heap : u.heap[a] = w.heap[a],
           DraftsApart(u), HeapInOrder(u)
    PROVE  Sound(u) /\ Slots(u) = Slots(w)
<1>1. /\ w \in World /\ BaseKept(w) /\ AllFit(w) /\ CachesRight(w) /\ Untouched(w)
      /\ w.heap \in Seq(Value) /\ w.array \in Seq(Value)
  BY SoundParts, WorldParts
<1>2. /\ u \in World /\ u.heap \in Seq(Value)
      /\ u.original = w.original /\ u.array = w.array /\ u.copied = w.copied
      /\ u.assigned = w.assigned /\ u.children = w.children
      /\ u.relocated = w.relocated /\ u.dense = w.dense /\ u.inert = w.inert
      /\ u.tasks = w.tasks /\ (u.operated \/ u.operated = w.operated)
      /\ Len(w.heap) <= Len(u.heap) /\ DOMAIN u.drafts = DOMAIN w.drafts
  BY WorldParts DEF Beside
<1>3. DOMAIN w.heap \subseteq DOMAIN u.heap
  BY <1>1, <1>2, LenProperties
<1>4. BaseKept(u)
  <2>1. Len(base.heap) <= Len(w.heap) /\ \A a \in DOMAIN base.heap : w.heap[a] = base.heap[a]
    BY <1>1 DEF BaseKept
  <2>2. Len(base.heap) <= Len(u.heap)
    <3>1. PICK b, c, d : b = Len(base.heap) /\ c = Len(w.heap) /\ d = Len(u.heap)
      OBVIOUS
    <3> QED BY <1>1, <1>2, <2>1, LenProperties
  <2> QED BY <1>1, <1>2, <2>1, <2>2 DEF BaseKept
<1>5. AllFit(u)
  <2> SUFFICES ASSUME NEW i \in Index PROVE Fits(u, i, At(w.array, i))
    BY <1>2 DEF AllFit
  <2>1. PICK v : v = At(w.array, i)
    OBVIOUS
  <2>2. Fits(w, i, v)
    BY <1>1, <2>1 DEF AllFit
  <2>3. Fits(u, i, v)
    BY <1>2, <1>3, <2>2 DEF Fits, Beside
  <2> QED BY <2>1, <2>3
<1>6. CachesRight(u)
  BY <1>1, <1>2 DEF CachesRight
<1>7. Untouched(u)
  <2> SUFFICES ASSUME ~u.operated PROVE Untouched(u)
    BY DEF Untouched
  <2>1. ~w.operated
    BY <1>2
  <2>2. /\ Len(w.array) = Len(w.original)
        /\ \A d \in DOMAIN w.drafts : ~w.drafts[d].operated
        /\ \A i \in DOMAIN w.array :
              \/ w.array[i] = w.original[i]
              \/ /\ IsDraft(w.array[i])
                 /\ w.original[i] = Obj(w.drafts[w.array[i].id].original)
    BY <1>1, <2>1 DEF Untouched
  <2>3. \A d \in DOMAIN w.drafts : ~u.drafts[d].operated
    BY <2>2 DEF Beside
  <2>4. ASSUME NEW i \in DOMAIN w.array, w.array[i] # w.original[i]
        PROVE  /\ IsDraft(w.array[i])
               /\ w.original[i] = Obj(u.drafts[w.array[i].id].original)
    <3>1. PICK v : v = w.array[i] /\ IsDraft(v) /\ w.original[i] = Obj(w.drafts[v.id].original)
      BY <2>2, <2>4
    <3>2. i \in Index /\ At(w.array, i) = v
      BY <1>1, <3>1, LenProperties DEF Index, At
    <3>3. v.id \in DOMAIN w.drafts
      BY <1>1, <3>1, <3>2 DEF AllFit, Fits
    <3>4. u.drafts[v.id].original = w.drafts[v.id].original
      BY <3>3 DEF Beside
    <3> QED BY <3>1, <3>4
  <2> QED BY <1>2, <2>2, <2>3, <2>4 DEF Untouched
<1>8. Sound(u)
  BY <1>2, <1>4, <1>5, <1>6, <1>7 DEF Sound
<1>9. \A v, i : BaseIndex(u, v, i) = BaseIndex(w, v, i)
  BY <1>2 DEF BaseIndex
<1>10. Slots(u) = Slots(w)
  BY <1>2, <1>9 DEF Slots
<1> QED BY <1>8, <1>10

\* The fields of a draft that is written to.
Writes(w, u, c, v, d, x) ==
    u = [w EXCEPT !.heap[c] = v, !.drafts[d].operated = TRUE, !.drafts[d].assigned = x]
Noting(n, x)          == [n EXCEPT !.operated = TRUE, !.assigned = x]
Replaces(w, u, h, s)  == u = [w EXCEPT !.heap = h, !.drafts = s]

LEMMA Written ==
    ASSUME NEW w \in World, NEW c, NEW v, NEW d \in DOMAIN w.drafts, NEW x,
           NEW u, Writes(w, u, c, v, d, x),
           NEW n, n = Noting(w.drafts[d], x),
           NEW s, s = [w.drafts EXCEPT ![d] = n],
           NEW h, h = [w.heap EXCEPT ![c] = v]
    PROVE  Replaces(w, u, h, s)
<1>1. PICK d1 : d1 = [w.drafts EXCEPT ![d] = [w.drafts[d] EXCEPT !.operated = TRUE]]
  OBVIOUS
<1>2. PICK d2 : d2 = [d1 EXCEPT ![d] = [d1[d] EXCEPT !.assigned = x]]
  OBVIOUS
<1>3. d1[d] = [w.drafts[d] EXCEPT !.operated = TRUE] /\ DOMAIN d1 = DOMAIN w.drafts
  BY <1>1
<1>4. d2[d] = n /\ DOMAIN d2 = DOMAIN w.drafts
  BY <1>2, <1>3 DEF Noting
<1>5. \A e \in DOMAIN w.drafts : e # d => d2[e] = w.drafts[e]
  BY <1>1, <1>2
<1>6. d2 = s
  <2>1. d2 = [e \in DOMAIN w.drafts |-> d2[e]]
    BY <1>2, <1>3
  <2>2. s = [e \in DOMAIN w.drafts |-> s[e]]
    OBVIOUS
  <2>3. \A e \in DOMAIN w.drafts : s[e] = d2[e]
    BY <1>4, <1>5
  <2> QED BY <2>1, <2>2, <2>3
<1>7. PICK w1 : w1 = [w EXCEPT !.heap[c] = v]
  OBVIOUS
<1>8. PICK w2 : w2 = [w1 EXCEPT !.drafts[d].operated = TRUE]
  OBVIOUS
<1>9. u = [w2 EXCEPT !.drafts[d].assigned = x]
  BY <1>7, <1>8 DEF Writes
<1>10. w1 = [w EXCEPT !.heap = h] /\ w1.drafts = w.drafts
  BY <1>7 DEF World
<1>11. w2 = [w1 EXCEPT !.drafts = d1] /\ w2.drafts = d1
  BY <1>1, <1>8, <1>10 DEF World
<1>12. u = [w2 EXCEPT !.drafts = d2]
  BY <1>2, <1>9, <1>11
<1> QED BY <1>6, <1>10, <1>11, <1>12 DEF World, Replaces

\* A change of an element, through its draft.
LEMMA SetElementDoes ==
    ASSUME BaseOK, NEW w, Sound(w), NEW d \in DOMAIN w.drafts,
           NEW v \in Value, ~IsRef(v), NEW u, u = SetElement(w, d, v)
    PROVE  Sound(u) /\ Slots(u) = Slots(w) /\ DOMAIN u.drafts = DOMAIN w.drafts
<1>0. /\ w \in World /\ BaseKept(w) /\ DraftsApart(w) /\ HeapInOrder(w)
      /\ w.heap \in Seq(Value) /\ w.drafts \in Seq(ElementDraft)
  BY SoundParts, WorldParts
<1>1. PICK n : n = w.drafts[d]
  OBVIOUS
<1>2. n \in ElementDraft
  BY <1>0, <1>1, ElementOfSeq
<1>3. CASE u = w
  BY <1>3
<1>4. PICK l \in Nat, b \in Nat : l = Len(w.heap) /\ b = Len(base.heap) /\ b <= l
  <2>1. Len(w.heap) \in Nat /\ base.heap \in Seq(Value) /\ Len(base.heap) \in Nat
    BY <1>0, LenProperties DEF BaseOK
  <2> QED BY <1>0, <2>1 DEF BaseKept
<1>5. PICK c : c = IF n.copy = Null THEN l + 1 ELSE n.copy
  OBVIOUS
<1>6. c \in Nat /\ b + 1 <= c /\ c <= l + 1 /\ (n.copy = Null => c = l + 1)
      /\ (n.copy # Null => n.copy = c /\ c <= l)
  <2>1. n.copy \in {Null} \cup (b + 1 .. l)
    BY <1>0, <1>1, <1>4 DEF DraftsApart
  <2> QED BY <1>4, <1>5, <2>1 DEF Null
<1>7. PICK h : h = IF n.copy = Null THEN Append(w.heap, w.heap[n.original]) ELSE w.heap
  OBVIOUS
<1>8. PICK heap : heap = [h EXCEPT ![c] = v]
  OBVIOUS
<1>a. DOMAIN w.heap = 1 .. l /\ DOMAIN base.heap = 1 .. b
  BY <1>0, <1>4, LenProperties DEF BaseOK
<1>b. w.heap[n.original] \in Value
  <2>1. base.array[n.key] = Obj(n.original) /\ n.key \in DOMAIN base.array
    BY <1>0, <1>1 DEF DraftsApart
  <2>2. Obj(n.original) \in Range(base.array)
    BY <2>1 DEF Range
  <2>3. n.original \in DOMAIN base.heap
    BY <1>2, <2>2, ObjIs DEF BaseOK, ElementDraft
  <2>4. n.original \in DOMAIN w.heap
    BY <1>4, <1>a, <2>3
  <2> QED BY <1>0, <2>4, ElementOfSeq
<1>9. /\ h \in Seq(Value) /\ c \in DOMAIN h /\ l <= Len(h)
      /\ \A a \in 1 .. l : a \in DOMAIN h /\ h[a] = w.heap[a]
      /\ \A a \in DOMAIN h : a \in 1 .. l \/ a = c
  <2>1. CASE n.copy = Null
    <3>1. h = Append(w.heap, w.heap[n.original])
      BY <1>7, <2>1
    <3>2. /\ h \in Seq(Value) /\ Len(h) = l + 1
          /\ \A i \in 1 .. l : h[i] = w.heap[i]
      BY <1>0, <1>4, <1>b, <3>1, AppendProperties
    <3>3. DOMAIN h = 1 .. l + 1
      BY <3>2, LenProperties
    <3> QED BY <1>4, <1>6, <2>1, <3>2, <3>3
  <2>2. CASE n.copy # Null
    BY <1>0, <1>4, <1>6, <1>7, <1>a, <2>2
  <2> QED BY <2>1, <2>2
<1>10. /\ heap \in Seq(Value) /\ Len(heap) = Len(h) /\ DOMAIN heap = DOMAIN h
  BY <1>8, <1>9, PutIs
<1>11. \A a \in DOMAIN heap : heap[a] = IF a = c THEN v ELSE w.heap[a]
  BY <1>8, <1>9, <1>10
<1>12. PICK m : m = [n EXCEPT !.copy = c, !.operated = TRUE,
                              !.assigned = (v # w.heap[n.original])]
  OBVIOUS
<1>13. /\ m \in ElementDraft /\ m.original = n.original /\ m.key = n.key
       /\ m.callbacks = n.callbacks /\ m.copy = c /\ m.operated
  BY <1>2, <1>6, <1>12 DEF ElementDraft
<1>14. PICK drafts : drafts = [w.drafts EXCEPT ![d] = m]
  OBVIOUS
<1>15. /\ drafts \in Seq(ElementDraft) /\ Len(drafts) = Len(w.drafts)
       /\ DOMAIN drafts = DOMAIN w.drafts
       /\ \A e \in DOMAIN w.drafts : drafts[e] = IF e = d THEN m ELSE w.drafts[e]
  BY <1>0, <1>13, <1>14
<1>16. CASE u # w
  <2>1. u = [w EXCEPT !.operated = TRUE, !.heap = heap, !.drafts = drafts]
    <3>1. CASE n.copy = Null
      <4>1. PICK w1 : w1 = [w EXCEPT !.heap = h, !.drafts[d].copy = c]
        OBVIOUS
      <4>2. /\ w1 = [w EXCEPT !.heap = h, !.drafts = [@ EXCEPT ![d] = [n EXCEPT !.copy = c]]]
            /\ w1.drafts[d].copy = c /\ w1.heap = h
        BY <1>0, <1>1, <1>2, <4>1 DEF World, ElementDraft
      <4>3. PICK w2 : w2 = MarkChanged(w1)
        OBVIOUS
      <4>4. PICK n1 : n1 = [n EXCEPT !.copy = c]
        OBVIOUS
      <4>5. PICK s1 : s1 = [w.drafts EXCEPT ![d] = n1]
        OBVIOUS
      <4>6. n1 \in ElementDraft /\ s1 \in Seq(ElementDraft) /\ s1[d] = n1 /\ d \in DOMAIN s1
        <5>1. n1 \in ElementDraft
          BY <1>2, <1>6, <4>4 DEF ElementDraft
        <5> QED BY <1>0, <4>5, <5>1
      <4>7. w2 = [w EXCEPT !.operated = TRUE, !.heap = h, !.drafts = s1]
        BY <1>0, <4>2, <4>3, <4>4, <4>5 DEF MarkChanged, World
      <4>8. w2 \in World /\ w2.drafts = s1 /\ w2.heap = h
        BY <1>0, <1>9, <4>6, <4>7 DEF World
      <4>9. PICK x : x = (v # w.heap[n.original])
        OBVIOUS
      <4>10. Writes(w2, u, c, v, d, x)
        <5>1. w1 = [w EXCEPT !.heap = Append(@, w.heap[n.original]),
                             !.drafts[d].copy = Len(w.heap) + 1]
          BY <1>0, <1>4, <1>5, <1>7, <3>1, <4>1 DEF World
        <5> QED BY <1>1, <1>16, <3>1, <4>2, <4>3, <4>9, <5>1 DEF SetElement, Node, Writes
      <4>11. m = Noting(w2.drafts[d], x)
        BY <1>12, <4>4, <4>6, <4>8, <4>9 DEF Noting
      <4>12. PICK s2 : s2 = [w2.drafts EXCEPT ![d] = m]
        OBVIOUS
      <4>13. Replaces(w2, u, heap, s2)
        <5>1. heap = [w2.heap EXCEPT ![c] = v] /\ d \in DOMAIN w2.drafts
          BY <1>8, <4>6, <4>8
        <5> QED BY <4>8, <4>10, <4>11, <4>12, <5>1, Written
      <4>14. s2 = drafts
        BY <1>14, <4>5, <4>8, <4>12
      <4> QED BY <1>0, <4>7, <4>8, <4>13, <4>14 DEF World, Replaces
    <3>2. CASE n.copy # Null
      <4>1. PICK w2 : w2 = MarkChanged(w)
        OBVIOUS
      <4>2. w2 \in World /\ w2.drafts = w.drafts /\ w2.heap = w.heap
            /\ w2 = [w EXCEPT !.operated = TRUE]
        BY <1>0, <4>1 DEF MarkChanged, World
      <4>3. PICK x : x = (v # w.heap[n.original])
        OBVIOUS
      <4>4. Writes(w2, u, c, v, d, x)
        BY <1>1, <1>6, <1>16, <3>2, <4>1, <4>3 DEF SetElement, Node, Writes
      <4>5. [n EXCEPT !.copy = c] = n
        BY <1>2, <1>6, <3>2 DEF ElementDraft
      <4>6. m = Noting(w2.drafts[d], x)
        BY <1>1, <1>12, <4>2, <4>3, <4>5 DEF Noting
      <4>7. PICK s2 : s2 = [w2.drafts EXCEPT ![d] = m]
        OBVIOUS
      <4>8. Replaces(w2, u, heap, s2)
        <5>1. heap = [w2.heap EXCEPT ![c] = v] /\ d \in DOMAIN w2.drafts
          BY <1>7, <1>8, <3>2, <4>2
        <5>2. w2 \in World
          BY <4>2
        <5> QED BY <5>2, <4>4, <4>6, <4>7, <5>1, Written
      <4>9. s2 = drafts
        BY <1>14, <4>2, <4>7
      <4> QED BY <1>0, <4>2, <4>8, <4>9 DEF World, Replaces
    <3> QED BY <3>1, <3>2
  <2>2. /\ u \in World /\ u.original = w.original /\ u.array = w.array /\ u.copied = w.copied
        /\ u.assigned = w.assigned /\ u.children = w.children
        /\ u.relocated = w.relocated /\ u.dense = w.dense /\ u.inert = w.inert
        /\ u.tasks = w.tasks /\ u.operated /\ u.heap = heap /\ u.drafts = drafts
    BY <1>0, <1>10, <1>15, <2>1 DEF World
  <2>3. /\ Len(w.heap) <= Len(u.heap)
        /\ \A e \in DOMAIN w.drafts :
              /\ u.drafts[e].original = w.drafts[e].original
              /\ u.drafts[e].key = w.drafts[e].key
              /\ u.drafts[e].callbacks = w.drafts[e].callbacks
    BY <1>1, <1>4, <1>9, <1>10, <1>13, <1>15, <2>2
  <2>4. Beside(w, u)
    BY <1>15, <2>2, <2>3 DEF Beside
  <2>5. \A a \in DOMAIN base.heap : u.heap[a] = w.heap[a]
    <3> SUFFICES ASSUME NEW a \in DOMAIN base.heap PROVE heap[a] = w.heap[a]
      BY <2>2
    <3>1. a \in 1 .. l /\ a # c
      BY <1>4, <1>6, <1>a
    <3> QED BY <1>9, <1>10, <1>11, <3>1
  <2>6. DraftsApart(u)
    <3> SUFFICES ASSUME NEW e \in DOMAIN w.drafts
                 PROVE  /\ u.drafts[e].key \in DOMAIN base.array
                        /\ base.array[u.drafts[e].key] = Obj(u.drafts[e].original)
                        /\ u.drafts[e].copy \in {Null} \cup (Len(base.heap) + 1 .. Len(u.heap))
      BY <1>15, <2>2 DEF DraftsApart
    <3>1. /\ w.drafts[e].key \in DOMAIN base.array
          /\ base.array[w.drafts[e].key] = Obj(w.drafts[e].original)
          /\ w.drafts[e].copy \in {Null} \cup (b + 1 .. l)
      BY <1>0, <1>4 DEF DraftsApart
    <3>0. PICK k \in Nat : k = Len(heap)
      BY <1>10, LenProperties
    <3>2. k \in Nat /\ k = Len(heap) /\ l <= k /\ c <= k
      <4>1. DOMAIN heap = 1 .. k
        BY <1>10, <3>0, LenProperties
      <4>2. c \in 1 .. k
        BY <1>9, <1>10, <4>1
      <4>3. l <= Len(heap)
        BY <1>9, <1>10
      <4> QED BY <3>0, <4>2, <4>3
    <3>3. u.drafts[e].copy \in {Null} \cup (b + 1 .. k)
      <4>1. CASE e = d
        BY <1>6, <1>13, <1>15, <2>2, <3>2, <4>1
      <4>2. CASE e # d
        BY <1>15, <2>2, <3>1, <3>2, <4>2
      <4> QED BY <4>1, <4>2
    <3> QED BY <1>4, <2>2, <2>3, <3>1, <3>2, <3>3
  <2>7. HeapInOrder(u)
    <3>1. ASSUME NEW a \in DOMAIN heap, IsDraft(heap[a])
          PROVE  heap[a].id \in DOMAIN w.drafts
      <4>1. a # c /\ heap[a] = w.heap[a] /\ a \in DOMAIN w.heap
        BY <1>9, <1>10, <1>11, <1>a, <3>1 DEF IsRef
      <4> QED BY <1>0, <3>1, <4>1 DEF HeapInOrder
    <3>2. ASSUME NEW e \in DOMAIN w.drafts
          PROVE  /\ drafts[e].operated => drafts[e].copy # Null
                 /\ drafts[e].copy # Null => ~IsDraft(heap[drafts[e].copy])
      <4>1. CASE e = d
        <5>1. heap[c] = v
          BY <1>9, <1>10, <1>11
        <5> QED BY <1>6, <1>13, <1>15, <4>1, <5>1 DEF IsRef, Null
      <4>2. CASE e # d
        <5>1. PICK x : x = w.drafts[e]
          OBVIOUS
        <5>2. drafts[e] = x
          BY <1>15, <4>2, <5>1
        <5>3. /\ x.operated => x.copy # Null
              /\ x.copy # Null => ~IsDraft(w.heap[x.copy])
              /\ x.copy \in {Null} \cup (b + 1 .. l)
          BY <1>0, <1>4, <5>1 DEF HeapInOrder, DraftsApart
        <5>4. x.copy # Null => heap[x.copy] = v \/ heap[x.copy] = w.heap[x.copy]
          BY <1>9, <1>10, <1>11, <5>3
        <5> QED BY <5>2, <5>3, <5>4 DEF IsRef
      <4> QED BY <4>1, <4>2
    <3> QED BY <1>15, <2>2, <3>1, <3>2 DEF HeapInOrder
  <2>8. Sound(u) /\ Slots(u) = Slots(w)
    BY <2>4, <2>5, <2>6, <2>7, BesideKeeps
  <2> QED BY <1>15, <2>2, <2>8
<1> QED BY <1>3, <1>16

-----------------------------------------------------------------------------
(***************************************************************************)
(* What the recipe holds and can assign.                                   *)
(***************************************************************************)

LEMMA SlotsTyped ==
    ASSUME NEW w, Sound(w), NEW s, s = Slots(w)
    PROVE  /\ s \in Seq(Slot) /\ Len(s) = Len(w.array) /\ DOMAIN s = DOMAIN w.array
           /\ \A i \in DOMAIN s : s[i] = SlotOf(w, i, w.array[i])
<1>0. w \in World
  BY SoundParts
<1>1. w.array \in Seq(Value)
  BY <1>0, WorldParts
<1>2. PICK n \in Nat : n = Len(w.array) /\ DOMAIN w.array = 1 .. n
  BY <1>1, LenProperties
<1>3. DOMAIN s = DOMAIN w.array
  BY DEF Slots
<1>4. \A i \in DOMAIN s : s[i] = SlotOf(w, i, w.array[i])
  BY DEF Slots, SlotOf
<1>5. ASSUME NEW i \in 1 .. n
      PROVE  s[i] \in Slot
  <2>1. w.array[i] \in Value /\ w.array[i].id \in Nat
    BY <1>1, <1>2, ElementOfSeq, Values
  <2>2. Base(w.array[i].id) \in Slot
    BY <2>1 DEF Base, Slot
  <2>3. s[i] \in {Base(w.array[i].id), w.array[i]}
    BY <1>2, <1>3, <1>4 DEF SlotOf
  <2> QED BY <2>1, <2>2, <2>3 DEF Slot
<1>6. s = [i \in 1 .. n |-> s[i]]
  BY <1>2, <1>3 DEF Slots
<1>7. s \in [1 .. n -> Slot]
  BY <1>5, <1>6
<1>8. s \in Seq(Slot) /\ Len(s) = n
  <2>1. s \in Seq(Slot)
    BY <1>7
  <2> QED BY <1>2, <1>3, <2>1, LenProperties
<1> QED BY <1>2, <1>3, <1>4, <1>8

\* Where no draft was made, the ordinary array stays.
LEMMA SameDrafted ==
    ASSUME NEW w, NEW u, Sound(u), DOMAIN u.drafts = DOMAIN w.drafts,
           NEW s, s = Slots(w), Slots(u) = s
    PROVE  Drafted(s, w, u) = s
<1>1. DOMAIN s = DOMAIN u.array /\ AllFit(u) /\ u \in World
  BY SoundParts DEF Slots
<1>2. u.array \in Seq(Value)
  BY <1>1, WorldParts
<1>3. DOMAIN s \subseteq Index
  BY <1>1, <1>2, LenProperties DEF Index
<1>4. ASSUME NEW i \in DOMAIN s
      PROVE  IsDraft(At(u.array, i)) => At(u.array, i).id \in DOMAIN w.drafts
  BY <1>1, <1>3, <1>4 DEF AllFit, Fits
<1>5. Drafted(s, w, u) = [i \in DOMAIN s |-> s[i]]
  BY <1>4 DEF Drafted
<1>6. s = [i \in DOMAIN s |-> s[i]]
  BY DEF Slots
<1> QED BY <1>5, <1>6

\* A new object of the recipe changes nothing that the array draft holds.
LEMMA NewObjectDoes ==
    ASSUME BaseOK, NEW w, Sound(w), NEW v, Usable(w, v),
           NEW u, u = [w EXCEPT !.heap = Append(@, v)]
    PROVE  Sound(u) /\ Slots(u) = Slots(w)
<1>0. /\ w \in World /\ BaseKept(w) /\ DraftsApart(w) /\ HeapInOrder(w)
      /\ w.heap \in Seq(Value) /\ w.drafts \in Seq(ElementDraft)
  BY SoundParts, WorldParts
<1>1. PICK h : h = Append(w.heap, v)
  OBVIOUS
<1>2. PICK l \in Nat : l = Len(w.heap) /\ DOMAIN w.heap = 1 .. l
  BY <1>0, LenProperties
<1>3. /\ h \in Seq(Value) /\ Len(h) = l + 1 /\ DOMAIN h = 1 .. l + 1
      /\ \A a \in 1 .. l : h[a] = w.heap[a]
      /\ h[l + 1] = v
  BY <1>0, <1>1, <1>2, AppendProperties, LenProperties DEF Usable
<1>4. PICK b \in Nat : b = Len(base.heap) /\ DOMAIN base.heap = 1 .. b /\ b <= l
  <2>1. base.heap \in Seq(Value)
    BY DEF BaseOK
  <2> QED BY <1>0, <1>2, <2>1, LenProperties DEF BaseKept
<1>5. u = [w EXCEPT !.heap = h]
  BY <1>0, <1>1
<1>6. /\ u \in World /\ u.original = w.original /\ u.array = w.array /\ u.copied = w.copied
      /\ u.assigned = w.assigned /\ u.children = w.children
      /\ u.relocated = w.relocated /\ u.dense = w.dense /\ u.inert = w.inert
      /\ u.tasks = w.tasks /\ u.operated = w.operated /\ u.heap = h /\ u.drafts = w.drafts
  BY <1>0, <1>3, <1>5 DEF World
<1>7. Len(w.heap) <= Len(u.heap)
  BY <1>2, <1>3, <1>6
<1>8. Beside(w, u)
  BY <1>6, <1>7 DEF Beside
<1>9. \A a \in DOMAIN base.heap : u.heap[a] = w.heap[a]
  BY <1>3, <1>4, <1>6
<1>10. DraftsApart(u)
  <2> SUFFICES ASSUME NEW d \in DOMAIN w.drafts
               PROVE  /\ w.drafts[d].key \in DOMAIN base.array
                      /\ base.array[w.drafts[d].key] = Obj(w.drafts[d].original)
                      /\ w.drafts[d].copy \in {Null} \cup (b + 1 .. l + 1)
    BY <1>3, <1>4, <1>6 DEF DraftsApart
  <2>1. /\ w.drafts[d].key \in DOMAIN base.array
        /\ base.array[w.drafts[d].key] = Obj(w.drafts[d].original)
        /\ w.drafts[d].copy \in {Null} \cup (b + 1 .. l)
    BY <1>0, <1>2, <1>4 DEF DraftsApart
  <2> QED BY <2>1
<1>11. HeapInOrder(u)
  <2>1. ASSUME NEW d \in DOMAIN w.drafts
        PROVE  /\ w.drafts[d].operated => w.drafts[d].copy # Null
               /\ w.drafts[d].copy # Null => ~IsDraft(h[w.drafts[d].copy])
    <3>1. /\ w.drafts[d].operated => w.drafts[d].copy # Null
          /\ w.drafts[d].copy # Null => ~IsDraft(w.heap[w.drafts[d].copy])
          /\ w.drafts[d].copy \in {Null} \cup (b + 1 .. l)
      BY <1>0, <1>2, <1>4 DEF HeapInOrder, DraftsApart
    <3>2. w.drafts[d].copy # Null => h[w.drafts[d].copy] = w.heap[w.drafts[d].copy]
      BY <1>3, <3>1
    <3> QED BY <3>1, <3>2
  <2>2. ASSUME NEW a \in DOMAIN h, IsDraft(h[a])
        PROVE  h[a].id \in DOMAIN w.drafts
    <3>1. CASE a = l + 1
      BY <1>3, <2>2, <3>1 DEF Usable
    <3>2. CASE a # l + 1
      <4>1. a \in 1 .. l /\ h[a] = w.heap[a]
        BY <1>3, <3>2
      <4> QED BY <1>0, <1>2, <2>2, <4>1 DEF HeapInOrder
    <3> QED BY <3>1, <3>2
  <2> QED BY <1>6, <2>1, <2>2 DEF HeapInOrder
<1> QED BY <1>8, <1>9, <1>10, <1>11, BesideKeeps

LEMMA RecipeValuesUsable ==
    ASSUME BaseOK, Sound(world), NEW v \in RecipeValues
    PROVE  Usable(world, v) /\ v \in Value
<1>0. /\ world \in World /\ BaseKept(world) /\ world.heap \in Seq(Value)
      /\ world.drafts \in Seq(ElementDraft)
  BY SoundParts, WorldParts
<1>1. PICK l \in Nat : l = Len(world.heap) /\ DOMAIN world.heap = 1 .. l
  BY <1>0, LenProperties
<1>2. PICK b \in Nat : b = Len(base.heap) /\ DOMAIN base.heap = 1 .. b /\ b <= l
  <2>1. base.heap \in Seq(Value)
    BY DEF BaseOK
  <2> QED BY <1>0, <1>1, <2>1, LenProperties DEF BaseKept
<1>3. CASE \E n \in Prims : v = Prim(n)
  <2>1. PICK n \in Nat : v = Prim(n)
    BY <1>3, ArrayBoundsAssumption
  <2> QED BY <2>1, Values DEF Usable, IsRef
<1>4. CASE \E d \in DOMAIN world.drafts : v = Draft(d)
  <2>1. PICK d \in DOMAIN world.drafts : v = Draft(d)
    BY <1>4
  <2>2. d \in Nat
    BY <1>0, LenProperties
  <2>3. v \in Value /\ v # Absent /\ ~IsObj(v) /\ v.id = d
    BY <2>1, <2>2, Values
  <2> QED BY <2>3 DEF Usable
<1>5. CASE \E a \in DOMAIN base.heap \cup Fresh : v = Obj(a)
  <2>1. PICK a \in DOMAIN base.heap \cup Fresh : v = Obj(a)
    BY <1>5
  <2>2. a \in 1 .. l
    BY <1>1, <1>2, <2>1 DEF Fresh
  <2>3. v \in Value /\ v # Absent /\ ~IsDraft(v) /\ v.id = a
    BY <2>1, <2>2, Values
  <2> QED BY <1>1, <2>2, <2>3 DEF Usable
<1> QED BY <1>3, <1>4, <1>5 DEF RecipeValues

LEMMA ItemsUsable ==
    ASSUME BaseOK, Sound(world), NEW items \in Items
    PROVE  items \in Seq(Value) /\ \E m \in Nat : UsableAll(world, items, m)
<1>1. PICK m \in Nat : items \in [1 .. m -> RecipeValues]
  BY ArrayBoundsAssumption DEF Items
<1>2. \A j \in 1 .. m : Usable(world, items[j]) /\ items[j] \in Value
  BY <1>1, RecipeValuesUsable
<1>3. items \in [1 .. m -> Value]
  BY <1>1, <1>2
<1>4. items \in Seq(Value) /\ DOMAIN items = 1 .. m
  BY <1>3
<1>5. Len(items) = m
  BY <1>4, LenProperties
<1> QED BY <1>2, <1>4, <1>5 DEF UsableAll

-----------------------------------------------------------------------------
(***************************************************************************)
(* The recipe, step by step.                                               *)
(***************************************************************************)

\* In the recipe, the world is sound and holds what the ordinary array holds.
Working == Sound(world) /\ Slots(world) = plain

LEMMA WorkingStart ==
    ASSUME Init
    PROVE  BaseOK /\ Working
<1>1. BaseOK
  BY BasesAssumption DEF Init, BaseOK
<1>2. PICK w : w = NewWorld(base)
  OBVIOUS
<1>3. world = w
  BY <1>2 DEF Init
<1>4. /\ w \in World
      /\ w.original = base.array /\ w.array = base.array /\ w.heap = base.heap
      /\ w.drafts = <<>> /\ w.assigned = {} /\ w.tasks = {} /\ ~w.relocated
      /\ w.dense = "unknown" /\ w.inert = "unknown" /\ ~w.operated
  BY <1>1, <1>2 DEF NewWorld, World, BaseOK, Cache
<1>5. DOMAIN w.drafts = {}
  BY <1>4
<1>6. BaseKept(w) /\ DraftsApart(w) /\ CachesRight(w)
  <2>1. Len(base.heap) \in Nat
    BY <1>1, LenProperties DEF BaseOK
  <2> QED BY <1>4, <1>5, <2>1 DEF BaseKept, DraftsApart, CachesRight
<1>7. HeapInOrder(w)
  <2>1. \A a \in DOMAIN base.heap : base.heap[a] \in Range(base.heap)
    BY DEF Range
  <2> QED BY <1>1, <1>4, <1>5, <2>1 DEF HeapInOrder, BaseOK
<1>8. Untouched(w)
  BY <1>4, <1>5 DEF Untouched
<1>9. ASSUME NEW i \in DOMAIN base.array
      PROVE  ~IsDraft(base.array[i])
             /\ (IsObj(base.array[i]) => base.array[i].id \in DOMAIN base.heap)
             /\ base.array[i] \in Range(base.array)
  <2>1. base.array[i] \in Range(base.array)
    BY DEF Range
  <2> QED BY <1>1, <2>1 DEF BaseOK
<1>10. ASSUME NEW i \in Index
       PROVE  Fits(w, i, At(w.array, i))
  <2>1. CASE i \in DOMAIN base.array
    <3>1. At(w.array, i) = base.array[i] /\ At(w.original, i) = base.array[i]
      BY <1>4, <2>1 DEF At
    <3> QED BY <1>4, <1>9, <2>1, <3>1 DEF Fits
  <2>2. CASE i \notin DOMAIN base.array
    <3>1. At(w.array, i) = Absent
      BY <1>4, <2>2 DEF At
    <3>2. ~IsDraft(Absent) /\ ~IsObj(Absent)
      BY Values DEF IsRef
    <3> QED BY <3>1, <3>2 DEF Fits
  <2> QED BY <2>1, <2>2
<1>11. Sound(w)
  BY <1>4, <1>6, <1>7, <1>8, <1>10 DEF Sound, AllFit
<1>12. ASSUME NEW i \in DOMAIN base.array
       PROVE  SlotOf(w, i, base.array[i]) = Settle(i, base.array[i])
  <2>1. At(w.original, i) = base.array[i] /\ At(base.array, i) = base.array[i]
    BY <1>4 DEF At
  <2>2. BaseIndex(w, base.array[i], i) = i /\ i # Null
    <3>1. DOMAIN base.array = 1 .. Len(base.array) /\ Len(base.array) \in Nat
      BY <1>1, LenProperties DEF BaseOK
    <3> QED BY <2>1, <3>1 DEF BaseIndex, Null
  <2> QED BY <2>1, <2>2 DEF SlotOf, Settle
<1>13. Slots(w) = [i \in DOMAIN base.array |-> SlotOf(w, i, base.array[i])]
  BY <1>4 DEF Slots, SlotOf
<1>14. Slots(w) = plain
  BY <1>12, <1>13 DEF Init
<1> QED BY <1>1, <1>3, <1>11, <1>14 DEF Working

\* Soundness speaks of the base, and of nothing else that a step changes.
LEMMA SoundLater ==
    ASSUME NEW u, Sound(u), base' = base, world' = u
    PROVE  Sound(world)'
<1>1. /\ u \in World /\ BaseKept(u) /\ DraftsApart(u) /\ HeapInOrder(u)
      /\ AllFit(u) /\ CachesRight(u) /\ Untouched(u)
  BY SoundParts
<1>2. BaseKept(world)' /\ DraftsApart(world)'
  BY <1>1 DEF BaseKept, DraftsApart
<1>3. HeapInOrder(world)' /\ AllFit(world)'
  BY <1>1 DEF HeapInOrder, AllFit, Fits
<1>4. CachesRight(world)' /\ Untouched(world)'
  BY <1>1 DEF CachesRight, Untouched
<1> QED BY <1>1, <1>2, <1>3, <1>4 DEF Sound

LEMMA SlotsLater ==
    ASSUME NEW u, world' = u, plain' = Slots(u)
    PROVE  (Slots(world) = plain)'
BY DEF Slots, BaseIndex

LEMMA CallWorks ==
    ASSUME Working, NEW u, NEW s, Does(world, u, s), Call(u, s)
    PROVE  Working'
<1>1. Sound(u)
  BY DEF Does
<1>2. plain' = Slots(u)
  BY DoesDrafted DEF Call
<1>3. base' = base /\ world' = u
  BY DEF Call
<1>4. Sound(world)'
  BY <1>1, <1>3, SoundLater
<1>5. (Slots(world) = plain)'
  BY <1>2, <1>3, SlotsLater
<1> QED BY <1>4, <1>5 DEF Working

LEMMA SetWorks ==
    ASSUME BaseOK, Working, NEW i \in Nat \ {0}, NEW v \in RecipeValues, Set(i, v)
    PROVE  Working'
<1>1. PICK u : u = SetTrap(world, i, v)
  OBVIOUS
<1>2. PICK s : s = Slots(world)
  OBVIOUS
<1>3. Does(world, u, PlainSet(s, i, v))
  BY <1>1, <1>2, RecipeValuesUsable, SetDoes DEF Working, Index
<1>4. Call(u, PlainSet(s, i, v))
  BY <1>1, <1>2 DEF Set, Working
<1> QED BY <1>3, <1>4, CallWorks

LEMMA PushWorks ==
    ASSUME BaseOK, Working, NEW v \in RecipeValues, Push(v)
    PROVE  Working'
<1>1. PICK s : s = Slots(world)
  OBVIOUS
<1>2. PICK i \in Nat \ {0} : i = Len(s) + 1 /\ i = Size(world) + 1
  <2>1. s \in Seq(Slot) /\ Len(s) = Len(world.array)
    BY <1>1, SlotsTyped DEF Working
  <2> QED BY <2>1, LenProperties DEF Size
<1>3. PICK u : u = SetTrap(world, i, v)
  OBVIOUS
<1>4. Does(world, u, PlainSet(s, i, v))
  BY <1>1, <1>3, RecipeValuesUsable, SetDoes DEF Working, Index
<1>5. Call(u, PlainSet(s, i, v))
  BY <1>1, <1>2, <1>3 DEF Push, Working
<1> QED BY <1>4, <1>5, CallWorks

LEMMA DeleteWorks ==
    ASSUME BaseOK, Working, NEW i \in Nat \ {0}, Delete(i)
    PROVE  Working'
<1>1. PICK u : u = DeleteTrap(world, i)
  OBVIOUS
<1>2. PICK s : s = Slots(world)
  OBVIOUS
<1>3. Does(world, u, PlainSet(s, i, Undefined))
  BY <1>1, <1>2, DeleteDoes DEF Working, Index, Delete
<1>4. Call(u, PlainSet(s, i, Undefined))
  BY <1>1, <1>2 DEF Delete, Working
<1> QED BY <1>3, <1>4, CallWorks

LEMMA ResizingWorks ==
    ASSUME Working, NEW n \in Nat, Resizing(n)
    PROVE  Working'
<1>1. PICK u : u = SetLength(world, n)
  OBVIOUS
<1>2. PICK s : s = Slots(world)
  OBVIOUS
<1>3. Does(world, u, Resize(s, n))
  BY <1>1, <1>2, ResizeDoes DEF Working
<1>4. Call(u, Resize(s, n))
  BY <1>1, <1>2 DEF Resizing, Working
<1> QED BY <1>3, <1>4, CallWorks

LEMMA EndWorks ==
    ASSUME BaseOK, Working, Pop \/ Shift
    PROVE  Working'
<1>1. PICK s : s = Slots(world)
  OBVIOUS
<1>2. plain # <<>>
  BY DEF Pop, Shift
<1>3. Len(world.array) # 0
  <2>1. s \in Seq(Slot) /\ Len(s) = Len(world.array) /\ s # <<>>
    BY <1>1, <1>2, SlotsTyped DEF Working
  <2> QED BY <2>1, EmptySeq
<1>4. CASE Pop
  <2>1. PICK u : u = ProxyPop(world)
    OBVIOUS
  <2>2. Does(world, u, Front(s))
    BY <1>1, <1>3, <2>1, ProxyPopDoes DEF Working
  <2>3. Call(u, Front(s))
    BY <1>1, <1>4, <2>1 DEF Pop, Working
  <2> QED BY <2>2, <2>3, CallWorks
<1>5. CASE Shift
  <2>1. PICK u : u = ShiftMethod(world)
    OBVIOUS
  <2>2. Does(world, u, PlainShift(s))
    BY <1>1, <1>3, <2>1, ShiftDoes DEF Working
  <2>3. Call(u, PlainShift(s))
    BY <1>1, <1>5, <2>1 DEF Shift, Working
  <2> QED BY <2>2, <2>3, CallWorks
<1> QED BY <1>4, <1>5

LEMMA OrderWorks ==
    ASSUME BaseOK, Working, Sort \/ ReverseCall
    PROVE  Working'
<1>1. PICK s : s = Slots(world)
  OBVIOUS
<1>2. CASE Sort
  <2>1. PICK u : u = SortMethod(world)
    OBVIOUS
  <2>2. Does(world, u, PlainSort(s))
    BY <1>1, <2>1, SortDoes DEF Working
  <2>3. Call(u, PlainSort(s))
    BY <1>1, <1>2, <2>1 DEF Sort, Working
  <2> QED BY <2>2, <2>3, CallWorks
<1>3. CASE ReverseCall
  <2>1. PICK u : u = ReverseMethod(world)
    OBVIOUS
  <2>2. Does(world, u, PlainReverse(s))
    BY <1>1, <2>1, ReverseDoes DEF Working
  <2>3. Call(u, PlainReverse(s))
    BY <1>1, <1>3, <2>1 DEF ReverseCall, Working
  <2> QED BY <2>2, <2>3, CallWorks
<1> QED BY <1>2, <1>3

LEMMA UnshiftWorks ==
    ASSUME BaseOK, Working, NEW items \in Items, Unshift(items)
    PROVE  Working'
<1>1. PICK s : s = Slots(world)
  OBVIOUS
<1>2. items \in Seq(Value)
  BY ItemsUsable DEF Working
<1>3. PICK m \in Nat : UsableAll(world, items, m)
  BY ItemsUsable DEF Working
<1>4. PICK u : u = UnshiftMethod(world, items)
  OBVIOUS
<1>5. Does(world, u, PlainSplice(s, 1, 0, items))
  BY <1>1, <1>2, <1>3, <1>4, UnshiftDoes DEF Working
<1>6. Call(u, PlainSplice(s, 1, 0, items))
  BY <1>1, <1>4 DEF Unshift, Working
<1> QED BY <1>5, <1>6, CallWorks

LEMMA SpliceWorks ==
    ASSUME BaseOK, Working, NEW start \in Nat \ {0}, NEW deleted \in Nat,
           NEW items \in Items, Splice(start, deleted, items)
    PROVE  Working'
<1>1. PICK s : s = Slots(world)
  OBVIOUS
<1>2. items \in Seq(Value)
  BY ItemsUsable DEF Working
<1>3. PICK m \in Nat : UsableAll(world, items, m)
  BY ItemsUsable DEF Working
<1>4. PICK u : u = SpliceMethod(world, start, deleted, items)
  OBVIOUS
<1>5. start + deleted <= Len(world.array) + 1
  <2>1. Len(s) = Len(world.array)
    BY <1>1, SlotsTyped DEF Working
  <2> QED BY <1>1, <2>1 DEF Splice, Working
<1>6. Does(world, u, PlainSplice(s, start, deleted, items))
  BY <1>1, <1>2, <1>3, <1>4, <1>5, SpliceDoes DEF Working
<1>7. Call(u, PlainSplice(s, start, deleted, items))
  BY <1>1, <1>4 DEF Splice, Working
<1> QED BY <1>6, <1>7, CallWorks

LEMMA GetWorks ==
    ASSUME BaseOK, Working, NEW i \in Nat \ {0}, Get(i)
    PROVE  Working'
<1>1. PICK s : s = Slots(world)
  OBVIOUS
<1>2. PICK u : u = GetTrap(world, i)
  OBVIOUS
<1>3. Does(world, u, s)
  BY <1>1, <1>2, GetDoes DEF Working, Index
<1>4. base' = base /\ world' = u /\ plain' = Drafted(s, world, u)
  BY <1>1, <1>2 DEF Get, Working
<1>5. Slots(u) = Drafted(s, world, u) /\ Sound(u)
  BY <1>3, DoesDrafted DEF Does
<1> QED BY <1>4, <1>5, SoundLater, SlotsLater DEF Working

LEMMA WriteElementWorks ==
    ASSUME BaseOK, Working, NEW d \in DOMAIN world.drafts, NEW n \in Prims,
           WriteElement(d, Prim(n))
    PROVE  Working'
<1>1. PICK s : s = Slots(world)
  OBVIOUS
<1>2. Prim(n) \in Value /\ ~IsRef(Prim(n))
  BY ArrayBoundsAssumption, Values
<1>3. PICK u : u = SetElement(world, d, Prim(n))
  OBVIOUS
<1>4. Sound(u) /\ Slots(u) = s /\ DOMAIN u.drafts = DOMAIN world.drafts
  BY <1>1, <1>2, <1>3, SetElementDoes DEF Working
<1>5. base' = base /\ world' = u /\ plain' = Drafted(s, world, u)
  BY <1>1, <1>3 DEF WriteElement, Call, Working
<1>6. Drafted(s, world, u) = s
  BY <1>1, <1>4, SameDrafted
<1> QED BY <1>4, <1>5, <1>6, SoundLater, SlotsLater DEF Working

LEMMA NewObjectWorks ==
    ASSUME BaseOK, Working, NEW v \in RecipeValues, NewObject(v)
    PROVE  Working'
<1>1. PICK u : u = [world EXCEPT !.heap = Append(@, v)]
  OBVIOUS
<1>2. Sound(u) /\ Slots(u) = Slots(world)
  BY <1>1, RecipeValuesUsable, NewObjectDoes DEF Working
<1>3. base' = base /\ world' = u /\ plain' = Slots(u)
  BY <1>1, <1>2 DEF NewObject, Working
<1> QED BY <1>2, <1>3, SoundLater, SlotsLater DEF Working

LEMMA RecipeWorks ==
    ASSUME BaseOK, Working, Recipe
    PROVE  Working'
<1>0. 1 .. MaxLen \subseteq Nat \ {0} /\ 0 .. MaxLen \subseteq Nat
  BY ArrayBoundsAssumption
<1>1. CASE \E i \in 1 .. MaxLen : Get(i) \/ Delete(i)
  BY <1>0, <1>1, GetWorks, DeleteWorks
<1>2. CASE \E i \in 1 .. MaxLen, v \in RecipeValues : Set(i, v)
  BY <1>0, <1>2, SetWorks
<1>3. CASE \E n \in 0 .. MaxLen : Resizing(n)
  BY <1>0, <1>3, ResizingWorks
<1>4. CASE \E v \in RecipeValues : Push(v) \/ NewObject(v)
  BY <1>4, PushWorks, NewObjectWorks
<1>5. CASE Pop \/ Shift \/ Sort \/ ReverseCall
  BY <1>5, EndWorks, OrderWorks
<1>6. CASE \E items \in Items : Unshift(items)
  BY <1>6, UnshiftWorks
<1>7. CASE \E start \in 1 .. MaxLen, deleted \in 0 .. MaxLen, items \in Items :
              Splice(start, deleted, items)
  BY <1>0, <1>7, SpliceWorks
<1>8. CASE \E d \in DOMAIN world.drafts, n \in Prims : WriteElement(d, Prim(n))
  BY <1>8, WriteElementWorks
<1> QED BY <1>1, <1>2, <1>3, <1>4, <1>5, <1>6, <1>7, <1>8 DEF Recipe

-----------------------------------------------------------------------------
(***************************************************************************)
(* The end of the recipe.                                                  *)
(***************************************************************************)

\* In s, the drafts after the k-th have given way to their final values, and
\* others may have.
Gone(w, s, k) ==
    /\ s = [i \in DOMAIN w.array |-> s[i]]
    /\ \A i \in DOMAIN s : s[i] \in {w.array[i], CloneIfNeeded(w, w.array[i])}
    /\ \A i \in DOMAIN s : IsDraft(w.array[i]) /\ w.array[i].id > k =>
                              s[i] = CloneIfNeeded(w, w.array[i])

\* Every draft is finalized where it is.
DraftsPlaced(w) ==
    \A i \in DOMAIN w.array : IsDraft(w.array[i]) =>
        /\ w.array[i].id \in DOMAIN w.drafts
        /\ i = w.drafts[w.array[i].id].key \/ i \in w.drafts[w.array[i].id].callbacks

\* u is w with the array s.
Holding(w, u, s) == u = [w EXCEPT !.array = s]

LEMMA HoldingIs ==
    ASSUME NEW w \in World, NEW u, NEW s, Holding(w, u, s)
    PROVE  /\ u.array = s /\ u.drafts = w.drafts /\ u.heap = w.heap
           /\ \A r : [u EXCEPT !.array = r] = [w EXCEPT !.array = r]
BY DEF Holding, World

LEMMA FinalizedNode ==
    ASSUME NEW w \in World, DraftsPlaced(w), NEW d \in Nat, NEW u, NEW s,
           Holding(w, u, s), Gone(w, s, d), NEW t, t = FinalizeNode(u, d)
    PROVE  \E r : Holding(w, t, r) /\ Gone(w, r, d - 1)
<1>0. /\ w.array \in Seq(Value) /\ u.array = s /\ u.drafts = w.drafts
      /\ DOMAIN s = DOMAIN w.array
  <2>1. s = [i \in DOMAIN w.array |-> s[i]]
    BY DEF Gone
  <2>2. DOMAIN s = DOMAIN w.array
    BY <2>1
  <2> QED BY <2>2, WorldParts, HoldingIs
<1>1. PICK key, K : key = w.drafts[d].key /\ K = w.drafts[d].callbacks
  OBVIOUS
<1>2. PICK s1 : s1 = IF IsDraft(At(s, key))
                     THEN [s EXCEPT ![key] = FinalElement(w, At(s, key).id)] ELSE s
  OBVIOUS
<1>3. PICK r : r = [i \in DOMAIN s1 |-> IF i \in K /\ s1[i] = Draft(d)
                                        THEN FinalElement(w, d) ELSE s1[i]]
  OBVIOUS
<1>4. Holding(w, t, r)
  <2>1. \A e : FinalElement(u, e) = FinalElement(w, e)
    BY <1>0 DEF FinalElement, Node
  <2>2. PICK u1 : u1 = IF IsDraft(At(s, key))
                       THEN [u EXCEPT !.array[key] = FinalElement(u, At(s, key).id)] ELSE u
    OBVIOUS
  <2>3. Holding(w, u1, s1)
    <3>1. CASE IsDraft(At(s, key))
      <4>1. u1 = [u EXCEPT !.array = s1]
        BY <1>0, <1>2, <2>1, <2>2, <3>1
      <4> QED BY <4>1, HoldingIs DEF Holding
    <3>2. CASE ~IsDraft(At(s, key))
      BY <1>2, <2>2, <3>2
    <3> QED BY <3>1, <3>2
  <2>4. u1.array = s1 /\ u1.drafts = w.drafts
    BY <2>3, HoldingIs
  <2>5. t = RunCallbacks(u1, d)
    BY <1>0, <1>1, <2>2 DEF FinalizeNode, Node
  <2>6. t = [u1 EXCEPT !.array = r]
    BY <1>1, <1>3, <2>4, <2>5 DEF RunCallbacks, Node, FinalElement
  <2> QED BY <2>3, <2>6, HoldingIs DEF Holding
<1>5. DOMAIN s1 = DOMAIN w.array
  BY <1>0, <1>2
<1>6. r = [i \in DOMAIN w.array |-> r[i]]
  BY <1>3, <1>5
<1>7. ASSUME NEW i \in DOMAIN w.array
      PROVE  /\ r[i] \in {w.array[i], CloneIfNeeded(w, w.array[i])}
             /\ IsDraft(w.array[i]) /\ w.array[i].id > d - 1 =>
                    r[i] = CloneIfNeeded(w, w.array[i])
  <2>0. PICK c : c = CloneIfNeeded(w, w.array[i])
    OBVIOUS
  <2>1. PICK a \in Value : a = w.array[i] /\ c = CloneIfNeeded(w, a)
    BY <1>0, <2>0, ElementOfSeq
  <2>2. /\ IsDraft(a) => ~IsDraft(c) /\ a = Draft(a.id) /\ c = FinalElement(w, a.id)
        /\ ~IsDraft(a) => c = a
        /\ a.id \in Nat
    BY <2>1, Values DEF CloneIfNeeded, FinalElement, Obj, IsDraft
  <2>3. s[i] = a \/ s[i] = c
    BY <1>0, <2>1 DEF Gone
  <2>4. s1[i] = IF i = key /\ IsDraft(s[i]) THEN FinalElement(w, s[i].id) ELSE s[i]
    BY <1>0, <1>2, <2>1 DEF At
  <2>5. s1[i] = a \/ s1[i] = c
    BY <2>2, <2>3, <2>4
  <2>6. r[i] = IF i \in K /\ s1[i] = Draft(d) THEN FinalElement(w, d) ELSE s1[i]
    BY <1>3, <1>5
  <2>7. Draft(d).id = d /\ IsDraft(Draft(d))
    BY Values
  <2>8. r[i] = a \/ r[i] = c
    BY <2>2, <2>5, <2>6, <2>7
  <2>9. ASSUME IsDraft(a), a.id > d
        PROVE  r[i] = c
    <3>1. s[i] = c
      BY <1>0, <2>1, <2>9 DEF Gone
    <3> QED BY <2>2, <2>4, <2>6, <2>7, <2>9, <3>1
  <2>10. ASSUME IsDraft(a), a.id = d
         PROVE  r[i] = c
    <3>1. i = key \/ i \in K
      BY <1>1, <2>1, <2>10 DEF DraftsPlaced
    <3> QED BY <2>2, <2>3, <2>4, <2>6, <2>7, <2>10, <3>1
  <2>11. IsDraft(a) /\ a.id > d - 1 => r[i] = c
    BY <2>2, <2>9, <2>10
  <2> QED BY <2>1, <2>8, <2>11
<1>8. DOMAIN r = DOMAIN w.array
  BY <1>3, <1>5
<1> QED BY <1>4, <1>6, <1>7, <1>8 DEF Gone

\* The worlds after each number of finalized elements.
Turn(f, d) ==
    [w |-> FinalizeNode(f.w, d),
     patches |-> f.patches \o ElementPatches(f.w, d, Held(f.w, Draft(d))),
     inverse |-> f.inverse \o ElementPatches(f.w, d, f.w.heap[Node(f.w, d).original])]
Ending(w, last, f) ==
    f = [n \in 0 .. last |->
            IF n = 0 THEN [w |-> w, patches |-> <<>>, inverse |-> <<>>]
            ELSE Turn(f[n - 1], last + 1 - n)]

\* There are such worlds: those up to some element give those up to the next.
LEMMA Ends ==
    ASSUME NEW w, NEW last \in Nat
    PROVE  \E f : Ending(w, last, f)
<1> DEFINE first == [w |-> w, patches |-> <<>>, inverse |-> <<>>]
           turn(t, n) == Turn(t, last + 1 - n)
           E(f, m) == f = [n \in 0 .. m |-> IF n = 0 THEN first ELSE turn(f[n - 1], n)]
           T       == {m \in Nat : \E f : E(f, m)}
<1> HIDE DEF turn, first
<1>1. 0 \in T
  <2> DEFINE f == [n \in 0 .. 0 |-> first]
  <2>1. \A n \in 0 .. 0 : n = 0
    OBVIOUS
  <2>2. E(f, 0)
    BY <2>1
  <2> QED
    BY <2>2
<1>2. ASSUME NEW m \in Nat, m \in T PROVE m + 1 \in T
  <2>1. PICK f : E(f, m)
    BY <1>2
  <2> DEFINE next == turn(f[m], m + 1)
             g == [n \in 0 .. m + 1 |-> IF n = m + 1 THEN next ELSE f[n]]
             h == [n \in 0 .. m + 1 |-> IF n = 0 THEN first ELSE turn(g[n - 1], n)]
  <2>2. ASSUME NEW n \in 0 .. m + 1
        PROVE  g[n] = IF n = 0 THEN first ELSE turn(g[n - 1], n)
    <3>1. CASE n = m + 1
      <4>1. g[n] = next /\ n # 0 /\ n - 1 = m /\ m \in 0 .. m + 1 /\ m # m + 1
        BY <3>1
      <4>2. g[n - 1] = f[m]
        BY <4>1
      <4> QED
        BY <3>1, <4>1, <4>2
    <3>2. CASE n # m + 1
      <4>1. n \in 0 .. m /\ g[n] = f[n]
        BY <3>2
      <4>2. f[n] = IF n = 0 THEN first ELSE turn(f[n - 1], n)
        BY <2>1, <4>1
      <4>3. ASSUME n # 0 PROVE g[n - 1] = f[n - 1]
        BY <3>2, <4>3
      <4> QED
        BY <4>1, <4>2, <4>3
    <3> QED
      BY <3>1, <3>2
  <2>3. g = h
    <3> HIDE DEF next
    <3>1. \A n \in 0 .. m + 1 : g[n] = h[n]
      BY <2>2
    <3> QED
      BY <3>1
  <2>4. E(g, m + 1)
    BY <2>3
  <2> HIDE DEF g, h, E
  <2> QED
    BY <2>4
<1> HIDE DEF T
<1>3. last \in T
  BY <1>1, <1>2, SetInduction
<1> QED
  BY <1>3 DEF T, Ending, turn, first

\* In the end, every draft has given way to its final value.
LEMMA ElementsFinalized ==
    ASSUME NEW w \in World, DraftsPlaced(w), NEW u, u = FinalizeElements(w).w
    PROVE  \E s : /\ Holding(w, u, s) /\ s = [i \in DOMAIN w.array |-> s[i]]
                  /\ \A i \in DOMAIN w.array : s[i] = CloneIfNeeded(w, w.array[i])
<1>0. w.drafts \in Seq(ElementDraft) /\ w.array \in Seq(Value)
  BY WorldParts
<1>1. PICK last \in Nat : last = Len(w.drafts) /\ DOMAIN w.drafts = 1 .. last
  BY <1>0, LenProperties
<1> DEFINE after == CHOOSE f : Ending(w, last, f)
           T == {m \in Nat : m <= last =>
                    \E s : Holding(w, after[m].w, s) /\ Gone(w, s, last - m)}
<1>2. Ending(w, last, after)
  BY <1>1, Ends
<1>3. u = after[last].w
  BY ZenonT(60), <1>1 DEF FinalizeElements, Ending, Turn
<1> HIDE DEF after
<1>4. ASSUME NEW i \in DOMAIN w.array
      PROVE  /\ IsDraft(w.array[i]) => w.array[i].id \in 1 .. last
             /\ ~IsDraft(w.array[i]) => w.array[i] = CloneIfNeeded(w, w.array[i])
  BY <1>1 DEF DraftsPlaced, CloneIfNeeded
<1>5. 0 \in T
  <2>1. after[0].w = w
    <3>1. after[0] = [w |-> w, patches |-> <<>>, inverse |-> <<>>]
      BY <1>2 DEF Ending
    <3> QED BY <3>1
  <2>2. Holding(w, w, w.array)
    BY DEF Holding, World
  <2>3. Gone(w, w.array, last)
    <3>1. w.array = [i \in DOMAIN w.array |-> w.array[i]]
      BY <1>0
    <3> QED BY <1>4, <3>1 DEF Gone
  <2> QED BY <2>1, <2>2, <2>3
<1>6. ASSUME NEW m \in Nat, m \in T PROVE m + 1 \in T
  <2> SUFFICES ASSUME m + 1 <= last
               PROVE  \E s : Holding(w, after[m + 1].w, s) /\ Gone(w, s, last - (m + 1))
    OBVIOUS
  <2>1. PICK s : Holding(w, after[m].w, s) /\ Gone(w, s, last - m)
    BY <1>6
  <2>2. PICK d \in Nat : d = last - m /\ d - 1 = last - (m + 1)
    OBVIOUS
  <2>3. after[m + 1] = Turn(after[m], d)
    <3>1. m + 1 \in 0 .. last /\ m + 1 # 0 /\ m + 1 - 1 = m /\ last + 1 - (m + 1) = d
      BY <2>2
    <3> QED BY <1>2, <3>1 DEF Ending
  <2>4. after[m + 1].w = FinalizeNode(after[m].w, d)
    BY <2>3 DEF Turn
  <2>5. PICK a, b : a = after[m].w /\ b = FinalizeNode(a, d)
    OBVIOUS
  <2>6. \E r : Holding(w, b, r) /\ Gone(w, r, d - 1)
    BY <2>1, <2>2, <2>5, FinalizedNode
  <2> QED BY <2>2, <2>4, <2>5, <2>6
<1> HIDE DEF T
<1>7. last \in T
  BY <1>5, <1>6, SetInduction
<1>8. PICK s : Holding(w, u, s) /\ Gone(w, s, last - last)
  BY <1>3, <1>7 DEF T
<1>9. \A i \in DOMAIN w.array : s[i] = CloneIfNeeded(w, w.array[i])
  <2> SUFFICES ASSUME NEW i \in DOMAIN w.array
               PROVE  s[i] = CloneIfNeeded(w, w.array[i])
    OBVIOUS
  <2>1. CASE IsDraft(w.array[i])
    BY <1>4, <1>8, <2>1 DEF Gone
  <2>2. CASE ~IsDraft(w.array[i])
    BY <1>4, <1>8, <2>2 DEF Gone
  <2> QED BY <2>1, <2>2
<1> QED BY <1>8, <1>9 DEF Gone

\* An object of the recipe that is in the array, and holds a draft, has it
\* finalized; nothing else changes.
LEMMA AssignedFinalized ==
    ASSUME BaseOK, NEW w, Sound(w), NEW u, u = FinalizeAssigned(w)
    PROVE  /\ u \in World /\ u.array = w.array /\ u.drafts = w.drafts
           /\ u.original = w.original /\ DOMAIN u.heap = DOMAIN w.heap
           /\ Len(u.heap) = Len(w.heap)
           /\ \A a \in DOMAIN w.heap : ~IsDraft(w.heap[a]) => u.heap[a] = w.heap[a]
           /\ \A i \in DOMAIN w.array : IsObj(w.array[i]) => ~IsDraft(u.heap[w.array[i].id])
<1>0. /\ w \in World /\ BaseKept(w) /\ DraftsApart(w) /\ HeapInOrder(w) /\ AllFit(w)
      /\ w.heap \in Seq(Value) /\ w.drafts \in Seq(ElementDraft) /\ w.array \in Seq(Value)
  BY SoundParts, WorldParts
<1>1. PICK found : found = {t \in w.tasks : /\ w.drafts # <<>> /\ t.at \in w.assigned
                                            /\ At(w.array, t.at) = t.value
                                            /\ IsDraft(w.heap[t.value.id])}
  OBVIOUS
<1>2. PICK h : h = [a \in DOMAIN w.heap |->
                       IF \E t \in found : t.value.id = a
                       THEN FinalElement(w, w.heap[a].id) ELSE w.heap[a]]
  OBVIOUS
<1>3. u = [w EXCEPT !.heap = h]
  BY <1>1, <1>2 DEF FinalizeAssigned
<1>4. PICK l \in Nat : l = Len(w.heap) /\ DOMAIN w.heap = 1 .. l
  BY <1>0, LenProperties
<1>5. ASSUME NEW a \in DOMAIN w.heap
      PROVE  /\ h[a] \in Value
             /\ ~IsDraft(w.heap[a]) => h[a] = w.heap[a]
             /\ (\E t \in found : t.value.id = a) => ~IsDraft(h[a])
  <2>1. w.heap[a] \in Value
    BY <1>0, ElementOfSeq
  <2>2. CASE \E t \in found : t.value.id = a
    <3>1. IsDraft(w.heap[a])
      BY <1>1, <2>2
    <3>2. w.heap[a].id \in DOMAIN w.drafts
      BY <1>0, <3>1 DEF HeapInOrder
    <3>3. w.drafts[w.heap[a].id] \in ElementDraft
      BY <1>0, <3>2, ElementOfSeq
    <3>4. w.drafts[w.heap[a].id].copy \in Nat /\ w.drafts[w.heap[a].id].original \in Nat
      BY <3>3 DEF ElementDraft
    <3>5. h[a] = FinalElement(w, w.heap[a].id)
      BY <1>2, <2>2
    <3>6. PICK n \in Nat : h[a] = Obj(n)
      BY <3>4, <3>5 DEF FinalElement, Node
    <3> QED BY <3>1, <3>6, Values
  <2>3. CASE ~\E t \in found : t.value.id = a
    BY <1>2, <2>1, <2>3
  <2> QED BY <2>2, <2>3
<1>6. h \in Seq(Value) /\ DOMAIN h = DOMAIN w.heap /\ Len(h) = l
  <2>1. h = [a \in 1 .. l |-> h[a]]
    BY <1>2, <1>4
  <2>2. h \in [1 .. l -> Value]
    BY <1>4, <1>5, <2>1
  <2>3. h \in Seq(Value) /\ DOMAIN h = 1 .. l
    BY <2>2
  <2> QED BY <1>4, <2>3, LenProperties
<1>7. /\ u \in World /\ u.array = w.array /\ u.drafts = w.drafts /\ u.original = w.original
      /\ u.heap = h
  BY <1>0, <1>3, <1>6 DEF World
<1>8. ASSUME NEW i \in DOMAIN w.array, IsObj(w.array[i])
      PROVE  ~IsDraft(h[w.array[i].id])
  <2>1. i \in Index /\ At(w.array, i) = w.array[i]
    BY <1>0, LenProperties DEF At, Index
  <2>2. PICK v \in Value : v = w.array[i] /\ IsObj(v)
    BY <1>0, <1>8, ElementOfSeq
  <2>3. /\ v.id \in DOMAIN w.heap
        /\ v \notin Range(w.original) =>
              i \in w.assigned /\ [at |-> i, value |-> v] \in w.tasks
    BY <1>0, <2>1, <2>2 DEF AllFit, Fits
  <2>4. CASE ~IsDraft(w.heap[v.id])
    BY <1>5, <2>2, <2>3, <2>4
  <2>5. CASE IsDraft(w.heap[v.id])
    <3>1. v \notin Range(w.original)
      <4> SUFFICES ASSUME v \in Range(base.array) PROVE FALSE
        BY <1>0 DEF BaseKept
      <4>1. v.id \in DOMAIN base.heap
        BY <2>2 DEF BaseOK
      <4>2. w.heap[v.id] = base.heap[v.id] /\ base.heap[v.id] \in Range(base.heap)
        BY <1>0, <4>1 DEF BaseKept, Range
      <4> QED BY <2>5, <4>2 DEF BaseOK
    <3>2. w.drafts # <<>>
      <4>1. w.heap[v.id].id \in DOMAIN w.drafts
        BY <1>0, <2>3, <2>5 DEF HeapInOrder
      <4> QED BY <4>1
    <3>3. PICK t : t = [at |-> i, value |-> v]
      OBVIOUS
    <3>4. t \in found /\ t.value.id = v.id
      BY <1>1, <2>1, <2>2, <2>3, <2>5, <3>1, <3>2, <3>3
    <3> QED BY <1>5, <2>2, <2>3, <3>4
  <2> QED BY <2>4, <2>5
<1> QED BY <1>4, <1>5, <1>6, <1>7, <1>8

\* What the end of a recipe makes of a world.
Finished(w, u) ==
    /\ u \in World /\ u.original = w.original /\ u.drafts = w.drafts
    /\ DOMAIN u.heap = DOMAIN w.heap /\ Len(u.heap) = Len(w.heap)
    /\ \A a \in DOMAIN w.heap : ~IsDraft(w.heap[a]) => u.heap[a] = w.heap[a]
    /\ \A i \in DOMAIN w.array : IsObj(w.array[i]) => ~IsDraft(u.heap[w.array[i].id])
    /\ DOMAIN u.array = DOMAIN w.array
    /\ \A i \in DOMAIN w.array : u.array[i] = CloneIfNeeded(w, w.array[i])

LEMMA FinishedIs ==
    ASSUME BaseOK, NEW w, Sound(w), NEW u, u = FinalizeElements(FinalizeAssigned(w)).w
    PROVE  Finished(w, u)
<1>0. /\ w \in World /\ AllFit(w) /\ w.drafts \in Seq(ElementDraft) /\ w.array \in Seq(Value)
  BY SoundParts, WorldParts
<1>1. PICK m : m = FinalizeAssigned(w)
  OBVIOUS
<1>2. /\ m \in World /\ m.array = w.array /\ m.drafts = w.drafts
      /\ m.original = w.original /\ DOMAIN m.heap = DOMAIN w.heap
      /\ Len(m.heap) = Len(w.heap)
  BY <1>1, AssignedFinalized
<1>3. \A a \in DOMAIN w.heap : ~IsDraft(w.heap[a]) => m.heap[a] = w.heap[a]
  BY <1>1, AssignedFinalized
<1>4. \A i \in DOMAIN w.array : IsObj(w.array[i]) => ~IsDraft(m.heap[w.array[i].id])
  BY <1>1, AssignedFinalized
<1>5. ASSUME NEW i \in DOMAIN w.array, IsDraft(w.array[i])
      PROVE  /\ w.array[i].id \in DOMAIN w.drafts
             /\ i = w.drafts[w.array[i].id].key \/ i \in w.drafts[w.array[i].id].callbacks
  <2>1. i \in Index /\ At(w.array, i) = w.array[i]
    BY <1>0, LenProperties DEF At, Index
  <2> QED BY <1>0, <1>5, <2>1 DEF AllFit, Fits
<1>6. DraftsPlaced(m)
  BY <1>2, <1>5 DEF DraftsPlaced
<1>7. PICK s : /\ Holding(m, u, s) /\ s = [i \in DOMAIN m.array |-> s[i]]
               /\ \A i \in DOMAIN m.array : s[i] = CloneIfNeeded(m, m.array[i])
  BY <1>1, <1>2, <1>6, ElementsFinalized
<1>8. ASSUME NEW i \in DOMAIN w.array
      PROVE  s[i] = CloneIfNeeded(w, w.array[i]) /\ s[i] \in Value
  <2>1. s[i] = CloneIfNeeded(w, w.array[i])
    BY <1>2, <1>7 DEF CloneIfNeeded, FinalElement, Node
  <2>2. PICK v \in Value : v = w.array[i]
    BY <1>0, ElementOfSeq
  <2>3. CASE IsDraft(v)
    <3>1. w.drafts[v.id] \in ElementDraft
      BY <1>0, <1>5, <2>2, <2>3, ElementOfSeq
    <3>2. w.drafts[v.id].copy \in Nat /\ w.drafts[v.id].original \in Nat
      BY <3>1 DEF ElementDraft
    <3>3. PICK n \in Nat : CloneIfNeeded(w, v) = Obj(n)
      BY <2>3, <3>2 DEF CloneIfNeeded, FinalElement, Node
    <3> QED BY <2>1, <2>2, <3>3, Values
  <2>4. CASE ~IsDraft(v)
    BY <2>1, <2>2, <2>4 DEF CloneIfNeeded
  <2> QED BY <2>1, <2>3, <2>4
<1>9. s \in Seq(Value)
  <2>1. PICK n \in Nat : DOMAIN w.array = 1 .. n
    BY <1>0, LenProperties
  <2>2. s \in [1 .. n -> Value]
    <3>1. s = [i \in 1 .. n |-> s[i]]
      BY <1>2, <1>7, <2>1
    <3> QED BY <1>8, <2>1, <3>1
  <2> QED BY <2>2
<1>10. /\ u \in World /\ u.array = s /\ u.drafts = w.drafts /\ u.heap = m.heap
       /\ u.original = w.original
  BY <1>2, <1>7, <1>9 DEF Holding, World
<1> QED BY <1>2, <1>3, <1>4, <1>7, <1>8, <1>10 DEF Finished

\* What the producer returns: the finished array, or the original one if nothing
\* changed.
Returns(w, u, r) == \/ Finished(w, u) /\ r = u.array
                    \/ u = w /\ ~w.operated /\ r = w.original

\* Objects of the base hold no drafts.
LEMMA BaseHoldsNone ==
    ASSUME BaseOK, NEW w, BaseKept(w), NEW v \in Range(base.array)
    PROVE  ~IsDraft(v) /\ (IsObj(v) => ~IsDraft(w.heap[v.id]) /\ v.id \in DOMAIN base.heap)
<1>1. ~IsDraft(v) /\ (IsObj(v) => v.id \in DOMAIN base.heap)
  BY DEF BaseOK
<1>2. ASSUME IsObj(v)
      PROVE  ~IsDraft(w.heap[v.id])
  <2>1. w.heap[v.id] = base.heap[v.id] /\ base.heap[v.id] \in Range(base.heap)
    BY <1>1, <1>2 DEF BaseKept, Range
  <2> QED BY <2>1 DEF BaseOK
<1> QED BY <1>1, <1>2

LEMMA FinalIsClean ==
    ASSUME BaseOK, NEW w, Sound(w), NEW d \in DOMAIN w.drafts
    PROVE  \E a \in DOMAIN w.heap : FinalElement(w, d) = Obj(a) /\ ~IsDraft(w.heap[a])
<1>0. /\ w \in World /\ BaseKept(w) /\ DraftsApart(w) /\ HeapInOrder(w)
      /\ w.heap \in Seq(Value)
  BY SoundParts, WorldParts
<1>1. PICK n : n = w.drafts[d]
  OBVIOUS
<1>2. PICK l \in Nat : l = Len(w.heap) /\ DOMAIN w.heap = 1 .. l
  BY <1>0, LenProperties
<1>3. PICK b \in Nat : b = Len(base.heap) /\ DOMAIN base.heap = 1 .. b /\ b <= l
  <2>1. base.heap \in Seq(Value)
    BY DEF BaseOK
  <2> QED BY <1>0, <1>2, <2>1, LenProperties DEF BaseKept
<1>4. CASE n.operated
  <2>1. FinalElement(w, d) = Obj(n.copy)
    BY <1>1, <1>4 DEF FinalElement, Node
  <2>2. n.copy # Null /\ ~IsDraft(w.heap[n.copy]) /\ n.copy \in {Null} \cup (b + 1 .. l)
    BY <1>0, <1>1, <1>2, <1>3, <1>4 DEF HeapInOrder, DraftsApart
  <2>3. n.copy \in DOMAIN w.heap
    BY <1>2, <2>2
  <2> QED BY <2>1, <2>2, <2>3
<1>5. CASE ~n.operated
  <2>1. FinalElement(w, d) = Obj(n.original)
    BY <1>1, <1>5 DEF FinalElement, Node
  <2>2. base.array[n.key] = Obj(n.original) /\ n.key \in DOMAIN base.array
    BY <1>0, <1>1 DEF DraftsApart
  <2>3. Obj(n.original) \in Range(base.array)
    BY <2>2 DEF Range
  <2>4. IsObj(Obj(n.original)) /\ Obj(n.original).id = n.original
    BY DEF Obj, IsObj
  <2>5. ~IsDraft(w.heap[n.original]) /\ n.original \in DOMAIN base.heap
    BY <1>0, <2>3, <2>4, BaseHoldsNone
  <2> QED BY <1>2, <1>3, <2>1, <2>5
<1> QED BY <1>4, <1>5

LEMMA TreeOfFinal ==
    ASSUME NEW w, NEW u, u.drafts = w.drafts, NEW v
    PROVE  Tree(u, CloneIfNeeded(w, v)) = Tree(u, v)
<1>1. CASE ~IsDraft(v)
  BY <1>1 DEF CloneIfNeeded
<1>2. CASE IsDraft(v)
  <2>1. PICK x : x = CloneIfNeeded(w, v)
    OBVIOUS
  <2>2. x = FinalElement(u, v.id)
    BY <1>2, <2>1 DEF CloneIfNeeded, FinalElement, Node
  <2>3. IsObj(x) /\ ~IsDraft(x)
    BY <2>2 DEF FinalElement, Obj, IsObj, IsDraft
  <2>4. Held(u, x) = Held(u, v)
    BY <1>2, <2>2, <2>3 DEF Held
  <2>5. Tree(u, x) = <<Obj(0)>> \o Leaf(u, Held(u, x))
    BY <2>3 DEF Tree, IsRef
  <2>6. Tree(u, v) = <<Obj(0)>> \o Leaf(u, Held(u, v))
    BY <1>2 DEF Tree, IsRef
  <2> QED BY <2>1, <2>4, <2>5, <2>6
<1> QED BY <1>1, <1>2

\* Each element is returned as itself, or as its final value.
LEMMA ReturnedElements ==
    ASSUME BaseOK, NEW w, Sound(w), NEW u, NEW r, Returns(w, u, r)
    PROVE  /\ u.drafts = w.drafts /\ DOMAIN r = DOMAIN w.array
           /\ \A i \in DOMAIN w.array : r[i] = CloneIfNeeded(w, w.array[i])
           /\ \A i \in DOMAIN w.array : IsObj(w.array[i]) => ~IsDraft(u.heap[w.array[i].id])
           /\ \A a \in DOMAIN w.heap : ~IsDraft(w.heap[a]) => u.heap[a] = w.heap[a]
<1>1. CASE Finished(w, u) /\ r = u.array
  BY <1>1 DEF Finished
<1>2. CASE u = w /\ ~w.operated /\ r = w.original
  <2>0. /\ w \in World /\ Untouched(w) /\ AllFit(w) /\ BaseKept(w)
        /\ w.array \in Seq(Value) /\ w.original \in Seq(Value)
    BY SoundParts, WorldParts
  <2>1. Len(w.array) = Len(w.original)
    BY <1>2, <2>0 DEF Untouched
  <2>2. DOMAIN r = DOMAIN w.array
    BY <1>2, <2>0, <2>1, LenProperties
  <2>3. ASSUME NEW i \in DOMAIN w.array
        PROVE  /\ r[i] = CloneIfNeeded(w, w.array[i])
               /\ IsObj(w.array[i]) => ~IsDraft(u.heap[w.array[i].id])
    <3>1. PICK v : v = w.array[i]
      OBVIOUS
    <3>2. i \in Index /\ At(w.array, i) = v
      BY <2>0, <3>1, LenProperties DEF At, Index
    <3>3. r[i] \in Range(base.array)
      BY <1>2, <2>0, <2>2 DEF BaseKept, Range
    <3>4. CASE v = r[i]
      <4>1. ~IsDraft(v) /\ (IsObj(v) => ~IsDraft(w.heap[v.id]))
        BY <2>0, <3>3, <3>4, BaseHoldsNone
      <4> QED BY <1>2, <3>1, <3>4, <4>1 DEF CloneIfNeeded
    <3>5. CASE IsDraft(v) /\ r[i] = Obj(w.drafts[v.id].original)
      <4>1. v.id \in DOMAIN w.drafts
        BY <2>0, <3>2, <3>5 DEF AllFit, Fits
      <4>2. ~w.drafts[v.id].operated
        BY <1>2, <2>0, <4>1 DEF Untouched
      <4>3. CloneIfNeeded(w, v) = r[i]
        BY <3>5, <4>2 DEF CloneIfNeeded, FinalElement, Node
      <4>4. ~IsObj(v)
        BY <3>5 DEF IsDraft, IsObj
      <4> QED BY <3>1, <4>3, <4>4
    <3> QED BY <1>2, <2>0, <3>1, <3>4, <3>5 DEF Untouched
  <2> QED BY <1>2, <2>2, <2>3
<1> QED BY <1>1, <1>2 DEF Returns

LEMMA ReturnedClean ==
    ASSUME BaseOK, NEW w, Sound(w), NEW u, NEW r, Returns(w, u, r), NEW v \in Range(r)
    PROVE  ~IsDraft(v) /\ (IsObj(v) => ~IsDraft(u.heap[v.id]))
<1>0. w \in World /\ w.array \in Seq(Value) /\ AllFit(w)
  BY SoundParts, WorldParts
<1>1. PICK i \in DOMAIN w.array : v = CloneIfNeeded(w, w.array[i])
  <2>1. PICK i \in DOMAIN r : v = r[i]
    BY DEF Range
  <2> QED BY <2>1, ReturnedElements
<1>2. PICK x : x = w.array[i]
  OBVIOUS
<1>3. i \in Index /\ At(w.array, i) = x
  BY <1>0, <1>2, LenProperties DEF At, Index
<1>4. CASE IsDraft(x)
  <2>1. x.id \in DOMAIN w.drafts
    BY <1>0, <1>3, <1>4 DEF AllFit, Fits
  <2>2. PICK a \in DOMAIN w.heap : FinalElement(w, x.id) = Obj(a) /\ ~IsDraft(w.heap[a])
    BY <2>1, FinalIsClean
  <2>3. v = Obj(a) /\ ~IsDraft(u.heap[a])
    <3>1. u.heap[a] = w.heap[a]
      BY <2>2, ReturnedElements
    <3> QED BY <1>1, <1>2, <1>4, <2>2, <3>1 DEF CloneIfNeeded
  <2> QED BY <2>3 DEF Obj, IsDraft
<1>5. CASE ~IsDraft(x)
  <2>1. v = x
    BY <1>1, <1>2, <1>5 DEF CloneIfNeeded
  <2>2. IsObj(x) => ~IsDraft(u.heap[x.id])
    BY <1>2, ReturnedElements
  <2> QED BY <1>5, <2>1, <2>2
<1> QED BY <1>4, <1>5

LEMMA ReturnedAsPlain ==
    ASSUME BaseOK, NEW w, Sound(w), NEW u, NEW r, Returns(w, u, r),
           NEW p, p = Slots(w)
    PROVE  DOMAIN r = DOMAIN p /\ \A i \in DOMAIN p : Tree(u, r[i]) = Tree(u, Raw(p[i]))
<1>0. w \in World /\ w.array \in Seq(Value)
  BY SoundParts, WorldParts
<1>1. u.drafts = w.drafts /\ DOMAIN r = DOMAIN w.array /\ DOMAIN p = DOMAIN w.array
  BY ReturnedElements, SlotsTyped
<1>2. ASSUME NEW i \in DOMAIN w.array
      PROVE  Tree(u, r[i]) = Tree(u, Raw(p[i]))
  <2>1. PICK v \in Value : v = w.array[i]
    BY <1>0, ElementOfSeq
  <2>2. p[i] = SlotOf(w, i, v)
    BY <1>1, <2>1, SlotsTyped
  <2>3. Raw(p[i]) = v
    BY <2>2, Values DEF SlotOf, Raw, Base
  <2>4. r[i] = CloneIfNeeded(w, v)
    BY <2>1, ReturnedElements
  <2> QED BY <1>1, <2>3, <2>4, TreeOfFinal
<1> QED BY <1>1, <1>2

-----------------------------------------------------------------------------
(***************************************************************************)
(* The theorems.                                                           *)
(***************************************************************************)

\* What stays true of the world after the recipe.
Kept == world \in World /\ BaseKept(world) /\ DraftsApart(world)

IInv ==
    /\ base \in Bases
    /\ phase \in {"recipe", "done"} /\ writes \in 0 .. MaxWrites /\ plain \in Seq(Slot)
    /\ phase = "recipe" => Working
    /\ Kept
    /\ NoDraftReturned
    /\ ResultAsPlain

LEMMA BasesOK ==
    ASSUME base \in Bases
    PROVE  BaseOK
BY BasesAssumption DEF BaseOK

LEMMA WorkingKept ==
    ASSUME Working
    PROVE  Kept /\ plain \in Seq(Slot)
BY SoundParts, SlotsTyped DEF Working, Kept

LEMMA InitInv ==
    ASSUME Init
    PROVE  IInv
<1>1. Working /\ base \in Bases /\ phase = "recipe" /\ writes = 0
  BY WorkingStart DEF Init
<1>2. NoDraftReturned /\ ResultAsPlain
  BY <1>1 DEF NoDraftReturned, ResultAsPlain
<1> QED BY <1>1, <1>2, ArrayBoundsAssumption, WorkingKept DEF IInv

LEMMA RecipeKeeps ==
    ASSUME IInv, Recipe
    PROVE  IInv'
<1>1. BaseOK /\ writes \in 0 .. MaxWrites
  BY BasesOK DEF IInv
<1>2. /\ phase = "recipe" /\ phase' = "recipe" /\ base' = base
      /\ writes' = writes \/ (writes' = writes + 1 /\ writes < MaxWrites)
  BY DEF Recipe, Get, Set, Delete, Resizing, Push, Pop, Shift, Unshift, Splice, Sort,
         ReverseCall, WriteElement, NewObject, Call
<1>3. Working'
  BY <1>1, <1>2, RecipeWorks DEF IInv
<1>4. Kept' /\ (plain \in Seq(Slot))'
  BY <1>3, WorkingKept, PTL
<1>5. writes' \in 0 .. MaxWrites
  BY <1>1, <1>2, ArrayBoundsAssumption
<1>6. NoDraftReturned' /\ ResultAsPlain'
  BY <1>2 DEF NoDraftReturned, ResultAsPlain
<1> QED BY <1>2, <1>3, <1>4, <1>5, <1>6 DEF IInv

LEMMA FinishKeeps ==
    ASSUME IInv, NEW als \in BOOLEAN, Finish(als)
    PROVE  IInv'
<1>0. /\ BaseOK /\ Working /\ base \in Bases /\ writes \in 0 .. MaxWrites
      /\ plain \in Seq(Slot)
  BY BasesOK DEF IInv, Finish
<1>1. PICK w, p : w = world /\ p = Slots(w) /\ p = plain /\ Sound(w)
  BY <1>0 DEF Working
<1>2. PICK u, r : world' = u /\ result' = r
  OBVIOUS
<1>3. /\ phase' = "done" /\ base' = base /\ plain' = plain /\ writes' = writes
  BY DEF Finish
<1>4. Returns(w, u, r)
  <2>1. CASE world.operated
    <3>1. PICK x : x = FinalizeElements(FinalizeAssigned(w)).w
      OBVIOUS
    <3>2. world' = x /\ result' = x.array
      BY <1>1, <2>1, <3>1 DEF Finish
    <3> QED BY <1>0, <1>1, <1>2, <3>1, <3>2, FinishedIs DEF Returns
  <2>2. CASE ~world.operated
    <3>1. world' = w /\ result' = w.original
      BY <1>1, <2>2 DEF Finish
    <3> QED BY <1>1, <1>2, <2>2, <3>1 DEF Returns
  <2> QED BY <2>1, <2>2
<1>5. Kept'
  <2>1. w \in World /\ BaseKept(w) /\ DraftsApart(w)
    BY <1>1, SoundParts
  <2>2. CASE u = w
    BY <1>2, <1>3, <2>1, <2>2 DEF Kept, BaseKept, DraftsApart
  <2>3. CASE Finished(w, u)
    <3>1. /\ u \in World /\ u.original = w.original /\ u.drafts = w.drafts
          /\ Len(u.heap) = Len(w.heap)
      BY <2>3 DEF Finished
    <3>2. ASSUME NEW a \in DOMAIN base.heap
          PROVE  u.heap[a] = base.heap[a]
      <4>1. base.heap[a] \in Range(base.heap) /\ w.heap[a] = base.heap[a]
        BY <2>1 DEF Range, BaseKept
      <4>2. ~IsDraft(w.heap[a])
        BY <1>0, <4>1 DEF BaseOK
      <4>3. a \in DOMAIN w.heap
        <5>1. w.heap \in Seq(Value) /\ base.heap \in Seq(Value)
          BY <1>0, <2>1, WorldParts DEF BaseOK
        <5> QED BY <2>1, <5>1, LenProperties DEF BaseKept
      <4> QED BY <2>3, <4>1, <4>2, <4>3 DEF Finished
    <3>3. BaseKept(u) /\ DraftsApart(u)
      BY <2>1, <3>1, <3>2 DEF BaseKept, DraftsApart
    <3> QED BY <1>2, <1>3, <3>1, <3>3 DEF Kept, BaseKept, DraftsApart
  <2> QED BY <1>4, <2>2, <2>3 DEF Returns
<1>6. NoDraftReturned'
  <2>1. \A v \in Range(r) : ~IsDraft(v) /\ (IsObj(v) => ~IsDraft(u.heap[v.id]))
    BY <1>0, <1>1, <1>4, ReturnedClean
  <2> QED BY <1>2, <2>1 DEF NoDraftReturned
<1>7. ResultAsPlain'
  <2>1. DOMAIN r = DOMAIN p /\ \A i \in DOMAIN p : Tree(u, r[i]) = Tree(u, Raw(p[i]))
    <3>1. BaseOK /\ Sound(w) /\ p = Slots(w)
      BY <1>0, <1>1
    <3> QED BY <3>1, <1>4, ReturnedAsPlain
  <2>2. Trees(u, r) = [i \in DOMAIN p |-> Tree(u, Raw(p[i]))]
    BY <2>1 DEF Trees
  <2> QED BY <1>1, <1>2, <1>3, <2>2 DEF ResultAsPlain, Content
<1>8. (phase = "recipe" => Working)'
  BY <1>3
<1> QED BY <1>0, <1>3, <1>5, <1>6, <1>7, <1>8 DEF IInv

LEMMA StutterKeeps ==
    ASSUME IInv, UNCHANGED vars
    PROVE  IInv'
<1>1. /\ base' = base /\ world' = world /\ plain' = plain /\ phase' = phase
      /\ result' = result /\ writes' = writes
  BY DEF vars
<1>2. Working => Working'
  BY <1>1, SoundLater, SlotsLater DEF Working
<1>3. Kept'
  BY <1>1 DEF IInv, Kept, BaseKept, DraftsApart
<1>4. NoDraftReturned'
  BY <1>1 DEF IInv, NoDraftReturned
<1>5. ResultAsPlain'
  BY <1>1 DEF IInv, ResultAsPlain, Content
<1> QED BY <1>1, <1>2, <1>3, <1>4, <1>5 DEF IInv

\* The invariant holds of the producer: in the recipe the draft is sound and reads
\* like the ordinary array, and what the end makes of it is right.
THEOREM ArrayInductive == Spec => []IInv
<1>1. Init => IInv
  BY InitInv
<1>2. IInv /\ [Next]_vars => IInv'
  BY RecipeKeeps, FinishKeeps, StutterKeeps DEF Next
<1> QED BY <1>1, <1>2, PTL DEF Spec

\* The array draft reads, at every moment of a recipe, like an ordinary array to
\* which the recipe did the same, whichever way array.ts took through each call.
THEOREM DraftActsAsArray == Spec => []ActsAsArray
<1>1. IInv => ActsAsArray
  BY DEF IInv, Working, ActsAsArray
<1> QED BY <1>1, ArrayInductive, PTL

\* The caches of isDense() and isInert() never answer what a scan would deny, and
\* a changed array is a copy.
THEOREM CachesAreRight == Spec => []RecordsTrue
<1>1. ASSUME IInv PROVE RecordsTrue
  <2> SUFFICES ASSUME phase = "recipe"
               PROVE  /\ world.array # world.original => world.copied
                      /\ world.dense = "yes" => ~HasHoles(world.array)
                      /\ world.inert = "yes" => \A v \in Range(world.array) : ~IsRef(v)
    BY DEF RecordsTrue
  <2>1. CachesRight(world)
    BY <1>1, SoundParts DEF IInv, Working
  <2> QED BY <2>1 DEF CachesRight, Range
<1> QED BY <1>1, ArrayInductive, PTL

\* Drafts, copies and records lead somewhere, and no trap, method or finalization
\* changes what the elements of the base hold.
THEOREM ArraysTypeCorrect == Spec => []TypeOK
<1>1. ASSUME IInv PROVE TypeOK
  <2>1. world \in World /\ BaseKept(world) /\ DraftsApart(world) /\ BaseOK
    BY <1>1, BasesOK DEF IInv, Kept
  <2>2. world.heap \in Seq(Value) /\ base.heap \in Seq(Value)
    BY <2>1, WorldParts DEF BaseOK
  <2>3. PICK l \in Nat : l = Len(world.heap) /\ DOMAIN world.heap = 1 .. l
    BY <2>2, LenProperties
  <2>4. PICK b \in Nat : b = Len(base.heap) /\ DOMAIN base.heap = 1 .. b /\ b <= l
    BY <2>1, <2>2, <2>3, LenProperties DEF BaseKept
  <2>5. SubSeq(world.heap, 1, b) = base.heap
    <3>1. SubSeq(world.heap, 1, b) = [a \in 1 .. b |-> world.heap[a]]
      BY <2>2, <2>3, <2>4
    <3>2. base.heap = [a \in 1 .. b |-> base.heap[a]]
      BY <2>2, <2>4
    <3>3. \A a \in 1 .. b : world.heap[a] = base.heap[a]
      BY <2>1, <2>4 DEF BaseKept
    <3> QED BY <3>1, <3>2, <3>3
  <2>6. ASSUME NEW d \in DOMAIN world.drafts
        PROVE  /\ world.drafts[d].key \in DOMAIN base.array
               /\ world.drafts[d].copy \in {Null} \cup DOMAIN world.heap
    BY <2>1, <2>3, <2>4 DEF DraftsApart
  <2>7. world.original = base.array
    BY <2>1 DEF BaseKept
  <2> QED BY <1>1, <2>1, <2>4, <2>5, <2>6, <2>7 DEF IInv, TypeOK
<1> QED BY <1>1, ArrayInductive, PTL

\* indexOf() on the copy skips exactly the elements that a search through the
\* traps would have replaced by their drafts.
THEOREM SearchesAgree == Spec => []SearchAsRead
<1>1. ASSUME IInv PROVE SearchAsRead
  <2> SUFFICES ASSUME phase = "recipe", NEW v \in RecipeValues, IsRef(v)
               PROVE  IndexOf(world, v) = Min({i \in DOMAIN plain : plain[i] = v}
                                                  \cup {Len(plain) + 1})
    BY DEF SearchAsRead
  <2>0. /\ BaseOK /\ Sound(world) /\ plain = Slots(world)
    BY <1>1, BasesOK DEF IInv, Working
  <2>1. v \in Value /\ v # Absent
    BY <2>0, RecipeValuesUsable DEF Usable
  <2>2. /\ world \in World /\ BaseKept(world) /\ world.array \in Seq(Value)
    BY <2>0, SoundParts, WorldParts
  <2>3. /\ DOMAIN plain = DOMAIN world.array /\ Len(plain) = Size(world)
        /\ \A i \in DOMAIN plain : plain[i] = SlotOf(world, i, world.array[i])
    BY <2>0, SlotsTyped DEF Size
  <2>4. ASSUME NEW i \in DOMAIN world.array
        PROVE  plain[i] = v <=> world.array[i] = v /\ BaseIndex(world, v, i) = Null
    <3>1. i \in Nat \ {0}
      BY <2>2, LenProperties
    <3>2. PICK x \in Value : x = world.array[i]
      BY <2>2, ElementOfSeq
    <3>3. plain[i] = SlotOf(world, i, x)
      BY <2>3, <3>2
    <3>4. v.kind # "base" /\ Base(x.id).kind = "base"
      BY <2>1, Values DEF Base
    <3>5. BaseIndex(world, v, i) # Null => IsObj(v)
      <4> SUFFICES ASSUME BaseIndex(world, v, i) # Null
                   PROVE  ~IsDraft(v)
        BY DEF IsRef
      <4>1. v \in Range(base.array)
        BY <2>1, <2>2, <3>1, BaseIndexIs DEF BaseKept, Range
      <4> QED BY <2>0, <4>1 DEF BaseOK, IsRef
    <3> QED BY <3>2, <3>3, <3>4, <3>5 DEF SlotOf
  <2> QED BY <2>3, <2>4 DEF IndexOf
<1> QED BY <1>1, ArrayInductive, PTL

\* No draft is left in the array that create() returns, nor in an object of the
\* recipe that it holds.
THEOREM NewArrayHasNoDraft == Spec => []NoDraftReturned
<1>1. IInv => NoDraftReturned
  BY DEF IInv
<1> QED BY <1>1, ArrayInductive, PTL

\* The array that create() returns holds what the ordinary array holds, with the
\* changes made through the drafts of elements, wherever they moved.
THEOREM NewArrayAsPlain == Spec => []ResultAsPlain
<1>1. IInv => ResultAsPlain
  BY DEF IInv
<1> QED BY <1>1, ArrayInductive, PTL
=============================================================================
