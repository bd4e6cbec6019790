----------------------------- MODULE NestedProofs -----------------------------
(***************************************************************************)
(* A producer finalizes only drafts of its own, so what an inner producer  *)
(* does at its end never finalizes a draft that an outer recipe goes on    *)
(* using.  finalizeDraft() is a loop over a list of tasks: that it keeps   *)
(* to them is proved by induction over the number of tasks done.           *)
(***************************************************************************)
EXTENDS NestedProducers, SequenceTheorems, WellFoundedInduction, TLAPS

\* Sequences of some set.
Listed(s) == \E S : s \in Seq(S)

\* A world with a list of drafts and one of tasks.
IsWorld(w) == /\ DOMAIN w = {"heap", "drafts", "tasks", "handled"}
              /\ Listed(w.drafts)
              /\ \A d \in DOMAIN w.drafts : "finalized" \in DOMAIN w.drafts[d]
              /\ Listed(w.tasks)

\* A draft's node stands in the list of its own producer, and its producer runs
\* or ended.
NInv == /\ \A p \in Producer : IsWorld(W(p))
        /\ DOMAIN tasks = Producer /\ DOMAIN handled = Producer
        /\ owner \in Seq(Producer) /\ Len(owner) = Len(drafts)
        /\ \A p \in Producer : \A i \in DOMAIN tasks[p] :
              tasks[p][i].kind = "node" =>
                 /\ tasks[p][i].draft \in DOMAIN drafts
                 /\ owner[tasks[p][i].draft] = p
        /\ running \in Seq(Producer) /\ ended \subseteq Producer
        /\ \A i, j \in DOMAIN running : running[i] = running[j] => i = j
        /\ \A d \in DOMAIN drafts : owner[d] \in Range(running) \cup ended
        /\ DOMAIN results = Producer
        /\ \A q \in Producer : ~IsDraft(results[q])
        /\ RunningUnfinalized

-----------------------------------------------------------------------------
(***************************************************************************)
(* Lists and numbers.                                                      *)
(***************************************************************************)

\* A set of numbers has a least element.
LEMMA NatLeast ==
    ASSUME NEW T, T \subseteq Nat, T # {}
    PROVE  \E n \in T : \A m \in T : n <= m
<1> DEFINE R == OpToRel(<, Nat)
<1>1. IsWellFoundedOn(R, Nat)
  BY NatLessThanWellFounded
<1>2. \A m, n \in Nat : m < n => <<m, n>> \in R
  BY DEF R, OpToRel
<1> HIDE DEF R
<1>3. PICK n \in T : \A m \in T : <<m, n>> \notin R
  BY <1>1, WFMin
<1>4. \A m \in T : m \in Nat /\ n \in Nat /\ ~(m < n)
  BY <1>2, <1>3
<1>5. \A m \in T : n <= m
  BY <1>4
<1> QED
  BY <1>5

\* What holds for 0, and for the next number of each it holds for, holds for all.
LEMMA SetInduction ==
    ASSUME NEW S, 0 \in S, \A n \in Nat : n \in S => n + 1 \in S
    PROVE  Nat \subseteq S
<1> SUFFICES ASSUME NEW k \in Nat, k \notin S PROVE FALSE
  OBVIOUS
<1>1. PICK n \in Nat \ S : \A m \in Nat \ S : n <= m
  BY NatLeast
<1>2. n # 0 /\ n - 1 \in Nat /\ n - 1 + 1 = n
  BY <1>1
<1>3. n - 1 \in S
  BY <1>1, <1>2
<1> QED
  BY <1>1, <1>2, <1>3

\* A list has its numbers as domain, ...
LEMMA ListParts ==
    ASSUME NEW s, Listed(s)
    PROVE  /\ Len(s) \in Nat /\ DOMAIN s = 1 .. Len(s)
           /\ s = [i \in DOMAIN s |-> s[i]]
BY LenProperties DEF Listed

\* ... stays one with other elements, ...
LEMMA ListChanges ==
    ASSUME NEW s, Listed(s), NEW f, f = [i \in DOMAIN s |-> f[i]]
    PROVE  Listed(f) /\ Len(f) = Len(s)
<1> DEFINE S == {f[i] : i \in DOMAIN s}
<1>1. Len(s) \in Nat /\ DOMAIN s = 1 .. Len(s)
  BY ListParts
<1>2. f \in [1 .. Len(s) -> S]
  BY <1>1
<1>3. f \in Seq(S)
  BY <1>1, <1>2, SeqDef
<1>4. Len(f) = Len(s)
  BY <1>1, <1>2, <1>3, LenProperties
<1> QED
  BY <1>3, <1>4 DEF Listed

\* ... and with one more.
LEMMA ListGrows ==
    ASSUME NEW s, Listed(s), NEW v
    PROVE  LET t == Append(s, v)
           IN  /\ Listed(t) /\ Len(t) = Len(s) + 1
               /\ DOMAIN t = DOMAIN s \cup {Len(s) + 1}
               /\ \A i \in DOMAIN s : t[i] = s[i]
               /\ t[Len(s) + 1] = v
<1>1. PICK S : s \in Seq(S)
  BY DEF Listed
<1> DEFINE R == S \cup {v}
<1>2. s \in Seq(R) /\ v \in R
  <2>1. s \in [1 .. Len(s) -> S] /\ Len(s) \in Nat
    BY <1>1, LenProperties
  <2>2. s \in [1 .. Len(s) -> R]
    BY <2>1
  <2> QED
    BY <2>1, <2>2, SeqDef
<1> HIDE DEF R
<1>3. Append(s, v) \in Seq(R)
  BY <1>2
<1>4. /\ Len(Append(s, v)) = Len(s) + 1 /\ Len(s) \in Nat
      /\ \A i \in 1 .. Len(s) : Append(s, v)[i] = s[i]
      /\ Append(s, v)[Len(s) + 1] = v
  BY <1>2, AppendProperties, LenProperties
<1>5. DOMAIN s = 1 .. Len(s) /\ DOMAIN Append(s, v) = 1 .. Len(s) + 1
  BY <1>2, <1>3, <1>4, LenProperties
<1> QED
  BY <1>3, <1>4, <1>5 DEF Listed

-----------------------------------------------------------------------------
(***************************************************************************)
(* The functions of the recipe.                                            *)
(***************************************************************************)

\* Drafts stay and are no more final than before, and no node is queued.
Keeps(w, x) ==
    /\ IsWorld(x)
    /\ DOMAIN x.drafts = DOMAIN w.drafts /\ Len(x.drafts) = Len(w.drafts)
    /\ \A e \in DOMAIN w.drafts : x.drafts[e].finalized = w.drafts[e].finalized
    /\ \A i \in DOMAIN x.tasks : x.tasks[i].kind = "node" =>
          \E j \in DOMAIN w.tasks : w.tasks[j] = x.tasks[i]

\* Two changes after each other are one.
LEMMA KeepsTwice ==
    ASSUME NEW w, NEW y, NEW x, Keeps(w, y), Keeps(y, x)
    PROVE  Keeps(w, x)
<1>1. \A i \in DOMAIN x.tasks : x.tasks[i].kind = "node" =>
         \E j \in DOMAIN w.tasks : w.tasks[j] = x.tasks[i]
  BY DEF Keeps
<1> QED
  BY <1>1 DEF Keeps

\* Writing to the heap is such a change, ...
LEMMA HeapKeeps ==
    ASSUME NEW w, IsWorld(w), NEW h
    PROVE  Keeps(w, [w EXCEPT !.heap = h])
BY DEF Keeps, IsWorld

\* Drafts that change in other ways than being finalized.
LEMMA DraftsKeep ==
    ASSUME NEW w, IsWorld(w), NEW ds, ds = [e \in DOMAIN w.drafts |-> ds[e]],
           \A e \in DOMAIN w.drafts : /\ DOMAIN ds[e] = DOMAIN w.drafts[e]
                                      /\ ds[e].finalized = w.drafts[e].finalized
    PROVE  Keeps(w, [w EXCEPT !.drafts = ds])
<1>1. Listed(ds) /\ Len(ds) = Len(w.drafts)
  BY ListChanges DEF IsWorld
<1> DEFINE x == [w EXCEPT !.drafts = ds]
<1>2. /\ DOMAIN x = DOMAIN w /\ x.drafts = ds /\ x.tasks = w.tasks
  BY DEF IsWorld
<1> HIDE DEF x
<1>3. DOMAIN ds = DOMAIN w.drafts
  OBVIOUS
<1> QED
  BY <1>1, <1>2, <1>3 DEF Keeps, IsWorld, x

\* One draft that changes in another field.
LEMMA FieldKeeps ==
    ASSUME NEW w, IsWorld(w), NEW d \in DOMAIN w.drafts,
           NEW field, field # "finalized", NEW v
    PROVE  Keeps(w, [w EXCEPT !.drafts[d] = [@ EXCEPT ![field] = v]])
<1> DEFINE ds == [w.drafts EXCEPT ![d] = [w.drafts[d] EXCEPT ![field] = v]]
<1>1. /\ ds = [e \in DOMAIN w.drafts |-> ds[e]]
      /\ \A e \in DOMAIN w.drafts : /\ DOMAIN ds[e] = DOMAIN w.drafts[e]
                                    /\ ds[e].finalized = w.drafts[e].finalized
  BY ListParts DEF IsWorld
<1> HIDE DEF ds
<1>2. Keeps(w, [w EXCEPT !.drafts = ds])
  BY <1>1, DraftsKeep
<1>3. [w EXCEPT !.drafts[d] = [@ EXCEPT ![field] = v]] = [w EXCEPT !.drafts = ds]
  BY DEF ds, IsWorld
<1> QED
  BY <1>2, <1>3

\* The traps write to copies, ...
LEMMA PutKeeps ==
    ASSUME NEW w, IsWorld(w), NEW d, NEW k, NEW v
    PROVE  Keeps(w, Put(w, d, k, v))
BY HeapKeeps DEF Put

\* ... make a copy of the draft, ...
LEMMA EnsureShallowCopyKeeps ==
    ASSUME NEW w, IsWorld(w), NEW d \in DOMAIN w.drafts
    PROVE  Keeps(w, EnsureShallowCopy(w, d))
<1>1. Keeps(w, w)
  BY DEF Keeps
<1> DEFINE h == Append(w.heap, Original(w, d))
           y == [w EXCEPT !.heap = h]
           x == [y EXCEPT !.drafts[d] = [@ EXCEPT !["copy"] = Len(w.heap) + 1]]
<1>2. Keeps(w, y)
  BY HeapKeeps
<1>3. IsWorld(y) /\ d \in DOMAIN y.drafts
  BY <1>2 DEF Keeps
<1>4. Keeps(y, x)
  <2> HIDE DEF y
  <2> QED
    BY <1>3, FieldKeeps
<1>5. Keeps(w, x)
  <2> HIDE DEF x, y
  <2> QED
    BY <1>2, <1>4, KeepsTwice
<1>6. Node(w, d).copy = Null => EnsureShallowCopy(w, d) = x
  BY DEF EnsureShallowCopy, IsWorld
<1> HIDE DEF x
<1> QED
  BY <1>1, <1>5, <1>6 DEF EnsureShallowCopy

\* ... note in assignedMap what they assign, ...
LEMMA AssignedKeeps ==
    ASSUME NEW w, IsWorld(w), NEW d \in DOMAIN w.drafts, NEW k, NEW flag
    PROVE  Keeps(w, Assigned(w, d, k, flag))
<1> DEFINE v == [w.drafts[d].assigned EXCEPT ![k] = flag]
<1>1. Assigned(w, d, k, flag) = [w EXCEPT !.drafts[d] = [@ EXCEPT !["assigned"] = v]]
  BY DEF Assigned
<1> HIDE DEF v
<1> QED
  BY <1>1, FieldKeeps

\* ... mark the draft and those above it, ...
LEMMA MarkChangedKeeps ==
    ASSUME NEW w, IsWorld(w), NEW d
    PROVE  Keeps(w, MarkChanged(w, d))
<1> DEFINE up == Climbed(w, d)
           ds == [x \in DOMAIN w.drafts |->
                    IF x \in up THEN [w.drafts[x] EXCEPT !.operated = TRUE] ELSE w.drafts[x]]
<1>1. \A e \in DOMAIN w.drafts : /\ DOMAIN ds[e] = DOMAIN w.drafts[e]
                                /\ ds[e].finalized = w.drafts[e].finalized
  BY DEF IsWorld
<1>2. ds = [e \in DOMAIN w.drafts |-> ds[e]]
  OBVIOUS
<1>3. MarkChanged(w, d) = [w EXCEPT !.drafts = ds]
  BY DEF MarkChanged, DraftIds
<1> HIDE DEF ds
<1> QED
  BY <1>1, <1>2, <1>3, DraftsKeep

\* ... and push a callback, or a task that is no node.
LEMMA MarkFinalizationKeeps ==
    ASSUME NEW w, IsWorld(w), NEW d, NEW k, NEW v,
           IsDraft(v) => v.id \in DOMAIN w.drafts
    PROVE  Keeps(w, MarkFinalization(w, d, k, v))
<1>1. CASE IsDraft(v)
  <2> DEFINE e    == v.id
             list == Append(w.drafts[e].callbacks, [target |-> d, key |-> k])
  <2>1. MarkFinalization(w, d, k, v) =
           [w EXCEPT !.drafts[e] = [@ EXCEPT !["callbacks"] = list]]
    BY <1>1 DEF MarkFinalization, IsDraft, IsObj
  <2>2. e \in DOMAIN w.drafts
    BY <1>1
  <2> HIDE DEF list, e
  <2>3. Keeps(w, [w EXCEPT !.drafts[e] = [@ EXCEPT !["callbacks"] = list]])
    BY <2>2, FieldKeeps
  <2> QED
    BY <2>1, <2>3
<1>2. CASE IsObj(v)
  <2> DEFINE task == [kind |-> "assigned", draft |-> d, key |-> k, value |-> v]
             ts   == Append(w.tasks, task)
             x    == [w EXCEPT !.tasks = ts]
  <2>1. MarkFinalization(w, d, k, v) = x
    BY <1>2 DEF MarkFinalization, IsDraft, IsObj
  <2>2. task.kind # "node"
    OBVIOUS
  <2> HIDE DEF task
  <2>3. /\ Listed(ts) /\ DOMAIN ts = DOMAIN w.tasks \cup {Len(w.tasks) + 1}
        /\ \A i \in DOMAIN w.tasks : ts[i] = w.tasks[i]
        /\ ts[Len(w.tasks) + 1] = task
    BY ListGrows DEF IsWorld
  <2> HIDE DEF ts
  <2>4. DOMAIN x = DOMAIN w /\ x.drafts = w.drafts /\ x.tasks = ts
    BY DEF IsWorld
  <2> HIDE DEF x
  <2> QED
    BY <2>1, <2>2, <2>3, <2>4 DEF Keeps, IsWorld
<1>3. CASE ~IsDraft(v) /\ ~IsObj(v)
  BY <1>3 DEF MarkFinalization, Keeps
<1> QED
  BY <1>1, <1>2, <1>3

\* A draft more, which is not final, and its node.
Adds(w, x) ==
    LET n == Len(w.drafts) + 1
    IN  /\ IsWorld(x) /\ Len(x.drafts) = n
        /\ DOMAIN x.drafts = DOMAIN w.drafts \cup {n}
        /\ \A e \in DOMAIN w.drafts : x.drafts[e].finalized = w.drafts[e].finalized
        /\ ~x.drafts[n].finalized
        /\ \A i \in DOMAIN x.tasks : x.tasks[i].kind = "node" =>
              \/ x.tasks[i].draft = n
              \/ \E j \in DOMAIN w.tasks : w.tasks[j] = x.tasks[i]

\* createDraft() queues the node of the new draft, ...
LEMMA CreateDraftAdds ==
    ASSUME NEW w, IsWorld(w), NEW a, NEW p, NEW k
    PROVE  Adds(w, CreateDraft(w, a, p, k))
<1> DEFINE n    == Len(w.drafts) + 1
           node == [original |-> a, copy |-> Null, parent |-> p, key |-> k,
                    operated |-> FALSE, finalized |-> FALSE,
                    assigned |-> [i \in Keys |-> "none"], callbacks |-> <<>>]
           task == [kind |-> "node", draft |-> n]
           ds   == Append(w.drafts, node)
           ts   == Append(w.tasks, task)
           x    == CreateDraft(w, a, p, k)
<1>1. DOMAIN x = DOMAIN w /\ x.drafts = ds /\ x.tasks = ts
  BY DEF CreateDraft, IsWorld
<1>2. "finalized" \in DOMAIN node /\ ~node.finalized /\ task.draft = n
  OBVIOUS
<1> HIDE DEF node, task
<1>3. /\ Listed(ds) /\ DOMAIN ds = DOMAIN w.drafts \cup {n} /\ Len(ds) = n
      /\ \A i \in DOMAIN w.drafts : ds[i] = w.drafts[i]
      /\ ds[n] = node
  BY ListGrows DEF IsWorld
<1>4. /\ Listed(ts) /\ DOMAIN ts = DOMAIN w.tasks \cup {Len(w.tasks) + 1}
      /\ \A i \in DOMAIN w.tasks : ts[i] = w.tasks[i]
      /\ ts[Len(w.tasks) + 1] = task
  BY ListGrows DEF IsWorld
<1> HIDE DEF ds, ts, x
<1>5. IsWorld(x)
  BY <1>1, <1>2, <1>3, <1>4 DEF IsWorld
<1>6. \A i \in DOMAIN x.tasks : \/ x.tasks[i].draft = n
                               \/ \E j \in DOMAIN w.tasks : w.tasks[j] = x.tasks[i]
  BY <1>1, <1>2, <1>4
<1>7. Adds(w, x)
  BY <1>1, <1>2, <1>3, <1>5, <1>6 DEF Adds
<1> QED
  BY <1>7 DEF x

\* ... and a read puts the new draft into the copy of its parent.
LEMMA DraftChildAdds ==
    ASSUME NEW w, IsWorld(w), NEW d \in DOMAIN w.drafts, NEW k
    PROVE  Adds(w, DraftChild(w, d, k))
<1> DEFINE y == EnsureShallowCopy(w, d)
           z == CreateDraft(y, Latest(w, d).at[k].id, d, k)
           x == Put(z, d, k, Draft(Len(z.drafts)))
<1>1. Keeps(w, y)
  BY EnsureShallowCopyKeeps
<1> HIDE DEF y
<1>2. Adds(y, z)
  BY <1>1, CreateDraftAdds DEF Keeps
<1> HIDE DEF z
<1>3. Keeps(z, x)
  BY <1>2, PutKeeps DEF Adds
<1>4. DraftChild(w, d, k) = x
  BY DEF DraftChild, x, y, z
<1> HIDE DEF x
<1>5. Len(w.drafts) \in Nat /\ DOMAIN w.drafts = 1 .. Len(w.drafts)
  BY ListParts DEF IsWorld
<1>6. \A i \in DOMAIN x.tasks : x.tasks[i].kind = "node" =>
         \/ x.tasks[i].draft = Len(w.drafts) + 1
         \/ \E j \in DOMAIN w.tasks : w.tasks[j] = x.tasks[i]
  BY <1>1, <1>2, <1>3 DEF Adds, Keeps
<1>7. Adds(w, x)
  BY <1>1, <1>2, <1>3, <1>5, <1>6 DEF Adds, Keeps
<1> QED
  BY <1>4, <1>7

-----------------------------------------------------------------------------
(***************************************************************************)
(* The end of a producer.                                                  *)
(***************************************************************************)

\* Of all drafts only those of D may turn final.
Turns(w, x, D) ==
    /\ IsWorld(x)
    /\ DOMAIN x.drafts = DOMAIN w.drafts /\ Len(x.drafts) = Len(w.drafts)
    /\ \A e \in DOMAIN w.drafts \ D : x.drafts[e].finalized = w.drafts[e].finalized

\* Two turns after each other finalize no more.
LEMMA TurnsTwice ==
    ASSUME NEW w, NEW y, NEW x, NEW D, Turns(w, y, D), Turns(y, x, D)
    PROVE  Turns(w, x, D)
BY DEF Turns

\* What finalizes no draft may be a part of a turn.
LEMMA KeepsTurns ==
    ASSUME NEW w, NEW x, NEW D, Keeps(w, x)
    PROVE  Turns(w, x, D)
BY DEF Keeps, Turns

\* The node of a draft finalizes this draft only.
LEMMA FinalizeNodeTurns ==
    ASSUME NEW w, IsWorld(w), NEW p, NEW D, NEW d \in D, d \in DOMAIN w.drafts
    PROVE  Turns(w, FinalizeNode(w, p, d), D)
<1> DEFINE parent == Node(w, d).parent
           k      == Node(w, d).key
           here   == IF parent = Null THEN Draft(d) ELSE Copy(w, parent).at[k]
           f      == [w EXCEPT !.drafts[d].finalized = TRUE]
           w1     == IF here = Draft(d) /\ Node(w, d).operated /\ HasEntries(w, d)
                     THEN f ELSE w
           w2     == IF parent # Null /\ IsDraft(here)
                     THEN Put(w1, parent, k, Final(w1, here.id)) ELSE w1
           x      == RunCallbacks(w2, d)
<1>1. FinalizeNode(w, p, d) = x
  BY DEF FinalizeNode
<1>2. Turns(w, f, D)
  <2> DEFINE ds == [w.drafts EXCEPT ![d].finalized = TRUE]
  <2>1. /\ ds = [e \in DOMAIN w.drafts |-> ds[e]]
        /\ \A e \in DOMAIN w.drafts : DOMAIN ds[e] = DOMAIN w.drafts[e]
        /\ \A e \in DOMAIN w.drafts \ D : ds[e] = w.drafts[e]
    BY ListParts DEF IsWorld
  <2>2. DOMAIN f = DOMAIN w /\ f.drafts = ds /\ f.tasks = w.tasks
    BY DEF IsWorld
  <2> HIDE DEF ds, f
  <2>3. Listed(ds) /\ Len(ds) = Len(w.drafts) /\ DOMAIN ds = DOMAIN w.drafts
    BY <2>1, ListChanges DEF IsWorld
  <2> QED
    BY <2>1, <2>2, <2>3 DEF Turns, IsWorld
<1> HIDE DEF f
<1>3. Turns(w, w1, D)
  BY <1>2 DEF Turns
<1> HIDE DEF w1
<1>4. Turns(w1, w2, D)
  <2>1. CASE parent # Null /\ IsDraft(here)
    BY <1>3, <2>1, PutKeeps, KeepsTurns DEF Turns
  <2>2. CASE ~(parent # Null /\ IsDraft(here))
    BY <1>3, <2>2 DEF Turns
  <2> QED
    BY <2>1, <2>2
<1> HIDE DEF w2
<1>5. Turns(w2, x, D)
  <2>1. Keeps(w2, x)
    BY <1>4, HeapKeeps DEF RunCallbacks, Turns
  <2> QED
    BY <2>1, KeepsTurns
<1> HIDE DEF x
<1> QED
  BY <1>1, <1>3, <1>4, <1>5, TurnsTwice

\* Drafts do not depend on what was handled, ...
LEMMA HandledKeeps ==
    ASSUME NEW w, IsWorld(w), NEW s
    PROVE  Keeps(w, [w EXCEPT !.handled = s])
BY DEF Keeps, IsWorld

\* ... and handleValue() writes to objects alone.
LEMMA HandleValueKeeps ==
    ASSUME NEW w, IsWorld(w), NEW v
    PROVE  Keeps(w, HandleValue(w, v))
<1>1. PICK h, s : HandleValue(w, v) = [w EXCEPT !.heap = h, !.handled = s]
  BY DEF HandleValue, IsWorld
<1>2. Keeps(w, [w EXCEPT !.heap = h, !.handled = s])
  BY DEF Keeps, IsWorld
<1> QED
  BY <1>1, <1>2

\* The task of an assigned object finalizes none.
LEMMA FinalizeTaskKeeps ==
    ASSUME NEW w, IsWorld(w), NEW p, NEW task
    PROVE  Keeps(w, FinalizeTask(w, p, task))
<1> DEFINE y == [w EXCEPT !.handled = @ \cup frozen]
           z == FinalizeAssigned(y, task)
           x == [z EXCEPT !.handled = w.handled \cup (@ \ frozen)]
<1>1. Keeps(w, w)
  BY DEF Keeps
<1>2. Keeps(w, y)
  BY HandledKeeps
<1> HIDE DEF y
<1>3. Keeps(y, z)
  <2>1. Keeps(y, y) /\ Keeps(y, HandleValue(y, task.value))
    BY <1>2, HandleValueKeeps DEF Keeps
  <2> QED
    BY <2>1 DEF FinalizeAssigned
<1> HIDE DEF z
<1>4. Keeps(z, x)
  <2> DEFINE s == w.handled \cup (z.handled \ frozen)
  <2>1. IsWorld(z)
    BY <1>3 DEF Keeps
  <2>2. x = [z EXCEPT !.handled = s]
    BY <2>1 DEF IsWorld
  <2> HIDE DEF s, x
  <2> QED
    BY <2>1, <2>2, HandledKeeps
<1> HIDE DEF x
<1>5. Keeps(w, x)
  BY <1>2, <1>3, <1>4, KeepsTwice
<1>6. FinalizeTask(w, p, task) = IF Cardinality(DraftsOf(p)) = 1 THEN w ELSE x
  BY DEF FinalizeTask, x, y, z
<1> QED
  BY <1>1, <1>5, <1>6

\* One turn of the loop over the tasks of producer p.
TaskDone(w, p, task) == IF task.kind = "node" THEN FinalizeNode(w, p, task.draft)
                        ELSE FinalizeTask(w, p, task)

\* The worlds after each number of turns, from the end of a list.
Loop(p, list, f) ==
    f = [n \in 0 .. Len(list) |->
            IF n = 0 THEN W(p) ELSE TaskDone(f[n - 1], p, list[Len(list) + 1 - n])]

\* There are such worlds: those up to some turn give those up to the next.
LEMMA LoopRuns ==
    ASSUME NEW p, NEW list, Len(list) \in Nat
    PROVE  \E f : Loop(p, list, f)
<1> DEFINE all     == Len(list)
           turn(w, n) == TaskDone(w, p, list[all + 1 - n])
           E(f, m) == f = [n \in 0 .. m |-> IF n = 0 THEN W(p) ELSE turn(f[n - 1], n)]
           T       == {m \in Nat : \E f : E(f, m)}
<1> HIDE DEF turn
<1>1. 0 \in T
  <2> DEFINE f == [n \in 0 .. 0 |-> W(p)]
  <2>1. \A n \in 0 .. 0 : n = 0
    OBVIOUS
  <2>2. E(f, 0)
    BY <2>1
  <2> QED
    BY <2>2
<1>2. ASSUME NEW m \in Nat, m \in T PROVE m + 1 \in T
  <2>1. PICK f : E(f, m)
    BY <1>2
  <2> DEFINE next == turn(f[m], m + 1)
             g == [n \in 0 .. m + 1 |-> IF n = m + 1 THEN next ELSE f[n]]
             h == [n \in 0 .. m + 1 |-> IF n = 0 THEN W(p) ELSE turn(g[n - 1], n)]
  <2>2. ASSUME NEW n \in 0 .. m + 1
        PROVE  g[n] = IF n = 0 THEN W(p) ELSE turn(g[n - 1], n)
    <3>1. CASE n = m + 1
      <4>1. g[n] = next /\ n # 0 /\ n - 1 = m /\ m \in 0 .. m + 1 /\ m # m + 1
        BY <3>1
      <4>2. g[n - 1] = f[m]
        BY <4>1
      <4> QED
        BY <3>1, <4>1, <4>2
    <3>2. CASE n # m + 1
      <4>1. n \in 0 .. m /\ g[n] = f[n]
        BY <3>2
      <4>2. f[n] = IF n = 0 THEN W(p) ELSE turn(f[n - 1], n)
        BY <2>1, <4>1
      <4>3. ASSUME n # 0 PROVE g[n - 1] = f[n - 1]
        BY <3>2, <4>3
      <4> QED
        BY <4>1, <4>2, <4>3
    <3> QED
      BY <3>1, <3>2
  <2>3. g = h
    <3> HIDE DEF next
    <3>1. \A n \in 0 .. m + 1 : g[n] = h[n]
      BY <2>2
    <3> QED
      BY <3>1
  <2>4. E(g, m + 1)
    BY <2>3
  <2> HIDE DEF g, h, E
  <2> QED
    BY <2>4
<1> HIDE DEF T
<1>3. all \in T
  BY <1>1, <1>2, SetInduction
<1> QED
  BY <1>3 DEF T, Loop, turn

\* The loop of producer p finalizes no draft of another producer.
LEMMA FinalizedTurns ==
    ASSUME NEW p, IsWorld(W(p)), DraftsOf(p) \subseteq DOMAIN drafts,
           \A i \in DOMAIN tasks[p] :
              tasks[p][i].kind = "node" => tasks[p][i].draft \in DraftsOf(p)
    PROVE  Turns(W(p), Finalized(p), DraftsOf(p))
<1> DEFINE D     == DraftsOf(p)
           list  == tasks[p]
           all   == Len(list)
           after == CHOOSE f : Loop(p, list, f)
           T     == {n \in Nat : n <= all => Turns(W(p), after[n], D)}
<1>1. all \in Nat /\ DOMAIN list = 1 .. all
  BY ListParts DEF IsWorld, W
<1>2. Loop(p, list, after)
  BY <1>1, LoopRuns
<1>3. Finalized(p) = IF drafts[RootOf(p)].operated THEN after[all] ELSE W(p)
  BY DEF Finalized, Loop, TaskDone
<1> HIDE DEF after
<1>4. Turns(W(p), W(p), D)
  BY DEF Turns
<1>5. 0 \in T
  BY <1>1, <1>2, <1>4 DEF Loop
<1>6. ASSUME NEW n \in Nat, n \in T PROVE n + 1 \in T
  <2> SUFFICES ASSUME n + 1 <= all PROVE Turns(W(p), after[n + 1], D)
    OBVIOUS
  <2> DEFINE i == all + 1 - (n + 1)
             w == after[n]
             task == list[i]
  <2>1. n <= all /\ n + 1 \in 0 .. all /\ n + 1 # 0 /\ n + 1 - 1 = n /\ i \in 1 .. all
    <3>1. all \in Nat /\ n + 1 <= all
      BY <1>1
    <3> HIDE DEF all
    <3> QED
      BY <3>1
  <2>2. Turns(W(p), w, D)
    BY <1>6, <2>1
  <2>3. after[n + 1] = TaskDone(w, p, task)
    BY <1>2, <2>1 DEF Loop
  <2>4. task.kind = "node" => task.draft \in D /\ task.draft \in DOMAIN drafts
    BY <1>1, <2>1
  <2> HIDE DEF w, i, D
  <2>5. IsWorld(w) /\ DOMAIN w.drafts = DOMAIN drafts
    BY <2>2 DEF Turns, W
  <2> HIDE DEF task
  <2>6. Turns(w, TaskDone(w, p, task), D)
    <3>1. CASE task.kind = "node"
      BY <2>4, <2>5, <3>1, FinalizeNodeTurns DEF TaskDone
    <3>2. CASE task.kind # "node"
      BY <2>5, <3>2, FinalizeTaskKeeps, KeepsTurns DEF TaskDone
    <3> QED
      BY <3>1, <3>2
  <2> QED
    BY <2>2, <2>3, <2>6, TurnsTwice
<1> HIDE DEF T
<1>7. all \in T
  BY <1>1, <1>5, <1>6, SetInduction
<1>8. Turns(W(p), after[all], D)
  BY <1>1, <1>7 DEF T
<1> QED
  BY <1>3, <1>4, <1>8

-----------------------------------------------------------------------------
(***************************************************************************)
(* The steps.                                                              *)
(***************************************************************************)

\* A recipe that changes a draft of p.
LEMMA RecipeKeeps ==
    ASSUME NInv, NEW p \in Producer, NEW w, Keeps(W(p), w), Become(p, w),
           UNCHANGED <<owner, running, ended, results>>
    PROVE  NInv'
<1>1. /\ IsWorld(w) /\ drafts' = w.drafts /\ heap' = w.heap
      /\ DOMAIN w.drafts = DOMAIN drafts /\ Len(w.drafts) = Len(drafts)
      /\ \A e \in DOMAIN drafts : w.drafts[e].finalized = drafts[e].finalized
      /\ \A i \in DOMAIN w.tasks : w.tasks[i].kind = "node" =>
            \E j \in DOMAIN tasks[p] : tasks[p][j] = w.tasks[i]
  BY DEF Become, Keeps, W
<1>2. /\ DOMAIN tasks' = Producer /\ DOMAIN handled' = Producer
      /\ tasks'[p] = w.tasks
      /\ \A q \in Producer : q # p => tasks'[q] = tasks[q]
  BY DEF Become, NInv
<1>3. \A q \in Producer : IsWorld(W(q))'
  BY <1>1, <1>2 DEF NInv, IsWorld, W
<1>4. \A q \in Producer : \A i \in DOMAIN tasks'[q] :
         tasks'[q][i].kind = "node" =>
            /\ tasks'[q][i].draft \in DOMAIN drafts'
            /\ owner'[tasks'[q][i].draft] = q
  BY <1>1, <1>2 DEF NInv
<1>5. RunningUnfinalized'
  BY <1>1 DEF NInv, RunningUnfinalized, Usable
<1> QED
  BY <1>1, <1>2, <1>3, <1>4, <1>5 DEF NInv

\* A new draft of p, whose recipe runs or starts.
LEMMA RecipeAdds ==
    ASSUME NInv, NEW p \in Producer, NEW w, Adds(W(p), w), Become(p, w),
           owner' = Append(owner, p), ended' = ended, results' = results,
           \/ running' = running /\ p \in Range(running)
           \/ running' = Append(running, p) /\ p \notin Range(running) \cup ended
    PROVE  NInv'
<1> DEFINE n == Len(drafts) + 1
<1>1. /\ IsWorld(w) /\ drafts' = w.drafts /\ heap' = w.heap
      /\ DOMAIN w.drafts = DOMAIN drafts \cup {n} /\ Len(w.drafts) = n
      /\ \A e \in DOMAIN drafts : w.drafts[e].finalized = drafts[e].finalized
      /\ ~w.drafts[n].finalized
      /\ \A i \in DOMAIN w.tasks : w.tasks[i].kind = "node" =>
            \/ w.tasks[i].draft = n
            \/ \E j \in DOMAIN tasks[p] : tasks[p][j] = w.tasks[i]
  BY DEF Become, Adds, W
<1>2. /\ DOMAIN tasks' = Producer /\ DOMAIN handled' = Producer
      /\ tasks'[p] = w.tasks
      /\ \A q \in Producer : q # p => tasks'[q] = tasks[q]
  BY DEF Become, NInv
<1>3. /\ Len(drafts) \in Nat /\ DOMAIN drafts = 1 .. Len(drafts)
  <2>1. Listed(drafts)
    BY DEF NInv, IsWorld, W
  <2> QED
    BY <2>1, ListParts
<1>4. /\ owner' \in Seq(Producer) /\ Len(owner') = n
      /\ \A e \in DOMAIN drafts : owner'[e] = owner[e]
      /\ owner'[n] = p
  <2>1. owner \in Seq(Producer) /\ Len(owner) = Len(drafts)
    BY DEF NInv
  <2> QED
    BY <1>3, <2>1, AppendProperties
<1>5. /\ running' \in Seq(Producer)
      /\ \A i, j \in DOMAIN running' : running'[i] = running'[j] => i = j
      /\ \A q : q \in Range(running') <=> q \in Range(running) \cup {p}
  <2>1. /\ running \in Seq(Producer)
        /\ \A i, j \in DOMAIN running : running[i] = running[j] => i = j
    BY DEF NInv
  <2>2. CASE running' = running /\ p \in Range(running)
    BY <2>1, <2>2
  <2>3. CASE running' = Append(running, p) /\ p \notin Range(running) \cup ended
    <3>1. /\ Len(running) \in Nat /\ DOMAIN running = 1 .. Len(running)
          /\ running' \in Seq(Producer) /\ Len(running') = Len(running) + 1
          /\ DOMAIN running' = 1 .. Len(running) + 1
          /\ \A i \in 1 .. Len(running) : running'[i] = running[i]
          /\ running'[Len(running) + 1] = p
      BY <2>1, <2>3, AppendProperties, LenProperties
    <3>2. \A i \in DOMAIN running : running[i] # p
      BY <2>3 DEF Range
    <3>3. \A i, j \in DOMAIN running' : running'[i] = running'[j] => i = j
      BY <2>1, <3>1, <3>2
    <3>4. \A q : q \in Range(running') <=> q \in Range(running) \cup {p}
      BY <3>1 DEF Range
    <3> QED
      BY <3>1, <3>3, <3>4
  <2> QED
    BY <2>2, <2>3
<1>6. \A q \in Producer : IsWorld(W(q))'
  BY <1>1, <1>2 DEF NInv, IsWorld, W
<1>7. \A q \in Producer : \A i \in DOMAIN tasks'[q] :
         tasks'[q][i].kind = "node" =>
            /\ tasks'[q][i].draft \in DOMAIN drafts'
            /\ owner'[tasks'[q][i].draft] = q
  <2> SUFFICES ASSUME NEW q \in Producer, NEW i \in DOMAIN tasks'[q],
                      tasks'[q][i].kind = "node"
               PROVE  /\ tasks'[q][i].draft \in DOMAIN drafts'
                      /\ owner'[tasks'[q][i].draft] = q
    OBVIOUS
  <2>1. \/ q = p /\ tasks'[q][i].draft = n
        \/ \E j \in DOMAIN tasks[q] : tasks[q][j] = tasks'[q][i]
    BY <1>1, <1>2
  <2> QED
    BY <1>1, <1>4, <2>1 DEF NInv
<1>8. \A d \in DOMAIN drafts' : owner'[d] \in Range(running') \cup ended'
  BY <1>1, <1>4, <1>5 DEF NInv
<1>9. RunningUnfinalized'
  <2> SUFFICES ASSUME NEW d \in DOMAIN drafts', owner'[d] \in Range(running')
               PROVE  ~drafts'[d].finalized
    BY DEF RunningUnfinalized, Usable
  <2>1. CASE d = n
    BY <1>1, <2>1
  <2>2. CASE d # n
    <3>1. d \in DOMAIN drafts /\ owner'[d] = owner[d]
      BY <1>1, <1>4, <2>2
    <3>2. owner[d] \in Range(running)
      <4>1. CASE running' = running
        BY <3>1, <4>1
      <4>2. CASE p \notin Range(running) \cup ended
        BY <1>5, <3>1, <4>2 DEF NInv
      <4> QED
        BY <4>1, <4>2
    <3> QED
      BY <1>1, <3>1, <3>2 DEF NInv, RunningUnfinalized, Usable
  <2> QED
    BY <2>1, <2>2
<1> QED
  BY <1>1, <1>2, <1>4, <1>5, <1>6, <1>7, <1>8, <1>9 DEF NInv

\* The innermost recipe is one of a producer.
LEMMA InnermostRuns ==
    ASSUME NInv, running # <<>>
    PROVE  Innermost \in Producer
<1>1. running \in Seq(Producer)
  BY DEF NInv
<1> QED
  BY <1>1, EmptySeq, LenProperties, ElementOfSeq DEF Innermost, Last

\* The innermost recipe ends: it is out of the list, and of all drafts only its
\* own may have turned final.
LEMMA InnermostEnds ==
    ASSUME NInv, running # <<>>, running' = Front(running),
           ended' = ended \cup {Innermost}, owner' = owner,
           \A q \in Producer : IsWorld(W(q))',
           DOMAIN tasks' = Producer, DOMAIN handled' = Producer,
           Len(drafts') = Len(drafts), DOMAIN drafts' = DOMAIN drafts,
           \A d \in DOMAIN drafts \ DraftsOf(Innermost) :
              drafts'[d].finalized = drafts[d].finalized,
           \A q \in Producer : tasks'[q] = tasks[q] \/ tasks'[q] = <<>>,
           DOMAIN results' = Producer,
           \A q \in Producer : ~IsDraft(results'[q])
    PROVE  NInv'
<1> DEFINE p == Innermost
           n == Len(running)
<1>1. /\ running \in Seq(Producer)
      /\ \A i, j \in DOMAIN running : running[i] = running[j] => i = j
  BY DEF NInv
<1>2. /\ n \in Nat /\ n # 0 /\ DOMAIN running = 1 .. n
      /\ p = running[n] /\ n \in DOMAIN running
  BY <1>1, EmptySeq, LenProperties DEF Innermost, Last
<1>3. /\ running' \in Seq(Producer) /\ DOMAIN running' = 1 .. n - 1
      /\ \A i \in 1 .. n - 1 : running'[i] = running[i]
  BY <1>1, <1>2, LenProperties DEF Front
<1>4. \A q : q \in Range(running') <=> q \in Range(running) /\ q # p
  BY <1>1, <1>2, <1>3 DEF Range
<1>5. \A i, j \in DOMAIN running' : running'[i] = running'[j] => i = j
  BY <1>1, <1>2, <1>3
<1>6. \A q \in Producer : \A i \in DOMAIN tasks'[q] :
         tasks'[q][i].kind = "node" =>
            /\ tasks'[q][i].draft \in DOMAIN drafts'
            /\ owner'[tasks'[q][i].draft] = q
  BY DEF NInv
<1>7. \A d \in DOMAIN drafts' : owner'[d] \in Range(running') \cup ended'
  <2> SUFFICES ASSUME NEW d \in DOMAIN drafts
               PROVE  owner[d] \in Range(running') \cup ended'
    OBVIOUS
  <2>1. owner[d] \in Range(running) \cup ended
    BY DEF NInv
  <2> QED
    BY <2>1, <1>4
<1>8. RunningUnfinalized'
  <2> SUFFICES ASSUME NEW d \in DOMAIN drafts, owner[d] \in Range(running')
               PROVE  ~drafts'[d].finalized
    BY DEF RunningUnfinalized, Usable
  <2>1. owner[d] # p /\ owner[d] \in Range(running)
    BY <1>4
  <2>2. ~drafts[d].finalized
    BY <2>1 DEF NInv, RunningUnfinalized, Usable
  <2> QED
    BY <2>1, <2>2 DEF DraftsOf
<1>9. ended' \subseteq Producer
  BY InnermostRuns DEF NInv
<1> QED
  BY <1>3, <1>5, <1>6, <1>7, <1>8, <1>9 DEF NInv

\* Assignable values lead only to drafts there are.
LEMMA AssignableDrafts ==
    ASSUME NInv, NEW p, NEW v \in Assignable(p), IsDraft(v)
    PROVE  v.id \in DOMAIN drafts
<1>1. v \notin PrimValues
  BY DEF PrimValues, Prim, IsDraft
<1>2. v \notin {results[q] : q \in ended}
  BY DEF NInv
<1> QED
  BY <1>1, <1>2 DEF Assignable, Draft

-----------------------------------------------------------------------------
(***************************************************************************)
(* The invariant.                                                          *)
(***************************************************************************)

\* At first there is no draft.
LEMMA InitNested ==
    Init => NInv
<1> SUFFICES ASSUME Init PROVE NInv
  OBVIOUS
<1>1. Roots \in Seq(Nat)
  BY NestedAssumption
<1>2. Listed(<<>>) /\ DOMAIN <<>> = {} /\ Len(<<>>) = 0
  <2>1. <<>> \in Seq({})
    BY EmptySeq
  <2> QED
    BY <2>1, EmptySeq, LenProperties DEF Listed
<1>3. \A q \in Producer : IsWorld(W(q))
  BY <1>2 DEF Init, IsWorld, W
<1>4. <<>> \in Seq(Producer)
  BY EmptySeq
<1>5. ~IsDraft(Absent)
  BY DEF IsDraft, Absent
<1> QED
  BY <1>2, <1>3, <1>4, <1>5 DEF Init, NInv, RunningUnfinalized

\* A producer of a draft that can be used.
LEMMA UsableOwner ==
    ASSUME NInv, NEW d \in DOMAIN drafts
    PROVE  /\ owner[d] \in Producer /\ IsWorld(W(owner[d]))
           /\ d \in DOMAIN W(owner[d]).drafts
<1>1. owner \in Seq(Producer) /\ Len(owner) = Len(drafts)
  BY DEF NInv
<1>2. d \in 1 .. Len(owner)
  <2>1. Roots \in Seq(Nat) /\ 1 \in Producer
    BY NestedAssumption, EmptySeq, LenProperties DEF Producer
  <2>2. Listed(drafts)
    BY <2>1 DEF NInv, IsWorld, W
  <2> QED
    BY <1>1, <2>2, ListParts
<1>3. owner[d] \in Producer
  BY <1>1, <1>2, ElementOfSeq
<1> QED
  BY <1>3 DEF NInv, W

\* create() gives a producer that did not run yet its root draft.
LEMMA StartAdds ==
    ASSUME NInv, NEW p \in Producer, Start(p)
    PROVE  NInv'
<1> DEFINE w == CreateDraft(W(p), Roots[p], Null, NoKey)
<1>1. Adds(W(p), w)
  BY CreateDraftAdds DEF NInv
<1>2. /\ Become(p, w) /\ owner' = Append(owner, p) /\ ended' = ended
      /\ results' = results /\ running' = Append(running, p)
      /\ p \notin Range(running) \cup ended
  BY DEF Start
<1> HIDE DEF w
<1> QED
  BY <1>1, <1>2, RecipeAdds

\* A read gives the producer of the parent a draft, and a node in its list.
LEMMA GetAdds ==
    ASSUME NInv, NEW d \in DOMAIN drafts, Usable(d), NEW k \in Keys, Get(d, k)
    PROVE  NInv'
<1> DEFINE p == owner[d]
           w == DraftChild(W(p), d, k)
<1>1. p \in Producer /\ IsWorld(W(p)) /\ d \in DOMAIN W(p).drafts
  BY UsableOwner
<1>2. /\ Become(p, w) /\ owner' = Append(owner, p) /\ ended' = ended
      /\ results' = results /\ running' = running /\ p \in Range(running)
  BY DEF Get, Usable
<1> HIDE DEF p
<1>3. Adds(W(p), w)
  BY <1>1, DraftChildAdds
<1> HIDE DEF w
<1> QED
  BY <1>1, <1>2, <1>3, RecipeAdds

\* An assignment, be it of a draft of another producer, queues no node.
LEMMA SetKeeps ==
    ASSUME NInv, NEW d \in DOMAIN drafts, NEW k \in Keys,
           NEW v \in Assignable(owner[d]), Set(d, k, v)
    PROVE  NInv'
<1> DEFINE p    == owner[d]
           w0   == EnsureShallowCopy(W(p), d)
           w    == MarkChanged(w0, d)
           same == HasOwn(Original(w, d), k) /\ v = Read(Original(w, d), k)
           flag == IF same THEN "none" ELSE "set"
           w1   == Assigned(w, d, k, flag)
           w2   == Put(w1, d, k, v)
           w3   == MarkFinalization(w2, d, k, v)
<1>1. p \in Producer /\ IsWorld(W(p)) /\ d \in DOMAIN W(p).drafts
  BY UsableOwner
<1>2. Become(p, w3) /\ UNCHANGED <<owner, running, ended, results>>
  BY DEF Set
<1>3. IsDraft(v) => v.id \in DOMAIN W(p).drafts
  BY AssignableDrafts DEF W
<1> HIDE DEF p
<1>4. Keeps(W(p), w0)
  BY <1>1, EnsureShallowCopyKeeps
<1> HIDE DEF w0
<1>5. Keeps(w0, w)
  BY <1>4, MarkChangedKeeps DEF Keeps
<1> HIDE DEF w, flag
<1>6. Keeps(w, w1)
  BY <1>1, <1>4, <1>5, AssignedKeeps DEF Keeps
<1> HIDE DEF w1
<1>7. Keeps(w1, w2)
  BY <1>6, PutKeeps DEF Keeps
<1> HIDE DEF w2
<1>8. Keeps(w2, w3)
  <2>1. IsWorld(w2) /\ (IsDraft(v) => v.id \in DOMAIN w2.drafts)
    BY <1>3, <1>4, <1>5, <1>6, <1>7 DEF Keeps
  <2> QED
    BY <2>1, MarkFinalizationKeeps
<1> HIDE DEF w3
<1>9. Keeps(W(p), w3)
  BY <1>4, <1>5, <1>6, <1>7, <1>8, KeepsTwice
<1> QED
  BY <1>1, <1>2, <1>9, RecipeKeeps

\* A recipe that throws finalizes none.
LEMMA FailEnds ==
    ASSUME NInv, Fail
    PROVE  NInv'
<1>1. /\ running # <<>> /\ running' = Front(running)
      /\ ended' = ended \cup {Innermost}
      /\ heap' = heap /\ drafts' = drafts /\ owner' = owner /\ tasks' = tasks
      /\ handled' = handled /\ results' = results
  BY DEF Fail
<1>2. \A q \in Producer : IsWorld(W(q))'
  BY <1>1 DEF NInv, IsWorld, W
<1> QED
  BY <1>1, <1>2, InnermostRuns, InnermostEnds DEF NInv

\* A recipe that returns finalizes drafts of its own, which nobody uses any more.
LEMMA ReturnEnds ==
    ASSUME NInv, Return
    PROVE  NInv'
<1> DEFINE p == Innermost
           z == Finalized(p)
           w == [z EXCEPT !.tasks = <<>>]
           v == Final(w, RootOf(p))
<1>1. /\ running # <<>> /\ running' = Front(running)
      /\ ended' = ended \cup {p} /\ owner' = owner
      /\ Become(p, w) /\ results' = [results EXCEPT ![p] = v]
  BY DEF Return
<1>2. p \in Producer
  BY <1>1, InnermostRuns
<1>3. ~IsDraft(v)
  BY DEF Final, Obj, IsDraft
<1>4. Turns(W(p), z, DraftsOf(p))
  <2>1. \A i \in DOMAIN tasks[p] :
           tasks[p][i].kind = "node" => tasks[p][i].draft \in DraftsOf(p)
    BY <1>2 DEF NInv, DraftsOf
  <2>2. DraftsOf(p) \subseteq DOMAIN drafts /\ IsWorld(W(p))
    BY <1>2 DEF NInv, DraftsOf
  <2> QED
    BY <2>1, <2>2, FinalizedTurns
<1> HIDE DEF z, v
<1>5. Listed(<<>>) /\ DOMAIN <<>> = {}
  <2>1. <<>> \in Seq({})
    BY EmptySeq
  <2> QED
    BY <2>1, EmptySeq DEF Listed
<1>6. /\ IsWorld(w) /\ w.drafts = z.drafts /\ w.tasks = <<>>
      /\ DOMAIN z.drafts = DOMAIN drafts /\ Len(z.drafts) = Len(drafts)
      /\ \A e \in DOMAIN drafts \ DraftsOf(p) :
            z.drafts[e].finalized = drafts[e].finalized
  BY <1>4, <1>5 DEF Turns, IsWorld, W
<1> HIDE DEF w
<1>7. /\ drafts' = w.drafts /\ heap' = w.heap
      /\ DOMAIN tasks' = Producer /\ DOMAIN handled' = Producer
      /\ tasks'[p] = <<>>
      /\ \A q \in Producer : q # p => tasks'[q] = tasks[q]
  BY <1>1, <1>2, <1>6 DEF Become, NInv
<1>8. \A q \in Producer : IsWorld(W(q))'
  BY <1>5, <1>6, <1>7 DEF NInv, IsWorld, W
<1>9. /\ DOMAIN results' = Producer
      /\ \A q \in Producer : ~IsDraft(results'[q])
  BY <1>1, <1>2, <1>3 DEF NInv
<1>10. \A q \in Producer : tasks'[q] = tasks[q] \/ tasks'[q] = <<>>
  BY <1>7
<1>11. /\ Len(drafts') = Len(drafts) /\ DOMAIN drafts' = DOMAIN drafts
       /\ \A e \in DOMAIN drafts \ DraftsOf(p) :
             drafts'[e].finalized = drafts[e].finalized
  BY <1>6, <1>7
<1> HIDE DEF p
<1>12. p = Innermost
  BY DEF p
<1> QED
  BY <1>1, <1>2, <1>7, <1>8, <1>9, <1>10, <1>11, <1>12, InnermostEnds

\* Every step keeps the invariant.
LEMMA NextNested ==
    NInv /\ [Next]_vars => NInv'
<1> SUFFICES ASSUME NInv, [Next]_vars PROVE NInv'
  OBVIOUS
<1>1. ASSUME NEW p \in Producer, Start(p) PROVE NInv'
  BY <1>1, StartAdds
<1>2. ASSUME NEW d \in DOMAIN drafts, Usable(d), NEW k \in Keys, Get(d, k)
      PROVE  NInv'
  BY <1>2, GetAdds
<1>3. ASSUME NEW d \in DOMAIN drafts, Usable(d), NEW k \in Keys,
             NEW v \in Assignable(owner[d]), Set(d, k, v)
      PROVE  NInv'
  BY <1>3, SetKeeps
<1>4. CASE Fail
  BY <1>4, FailEnds
<1>5. CASE Return
  BY <1>5, ReturnEnds
<1>6. CASE UNCHANGED vars
  BY <1>6 DEF vars, NInv, IsWorld, W, RunningUnfinalized, Usable
<1> QED
  BY <1>1, <1>2, <1>3, <1>4, <1>5, <1>6 DEF Next

\* Every node stands in the list of the producer of its draft, which runs or
\* ended, in every reachable state, whatever the base states, the number of
\* producers and the depth at which they run within each other.
THEOREM ProducersOwnTheirNodes == Spec => []NInv
<1>1. Init => NInv
  BY InitNested
<1>2. NInv /\ [Next]_vars => NInv'
  BY NextNested
<1> QED
  BY <1>1, <1>2, PTL DEF Spec

\* finalizeDraft() of an inner producer never finalizes a draft whose own
\* recipe still runs.
THEOREM InnerEndsFinalizeOwn == Spec => []RunningUnfinalized
<1>1. NInv => RunningUnfinalized
  BY DEF NInv
<1> QED
  BY <1>1, ProducersOwnTheirNodes, PTL
=============================================================================
