--------------------------- MODULE UnchangedProofs ---------------------------
(***************************************************************************)
(* A draft that is not marked as changed reads as its original.  The copy  *)
(* that a read or a restoring assignment gave it holds what the original   *)
(* holds, or a draft of that which was read through it; and such a draft   *)
(* is unchanged too, as a change is marked up to the root.                 *)
(***************************************************************************)
EXTENDS DraftsProofs, WellFoundedInduction

-----------------------------------------------------------------------------
(***************************************************************************)
(* What the recursive definitions on trees compute.  Induction over the    *)
(* natural numbers comes from the least element of a set of numbers;       *)
(* a function that is defined by recursion over the paths exists, and      *)
(* satisfies its equation, by induction over the length of the paths.      *)
(***************************************************************************)

\* A set of numbers has a least element.
LEMMA NatLeast ==
    ASSUME NEW T, T \subseteq Nat, T # {}
    PROVE  \E n \in T : \A m \in T : n <= m
<1> DEFINE R == OpToRel(<, Nat)
<1>1. IsWellFoundedOn(R, Nat)
  BY NatLessThanWellFounded
<1>2. \A m, n \in Nat : m < n => <<m, n>> \in R
  BY DEF R, OpToRel
<1> HIDE DEF R
<1>3. PICK n \in T : \A m \in T : <<m, n>> \notin R
  BY <1>1, WFMin
<1>4. \A m \in T : m \in Nat /\ n \in Nat /\ ~(m < n)
  BY <1>2, <1>3
<1>5. \A m \in T : n <= m
  BY <1>4
<1> QED
  BY <1>5

\* What holds for 0, and for the next number of each it holds for, holds for all.
LEMMA SetInduction ==
    ASSUME NEW S, 0 \in S, \A n \in Nat : n \in S => n + 1 \in S
    PROVE  Nat \subseteq S
<1> SUFFICES ASSUME NEW k \in Nat, k \notin S PROVE FALSE
  OBVIOUS
<1>1. PICK n \in Nat \ S : \A m \in Nat \ S : n <= m
  BY NatLeast
<1>2. n # 0 /\ n - 1 \in Nat /\ n - 1 + 1 = n
  BY <1>1
<1>3. n - 1 \in S
  BY <1>1, <1>2
<1> QED
  BY <1>1, <1>2, <1>3

\* A path is a sequence of keys within the bound.
LEMMA PathParts ==
    ASSUME NEW p \in Paths
    PROVE  /\ Len(p) \in 0 .. MaxDepth
           /\ p \in [1 .. Len(p) -> Keys]
           /\ p \in Seq(Keys)
           /\ p = <<>> <=> Len(p) = 0
<1>1. PICK m \in 0 .. MaxDepth : p \in [1 .. m -> Keys]
  BY DataAssumption DEF Paths, BoundedSeq, SeqOf
<1>2. p \in Seq(Keys)
  BY <1>1, SeqDef, DataAssumption
<1>3. Len(p) = m
  BY <1>1, <1>2, LenProperties, DataAssumption
<1> QED
  BY <1>1, <1>2, <1>3, EmptySeq, LenProperties

\* The empty path is one.
LEMMA EmptyPath == <<>> \in Paths
<1>1. <<>> \in [1 .. 0 -> Keys]
  BY EmptySeq, LenProperties
<1> QED
  BY <1>1, DataAssumption DEF Paths, BoundedSeq, SeqOf

\* A path with a key is one with a key less, and a last key.
LEMMA FrontPath ==
    ASSUME NEW p \in Paths, p # <<>>
    PROVE  /\ Front(p) \in Paths
           /\ Len(Front(p)) = Len(p) - 1
           /\ Last(p) \in Keys
<1>1. /\ Len(p) \in 1 .. MaxDepth /\ p \in [1 .. Len(p) -> Keys] /\ p \in Seq(Keys)
  BY PathParts, DataAssumption
<1>2. /\ SubSeq(p, 1, Len(p) - 1) \in Seq(Keys)
      /\ Len(SubSeq(p, 1, Len(p) - 1)) = Len(p) - 1
  BY <1>1, SubSeqProperties, DataAssumption
<1>3. SubSeq(p, 1, Len(p) - 1) \in [1 .. Len(p) - 1 -> Keys]
  BY <1>2, LenProperties
<1>4. Len(p) - 1 \in 0 .. MaxDepth
  BY <1>1, DataAssumption
<1>5. Front(p) \in Paths
  BY <1>3, <1>4 DEF Front, Paths, BoundedSeq, SeqOf
<1>6. Last(p) \in Keys
  BY <1>1, DataAssumption DEF Last
<1> QED
  BY <1>2, <1>5, <1>6 DEF Front

\* Induction over paths: a set that holds the empty path, and each path whose
\* front it holds, holds all paths.
LEMMA PathInduction ==
    ASSUME NEW T, <<>> \in T,
           \A p \in Paths : p # <<>> /\ Front(p) \in T => p \in T
    PROVE  Paths \subseteq T
<1> DEFINE S == {n \in Nat : \A p \in Paths : Len(p) = n => p \in T}
<1>1. 0 \in S
  BY PathParts
<1>2. ASSUME NEW n \in Nat, n \in S PROVE n + 1 \in S
  <2> SUFFICES ASSUME NEW p \in Paths, Len(p) = n + 1 PROVE p \in T
    OBVIOUS
  <2>1. p # <<>>
    BY PathParts
  <2>2. Front(p) \in Paths /\ Len(Front(p)) = n
    BY <2>1, FrontPath
  <2> QED
    BY <1>2, <2>1, <2>2
<1> HIDE DEF S
<1>3. Nat \subseteq S
  BY <1>1, <1>2, SetInduction
<1> QED
  BY <1>3, PathParts DEF S

-----------------------------------------------------------------------------
\* Paths of a length up to n.
PathsTo(n) == {p \in Paths : Len(p) <= n}

\* The equation of a function f on paths: v at the empty path, and otherwise
\* what g makes of the value at the front and the last key.
Unfolds(f, D, v, g) ==
    f = [p \in D |-> IF p = <<>> THEN v ELSE g[f[Front(p)]][Last(p)]]

\* Recursion over paths: the equation has a solution.
LEMMA PathRecursion ==
    ASSUME NEW S, NEW v \in S, NEW g \in [S -> [Keys -> S]]
    PROVE  \E f \in [Paths -> S] : Unfolds(f, Paths, v, g)
<1> DEFINE N == {n \in Nat : \E f \in [PathsTo(n) -> S] : Unfolds(f, PathsTo(n), v, g)}
<1>0. \A p \in PathsTo(0) : p = <<>>
  BY PathParts DEF PathsTo
<1>1. 0 \in N
  <2> DEFINE f == [p \in PathsTo(0) |-> v]
  <2>1. f \in [PathsTo(0) -> S]
    OBVIOUS
  <2>2. Unfolds(f, PathsTo(0), v, g)
    BY <1>0 DEF Unfolds
  <2> QED
    BY <2>1, <2>2
<1>2. ASSUME NEW n \in Nat, n \in N PROVE n + 1 \in N
  <2>1. PICK f \in [PathsTo(n) -> S] : Unfolds(f, PathsTo(n), v, g)
    BY <1>2
  <2> DEFINE h == [p \in PathsTo(n + 1) |-> IF p = <<>> THEN v ELSE g[f[Front(p)]][Last(p)]]
  <2>2. \A p \in PathsTo(n + 1) : p # <<>> => Front(p) \in PathsTo(n) /\ Last(p) \in Keys
    BY FrontPath, PathParts DEF PathsTo
  <2>3. PathsTo(n) \subseteq PathsTo(n + 1)
    BY PathParts DEF PathsTo
  <2>4. \A p \in PathsTo(n) : f[p] = IF p = <<>> THEN v ELSE g[f[Front(p)]][Last(p)]
    BY <2>1 DEF Unfolds
  <2>5. h \in [PathsTo(n + 1) -> S]
    <3> SUFFICES ASSUME NEW p \in PathsTo(n + 1), p # <<>>
                 PROVE  g[f[Front(p)]][Last(p)] \in S
      OBVIOUS
    <3>1. f[Front(p)] \in S /\ Last(p) \in Keys
      BY <2>1, <2>2
    <3> QED
      BY <3>1
  <2>6. \A p \in PathsTo(n) : h[p] = f[p]
    BY <2>3, <2>4
  <2>7. \A p \in PathsTo(n + 1) :
           h[p] = IF p = <<>> THEN v ELSE g[h[Front(p)]][Last(p)]
    BY <2>2, <2>6
  <2> HIDE DEF h
  <2>8. Unfolds(h, PathsTo(n + 1), v, g)
    BY <2>5, <2>7 DEF Unfolds
  <2> QED
    BY <2>5, <2>8
<1> HIDE DEF N
<1>3. MaxDepth \in N
  BY <1>1, <1>2, SetInduction, DataAssumption
<1>4. PathsTo(MaxDepth) = Paths
  BY PathParts, DataAssumption DEF PathsTo
<1> QED
  BY <1>3, <1>4 DEF N

-----------------------------------------------------------------------------
\* References of a value or of what an object holds lead somewhere in a store.
Leads(store, v) == IsRef(v) => v \in DOMAIN store

Closed(store) == \A v \in DOMAIN store, k \in Keys : Leads(store, store[v].at[k])

\* What Walk finds: v under the empty path, and what is held at the last key of
\* what the front of the path leads to.
LEMMA WalkFinds ==
    ASSUME NEW store, Closed(store), NEW v, Leads(store, v)
    PROVE  /\ Walk(store, v)[<<>>] = v
           /\ \A p \in Paths : p # <<>> =>
                 Walk(store, v)[p] =
                    IF IsRef(Walk(store, v)[Front(p)])
                    THEN store[Walk(store, v)[Front(p)]].at[Last(p)] ELSE Absent
           /\ \A p \in Paths : Leads(store, Walk(store, v)[p])
<1> DEFINE step(u, k) == IF IsRef(u) THEN store[u].at[k] ELSE Absent
           S == {u \in {v, Absent} \cup UNION {{store[x].at[k] : k \in Keys} : x \in DOMAIN store} : Leads(store, u)}
           g == [u \in S |-> [k \in Keys |-> step(u, k)]]
           E(f) == f = [p \in Paths |-> IF p = <<>> THEN v ELSE step(f[Front(p)], Last(p))]
<1>1. v \in S
  OBVIOUS
<1>2. ~IsRef(Absent)
  BY DEF IsRef, IsDraft, IsObj, Absent
<1>3. g \in [S -> [Keys -> S]]
  <2> SUFFICES ASSUME NEW u \in S, NEW k \in Keys PROVE step(u, k) \in S
    OBVIOUS
  <2>1. CASE IsRef(u)
    BY <2>1 DEF Leads, Closed
  <2>2. CASE ~IsRef(u)
    BY <1>2, <2>2 DEF Leads
  <2> QED
    BY <2>1, <2>2
<1> HIDE DEF S
<1>4. \A u \in S, k \in Keys : g[u][k] = step(u, k)
  OBVIOUS
<1> HIDE DEF g, step
<1>5. PICK f \in [Paths -> S] : Unfolds(f, Paths, v, g)
  BY <1>1, <1>3, PathRecursion
<1>6. E(f)
  <2>1. \A p \in Paths : p # <<>> => g[f[Front(p)]][Last(p)] = step(f[Front(p)], Last(p))
    BY <1>4, <1>5, FrontPath
  <2> QED
    BY <1>5, <2>1 DEF Unfolds
<1>7. Walk(store, v) = CHOOSE h : E(h)
  BY DEF Walk, step
<1>8. E(Walk(store, v))
  BY <1>6, <1>7
<1> HIDE DEF E
<1>9. <<>> \in Paths
  BY EmptyPath
<1>10. Walk(store, v)[<<>>] = v
  BY <1>8, <1>9 DEF E
<1>11. \A p \in Paths : p # <<>> =>
          Walk(store, v)[p] = step(Walk(store, v)[Front(p)], Last(p))
  BY <1>8 DEF E
<1>12. Paths \subseteq {p \in Paths : Leads(store, Walk(store, v)[p])}
  <2> DEFINE T == {p \in Paths : Leads(store, Walk(store, v)[p])}
  <2>1. <<>> \in T
    BY <1>9, <1>10
  <2>2. ASSUME NEW p \in Paths, p # <<>>, Front(p) \in T PROVE p \in T
    <3>1. Leads(store, Walk(store, v)[Front(p)]) /\ Last(p) \in Keys
      BY <2>2, FrontPath
    <3>2. Leads(store, step(Walk(store, v)[Front(p)], Last(p)))
      BY <3>1, <1>2 DEF step, Leads, Closed
    <3> QED
      BY <1>11, <2>2, <3>2
  <2> HIDE DEF T
  <2>3. Paths \subseteq T
    BY <2>1, <2>2, PathInduction
  <2> QED
    BY <2>3 DEF T
<1> QED
  BY <1>10, <1>11, <1>12 DEF step

-----------------------------------------------------------------------------
\* The equation of a function f on the numbers up to n.
Iterates(f, n, v, g) == f = [i \in 0 .. n |-> IF i = 0 THEN v ELSE g[f[i - 1]]]

\* Recursion over numbers up to a bound: the equation has a solution.
LEMMA BoundedRecursion ==
    ASSUME NEW S, NEW v \in S, NEW g \in [S -> S], NEW n \in Nat
    PROVE  \E f \in [0 .. n -> S] : Iterates(f, n, v, g)
<1> DEFINE N == {m \in Nat : \E f \in [0 .. m -> S] : Iterates(f, m, v, g)}
<1>1. 0 \in N
  <2> DEFINE f == [i \in 0 .. 0 |-> v]
  <2>1. f \in [0 .. 0 -> S] /\ Iterates(f, 0, v, g)
    BY DEF Iterates
  <2> HIDE DEF f
  <2> QED
    BY <2>1
<1>2. ASSUME NEW m \in Nat, m \in N PROVE m + 1 \in N
  <2>1. PICK f \in [0 .. m -> S] : Iterates(f, m, v, g)
    BY <1>2
  <2> DEFINE h == [i \in 0 .. m + 1 |-> IF i = 0 THEN v ELSE g[f[i - 1]]]
  <2>2. h \in [0 .. m + 1 -> S]
    <3> SUFFICES ASSUME NEW i \in 0 .. m + 1, i # 0 PROVE g[f[i - 1]] \in S
      OBVIOUS
    <3>1. i - 1 \in 0 .. m
      OBVIOUS
    <3>2. f[i - 1] \in S
      BY <2>1, <3>1
    <3> QED
      BY <3>2
  <2>3. \A i \in 0 .. m : h[i] = f[i]
    BY <2>1 DEF Iterates
  <2>4. \A i \in 0 .. m + 1 : h[i] = IF i = 0 THEN v ELSE g[h[i - 1]]
    <3> SUFFICES ASSUME NEW i \in 0 .. m + 1, i # 0 PROVE h[i] = g[h[i - 1]]
      OBVIOUS
    <3>1. i - 1 \in 0 .. m
      OBVIOUS
    <3> QED
      BY <2>3, <3>1
  <2> HIDE DEF h
  <2>5. Iterates(h, m + 1, v, g)
    BY <2>2, <2>4 DEF Iterates
  <2>6. m + 1 \in Nat
    OBVIOUS
  <2> QED
    BY <2>2, <2>5, <2>6
<1> HIDE DEF N
<1>3. n \in N
  BY <1>1, <1>2, SetInduction
<1> QED
  BY <1>3 DEF N

\* References that all have a predecessor among themselves are found at every depth.
LEMMA BelowHolds ==
    ASSUME NEW store, Closed(store), \A v \in DOMAIN store : DOMAIN store[v].at = Keys,
           NEW P \in SUBSET DOMAIN store,
           \A u \in P : IsRef(u) /\ \E v \in P, k \in Keys : store[v].at[k] = u,
           NEW n \in Nat
    PROVE  P \subseteq Below(store, n)
<1> DEFINE next(X) == {u \in UNION {Range(store[v].at) : v \in X} : IsRef(u)}
           D == DOMAIN store
           S == SUBSET D
           g == [X \in S |-> next(X)]
           E(f) == f = [i \in 0 .. n |-> IF i = 0 THEN D ELSE next(f[i - 1])]
<1>1. ASSUME NEW X \in S PROVE next(X) \in S
  <2> SUFFICES ASSUME NEW v \in X, NEW u \in Range(store[v].at), IsRef(u)
               PROVE  u \in D
    OBVIOUS
  <2>1. v \in D
    BY <1>1
  <2>2. PICK k \in Keys : u = store[v].at[k]
    BY <2>1 DEF Range
  <2> QED
    BY <2>1, <2>2 DEF Closed, Leads
<1>2. ASSUME NEW X \in S, P \subseteq X PROVE P \subseteq next(X)
  <2> SUFFICES ASSUME NEW u \in P PROVE u \in next(X)
    OBVIOUS
  <2>1. PICK v \in P, k \in Keys : store[v].at[k] = u
    OBVIOUS
  <2>2. u \in Range(store[v].at)
    BY <2>1 DEF Range
  <2> QED
    BY <1>2, <2>1, <2>2
<1> HIDE DEF next
<1>3. g \in [S -> S] /\ D \in S /\ \A X \in S : g[X] = next(X)
  BY <1>1
<1> HIDE DEF g
<1>4. PICK f \in [0 .. n -> S] : Iterates(f, n, D, g)
  <2> HIDE DEF S, D
  <2> QED
    BY <1>3, BoundedRecursion
<1>5. \A i \in 0 .. n : f[i] = IF i = 0 THEN D ELSE next(f[i - 1])
  <2> SUFFICES ASSUME NEW i \in 0 .. n PROVE f[i] = IF i = 0 THEN D ELSE next(f[i - 1])
    OBVIOUS
  <2>1. f[i] = IF i = 0 THEN D ELSE g[f[i - 1]]
    BY <1>4 DEF Iterates
  <2>2. i # 0 => f[i - 1] \in S
    <3>1. i # 0 => i - 1 \in 0 .. n
      OBVIOUS
    <3> QED
      BY <1>4, <3>1
  <2> QED
    BY <1>3, <2>1, <2>2
<1> HIDE DEF S, D
<1>6. E(f)
  BY <1>4, <1>5
<1>7. Below(store, n) = (CHOOSE h : E(h))[n]
  BY DEF Below, next, D
<1> DEFINE level == CHOOSE h : E(h)
<1>8. E(level)
  BY <1>6
<1> HIDE DEF level, E
<1>9. /\ level[0] = D
      /\ \A i \in 1 .. n : level[i] = next(level[i - 1])
  BY <1>8 DEF E
<1> DEFINE T == {i \in Nat : i <= n => level[i] \in S /\ P \subseteq level[i]}
<1>10. 0 \in T
  BY <1>9 DEF S, D
<1>11. ASSUME NEW i \in Nat, i \in T PROVE i + 1 \in T
  <2> SUFFICES ASSUME i + 1 <= n
               PROVE  level[i + 1] \in S /\ P \subseteq level[i + 1]
    OBVIOUS
  <2>1. level[i] \in S /\ P \subseteq level[i]
    BY <1>11
  <2>2. level[i + 1] = next(level[i])
    <3>1. i + 1 \in 1 .. n /\ i + 1 - 1 = i
      OBVIOUS
    <3> QED
      BY <1>9, <3>1
  <2> QED
    BY <1>1, <1>2, <2>1, <2>2
<1> HIDE DEF T
<1>12. n \in T
  BY <1>10, <1>11, SetInduction
<1>13. P \subseteq level[n]
  BY <1>12 DEF T
<1> QED
  BY <1>7, <1>13 DEF level

-----------------------------------------------------------------------------
(***************************************************************************)
(* What an unchanged draft's copy holds.                                   *)
(***************************************************************************)

\* What the copy of draft d holds while d is not marked as changed.
LazyAt(w, d) ==
    ~Node(w, d).operated /\ Node(w, d).copy # Null =>
        /\ Copy(w, d).type = Original(w, d).type
        /\ \A k \in Keys :
              LET u == Copy(w, d).at[k]
              IN  \/ u = Original(w, d).at[k]
                  \/ /\ IsDraft(u)
                     /\ Node(w, u.id).parent = d
                     /\ Original(w, d).at[k] = Obj(Node(w, u.id).original)

Lazy(w) == \A d \in DraftIds(w) : LazyAt(w, d)

\* No two drafts share a copy.
Apart(w) ==
    \A d, e \in DraftIds(w) :
        d # e /\ Node(w, d).copy # Null => Node(w, d).copy # Node(w, e).copy

-----------------------------------------------------------------------------
(***************************************************************************)
(* Both are inductive.                                                     *)
(***************************************************************************)

\* The original is the same object throughout.
LEMMA OriginalStays ==
    ASSUME NEW w, NEW x, Sound(w), Sound(x), NEW d \in DraftIds(w),
           d \in DraftIds(x), Node(x, d).original = Node(w, d).original
    PROVE  Original(x, d) = Original(w, d)
BY DEF Sound, Kept, Original

\* A draft whose copy does not change stays lazy.
LEMMA LazyStays ==
    ASSUME NEW w, NEW x, Sound(w), Sound(x), NEW d \in DraftIds(w), LazyAt(w, d),
           \A e \in DraftIds(w) : /\ e \in DraftIds(x)
                                  /\ Node(x, e).original = Node(w, e).original
                                  /\ Node(x, e).parent = Node(w, e).parent,
           Node(w, d).operated => Node(x, d).operated,
           Node(x, d).copy = Node(w, d).copy,
           Node(w, d).copy # Null => Copy(x, d) = Copy(w, d)
    PROVE  LazyAt(x, d)
<1> SUFFICES ASSUME ~Node(x, d).operated, Node(x, d).copy # Null
             PROVE  /\ Copy(x, d).type = Original(x, d).type
                    /\ \A k \in Keys :
                          LET u == Copy(x, d).at[k]
                          IN  \/ u = Original(x, d).at[k]
                              \/ /\ IsDraft(u)
                                 /\ Node(x, u.id).parent = d
                                 /\ Original(x, d).at[k] = Obj(Node(x, u.id).original)
  BY DEF LazyAt
<1>1. Original(x, d) = Original(w, d)
  BY OriginalStays
<1>2. Copy(x, d) = Copy(w, d) /\ Node(w, d).copy # Null /\ ~Node(w, d).operated
  OBVIOUS
<1>3. Node(w, d).copy \in DOMAIN w.heap
  BY <1>2 DEF Sound, WorldOK
<1>4. \A k \in Keys : ExistsIn(w, Copy(w, d).at[k])
  BY <1>3 DEF Sound, WorldOK, Copy
<1>5. /\ Copy(w, d).type = Original(w, d).type
      /\ \A k \in Keys :
            LET u == Copy(w, d).at[k]
            IN  \/ u = Original(w, d).at[k]
                \/ /\ IsDraft(u)
                   /\ Node(w, u.id).parent = d
                   /\ Original(w, d).at[k] = Obj(Node(w, u.id).original)
  BY <1>2 DEF LazyAt
<1> QED
  BY <1>1, <1>2, <1>4, <1>5 DEF ExistsIn

\* A copy that is neither new nor written to holds what it did.
LEMMA OtherCopies ==
    ASSUME NEW w, NEW x, Sound(w), Apart(w), NEW d \in DraftIds(w),
           Node(w, d).copy # Null => Node(x, d).copy = Node(w, d).copy,
           CopyOnly(w, x, d), NEW e \in DraftIds(w), e # d, Node(w, e).copy # Null
    PROVE  /\ Node(x, e).copy = Node(w, e).copy /\ Copy(x, e) = Copy(w, e)
           /\ Node(x, d).copy # Node(w, e).copy
<1>1. Node(w, e).copy \in DOMAIN w.heap
  BY DEF Sound, WorldOK
<1>2. Node(x, d).copy # Node(w, e).copy
  BY <1>1 DEF Apart, CopyOnly
<1> QED
  BY <1>1, <1>2 DEF CopyOnly, Copy

\* What a draft reads, where its copy has just been made or is there.
LEMMA LatestLazy ==
    ASSUME NEW w, Sound(w), NEW d \in DraftIds(w), LazyAt(w, d), ~Node(w, d).operated
    PROVE  /\ Latest(w, d).type = Original(w, d).type
           /\ \A k \in Keys :
                 LET u == Latest(w, d).at[k]
                 IN  /\ ExistsIn(w, u)
                     /\ \/ u = Original(w, d).at[k]
                        \/ /\ IsDraft(u)
                           /\ Node(w, u.id).parent = d
                           /\ Original(w, d).at[k] = Obj(Node(w, u.id).original)
<1>1. LatestAddress(w, d) \in DOMAIN w.heap
  BY DEF Sound, WorldOK, LatestAddress
<1>2. \A k \in Keys : ExistsIn(w, Latest(w, d).at[k])
  BY <1>1 DEF Sound, WorldOK, Latest
<1>3. CASE Node(w, d).copy = Null
  BY <1>2, <1>3 DEF Latest, LatestAddress, Original
<1>4. CASE Node(w, d).copy # Null
  <2>1. Latest(w, d) = Copy(w, d)
    BY <1>4 DEF Latest, LatestAddress, Copy
  <2> QED
    BY <1>2, <1>4, <2>1 DEF LazyAt
<1> QED
  BY <1>3, <1>4

\* A write to a draft: if it leaves the draft unmarked, it restored the original.
LEMMA WroteLazy ==
    ASSUME NEW w, NEW x, Sound(w), Sound(x), Lazy(w), Apart(w),
           NEW d, NEW K, NEW v, Wrote(w, x, d, K, v)
    PROVE  Lazy(x) /\ Apart(x)
<1>1. /\ d \in DraftIds(w) /\ K \subseteq Keys /\ DraftIds(x) = DraftIds(w)
      /\ CopyOnly(w, x, d) /\ Extends(w, x)
  BY DEF Wrote
<1>2. \A e \in DraftIds(w) :
         /\ Node(x, e).original = Node(w, e).original
         /\ Node(x, e).parent = Node(w, e).parent
         /\ Node(w, e).operated => Node(x, e).operated
         /\ Node(w, e).copy # Null => Node(x, e).copy = Node(w, e).copy
  BY <1>1 DEF Extends
<1>3. ASSUME NEW e \in DraftIds(w), e # d PROVE LazyAt(x, e)
  <2>1. /\ Node(x, e).copy = Node(w, e).copy
        /\ Node(w, e).copy # Null => Copy(x, e) = Copy(w, e)
    BY <1>1, <1>2, <1>3, OtherCopies DEF CopyOnly
  <2> QED
    BY <1>1, <1>2, <2>1, LazyStays DEF Lazy
<1>4. LazyAt(x, d)
  <2> SUFFICES ASSUME ~Node(x, d).operated
               PROVE  /\ Copy(x, d).type = Original(x, d).type
                      /\ \A k \in Keys :
                            LET u == Copy(x, d).at[k]
                            IN  \/ u = Original(x, d).at[k]
                                \/ /\ IsDraft(u)
                                   /\ Node(x, u.id).parent = d
                                   /\ Original(x, d).at[k] = Obj(Node(x, u.id).original)
    BY DEF LazyAt
  <2>1. Original(x, d) = Original(w, d)
    BY <1>1, <1>2, OriginalStays
  <2>2. ~Node(w, d).operated /\ LazyAt(w, d)
    BY <1>1, <1>2 DEF Lazy
  <2>3. /\ Latest(w, d).type = Original(w, d).type
        /\ \A k \in Keys :
              LET u == Latest(w, d).at[k]
              IN  /\ ExistsIn(w, u)
                  /\ \/ u = Original(w, d).at[k]
                     \/ /\ IsDraft(u)
                        /\ Node(w, u.id).parent = d
                        /\ Original(w, d).at[k] = Obj(Node(w, u.id).original)
    BY <1>1, <2>2, LatestLazy
  <2>4. /\ Copy(x, d).type = Latest(w, d).type
        /\ \A j \in K : v = Original(w, d).at[j]
        /\ \A j \in Keys : Copy(x, d).at[j] = IF j \in K THEN v ELSE Latest(w, d).at[j]
    BY DEF Wrote
  <2> QED
    BY <1>2, <2>1, <2>3, <2>4 DEF ExistsIn
<1>5. Apart(x)
  <2>1. ASSUME NEW e \in DraftIds(w), e # d
        PROVE  Node(x, d).copy # Node(x, e).copy
    <3>1. CASE Node(w, e).copy # Null
      BY <1>1, <1>2, <2>1, <3>1, OtherCopies
    <3>2. CASE Node(w, e).copy = Null
      BY <1>1, <2>1, <3>2 DEF CopyOnly
    <3> QED
      BY <3>1, <3>2
  <2>2. \A e \in DraftIds(w) : e # d => Node(x, e).copy = Node(w, e).copy
    BY <1>1 DEF CopyOnly
  <2> QED
    BY <1>1, <2>1, <2>2 DEF Apart
<1> QED
  BY <1>1, <1>3, <1>4, <1>5 DEF Lazy

\* A read: the copy holds a draft of what the original holds there.
LEMMA DraftedLazy ==
    ASSUME NEW w, NEW x, Sound(w), Sound(x), Lazy(w), Apart(w),
           NEW d, NEW k, NEW n, Drafted(w, x, d, k, n)
    PROVE  Lazy(x) /\ Apart(x)
<1>1. /\ d \in DraftIds(w) /\ DraftIds(x) = DraftIds(w) \cup {n}
      /\ CopyOnly(w, x, d) /\ Extends(w, x) /\ Node(x, n).copy = Null
      /\ n \notin DraftIds(w)
  BY DEF Drafted
<1>2. \A e \in DraftIds(w) :
         /\ e \in DraftIds(x)
         /\ Node(x, e).original = Node(w, e).original
         /\ Node(x, e).parent = Node(w, e).parent
         /\ Node(w, e).operated => Node(x, e).operated
         /\ Node(w, e).copy # Null => Node(x, e).copy = Node(w, e).copy
  BY <1>1 DEF Extends
<1>3. ASSUME NEW e \in DraftIds(w), e # d PROVE LazyAt(x, e)
  <2>1. /\ Node(x, e).copy = Node(w, e).copy
        /\ Node(w, e).copy # Null => Copy(x, e) = Copy(w, e)
    BY <1>1, <1>2, <1>3, OtherCopies DEF CopyOnly
  <2> QED
    BY <1>1, <1>2, <2>1, LazyStays DEF Lazy
<1>4. LazyAt(x, d)
  <2> SUFFICES ASSUME ~Node(x, d).operated
               PROVE  /\ Copy(x, d).type = Original(x, d).type
                      /\ \A j \in Keys :
                            LET u == Copy(x, d).at[j]
                            IN  \/ u = Original(x, d).at[j]
                                \/ /\ IsDraft(u)
                                   /\ Node(x, u.id).parent = d
                                   /\ Original(x, d).at[j] = Obj(Node(x, u.id).original)
    BY DEF LazyAt
  <2>1. Original(x, d) = Original(w, d)
    BY <1>1, <1>2, OriginalStays
  <2>2. ~Node(w, d).operated /\ LazyAt(w, d)
    BY <1>1, <1>2 DEF Lazy
  <2>3. /\ Latest(w, d).type = Original(w, d).type
        /\ \A j \in Keys :
              LET u == Latest(w, d).at[j]
              IN  /\ ExistsIn(w, u)
                  /\ \/ u = Original(w, d).at[j]
                     \/ /\ IsDraft(u)
                        /\ Node(w, u.id).parent = d
                        /\ Original(w, d).at[j] = Obj(Node(w, u.id).original)
    BY <1>1, <2>2, LatestLazy
  <2>4. /\ Copy(x, d).type = Latest(w, d).type
        /\ \A j \in Keys : Copy(x, d).at[j] = IF j = k THEN Draft(n) ELSE Latest(w, d).at[j]
        /\ Original(w, d).at[k] = Obj(Node(x, n).original)
        /\ Node(x, n).parent = d
    BY DEF Drafted
  <2>5. IsDraft(Draft(n)) /\ Draft(n).id = n
    BY DEF IsDraft, Draft
  <2> QED
    BY <1>2, <2>1, <2>3, <2>4, <2>5 DEF ExistsIn
<1>5. LazyAt(x, n)
  BY <1>1 DEF LazyAt
<1>6. Apart(x)
  <2>1. ASSUME NEW e \in DraftIds(w), e # d
        PROVE  Node(x, d).copy # Node(x, e).copy
    <3>1. CASE Node(w, e).copy # Null
      BY <1>1, <1>2, <2>1, <3>1, OtherCopies
    <3>2. CASE Node(w, e).copy = Null
      BY <1>1, <2>1, <3>2 DEF CopyOnly
    <3> QED
      BY <3>1, <3>2
  <2>2. \A e \in DraftIds(w) : e # d => Node(x, e).copy = Node(w, e).copy
    BY <1>1 DEF CopyOnly
  <2> QED
    BY <1>1, <2>1, <2>2 DEF Apart
<1> QED
  BY <1>1, <1>3, <1>4, <1>5, <1>6 DEF Lazy

\* Objects of the recipe's own are no copies.
LEMMA FreshLazy ==
    ASSUME NEW w, NEW x, Sound(w), Sound(x), Lazy(w), Apart(w), x.drafts = w.drafts,
           \A e \in DraftIds(w) :
              Node(w, e).copy # Null => x.heap[Node(w, e).copy] = w.heap[Node(w, e).copy]
    PROVE  Lazy(x) /\ Apart(x)
<1>1. DraftIds(x) = DraftIds(w) /\ \A e \in DraftIds(w) : Node(x, e) = Node(w, e)
  BY DEF DraftIds, Node
<1>2. ASSUME NEW e \in DraftIds(w) PROVE LazyAt(x, e)
  <2>1. Node(w, e).copy # Null => Copy(x, e) = Copy(w, e)
    BY <1>1 DEF Copy
  <2> QED
    BY <1>1, <2>1, LazyStays DEF Lazy
<1> QED
  BY <1>1, <1>2 DEF Lazy, Apart

\* Finalization: an unmarked draft has only unmarked children, which give way to
\* their originals.
LEMMA FinalizesLazy ==
    ASSUME NEW w, NEW x, Sound(w), Sound(x), BaseClosed, Lazy(w), Apart(w),
           Finalizes(w, x)
    PROVE  Lazy(x) /\ Apart(x)
<1>1. /\ DraftIds(x) = DraftIds(w)
      /\ \A e \in DraftIds(w) : /\ Node(x, e).original = Node(w, e).original
                                /\ Node(x, e).copy = Node(w, e).copy
                                /\ Node(x, e).parent = Node(w, e).parent
                                /\ Node(x, e).operated = Node(w, e).operated
  BY DEF Finalizes
<1>2. ASSUME NEW d \in DraftIds(w), ~Node(w, d).operated, Node(w, d).copy # Null
      PROVE  /\ Copy(x, d).type = Original(x, d).type
             /\ \A k \in Keys :
                   LET u == Copy(x, d).at[k]
                   IN  \/ u = Original(x, d).at[k]
                       \/ /\ IsDraft(u)
                          /\ Node(x, u.id).parent = d
                          /\ Original(x, d).at[k] = Obj(Node(x, u.id).original)
  <2>1. Original(x, d) = Original(w, d)
    BY <1>1, OriginalStays
  <2>2. Node(w, d).copy \in DOMAIN w.heap
    BY <1>2 DEF Sound, WorldOK
  <2>3. /\ Copy(x, d).type = Copy(w, d).type
        /\ \A k \in Keys : Settled(w, Copy(w, d).at[k], Copy(x, d).at[k])
    BY <1>1, <2>2 DEF Finalizes, Copy
  <2>4. /\ Copy(w, d).type = Original(w, d).type
        /\ \A k \in Keys :
              LET u == Copy(w, d).at[k]
              IN  /\ ExistsIn(w, u)
                  /\ \/ u = Original(w, d).at[k]
                     \/ /\ IsDraft(u)
                        /\ Node(w, u.id).parent = d
                        /\ Original(w, d).at[k] = Obj(Node(w, u.id).original)
    BY <1>2, <2>2 DEF Lazy, LazyAt, Sound, WorldOK, Copy
  <2>5. \A k \in Keys : ~IsDraft(Original(w, d).at[k])
    BY OriginalHoldsBase
  <2>6. ASSUME NEW k \in Keys, IsDraft(Copy(w, d).at[k])
        PROVE  /\ Copy(w, d).at[k].id \in DraftIds(w)
               /\ ~Node(w, Copy(w, d).at[k].id).operated
               /\ Node(w, Copy(w, d).at[k].id).parent = d
               /\ Original(w, d).at[k] = Obj(Node(w, Copy(w, d).at[k].id).original)
    <3> DEFINE c == Copy(w, d).at[k].id
    <3>1. c \in DraftIds(w)
      BY <2>4, <2>6 DEF ExistsIn
    <3>2. Node(w, c).parent = d /\ Original(w, d).at[k] = Obj(Node(w, c).original)
      BY <2>4, <2>5, <2>6
    <3>3. d # Null
      BY WorldParts DEF Sound, WorldOK, DraftIds, Null
    <3>4. ~Node(w, c).operated
      BY <1>2, <3>1, <3>2, <3>3 DEF Sound, Marked
    <3> QED
      BY <3>1, <3>2, <3>4
  <2> QED
    BY <1>1, <2>1, <2>3, <2>4, <2>6 DEF Settled
<1>3. Lazy(x)
  BY <1>1, <1>2 DEF Lazy, LazyAt
<1>4. Apart(x)
  BY <1>1 DEF Apart
<1> QED
  BY <1>3, <1>4

UInv == IInv /\ Lazy(W) /\ Apart(W)

\* At the start there is no copy.
LEMMA InitLazy ==
    ASSUME Init
    PROVE  UInv
<1>1. DraftIds(W) = {1} /\ Node(W, 1).copy = Null
  BY InitWorld
<1>2. Lazy(W) /\ Apart(W)
  BY <1>1 DEF Lazy, LazyAt, Apart
<1> QED
  BY <1>2, InitSound DEF UInv

\* Every step of a producer keeps unchanged copies lazy.
LEMMA NextLazy ==
    ASSUME UInv, [Next]_vars
    PROVE  UInv'
<1>1. IInv /\ IInv' /\ Lazy(W) /\ Apart(W) /\ Sound(W) /\ BaseClosed
  BY NextKeeps, InvParts DEF UInv
<1>2. PICK x : /\ W' = x /\ Sound(x)
               /\ Assigns(x) \/ Reads(x) \/ Makes(x) \/ Mends(x) \/ Finalizes(W, x)
  BY <1>1, WorldSteps
<1>3. Assigns(x) => Lazy(x) /\ Apart(x)
  BY <1>1, <1>2, WroteLazy DEF Assigns
<1>4. Reads(x) => Lazy(x) /\ Apart(x)
  BY <1>1, <1>2, DraftedLazy DEF Reads
<1>5. \A e \in DraftIds(W) : Node(W, e).copy # Null => Node(W, e).copy \in DOMAIN W.heap
  BY <1>1 DEF Sound, WorldOK
<1>6. ASSUME Makes(x) PROVE Lazy(x) /\ Apart(x)
  <2>1. PICK o : Made(W, x, o)
    BY <1>6 DEF Makes
  <2>2. /\ x.drafts = W.drafts
        /\ \A e \in DraftIds(W) :
              Node(W, e).copy # Null => x.heap[Node(W, e).copy] = W.heap[Node(W, e).copy]
    BY <1>5, <2>1 DEF Made
  <2> QED
    BY <1>1, <1>2, <2>2, FreshLazy
<1>7. ASSUME Mends(x) PROVE Lazy(x) /\ Apart(x)
  <2>1. PICK a, k, v : Overwrote(W, x, a, k, v)
    BY <1>7 DEF Mends
  <2>2. /\ x.drafts = W.drafts
        /\ \A e \in DraftIds(W) :
              Node(W, e).copy # Null => x.heap[Node(W, e).copy] = W.heap[Node(W, e).copy]
    BY <1>5, <2>1 DEF Overwrote, Fresh
  <2> QED
    BY <1>1, <1>2, <2>2, FreshLazy
<1>8. Finalizes(W, x) => Lazy(x) /\ Apart(x)
  BY <1>1, <1>2, FinalizesLazy
<1>9. Lazy(x) /\ Apart(x)
  BY <1>2, <1>3, <1>4, <1>6, <1>7, <1>8
<1>10. Lazy(W)' /\ Apart(W)'
  BY <1>2, <1>9
<1> QED
  BY <1>1, <1>10 DEF UInv

\* The copies of unmarked drafts, whatever was read or restored.
THEOREM CopiesAreLazy == Spec => []UInv
<1>1. Init => UInv
  BY InitLazy
<1>2. UInv /\ [Next]_vars => UInv'
  BY NextLazy
<1> QED
  BY <1>1, <1>2, PTL DEF Spec

-----------------------------------------------------------------------------
(***************************************************************************)
(* What the references of a world lead to.                                 *)
(***************************************************************************)

\* A value of a world is a reference that exists, or none.
LEMMA ValueLeads ==
    ASSUME NEW w, NEW u \in Value, ExistsIn(w, u)
    PROVE  /\ IsDraft(u) => u = Draft(u.id) /\ u.id \in DraftIds(w)
           /\ IsObj(u) => u = Obj(u.id) /\ u.id \in DOMAIN w.heap
           /\ Leads(Store(w), u)
<1>1. IsDraft(u) => u = Draft(u.id) /\ u.id \in DraftIds(w)
  BY DEF Value, IsDraft, Draft, ExistsIn
<1>2. IsObj(u) => u = Obj(u.id) /\ u.id \in DOMAIN w.heap
  BY DEF Value, IsObj, Obj, ExistsIn
<1> QED
  BY <1>1, <1>2 DEF Leads, IsRef, Store

\* A draft leads to its copy, or to its original if it has none; an object to itself.
LEMMA StoreLeads ==
    ASSUME NEW w, Sound(w)
    PROVE  /\ \A d \in DraftIds(w) : /\ Draft(d) \in DOMAIN Store(w)
                                     /\ Store(w)[Draft(d)] = Latest(w, d)
                                     /\ IsRef(Draft(d)) /\ IsDraft(Draft(d))
                                     /\ Draft(d).id = d
           /\ \A a \in DOMAIN w.heap : /\ Obj(a) \in DOMAIN Store(w)
                                       /\ Store(w)[Obj(a)] = w.heap[a]
                                       /\ IsRef(Obj(a)) /\ ~IsDraft(Obj(a))
                                       /\ IsObj(Obj(a)) /\ Obj(a).id = a
           /\ \A v \in DOMAIN Store(w) : \/ \E d \in DraftIds(w) : v = Draft(d)
                                         \/ \E a \in DOMAIN w.heap : v = Obj(a)
           /\ \A v \in DOMAIN Store(w), k \in Keys :
                 /\ Store(w)[v].at[k] \in Value
                 /\ ExistsIn(w, Store(w)[v].at[k])
           /\ Closed(Store(w))
<1> DEFINE D == {Draft(d) : d \in DraftIds(w)} \cup {Obj(a) : a \in DOMAIN w.heap}
           lead(v) == IF IsDraft(v) THEN Latest(w, v.id) ELSE w.heap[v.id]
<1>1. Store(w) = [v \in D |-> lead(v)]
  BY DEF Store
<1>2. \A d : IsRef(Draft(d)) /\ IsDraft(Draft(d)) /\ Draft(d).id = d
  BY DEF IsRef, IsDraft, Draft
<1>3. \A a : IsRef(Obj(a)) /\ IsObj(Obj(a)) /\ ~IsDraft(Obj(a)) /\ Obj(a).id = a
  BY DEF IsRef, IsObj, IsDraft, Obj
<1>4. \A d \in DraftIds(w) : Draft(d) \in D
  OBVIOUS
<1>5. \A a \in DOMAIN w.heap : Obj(a) \in D
  OBVIOUS
<1>6. \A v \in D : \/ \E d \in DraftIds(w) : v = Draft(d)
                   \/ \E a \in DOMAIN w.heap : v = Obj(a)
  OBVIOUS
<1>7. DOMAIN Store(w) = D /\ \A v \in D : Store(w)[v] = lead(v)
  BY <1>1
<1> HIDE DEF D
<1>8. \A d \in DraftIds(w) : Draft(d) \in D /\ Store(w)[Draft(d)] = Latest(w, d)
  BY <1>2, <1>4, <1>7
<1>9. \A a \in DOMAIN w.heap : Obj(a) \in D /\ Store(w)[Obj(a)] = w.heap[a]
  BY <1>3, <1>5, <1>7
<1>10. \A d \in DraftIds(w) : LatestAddress(w, d) \in DOMAIN w.heap
  BY DEF Sound, WorldOK, LatestAddress
<1>11. \A a \in DOMAIN w.heap, k \in Keys : w.heap[a].at[k] \in Value /\ ExistsIn(w, w.heap[a].at[k])
  <2>1. w.heap \in [DOMAIN w.heap -> Object]
    BY WorldParts DEF Sound, WorldOK
  <2> QED
    BY <2>1 DEF Sound, WorldOK, Object
<1>12. ASSUME NEW v \in D, NEW k \in Keys
       PROVE  Store(w)[v].at[k] \in Value /\ ExistsIn(w, Store(w)[v].at[k])
  <2>1. CASE \E d \in DraftIds(w) : v = Draft(d)
    BY <1>8, <1>10, <1>11, <2>1 DEF Latest
  <2>2. CASE \E a \in DOMAIN w.heap : v = Obj(a)
    BY <1>9, <1>11, <2>2
  <2> QED
    BY <1>6, <2>1, <2>2
<1>13. Closed(Store(w))
  BY <1>7, <1>12, ValueLeads DEF Closed
<1> QED
  BY <1>2, <1>3, <1>6, <1>7, <1>8, <1>9, <1>12, <1>13

\* Equal, or an unmarked draft and its original.
Stands(w, u, v) ==
    \/ u = v
    \/ \E d \in DraftIds(w) :
          u = Draft(d) /\ ~Node(w, d).operated /\ v = Obj(Node(w, d).original)

\* An unmarked draft and its original hold such values at every key.
LEMMA StandsBelow ==
    ASSUME NEW w, Sound(w), BaseClosed, Lazy(w), NEW d \in DraftIds(w), ~Node(w, d).operated
    PROVE  LET store == Store(w)
           IN  /\ store[Draft(d)].type = store[Obj(Node(w, d).original)].type
               /\ \A k \in Keys : Stands(w, store[Draft(d)].at[k],
                                            store[Obj(Node(w, d).original)].at[k])
<1>1. /\ Store(w)[Draft(d)] = Latest(w, d)
      /\ Store(w)[Obj(Node(w, d).original)] = Original(w, d)
  BY StoreLeads DEF Sound, WorldOK, Original
<1>2. /\ Latest(w, d).type = Original(w, d).type
      /\ \A k \in Keys :
            LET u == Latest(w, d).at[k]
            IN  /\ ExistsIn(w, u)
                /\ \/ u = Original(w, d).at[k]
                   \/ /\ IsDraft(u)
                      /\ Node(w, u.id).parent = d
                      /\ Original(w, d).at[k] = Obj(Node(w, u.id).original)
  BY LatestLazy DEF Lazy
<1>3. ASSUME NEW k \in Keys, Latest(w, d).at[k] # Original(w, d).at[k]
      PROVE  Stands(w, Latest(w, d).at[k], Original(w, d).at[k])
  <2> DEFINE u == Latest(w, d).at[k]
  <2>1. u \in Value
    BY <1>1, StoreLeads
  <2>2. u = Draft(u.id) /\ u.id \in DraftIds(w)
    BY <1>2, <1>3, <2>1, ValueLeads
  <2>3. Node(w, u.id).parent = d /\ Original(w, d).at[k] = Obj(Node(w, u.id).original)
    BY <1>2, <1>3
  <2>4. d # Null
    BY WorldParts DEF Sound, WorldOK, DraftIds, Null
  <2>5. ~Node(w, u.id).operated
    BY <2>2, <2>3, <2>4 DEF Sound, Marked
  <2> QED
    BY <2>2, <2>3, <2>5 DEF Stands
<1> QED
  BY <1>1, <1>2, <1>3 DEF Stands

\* So they have one tree.
LEMMA StandsTree ==
    ASSUME NEW w, Sound(w), BaseClosed, Lazy(w), NEW d \in DraftIds(w), ~Node(w, d).operated
    PROVE  Tree(Store(w), Draft(d)) = Tree(Store(w), Obj(Node(w, d).original))
<1> DEFINE store == Store(w)
           F == Walk(store, Draft(d))
           G == Walk(store, Obj(Node(w, d).original))
           T == {p \in Paths : Stands(w, F[p], G[p])}
<1>1. /\ Closed(store) /\ Draft(d) \in DOMAIN store
      /\ Obj(Node(w, d).original) \in DOMAIN store
  BY StoreLeads DEF Sound, WorldOK
<1>2. /\ F[<<>>] = Draft(d)
      /\ \A p \in Paths : p # <<>> =>
            F[p] = IF IsRef(F[Front(p)]) THEN store[F[Front(p)]].at[Last(p)] ELSE Absent
  BY <1>1, WalkFinds DEF Leads
<1>3. /\ G[<<>>] = Obj(Node(w, d).original)
      /\ \A p \in Paths : p # <<>> =>
            G[p] = IF IsRef(G[Front(p)]) THEN store[G[Front(p)]].at[Last(p)] ELSE Absent
  BY <1>1, WalkFinds DEF Leads
<1> HIDE DEF F, G
<1>4. \A e \in DraftIds(w) : IsRef(Draft(e)) /\ IsRef(Obj(Node(w, e).original))
  BY StoreLeads DEF Sound, WorldOK
<1>5. <<>> \in T
  BY <1>2, <1>3, EmptyPath DEF Stands
<1>6. ASSUME NEW p \in Paths, p # <<>>, Front(p) \in T PROVE p \in T
  <2>1. Stands(w, F[Front(p)], G[Front(p)]) /\ Last(p) \in Keys
    BY <1>6, FrontPath
  <2>2. CASE F[Front(p)] = G[Front(p)]
    <3>1. F[p] = G[p]
      BY <1>2, <1>3, <1>6, <2>2
    <3> QED
      BY <3>1 DEF Stands
  <2>3. CASE F[Front(p)] # G[Front(p)]
    <3>1. PICK e \in DraftIds(w) : /\ F[Front(p)] = Draft(e) /\ ~Node(w, e).operated
                                   /\ G[Front(p)] = Obj(Node(w, e).original)
      BY <2>1, <2>3 DEF Stands
    <3>2. Stands(w, store[Draft(e)].at[Last(p)], store[Obj(Node(w, e).original)].at[Last(p)])
      BY <2>1, <3>1, StandsBelow
    <3>3. /\ F[p] = store[Draft(e)].at[Last(p)]
          /\ G[p] = store[Obj(Node(w, e).original)].at[Last(p)]
      BY <1>2, <1>3, <1>4, <1>6, <3>1
    <3> QED
      BY <3>2, <3>3
  <2> QED
    BY <2>2, <2>3
<1> HIDE DEF T
<1>7. Paths \subseteq T
  BY <1>5, <1>6, PathInduction
<1>8. ASSUME NEW p \in Paths
      PROVE  ShapeOf(store, F[p]) = ShapeOf(store, G[p])
  <2>1. Stands(w, F[p], G[p])
    BY <1>7 DEF T
  <2>2. CASE F[p] = G[p]
    BY <2>2
  <2>3. CASE F[p] # G[p]
    <3>1. PICK e \in DraftIds(w) : /\ F[p] = Draft(e) /\ ~Node(w, e).operated
                                   /\ G[p] = Obj(Node(w, e).original)
      BY <2>1, <2>3 DEF Stands
    <3>2. store[Draft(e)].type = store[Obj(Node(w, e).original)].type
      BY <3>1, StandsBelow
    <3> QED
      BY <1>4, <3>1, <3>2 DEF ShapeOf
  <2> QED
    BY <2>2, <2>3
<1> QED
  BY <1>8 DEF Tree, F, G

\* getValue(), handleValue(), the callbacks and cloneIfNeeded() may take the
\* original in the place of a draft that is not marked as changed: under every
\* path of keys it holds the same, whatever a read left in its copy.
THEOREM UnchangedReadAsOriginals == Spec => []UnchangedReadsAsOriginal
<1>1. UInv => UnchangedReadsAsOriginal
  <2> SUFFICES ASSUME UInv, NEW d \in DOMAIN drafts, ~drafts[d].operated
               PROVE  Tree(Store(W), Draft(d)) = Tree(Store(W), Obj(drafts[d].original))
    BY DEF UnchangedReadsAsOriginal
  <2>1. Sound(W) /\ BaseClosed /\ Lazy(W) /\ d \in DraftIds(W) /\ Node(W, d) = drafts[d]
    BY InvParts DEF UInv, Node
  <2> QED
    BY <2>1, StandsTree
<1> QED
  BY <1>1, CopiesAreLazy, PTL

-----------------------------------------------------------------------------
(***************************************************************************)
(* current().                                                              *)
(***************************************************************************)

\* A value of a snapshot: taken with all that it holds, it belongs to the base;
\* opened, it is an object or a draft with a copy.
Entry(w, e) ==
    /\ e = [value |-> e.value, whole |-> e.whole] /\ e.whole \in BOOLEAN
    /\ e.value \in Value /\ ExistsIn(w, e.value)
    /\ e.whole => /\ ~IsDraft(e.value)
                  /\ IsObj(e.value) => e.value.id \in DOMAIN base
    /\ ~e.whole => /\ IsRef(e.value)
                   /\ IsDraft(e.value) => Node(w, e.value.id).copy # Null

\* It stands for the value u of the state.
Shows(w, e, u) == IF e.whole THEN Stands(w, u, e.value) ELSE u = e.value

\* One step further down.
NextEntry(w, e, k) ==
    CASE e.whole /\ IsObj(e.value) -> Taken(w.heap[e.value.id].at[k])
      [] ~e.whole                  -> Property(w, e.value, k)
      [] OTHER                     -> Taken(Absent)

\* getCurrent() takes or opens a value so that the entry shows it.
LEMMA GetCurrentShows ==
    ASSUME NEW w, Sound(w), BaseClosed, NEW u \in Value, ExistsIn(w, u)
    PROVE  Entry(w, GetCurrent(w, u)) /\ Shows(w, GetCurrent(w, u), u)
<1>1. /\ IsDraft(u) => u = Draft(u.id) /\ u.id \in DraftIds(w)
      /\ IsObj(u) => u = Obj(u.id) /\ u.id \in DOMAIN w.heap
  BY ValueLeads
<1>2. \A v : /\ Taken(v) = [value |-> v, whole |-> TRUE]
             /\ Taken(v).value = v /\ Taken(v).whole = TRUE
             /\ Opened(v) = [value |-> v, whole |-> FALSE]
             /\ Opened(v).value = v /\ Opened(v).whole = FALSE
  BY DEF Taken, Opened
<1>3. CASE IsDraft(u) /\ ~Node(w, u.id).operated
  <2> DEFINE o == Obj(Node(w, u.id).original)
  <2>1. GetCurrent(w, u) = Taken(o)
    BY <1>3 DEF GetCurrent, IsDraft, IsObj
  <2>2. Node(w, u.id).original \in DOMAIN w.heap /\ Node(w, u.id).original \in DOMAIN base
    BY <1>1, <1>3 DEF Sound, WorldOK, Kept
  <2>3. o \in Value /\ ExistsIn(w, o) /\ ~IsDraft(o) /\ o.id \in DOMAIN base
    <3>1. DOMAIN w.heap \subseteq Nat
      BY WorldParts DEF Sound, WorldOK
    <3> QED
      BY <2>2, <3>1 DEF Obj, Value, ExistsIn, IsObj, IsDraft
  <2>4. Stands(w, u, o)
    BY <1>1, <1>3 DEF Stands
  <2> HIDE DEF o
  <2> QED
    BY <1>2, <2>1, <2>3, <2>4 DEF Entry, Shows
<1>4. CASE IsRef(u) /\ ~(IsDraft(u) /\ ~Node(w, u.id).operated)
  <2>1. GetCurrent(w, u) = Opened(u)
    <3>1. ~(IsDraft(u) /\ ~Node(w, u.id).operated)
      BY <1>4
    <3>2. IsObj(u) \/ (IsDraft(u) /\ Node(w, u.id).operated)
      BY <1>4 DEF IsRef
    <3> QED
      BY <3>1, <3>2 DEF GetCurrent
  <2>2. IsDraft(u) => Node(w, u.id).copy # Null
    BY <1>1, <1>4 DEF Sound, Marked
  <2> QED
    BY ZenonT(60), <1>2, <1>4, <2>1, <2>2 DEF Entry, Shows
<1>5. CASE ~IsRef(u)
  <2>1. GetCurrent(w, u) = Taken(u)
    BY <1>5 DEF GetCurrent, IsRef
  <2> QED
    BY <1>2, <1>5, <2>1 DEF Entry, Shows, Stands, IsRef
<1> QED
  BY <1>3, <1>4, <1>5 DEF IsRef

\* One key further, the entry shows what is found there.
LEMMA NextEntryShows ==
    ASSUME NEW w, Sound(w), BaseClosed, Lazy(w), NEW e, Entry(w, e), NEW k \in Keys
    PROVE  /\ Entry(w, NextEntry(w, e, k))
           /\ \A u : Shows(w, e, u) =>
                 Shows(w, NextEntry(w, e, k),
                       IF IsRef(u) THEN Store(w)[u].at[k] ELSE Absent)
<1>0. \A v : /\ Taken(v) = [value |-> v, whole |-> TRUE]
             /\ Taken(v).value = v /\ Taken(v).whole
  BY DEF Taken
<1>1. /\ IsDraft(e.value) => e.value = Draft(e.value.id) /\ e.value.id \in DraftIds(w)
      /\ IsObj(e.value) => e.value = Obj(e.value.id) /\ e.value.id \in DOMAIN w.heap
  BY ValueLeads DEF Entry
<1>2. CASE e.whole /\ IsObj(e.value)
  <2> DEFINE v == w.heap[e.value.id].at[k]
  <2>1. NextEntry(w, e, k) = Taken(v)
    BY <1>2 DEF NextEntry
  <2>2. v = Store(w)[e.value].at[k] /\ v \in Value /\ ExistsIn(w, v)
    BY <1>1, <1>2, StoreLeads
  <2>3. ~IsDraft(v) /\ (IsObj(v) => v.id \in DOMAIN base)
    BY <1>2 DEF Entry, Sound, Kept, BaseClosed
  <2>4. ASSUME NEW u, Stands(w, u, e.value)
        PROVE  Stands(w, IF IsRef(u) THEN Store(w)[u].at[k] ELSE Absent, v)
    <3>1. CASE u = e.value
      BY <1>2, <2>2, <3>1 DEF Stands, IsRef
    <3>2. CASE u # e.value
      <4>1. PICK d \in DraftIds(w) : /\ u = Draft(d) /\ ~Node(w, d).operated
                                     /\ e.value = Obj(Node(w, d).original)
        BY <2>4, <3>2 DEF Stands
      <4>2. IsRef(u)
        BY <4>1, StoreLeads
      <4>3. Stands(w, Store(w)[Draft(d)].at[k], Store(w)[Obj(Node(w, d).original)].at[k])
        BY <4>1, StandsBelow
      <4> QED
        BY <2>2, <4>1, <4>2, <4>3
    <3> QED
      BY <3>1, <3>2
  <2> HIDE DEF v
  <2> QED
    BY <1>0, <1>2, <2>1, <2>2, <2>3, <2>4 DEF Entry, Shows
<1>3. CASE ~e.whole
  <2>1. NextEntry(w, e, k) = Property(w, e.value, k)
    BY <1>3 DEF NextEntry
  <2> DEFINE u == Store(w)[e.value].at[k]
  <2>2. u \in Value /\ ExistsIn(w, u) /\ IsRef(e.value)
    BY <1>1, <1>3, StoreLeads DEF Entry, IsRef
  <2>3. Entry(w, GetCurrent(w, u)) /\ Shows(w, GetCurrent(w, u), u)
    BY <2>2, GetCurrentShows
  <2>4. CASE IsDraft(e.value)
    <3>1. Copy(w, e.value.id).at[k] = u
      BY <1>1, <1>3, <2>4, StoreLeads DEF Entry, Latest, LatestAddress, Copy
    <3>2. CASE u = Read(Original(w, e.value.id), k)
      <4>1. NextEntry(w, e, k) = Taken(u)
        BY <2>1, <2>4, <3>1, <3>2 DEF Property
      <4>2. ~IsDraft(u) /\ (IsObj(u) => u.id \in DOMAIN base)
        <5>1. CASE u = Original(w, e.value.id).at[k]
          BY <1>1, <2>4, <5>1, OriginalHoldsBase
        <5>2. CASE u = Undefined
          BY <5>2 DEF Undefined, Prim, IsDraft, IsObj
        <5> QED
          BY <3>2, <5>1, <5>2 DEF Read
      <4> HIDE DEF u
      <4>3. Entry(w, NextEntry(w, e, k)) /\ Shows(w, NextEntry(w, e, k), u)
        BY <1>0, <2>2, <4>1, <4>2 DEF Entry, Shows, Stands
      <4> QED
        BY <1>3, <2>2, <4>3 DEF Shows, u
    <3>3. CASE u # Read(Original(w, e.value.id), k)
      <4>1. NextEntry(w, e, k) = GetCurrent(w, u)
        BY <2>1, <2>4, <3>1, <3>3 DEF Property
      <4> QED
        BY <1>3, <2>2, <2>3, <4>1 DEF Shows
    <3> QED
      BY <3>2, <3>3
  <2>5. CASE ~IsDraft(e.value)
    <3>1. IsObj(e.value)
      BY <2>2, <2>5 DEF IsRef
    <3>2. u = w.heap[e.value.id].at[k]
      BY <1>1, <3>1, StoreLeads
    <3>3. NextEntry(w, e, k) = GetCurrent(w, u)
      BY <2>1, <2>5, <3>2 DEF Property
    <3> QED
      BY <1>3, <2>2, <2>3, <3>3 DEF Shows
  <2> QED
    BY <2>4, <2>5
<1>4. CASE e.whole /\ ~IsObj(e.value)
  <2>1. NextEntry(w, e, k) = Taken(Absent)
    BY <1>4 DEF NextEntry
  <2>2. Absent \in Value /\ ExistsIn(w, Absent) /\ ~IsDraft(Absent) /\ ~IsObj(Absent)
    BY AbsentExists DEF Absent, IsDraft, IsObj
  <2>3. \A u : Stands(w, u, e.value) => u = e.value
    BY <1>4, StoreLeads DEF Stands, Sound, WorldOK
  <2>4. ~IsRef(e.value)
    BY <1>4 DEF Entry, IsRef
  <2> QED
    BY <1>0, <1>4, <2>1, <2>2, <2>3, <2>4 DEF Entry, Shows, Stands
<1> QED
  BY <1>2, <1>3, <1>4

\* A draft is a value of the state.
LEMMA DraftExists ==
    ASSUME NEW w, Sound(w), NEW d \in DraftIds(w)
    PROVE  Draft(d) \in Value /\ ExistsIn(w, Draft(d)) /\ IsDraft(Draft(d))
<1>1. d \in Nat
  BY WorldParts DEF Sound, WorldOK, DraftIds
<1> QED
  BY <1>1 DEF Draft, Value, ExistsIn, IsDraft, IsObj

\* What current() makes of a draft, under every path.
LEMMA CurrentShows ==
    ASSUME NEW w, Sound(w), BaseClosed, Lazy(w), NEW d \in DraftIds(w)
    PROVE  \A p \in Paths :
              /\ Entry(w, Current(w, Draft(d))[p])
              /\ Shows(w, Current(w, Draft(d))[p], Walk(Store(w), Draft(d))[p])
<1> DEFINE S == {e \in [value : Value, whole : BOOLEAN] : Entry(w, e)}
           v == GetCurrent(w, Draft(d))
           g == [e \in S |-> [k \in Keys |-> NextEntry(w, e, k)]]
           E(f) == f = [p \in Paths |->
                          IF p = <<>> THEN v ELSE NextEntry(w, f[Front(p)], Last(p))]
           F == Walk(Store(w), Draft(d))
           C == Current(w, Draft(d))
           T == {p \in Paths : Entry(w, C[p]) /\ Shows(w, C[p], F[p])}
<1>0. Draft(d) \in Value /\ ExistsIn(w, Draft(d))
  BY DraftExists
<1>1. Entry(w, v) /\ Shows(w, v, Draft(d))
  BY <1>0, GetCurrentShows
<1>2. \A e : Entry(w, e) => e \in S
  <2> SUFFICES ASSUME NEW e, Entry(w, e) PROVE e \in [value : Value, whole : BOOLEAN]
    OBVIOUS
  <2>1. e = [value |-> e.value, whole |-> e.whole] /\ e.value \in Value /\ e.whole \in BOOLEAN
    BY DEF Entry
  <2> QED
    BY <2>1
<1>3. g \in [S -> [Keys -> S]]
  <2>1. \A e \in S, k \in Keys : NextEntry(w, e, k) \in S
    BY <1>2, NextEntryShows
  <2> HIDE DEF S
  <2> QED
    BY <2>1
<1>4. \A e \in S, k \in Keys : g[e][k] = NextEntry(w, e, k)
  OBVIOUS
<1>5. v \in S
  BY <1>1, <1>2
<1> HIDE DEF g, v, S
<1>6. PICK f \in [Paths -> S] : Unfolds(f, Paths, v, g)
  BY <1>3, <1>5, PathRecursion
<1>7. E(f)
  <2>1. \A p \in Paths : p # <<>> => g[f[Front(p)]][Last(p)] = NextEntry(w, f[Front(p)], Last(p))
    BY <1>4, <1>6, FrontPath
  <2> QED
    BY <1>6, <2>1 DEF Unfolds
<1>8. C = CHOOSE h : E(h)
  BY DEF Current, NextEntry, v
<1>9. E(C)
  BY <1>7, <1>8
<1>10. /\ C[<<>>] = v
       /\ \A p \in Paths : p # <<>> => C[p] = NextEntry(w, C[Front(p)], Last(p))
  BY <1>9, EmptyPath
<1>11. /\ F[<<>>] = Draft(d)
       /\ \A p \in Paths : p # <<>> =>
             F[p] = IF IsRef(F[Front(p)]) THEN Store(w)[F[Front(p)]].at[Last(p)] ELSE Absent
  BY StoreLeads, WalkFinds DEF Leads
<1> HIDE DEF F, C, E
<1>12. <<>> \in T
  BY <1>1, <1>10, <1>11, EmptyPath
<1>13. ASSUME NEW p \in Paths, p # <<>>, Front(p) \in T PROVE p \in T
  <2>1. Entry(w, C[Front(p)]) /\ Shows(w, C[Front(p)], F[Front(p)]) /\ Last(p) \in Keys
    BY <1>13, FrontPath
  <2>2. /\ Entry(w, NextEntry(w, C[Front(p)], Last(p)))
        /\ Shows(w, NextEntry(w, C[Front(p)], Last(p)), F[p])
    BY <1>11, <1>13, <2>1, NextEntryShows
  <2> QED
    BY <1>10, <1>13, <2>2
<1> HIDE DEF T
<1>14. Paths \subseteq T
  BY <1>12, <1>13, PathInduction
<1> QED
  BY <1>14 DEF T, F, C

\* The snapshot reads as the draft.
LEMMA CurrentReads ==
    ASSUME NEW w, Sound(w), BaseClosed, Lazy(w), NEW d \in DraftIds(w)
    PROVE  CurrentTree(w, Draft(d)) = View(w, Draft(d))
<1> DEFINE C == Current(w, Draft(d))
           F == Walk(Store(w), Draft(d))
<1>1. \A p \in Paths : Entry(w, C[p]) /\ Shows(w, C[p], F[p])
  BY CurrentShows
<1> HIDE DEF C, F
<1>2. ASSUME NEW p \in Paths
      PROVE  ShapeOf(Store(w), C[p].value) = ShapeOf(Store(w), F[p])
  <2>1. CASE F[p] = C[p].value
    BY <2>1
  <2>2. CASE F[p] # C[p].value
    <3>1. PICK e \in DraftIds(w) : /\ F[p] = Draft(e) /\ ~Node(w, e).operated
                                   /\ C[p].value = Obj(Node(w, e).original)
      BY <1>1, <2>2 DEF Shows, Stands
    <3>2. Store(w)[Draft(e)].type = Store(w)[Obj(Node(w, e).original)].type
      BY <3>1, StandsBelow
    <3>3. IsRef(Draft(e)) /\ IsRef(Obj(Node(w, e).original))
      BY StoreLeads DEF Sound, WorldOK
    <3> QED
      BY <3>1, <3>2, <3>3 DEF ShapeOf
  <2> QED
    BY <2>1, <2>2
<1> QED
  BY <1>2 DEF CurrentTree, View, Tree, C, F

-----------------------------------------------------------------------------
(***************************************************************************)
(* What the returned state shares with the base.                           *)
(***************************************************************************)

\* The copy of an unmarked draft is part of no other object.
Unheld(w) ==
    \A a \in DOMAIN w.heap, k \in Keys, d \in DraftIds(w) :
        w.heap[a].at[k] = Obj(Node(w, d).copy) => Node(w, d).operated

\* While the recipe runs, the copies are part of no object at all.
Hidden(w) ==
    \A a \in DOMAIN w.heap, k \in Keys, d \in DraftIds(w) :
        w.heap[a].at[k] # Obj(Node(w, d).copy)

\* A value that is outside the drafts: none, and none of their unmarked copies.
Outside(w, v) == /\ ~IsDraft(v) /\ ExistsIn(w, v)
                 /\ \A d \in DraftIds(w) : v = Obj(Node(w, d).copy) => Node(w, d).operated

\* What the recipe returned, and what create() returns.
Outcome(w) ==
    /\ phase = "recipe" => returned = <<>> /\ Hidden(w)
    /\ returned # <<>> => Outside(w, Head(returned))
    /\ phase = "done" => Outside(w, result)

\* The recipe cannot get hold of a copy.
LEMMA RecipeHoldsNoCopy ==
    ASSUME IInv, NEW v \in RecipeValues \cup {Absent, Undefined}, NEW d \in DraftIds(W)
    PROVE  v # Obj(Node(W, d).copy)
<1>1. Node(W, d).copy \notin DOMAIN base
  BY InvParts DEF Sound, Kept
<1>2. CASE v \in PrimValues \cup {Absent, Undefined}
  BY <1>2 DEF PrimValues, Prim, Absent, Undefined, Obj
<1>3. CASE v \in {Draft(c) : c \in DOMAIN drafts}
  BY <1>3 DEF Draft, Obj
<1>4. CASE v \in {Obj(a) : a \in DOMAIN base \cup Fresh(W)}
  <2>1. PICK a \in DOMAIN base \cup Fresh(W) : v = Obj(a)
    BY <1>4
  <2>2. a # Node(W, d).copy
    BY <1>1, <2>1 DEF Fresh
  <2> QED
    BY <2>1, <2>2 DEF Obj
<1> QED
  BY <1>2, <1>3, <1>4 DEF RecipeValues

\* The two kinds of steps that give a copy to a draft and write to it: a copy
\* that a step has just made is part of nothing yet.
LEMMA CopyHidden ==
    ASSUME IInv, Hidden(W), NEW x, Sound(x), NEW d \in DraftIds(W), NEW v,
           Extends(W, x), CopyOnly(W, x, d),
           \A e \in DraftIds(x) : e \in DraftIds(W) \/ Node(x, e).copy = Null,
           \/ v \in RecipeValues \cup {Absent}
           \/ IsDraft(v),
           \A j \in Keys : Copy(x, d).at[j] = v \/ Copy(x, d).at[j] = Latest(W, d).at[j]
    PROVE  Hidden(x)
<1> SUFFICES ASSUME NEW a \in DOMAIN x.heap, NEW k \in Keys, NEW e \in DraftIds(x),
                    x.heap[a].at[k] = Obj(Node(x, e).copy)
             PROVE  FALSE
  BY DEF Hidden
<1> DEFINE u == x.heap[a].at[k]
<1>0. Sound(W) /\ IsObj(u) /\ u.id = Node(x, e).copy
  BY InvParts DEF IsObj, Obj
<1>1. u.id # Null
  <2>1. ExistsIn(x, x.heap[a].at[k]) /\ x \in World
    BY DEF Sound, WorldOK
  <2>2. 0 \notin DOMAIN x.heap
    BY <2>1, WorldParts
  <2> QED
    BY <1>0, <2>1, <2>2 DEF ExistsIn, Null
<1>2. e \in DraftIds(W)
  BY <1>0, <1>1
<1>3. Node(W, e).copy # Null => Node(x, e).copy = Node(W, e).copy
  BY <1>2 DEF Extends
<1>4. u = v \/ (ExistsIn(W, u) /\ u # Obj(Node(W, e).copy))
  <2>1. CASE a = Node(x, d).copy
    <3>1. u = v \/ u = Latest(W, d).at[k]
      BY <2>1 DEF Copy
    <3>2. LatestAddress(W, d) \in DOMAIN W.heap
      BY <1>0 DEF Sound, WorldOK, LatestAddress
    <3> QED
      BY <1>0, <1>2, <3>1, <3>2 DEF Latest, Hidden, Sound, WorldOK
  <2>2. CASE a # Node(x, d).copy
    <3>1. a \in DOMAIN W.heap /\ u = W.heap[a].at[k]
      BY <2>2 DEF CopyOnly
    <3> QED
      BY <1>0, <1>2, <3>1 DEF Hidden, Sound, WorldOK
  <2> QED
    BY <2>1, <2>2
<1>5. u = v => ExistsIn(W, u) /\ u # Obj(Node(W, e).copy)
  <2> SUFFICES ASSUME u = v PROVE ExistsIn(W, u) /\ u # Obj(Node(W, e).copy)
    OBVIOUS
  <2>1. ~IsDraft(v)
    BY <1>0 DEF IsObj, IsDraft
  <2> QED
    BY <1>2, <2>1, RecipeHoldsNoCopy, RecipeValuesExist, AbsentExists
<1>6. u.id \in DOMAIN W.heap /\ u # Obj(Node(W, e).copy)
  BY <1>0, <1>4, <1>5 DEF ExistsIn
<1> HIDE DEF u
<1>7. u = Obj(Node(x, e).copy)
  BY DEF u
<1>8. Node(W, e).copy = Null
  BY <1>3, <1>6, <1>7
<1>9. CASE e = d
  BY <1>0, <1>6, <1>8, <1>9 DEF CopyOnly
<1>10. CASE e # d
  BY <1>2, <1>6, <1>7, <1>10 DEF CopyOnly
<1> QED
  BY <1>9, <1>10

\* What the recipe makes or changes itself holds no copy.
LEMMA FreshHidden ==
    ASSUME IInv, Hidden(W), NEW x, Sound(x), x.drafts = W.drafts,
           \A a \in DOMAIN x.heap, k \in Keys :
              \/ x.heap[a].at[k] \in RecipeValues \cup {Absent}
              \/ a \in DOMAIN W.heap /\ x.heap[a].at[k] = W.heap[a].at[k]
    PROVE  Hidden(x)
<1>1. DraftIds(x) = DraftIds(W) /\ \A e \in DraftIds(W) : Node(x, e) = Node(W, e)
  BY DEF DraftIds, Node
<1>2. \A v \in RecipeValues \cup {Absent}, e \in DraftIds(W) : v # Obj(Node(W, e).copy)
  BY RecipeHoldsNoCopy
<1> HIDE DEF RecipeValues
<1> QED
  BY <1>1, <1>2 DEF Hidden

\* A draft gives way to its copy only if it is marked, and shares it with none.
LEMMA FinalizesUnheld ==
    ASSUME NEW w, Sound(w), Unheld(w), Apart(w), NEW x, Finalizes(w, x)
    PROVE  Unheld(x)
<1> SUFFICES ASSUME NEW a \in DOMAIN w.heap, NEW k \in Keys, NEW d \in DraftIds(w),
                    x.heap[a].at[k] = Obj(Node(w, d).copy)
             PROVE  Node(w, d).operated
  BY DEF Unheld, Finalizes
<1> DEFINE u == w.heap[a].at[k]
<1>1. Settled(w, u, Obj(Node(w, d).copy)) /\ ExistsIn(w, u)
  BY DEF Finalizes, Sound, WorldOK
<1>2. CASE u = Obj(Node(w, d).copy)
  BY <1>2 DEF Unheld
<1>3. ASSUME IsDraft(u), NEW b, Obj(b) = Obj(Node(w, d).copy) PROVE b = Node(w, d).copy
  BY <1>3 DEF Obj
<1>4. CASE IsDraft(u) /\ Obj(Node(w, u.id).original) = Obj(Node(w, d).copy)
  BY <1>1, <1>3, <1>4 DEF ExistsIn, Sound, Kept
<1>5. CASE /\ IsDraft(u) /\ Node(w, u.id).operated
           /\ Obj(Node(w, u.id).copy) = Obj(Node(w, d).copy)
  BY <1>1, <1>3, <1>5 DEF ExistsIn, Apart, Sound, Marked
<1> QED
  BY <1>1, <1>2, <1>4, <1>5 DEF Settled

\* What is outside the drafts stays there.
LEMMA FinalizesOutside ==
    ASSUME NEW w, NEW x, Finalizes(w, x), NEW v, Outside(w, v)
    PROVE  Outside(x, v)
BY DEF Finalizes, Outside, ExistsIn

\* The two properties of the heap and of the outcome, with what they rest on.
SInv == UInv /\ Unheld(W) /\ Outcome(W)

\* Initially no draft has a copy.
LEMMA InitShared ==
    ASSUME Init
    PROVE  SInv
<1>1. /\ IsBase(base) /\ 1 \in DOMAIN base /\ W.heap = base /\ DraftIds(W) = {1}
      /\ Node(W, 1).copy = Null
  BY InitWorld
<1>2. UInv /\ Sound(W)
  BY InitLazy, InitSound, InvParts
<1>3. ASSUME NEW a \in DOMAIN base, NEW k \in Keys PROVE base[a].at[k] # Obj(Null)
  <2>1. ExistsIn(W, base[a].at[k])
    BY <1>1, <1>2 DEF Sound, WorldOK
  <2>2. 0 \notin DOMAIN base
    BY InitWorld
  <2> QED
    BY <1>1, <2>1, <2>2 DEF ExistsIn, Obj, IsObj, Null
<1>4. Unheld(W)
  BY <1>1, <1>3 DEF Unheld
<1>5. Outcome(W)
  <2>1. Hidden(W)
    BY <1>1, <1>3 DEF Hidden
  <2> QED
    BY <2>1 DEF Init, Outcome
<1> QED
  BY <1>2, <1>4, <1>5 DEF SInv

\* A step of the recipe.
LEMMA RecipeShared ==
    ASSUME SInv, Recipe
    PROVE  Unheld(W)' /\ Outcome(W)'
<1>1. IInv /\ Sound(W)
  BY InvParts DEF SInv, UInv
<1>2. /\ UNCHANGED <<base, phase, returned, result>> /\ phase = "recipe"
      /\ \E x : W' = x /\ (Assigns(x) \/ Reads(x) \/ Makes(x) \/ Mends(x))
  BY <1>1, RecipeSteps
<1>3. PICK x : W' = x /\ (Assigns(x) \/ Reads(x) \/ Makes(x) \/ Mends(x))
  BY <1>2
<1>4. Sound(x) /\ Hidden(W)
  <2>1. IInv'
    BY <1>1, NextKeeps DEF Next
  <2> QED
    BY <1>2, <1>3, <2>1, NextSound DEF SInv, Outcome
<1>5. Assigns(x) => Hidden(x)
  <2> SUFFICES ASSUME NEW d, NEW K, NEW v \in RecipeValues \cup {Absent},
                      Wrote(W, x, d, K, v)
               PROVE  Hidden(x)
    BY DEF Assigns
  <2>1. /\ d \in DraftIds(W) /\ Extends(W, x) /\ CopyOnly(W, x, d)
        /\ DraftIds(x) = DraftIds(W)
        /\ \A j \in Keys : Copy(x, d).at[j] = v \/ Copy(x, d).at[j] = Latest(W, d).at[j]
    BY DEF Wrote
  <2> HIDE DEF RecipeValues
  <2> QED
    BY <1>1, <1>4, <2>1, CopyHidden
<1>6. Reads(x) => Hidden(x)
  <2> SUFFICES ASSUME NEW d, NEW k, NEW n, Drafted(W, x, d, k, n)
               PROVE  Hidden(x)
    BY DEF Reads
  <2>1. /\ d \in DraftIds(W) /\ Extends(W, x) /\ CopyOnly(W, x, d)
        /\ \A e \in DraftIds(x) : e \in DraftIds(W) \/ Node(x, e).copy = Null
        /\ \A j \in Keys : \/ Copy(x, d).at[j] = Draft(n)
                           \/ Copy(x, d).at[j] = Latest(W, d).at[j]
    BY DEF Drafted
  <2>2. IsDraft(Draft(n))
    BY DEF IsDraft, Draft
  <2> QED
    BY <1>1, <1>4, <2>1, <2>2, CopyHidden
<1>7. Makes(x) => Hidden(x)
  <2> SUFFICES ASSUME NEW o, Made(W, x, o),
                      \A j \in Keys : o.at[j] \in RecipeValues \cup {Absent}
               PROVE  Hidden(x)
    BY DEF Makes
  <2> HIDE DEF RecipeValues
  <2>1. x.drafts = W.drafts
        /\ \A a \in DOMAIN x.heap, k \in Keys :
              \/ x.heap[a].at[k] \in RecipeValues \cup {Absent}
              \/ a \in DOMAIN W.heap /\ x.heap[a].at[k] = W.heap[a].at[k]
    BY DEF Made
  <2> QED
    BY <1>1, <1>4, <2>1, FreshHidden
<1>8. Mends(x) => Hidden(x)
  <2> SUFFICES ASSUME NEW b, NEW j, NEW v \in RecipeValues, Overwrote(W, x, b, j, v)
               PROVE  Hidden(x)
    BY DEF Mends
  <2> HIDE DEF RecipeValues
  <2>1. x.drafts = W.drafts
        /\ \A a \in DOMAIN x.heap, k \in Keys :
              \/ x.heap[a].at[k] \in RecipeValues \cup {Absent}
              \/ a \in DOMAIN W.heap /\ x.heap[a].at[k] = W.heap[a].at[k]
    BY DEF Overwrote
  <2> QED
    BY <1>1, <1>4, <2>1, FreshHidden
<1>9. Hidden(x)
  BY <1>3, <1>5, <1>6, <1>7, <1>8
<1>10. Unheld(W)'
  BY <1>3, <1>9 DEF Hidden, Unheld
<1>11. Outcome(W)'
  <2>1. Hidden(W')
    BY <1>3, <1>9
  <2>2. returned = <<>> /\ returned' = <<>> /\ phase' = "recipe"
    BY <1>2 DEF Outcome, SInv
  <2> QED
    BY <2>1, <2>2 DEF Outcome
<1> QED
  BY <1>10, <1>11

\* The recipe ends, and with it what the drafts hold stops growing.
LEMMA EndRecipeShared ==
    ASSUME SInv, NEW v \in RecipeValues \cup {Undefined}, EndRecipe(v)
    PROVE  Unheld(W)' /\ Outcome(W)'
<1>1. IInv /\ Unheld(W) /\ Apart(W) /\ Sound(W)
  BY InvParts DEF SInv, UInv
<1>2. PICK x : W' = x /\ Sound(x) /\ RecipeEnded(W, x, v)
  BY <1>1, EndRecipeSteps
<1>3. Finalizes(W, x)
  BY <1>2 DEF RecipeEnded
<1>4. Unheld(x)
  BY <1>1, <1>3, FinalizesUnheld
<1>5. /\ phase' = "finalizing" /\ phase = "recipe"
      /\ returned' = CASE IsState(v) -> <<>>
                       [] ~IsState(v) /\ IsDraft(v) -> <<Obj(Node(W, v.id).original)>>
                       [] OTHER -> <<v>>
  BY DEF EndRecipe
<1>6. ExistsIn(W, v) /\ v \in Value
  BY <1>1, RecipeValuesExist DEF Undefined, Prim, ExistsIn, IsObj, IsDraft, Value
<1>7. returned' # <<>> => Outside(W, Head(returned'))
  <2>1. CASE ~IsState(v) /\ IsDraft(v)
    <3> DEFINE o == Obj(Node(W, v.id).original)
    <3>1. Node(W, v.id).original \in DOMAIN base /\ Node(W, v.id).original \in DOMAIN W.heap
      BY <1>1, <1>6, <2>1 DEF ExistsIn, Sound, Kept, WorldOK
    <3>2. Outside(W, o)
      BY <1>1, <3>1 DEF Outside, Obj, IsDraft, IsObj, ExistsIn, Sound, Kept
    <3>3. returned' = <<o>>
      BY <1>5, <2>1
    <3> HIDE DEF o
    <3> QED
      BY <3>2, <3>3
  <2>2. CASE ~IsState(v) /\ ~IsDraft(v)
    <3>1. Outside(W, v)
      BY <1>1, <1>6, <2>2, RecipeHoldsNoCopy DEF Outside
    <3>2. returned' = <<v>>
      BY <1>5, <2>2
    <3> QED
      BY <3>1, <3>2
  <2>3. CASE IsState(v)
    BY <1>5, <2>3
  <2> QED
    BY <2>1, <2>2, <2>3
<1>8. returned' # <<>> => Outside(x, Head(returned'))
  BY <1>3, <1>7, FinalizesOutside
<1>9. Outcome(W)'
  <2>1. returned' # <<>> => Outside(W', Head(returned'))
    BY <1>2, <1>8
  <2> QED
    BY <1>5, <2>1 DEF Outcome
<1> QED
  BY <1>2, <1>4, <1>9

\* The finalization works on.
LEMMA FinalizationShared ==
    ASSUME SInv, FinalizeNode \/ FinalizeTask
    PROVE  Unheld(W)' /\ Outcome(W)'
<1>1. IInv /\ Unheld(W) /\ Apart(W) /\ Sound(W) /\ Outcome(W)
  BY InvParts DEF SInv, UInv
<1>2. PICK x : W' = x /\ Finalizes(W, x)
  BY <1>1, FinalizeNodeSteps, FinalizeTaskSteps DEF NodeDone, TaskDone
<1>3. Unheld(x)
  BY <1>1, <1>2, FinalizesUnheld
<1>4. phase = "finalizing" /\ phase' = phase /\ returned' = returned
  BY DEF FinalizeNode, FinalizeTask, Finalizing
<1>5. returned # <<>> => Outside(x, Head(returned))
  BY <1>1, <1>2, FinalizesOutside DEF Outcome
<1>6. Outcome(W)'
  <2>1. returned' # <<>> => Outside(W', Head(returned'))
    BY <1>2, <1>4, <1>5
  <2> QED
    BY <1>4, <2>1 DEF Outcome
<1> QED
  BY <1>2, <1>3, <1>6

\* create() returns the state or the value that the recipe returned.
LEMMA ReturnShared ==
    ASSUME SInv, Return
    PROVE  Unheld(W)' /\ Outcome(W)'
<1>1. IInv /\ Unheld(W) /\ Apart(W) /\ Sound(W) /\ Outcome(W)
  BY InvParts DEF SInv, UInv
<1>2. W' = W
  BY OtherSteps
<1>3. /\ phase' = "done" /\ returned' = returned
      /\ result' = IF returned = <<>> THEN Final(W, Root) ELSE Head(returned)
  BY DEF Return
<1>4. Outside(W, Final(W, Root))
  <2>1. Root \in DraftIds(W)
    BY <1>1 DEF Sound, WorldOK
  <2>2. CASE Node(W, Root).operated
    <3>1. Final(W, Root) = Obj(Node(W, Root).copy)
      BY <2>2 DEF Final
    <3>2. Node(W, Root).copy # Null /\ Node(W, Root).copy \in DOMAIN W.heap
      BY <1>1, <2>1, <2>2 DEF Sound, WorldOK, Marked
    <3>3. \A d \in DraftIds(W) : Obj(Node(W, Root).copy) = Obj(Node(W, d).copy) => d = Root
      BY <1>1, <2>1, <3>2 DEF Obj, Apart
    <3> QED
      BY <2>2, <3>1, <3>2, <3>3 DEF Outside, ExistsIn, Obj, IsDraft, IsObj
  <2>3. CASE ~Node(W, Root).operated
    <3>1. Final(W, Root) = Obj(Node(W, Root).original)
      BY <2>3 DEF Final
    <3>2. Node(W, Root).original \in DOMAIN base /\ Node(W, Root).original \in DOMAIN W.heap
      BY <1>1, <2>1 DEF Sound, Kept, WorldOK
    <3> QED
      BY <1>1, <3>1, <3>2 DEF Outside, Obj, IsDraft, IsObj, ExistsIn, Sound, Kept
  <2> QED
    BY <2>2, <2>3
<1>5. Outside(W', result') /\ (returned' # <<>> => Outside(W', Head(returned')))
  BY <1>1, <1>2, <1>3, <1>4 DEF Outcome
<1>6. Outcome(W)'
  BY <1>3, <1>5 DEF Outcome
<1> QED
  BY <1>1, <1>2, <1>6

\* Every step of a producer keeps unmarked copies unheld.
LEMMA NextShared ==
    ASSUME SInv, [Next]_vars
    PROVE  SInv'
<1>1. UInv'
  BY NextLazy DEF SInv
<1>2. CASE Recipe
  BY <1>1, <1>2, RecipeShared DEF SInv
<1>3. CASE \E v \in ReturnValues : EndRecipe(v)
  BY <1>1, <1>3, EndRecipeShared DEF SInv, ReturnValues
<1>4. CASE FinalizeNode \/ FinalizeTask
  BY <1>1, <1>4, FinalizationShared DEF SInv
<1>5. CASE Return
  BY <1>1, <1>5, ReturnShared DEF SInv
<1>6. CASE Fail \/ UNCHANGED vars
  <2>1. W' = W
    BY <1>6, OtherSteps
  <2>2. /\ phase' = phase \/ phase' = "failed"
        /\ returned' = returned /\ result' = result
    BY <1>6 DEF Fail, vars
  <2>3. Unheld(W)'
    BY <2>1 DEF SInv
  <2>4. Outcome(W)'
    <3>1. Outcome(W)
      BY DEF SInv
    <3>2. /\ returned' # <<>> => Outside(W', Head(returned'))
          /\ phase' = "done" => Outside(W', result')
      BY <2>1, <2>2, <3>1 DEF Outcome
    <3>3. phase' = "recipe" => returned' = <<>> /\ Hidden(W')
      BY <2>1, <2>2, <3>1 DEF Outcome
    <3> QED
      BY <3>2, <3>3 DEF Outcome
  <2> QED
    BY <1>1, <2>3, <2>4 DEF SInv
<1> QED
  BY <1>2, <1>3, <1>4, <1>5, <1>6 DEF Next, Ended

\* No reference leads to the copy of an unmarked draft, in the recipe or after it.
THEOREM UnmarkedCopiesUnheld == Spec => []SInv
<1>1. Init => SInv
  BY InitShared
<1>2. SInv /\ [Next]_vars => SInv'
  BY NextShared
<1> QED
  BY <1>1, <1>2, PTL DEF Spec

\* A reference found under a value is the value itself, or an object holds it.
LEMMA ReachedHeld ==
    ASSUME NEW w, Sound(w), NEW v \in Value, ExistsIn(w, v),
           NEW u \in Reached(Store(w), v)
    PROVE  u = v \/ \E a \in DOMAIN w.heap, k \in Keys : u = w.heap[a].at[k]
<1> DEFINE F == Walk(Store(w), v)
<1>1. Closed(Store(w)) /\ Leads(Store(w), v)
  BY StoreLeads, ValueLeads
<1>2. /\ F[<<>>] = v
      /\ \A p \in Paths : p # <<>> =>
            F[p] = IF IsRef(F[Front(p)]) THEN Store(w)[F[Front(p)]].at[Last(p)] ELSE Absent
      /\ \A p \in Paths : Leads(Store(w), F[p])
  BY <1>1, WalkFinds
<1>3. PICK p \in Paths : u = F[p] /\ IsRef(u)
  BY DEF Reached
<1> HIDE DEF F
<1>4. CASE p # <<>>
  <2> DEFINE x == F[Front(p)]
  <2>1. Front(p) \in Paths /\ Last(p) \in Keys
    BY <1>4, FrontPath
  <2>2. IsRef(x) /\ u = Store(w)[x].at[Last(p)]
    BY <1>2, <1>3, <1>4 DEF Absent, IsRef, IsObj, IsDraft, Prim
  <2>3. x \in DOMAIN Store(w)
    BY <1>2, <2>1, <2>2 DEF Leads
  <2>4. PICK a \in DOMAIN w.heap : Store(w)[x] = w.heap[a]
    <3>1. \A e \in DraftIds(w) : LatestAddress(w, e) \in DOMAIN w.heap
      BY DEF Sound, WorldOK, LatestAddress
    <3> QED
      BY <2>3, <3>1, StoreLeads DEF Latest
  <2> QED
    BY <2>1, <2>2, <2>4
<1> QED
  BY <1>2, <1>3, <1>4

\* The returned state shares with the base what the recipe left unchanged: a
\* draft that was only read leaves no copy in it.
THEOREM UnchangedStaysShared == Spec => []UnchangedIsShared
<1>1. ASSUME SInv, phase = "done", NEW u \in Reached(Store(W), result),
             NEW d \in DOMAIN drafts, u = Obj(drafts[d].copy)
      PROVE  drafts[d].operated
  <2>1. /\ Sound(W) /\ Unheld(W) /\ Outside(W, result) /\ result \in Value
        /\ d \in DraftIds(W) /\ Node(W, d) = drafts[d]
    BY <1>1, InvParts DEF SInv, UInv, Outcome, IInv, TypeOK, Node
  <2>2. u = result \/ \E a \in DOMAIN W.heap, k \in Keys : u = W.heap[a].at[k]
    BY <1>1, <2>1, ReachedHeld DEF Outside
  <2> QED
    BY <1>1, <2>1, <2>2 DEF Outside, Unheld
<1>2. SInv => UnchangedIsShared
  BY <1>1 DEF UnchangedIsShared
<1> QED
  BY <1>2, UnmarkedCopiesUnheld, PTL

-----------------------------------------------------------------------------
(***************************************************************************)
(* What a snapshot shares with the state.                                  *)
(***************************************************************************)

\* A set of objects that hold no draft, and lead to no others.
CleanSet(w, L) ==
    /\ L \subseteq DOMAIN w.heap
    /\ \A a \in L, k \in Keys :
          /\ ~IsDraft(w.heap[a].at[k])
          /\ IsObj(w.heap[a].at[k]) => w.heap[a].at[k].id \in L

\* A value that leads to no draft.
Clean(w, v) == /\ v \in Value /\ ~IsDraft(v)
               /\ IsObj(v) => \E L \in SUBSET DOMAIN w.heap : CleanSet(w, L) /\ v.id \in L

\* The base leads to no draft.
LEMMA BaseClean ==
    ASSUME NEW w, Sound(w), BaseClosed, NEW v \in Value, ~IsDraft(v),
           IsObj(v) => v.id \in DOMAIN base
    PROVE  Clean(w, v)
<1>1. CleanSet(w, DOMAIN base)
  BY DEF CleanSet, BaseClosed, Sound, Kept
<1>2. DOMAIN base \subseteq DOMAIN w.heap
  BY DEF Sound, Kept
<1> QED
  BY <1>1, <1>2 DEF Clean

\* From a clean value no path leads to a draft.
LEMMA CleanReached ==
    ASSUME NEW w, Sound(w), NEW v, Clean(w, v), NEW u \in Reached(Store(w), v)
    PROVE  ~IsDraft(u)
<1> DEFINE F == Walk(Store(w), v)
<1>1. ASSUME IsObj(v)
      PROVE  ~IsDraft(u)
  <2>1. PICK L \in SUBSET DOMAIN w.heap : CleanSet(w, L) /\ v.id \in L
    BY <1>1 DEF Clean
  <2>2. v \in Value /\ ExistsIn(w, v)
    BY <1>1, <2>1 DEF Clean, ExistsIn, IsDraft, IsObj
  <2>3. Leads(Store(w), v) /\ Closed(Store(w))
    BY <2>2, ValueLeads, StoreLeads
  <2> DEFINE T == {p \in Paths : ~IsDraft(F[p]) /\ (IsObj(F[p]) => F[p].id \in L)}
  <2>4. /\ F[<<>>] = v
        /\ \A p \in Paths : p # <<>> =>
              F[p] = IF IsRef(F[Front(p)]) THEN Store(w)[F[Front(p)]].at[Last(p)]
                                           ELSE Absent
        /\ \A p \in Paths : Leads(Store(w), F[p])
    BY <2>3, WalkFinds
  <2> HIDE DEF F
  <2>5. <<>> \in T
    BY <1>1, <2>1, <2>4, EmptyPath DEF Clean
  <2>6. ASSUME NEW p \in Paths, p # <<>>, Front(p) \in T
        PROVE  p \in T
    <3>1. Front(p) \in Paths /\ Last(p) \in Keys
      BY <2>6, FrontPath
    <3>2. CASE IsRef(F[Front(p)])
      <4>1. IsObj(F[Front(p)]) /\ F[Front(p)].id \in L
        BY <2>6, <3>2 DEF IsRef
      <4>2. F[Front(p)] \in DOMAIN Store(w)
        BY <2>4, <3>1, <3>2 DEF Leads
      <4>3. F[Front(p)] = Obj(F[Front(p)].id)
        BY <4>1, <4>2, StoreLeads DEF IsObj, IsDraft
      <4>4. F[p] = w.heap[F[Front(p)].id].at[Last(p)]
        BY <2>1, <2>4, <2>6, <3>2, <4>1, <4>3, StoreLeads
      <4> QED
        BY <2>1, <3>1, <4>1, <4>4 DEF CleanSet
    <3>3. CASE ~IsRef(F[Front(p)])
      BY <2>4, <2>6, <3>3 DEF Absent, Prim, IsDraft, IsObj
    <3> QED
      BY <3>2, <3>3
  <2>7. Paths \subseteq T
    <3> HIDE DEF T
    <3> QED
      BY <2>5, <2>6, PathInduction
  <2> QED
    BY <2>7 DEF Reached, F
<1>2. ASSUME ~IsObj(v)
      PROVE  ~IsDraft(u)
  <2>1. v \in Value /\ ~IsRef(v) /\ ExistsIn(w, v)
    BY <1>2 DEF Clean, IsRef, ExistsIn
  <2>2. Leads(Store(w), v) /\ Closed(Store(w))
    BY <2>1, ValueLeads, StoreLeads
  <2> DEFINE T == {p \in Paths : ~IsRef(F[p])}
  <2>3. /\ F[<<>>] = v
        /\ \A p \in Paths : p # <<>> =>
              F[p] = IF IsRef(F[Front(p)]) THEN Store(w)[F[Front(p)]].at[Last(p)]
                                           ELSE Absent
    BY <2>2, WalkFinds
  <2> HIDE DEF F
  <2>4. <<>> \in T
    BY <2>1, <2>3, EmptyPath
  <2>5. ASSUME NEW p \in Paths, p # <<>>, Front(p) \in T
        PROVE  p \in T
    BY <2>3, <2>5 DEF Absent, Prim, IsRef, IsDraft, IsObj
  <2>6. Paths \subseteq T
    <3> HIDE DEF T
    <3> QED
      BY <2>4, <2>5, PathInduction
  <2> QED
    BY <2>6 DEF Reached, F
<1> QED
  BY <1>1, <1>2

\* An object that current() looks into and does not copy leads to no draft.
LEMMA NotCopiedIsClean ==
    ASSUME NEW w, Sound(w), NEW v \in Value, ExistsIn(w, v), IsRef(v), ~IsCopied(w, v)
    PROVE  Clean(w, v)
<1>1. ~IsDraft(v) /\ IsObj(v) /\ v.id \in DOMAIN w.heap
  BY DEF IsCopied, IsRef, ExistsIn
<1>2. /\ Held(w, v) \subseteq DOMAIN w.heap /\ v.id \in Held(w, v)
      /\ \A a \in Held(w, v), k \in Keys :
            IsObj(w.heap[a].at[k]) => w.heap[a].at[k].id \in Held(w, v)
  <2>1. \A a \in DOMAIN w.heap, k \in Keys : ExistsIn(w, w.heap[a].at[k])
    BY DEF Sound, WorldOK
  <2> QED
    BY <1>1, <2>1, LedToCloses DEF Held, ExistsIn
<1>3. CleanSet(w, Held(w, v))
  BY <1>2 DEF CleanSet, IsCopied
<1> QED
  BY <1>1, <1>2, <1>3 DEF Clean

\* What the snapshot of a draft shares leads to no draft, and is no copy.
LEMMA SharedIsClean ==
    ASSUME NEW w, Sound(w), BaseClosed, Lazy(w), Hidden(w), NEW d \in DraftIds(w),
           NEW v \in KeptInSnapshot(w, Draft(d))
    PROVE  Clean(w, v) /\ ExistsIn(w, v) /\ \A c \in DraftIds(w) : v # Obj(Node(w, c).copy)
<1> DEFINE C == Current(w, Draft(d))
           F == Walk(Store(w), Draft(d))
<1>1. PICK p \in Paths : /\ v = C[p].value /\ IsRef(v)
                         /\ C[p].whole \/ ~IsCopied(w, v)
  BY DEF KeptInSnapshot
<1>2. Entry(w, C[p]) /\ Shows(w, C[p], F[p])
  BY CurrentShows
<1> HIDE DEF C
<1>3. v \in Value /\ ExistsIn(w, v)
  BY <1>1, <1>2 DEF Entry
<1>4. CASE C[p].whole
  <2>1. ~IsDraft(v) /\ IsObj(v) /\ v.id \in DOMAIN base
    BY <1>1, <1>2, <1>4 DEF Entry, IsRef
  <2>2. Clean(w, v)
    BY <1>3, <2>1, BaseClean
  <2>3. \A c \in DraftIds(w) : v # Obj(Node(w, c).copy)
    BY <2>1 DEF Sound, Kept, Obj
  <2> QED
    BY <1>3, <2>2, <2>3
<1>5. CASE ~C[p].whole
  <2>1. Clean(w, v) /\ ~IsDraft(v)
    BY <1>1, <1>3, <1>5, NotCopiedIsClean DEF Clean
  <2>2. v = F[p]
    BY <1>1, <1>2, <1>5 DEF Shows
  <2>3. v \in Reached(Store(w), Draft(d))
    BY <1>1, <2>2 DEF Reached
  <2>4. Draft(d) \in Value /\ ExistsIn(w, Draft(d)) /\ IsDraft(Draft(d))
    BY DraftExists
  <2>5. v = Draft(d) \/ \E a \in DOMAIN w.heap, k \in Keys : v = w.heap[a].at[k]
    BY <2>3, <2>4, ReachedHeld
  <2> QED
    BY <1>3, <2>1, <2>4, <2>5 DEF Hidden
<1> QED
  BY <1>4, <1>5

\* current() of a draft reads as the draft does.  What it shares with the state
\* leads to objects of the base and of the recipe only: to no draft, and to no
\* copy that a draft will write to.
THEOREM CurrentIsASnapshot == Spec => []CurrentIsSnapshot
<1>1. ASSUME SInv, phase = "recipe", NEW d \in DOMAIN drafts
      PROVE  /\ CurrentTree(W, Draft(d)) = View(W, Draft(d))
             /\ \A v \in KeptInSnapshot(W, Draft(d)) :
                   Reached(Store(W), v) \subseteq
                       {Obj(a) : a \in DOMAIN base \cup Fresh(W)}
  <2>1. /\ Sound(W) /\ BaseClosed /\ Lazy(W) /\ DraftIds(W) = DOMAIN drafts
        /\ Hidden(W) /\ DOMAIN base = 1 .. Len(base) /\ Len(base) \in Nat
        /\ DOMAIN W.heap \subseteq Nat \ {0}
    <3>1. DOMAIN W.heap \subseteq Nat \ {0}
      BY <1>1, InvParts, WorldParts DEF SInv, UInv, Sound, WorldOK
    <3> QED
      BY <1>1, <3>1, InvParts DEF SInv, UInv, Outcome
  <2>2. CurrentTree(W, Draft(d)) = View(W, Draft(d))
    BY <2>1, CurrentReads
  <2>3. ASSUME NEW v \in KeptInSnapshot(W, Draft(d)), NEW u \in Reached(Store(W), v)
        PROVE  u \in {Obj(a) : a \in DOMAIN base \cup Fresh(W)}
    <3>1. Clean(W, v) /\ ExistsIn(W, v) /\ \A c \in DraftIds(W) : v # Obj(Node(W, c).copy)
      BY <2>1, SharedIsClean
    <3>2. ~IsDraft(u) /\ IsRef(u)
      BY <2>1, <3>1, CleanReached DEF Reached
    <3>3. v \in Value
      BY <3>1 DEF Clean
    <3>4. u = v \/ \E a \in DOMAIN W.heap, k \in Keys : u = W.heap[a].at[k]
      BY <2>1, <3>1, <3>3, ReachedHeld
    <3>5. \A c \in DraftIds(W) : u # Obj(Node(W, c).copy)
      <4>1. \A a \in DOMAIN W.heap, k \in Keys, c \in DraftIds(W) :
               W.heap[a].at[k] # Obj(Node(W, c).copy)
        BY <2>1 DEF Hidden
      <4> QED
        BY <3>1, <3>4, <4>1
    <3>6. u \in Value /\ ExistsIn(W, u)
      <4>1. \A a \in DOMAIN W.heap, k \in Keys :
               W.heap[a].at[k] \in Value /\ ExistsIn(W, W.heap[a].at[k])
        BY <2>1, StoreLeads
      <4> QED
        BY <3>1, <3>3, <3>4, <4>1
    <3>7. u = Obj(u.id) /\ u.id \in DOMAIN W.heap
      BY <3>2, <3>6, ValueLeads DEF IsRef
    <3>8. u.id \in DOMAIN base \/ u.id \in Fresh(W)
      BY <2>1, <3>5, <3>7 DEF Fresh
    <3> QED
      BY <3>7, <3>8
  <2> QED
    BY <2>2, <2>3
<1>2. SInv => CurrentIsSnapshot
  BY <1>1 DEF CurrentIsSnapshot
<1> QED
  BY <1>2, UnmarkedCopiesUnheld, PTL
=============================================================================
