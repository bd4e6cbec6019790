---------------------------- MODULE ArrayMethods ----------------------------
(***************************************************************************)
(* The array methods that array.ts runs natively on the copy of an array   *)
(* draft, and the algorithms of the language that it falls back to, which  *)
(* go through the traps element by element.                                *)
(***************************************************************************)
EXTENDS ArrayHeap

Up(a, b)   == [j \in 1 .. b - a + 1 |-> a + j - 1]
Down(b, a) == [j \in 1 .. b - a + 1 |-> b + 1 - j]

-----------------------------------------------------------------------------
(***************************************************************************)
(* Through the traps.                                                      *)
(***************************************************************************)

\* Set(to, Get(from)), or a deletion if from is a hole.
Move(w, from, to) ==
    IF Own(w.array, from)
    THEN LET w1 == GetTrap(w, from) IN SetTrap(w1, to, w1.array[from])
    ELSE DeleteTrap(w, to)

\* Both elements of a pair are read before either is written.
Swap(w, low, high) ==
    LET w1 == GetTrap(GetTrap(w, low), high)
        a  == At(w1.array, low)
        b  == At(w1.array, high)
        w2 == IF b # Absent THEN SetTrap(w1, low, b) ELSE DeleteTrap(w1, low)
    IN  IF a # Absent THEN SetTrap(w2, high, a) ELSE DeleteTrap(w2, high)

\* A removed element of the base state is returned as a draft.
Removed(w, v, key) == IF key = Null THEN w
                      ELSE CreateDraft(EnsureShallowCopy(w), v.id, key)

\* A loop over the elements is a sequence of steps: each does something at one
\* index, with a value, or with what is at another index.
Step(op, at, from, v) == [op |-> op, at |-> at, from |-> from, value |-> v]
Take(w, step) ==
    CASE step.op = "read"   -> GetTrap(w, step.at)
      [] step.op = "set"    -> SetTrap(w, step.at, step.value)
      [] step.op = "delete" -> DeleteTrap(w, step.at)
      [] step.op = "move"   -> Move(w, step.from, step.at)
      [] step.op = "swap"   -> Swap(w, step.from, step.at)
      [] step.op = "remove" -> Removed(w, step.value, step.at)

Run(w, steps) ==
    LET run[n \in 0 .. Len(steps)] ==
            IF n = 0 THEN w ELSE Take(run[n - 1], steps[n])
    IN  run[Len(steps)]

\* Elements that a method returns are read, which drafts them.
ReadAll(w, indices)   == Run(w, [j \in DOMAIN indices |->
                                    Step("read", indices[j], 0, Absent)])
DeleteAll(w, indices) == Run(w, [j \in DOMAIN indices |->
                                    Step("delete", indices[j], 0, Absent)])
SetAll(w, start, items) == Run(w, [j \in DOMAIN items |->
                                      Step("set", start + j - 1, 0, items[j])])
MoveAll(w, froms, shift) ==
    Run(w, [j \in DOMAIN froms |-> Step("move", froms[j] + shift, froms[j], Absent)])

ProxyShift(w) ==
    LET n == Size(w)
    IN  SetLength(DeleteTrap(MoveAll(GetTrap(w, 1), Up(2, n), -1), n), n - 1)

ProxyUnshift(w, items) ==
    LET n == Size(w)
        w1 == MoveAll(w, Down(n, 1), Len(items))
    IN  SetLength(SetAll(w1, 1, items), n + Len(items))

ProxySplice(w, start, deleted, items) ==
    LET n    == Size(w)
        more == Len(items) - deleted
        w1   == ReadAll(w, Up(start, start + deleted - 1))
        w2   == IF more < 0
                THEN DeleteAll(MoveAll(w1, Up(start + deleted, n), more),
                               Down(n, n + more + 1))
                ELSE IF more > 0 THEN MoveAll(w1, Down(n, start + deleted), more)
                ELSE w1
    IN  SetLength(SetAll(w2, start, items), n + more)

ProxyReverse(w) ==
    LET n == Size(w)
    IN  Run(w, [low \in 1 .. n \div 2 |-> Step("swap", n + 1 - low, low, Absent)])

\* The default order: by the string of an element, undefined last.
Rank(v) == CASE v = Undefined                      -> 3
             [] v # Undefined /\ v.kind # "prim" -> 2
             [] OTHER                              -> 1
Precedes(u, v) == \/ Rank(u) < Rank(v)
                  \/ Rank(u) = 1 /\ Rank(v) = 1 /\ u.id < v.id

\* A stable sort of the elements, without the holes: the place of an element is
\* one more than the number of elements that belong before it.
Before(s, j, i) == Precedes(s[j], s[i]) \/ (~Precedes(s[i], s[j]) /\ j < i)
Places(s) ==
    LET own == {i \in DOMAIN s : s[i] # Absent}
    IN  [i \in own |-> 1 + Cardinality({j \in own : Before(s, j, i)})]
Sorted(s) ==
    LET place == Places(s)
    IN  [k \in 1 .. Cardinality(DOMAIN place) |->
            s[CHOOSE i \in DOMAIN place : place[i] = k]]

ProxySort(w) ==
    LET w1     == ReadAll(w, Up(1, Size(w)))
        sorted == Sorted(w1.array)
    IN  DeleteAll(SetAll(w1, 1, sorted), Up(Len(sorted) + 1, Size(w)))

ProxyPop(w) ==
    LET n == Size(w)
    IN  IF n = 0 THEN w
        ELSE SetLength(DeleteTrap(GetTrap(w, n), n), n - 1)

-----------------------------------------------------------------------------
(***************************************************************************)
(* Natively.                                                               *)
(***************************************************************************)

\* isDense() and isInert() fill their caches.
CheckDense(w) ==
    IF w.dense # "unknown" THEN w
    ELSE [w EXCEPT !.dense = IF HasHoles(w.array) THEN "no" ELSE "yes"]
IsDense(w) == CheckDense(w).dense = "yes"

CheckInert(w) ==
    IF w.inert # "unknown" THEN w
    ELSE [w EXCEPT !.inert =
             IF \E i \in DOMAIN w.array : IsRef(w.array[i]) THEN "no" ELSE "yes"]
IsInert(w) == CheckInert(w).inert = "yes"

\* registerAssigned(), of every value to its index: values is a function on
\* indices.
RegisterAssigned(w, values) ==
    LET new == {i \in DOMAIN values :
                   ~(Own(w.original, i) /\ values[i] = w.original[i])}
    IN  [w EXCEPT
            !.inert = IF \E i \in DOMAIN values : IsRef(values[i])
                      THEN "unknown" ELSE @,
            !.assigned = @ \cup new,
            !.drafts = [d \in DOMAIN w.drafts |->
                           [w.drafts[d] EXCEPT !.callbacks =
                               @ \cup {i \in new : values[i] = Draft(d)}]],
            !.tasks = @ \cup {[at |-> i, value |-> values[i]] :
                                 i \in {j \in new : IsObj(values[j]) /\
                                          values[j] \notin Range(w.original)}}]

\* relocate(): next says where each index goes, if anywhere.  The registered
\* drafts take their new indices, and are finalized there.
MoveChildren(w, next) ==
    LET kept == {c \in w.children : next[c[1]] >= 1}
    IN  [w EXCEPT
            !.children = {<<next[c[1]], c[2]>> : c \in kept},
            !.drafts = [d \in DOMAIN w.drafts |->
                           [w.drafts[d] EXCEPT !.callbacks =
                               @ \cup {next[c[1]] : c \in {k \in kept :
                                          k[2] = d /\ next[k[1]] # k[1]}}]]]

\* The assigned values that moved are registered again.
MoveAssigned(w, next) ==
    LET kept  == {i \in w.assigned : next[i] >= 1}
        moved == {next[i] : i \in {j \in kept : next[j] # j}}
    IN  RegisterAssigned([w EXCEPT !.assigned = {i \in kept : next[i] = i}],
                         [i \in moved |-> Seen(At(w.array, i))])

Relocate(w, next, from, to) ==
    MoveAssigned(MoveChildren(MarkRange(w, from, to), next), next)

\* Fault: only elements at their original index are drafted when removed.
RemovalKeyAtHome(w, i) ==
    IF IsObj(w.array[i]) THEN BaseIndexAtHome(w, w.array[i], i) ELSE Null

\* The original index of the element that is about to be removed, if it is an
\* element of the base state that has no draft.
RemovalKey(w, i) ==
    IF IsObj(w.array[i]) THEN BaseIndex(w, w.array[i], i) ELSE Null

NativeShift(w) ==
    LET w1 == [Prepare(w) EXCEPT !.array = Tail(@)]
        w2 == Relocate(w1, [i \in Nat |-> i - 1], 1, Size(w))
    IN  Removed(w2, w.array[1], RemovalKey(w, 1))

NativeUnshift(w, items) ==
    LET w1 == [Prepare(w) EXCEPT !.array = items \o @]
        w2 == Relocate(w1, [i \in Nat |-> i + Len(items)], 1, Size(w1))
    IN  RegisterAssigned(w2, items)

NativeSplice(w, start, deleted, items) ==
    LET n    == Size(w)
        more == Len(items) - deleted
        w1   == [Prepare(w) EXCEPT !.array =
                    SubSeq(@, 1, start - 1) \o items
                        \o SubSeq(@, start + deleted, n)]
        next == [i \in Nat |-> CASE i < start -> i
                                 [] i >= start /\ i < start + deleted -> 0
                                 [] OTHER -> i + more]
        w2   == Relocate(w1, next, start, IF more = 0 THEN start + deleted - 1
                                          ELSE Max({n, n + more}))
        w3   == RegisterAssigned(w2, [i \in start .. start + Len(items) - 1 |->
                                         items[i - start + 1]])
    IN  Run(w3, [j \in 1 .. deleted |->
                    LET i == start + j - 1
                    IN  Step("remove", RemovalKey(w, i), 0, w.array[i])])

\* Reading through the copy of a sorted array finds the same elements, so a
\* copy that already was in order is as good as one that was written again.
NativeSort(w) ==
    IF Sorted(w.array) = w.array THEN w
    ELSE MarkRange([Prepare(w) EXCEPT !.array = Sorted(@)], 1, Size(w))

NativeReverse(w) ==
    LET n == Size(w)
    IN  Relocate([Prepare(w) EXCEPT !.array = Reverse(@)],
                 [i \in Nat |-> n + 1 - i], 1, n)

-----------------------------------------------------------------------------
(***************************************************************************)
(* The methods.                                                            *)
(***************************************************************************)
ShiftMethod(w) ==
    CASE w.array = <<>>                  -> w
      [] w.array # <<>> /\ IsDense(w)    -> NativeShift(CheckDense(w))
      [] w.array # <<>> /\ ~IsDense(w)   -> ProxyShift(CheckDense(w))

UnshiftMethod(w, items) ==
    CASE items = <<>>                  -> w
      [] items # <<>> /\ IsDense(w)    -> NativeUnshift(CheckDense(w), items)
      [] items # <<>> /\ ~IsDense(w)   -> ProxyUnshift(CheckDense(w), items)

\* Whether a splice replaces elements by equal values, in which case, and when
\* it is up to the set trap to tell, it goes through the traps.
Unequal(w, i, v) == v # Seen(At(w.array, i))
OwnChild(w, i)   == \E c \in w.children : c[1] = i /\ Draft(c[2]) = At(w.array, i)
SpliceDiffers(w, start, items) ==
    LET differs(j) ==
            LET i == start + j - 1
                v == At(w.array, i)
            IN  /\ Unequal(w, i, items[j])
                /\ \/ ~IsRef(v)
                   \/ IsObj(v) /\ BaseIndex(w, v, i) # Null
                   \/ /\ IsDraft(v) /\ OwnChild(w, i)
                      /\ items[j] # Obj(Node(w, v.id).original)
        asks(j) ==
            LET i == start + j - 1
                v == At(w.array, i)
            IN  /\ Unequal(w, i, items[j])
                /\ \/ IsObj(v) /\ BaseIndex(w, v, i) = Null
                   \/ IsDraft(v) /\ ~OwnChild(w, i)
        first == {j \in DOMAIN items : differs(j) \/ asks(j)}
    IN  first # {} /\ differs(Min(first))

SpliceMethod(w, start, deleted, items) ==
    IF /\ deleted # Len(items) \/ SpliceDiffers(w, start, items)
       /\ IsDense(w)
    THEN NativeSplice(CheckDense(w), start, deleted, items)
    ELSE ProxySplice(IF deleted # Len(items) \/ SpliceDiffers(w, start, items)
                     THEN CheckDense(w) ELSE w, start, deleted, items)

SortMethod(w) ==
    LET w1 == CheckInert(w)
        w2 == IF IsInert(w) THEN CheckDense(w1) ELSE w1
    IN  IF IsInert(w) /\ IsDense(w1) THEN NativeSort(w2) ELSE ProxySort(w2)

\* A palindrome without records stays as it is.
Palindrome(w) == w.array = Reverse(w.array) /\ w.assigned = {} /\ ~w.length

ReverseMethod(w) ==
    LET w1 == CheckDense(w)
    IN  CASE Size(w) < 2                                  -> w
          [] Size(w) >= 2 /\ ~IsDense(w)                  -> ProxyReverse(w1)
          [] Size(w) >= 2 /\ IsDense(w) /\ Palindrome(w)  -> w1
          [] OTHER                                        -> NativeReverse(w1)

\* Fault: an element of the base state is found.
IndexOfRaw(w, v) == Min({i \in DOMAIN w.array : w.array[i] = v} \cup {Size(w) + 1})

\* search(): indexOf() on the copy of a dense array: an element of the
\* base state is skipped, since a read would draft it.
IndexOf(w, v) ==
    Min({i \in DOMAIN w.array : w.array[i] = v /\ BaseIndex(w, v, i) = Null}
        \cup {Size(w) + 1})
=============================================================================
