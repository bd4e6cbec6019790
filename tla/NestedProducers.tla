-------------------------- MODULE NestedProducers ---------------------------
(***************************************************************************)
(* Producers that run inside the recipe of another one, on plain objects   *)
(* in one heap, with automatic freezing.  An inner recipe uses the drafts  *)
(* of the outer producer, changes them, and places them in its own state;  *)
(* the outer recipe goes on after the inner producer ended, and may store  *)
(* its result.                                                             *)
(***************************************************************************)
EXTENDS DraftHeap, FiniteSets

CONSTANTS
    Roots,      \* the base object's address of each producer; the first is outer
    Heaps,      \* heaps that hold the base states
    MaxDrafts,  \* bound: drafts of all producers
    MaxWrites   \* bound: changes of all recipes

ASSUME NestedAssumption ==
    /\ Roots \in Seq(Nat) /\ Roots # <<>>
    /\ \A h \in Heaps : Range(Roots) \subseteq DOMAIN h
    /\ MaxDrafts \in Nat /\ MaxWrites \in Nat

Producer == DOMAIN Roots
Outer    == 1

VARIABLES
    base,       \* the heap before the producers started
    heap, drafts,
    owner,      \* the producer of each draft
    tasks, handled,     \* finalities.draft and handledSet of each producer
    running,    \* the producers whose recipes run, the innermost last
    ended,      \* those that ended
    freezes,    \* options.enableAutoFreeze of each producer
    frozen,     \* the addresses of frozen objects
    results,    \* what each ended producer returned, Absent before
    writes

vars == <<base, heap, drafts, owner, tasks, handled, running, ended, freezes,
          frozen, results, writes>>

\* The world of producer p.
W(p) == [heap |-> heap, drafts |-> drafts, tasks |-> tasks[p],
         handled |-> handled[p]]
Become(p, w) == /\ heap' = w.heap /\ drafts' = w.drafts
                /\ tasks' = [tasks EXCEPT ![p] = w.tasks]
                /\ handled' = [handled EXCEPT ![p] = w.handled]

DraftsOf(p) == {d \in DOMAIN drafts : owner[d] = p}
RootOf(p)   == CHOOSE d \in DraftsOf(p) : drafts[d].parent = Null
Usable(d)   == owner[d] \in Range(running)
Innermost   == Last(running)

Init ==
    /\ base \in Heaps
    /\ heap = base
    /\ drafts = <<>> /\ owner = <<>>
    /\ tasks = [p \in Producer |-> <<>>]
    /\ handled = [p \in Producer |-> {}]
    /\ running = <<>> /\ ended = {}
    /\ \E autoFreeze \in BOOLEAN : freezes = [p \in Producer |-> autoFreeze]
    /\ frozen = {}
    /\ results = [p \in Producer |-> Absent]
    /\ writes = 0

-----------------------------------------------------------------------------
\* create(): inner producers start in the recipe of the outer one.
Start(p) ==
    /\ p \notin Range(running) \cup ended
    /\ running = <<>> <=> p = Outer
    /\ Len(drafts) < MaxDrafts
    /\ Become(p, CreateDraft(W(p), Roots[p], Null, NoKey))
    /\ owner' = Append(owner, p)
    /\ running' = Append(running, p)
    /\ UNCHANGED <<base, ended, freezes, frozen, results, writes>>

\* Any recipe that runs reads through any draft whose producer runs.
Get(d, k) ==
    /\ Len(drafts) < MaxDrafts
    /\ ~drafts[d].finalized
    /\ IsObj(Latest(W(owner[d]), d).at[k])
    /\ Latest(W(owner[d]), d).at[k] = Original(W(owner[d]), d).at[k]
    /\ Become(owner[d], DraftChild(W(owner[d]), d, k))
    /\ owner' = Append(owner, owner[d])
    /\ UNCHANGED <<base, running, ended, freezes, frozen, results, writes>>

\* What is assigned to a draft of p: primitives, results of producers that
\* ended, and drafts of p or of a producer around it.
Position(p)  == CHOOSE n \in DOMAIN running : running[n] = p
Assignable(p) ==
    PrimValues
    \cup ({results[q] : q \in ended} \ {Absent})
    \cup {Draft(d) : d \in {e \in DOMAIN drafts :
             Usable(e) /\ Position(owner[e]) <= Position(p)}}

\* Fault: the producer freezes its result whatever it holds.
FreezesStill(d, v) == freezes

\* A draft of another producer turns automatic freezing off: it may still
\* change, and gives way to its final value after this producer has ended.
FreezesAfter(d, v) ==
    IF IsDraft(v) /\ owner[v.id] # owner[d]
    THEN [freezes EXCEPT ![owner[d]] = FALSE] ELSE freezes

\* The set trap; no value is the original of a draft at the key.
Set(d, k, v) ==
    LET p    == owner[d]
        w    == MarkChanged(EnsureShallowCopy(W(p), d), d)
        same == HasOwn(Original(w, d), k) /\ v = Read(Original(w, d), k)
        w1   == Assigned(w, d, k, IF same THEN "none" ELSE "set")
        w2   == MarkFinalization(Put(w1, d, k, v), d, k, v)
    IN  /\ writes < MaxWrites
        /\ v # Latest(W(p), d).at[k]
        /\ Shallow(Store(w2))
        /\ Become(p, w2)
        /\ freezes' = FreezesAfter(d, v)
        /\ writes' = writes + 1
        /\ UNCHANGED <<base, owner, running, ended, frozen, results>>

\* The innermost recipe throws; a recipe around it may catch the error.
Fail ==
    /\ running # <<>>
    /\ running' = Front(running)
    /\ ended' = ended \cup {Innermost}
    /\ UNCHANGED <<base, heap, drafts, owner, tasks, handled, freezes, frozen,
                   results, writes>>

-----------------------------------------------------------------------------
(***************************************************************************)
(* finalizeDraft() of one producer, from the end of its list.              *)
(***************************************************************************)

\* Fault: any draft found at the key has its turn here.
FinalizeFound(w, p, d) ==
    LET parent == Node(w, d).parent
        k      == Node(w, d).key
        here   == IF parent = Null THEN Draft(d) ELSE Copy(w, parent).at[k]
        w1     == IF IsDraft(here) /\ HasEntries(w, here.id)
                  THEN [w EXCEPT !.drafts[here.id].finalized = TRUE] ELSE w
    IN  RunCallbacks(IF parent # Null /\ IsDraft(here)
                     THEN Put(w1, parent, k, Final(w1, here.id)) ELSE w1, d)

\* finalizeNode(): only the node itself is finalized; another draft at its key
\* is left to its own node, and its value taken.
FinalizeNode(w, p, d) ==
    LET parent == Node(w, d).parent
        k      == Node(w, d).key
        here   == IF parent = Null THEN Draft(d) ELSE Copy(w, parent).at[k]
        w1     == IF here = Draft(d) /\ Node(w, d).operated /\ HasEntries(w, d)
                  THEN [w EXCEPT !.drafts[d].finalized = TRUE] ELSE w
    IN  RunCallbacks(IF parent # Null /\ IsDraft(here)
                     THEN Put(w1, parent, k, Final(w1, here.id)) ELSE w1, d)

\* handleValue() does not look into frozen objects; a producer with its root
\* draft alone has no drafts to look for.
FinalizeTask(w, p, task) ==
    IF Cardinality(DraftsOf(p)) = 1 THEN w
    ELSE LET w1 == FinalizeAssigned([w EXCEPT !.handled = @ \cup frozen], task)
         IN  [w1 EXCEPT !.handled = w.handled \cup (@ \ frozen)]

Finalized(p) ==
    LET step(w, task) == IF task.kind = "node" THEN FinalizeNode(w, p, task.draft)
                         ELSE FinalizeTask(w, p, task)
        all == Len(tasks[p])
        after[n \in 0 .. all] == IF n = 0 THEN W(p)
                                 ELSE step(after[n - 1], tasks[p][all + 1 - n])
    IN  IF drafts[RootOf(p)].operated THEN after[all] ELSE W(p)

\* deepFreeze() stops at drafts and at what is frozen.
DeepFreeze(w, v) == frozen \cup Visited([w EXCEPT !.handled = frozen], v)

\* The innermost recipe returns.
Return ==
    /\ running # <<>>
    /\ LET p == Innermost
           w == [Finalized(p) EXCEPT !.tasks = <<>>]
           v == Final(w, RootOf(p))
       IN  /\ Become(p, w)
           /\ results' = [results EXCEPT ![p] = v]
           /\ frozen' = IF freezes[p] THEN DeepFreeze(w, v) ELSE frozen
    /\ running' = Front(running)
    /\ ended' = ended \cup {Innermost}
    /\ UNCHANGED <<base, owner, freezes, writes>>

Next ==
    \/ \E p \in Producer : Start(p)
    \/ \E d \in {e \in DOMAIN drafts : Usable(e)}, k \in Keys :
          \/ Get(d, k)
          \/ \E v \in Assignable(owner[d]) : Set(d, k, v)
    \/ Fail
    \/ Return

Spec == Init /\ [][Next]_vars

-----------------------------------------------------------------------------
(***************************************************************************)
(* What the producers promise each other.                                  *)
(***************************************************************************)

\* No producer finalizes a draft whose own recipe still runs: its later reads
\* would hand out objects of the base.
RunningUnfinalized == \A d \in DOMAIN drafts : Usable(d) => ~drafts[d].finalized

\* No trap, callback or finalization step writes to a frozen object, which
\* throws: not to a copy that an inner producer froze under the outer recipe,
\* nor to an inner result that waits for an outer draft's final value.
FrozenUnwritten == [][\A a \in frozen : heap'[a] = heap[a]]_vars

\* When an inner producer ends, the outer state reads as before; when the outer
\* one ends, its result reads as its drafts did, and leads to none of them.
EndsAsSeen ==
    [][Return =>
         LET p    == Innermost
             root == RootOf(Outer)
             seen == View(W(Outer), Draft(root))
             next == Store([heap |-> heap', drafts |-> drafts'])
         IN  IF p = Outer
             THEN /\ Tree(next, results'[Outer]) = seen
                  /\ \A v \in Reached(next, results'[Outer]) :
                        IsDraft(v) => owner[v.id] # Outer
             ELSE Tree(next, Draft(root)) = seen]_vars
=============================================================================
