----------------------------- MODULE Producers -----------------------------
(***************************************************************************)
(* The life of producers that run at the same time: nested create() calls, *)
(* asynchronous recipes between two awaits, and drafts that create(base)   *)
(* returns without a recipe.  Their steps may follow each other in any     *)
(* order, since code that holds a draft may use it while another producer  *)
(* runs.  Two things outlive a call: the cache by which array.ts           *)
(* recognizes the drafts whose methods were read, and the iterators of Map *)
(* and Set drafts, which keep the state of their draft.                    *)
(*                                                                         *)
(* Every draft here can be read as an array, and can be iterated over.     *)
(***************************************************************************)
EXTENDS Integers, FiniteSets

CONSTANTS
    Producers,  \* the calls of create()
    MaxDrafts   \* bound: drafts of one producer

ASSUME DraftsAssumption == MaxDrafts \in Nat \ {0}

VARIABLES
    status,         \* "new", "live" or "ended"
    scoped,         \* finalities.scoped: the producer has a recipe
    created,        \* the number of drafts created, the root included
    revoke,         \* finalities.revoke: the drafts that can be revoked
    recentProxy,    \* the array whose optimized method was read last
    recentRevoke,   \* ... and whose revoke list is kept with it: <<p>>, or None
    arrayProxies,   \* the arrays registered weakly
    iterators,      \* the drafts that an iterator is left of
    handed          \* the drafts whose optimized methods have been read

vars == <<status, scoped, created, revoke, recentProxy, recentRevoke,
          arrayProxies, iterators, handed>>
cache == <<recentProxy, recentRevoke, arrayProxies, handed>>

Proxy == Producers \X (1 .. MaxDrafts)
None  == <<>>                                \* null

Active(x) == x[2] \in revoke[x[1]]           \* not revoked

Init ==
    /\ status = [p \in Producers |-> "new"]
    /\ scoped \in [Producers -> BOOLEAN]
    /\ created = [p \in Producers |-> 0]
    /\ revoke = [p \in Producers |-> {}]
    /\ recentProxy = None /\ recentRevoke = None
    /\ arrayProxies = {} /\ iterators = {} /\ handed = {}

\* createDraft(): the draft gets an entry in the revoke list of its producer.
CreateDraft(p) ==
    /\ created[p] < MaxDrafts
    /\ created' = [created EXCEPT ![p] = @ + 1]
    /\ revoke'  = [revoke EXCEPT ![p] = @ \cup {created[p] + 1}]

\* create(): the base is drafted, and the recipe starts if there is one.
Create(p) ==
    /\ status[p] = "new"
    /\ status' = [status EXCEPT ![p] = "live"]
    /\ CreateDraft(p)
    /\ UNCHANGED <<scoped, iterators, cache>>

\* A read through a draft drafts a child; a revoked proxy throws.
Read(x) ==
    /\ Active(x)
    /\ CreateDraft(x[1])
    /\ UNCHANGED <<status, scoped, iterators, cache>>

-----------------------------------------------------------------------------
(***************************************************************************)
(* The array methods: array.ts.                                            *)
(***************************************************************************)

\* Fault: the array read before is forgotten.
TrackForgets(x) ==
    /\ recentProxy'  = IF scoped[x[1]] THEN x ELSE None
    /\ recentRevoke' = IF scoped[x[1]] THEN <<x[1]>> ELSE None
    /\ arrayProxies' = IF scoped[x[1]] THEN arrayProxies
                                       ELSE arrayProxies \cup {x}

\* trackArrayMethod(), if x is not the array read last: that one is registered
\* if its producer is live, and x is kept, or registered if its producer has no
\* recipe that ends.
Track(x) ==
    LET earlier == IF /\ recentRevoke # None
                      /\ revoke[recentRevoke[1]] # {}
                   THEN {recentProxy} ELSE {}
    IN  /\ recentProxy'  = IF scoped[x[1]] THEN x ELSE None
        /\ recentRevoke' = IF scoped[x[1]] THEN <<x[1]>> ELSE None
        /\ arrayProxies' = arrayProxies \cup earlier
                           \cup IF scoped[x[1]] THEN {} ELSE {x}

\* An optimized method is read from a draft, to be called now or later.
ReadMethod(x) ==
    /\ Active(x)
    /\ IF x = recentProxy
       THEN UNCHANGED <<recentProxy, recentRevoke, arrayProxies>>
       ELSE Track(x)
    /\ handed' = handed \cup {x}
    /\ UNCHANGED <<status, scoped, created, revoke, iterators>>

\* nativeState(): whether a method knows the draft that it is called on.
Recognized(x) == x = recentProxy \/ x \in arrayProxies

\* Fault: the revoke list is kept.
ReleaseProxyOnly(p) ==
    /\ recentProxy' = IF recentRevoke = <<p>> THEN None ELSE recentProxy
    /\ UNCHANGED recentRevoke

\* releaseArrayMethods().
Release(p) ==
    IF recentRevoke = <<p>>
    THEN recentProxy' = None /\ recentRevoke' = None
    ELSE UNCHANGED <<recentProxy, recentRevoke>>

-----------------------------------------------------------------------------
(***************************************************************************)
(* The iterators of Map and Set drafts: map.ts, set.ts.                    *)
(***************************************************************************)

\* values() or entries(): the iterator keeps the state of the draft.
Iterate(x) ==
    /\ Active(x)
    /\ iterators' = iterators \cup {x}
    /\ UNCHANGED <<status, scoped, created, revoke, cache>>

\* Fault: the next item is drafted whether or not the producer has ended.
NextUnasserted(x) ==
    /\ x \in iterators
    /\ CreateDraft(x[1])
    /\ UNCHANGED <<status, scoped, iterators, cache>>

\* next() drafts an item, unless assertDraftActive() throws.
NextItem(x) ==
    /\ x \in iterators
    /\ revoke[x[1]] # {}
    /\ CreateDraft(x[1])
    /\ UNCHANGED <<status, scoped, iterators, cache>>

-----------------------------------------------------------------------------
(***************************************************************************)
(* The end of a producer: makeCreator.ts and finalizeDraft().              *)
(***************************************************************************)

\* revokeProxy(), with which every producer ends.
Revoke(p) ==
    /\ status[p] = "live"
    /\ status' = [status EXCEPT ![p] = "ended"]
    /\ revoke' = [revoke EXCEPT ![p] = {}]
    /\ UNCHANGED <<scoped, created, iterators, arrayProxies, handed>>

\* The recipe has returned, or its promise is resolved: create() returns.
Finish(p) == scoped[p] /\ Revoke(p) /\ Release(p)

\* Fault: a recipe that throws leaves the cache as it is.
FailUnreleased(p) ==
    scoped[p] /\ Revoke(p) /\ UNCHANGED <<recentProxy, recentRevoke>>

\* The recipe threw, its promise was rejected, or what it returned is refused.
Fail(p) == scoped[p] /\ Revoke(p) /\ Release(p)

\* finalize(), as create(base) returned it.
Finalize(p) ==
    ~scoped[p] /\ Revoke(p) /\ UNCHANGED <<recentProxy, recentRevoke>>

\* Every producer may have ended, and the drafts that are left be used up.
Next ==
    \/ \E p \in Producers : Create(p) \/ Finish(p) \/ Fail(p) \/ Finalize(p)
    \/ \E x \in Proxy : Read(x) \/ ReadMethod(x) \/ Iterate(x) \/ NextItem(x)

Spec == Init /\ [][Next]_vars

-----------------------------------------------------------------------------

\* Every part of the state has its type, and the cache keeps an array with the
\* revoke list of the producer that it belongs to.
TypeOK ==
    /\ status \in [Producers -> {"new", "live", "ended"}]
    /\ scoped \in [Producers -> BOOLEAN]
    /\ created \in [Producers -> 0 .. MaxDrafts]
    /\ revoke \in [Producers -> SUBSET (1 .. MaxDrafts)]
    /\ \/ recentProxy = None /\ recentRevoke = None
       \/ recentProxy \in Proxy /\ recentRevoke = <<recentProxy[1]>>
    /\ arrayProxies \subseteq Proxy
    /\ iterators \subseteq Proxy
    /\ handed \subseteq Proxy

\* A producer that has ended gets no new draft, which nothing would revoke:
\* neither through its proxies nor through an iterator that outlives it.
EndedDraftsNothing == \A p \in Producers : status[p] = "ended" => revoke[p] = {}

\* array.ts keeps alive no producer that has ended, nor one that may never end:
\* releaseArrayMethods() empties the cache on every way out of create().
KeepsOnlyRunning ==
    recentProxy # None => /\ status[recentProxy[1]] = "live"
                          /\ scoped[recentProxy[1]]

\* A method that was read from a draft still knows it when it is called, as long
\* as the draft lives, whatever other producers did in between.
MethodsRecognized == \A x \in handed : Active(x) => Recognized(x)
=============================================================================
