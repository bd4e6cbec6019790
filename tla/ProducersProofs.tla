-------------------------- MODULE ProducersProofs --------------------------
(***************************************************************************)
(* The invariants of Producers for any number of producers and drafts.     *)
(***************************************************************************)
EXTENDS Producers, TLAPS

\* The drafts of a live producer, and of no other, can be revoked; there is at
\* least one, which is how trackArrayMethod() and assertDraftActive() tell.
Alive == \A p \in Producers : /\ revoke[p] # {} <=> status[p] = "live"
                              /\ revoke[p] \subseteq 1 .. created[p]

\* Methods are read from drafts that exist.
HandedExist == \A x \in handed : x[2] <= created[x[1]]

IInv == TypeOK /\ Alive /\ HandedExist /\ KeepsOnlyRunning /\ MethodsRecognized

\* At first no producer has started.
LEMMA InitOK == Init => IInv
BY DraftsAssumption
   DEF Init, IInv, TypeOK, Alive, HandedExist, KeepsOnlyRunning, MethodsRecognized

\* A new draft of a producer that is new or live.
LEMMA CreateDraftOK ==
    ASSUME IInv, NEW p \in Producers, CreateDraft(p),
           status' = [status EXCEPT ![p] = "live"], status[p] # "ended",
           UNCHANGED scoped, UNCHANGED cache, iterators' \subseteq Proxy
    PROVE  IInv'
<1>1. /\ created[p] \in Nat /\ created[p] < MaxDrafts
      /\ created' = [created EXCEPT ![p] = @ + 1]
      /\ revoke' = [revoke EXCEPT ![p] = @ \cup {created[p] + 1}]
  BY DraftsAssumption DEF CreateDraft, IInv, TypeOK
<1>2. TypeOK'
  BY <1>1, DraftsAssumption DEF IInv, TypeOK, cache
<1>3. Alive'
  <2> SUFFICES ASSUME NEW q \in Producers
               PROVE  /\ revoke'[q] # {} <=> status'[q] = "live"
                      /\ revoke'[q] \subseteq 1 .. created'[q]
    BY DEF Alive
  <2>1. CASE q = p
    BY <1>1, <2>1 DEF IInv, TypeOK, Alive
  <2>2. CASE q # p
    BY <1>1, <2>2 DEF IInv, TypeOK, Alive
  <2> QED
    BY <2>1, <2>2
<1>4. HandedExist'
  BY <1>1, DraftsAssumption DEF IInv, TypeOK, HandedExist, cache, Proxy
<1>5. KeepsOnlyRunning'
  BY DEF IInv, TypeOK, KeepsOnlyRunning, cache, Proxy
<1>6. MethodsRecognized'
  <2> SUFFICES ASSUME NEW x \in handed, Active(x)'
               PROVE  Recognized(x)
    BY DEF MethodsRecognized, Recognized, cache
  <2>1. x \in Proxy /\ x[2] <= created[x[1]]
    BY DEF IInv, TypeOK, HandedExist
  <2>2. Active(x)
    BY <1>1, <2>1 DEF Active, Proxy, IInv, TypeOK
  <2> QED
    BY <2>2 DEF IInv, MethodsRecognized
<1> QED
  BY <1>2, <1>3, <1>4, <1>5, <1>6 DEF IInv

\* The array that was read last is registered before another takes its place.
LEMMA ReadMethodOK ==
    ASSUME IInv, NEW x \in Proxy, ReadMethod(x)
    PROVE  IInv'
<1>1. /\ Active(x) /\ x[1] \in Producers /\ status[x[1]] = "live"
      /\ x[2] <= created[x[1]]
  BY DraftsAssumption DEF ReadMethod, Active, Proxy, IInv, TypeOK, Alive
<1>2. /\ handed' = handed \cup {x} /\ status' = status /\ scoped' = scoped
      /\ created' = created /\ revoke' = revoke /\ iterators' = iterators
  BY DEF ReadMethod
<1>3. Alive' /\ HandedExist'
  BY <1>1, <1>2 DEF IInv, Alive, HandedExist
<1>4. CASE x = recentProxy
  <2>1. UNCHANGED <<recentProxy, recentRevoke, arrayProxies>>
    BY <1>4 DEF ReadMethod
  <2> QED
    BY <1>2, <1>3, <1>4, <2>1
       DEF IInv, TypeOK, KeepsOnlyRunning, MethodsRecognized, Recognized, Active
<1>5. CASE x # recentProxy
  <2>1. Track(x)
    BY <1>5 DEF ReadMethod
  <2>2. TypeOK' /\ KeepsOnlyRunning'
    <3>1. arrayProxies' \subseteq Proxy
      BY <2>1 DEF Track, IInv, TypeOK, None
    <3>2. \/ recentProxy' = x /\ recentRevoke' = <<x[1]>> /\ scoped[x[1]]
          \/ recentProxy' = None /\ recentRevoke' = None
      BY <2>1 DEF Track
    <3>3. TypeOK'
      BY <1>2, <3>1, <3>2 DEF IInv, TypeOK
    <3> QED
      BY <1>1, <1>2, <3>2, <3>3 DEF KeepsOnlyRunning
  <2>3. recentProxy # None => recentProxy \in arrayProxies'
    <3> SUFFICES ASSUME recentProxy # None
                 PROVE  recentProxy \in arrayProxies'
      OBVIOUS
    <3>1. recentRevoke = <<recentProxy[1]>> /\ recentProxy \in Proxy
      BY DEF IInv, TypeOK
    <3>2. recentProxy[1] \in Producers
      BY <3>1 DEF Proxy
    <3>3. recentRevoke # None
      BY <3>1 DEF None
    <3>4. revoke[recentRevoke[1]] # {}
      BY <3>1, <3>2 DEF IInv, KeepsOnlyRunning, Alive
    <3> QED
      BY <2>1, <3>3, <3>4 DEF Track
  <2>4. arrayProxies \subseteq arrayProxies' /\ (x = recentProxy' \/ x \in arrayProxies')
    BY <2>1 DEF Track
  <2>5. MethodsRecognized'
    <3> SUFFICES ASSUME NEW y \in handed \cup {x}, Active(y)
                 PROVE  y = recentProxy' \/ y \in arrayProxies'
      BY <1>2 DEF MethodsRecognized, Recognized, Active
    <3>1. CASE y = x
      BY <2>4, <3>1
    <3>2. CASE y \in handed
      <4>1. y = recentProxy \/ y \in arrayProxies
        BY <3>2 DEF IInv, MethodsRecognized, Recognized
      <4>2. y \in Proxy
        BY <3>2 DEF IInv, TypeOK
      <4>3. y # None
        BY <4>2 DEF Proxy, None
      <4> QED
        BY <2>3, <2>4, <4>1, <4>3
    <3> QED
      BY <3>1, <3>2
  <2> QED
    BY <1>3, <2>2, <2>5 DEF IInv
<1> QED
  BY <1>4, <1>5

\* The cache is left alone by the end of a producer that it does not keep.
LEMMA RevokeOK ==
    ASSUME IInv, NEW p \in Producers, Revoke(p),
           Release(p) \/ (~scoped[p] /\ UNCHANGED <<recentProxy, recentRevoke>>)
    PROVE  IInv'
<1>1. /\ status' = [status EXCEPT ![p] = "ended"]
      /\ revoke' = [revoke EXCEPT ![p] = {}]
      /\ scoped' = scoped /\ created' = created /\ iterators' = iterators
      /\ arrayProxies' = arrayProxies /\ handed' = handed
  BY DEF Revoke
<1>2. \/ recentProxy' = None /\ recentRevoke' = None /\ recentRevoke = <<p>>
      \/ /\ recentProxy' = recentProxy /\ recentRevoke' = recentRevoke
         /\ recentProxy # None => recentProxy[1] # p
  BY DEF Release, IInv, TypeOK, KeepsOnlyRunning, None
<1>3. TypeOK'
  BY <1>1, <1>2 DEF IInv, TypeOK
<1>4. Alive' /\ HandedExist'
  BY <1>1 DEF IInv, TypeOK, Alive, HandedExist
<1>5. KeepsOnlyRunning'
  BY <1>1, <1>2 DEF IInv, TypeOK, KeepsOnlyRunning
<1>6. MethodsRecognized'
  <2> SUFFICES ASSUME NEW x \in handed, Active(x)'
               PROVE  x = recentProxy' \/ x \in arrayProxies
    BY <1>1 DEF MethodsRecognized, Recognized
  <2>1. x \in Proxy
    BY DEF IInv, TypeOK
  <2>2. Active(x) /\ x[1] # p
    BY <1>1, <2>1 DEF Active, Proxy, IInv, TypeOK
  <2>3. x = recentProxy \/ x \in arrayProxies
    BY <2>2 DEF IInv, MethodsRecognized, Recognized
  <2>4. recentProxy # None /\ recentRevoke = <<p>> => recentProxy[1] = p
    BY DEF IInv, TypeOK, None
  <2> QED
    BY <1>2, <2>1, <2>2, <2>3, <2>4 DEF Proxy, None, IInv, TypeOK
<1> QED
  BY <1>3, <1>4, <1>5, <1>6 DEF IInv

\* Every step keeps the invariant.
LEMMA NextOK == IInv /\ [Next]_vars => IInv'
<1> SUFFICES ASSUME IInv, [Next]_vars
             PROVE  IInv'
  OBVIOUS
<1>1. ASSUME NEW p \in Producers, Create(p)
      PROVE  IInv'
  BY <1>1, CreateDraftOK DEF Create, IInv, TypeOK
<1>2. ASSUME NEW p \in Producers, Finish(p) \/ Fail(p) \/ Finalize(p)
      PROVE  IInv'
  BY <1>2, RevokeOK DEF Finish, Fail, Finalize
<1>3. ASSUME NEW x \in Proxy, Read(x) \/ NextItem(x)
      PROVE  IInv'
  <2>1. /\ x[1] \in Producers /\ CreateDraft(x[1]) /\ revoke[x[1]] # {}
        /\ status' = status /\ scoped' = scoped /\ iterators' = iterators
        /\ UNCHANGED cache
    BY <1>3 DEF Read, NextItem, Active, Proxy
  <2>2. status[x[1]] = "live" /\ iterators \subseteq Proxy
    BY <2>1 DEF IInv, TypeOK, Alive
  <2>3. status' = [status EXCEPT ![x[1]] = "live"]
    BY <2>1, <2>2 DEF IInv, TypeOK
  <2> QED
    BY <2>1, <2>2, <2>3, CreateDraftOK
<1>4. ASSUME NEW x \in Proxy, ReadMethod(x)
      PROVE  IInv'
  BY <1>4, ReadMethodOK
<1>5. ASSUME NEW x \in Proxy, Iterate(x)
      PROVE  IInv'
  BY <1>5 DEF Iterate, IInv, TypeOK, Alive, HandedExist, KeepsOnlyRunning,
              MethodsRecognized, Recognized, Active, cache
<1>6. CASE UNCHANGED vars
  BY <1>6 DEF vars, IInv, TypeOK, Alive, HandedExist, KeepsOnlyRunning,
              MethodsRecognized, Recognized, Active
<1> QED
  BY <1>1, <1>2, <1>3, <1>4, <1>5, <1>6 DEF Next

\* So it holds in every state.
LEMMA Invariant == Spec => []IInv
BY InitOK, NextOK, PTL DEF Spec

-----------------------------------------------------------------------------

\* The lists and the cache of the producers are lists of their own drafts, and
\* what the cache keeps of a producer belongs together.
THEOREM ProducersTypeCorrect == Spec => []TypeOK
<1>1. IInv => TypeOK
  BY DEF IInv
<1> QED
  BY <1>1, Invariant, PTL

\* No iterator and no proxy drafts anything for a producer that has ended.
THEOREM EndedProducersDraftNothing == Spec => []EndedDraftsNothing
<1>1. IInv => EndedDraftsNothing
  BY DEF IInv, Alive, EndedDraftsNothing
<1> QED
  BY <1>1, Invariant, PTL

\* The array method cache keeps only producers whose recipe is running.
THEOREM CacheKeepsOnlyRunning == Spec => []KeepsOnlyRunning
<1>1. IInv => KeepsOnlyRunning
  BY DEF IInv
<1> QED
  BY <1>1, Invariant, PTL

\* Methods know the live drafts that they were read from, however the steps of
\* the producers follow each other.
THEOREM HandedMethodsRecognized == Spec => []MethodsRecognized
<1>1. IInv => MethodsRecognized
  BY DEF IInv
<1> QED
  BY <1>1, Invariant, PTL
=============================================================================
