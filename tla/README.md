# Mutative in TLA+

Mutative's `create(base, recipe)` runs a recipe on *drafts*, which are proxies
of the base state that copy on write, and returns the next immutable state, and
on request the patches that lead to it and back.  This directory holds
specifications of that machinery, translated from `src/src/`, their
configurations for TLC, and proofs checked by TLAPS.

    tlc -config Objects.cfg MCDrafts.tla        # also Moves, Fresh, NestedFresh,
                                                # Implements, Settles
    tlc -config Producers.cfg MCProducers.tla
    tlc -config Nested.cfg MCNested.tla
    tlc -config Arrays.cfg MCArrays.tla         # also SparseArrays, SharedArrays
    tlc -config Sets.cfg MCSets.tla
    tlapm DraftsProofs.tla      # also UnchangedProofs, FinalProofs
    tlapm ArrayTrapsProofs.tla  # also ArrayProofs
    tlapm NestedProofs.tla
    tlapm ProducersProofs.tla
    tlapm SetsProofs.tla

Sources below are relative to `src/src/`.

## The system

| Component | State it keeps | Operations | Modelled in |
|---|---|---|---|
| Object and Map drafts: `draft.ts`, `map.ts`, `utils/mark.ts`, `utils/copy.ts` | per draft `ProxyDraft`: original, copy, parent, key, `operated`, `finalized`, `assignedMap`, `callbacks` | traps, Map methods, `markChanged`, `ensureShallowCopy`, `markFinalization` | `DraftHeap`, `Drafts` |
| Finalization: `draft.ts`, `utils/finalize.ts` | `finalities.draft` (nodes and deferred callbacks), `handledSet` | `finalizeDraft`, `finalizeNode`, `finalizeAssigned`, `handleValue`, `finalizePatches` | `DraftHeap`, `Drafts` |
| Patches: `patch.ts`, `utils/draft.ts` | the two lists of a producer | `generatePatches*`, `cloneIfNeeded`, `getPath` | `Patches` (objects and Maps) |
| Applying: `apply.ts` | none | `apply` | `Patches` (objects and Maps) |
| Recipe ends: `makeCreator.ts`, `current.ts` | none | `returnValue`, `handleReturnValue`, `fail` | `Drafts` |
| Lives of producers: `makeCreator.ts`, `draftify.ts`, `array.ts`, iterators | `finalities.revoke`, `scoped`; module-wide `recentProxy`, `recentRevoke`, `arrayProxies` | `create`, `finish`, `fail`, `finalize`, `revokeProxy`, `trackArrayMethod`, `releaseArrayMethods`, `assertDraftActive` | `Producers` |
| Nested producers: the same functions, across producers | each producer's `finalities`, `options.enableAutoFreeze` | `create` within a recipe, `markFinalization` of a foreign draft | `NestedProducers` |
| Auto-freeze: `utils/deepFreeze.ts` | frozen objects | `deepFreeze`, the checks for frozen objects | `NestedProducers` |
| Set drafts: `set.ts`, `finalizeSetValue`, `generateSetPatches` | `setMap`, `assignedMap`, the copy, iterators that are under way | `has`, `add`, `delete`, `clear`, iteration, rebuilding | `SetHeap`, `SetPatches`, `SetDrafts` |
| Array drafts: `array.ts`, `generateArrayPatches` | `ArrayState`: what was relocated, changed range, cached density | index and length traps, native methods, searching, diff ranges | `ArrayHeap`, `ArrayMethods`, `ArrayPatches`, `ArrayDrafts` |
| `current()`: `current.ts` | `finalized` for the time of a copy | `getCurrent` | `Current` |
| Strict mode: `unsafe.ts` | the global `readable` flag | `unsafe`, `checkReadable` | not modelled |

How they interact: the traps and Map methods call `markChanged`,
`ensureShallowCopy` and `markFinalization`; the last pushes callbacks to a draft
or a deferred task to `finalities.draft`.  When the recipe ends, `finalizeDraft`
works that list off *from its end*, so that the latest drafts come first.  Each
node writes its final value into the copy of its parent, generates its patches
once, and runs its callbacks.  Producers share nothing but the module-wide cache
of `array.ts`, and drafts that a recipe passes on.  A Set draft keeps the drafts
of its items in `setMap` and its copy unchanged until `finalizeSetValue()`
rebuilds it; an array draft holds them in its copy, where the native methods move
them together with elements that have none.

What is hard here:

- *Where is a draft now?*  Recipes move drafts, assign them to several places,
  drop them and go on using them, store them in objects and Maps of their own.
  Finalization has to replace a draft wherever it still is, and patches must use
  paths that still lead there.
- *What has changed?*  Four things record a change: the copy, `operated`,
  `assignedMap` and the marks of the parents.  They may disagree (a copy without
  a mark after a read, a mark without entries after a value was restored), and
  several functions decide by different ones.
- *What is shared?*  An object of the base may be held under several keys, may
  be assigned again (`original()`), and must never be written to.
- *When is a patch value taken?*  During finalization, while some drafts are
  still in place and others have given way.
- *What stands for an item?*  Inside a Set an item, its draft and an added draft
  are looked up, deleted and iterated over as one or as two, in the middle of an
  iteration of the live copy.
- *Where does an element come from?*  `array.ts` moves elements without drafting
  them; later reads, removals and searches must still tell an element of the base,
  which has to be drafted, from an object that the recipe assigned.
- *Whose draft is it?*  An inner producer may hold drafts of an outer one, which
  change after its state was returned, and perhaps frozen.
- *Who is still alive?*  Recipes nest, are asynchronous, fail, and leave
  iterators and method references behind.

The list of hazards in `PROJECT.json` names each at the line where it bites.

## The modules

Each module extends the one before it; after `DraftHeap` and `Elements` the lines
part:

    Values - StateTrees - DraftHeap - Current - Patches - Drafts - DraftsProperties
                                    \ NestedProducers              (RecipeSpec)
    Values - Elements - ArrayHeap - ArrayMethods - ArrayPatches - ArrayDrafts
                      \ SetHeap - SetPatches - SetDrafts
    Producers

The proofs stand in modules of their own:

    DraftsProperties - DraftsProofs - UnchangedProofs - FinalProofs
    ArrayProperties - ArrayTrapsProofs - ArrayProofs
    NestedProducers - NestedProofs
    SetProperties - SetsProofs
    Producers - ProducersProofs

**`Values`** are what a variable holds: a primitive, an object by its address, a
draft, or nothing.

**`StateTrees`** is the data of objects and Maps: objects of type `"object"` or
`"map"` as functions from keys, and *trees*, the shape found under every path of
at most `MaxDepth` keys.  Two values with one tree look alike to every reader;
properties that claim equality compare trees, and properties about identity
compare addresses.

**`DraftHeap`** holds what the handlers share.  A world is a record of the heap,
the drafts in their order of creation, `finalities.draft` and the handled
objects; each function of the code that changes state takes a world and returns
the next, so that an action can do in one step all that its handler does.  Copies
are objects of the same heap as the base and the recipe's objects, so an aliasing
mistake shows.  Where the code walks a graph, the model has the least set closed
under one step of the walk, which has the same members and can be reasoned about
without counting steps: `Climbed` for the loop of `markChanged`, and `Visited`
(with `LedTo`) for the objects that `handleValue()` comes to.

**`Current`** is `getCurrent()`: which values of a draft are taken as they are
with all that they hold, and which are looked into; the snapshot's tree follows from
that.  A changed draft that is looked into is copied; an object of the recipe is
copied only if a draft gives way somewhere in it (`IsCopied`, the lazy
`ensureShallowCopy()`), and otherwise the snapshot holds that very object.

**`Patches`** is `generatePatchesFromAssigned`, `cloneIfNeeded` and `apply`.  A
patch value is `Live` (a reference, whose tree may still change) or a
`Snapshot` (a copy made by `current()`), since that is the difference that can go
wrong.  The patches of one draft name distinct keys, so they form a batch whose
inner order does not matter; the order of batches is the code's.  The guards of
each `CASE` here and in `Current` exclude each other, since a `CASE` with
overlapping guards is an arbitrary choice in the logic.

**`Drafts`** is one producer: Init is `draftify`, the actions of the recipe are
`GetTrap`, `SetTrap` (`SetTrapRestore` is its early branch that drops a draft),
`DeletePropertyTrap` (`DeleteAdded` its branch for keys that the original does
not have), `GetEntry`, `MapSet`, `MapDelete`, `MapClear`; `NewObject` and
`WriteFresh` are what a recipe does to objects of its own.  `EndRecipe` is
`returnValue()`, `Fail` is `fail()` (the recipe threw, or returned a value that
`EndRecipe` refuses), `FinalizeNode`, `FinalizeTask` and `Return` are
`finalizeDraft()`.  A recipe is any sequence of these actions.

**`RecipeSpec`** is what `create()` promises, without drafts: the recipe changes
ordinary mutable objects, its own copies of the objects it opened, one per path,
and the result is the tree that they are when the recipe ends.  `DraftsProperties`
instantiates it with a refinement mapping: `given` is the base, and while the
recipe runs, `store` is `Seen`, what each reference leads to through the drafts
with the copies hidden; from the end of the recipe on, the outcome is `Promised`:
the value that the recipe handed over (`Handed`) and the tree that it is *now*, so
a step of the finalization that disturbs it is not allowed.  `RecipeSpec` builds
its functions with `With`, for the provers have no definition of `@@` and `:>`.

**`DraftsProperties`** states the properties, **`MCDrafts`** the base states.

**`Producers`** looks at several producers from outside: which drafts exist and
can be revoked, whose array the method cache keeps, which iterators are left.
Steps of producers interleave freely, which covers nested calls, asynchronous
recipes between awaits, and drafts from `create(base)`.  **`MCProducers`** gives
the symmetry of the producers.

**`NestedProducers`** looks inside them: producers that run in each other's
recipes, in one heap.  `Start` is `create()`, `Get` and `Set` are the traps of any
draft whose producer runs, `Return` is the whole of `finalizeDraft()` and the
freezing at its end (one step, for it is synchronous and no other recipe runs in
it), and `Fail` a recipe that throws into the one around it.  It uses the
functions of `DraftHeap`; `FinalizeNode` and `FinalizeTask` are its own, for there
the owner of a draft and frozen objects count.

**`Elements`** are what the arrays and Sets hold: objects with the one property
`x`, which may again hold a draft, and their drafts.  This keeps the state small
and loses little, for arrays and Sets treat what is below an element through the
same code as objects do.

**`ArrayHeap`** is the array draft: `BaseIndex` tells where an element comes from
(after the moves as well), `GetTrap` drafts it, and `SetTrap`, `SetLength` and
`DeleteTrap` record what they change.  **`ArrayMethods`** are the native methods
of `array.ts` in their two ways: moving elements in the copy, or, where holes or
other conditions forbid it, through the traps as `Array.prototype` does it.
**`ArrayPatches`** generates array patches from the assigned indices or the
changed range, and applies them.  **`ArrayDrafts`** composes them to a producer.
Beside the draft it runs `plain`, an ordinary array, on which each method does
what the language says; `plain` remembers of each slot only if it is an element
of the base that has not been drafted, and it is the specification of the draft:
`ActsAsArray` says that the draft, seen through `Slots`, equals it at every step.
**`ArrayProperties`** states what array drafts promise, **`MCArrays`** the bases.

**`SetHeap`** is the Set draft: `setMap` as pairs, `Add`, `Delete`, `Clear`,
`Next` (one step of the iterator) and `FinalizeSetValue`.  The iteration is
`position`, the items that it has passed; deleting one of those moves it back, as
the language's iterators over a live Set do.  **`SetPatches`** are the patches of
the Set and of its items, whose paths are positions.  **`SetDrafts`** composes
them to a producer on a Set with an object beside it, so that a draft from
elsewhere can be added; **`SetProperties`** and **`MCSets`** are as above.

In front of some definitions stands a variant marked *Fault*: a plausible mistake
at that place, which some property is known to catch (`mutants` in
`PROJECT.json`).  No other definition uses them.

## The runs

All states of the given bounds are searched.

| Run | Question | Bounds |
|---|---|---|
| `objects` | types, base, marks, sharing, state and patches, any return value | an object held at two keys; 3 drafts, 3 changes |
| `moves` | patches of drafts that change places, alone and with children, in objects and Maps | two siblings; a chain of three; a Map in an object, an object in a Map; 3 drafts, 3 changes |
| `fresh` | drafts inside a Map that the recipe made, assigned or returned; what `current()` reads as and what it shares, in every state of the recipe | one new Map; 3 drafts, 2 changes |
| `nested_fresh` | drafts two new objects deep | two new objects; 2 drafts, 1 change |
| `implements` | refinement of `RecipeSpec` | 2 drafts, 2 changes, one new object, three bases |
| `settles` | the finalization ends, with a state without drafts | 2 drafts, 2 changes, one new Map |
| `producers` | ends, iterators and the method cache | 3 producers with 2 drafts each |
| `nested` | an inner producer with drafts of the outer one, with and without freezing | 2 producers, 4 drafts, 3 changes |
| `arrays` | every method on arrays of elements, one of them twice in the array | up to 3 elements, 3 drafts, 3 changes |
| `arrays_sparse` | holes, `undefined`, new lengths, objects of the recipe | up to 4 elements, 2 drafts, 3 changes, one new object |
| `arrays_shared` | patches when the array holds one object twice, and both get drafts | 3 elements, 2 of them one object; 2 drafts, 4 changes |
| `sets` | a Set changed while it is iterated, and the draft of an object beside it | 2 items, 2 drafts, 4 changes, one new object |

Two keys and the values `undefined` and one other suffice to tell replaced, added
and removed apart, and `undefined` from a missing key.  Three drafts give a chain
below the root or two siblings, so that a draft can be moved into, out of and past
another; three changes give move, change, and move back.  `MaxDepth` exceeds the
depth of every base by what the moves can add; states with longer paths, cycles
among them, are cut off by `Bounded` (cycles are documented as unsupported).
Two drafts and two changes are few for the refinement, but it is checked at
every step, and the other runs cover its end for more.  Three producers are the
fewest where one replaces another in the cache while a third ends.  Two nested
producers with four drafts let the inner one have a child of its own and hold an
outer child, and let the outer one store its result.  Three changes of an array
are a move, a read or change at the new place, and a move back or a removal; three
elements are the fewest where a method moves one element and leaves another.
Insertions are of no or one item, for more go the same way.  Four changes of a Set
delete an item, add it again beside its draft, and act on either.

| Property | Run | What it says |
|---|---|---|
| `TypeOK` | objects, producers, arrays | every part of the state has its type |
| `BaseUntouched` | objects | no handler writes to the caller's objects |
| `ChangesReachRoot` | objects | entries imply a mark, a mark implies a copy and marked parents |
| `UnchangedReadsAsOriginal` | objects | an unmarked draft reads like its original |
| `NoDraftReturned` | objects, nested_fresh, arrays, sets | the returned state leads to no proxy |
| `UnchangedIsShared` | objects | no copy made by a mere read is part of the state |
| `PatchesReplay`, `InverseRestores` | objects, moves, arrays, arrays_sparse, sets | `apply(base, patches)` is the state, `apply(state, inverse)` the base; of arrays, unless two drafts have one key (`OwnKeys`) |
| `SharedPatchesReplay` | arrays_shared | the first of these of arrays without exception, which is violated: see Findings |
| `PatchesHoldNoDraft` | fresh | no patch value leads to a proxy |
| `CurrentIsSnapshot` | fresh | `current()` reads as the draft does, and all that it shares leads to objects of the base or of the recipe: no draft, and no copy that a draft writes to |
| `ActsOnOrdinaryObjects` | implements | the producer implements `RecipeSpec` |
| `Settles` | settles | the finalization comes to its end, with no draft left |
| `EndedDraftsNothing` | producers | an ended producer gets no draft |
| `KeepsOnlyRunning` | producers | module state keeps no producer that ended or may never end |
| `MethodsRecognized` | producers | methods know the live drafts that they were read from |
| `RunningUnfinalized` | nested | no producer finalizes a draft of one that still runs |
| `FrozenUnwritten` | nested | nothing writes to what was frozen |
| `EndsAsSeen` | nested | ends of inner producers do not change what the outer recipe sees, and its result is what it saw |
| `ActsAsArray` | arrays | an array draft is, slot by slot, the array that the language prescribes |
| `RecordsTrue` | arrays_sparse | cached density and inertness are what a scan would find |
| `SearchAsRead` | arrays | searching the copy finds what reading would |
| `RemovedAsDrafts` | arrays | what a call removes and returns is a draft, never an element of the base |
| `ResultAsPlain` | arrays | the new array is the ordinary one, with what was changed through moved drafts |
| `SetMapInStep` | sets | `setMap`, `assignedMap`, the copy and an iteration agree in every state of the recipe |
| `DeletedIsGone` | sets | what was deleted is no member, named by item or by draft |
| `ResultInOrder` | sets | the new Set has the items in order, once each, as their drafts ended |

### Findings

In an array that holds one object at several places, patches can lack a change
(`arrays_shared`).  Take `[a, 1, a]`.  The recipe sets `length` to 2, reverses the
array, which gives `[1, a]`, and assigns `a` to index 2.  The assigned `a` is the
element of its index again, and the moved one is traced back by `baseIndexOf()`,
which finds the last index at which the original holds `a`.  Reading both
creates two drafts with key 2.  The one at index 2 is then changed.
`finalizeNode()` runs for the later draft first, and writes into the copy at its
key, where the other draft stands (`utils/finalize.ts:164`).  When the turn of that
one comes, its key leads to no draft any more, so no patches of its own are
generated; and the array compares nothing there, for the index is neither assigned
nor different.  The result has the change, and the patches do not.

The comment at this place says that a draft found at the key of
another node generates its patches at its own node (`utils/finalize.ts:172`), and
the documentation that objects which are held several times are allowed
(`src/website/content/docs/extra-topics/shared-references.mdx:6`).  `PatchesReplay` and
`InverseRestores` of arrays are therefore stated for `OwnKeys`: the base array
holds no object twice, or no two drafts have one key.

Fairness is assumed in one run, `settles`: `FairSpec` adds
`WF_vars(FinalizeNode \/ FinalizeTask \/ Return)`.  Once the recipe has ended,
`finalizeDraft()` runs these steps in one synchronous loop until its list is empty,
so nothing can keep them from being taken.  Nothing is assumed of the recipe,
which may never end.  All other properties are about safety.

`CHECK_DEADLOCK FALSE` is given where the program may stop: in `Producers.cfg` and
`Nested.cfg` when all producers have ended or the bound on drafts is reached, in
the runs of arrays and Sets when the producer is done.  `Drafts` has an explicit
`Ended` step instead, so there a state without a successor would be reported.

## The proofs

`DraftsProofs` proves, for every set of keys and primitives, every base state of
plain objects and Maps and every bound:

- `TypeCorrect`: `Spec => []TypeOK`;
- `BaseStateUntouched`: `Spec => []BaseUntouched`;
- `ChangesMarkedToRoot`: `Spec => []ChangesReachRoot`.

None is inductive alone.  `BaseUntouched` needs that writes go to copies and that
no copy lies in the base; a draft's child is written through the copy of its
parent, so every parent must have one; a mark must have a copy, for the final
value is the copy.  The inductive invariant is therefore

    IInv == TypeOK /\ Kept(W) /\ Linked(W) /\ Marked(W)

where `Kept` says that the base is part of the heap, originals lie in it and
copies do not, `Linked` that a draft with a child has a copy, and `Marked` is
`ChangesReachRoot` of a world.  That the base is closed under references and holds
no drafts (`BaseClosed`) follows from the assumption on `Bases`.  There is one
lemma for each function of `DraftHeap` (it keeps a sound world sound) and one for
each action; `HandleValueSound` rests on `EntriesMarked`, which is why `handleValue()`
may ask for entries or the mark where the other paths ask for the mark only.
`MarkChangedSound` uses that the set `Climbed` is closed, so the climb may stop at
a marked draft.

The second part of `DraftsProofs` says once what each step does to a world, for the
modules that follow.  A step of the recipe writes to the copy of one draft (`Wrote`), makes one
draft (`Drafted`), makes an object (`Made`) or changes one of the recipe's own
(`Overwrote`); a step of the finalization `Finalizes`: a value stays, or is a draft
that gives way to its original or its final value.  `WorldSteps` sums up that every
step is one of these.

`UnchangedProofs` is about drafts that were read but not changed:

- `UnchangedReadAsOriginals`: `Spec => []UnchangedReadsAsOriginal`;
- `CurrentIsASnapshot`: `Spec => []CurrentIsSnapshot`;
- `UnchangedStaysShared`: `Spec => []UnchangedIsShared`.

The first speaks of trees, and no tree says which step disturbs it, so the
invariant is local (`CopiesAreLazy`): `Lazy`, the copy of an unmarked draft holds
at each key what the original holds, or a draft of just that object whose parent
and key are this place; and `Apart`, no two drafts share a copy, so that a write
to one copy cannot disturb another's `Lazy`.  That the trees are equal follows by
induction on the length of a path, along which an unmarked draft leads to an
unmarked draft or into the base.  The third needs `UnmarkedCopiesUnheld`: no
object or return value refers to the copy of an unmarked draft, which
finalization keeps because `getValue()` takes the copy of a marked draft only; and
while the recipe runs, no object refers to any copy (`Hidden`).  The second needs
that too, for what a snapshot shares: an object that `current()` looked into and
did not copy leads to no draft (`NotCopiedIsClean`), and is not a copy since
something of the recipe's refers to it.  The snapshot is therefore not closed to
the recipe: it holds the recipe's own objects that lead to no draft, as the
documentation says (`src/website/content/docs/api-reference/current.mdx:37`), and a
recipe that writes to such an object directly changes the snapshot with it.  What it
cannot do is change the snapshot through a draft.

`FinalProofs` is about what finalization leaves behind:

- `ReturnedStateHasNoDraft`: `Spec => []NoDraftReturned`;
- `PatchesLeadToNoDraft`: `Spec => []PatchesHoldNoDraft`.

Both hold at the end of a loop whose single steps establish neither.  The invariant
(`FinalizationLeavesNoDraft`) keeps the account of what is still to be done.
`Places`: every draft in a copy has its node in `finalities.draft`, and either was
read at this place or has a callback for it, and every object of the recipe in a
copy has its task.  `Handled`: what `handleValue()` has visited holds no draft and
leads to `Known` objects only, which are those of the base, the copies and what it
has visited.  `Grounded`: a value of a patch is a primitive, an object of the base
or one that a copy holds.  When the list is empty, a `Known` object leads to no
draft (`Clean`).  A producer with the root draft alone skips its tasks in the code;
`AloneClean` shows that it may: the only draft that such an object could lead to is
the root, which would be a cycle, and states are `Shallow`.

The second part of `FinalProofs` proves `DraftsImplementRecipeSpec`:
`Spec => ActsOnOrdinaryObjects`, the refinement of `RecipeSpec`, step by step.
`CopiesAreHidden` is its invariant: `HidesCopies`, the recipe reaches a copy only
through its draft, so the mapping may drop copies from the store; and `Rooted`,
the parents of drafts lead to the root.  Each trap and Map method is then `Open`,
`Write`, `Clear` or `New`, or a stutter: marking, copying, recording and pushing
callbacks are invisible.  The end of the recipe is `Commit` (`SeenTree`: the tree
in the recipe's store is the tree through the drafts), and each step of
finalization a stutter (`TurnedTree`: putting the final value of a draft in its
place leaves every tree as it is).  Both lemmas about trees relate two stores
value by value, so that related values lead to related values under each key, and
conclude by induction on paths.

`NestedProofs` proves, for any number of producers and any nesting:

- `ProducersOwnTheirNodes`: `Spec => []NInv`;
- `InnerEndsFinalizeOwn`: `Spec => []RunningUnfinalized`.

`NInv` says that a node stands in the list of the producer of its draft.  The loop
of `finalizeDraft()` is the recursive function in `Finalized`; `LoopRuns` shows
that there is one such function, and `FinalizedTurns`, by induction on its
argument, that the whole loop finalizes only drafts with a node in the list.

`ProducersProofs` proves the four invariants of `Producers` for any number of
producers and drafts.  Their strengthening is `Alive` (a producer is live exactly
if its revoke list is not empty, which is how the code tells) and `HandedExist`.

`SetsProofs` proves, for every Set of primitives and objects and every bound:

- `SetsStayInStep`: `Spec => []SetMapInStep`;
- `DeletedItemsAreGone`: `Spec => DeletedIsGone`, a property of steps;
- `ItemsStayInOrder`: `Spec => ResultInOrder`, a property of steps;
- `NewSetHasNoDraft`: `Spec => []NoDraftReturned`;
- `SetPatchesReplay`: `Spec => []PatchesReplay`;
- `SetPatchesInvert`: `Spec => []InverseRestores`.

`SetMapInStep` speaks of what `setMap` leads to, but not of its being a function,
nor of the copy holding each item once, which are what `setMap.get()` and
`Set.prototype.delete` rely on.  The inductive invariant `Sound` adds them
(`MapOfItems`, `ItemsOnce`), and that the copies of drafts lie outside of the base
(`DraftsApart`), so that writes to elements leave it alone.  `AddSound` uses that
nothing is mapped from what is no item; `DeleteSound` that an item occurs once, so
that removing one occurrence removes it, which the lemma `Removed` states of
sequences; `NextSound` that only items of the original are drafted by an
iteration, so that added items keep standing for themselves.  Each method first
has a lemma that says which fields of the world it changes.  `DeletedItemsAreGone`
follows from the invariant and `DeleteFields`.

For the new Set, `Sound` also says that a changed draft has a copy without drafts
(`DraftsCopied`), and that an added object has its task (`AddedQueued`).  The loop
over the drafts is handled as in `NestedProofs`: `Settled` relates the world
before it to the world after each of its turns.  Items keep their entries in
`setMap`, and each entry stands for what it stood for, be it a draft still or its
final value (`ReplacedSettled`).  `FinishSet` then has two cases.  Where
`finalizeSetValue()` rebuilds the Set, it finds what the items stood for; where it
does not, no entry differs from its item, and the copy has each item once, so that
rebuilding would give the same list (`DistinctKeeps`).

The last two say that the patches of the Set, of its items and of the object beside
it, made by different functions in the middle of the finalization, lead to what
`create()` returned when `apply()` takes them one by one, and that the inverse
patches lead back.  They need one more invariant, `Tracked`, of three parts:

- `OrderKept`: the items that `assignedMap` has no record of are those of the
  original, in their order.  An item's patch has its position in the original as
  path, and `getPath()` gives one as long as there are no records at all; then the
  copy is the original, item by item (`CopyIsOriginal`);
- `ItemDrafts`: an item without a record is mapped to its draft, if it has one, and
  a changed item marks the Set; drafts of no item are of the object beside the Set,
  which has one at most;
- `CopiesOwn`: a copy belongs to one draft, and a changed draft that has no
  assignment left, hence no patch, holds what its original holds.

`DraftPatches` is the loop over the drafts once more: what it emits are the patches
of the changed drafts that have a path (`FieldsOf`), with the value that the recipe
left.  About `apply()` there are three lemmas on lists of patches of any length,
each by induction on the patches applied so far: `FieldsApplied`, replacing trees at
positions leads to any trees that the patches name wherever these differ;
`RemovesApplied` and `AddsApplied`, which need that no two of the patches have one
value.  `ApplyCat` puts lists after each other, and `ReversedCat` is the `unshift`
of the inverse patches.  `Exchanged` follows: removing what only the one Set has and
adding what only the other has gives the items of the other in some order, which
is all that is promised of a Set (`EqualReordered`).  `PatchesLead` then has three
cases: the Set has patches of its own, and no item has one; the items alone changed
(`PlacesLead`); or nothing but the object did.

`ArrayTrapsProofs` and `ArrayProofs` prove, for every array of elements and every
bound:

- `DraftActsAsArray`: `Spec => []ActsAsArray`;
- `CachesAreRight`: `Spec => []RecordsTrue`;
- `ArraysTypeCorrect`: `Spec => []TypeOK`;
- `SearchesAgree`: `Spec => []SearchAsRead`;
- `NewArrayHasNoDraft`: `Spec => []NoDraftReturned`;
- `NewArrayAsPlain`: `Spec => []ResultAsPlain`.

The first is that an array draft is an ordinary array to the recipe, whichever
methods it calls in whichever order.  It is not inductive, for a draft's slots
depend on records that no slot shows.  The invariant `Working` (part of `IInv`, in
`ArrayInductive`) is `Slots(world) = plain` together with `Sound(world)`, of which
the parts are:

- `World` and `BaseKept`: the shape of the world, and that the base is unchanged;
- `DraftsApart`, `HeapInOrder`: a draft is of the element at its key in the base, its
  copy lies outside of the base and holds no draft, and a changed draft has a copy;
- `AllFit`: each value of the copy *fits* its index (`Fits`).  A draft stands at its
  key or has a callback for where it stands, and is recorded there as a child or as
  assigned.  An object of the recipe is recorded as assigned and has its deferred
  task.  Without moves, an object that is not the element of its index is recorded
  as assigned; and what is recorded so is never the element of that index, by which
  `BaseIndex` tells the two apart;
- `CachesRight`: the cached density and inertness are what a scan would find;
- `Untouched`: an array without a mark holds what the base holds, or drafts of that,
  none of them changed.

Each method is then shown to *do* what the language says it does: `Does(w, u, s)`
says that the world `u` after it is sound, that it has grown (drafts and objects are
added, never taken away), and that it shows slot by slot what the list `s` has
there, or a draft made since of just that element.  Both ways of a method, moving
elements in the copy and going through the traps one index after the other, lead
to the same `Does`, so that what decides between them (holes, inertness, the cached
density) may err on the safe side but cannot change what the recipe sees.  The ways
through the traps are loops: recursive functions from the number of turns to the
world, for which `RunTurns` shows that the function with its equation exists, and
an invariant of the loop that each turn keeps, by induction on turns.

For the new array, the account of what is still to be done is kept as in
`FinalProofs`.  `AssignedFinalized` says what `finalizeAssigned()` leaves: every
object of the recipe that an assigned slot holds is handled.  `ElementsFinalized`
is the loop over the drafts, latest first; its invariant `Gone` says that the drafts
whose turn has passed have given way to their final values everywhere in the copy.
That a draft is found by its callbacks wherever it is, after any moves
and the shift of later elements, is what `Fits` was needed for.  `ReturnedClean` and
`ReturnedAsPlain` conclude, for each slot of the result, that it holds no draft and
that it is what the ordinary array holds there, with the elements that were changed
through drafts in place of the old.

The induction theorems of the library cannot be instantiated here, for they take
an operator as a parameter.  The proofs use two consequences of its facts about
well-founded relations that do not: a set of numbers has a least element
(`NatLeast`), and a set with 0 that is closed under successors has all numbers
(`SetInduction`).  What a recursive function computes is proved with these, after
a lemma that a function with its equation exists.

Assumptions, which TLC evaluates in the runs: `DataAssumption`, `BasesAssumption`,
`BoundsAssumption`, `DraftsAssumption`, `NestedAssumption`, `SetBasesAssumption`,
`SetBoundsAssumption`, and for arrays a `BasesAssumption` of their own (a base is a
complete heap without drafts) and `ArrayBoundsAssumption`.

Only model-checked:

- `PatchesReplay` and `InverseRestores` of objects, Maps and arrays.  For Sets the
  patches lead to positions that do not move, or carry whole items; in trees of
  objects each patch is applied below those before it, so that every prefix of the
  list has to be related to a state of the finalization that produced it in another
  order, and array patches shift what later ones name.  No local invariant for
  these is known yet;
- `RemovedAsDrafts`: what a removal returns must be counted, draft for element, and
  the counts have to be carried through each loop;
- `EndsAsSeen` of nested producers, which is the refinement argument with several
  producers in one heap;
- `FrozenUnwritten`, which is no theorem for every number of producers: it holds for
  an outer and an inner one, as the run shows, and TLC refutes it for three.  The
  innermost stores a draft of the outermost, which turns its freezing off
  (`utils/finalize.ts:227-231`); the one between stores the result of the innermost
  and, having been assigned no draft itself, freezes it; and the final value of the
  outermost draft is then written to a frozen object.  The guard looks at the
  assigned value only, not into it.  This is outside of what the repository's
  README allows (line 322: no draft in an object that is assigned in another call),
  so it is a limit of the guard and no finding;
- `Settles`: liveness is out of the provers' reach.

## What is abstracted

- Own keys have no order, and neither have Map entries; key order of results is
  not a property.
- Values are plain objects, Maps and primitives.  There are no getters, setters,
  class instances, symbols, or custom marks; `mark`, `strict` and
  `enableAutoFreeze` are off and patches are on, with paths as arrays.  Maps have
  primitive keys.
- `child`, `children` and `childKey`, a cache of drafts that the copy holds as
  well, are left out of `DraftHeap`: a read that finds a draft returns it either
  way.  `ArrayHeap` has `children`, for there a moved element need not be in the
  copy any more.
- `current()` inside the recipe changes nothing that is modelled, so it is
  evaluated in every state instead of being an action.
- `rawReturn()`, frozen return values and drafts of other producers are not
  modelled in `Drafts`; the last are in `NestedProducers`, which has no return
  values in turn.  There a draft of an outer producer is placed directly at a key;
  deeper inside new objects the repository's README forbids storing it.  No inner
  producer starts on a draft, and automatic freezing is on for all or for none.
- Elements of arrays and Sets have one property `x`, and there are no arrays in
  arrays or Sets in Sets.
- `baseIndexOf()` with its galloping search is modelled by what it finds, the
  index at which the original holds the element (the last one, if there are
  several and none is at hand).
- Where the code iterates over a JavaScript Set of deferred tasks whose order does
  not matter, the order is arbitrary.
- In a Set that holds a draft and, deleted before and added again, its original
  (`Ambiguous`), `delete(draft)` removes the original.  The model does as the code;
  `DeletedIsGone` excepts that case, for then both are members in their own right.
- A recipe does not write to objects of the base, which the documentation forbids.
- `apply()` is a function on trees; of its errors, only a path that leads nowhere
  is modelled, as a result that equals no state.
- In `Producers` every draft can be read as an array and iterated over, and
  `WeakSet` entries are never collected, which only makes the cache larger.

Bounds: `MaxDepth`, `MaxDrafts`, `MaxWrites`, `MaxFresh`, `FreshTypes` and
`Returning` in `Drafts`; `MaxDrafts` in `Producers`; `MaxDepth`, `MaxDrafts` and
`MaxWrites` in `NestedProducers`; `MaxDrafts`, `MaxWrites`, `MaxLen`, `MaxFresh`
and `Inserted` in `ArrayDrafts`; `MaxDrafts`, `MaxWrites` and `MaxFresh` in
`SetDrafts`.

## Not modelled

- **Strict mode and `unsafe()`.**  `checkReadable()` only concerns values that are
  not draftable, which the models do not hold.
- **Marks, class instances, getters and setters, symbol keys.**  Whether and how a
  value is drafted is a pure function of the value; the models have plain objects,
  for which these functions have one answer.  What a setter, a mark or a revoked
  proxy may throw in the middle of a finalization is left out with them.
- **`rawReturn()`** and the warnings about return values, which change no state.
- **Mutable `apply()`** that dies in the middle: nothing is promised of its state.
- **The own-keys path of `restoreSuffix()`**, taken beyond 65536 holes
  (`SPARSE_HOLE_LIMIT`, `patch.ts:66-77`): the holes of the checked arrays are all
  crossed index by index, or by the given indices.
- **Array methods that call back** (`forEach`, `map`, `filter` and so on) are reads
  of the elements, which `Get` covers, as long as the callback does not change the
  array in the middle of the call; that, `fill` and `copyWithin`, array
  subclasses and species, and own keys of arrays beside the indices are left out.
- **Sets and Maps with drafts as keys, Sets within Sets, subclasses**, and a Set
  rebuilt again by an outer producer.
- **`size`, `entries()`, `keys()`, `forEach()`** of Sets and Maps are the modelled
  iterations in another form.
- **The textual form of paths**, messages, types and exports.  The rest of the
  repository is benchmarks, build scripts, the website and type declarations.

## What is left

1. `NestedProducers` with outer drafts in Sets and arrays, which the outer producer
   finalizes by rebuilding the Set a second time and by looking for the draft's
   index; with return values, and `create()` on a draft of the outer recipe.
2. Callbacks that change an array while a method runs, `fill` and `copyWithin`.
3. The guards that freezing puts on Maps and Sets.
4. Proofs: `FrozenUnwritten` for an outer and an inner producer; `PatchesReplay` for
   objects of one level, where a batch lists the keys at which copy and original
   differ, on the lemmas about `apply()` that the Sets have.
