# Verification of go-collections

TLA+ models, TLC runs and TLAPS proofs for the Go package in `src/`: generic
lists, maps, sets, queues, deques and priority queues, most of them in a
plain and a goroutine-safe form. Source lines are those of the commit in
`src/`; `PROJECT.json` maps every definition to the lines it stands for.

Contents: [1 The system](#1-the-system), [2 Plan](#2-plan),
[3 Modules](#3-modules-and-the-code), [4 Runs](#4-runs),
[5 Fairness](#5-fairness), [6 Proofs](#6-proofs),
[7 Findings](#7-findings), [8 Limits](#8-what-is-not-shown).

## 1 The system

The package has no processes of its own: its actors are the caller's
goroutines, and its components are containers these share. Containers meet in
three ways: a method takes another container as an argument (`PutAll`, the set
algebra), a concurrent container is a lock around a plain one
(`concurrentTreeMap` around `treeMap`, `concurrentTreeSet` around a B-tree), or
it is a layer over a library (xsync.MapOf, the zhangyunhao116 skip list,
tidwall's B-tree). User code runs inside many methods: predicates, equalities,
comparators, remapping functions, bodies of `range`. Where that code runs, under
a lock or outside, and what happens when it panics or calls the container
again, is where most of the design decisions of the package are.

| Component | State | Synchronization | Hard behaviour | What makes it correct | Here |
|---|---|---|---|---|---|
| `lockFreeList` | chain of nodes, each with atomic `next` and `state` | compare-and-swap only | lost CAS and retry, logical deletion, `Clear` detaching a chain under other goroutines, walks through a changing chain | no element lost, duplicated or resurrected; answers justified; lock freedom | modelled, proofs |
| `cowList` | atomic pointer to an immutable slice | writer mutex, readers free | a writer on a stale copy; panics under the mutex; re-entrant iterations | every call atomic, every call returns, no update dropped | modelled, proof |
| `syncList` | slice edited in place | one RWMutex | a half-edited slice seen or left behind; read lock re-entered with a writer queued | as above; a writer is alone inside | modelled, proof |
| `concurrentTreeMap` | sorted map | one RWMutex | callbacks under the lock; methods of two critical sections; panics | each critical section atomic, callback input current | modelled, proofs |
| `concurrentHashMap` | buckets of xsync.MapOf | bucket locks of the library | panics under a library lock; a key gone between two operations; scans while the map changes | single-key calls atomic, scans complete, no lock left behind | modelled, proofs |
| `concurrentSkipMap` | skip list of a library | lock-free library | load-then-store updates named best-effort; pops that lose a race; answers given by a walk | what the Atomicity Guide of collection.go promises, call by call; answers justified | modelled, proofs |
| `concurrentTreeSet`, `concurrentHashSet`, `concurrentSkipSet` | B-tree, xsync.MapOf, skip list | RWMutex, bucket locks, lock-free | set algebra between two sets, or a set and itself, of any two kinds; comparisons in three lock holds; `Pop` retries | single operations atomic, answers within what the sets held, no lock order inversion | modelled, proofs |
| `arrayDeque` | ring buffer, head, tail, size | none | wrap-around, growth of a full ring, empty and exactly full buffers | is a deque; drops references | modelled, proofs |
| `arrayQueue` | slice and head index | none | compaction and shrinking past thresholds | is a queue; drops references | modelled, proofs |
| `priorityQueue` | binary heap | none | heap order over long call sequences, batches, decoding | pops a minimum | modelled |
| `linkedList` | doubly linked chain | none | both link directions under `Insert`, `RemoveFunc`, merge sort | both directions agree; acts like the other lists | modelled |
| `treeMap`, `treeSet` | B-tree | none | navigation and rank at their boundaries | sorted dictionary | operations as operators; range views not modelled |
| `hashSet`, `hashMap`, `arrayList`, `arrayStack` | one map or slice | none | no hidden state between calls | the contract of the interface | list and map operations as operators |
| serialization, formatting, interfaces | none | none | none | none | not modelled |

Every hazard found while reading, with its line and the properties that would
catch it going wrong, is listed under `hazards` in `PROJECT.json`.

## 2 Plan

Order of work, the most intricate concurrent code first.

Done:

1. `LockFreeList` with its contract `ListContract`, its readers' view, its
   proofs. It is the only algorithm of the package built from bare atomics.
2. `CowList` and `SyncList` over the shared operations `ListOps`, both proved to
   implement `AtomicObject`, and `NoUpdateDropped` and `WriterIsAlone` with it.
3. `ConcurrentTreeMap` and `ConcurrentHashMap` over the shared `MapOps`, and
   `HashMapScans` for what bulk operations promise; the atomicity of both proved,
   and that the scans of the hash map are thorough.
4. `ConcurrentSkipMap` over `SkipWalk`, and `SkipMapScans` for its walks; its
   promises and the answers of its walks proved.
5. `ConcurrentSets`: the three concurrent sets and their algebra on pairs of
   sets, and `SetAnswers` for what is made of several operations; the atomicity of
   the operations, the discipline of the locks and the answers of the methods made
   of several operations proved.
6. The containers that are not safe for concurrent use: `ArrayDeque` with
   `DequeContract`, `ArrayQueue`, `LinkedList`, `PriorityQueue`; the first two
   with proofs.

Left:

7. The range views of `TreeMap` and `TreeSet`.

## 3 Modules and the code

### Conventions

- One action is one atomic step of the code: an atomic load, store or
  compare-and-swap with the goroutine-local work up to the next one
  (`LockFreeList`); the acquisition of a lock, one loop iteration that runs
  user code, the release (`CowList`, `SyncList`, the maps and sets); one atomic
  operation of a library (skip list, xsync.MapOf); a whole call where nothing runs
  concurrently (`ArrayDeque`, `ArrayQueue`, `LinkedList`, `PriorityQueue`).
- `pc[p]` is where goroutine `p` is, `req[p]` or `call[p]` the call it is in.
  `todo[p]` are the calls it still has to make; `Menus` bounds them. A goroutine
  makes each call of its menu once, in any order.
- User code is an input: a predicate or equality is the set of elements it
  accepts, a remapping function is a function on `Values \cup {none}`. A
  callback that calls the container again is a separate goroutine `c` with
  `Caller[c] = p`, whose calls run only while `p` is in the callback, and `p`
  waits for them.
- A callback may panic in any of its executions (in `SyncList`, for the methods
  of `Panicking`). The call then returns `<<none>>`.
- Methods with the same control are one `kind`: `Contains`, `Find`, `FindIndex`
  and `IndexOf` are the same walk; `ToSlice`, `Seq`, `ForEach`, `Clone` and the
  marshallers the same snapshot. The map names every line each stands for.
- A definition preceded by "Mutant of X" is a plausible bug in the code of `X`;
  no specification uses it. It exists to show that some property notices.

### `LockFreeList`, `ListContract`, `LockFreeListReads`, `LockFreeListContains`

`next` and `state` are the two atomic pointers of a node; a node and the cell
its element was first stored in share a name, a cell is an allocation, and cells
are handed out in order (`used`). `walk`, `visit`, `take`, `swap`, `reload`,
`new`, `link`, `swing`, `clear` and `cut` are the points between two atomic
steps. `New` builds a private chain (`newLFNode`, the loop of `AddAll`), `Link`
is the store of an inserted node's successor, `Swing` the CAS that publishes it,
`SwingFails` its retry, `Take`/`Swap` the CAS on `state`, `ClearLoad`/`Cut` the
two steps of `Clear`. History variables (`published`, `cutAt`, `epoch`, `born`,
`out`) record who was published, who was detached by which Clear, and how often
an element was returned.

`ListContract` is the abstract list: a sequence of distinct elements that each
call changes in one step, what a Clear swept, and what was returned. The
refinement mapping reads the sequence off the chain. `LockFreeListReads` adds
what a search may be judged against: what was in the list throughout its call.
`LockFreeListContains` does the same with whole contents, for one documented
claim (section 7).

### `CowList`, `SyncList`, `ListOps`, `RWMutex`, `AtomicObject`

`ListOps` gives, for each call, the slice it leaves and its result; the
conditions and index checks are those of the method bodies, which the two lists
share. `RemoveFunc` and `Sort` are given there by what their result has to be, the
elements kept in their order (`Kept`) and all of them in ascending order (`Sort`);
that the loop of `RemoveFunc`, an action per element in both lists, gets there is
checked and proved. `CowList` keeps the slices ever published in `arrays`, the atomic pointer
`data` and the mutex `mu`; writers go through `Lock`, `Load`, their loop and
`Store`, readers through `Load` alone. `SyncList` keeps one `data` slice that
`RemoveFunc` compacts under the lock while asking its predicate (`Pass`,
`Finish`), and iterations that copy inside the lock and call back outside
(`Replay`).

`RWMutex` is external: Go's lock from how this code uses it. `Lock` announces
itself first, which keeps later readers out, then waits for readers inside; so a
goroutine that takes the read lock twice can deadlock, which is why the code
never calls back under it. `AtomicObject` is linearizability in general: between
invocation and return each call takes effect in one instant on the whole
content. Each list and map instantiates it with its own effects.

### `ConcurrentTreeMap`, `ConcurrentHashMap`, `HashMapScans`, `MapOps`

`MapOps` gives each call's effect on a map from keys to values or `none`. It is
what `treeMap` does on tidwall's B-tree, which is external; of its algorithms
`Search` is one of its own, the binary search of `RankOfKey` over the B-tree's
index.

In `ConcurrentTreeMap`, `call` is the method and `sub` the critical section it is
in. The guarded methods call back inside (`Ask`, `Answer`, `Panic`); `RemoveFunc`
and `PutAll` are a snapshot under the read lock, user code in `between`, and a
batch under the write lock (`Apply`).

`ConcurrentHashMap` models xsync.MapOf from its use (external): `Load` takes no
lock; the other single-key operations hold the lock of the key's bucket, and
`Compute`'s callback runs under it; `Range` copies the entries bucket by bucket
and calls back outside; `Clear` is ordered against a computation that holds a
bucket. `Panic` is `runGuarded`: a panic is caught under the lock, the map is told
to change nothing, and the panic is raised after the lock is released. Bulk
methods are sequences of such operations (`plan`, `Visit`, `NextBucket`).
`HashMapScans` watches them with the contents the map had during the call.

### `ConcurrentSkipMap`, `SkipMapScans`, `SkipWalk`

`SkipWalk` is `Range` of the skip lists, external: an ascending walk without a
lock that passes no key which stays (`due`), and may or may not meet one that
comes. Navigation (`First`, `Floor`, ...) is such a walk with a place to stop.

In `ConcurrentSkipMap` the conditional updates are `Load` and `Decide`, with user
code (`InUserCode`) and everybody else's steps between them; `Decision` is what
the method writes, decided on the value it loaded, to what is there by then.
`RemoveFunc` notes the keys its predicate accepts during its walk (`Noted`) and
deletes them afterwards.
Pops are a walk, a deletion (`Pop`) and a retry (`PopRetries`). Bulk methods are
lists of single operations (`plan`), or walks that write as they go. The size
that lets `RemoveFunc` return early is exact only while nobody updates
(`MayCount`; the source calls it approximate).

Its abstract specification is the Atomicity Guide in collection.go:623-748:
`Promised` gives per method the effects it may have in its one instant, exact for
the methods listed as atomic, decided on any value for the best-effort ones.
`EveryCallKeepsItsPromise` instantiates `AtomicObject` with it.
`ExactUnlessRaced` is the other half: without a write to the same key in between,
the best-effort methods are exact. `SkipMapScans` judges the walks by what the
map held meanwhile (`kept`, `had`, `stayed`).

### `ConcurrentSets`, `SetAnswers`

One module for the three sets, because their methods take each other as
arguments: `impl` says what each set is. `plan` is what a method makes of
operations on one set (`op`), each atomic: under the lock of a tree set (`Enters`,
`Leaves`), in one call of the library for the others. A `walk` goes over a
snapshot, a range of buckets or a skip list, and per element asks the other set,
deletes, or runs user code. `Combine` and `Compare` are the plans of the set
algebra and of the comparisons. `SetAnswers` has the properties: single
operations against `AtomicObject`, everything composed against what the two sets
held while it ran.

### `ArrayDeque`, `DequeContract`

`buf`, `length`, `front`, `back` and `size` are the fields of `arrayDeque`
(`length` is `len(d.buf)`); slices are functions on `0 .. len-1`, and `Rem` is Go's
`%`. `Room` is `ensureCapacity` followed by the copy of the two segments
(`Copied`). `op` and `answer` are what the caller sees; `DequeContract` says what
they should be.

### `ArrayQueue`, `LinkedList`, `PriorityQueue`, `MCSequential`

`ArrayQueue` keeps the whole backing array, so that a reference left in a spent
slot shows; `Compact` is `compact` with its two cases. `LinkedList` keeps the
`next` and `prev` of every node; each call's effect is compared with `ListOps`, the
operations the other lists share. `PriorityQueue` runs siftUp, siftDown and
heapify on the slice as the code does. `MCSequential` puts the four containers
side by side: a behaviour picks one and makes any sequence of calls on it.

## 4 Runs

All runs are complete explorations of finite instances. The menus pair every
call with every update so that each two methods race in every interleaving of
their steps; further menus add a third goroutine, a second call, or calls made
in callbacks, where the code has a hazard that needs them.

| Run | Question | Instance |
|---|---|---|
| `lf_write` | Do all updates of the lock-free list, racing, implement `ListContract`? Is the chain sound (`ChainSound`), each element returned at most once and never vanished (`HandedOutOnce`), no later insertion swallowed by a Clear (`ClearSwallowsOnlyOverlapping`), a batch appended side by side at the end (`BatchGoesLast`)? | every ordered pair of 11 updates on `<<2, 1>>`; four races of three goroutines; 8 cells |
| `lf_read` | Does a search answer "none", or a removal give up, only if nothing acceptable stayed, and does a scan report everything that stayed, once (`AnswersAreJustified`)? Do two goroutines finish although the third may stop between any load and its CAS (`ScheduledFinish`)? | every walk against every update and one more; retry loops of every kind against each other; 12 cells |
| `lf_contains` | Is `Contains` atomic? No: finding 1. | one search, one insertion, one removal |
| `cow_calls` | Does no writer drop another's update (`NoUpdateDropped`), is each call atomic, does each return? | 18 calls against 12 writes followed by another; iterations with callbacks that write |
| `sync_calls` | Is a writer alone inside (`WriterIsAlone`), is each call atomic, does each return? | the same for `SyncList`, 3 elements, panicking searches and comparators |
| `sync_panic` | Is `RemoveFunc` atomic when its predicate panics? No: finding 2. | one RemoveFunc, one scan |
| `treemap_calls` | Is a callback told of current entries, its goroutine alone inside (`CallbackIsUpToDate`), is each critical section atomic, does each call return? Is `RankOfKey` right for every content (`RankIsPosition`)? | 29 methods against 18 updates; bulk calls with callbacks that write; 3 keys, 2 values |
| `hashmap_calls` | Is each operation atomic, however its callback ends? Is a scan complete and a bulk method thorough (`ScansAreThorough`), does `ReplaceAll` write only over an entry that is there (`ReplacesWhatIsThere`)? Does every call return? | 21 calls against 20 updates and bulk calls; bulk calls with callbacks that write; 3 keys in 2 buckets, 3 values with the zero value |
| `hashmap_marshal` | Is what `MarshalJSON` writes a snapshot? No: finding 3. | one scan, two updates |
| `skip_calls` | Does each call keep the promise the Atomicity Guide makes for it (`EveryCallKeepsItsPromise`), exactly when nobody writes in between (`ExactUnlessRaced`)? Are the answers of navigation, pops, scans and bulk calls justified by what the map held (`AnswersAreJustified`)? Does every call return, retries included? | 34 calls against 24 updates; pops and queries against two updates in a row; methods whose user code writes to the map; 3 keys, 2 values |
| `set_calls` | The same for the sets: atomic operations (`EveryOperationIsAtomic`), set algebra, comparisons, pops, scans, bulk calls and navigation within what the sets held (`AnswersAreJustified`), no call hangs in two locks or in one twice | two sets in four combinations of tree, skip and hash set, the second argument also the set itself; 3 elements in 2 buckets |
| `sequential` | Is the ring buffer a deque (`ImplementsDeque`), are its free slots cleared (`RingSound`)? Do the structures stay sound (`StructuresAreSound`: links, heap order, nothing retained, copies in order) and do list, queue and heap act as their interfaces say (`ContractsAreKept`)? | all call sequences: deque up to 5 elements from every capacity 0 to 5; list up to 4 by insertion and 5 given, with duplicates; queue of capacity 0, 1 and 8 up to 5; heap up to 6 over three priorities |

Why the bounds are enough to be interesting:

- Chains of two to five nodes put a walker before, on and behind every node an
  update touches, and let a detached chain be longer than one node. Eight cells
  (twelve when a Sort rebuilds a list others extend) are never exhausted: TLC
  would report a deadlock, as these runs check for it.
- Three keys in two buckets give two keys that share a lock and one that does
  not; a scan has a bucket behind it and one ahead. Three keys in a skip list
  give a walk one behind, one ahead and one that comes or goes.
- Four combinations of set implementations cover each kind on either side, two
  locked sets, and a locked set consulted by an unlocked one and the reverse.
- The deque grows from every capacity with the ring turned to every position.
  The queue shrinks beyond a capacity of `WorthShrinking = 4` instead of 64, so
  that capacities on both sides of the threshold are small; the proofs leave it
  arbitrary. Six elements are a heap of three levels with a node of one child.
- An update by value and by position, an insertion, and a detachment at once is
  the largest set of conflicting roles in the list; more goroutines of the same
  role repeat them.

`CHECK_DEADLOCK FALSE` appears in the `*_calls` runs that check
`EveryCallReturns`: there a goroutine that hangs inside a call is a violation of
that property, whether or not the others still move. All other runs check for
deadlock; `Terminated` is the only legitimate end.

## 5 Fairness

- `CowList`, `SyncList`, the maps: strong fairness of each goroutine's steps. A
  call that began goes on, callbacks return, and a goroutine that waits for a
  lock again and again free gets it: Go's `sync.Mutex` hands over to a waiter
  that starved for 1 ms, `sync.RWMutex` lets the readers that waited in when a
  writer leaves, and the bucket locks of xsync are `sync.Mutex`. Nobody is obliged
  to make a call or to panic.
- `ConcurrentSkipMap`, `ConcurrentSets`: weak fairness of each goroutine's steps
  (Go's scheduler). It is enough: nobody waits in the skip list, and the few calls
  of a menu cannot keep a reader or writer of a tree set out for ever. The retries
  of the pops end because only another goroutine's success causes one.
- `LockFreeList`: weak fairness only for the goroutines in `Scheduled`. The others
  may stop anywhere for ever. Lock freedom promises system-wide progress; with
  finitely many calls it implies that the scheduled goroutines finish, which
  is what `ScheduledFinish` says.

## 6 Proofs

`tlapm` checks every leaf. The assumptions are the named `ASSUME`s of the modules:
the sentinels are distinct and no cells, elements are integers different from
`nil` or `none`, menus are sets of calls, the initial content fits; for the deque,
the zero value is a value and the given slices are sequences of values; for the
three maps the keys are finite (`KeyAssumption`), as many as the keys of a map in
memory are. A replacing function of the maps returns a value (`Requests`): Go's type
says so. They hold for any number of goroutines, calls, cells, elements and
capacities. The theorems about
`ArrayQueue` have their assumption as a hypothesis (`Parameters`), which
`MCSequential` has TLC evaluate for the values of its run.

### `LockFreeListProofs`

`Invariant == Spec => []IInv` and from it `TypeCorrect`, `NoElementTwice`
(`HandedOutOnce`) and `NoLaterElementSwallowed` (`ClearSwallowsOnlyOverlapping`).
Neither of the last two is inductive. What is missing is *ownership*: a node that is
not published is in the hands of exactly one goroutine, which may write its
fields without a CAS, and its element has not been returned. `IInv` adds

- `Owned`: private nodes of different goroutines are disjoint, unpublished, and
  form the chain their owner built;
- `Links`: a published node leads to a published one in the same condition: both
  attached, or both detached by the same Clear;
- `Control` and cursors: per control point, what a goroutine's expected value,
  position and private cells are.

The proof has a lemma for each group of conjuncts and, within it, one step per
action; actions that only move a cursor share one.

`ChainStaysSound` (`ChainSound`), `KeepsTheContract` (`Spec => ImplementsContract`)
and `BatchesGoLast` (`BatchGoesLast`) rest on a second invariant, `Ordered`, relative
to the first: some sequence `Lists` the attached nodes, each once, in the order of
their next pointers, and every private chain is `Strung` in its order and ends at
the pointer its CAS expects. A linking CAS splices the private chain into that
sequence (`SwingOrders`) or acts on detached nodes; `Cut` empties it. `WalkIs` then
says what the recursive function `Walk` returns.

`Content` is what is left of the listed states without the deleted ones (`Sift`,
again a recursive function). `AllSequences` is induction over sequences stated for
a set, which the provers can instantiate; from it come `SiftFacts` and `SiftConcat`,
and from those what replacing one state (`SiftOne`) or splicing cells in
(`SiftSplice`) does to the content. `StateContract`, `SwingContract` and
`CutContract` match the successful CASes with the contract's actions: on an
attached node an ordinary one, on a detached one `Late`. Every other step leaves
content and swept elements alone (`QuietContract`).

`AnswersJustified` (`WatchedSpec => []AnswersAreJustified`) needs to know what a walk
has left behind it, also while it stands on a node that a Clear has detached.
`WInv` says so with an order `R` of the published nodes along their next pointers
(`Orders`): a linking CAS inserts its chain into it (`SwingKeepsOrder`) and no step
takes two nodes out of it, so the cursor's `Passed` nodes, those that stayed and are
not after it in `R`, grow by the walk's own steps only (`PassedShrinks`,
`OthersProgress`). `Progress` is what each kind of call has made of them: refused
(`find`, `remove`, `removeFunc`), counted (calls with an index), collected once
(`scan`, `sort`), remembered (`removeLast`). At the end of the chain everything that
stayed is passed (`AllPassed`). `Watched` ties the history variables to the chain; a
removal that loses its CAS rests on it: had the element stayed, nobody could have
taken it. `R` is bound by a quantifier that TLC cannot enumerate; before the proof
the invariant was checked with the order computed from the next pointers.

### `ArrayProofs`

*The ring.* `IInv` is `TypeOK /\ RingSound`: tail is `size` slots after head, and free
slots are zero. `Wrap` unfolds the remainder at the only place it can wrap, `RoomFacts` is
growth: the content, read position by position, is unchanged and there is room.
`CopyListsContent` is the order of the two copied segments. `ArrayDequeIsADeque`
is the refinement `Spec => ImplementsDeque`: the initial ring is the given
sequence, and each call changes the content as its abstract call does and gives
the same answer, the unbounded `PushAll` batches included.

`RingTypes` is its first conjunct: what `mod` corrects of Go's remainder.

*The queue.* The array is determined by what it should hold: `Image(cap, len, head, s)` is the
array with the sequence `s` from `head` to `len` and zero elsewhere, and `Holds`
says that a queue is that image. One lemma per operation (`AppendedHolds`,
`CompactHolds`, `SpentHolds`, `ClearedHolds`, ...) says which sequence it holds
afterwards; the invariant adds that at most half of the slice is spent, which is
what makes compaction's copy fit. From it `QueueRetainsNothing` and
`QueueIsFirstInFirstOut`.

### `ConcurrentTreeMapProofs`

`TreeMapIsAtomic` is the refinement `Spec => EveryCallIsAtomic` of `AtomicObject`, for
every method, callbacks that write to the map and panics included. It rests on
an invariant of the lock: the goroutines inside are exactly the holders
(`LockHeld`), a writer has no reader with it (`ReadersAreOut`), and therefore what
a callback was told of is still the content when it answers
(`CallbackIsFresh`, `CallbackIsLocal`). `ReplaceAll` asks entry by entry, so the
proof also carries what the answers so far make of the content. The batches of
`PutSeq` take the last of several values for one key, a greatest index, whose
existence comes from well-foundedness. `TreeMapTypes`, `TreeMapWriterIsAlone` and
`TreeMapCallbackIsUpToDate` are parts of the invariant.

`TreeMapRankIsPosition` (`RankIsPosition`) holds of every content, so its proof is
about two operators. `KeySeq` is the ascending list of the stored keys: the places of
the members of a finite set are distinct, so they fill an interval (`PlacesFill`), so
such a list exists (`ListExists`), and it has every key behind all smaller ones
(`ListPlaces`). `Search` is a recursive function over the ranges `lo .. hi`: one
function at most satisfies its equation, by the shortest range two would differ on
(`HalvesUnique`), and the one that answers where the key lies does
(`SearchFinds`).

### `HashMapProofs`

`HashMapIsAtomic` is `Spec => EveryCallIsAtomic` for `ConcurrentHashMap`. Its
invariant is that of the bucket locks: a goroutine that computes under a lock holds
the one of its key's bucket, nobody else does (`LockHeld`), it is inside a call
whose operation needs that lock (`InACall`), and what its callback was told is
still in the map when it answers (`CallbackHolds`). An operation that takes no
lock is one step, so its instant is that step; one that holds the lock has its
instant when it stores or leaves, and nobody can have changed the key since its
callback saw it.

`HashMapScansAreThorough` and `HashMapReplacesWhatIsThere` are about the bulk
methods, under `ScanSpec`. What the watcher recorded of the contents meanwhile
(`Remembers`) includes the present one; a scan has told of every key that stayed
in the buckets it has passed (`Ranges`); what `RemoveFunc` and `ReplaceAll` have
still to delete or write was accepted or computed from an entry the map held
(`RemovesWell`, `ReplacesWell`).

### `ConcurrentSkipMapProofs`

`SkipMapKeepsItsPromises` is `Spec => EveryCallKeepsItsPromise`: each method has one
instant at which the content changes as the Atomicity Guide allows. `IInv` is
`Types`, `AheadOfWalk` (what a walk has still to pass and must not miss is in
the map and in front of it) and `Place` (where a goroutine can be is decided by
its method and by what it has left to do). A best-effort method decides in one step
on a value it loaded in another, so the promise is weaker than the sequential
effect; `SkipMapExactUnlessRaced` is the other half, that without a write to the
key in between the effect is the sequential one.

`SkipMapAnswersAreJustified` is about walks: that navigation, scans, pops and bulk
calls answer no more and no less than what the map held while they ran. Its
invariant says that the history only narrows (`Remembers`: what stayed is still
there, what was there was seen), that a walk tells keys in ascending order and
only entries the map had (`TellsInOrder`), and that it has told of every key which
stayed and is not in front of it (`MissesNothing`). From the last it follows that a
walk that stops has stopped for a reason (`Concludes`): at the first key on the
side it looks for, at the rank asked for, counted by the keys told, or behind the
last. `PicksWell`, `ClearsWell`, `ReplacesWell` and `RemovesWell` carry this from
the walk to the operations that follow it: a retried pop, a clear, the keys noted
by `RemoveFunc`.

### `SetAnswersProofs`

`SetTypes`, `SetOperationsAreAtomic` and `SetAnswersAreJustified`, under `ScanSpec` and for
any sets of the three kinds, elements, buckets and menus. `IInv` has three parts. `Shape` gives the
variables their sets. `Labelled(p)` says which operations and walks a goroutine may be
at, at its label, and that its plan has only operations its call allows; for that
`Plans` is followed through every method (`Joined`, `Listed`, `HeadOf` are about the
sequences it puts together). `Accounted(s)` is the lock of a tree set: who is in its
`readers` and `writer` is who stands inside one of its operations with that side of
the lock, and a writer inside has no reader with it. No goroutine is in two such
operations, which is why no order of locks can be inverted; that every call then
returns is left to TLC. Each action has a lemma of what it writes (`...Facts`) and
the steps of one goroutine leave the parts of the others alone (`PrivateStep`).

An operation is one step, so `SetOperationsAreAtomic` (`ScanSpec => EveryOperationIsAtomic`)
has to say which. It is `Happens`, but for a pop of a hash or skip set, which walks
until it finds an element, deletes that one and starts again if another goroutine was
first. Its instant is the deletion that succeeds, or the end of a walk that found
nothing; when it may end so is said by `AnswersAreJustified`. `EveryChoice` carries what it needs: in
between a pop holds one element at most and its only operation is to remove it from
its own set.

`SetAnswersAreJustified` (`ScanSpec => []AnswersAreJustified`) is about the calls that are
made of several operations. While such a call runs, the sets it reads change under
it, so its invariant `EveryCall` speaks of what it has learned so far, in terms of
`kept` (what stayed since the call began) and `had` (what was there at some moment),
which only narrow and widen (`Bounds`). `Learned` says for a method that walks:

- `Toured`: of every walk the method consists of (`Leg`) it is ahead, under way or
  behind, and of one that is behind every element that stayed was `Judged`: it is in
  the answer, or for a reason it is not;
- `Strolls`: the walk under way has judged every element that stayed but those it has
  still to tell of (`Left`) and the one it is asking about;
- `Gathers`: what is in the answer is there for a reason (`Sound`): the set walked over
  had it, and the other set could have answered so;
- `Engaged`, `Readied`, `Halves`: what an operation under way found out, that the
  snapshot a tree set walks over is its last, and that `SymmetricDifference` of a tree
  set keeps the first;
- `Sizes`: the sizes that equality and the proper inclusions read first agree, if no
  update overlaps, with the sets.

`Deleting` is `RemoveFunc` after its walk: each element it has to delete, and that is
still there, is in an operation to come. `Clearing` is a clear in one operation. From
the last walk's end `Justified` follows (`LearnsLearned` for what the call makes of
it), and a call that is done keeps it, since its bounds get no narrower
(`JustifiedOn`). The steps of other goroutines touch a call only through the content:
an element they remove no longer stays, one they add may be told of. TLC checked
`EveryCall` on the instance of `set_calls` before it was proved.

### `CowListProofs`, `SyncListProofs`

`CowListDropsNoUpdate`: a writer between its load and its store holds the mutex
(`WritersHoldMu`), only writers store (`StoresWrite`), so the slice it loaded is the
slice that is published, which is `NoUpdateDropped`. `SyncListWriterIsAlone` is the
RWMutex argument for `syncList`: who is inside is in `mu` (`LockHeld`), with the side
of the lock its method needs (`RightLock`), and a writer entered when the last
reader had left (`ReadersAreOut`). In both, steps that stay on one side of the lock
share one lemma.

`CowListIsAtomic` and `SyncListIsAtomic` are the refinements
`Spec => EveryCallIsAtomic`. A call whose loop runs over many steps has its instant
in one of them, so the invariants (`AInv`, `SInv`) keep what the loop has found out
about the slice it works on: a search that it has passed no hit (`Scanned`),
`RemoveFunc` that what it has kept of the first `i` elements is what it has to keep
of them (`Sifted`: a rising numbering of those that stay). `SiftedDrop` and
`SiftedKeep` are the step of that loop, `SiftedAll` its end, `FirstHit` and
`LastHit` the end of a search. In `cowList` the slice is the snapshot, which nobody
writes, and a writer's instant is its `Store`; in `syncList` it is the slice as the
writer found it (`Content`), which a loop that edits in place has partly
overwritten: `Edited` says that what it has still to read is untouched, `Written`
that what it has written is what it kept, and a method's instant is its unlock.
`SyncListIsAtomic` assumes that no predicate of `RemoveFunc` panics; without that it
is false (finding 2). `CowListTypes` and `SyncListTypes` are parts of the same
invariants. The lemmas about `ListOps` stand in both modules, each time for the
elements of that list.

### Only model-checked

`LinkedList` and `PriorityQueue`, whose merge sort and sifting are recursive
(`StructuresAreSound` of `MCSequential`). Liveness is out of the prover's reach. No module under proof declares a recursive operator.

## 7 Findings

Each is a run that TLC finds violated, against a sentence of the repository.

1. `lf_contains`: README.md:778 calls `LockFreeList`'s `Get/Contains` atomic. `Contains`
   walks node by node; an equal element inserted behind the walker before the one
   ahead is removed makes it answer false though the list always held one.
2. `sync_panic`: synclist.go:19 says every method call is atomic. `RemoveFunc` compacts
   in place while it asks its predicate, so a panic leaves a half-compacted slice
   (and the deferred `Unlock` shows it to everybody). `cowList` does not.
3. `hashmap_marshal`: concurrent_hashmap.go:624 promises snapshot consistency.
   `snapshotMap` copies bucket by bucket, so the output may be a content the map
   never had.

Seen while modelling and not a run:

- a callback of `cowList` that runs under the mutex and writes to the list blocks on
  its own lock, which only `synclist.go` documents for its own; cowlist.go:23 and
  the README disagree on what is atomic there;
- `InsertAll` and `Sort` of the lock-free list are sequences of separate updates,
  which the code names best-effort;
- `RemoveFunc` of the concurrent maps removes by key what its predicate accepted
  before: an entry replaced meanwhile goes although its new value is rejected;
- `InsertAll` with no elements and an index out of bounds answers true in `cowList`
  and `syncList` (cowlist.go:196, synclist.go:182), false in `arrayList` and
  `linkedList` (arraylist.go:143, linkedlist.go:217).

## 8 What is not shown

- `hashSet`, `hashMap` and `arrayStack`, which keep nothing between calls but a Go
  map or slice, and the range views of `treeMap` and `treeSet`.
- The libraries: xsync.MapOf, the B-tree and the skip list are taken for what the
  code relies on. The approximate sizes of xsync and of the skip list are any number
  while an update is under way, where a method decides on them (sets and skip
  map), and left out of `ConcurrentHashMap`.
- Values are integers or members of a small set; comparators are total orders.
- Wording, formatting, JSON and gob: only what a decode installs is modelled
  (`replace`, `replaceEntries`, `clear` with elements).
- Callbacks that call the container again where the documentation forbids it (under
  a lock their goroutine holds): they are self-deadlocks of a lock that is not
  re-entrant.
