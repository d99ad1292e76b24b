--------------------------- MODULE ConcurrentSets ---------------------------
(***************************************************************************)
(* The concurrent sets and the methods that work on two of them:           *)
(* concurrentTreeSet (an RWMutex around a sorted set), concurrentHashSet   *)
(* (xsync.MapOf, external: atomic updates, Range copies bucket by bucket)  *)
(* and concurrentSkipSet (SkipWalk).  impl[s] says which one the set s is. *)
(*                                                                         *)
(* A method is a list of operations, each atomic on one set: under the     *)
(* lock of a tree set, a single call of the external set for the others.   *)
(* A "walk" tells of the elements of a set one by one; for each it may ask *)
(* the other set, or delete, or run user code.  A tree set is walked over  *)
(* a snapshot, without its lock.  Elements are positive, ret and out are   *)
(* sets of numbers: {} is false or nothing.                                *)
(***************************************************************************)
EXTENDS SkipWalk, SequencesExt, RWMutex

CONSTANTS
    Procs,    \* the goroutines
    Caller,   \* Caller[p]: the goroutine whose callbacks p's calls are, or none
    Sets,     \* the sets
    Elems,    \* the elements, in their order
    Buckets,  \* how a hash set spreads the elements
    Mixes,    \* implementations the sets may have
    Start,    \* Start[s]: the elements s is constructed with
    Menus     \* bound: m[p], for an m \in Menus, are the calls p makes, in any order

Points == {"add", "remove", "contains"}
Batches == {"addAll", "removeAll", "containsAll"}
Pops == {"pop", "popFirst", "popLast"}
\* Only a ConcurrentSortedSet has these.
Sorted == Navigations \cup {"popFirst", "popLast"}
Algebra == {"union", "intersection", "difference", "symmetricDifference"}
Sized == {"equals", "isProperSubsetOf", "isProperSupersetOf"}
Relations == {"isSubsetOf", "isSupersetOf", "isDisjoint"} \cup Sized
Updates == {"add", "remove", "addAll", "removeAll", "clear", "refill", "removeFunc"} \cup Pops
Kinds == Points \cup Batches \cup Pops \cup Algebra \cup Relations \cup Navigations \cup Updates \cup {"scan"}
Tasks == Kinds \cup {"size", "snapshot", "walk"}
Numbers == 0 .. Cardinality(Elems)

\* A call, and an operation it consists of: on the set `on`, or a walk over it
\* that asks `other`.
Op(kind, on, other, elem, elems) ==
    [kind |-> kind, on |-> on, other |-> other, elem |-> elem, elems |-> elems]
Ops == [kind : Tasks, on : Sets, other : Sets \cup {none, "itself"},
        elem : Elems, elems : SUBSET Elems]
Requests == {q \in Ops : q.kind \in Kinds /\ q.other \in Sets}

\* 1 stands in for the element of an operation that has none.
ASSUME ElemAssumption == Elems \subseteq Nat \ {0} /\ IsFiniteSet(Elems) /\ 1 \in Elems
ASSUME SetAssumption == none \notin Sets \cup {"itself"} /\ "itself" \notin Sets
ASSUME SnapshotAssumption == \A E \in SUBSET Elems : E # none
ASSUME BucketAssumption == \A e \in Elems : \E b \in Buckets : e \in b
ASSUME ProcAssumption == none \notin Procs /\ Caller \in [Procs -> Procs \cup {none}]
ASSUME MixAssumption == Mixes \subseteq [Sets -> {"hash", "skip", "tree"}]
ASSUME StartAssumption == Start \in [Sets -> SUBSET Elems]
ASSUME MenuAssumption == Menus \subseteq [Procs -> SUBSET Requests]

VARIABLES
    impl, content, lock,   \* per set: implementation, elements, mutex of a tree set
    pc, call, todo,        \* per goroutine: control, method, calls left
    op, plan,              \* the operation under way and those to come
    walk, snap, sizes,     \* the walk, the first snapshot, the sizes read
    out, ret               \* what the walk collected, what the operation returned

sets  == <<content, lock>>
mine  == <<walk, snap, sizes, out>>
vars  == <<impl, sets, pc, call, todo, op, plan, mine, ret>>

Unstarted(s) == [on |-> s, other |-> none, left |-> {}, batch |-> {}, at |-> Begun({})]
Nowhere == Unstarted(none)
Init ==
    /\ impl \in Mixes
    /\ content = Start
    /\ lock = [s \in Sets |-> Unlocked]
    /\ pc = [p \in Procs |-> "idle"]
    /\ call = [p \in Procs |-> none]
    /\ todo \in Menus
    /\ \A p \in Procs : \A q \in todo[p] : impl[q.on] = "hash" => q.kind \notin Sorted
    /\ op = [p \in Procs |-> none]
    /\ plan = [p \in Procs |-> <<>>]
    /\ walk = [p \in Procs |-> Nowhere]
    /\ snap = [p \in Procs |-> none]
    /\ sizes = [p \in Procs |-> <<>>]
    /\ out = [p \in Procs |-> {}]
    /\ ret = [p \in Procs |-> {}]

Goto(p, l) == pc' = [pc EXCEPT ![p] = l]
Locked(s) == impl[s] = "tree"
Runs(p) == \A c \in Procs : Caller[c] = p => pc[c] = "idle"
MayCall(p) == Caller[p] # none => pc[Caller[p]] = "told"

-----------------------------------------------------------------------------
(* The operations a method consists of.                                    *)

\* One operation per element.  The order is the caller's: any.
Each(kind, s, E) ==
    {[i \in DOMAIN l |-> Op(kind, s, none, l[i], {})] : l \in SetToSeqs(E)}

Walk(s, other) ==
    IF Locked(s) THEN <<Op("snapshot", s, none, 1, {}), Op("walk", s, other, 1, {})>>
                 ELSE <<Op("walk", s, other, 1, {})>>
SizeOf(s) == <<Op("size", s, none, 1, {})>>

\* The second half of SymmetricDifference asks the set itself; treeSet's, the
\* snapshot the first half walked over.
Back(q) == Walk(q.other, IF Locked(q.on) THEN "itself" ELSE q.on)

\* Mutant of Combine: SymmetricDifference forgets the elements of other.
CombineHalf(q) ==
    CASE q.kind = "union" -> Walk(q.on, none) \o Walk(q.other, none)
      [] q.kind = "symmetricDifference" -> Walk(q.on, q.other)
      [] q.kind = "isSupersetOf" -> Walk(q.other, q.on)
      [] OTHER -> Walk(q.on, q.other)

Combine(q) ==
    CASE q.kind = "union" -> Walk(q.on, none) \o Walk(q.other, none)
      [] q.kind = "symmetricDifference" -> Walk(q.on, q.other) \o Back(q)
      [] q.kind = "isSupersetOf" -> Walk(q.other, q.on)
      [] OTHER -> Walk(q.on, q.other)

\* Equals of a tree set compares its snapshot's size, not its own.
Compare(q) ==
    CASE q.kind = "isProperSubsetOf" -> SizeOf(q.on) \o SizeOf(q.other) \o Walk(q.on, q.other)
      [] q.kind = "isProperSupersetOf" -> SizeOf(q.on) \o SizeOf(q.other) \o Walk(q.other, q.on)
      [] q.kind = "equals" /\ Locked(q.on) ->
           <<Walk(q.on, q.other)[1]>> \o SizeOf(q.other) \o <<Walk(q.on, q.other)[2]>>
      [] OTHER -> SizeOf(q.on) \o SizeOf(q.other) \o Walk(q.on, q.other)

\* The methods that are one operation.
AtOnce(q) ==
    \/ q.kind \in Points
    \/ q.kind = "clear" /\ impl[q.on] = "hash"
    \/ Locked(q.on) /\ q.kind \notin Algebra \cup Relations \cup {"scan", "removeFunc"}

Plans(q) ==
    CASE AtOnce(q) -> {<<q>>}
      [] q.kind \in Algebra \cup (Relations \ Sized) -> {Combine(q)}
      [] q.kind \in Sized -> {Compare(q)}
      [] q.kind = "removeFunc" /\ ~Locked(q.on) -> {SizeOf(q.on) \o Walk(q.on, none)}
      [] q.kind = "addAll" /\ ~Locked(q.on) -> Each("add", q.on, q.elems)
      [] q.kind = "removeAll" /\ ~Locked(q.on) -> Each("remove", q.on, q.elems)
      [] q.kind = "containsAll" /\ ~Locked(q.on) -> Each("contains", q.on, q.elems)
      [] q.kind = "refill" /\ ~Locked(q.on) ->
           {(IF impl[q.on] = "hash" THEN <<Op("clear", q.on, none, 1, {})>> ELSE Walk(q.on, none)) \o l
              : l \in Each("add", q.on, q.elems)}
      [] OTHER -> {Walk(q.on, none)}

Call(p) ==
    /\ pc[p] = "idle" /\ MayCall(p)
    /\ \E q \in todo[p] :
         /\ todo' = [todo EXCEPT ![p] = @ \ {q}]
         /\ call' = [call EXCEPT ![p] = q]
         /\ \E l \in Plans(q) : plan' = [plan EXCEPT ![p] = l]
    /\ Goto(p, "next")
    /\ UNCHANGED <<impl, sets, op, mine, ret>>

\* A walk over a tree set goes over the snapshot that was just taken.
Walked(s, asked, taken) ==
    [Unstarted(s) EXCEPT !.other = asked, !.batch = IF Locked(s) THEN taken ELSE {},
                         !.left = IF impl[s] = "hash" THEN Buckets ELSE {},
                         !.at = Begun(IF impl[s] = "skip" THEN content[s] ELSE {})]

\* The method begins its next operation.
Proceed(p) ==
    LET o == Head(plan[p])
    IN  /\ pc[p] = "next" /\ plan[p] # <<>>
        /\ plan' = [plan EXCEPT ![p] = Tail(@)]
        /\ op' = [op EXCEPT ![p] = o]
        /\ IF o.kind = "walk"
           THEN /\ walk' = [walk EXCEPT ![p] = Walked(o.on, o.other, walk[p].batch)]
                /\ Goto(p, "walk")
           ELSE Goto(p, "act") /\ UNCHANGED walk
        /\ UNCHANGED <<impl, sets, call, todo, snap, sizes, out, ret>>

-----------------------------------------------------------------------------
(* Operations on one set.                                                  *)

If(b) == IF b THEN {1} ELSE {}
Does(S, r) == [S |-> S, ret |-> r]

\* What it does to the elements S, and returns.  treeSet's Pop is PopFirst.
Effect(o, S) ==
    CASE o.kind = "add" -> Does(S \cup {o.elem}, If(o.elem \notin S))
      [] o.kind = "remove" -> Does(S \ {o.elem}, If(o.elem \in S))
      [] o.kind = "contains" -> Does(S, If(o.elem \in S))
      [] o.kind = "addAll" -> Does(S \cup o.elems, {Cardinality(o.elems \ S)})
      [] o.kind = "removeAll" -> Does(S \ o.elems, {Cardinality(o.elems \cap S)})
      [] o.kind = "containsAll" -> Does(S, If(o.elems \subseteq S))
      [] o.kind = "clear" -> Does({}, {})
      [] o.kind = "refill" -> Does(o.elems, {})
      [] o.kind \in {"pop", "popFirst"} -> Does(S \ Wanted("first", 1, S), Wanted("first", 1, S))
      [] o.kind = "popLast" -> Does(S \ Wanted("last", 1, S), Wanted("last", 1, S))
      [] o.kind \in Navigations -> Does(S, Wanted(o.kind, o.elem, S))
      [] o.kind = "size" -> Does(S, {Cardinality(S)})
      [] o.kind = "snapshot" -> Does(S, S)

\* The sizes of the hash and skip sets are exact when no update is under way.
Updating(p, s) == pc[p] # "idle" /\ call[p].kind \in Updates /\ call[p].on = s
Outcomes(p, o) ==
    IF o.kind = "size" /\ ~Locked(o.on) /\ \E r \in Procs \ {p} : Updating(r, o.on)
    THEN {Does(content[o.on], {n}) : n \in Numbers}
    ELSE {Effect(o, content[o.on])}

\* The operation takes effect, also on the walks over a skip list.
Happens(p) ==
    \E e \in Outcomes(p, op[p]) :
      /\ content' = [content EXCEPT ![op[p].on] = e.S]
      /\ walk' = [r \in Procs |-> IF walk[r].on = op[p].on
                                  THEN [walk[r] EXCEPT !.at = Without(@, e.S)] ELSE walk[r]]
      /\ ret' = [ret EXCEPT ![p] = e.ret]
      /\ Goto(p, "got")
      /\ UNCHANGED <<impl, call, todo, op, plan, snap, sizes, out>>

Act(p) ==
    /\ pc[p] = "act" /\ ~Locked(op[p].on)
    /\ Happens(p)
    /\ UNCHANGED lock

Reading(o) == o.kind \notin Updates
Asks(p) ==
    LET k == lock[op[p].on] IN
    /\ pc[p] = "act" /\ Locked(op[p].on)
    /\ \/ /\ Reading(op[p]) /\ MayRLock(k)
          /\ lock' = [lock EXCEPT ![op[p].on] = RLocked(k, p)]
          /\ Goto(p, "held")
       \/ /\ ~Reading(op[p]) /\ MayAnnounce(k)
          /\ lock' = [lock EXCEPT ![op[p].on] = Announced(k, p)]
          /\ Goto(p, "queued")
    /\ UNCHANGED <<impl, content, call, todo, op, plan, mine, ret>>

Enters(p) ==
    /\ pc[p] = "queued" /\ Granted(lock[op[p].on], p)
    /\ Goto(p, "held")
    /\ UNCHANGED <<impl, sets, call, todo, op, plan, mine, ret>>

\* Mutant of Leaves: set algebra keeps the lock while it consults other.
LeavesLater(p) ==
    LET k == lock[op[p].on] IN
    /\ pc[p] = "held"
    /\ Happens(p)
    /\ lock' = [lock EXCEPT ![op[p].on] =
                  CASE op[p].kind = "snapshot" -> k
                    [] Reading(op[p]) -> RUnlocked(k, p) [] OTHER -> Released(k)]

\* Nothing a caller provides runs under the lock.
Leaves(p) ==
    LET k == lock[op[p].on] IN
    /\ pc[p] = "held"
    /\ Happens(p)
    /\ lock' = [lock EXCEPT ![op[p].on] = IF Reading(op[p]) THEN RUnlocked(k, p) ELSE Released(k)]

-----------------------------------------------------------------------------
(* Walks.                                                                  *)

\* The elements the walk may tell of next, and the walk after e.
Ready(w) ==
    CASE impl[w.on] = "skip" -> Reached(w.at, content[w.on])
      [] impl[w.on] = "hash" -> w.batch
      [] OTHER -> Wanted("first", 1, w.batch)
Past(w, e) ==
    IF impl[w.on] = "skip" THEN [w EXCEPT !.at = Moved(@, e)] ELSE [w EXCEPT !.batch = @ \ {e}]
Over(w) == w.left = {} /\ w.batch = {} /\ AtEnd(w.at)

\* e is collected; `found`: the other set has it.  A query whose answer is no
\* collects the element that says so.
Collects(q, e, found) ==
    CASE q.kind \in {"intersection", "isDisjoint"} -> found
      [] q.kind \in {"difference", "symmetricDifference"} \cup (Relations \ {"isDisjoint"}) -> ~found
      [] q.kind = "removeFunc" -> e \in q.elems
      [] q.kind \in Navigations -> Qualifies(q.kind, q.elem, e)
      [] OTHER -> TRUE

\* The callback returns false.
Halts(q, e, found) ==
    CASE q.kind \in Relations -> Collects(q, e, found)
      [] q.kind \in {"pop", "popFirst"} -> TRUE
      [] q.kind \in Navigations -> Stops(q.kind, q.elem, e)
      [] OTHER -> FALSE

\* The walk has found out about e.
Judge(p, e, found) ==
    LET q == call[p] IN
    /\ out' = [out EXCEPT ![p] = IF ~Collects(q, e, found) THEN @
                                 ELSE IF q.kind \in Pops \cup Navigations THEN {e} ELSE @ \cup {e}]
    /\ Goto(p, IF Halts(q, e, found) THEN "walked" ELSE "walk")

\* The walk tells of an element.
Visit(p) ==
    /\ pc[p] = "walk"
    /\ \E e \in Ready(walk[p]) :
      LET w == walk[p]  q == call[p]
      IN  /\ walk' = [walk EXCEPT ![p] = Past(w, e)]
          /\ IF w.other \in Sets
             THEN /\ op' = [op EXCEPT ![p] = Op("contains", w.other, none, e, {})]
                  /\ Goto(p, "act") /\ UNCHANGED out
             ELSE IF w.other = "itself"
             THEN Judge(p, e, e \in snap[p]) /\ UNCHANGED op
             ELSE IF q.kind \in {"clear", "refill"}
             THEN /\ op' = [op EXCEPT ![p] = Op("remove", q.on, none, e, {})]
                  /\ Goto(p, "act") /\ UNCHANGED out
             ELSE IF q.kind \in {"scan", "removeFunc"}
             THEN /\ op' = [op EXCEPT ![p] = Op("walk", q.on, none, e, {})]
                  /\ Goto(p, "told") /\ UNCHANGED out
             ELSE Judge(p, e, TRUE) /\ UNCHANGED op
          /\ UNCHANGED <<impl, sets, call, todo, plan, snap, sizes, ret>>

\* Range of the hash set copies the next bucket.
Copying(w, b) == [w EXCEPT !.left = @ \ {b}, !.batch = b \cap content[w.on]]
NextBucket(p) ==
    \E b \in walk[p].left :
      /\ pc[p] = "walk" /\ walk[p].batch = {}
      /\ walk' = [walk EXCEPT ![p] = Copying(@, b)]
      /\ UNCHANGED <<impl, sets, pc, call, todo, op, plan, snap, sizes, out, ret>>

WalkEnds(p) ==
    /\ pc[p] = "walk" /\ Over(walk[p])
    /\ Goto(p, "walked")
    /\ UNCHANGED <<impl, sets, call, todo, op, plan, mine, ret>>

\* User code is done with the element.
Continue(p) ==
    /\ pc[p] = "told" /\ Runs(p)
    /\ Judge(p, op[p].elem, TRUE)
    /\ UNCHANGED <<impl, sets, call, todo, op, plan, walk, snap, sizes, ret>>

\* It panics.
Panic(p) ==
    /\ pc[p] = "told" /\ Runs(p)
    /\ ret' = [ret EXCEPT ![p] = none]
    /\ Goto(p, "done")
    /\ UNCHANGED <<impl, sets, call, todo, op, plan, mine>>

\* After the walk, Pop deletes the element it picked, RemoveFunc those its
\* predicate accepted: treeSet's under one lock.
Conclude(p) ==
    LET q == call[p] IN
    /\ pc[p] = "walked"
    /\ CASE q.kind \in Pops /\ out[p] # {} ->
              \E e \in out[p] :
                /\ op' = [op EXCEPT ![p] = Op("remove", q.on, none, e, {})]
                /\ Goto(p, "act") /\ UNCHANGED plan
         [] q.kind = "removeFunc" ->
              /\ \E l \in IF Locked(q.on) THEN {<<Op("removeAll", q.on, none, 1, out[p])>>}
                          ELSE Each("remove", q.on, out[p]) : plan' = [plan EXCEPT ![p] = l]
              /\ Goto(p, "next") /\ UNCHANGED op
         [] OTHER -> Goto(p, "next") /\ UNCHANGED <<plan, op>>
    /\ walk' = [walk EXCEPT ![p] = Nowhere]
    /\ UNCHANGED <<impl, sets, call, todo, snap, sizes, out, ret>>

-----------------------------------------------------------------------------
(* What the method does with what an operation returned.                   *)

Got(p, K) == pc[p] = "got" /\ op[p].kind \in K

\* Mutant of SizesFit: IsProperSubsetOf lets equal sizes pass.
SizesFitLoosely(kind, a, b) ==
    CASE kind = "equals" -> a = b [] kind = "isProperSubsetOf" -> a <= b [] OTHER -> a > b

SizesFit(kind, a, b) ==
    CASE kind = "equals" -> a = b [] kind = "isProperSubsetOf" -> a < b [] OTHER -> a > b

\* RemoveFunc of nothing returns at once; when the sizes settle the answer it
\* is no, and 0 is collected to say so.
Settled(p, n) ==
    \/ call[p].kind = "removeFunc" /\ n = 0
    \/ call[p].kind \in Sized /\ sizes[p] # <<>> /\ ~SizesFit(call[p].kind, sizes[p][1], n)

Learns(p) ==
    LET o == op[p]
        n == IF o.kind = "snapshot" THEN Cardinality(ret[p]) ELSE CHOOSE n \in ret[p] : TRUE
        counts == o.kind = "size" \/ call[p].kind \in {"equals", "removeFunc"}
    IN  /\ Got(p, {"size", "snapshot"})
        /\ IF o.kind = "snapshot"
           THEN /\ walk' = [walk EXCEPT ![p].batch = ret[p]]
                /\ snap' = [snap EXCEPT ![p] = IF @ = none THEN ret[p] ELSE @]
           ELSE UNCHANGED <<walk, snap>>
        /\ sizes' = [sizes EXCEPT ![p] = IF counts THEN Append(@, n) ELSE @]
        /\ IF counts /\ Settled(p, n)
           THEN Goto(p, "done") /\ out' = [out EXCEPT ![p] = {0}]
           ELSE Goto(p, "next") /\ UNCHANGED out
        /\ UNCHANGED <<impl, sets, call, todo, op, plan, ret>>

\* Contains of the other set has answered.
Consulted(p) ==
    /\ Got(p, {"contains"}) /\ call[p].kind \in Algebra \cup Relations
    /\ Judge(p, op[p].elem, ret[p] # {})
    /\ UNCHANGED <<impl, sets, call, todo, op, plan, walk, snap, sizes, ret>>

\* Mutant of Popped: Pop does not look whether its deletion found the element.
PoppedStale(p) ==
    /\ Got(p, {"remove"}) /\ call[p].kind \in Pops
    /\ ret' = [ret EXCEPT ![p] = out[p]]
    /\ Goto(p, "done")
    /\ UNCHANGED <<impl, sets, call, todo, op, plan, mine>>

\* Mutant of Popped: Pop gives up when somebody else was faster.
PoppedOrNot(p) ==
    /\ Got(p, {"remove"}) /\ call[p].kind \in Pops
    /\ ret' = [ret EXCEPT ![p] = IF @ = {} THEN {} ELSE out[p]]
    /\ Goto(p, "done")
    /\ UNCHANGED <<impl, sets, call, todo, op, plan, mine>>

\* Pop returns the element it deleted, or picks again.
Popped(p) ==
    /\ Got(p, {"remove"}) /\ call[p].kind \in Pops
    /\ IF ret[p] = {}
       THEN /\ plan' = [plan EXCEPT ![p] = Walk(call[p].on, none)]
            /\ Goto(p, "next") /\ UNCHANGED ret
       ELSE /\ ret' = [ret EXCEPT ![p] = out[p]]
            /\ Goto(p, "done") /\ UNCHANGED plan
    /\ out' = [out EXCEPT ![p] = {}]
    /\ UNCHANGED <<impl, sets, call, todo, op, walk, snap, sizes>>

\* Mutant of Resume: Clear stops when somebody else deleted the element.
ResumeUnlessGone(p) ==
    /\ Got(p, Kinds) /\ call[p].kind \notin Algebra \cup Relations
    /\ ~(op[p].kind = "remove" /\ call[p].kind \in Pops)
    /\ Goto(p, CASE op[p].kind = "remove" /\ call[p].kind \in {"clear", "refill"} ->
                      IF ret[p] = {} THEN "walked" ELSE "walk"
                 [] op[p].kind = "contains" /\ ret[p] = {} -> "done"
                 [] OTHER -> "next")
    /\ UNCHANGED <<impl, sets, call, todo, op, plan, mine, ret>>

\* Clear walks on; ContainsAll stops at the first element that is missing.
Resume(p) ==
    /\ Got(p, Kinds) /\ call[p].kind \notin Algebra \cup Relations
    /\ ~(op[p].kind = "remove" /\ call[p].kind \in Pops)
    /\ Goto(p, CASE op[p].kind = "remove" /\ walk[p].on # none -> "walk"
                 [] op[p].kind = "contains" /\ ret[p] = {} -> "done"
                 [] OTHER -> "next")
    /\ UNCHANGED <<impl, sets, call, todo, op, plan, mine, ret>>

\* Every operation is done.  Pop has deleted nothing, or it is not here.
Finish(p) ==
    /\ pc[p] = "next" /\ plan[p] = <<>>
    /\ Goto(p, "done")
    /\ ret' = [ret EXCEPT ![p] = IF call[p].kind \in Pops /\ ~Locked(call[p].on) THEN {} ELSE @]
    /\ UNCHANGED <<impl, sets, call, todo, op, plan, mine>>

Return(p) ==
    /\ pc[p] = "done"
    /\ Goto(p, "idle")
    /\ call' = [call EXCEPT ![p] = none]
    /\ op' = [op EXCEPT ![p] = none]
    /\ plan' = [plan EXCEPT ![p] = <<>>]
    /\ walk' = [walk EXCEPT ![p] = Nowhere]
    /\ snap' = [snap EXCEPT ![p] = none]
    /\ sizes' = [sizes EXCEPT ![p] = <<>>]
    /\ out' = [out EXCEPT ![p] = {}]
    /\ ret' = [ret EXCEPT ![p] = {}]
    /\ UNCHANGED <<impl, sets, todo>>

\* Every goroutine has made its calls (a callback's calls are optional).
Terminated ==
    /\ \A p \in Procs : pc[p] = "idle" /\ (Caller[p] = none => todo[p] = {})
    /\ UNCHANGED vars

Step(p) == \/ Proceed(p) \/ Act(p) \/ Asks(p) \/ Enters(p) \/ Leaves(p) \/ Visit(p)
           \/ NextBucket(p) \/ WalkEnds(p) \/ Continue(p) \/ Conclude(p) \/ Learns(p)
           \/ Consulted(p) \/ Popped(p) \/ Resume(p) \/ Finish(p) \/ Return(p)
Next == Terminated \/ \E p \in Procs : Call(p) \/ Step(p) \/ Panic(p)

Spec == Init /\ [][Next]_vars

\* Go's scheduler and its RWMutex leave nobody waiting for ever.
Fairness == \A p \in Procs : WF_vars(Step(p))
=============================================================================
