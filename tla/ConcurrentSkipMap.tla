------------------------- MODULE ConcurrentSkipMap -------------------------
(***************************************************************************)
(* concurrentSkipMap (concurrent_skipmap.go) on the lock-free skip list of *)
(* SkipWalk, whose Load, Store, LoadOrStore, LoadAndDelete and Delete are  *)
(* each atomic.  No method holds a lock.  The conditional updates load the *)
(* value, decide (user code may run, and call the map again), then write   *)
(* by key whatever is there by then.  Everything else is a walk, a walk    *)
(* that writes as it goes, or a list of single operations.                 *)
(*                                                                         *)
(* `call` is the method the goroutine is in, `sub` the update it is going  *)
(* through: bulk methods are many of these.  As in CowList, goroutines p   *)
(* with Caller[p] # none make the calls of a callback.                     *)
(***************************************************************************)
EXTENDS MapOps, SkipWalk

CONSTANTS
    Procs,    \* the goroutines
    Caller,   \* Caller[p]: the goroutine whose callbacks p's calls are, or none
    Keys,     \* the keys, in their order
    Values,   \* the values
    Start,    \* the content NewConcurrentSkipMapFrom was given
    Menus     \* bound: m[p], for an m \in Menus, are the calls p makes, in any order

Single == {"get", "remove", "putIfAbsent", "store"}
Loading == {"put", "replace", "replaceIf", "removeIf", "compute", "computeIfPresent",
            "merge", "computeIfAbsent"}
Popping == {"popFirst", "popLast"}
Walking == {"scan", "containsValue", "rank", "removeFunc", "clear", "replaceAll",
            "replaceEntries"} \cup Navigations \cup Popping
Listed == {"putSeq", "removeAll"}
Kinds == Single \cup Loading \cup Walking \cup Listed
Contents == [Keys -> Values \cup {none}]

\* ReplaceAll's function makes a value of every value.
Requests == {q \in [kind : Kinds, key : Keys, val : Values, old : Values,
                    fn : [Values \cup {none} -> Values \cup {none}],
                    keys : SUBSET Keys, puts : Seq(Keys \X Values)] :
               q.kind = "replaceAll" => \A v \in Values : q.fn[v] \in Values}

ASSUME KeyAssumption == Keys \subseteq Nat \ {0} /\ IsFiniteSet(Keys)
ASSUME ValueAssumption == none \notin Values
ASSUME ProcAssumption == none \notin Procs /\ Caller \in [Procs -> Procs \cup {none}]
ASSUME StartAssumption == Start \in Contents
ASSUME MenuAssumption == Menus \subseteq [Procs -> SUBSET Requests]

VARIABLES
    m,                    \* the entries of the skip list
    pc, call, sub, todo,  \* per goroutine: control, method, update, calls left
    plan,                 \* updates of the method that are still to come
    got,                  \* the value an update has loaded
    walk, seen,           \* the walk, and the entries it has told of, in order
    ret                   \* what the method, or its update, returned

local == <<plan, got, walk, seen>>
vars  == <<m, pc, call, sub, todo, local, ret>>

Init ==
    /\ m = Start
    /\ pc = [p \in Procs |-> "idle"]
    /\ call = [p \in Procs |-> none]
    /\ sub = [p \in Procs |-> none]
    /\ todo \in Menus
    /\ plan = [p \in Procs |-> <<>>]
    /\ got = [p \in Procs |-> none]
    /\ walk = [p \in Procs |-> Begun({})]
    /\ seen = [p \in Procs |-> <<>>]
    /\ ret = [p \in Procs |-> none]

Goto(p, l) == pc' = [pc EXCEPT ![p] = l]

\* What a step that changes the entries does to them and to everybody's walks.
Write(s) ==
    /\ m' = s
    /\ walk' = [p \in Procs |-> Without(walk[p], Stored(s))]

\* p is not waiting for a call its callback made.
Runs(p) == \A c \in Procs : Caller[c] = p => pc[c] = "idle"

\* User code runs: a function or an equality between load and write, the
\* callback of a walk.
InUserCode(p) ==
    \/ pc[p] = "told"
    \/ /\ pc[p] = "decide" /\ sub[p].kind \notin {"put", "replace"}
       /\ sub[p].kind = "merge" => got[p] # none

MayCall(p) == Caller[p] # none => InUserCode(Caller[p])

Storing(q, k, v) == [q EXCEPT !.kind = "store", !.key = k, !.val = v]
Removing(q, k) == [q EXCEPT !.kind = "remove", !.key = k]
Puts(q) == [i \in DOMAIN q.puts |-> Storing(q, q.puts[i][1], q.puts[i][2])]

\* RemoveAll's keys come in any order.
Plans(q) ==
    CASE q.kind \in {"putSeq", "replaceEntries"} -> {Puts(q)}
      [] q.kind = "removeAll" ->
           {[i \in DOMAIN s |-> Removing(q, s[i])] : s \in Seqs!SetToSeqs(q.keys)}
      [] OTHER -> {<<>>}

Call(p) ==
    /\ pc[p] = "idle" /\ MayCall(p)
    /\ \E q \in todo[p] :
         /\ todo' = [todo EXCEPT ![p] = @ \ {q}]
         /\ call' = [call EXCEPT ![p] = q]
         /\ sub' = [sub EXCEPT ![p] = q]
         /\ \E l \in Plans(q) : plan' = [plan EXCEPT ![p] = l]
         /\ Goto(p, CASE q.kind \in Single -> "act" [] q.kind \in Loading -> "load"
                      [] q.kind = "removeFunc" -> "size"
                      [] q.kind \in Walking \ {"removeFunc"} -> "walk" [] OTHER -> "next")
    /\ walk' = [walk EXCEPT ![p] = Begun(Stored(m))]
    /\ UNCHANGED <<m, got, seen, ret>>

-----------------------------------------------------------------------------
(* Updates of one key. *)

\* The entry is stored whatever is there.
Store(q, s) == Does([s EXCEPT ![q.key] = q.val], <<>>)
Act(p) ==
    LET done == IF sub[p].kind = "store" THEN Store(sub[p], m) ELSE Outcome(sub[p], m)
    IN  /\ pc[p] = "act" /\ call[p].kind \notin Popping
        /\ Write(done.s)
        /\ ret' = [ret EXCEPT ![p] = done.ret]
        /\ Goto(p, "done")
        /\ UNCHANGED <<call, sub, todo, plan, got, seen>>

\* The method returns at once what it has loaded: there is nothing to do.
Settled(q, v) ==
    \/ q.kind \in {"replace", "replaceIf", "removeIf", "computeIfPresent"} /\ v = none
    \/ q.kind = "computeIfAbsent" /\ v # none

Load(p) ==
    LET v == m[sub[p].key]
    IN  /\ pc[p] = "load"
        /\ got' = [got EXCEPT ![p] = v]
        /\ IF Settled(sub[p], v)
           THEN /\ ret' = [ret EXCEPT ![p] = Outcome(sub[p], m).ret]
                /\ Goto(p, "done")
           ELSE Goto(p, "decide") /\ UNCHANGED ret
        /\ UNCHANGED <<m, call, sub, todo, plan, walk, seen>>

\* What the method does by key, after it has loaded v, to a map that holds s.
\* `If` and Compute decide on v; what they write replaces anything.
Decision(q, v, s) ==
    LET now == Outcome(q, [s EXCEPT ![q.key] = v])
    IN  CASE q.kind = "computeIfAbsent" -> Outcome(q, s)
          [] q.kind = "removeIf" /\ v = q.old -> Does(now.s, IF s[q.key] = none THEN <<>> ELSE <<1>>)
          [] q.kind \in {"removeIf", "replaceIf"} /\ v # q.old -> Does(s, <<>>)
          [] q.kind = "compute" /\ v = none /\ q.fn[v] = none -> Does(s, <<>>)
          [] OTHER -> now

\* Mutant of Decide: GetOrCompute stores what it computed with Store.
DecideStores(p) ==
    LET done == Decision(sub[p], got[p], m)
        late == [m EXCEPT ![sub[p].key] = sub[p].fn[none]]
    IN  /\ pc[p] = "decide" /\ Runs(p)
        /\ Write(IF sub[p].kind = "computeIfAbsent" THEN late ELSE done.s)
        /\ ret' = [ret EXCEPT ![p] = done.ret]
        /\ Goto(p, "done")
        /\ UNCHANGED <<call, sub, todo, plan, got, seen>>

\* Mutant of Decide: Replace does not look whether its Load found the key.
DecideReplaces(p) ==
    LET done == Decision(sub[p], got[p], m)
    IN  /\ pc[p] = "decide" /\ Runs(p)
        /\ Write(IF sub[p].kind = "replaceIf" THEN Store(sub[p], m).s ELSE done.s)
        /\ ret' = [ret EXCEPT ![p] = done.ret]
        /\ Goto(p, "done")
        /\ UNCHANGED <<call, sub, todo, plan, got, seen>>

Decide(p) ==
    LET done == Decision(sub[p], got[p], m)
    IN  /\ pc[p] = "decide" /\ Runs(p)
        /\ Write(done.s)
        /\ ret' = [ret EXCEPT ![p] = done.ret]
        /\ Goto(p, "done")
        /\ UNCHANGED <<call, sub, todo, plan, got, seen>>

\* The user's function panics; the method ends and stores nothing.
Panic(p) ==
    /\ InUserCode(p) /\ Runs(p)
    /\ ret' = [ret EXCEPT ![p] = <<none>>]
    /\ Goto(p, "done")
    /\ UNCHANGED <<m, call, sub, todo, local>>
-----------------------------------------------------------------------------
(* Walks. *)

\* Mutant of Halts: Filter and RemoveFunc return what the predicate returned.
HaltsOnMiss(q, k, v) ==
    CASE q.kind \in Navigations -> Stops(q.kind, q.key, k)
      [] q.kind = "popFirst" -> TRUE
      [] q.kind \in {"scan", "removeFunc"} -> v # q.old
      [] q.kind = "containsValue" -> v = q.old
      [] q.kind = "rank" -> k = q.key
      [] OTHER -> FALSE

\* The callback returns false after <<k, v>>.
Halts(q, k, v) ==
    CASE q.kind \in Navigations -> Stops(q.kind, q.key, k)
      [] q.kind = "popFirst" -> TRUE
      [] q.kind = "containsValue" -> v = q.old
      [] q.kind = "rank" -> k = q.key
      [] OTHER -> FALSE

\* The answer of a query whose walk told of the entries s.
Rest(s) == s[Len(s)]
Answer(q, s) ==
    LET fit == {i \in DOMAIN s : Qualifies(q.kind, q.key, s[i][1])}
        hit == s # <<>> /\ Halts(q, Rest(s)[1], Rest(s)[2])
    IN  CASE q.kind \in Navigations ->
               IF fit = {} THEN <<>> ELSE s[CHOOSE i \in fit : \A j \in fit : j <= i]
          [] q.kind = "containsValue" -> IF hit THEN <<1>> ELSE <<>>
          [] q.kind = "rank" -> IF hit THEN <<Len(s) - 1>> ELSE <<>>
          [] OTHER -> s

\* RemoveFunc notes the keys its predicate accepts; q.old stands for their values.
Noted(q, e) == IF q.kind = "removeFunc" /\ e[2] = q.old THEN <<Removing(q, e[1])>> ELSE <<>>

\* The walk is over: it told of the entries s.
Conclude(p, s) ==
    CASE call[p].kind \in Popping /\ s # <<>> ->
           /\ sub' = [sub EXCEPT ![p] = Removing(call[p], Rest(s)[1])]
           /\ Goto(p, "act")
           /\ UNCHANGED <<plan, ret>>
      [] call[p].kind \in {"removeFunc", "replaceEntries"} ->
           /\ Goto(p, "next")
           /\ UNCHANGED <<sub, plan, ret>>
      [] OTHER ->
           /\ ret' = [ret EXCEPT ![p] = Answer(call[p], s)]
           /\ Goto(p, "done")
           /\ UNCHANGED <<sub, plan>>

\* The walk reaches an entry.  Clear deletes its key, scans and functions
\* hand it to user code.
Visit(p) ==
    \E k \in Reached(walk[p], Stored(m)) :
      LET told == Append(seen[p], <<k, m[k]>>)
          q == call[p]
      IN  /\ pc[p] = "walk"
          /\ walk' = [walk EXCEPT ![p] = Moved(@, k)]
          /\ seen' = [seen EXCEPT ![p] = told]
          /\ CASE Halts(q, k, m[k]) -> Conclude(p, told)
               [] q.kind \in {"clear", "replaceEntries"} ->
                    /\ sub' = [sub EXCEPT ![p] = Removing(q, k)]
                    /\ Goto(p, "act")
                    /\ UNCHANGED <<plan, ret>>
               [] q.kind \in {"scan", "removeFunc", "replaceAll"} ->
                    Goto(p, "told") /\ UNCHANGED <<sub, plan, ret>>
               [] OTHER -> UNCHANGED <<pc, sub, plan, ret>>
          /\ UNCHANGED <<m, call, todo, got>>

WalkEnds(p) ==
    /\ pc[p] = "walk" /\ AtEnd(walk[p])
    /\ Conclude(p, seen[p])
    /\ UNCHANGED <<m, call, todo, got, walk, seen>>

\* User code is done with the entry; ReplaceAll stores what it made of it, at
\* once, RemoveFunc deletes later.
Continue(p) ==
    LET e == Rest(seen[p]) IN
    /\ pc[p] = "told" /\ Runs(p)
    /\ IF call[p].kind = "replaceAll"
       THEN /\ sub' = [sub EXCEPT ![p] = Storing(call[p], e[1], call[p].fn[e[2]])]
            /\ Goto(p, "act")
       ELSE Goto(p, "walk") /\ UNCHANGED sub
    /\ plan' = [plan EXCEPT ![p] = @ \o Noted(call[p], e)]
    /\ UNCHANGED <<m, call, todo, got, walk, seen, ret>>

-----------------------------------------------------------------------------
\* Mutant of Pop: the value PopFirst found while it was looking is returned.
PopStale(p) ==
    /\ pc[p] = "act" /\ call[p].kind \in Popping /\ m[sub[p].key] # none
    /\ Write([m EXCEPT ![sub[p].key] = none])
    /\ ret' = [ret EXCEPT ![p] = Rest(seen[p])]
    /\ Goto(p, "done")
    /\ UNCHANGED <<call, sub, todo, plan, got, seen>>

\* PopFirst and PopLast delete the key they picked, and return the value the
\* deletion found; when somebody else was faster they look again.
Pop(p) ==
    /\ pc[p] = "act" /\ call[p].kind \in Popping /\ m[sub[p].key] # none
    /\ Write([m EXCEPT ![sub[p].key] = none])
    /\ ret' = [ret EXCEPT ![p] = <<sub[p].key, m[sub[p].key]>>]
    /\ Goto(p, "done")
    /\ UNCHANGED <<call, sub, todo, plan, got, seen>>

\* Mutant of PopRetries: PopFirst gives up when somebody else was faster.
PopGivesUp(p) ==
    /\ pc[p] = "act" /\ call[p].kind \in Popping /\ m[sub[p].key] = none
    /\ ret' = [ret EXCEPT ![p] = <<>>]
    /\ Goto(p, "done")
    /\ UNCHANGED <<m, call, sub, todo, local>>

\* Mutant of PopRetries: the same key is tried again and again.
PopInsists(p) ==
    /\ pc[p] = "act" /\ call[p].kind \in Popping /\ m[sub[p].key] = none
    /\ UNCHANGED vars

\* Mutant of PopRetries: it looks on from the key it lost.
PopLooksOn(p) ==
    /\ pc[p] = "act" /\ call[p].kind \in Popping /\ m[sub[p].key] = none
    /\ walk' = [walk EXCEPT ![p].due = Stored(m)]
    /\ seen' = [seen EXCEPT ![p] = <<>>]
    /\ Goto(p, "walk")
    /\ UNCHANGED <<m, call, sub, todo, plan, got, ret>>

PopRetries(p) ==
    /\ pc[p] = "act" /\ call[p].kind \in Popping /\ m[sub[p].key] = none
    /\ walk' = [walk EXCEPT ![p] = Begun(Stored(m))]
    /\ seen' = [seen EXCEPT ![p] = <<>>]
    /\ Goto(p, "walk")
    /\ UNCHANGED <<m, call, sub, todo, plan, got, ret>>

\* Size is exact when no update is under way ("approximate", line 39).
Updating(p) == pc[p] # "idle" /\ call[p].kind \notin {"get", "scan", "containsValue", "rank"} \cup Navigations
MayCount(p, n) == n = Cardinality(Stored(m)) \/ \E q \in Procs \ {p} : Updating(q)

\* RemoveFunc of a map that looks empty returns at once.
RemovesNothing(p) ==
    /\ pc[p] = "size" /\ MayCount(p, 0)
    /\ ret' = [ret EXCEPT ![p] = <<0>>]
    /\ Goto(p, "done")
    /\ UNCHANGED <<m, call, sub, todo, local>>

Collects(p) ==
    /\ pc[p] = "size" /\ \E n \in 1 .. Cardinality(Keys) : MayCount(p, n)
    /\ walk' = [walk EXCEPT ![p] = Begun(Stored(m))]
    /\ Goto(p, "walk")
    /\ UNCHANGED <<m, call, sub, todo, plan, got, seen, ret>>

\* A bulk method begins its next update.
Proceed(p) ==
    /\ pc[p] = "next" /\ plan[p] # <<>>
    /\ sub' = [sub EXCEPT ![p] = Head(plan[p])]
    /\ plan' = [plan EXCEPT ![p] = Tail(@)]
    /\ Goto(p, "act")
    /\ UNCHANGED <<m, call, todo, got, walk, seen, ret>>

\* An update of a bulk method is over; Clear and ReplaceAll walk on.
Writing == {"clear", "replaceAll", "replaceEntries", "removeFunc"} \cup Listed
Resume(p) ==
    /\ pc[p] = "done" /\ call[p].kind \in Writing /\ sub[p] # call[p]
    /\ Goto(p, IF call[p].kind \in {"clear", "replaceAll"} \/
                   (call[p].kind = "replaceEntries" /\ sub[p].kind = "remove")
                THEN "walk" ELSE "next")
    /\ sub' = [sub EXCEPT ![p] = call[p]]
    /\ ret' = [ret EXCEPT ![p] = none]
    /\ UNCHANGED <<m, call, todo, local>>

\* The method returns, also when its user code has panicked.
Return(p) ==
    /\ \/ pc[p] = "done" /\ (call[p].kind \notin Writing \/ sub[p] = call[p])
       \/ pc[p] = "next" /\ plan[p] = <<>>
    /\ Goto(p, "idle")
    /\ call' = [call EXCEPT ![p] = none]
    /\ sub' = [sub EXCEPT ![p] = none]
    /\ got' = [got EXCEPT ![p] = none]
    /\ walk' = [walk EXCEPT ![p] = Begun({})]
    /\ seen' = [seen EXCEPT ![p] = <<>>]
    /\ ret' = [ret EXCEPT ![p] = none]
    /\ UNCHANGED <<m, todo, plan>>

\* Every goroutine has made its calls (a callback's calls are optional).
Terminated ==
    /\ \A p \in Procs : pc[p] = "idle" /\ (Caller[p] = none => todo[p] = {})
    /\ UNCHANGED vars

Step(p) == \/ Act(p) \/ Load(p) \/ Decide(p) \/ Visit(p) \/ WalkEnds(p) \/ Continue(p)
           \/ Pop(p) \/ PopRetries(p) \/ RemovesNothing(p) \/ Collects(p) \/ Proceed(p)
           \/ Resume(p) \/ Return(p)
Next == Terminated \/ \E p \in Procs : Call(p) \/ Step(p) \/ Panic(p)

Spec == Init /\ [][Next]_vars

\* Nobody waits for anybody, a method for its own callbacks excepted.
Fairness == \A p \in Procs : WF_vars(Step(p))

-----------------------------------------------------------------------------
(* Type invariant; a walk cannot miss a key that is not there or behind it.*)
TypeOK ==
    /\ m \in Contents
    /\ pc \in [Procs -> {"idle", "act", "load", "decide", "size", "walk", "told", "next", "done"}]
    /\ call \in [Procs -> Requests \cup {none}]
    /\ sub \in [Procs -> Requests \cup {none}]
    /\ todo \in [Procs -> SUBSET Requests]
    /\ plan \in [Procs -> Seq(Requests)]
    /\ got \in [Procs -> Values \cup {none}]
    /\ walk \in [Procs -> Walks(Keys)]
    /\ seen \in [Procs -> Seq(Keys \X Values)]
    /\ \A p \in Procs : walk[p].due \subseteq {k \in Stored(m) : k > walk[p].pos}

(***************************************************************************)
(* The Atomicity Guide (collection.go:623-650, 696-748).  ATOMIC: Get,     *)
(* Remove, PutIfAbsent, RemoveAndGet and GetOrCompute take effect in one   *)
(* instant and return what they found then; so do the updates of the bulk  *)
(* methods.  BEST-EFFORT: Put, Compute and the `If`s make one atomic       *)
(* write, decided on a value the key need not have any more; PopFirst and  *)
(* PopLast remove the entry they return, whoever else pops or stores, and  *)
(* remove nothing when they return none.                                   *)
(***************************************************************************)
Promised(q, s) ==
    CASE q.kind = "store" -> {Store(q, s)}
      [] q.kind \in Popping ->
           {Does([s EXCEPT ![k] = none], <<k, s[k]>>) : k \in Stored(s)} \cup {Does(s, <<>>)}
      [] q.kind \in Loading \ {"computeIfAbsent"} ->
           {Decision(q, v, s) : v \in Values \cup {none}} \cup {Does(s, <<none>>)}
      [] q.kind = "computeIfAbsent" -> {Outcome(q, s), Does(s, <<none>>)}
      [] OTHER -> {Outcome(q, s)}

Moment(p) ==
    IF pc[p] = "idle" THEN "idle"
    ELSE IF call[p].kind \in Single \cup Loading \cup Popping
         THEN IF pc[p] = "done" THEN "closed" ELSE "open"
    ELSE IF sub[p] = call[p] THEN "idle"
    ELSE CASE pc[p] = "act" -> "open" [] pc[p] = "done" -> "closed" [] OTHER -> "idle"

Atomic == INSTANCE AtomicObject WITH
    Effects <- Promised,
    content <- m,
    stage <- [p \in Procs |-> Moment(p)],
    request <- [p \in Procs |-> IF Moment(p) = "idle" THEN none
                                ELSE IF call[p].kind \in Popping THEN call[p] ELSE sub[p]],
    result <- [p \in Procs |-> IF Moment(p) = "closed" THEN ret[p] ELSE none]

EveryCallKeepsItsPromise == Atomic!Spec

(***************************************************************************)
(* A best-effort update whose key still has the value it loaded is exact:  *)
(* it does what the atomic method of the other maps does.                  *)
(***************************************************************************)
ExactUnlessRaced ==
    [][\A p \in Procs :
         pc[p] = "decide" /\ pc'[p] = "done" /\ ret'[p] # <<none>> /\ m[sub[p].key] = got[p] =>
           m' = Outcome(sub[p], m).s /\ ret'[p] = Outcome(sub[p], m).ret]_vars

(***************************************************************************)
(* No call hangs: callbacks may call the map, pops look again only when    *)
(* somebody else removed a key.                                            *)
(***************************************************************************)
EveryCallReturns == \A p \in Procs : pc[p] # "idle" ~> pc[p] = "idle"
=============================================================================
