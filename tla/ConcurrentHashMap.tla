------------------------- MODULE ConcurrentHashMap -------------------------
(***************************************************************************)
(* concurrentHashMap (concurrent_hashmap.go) on xsync.MapOf, which is      *)
(* external and taken for what the code relies on: Load takes no lock;     *)
(* every other single-key operation holds the lock of the key's bucket,    *)
(* and the user's callback runs under that lock, guarded by runGuarded;    *)
(* Range goes from bucket to bucket, copies the entries of each under its  *)
(* lock and calls back outside it (so a callback may write to the map).    *)
(*                                                                         *)
(* `call` is the method the goroutine is in, `sub` the operation on        *)
(* MapOf it is going through: bulk methods are many of these.  As in       *)
(* CowList, goroutines p with Caller[p] # none make the calls of a         *)
(* callback; only those that run outside the bucket locks may.             *)
(***************************************************************************)
EXTENDS MapOps

CONSTANTS
    Procs,    \* the goroutines
    Caller,   \* Caller[p]: the goroutine whose callbacks p's calls are, or none
    Keys,     \* the keys
    Bucket,   \* Bucket[k]: the bucket of key k
    Values,   \* the values
    Zero,     \* Go's zero value, one of them
    Start,    \* the content NewConcurrentHashMapFrom was given
    Menus     \* bound: m[p], for an m \in Menus, are the calls p makes, in any order

Guarded == {"compute", "computeIfAbsent", "computeIfPresent", "merge", "removeIf", "replaceIf"}
Plain == {"get", "put", "putIfAbsent", "remove", "replace", "clear"}
Listed == {"putSeq", "removeAll", "replaceEntries"}
Ranging == {"scan", "containsValue", "removeFunc", "replaceAll"}
Kinds == Guarded \cup Plain \cup Listed \cup Ranging
Buckets == {Bucket[k] : k \in Keys}
Contents == [Keys -> Values \cup {none}]
Requests == [kind : Kinds, key : Keys, val : Values, old : Values,
             fn : [Values \cup {none} -> Values \cup {none}],
             keys : SUBSET Keys, puts : Seq(Keys \X Values)]

ASSUME KeyAssumption == Keys \subseteq Int /\ IsFiniteSet(Keys) /\ Bucket \in [Keys -> Int]
ASSUME ValueAssumption == none \notin Values /\ Zero \in Values
ASSUME ProcAssumption == none \notin Procs /\ Caller \in [Procs -> Procs \cup {none}]
ASSUME StartAssumption == Start \in Contents
ASSUME MenuAssumption == Menus \subseteq [Procs -> SUBSET Requests]

VARIABLES
    m, lock,              \* the entries, and who holds the lock of each bucket
    pc, call, sub, todo,  \* per goroutine: control, method, operation, calls left
    plan,                 \* operations of the method that are still to come
    left, batch, seen,    \* Range: buckets to come, entries copied, entries told of
    ret                   \* what the operation returned

local == <<plan, left, batch, seen>>
vars  == <<m, lock, pc, call, sub, todo, local, ret>>

Init ==
    /\ m = Start
    /\ lock = [b \in Buckets |-> none]
    /\ pc = [p \in Procs |-> "idle"]
    /\ call = [p \in Procs |-> none]
    /\ sub = [p \in Procs |-> none]
    /\ todo \in Menus
    /\ plan = [p \in Procs |-> <<>>]
    /\ left = [p \in Procs |-> {}]
    /\ batch = [p \in Procs |-> {}]
    /\ seen = [p \in Procs |-> {}]
    /\ ret = [p \in Procs |-> none]

Goto(p, l) == pc' = [pc EXCEPT ![p] = l]

\* p is not waiting for a call its callback made.
Runs(p) == \A c \in Procs : Caller[c] = p => pc[c] = "idle"

\* Where user code runs outside the locks: the callbacks of Range, and the
\* sequences PutSeq and RemoveSeq consume.
MayCall(p) ==
    Caller[p] # none =>
      \/ pc[Caller[p]] = "visit"
      \/ pc[Caller[p]] = "next" /\ call[Caller[p]].kind \in {"putSeq", "removeAll"}

\* The operations a bulk method makes one after the other, in any order.
Removes(q, K) ==
    {[i \in DOMAIN s |-> [q EXCEPT !.kind = "remove", !.key = s[i]]] : s \in Seqs!SetToSeqs(K)}
Puts(q) == [i \in DOMAIN q.puts |->
              [q EXCEPT !.kind = "put", !.key = q.puts[i][1], !.val = q.puts[i][2]]]

\* refill: Clear, then one Store per entry.
Plans(q) ==
    CASE q.kind = "putSeq" -> {Puts(q)}
      [] q.kind = "removeAll" -> Removes(q, q.keys)
      [] q.kind = "replaceEntries" -> {<<[q EXCEPT !.kind = "clear"]>> \o Puts(q)}
      [] OTHER -> {<<>>}

Call(p) ==
    /\ pc[p] = "idle" /\ MayCall(p)
    /\ \E q \in todo[p] :
         /\ todo' = [todo EXCEPT ![p] = @ \ {q}]
         /\ call' = [call EXCEPT ![p] = q]
         /\ sub' = [sub EXCEPT ![p] = q]
         /\ \E l \in Plans(q) : plan' = [plan EXCEPT ![p] = l]
         /\ left' = [left EXCEPT ![p] = Buckets]
         /\ Goto(p, CASE q.kind \in Listed -> "next" [] q.kind \in Ranging -> "range"
                      [] OTHER -> "act")
    /\ batch' = [batch EXCEPT ![p] = {}]
    /\ seen' = [seen EXCEPT ![p] = {}]
    /\ UNCHANGED <<m, lock, ret>>

-----------------------------------------------------------------------------
(* One operation of xsync.MapOf. *)

Home(p) == Bucket[sub[p].key]

\* Nobody holds a lock the operation needs: Load needs none, Clear all.
MayAct(p) ==
    CASE sub[p].kind = "get" -> TRUE
      [] sub[p].kind = "clear" -> \A b \in Buckets : lock[b] = none
      [] OTHER -> lock[Home(p)] = none

\* The operation reaches the user's callback.
Asks(q, s) ==
    CASE q.kind = "compute" -> TRUE
      [] q.kind = "computeIfAbsent" -> s[q.key] = none
      [] q.kind \in Guarded -> s[q.key] # none
      [] OTHER -> FALSE

\* Mutant of Act: a closure that finds no entry answers del = false, so the
\* zero value it was passed is inserted.
ActInserts(p) ==
    LET done == Outcome(sub[p], m)
    IN  /\ pc[p] = "act" /\ MayAct(p) /\ ~Asks(sub[p], m)
        /\ m' = IF sub[p].kind \in {"removeIf", "replaceIf", "computeIfPresent", "replace"}
                THEN [m EXCEPT ![sub[p].key] = Zero] ELSE done.s
        /\ ret' = [ret EXCEPT ![p] = done.ret]
        /\ Goto(p, "done")
        /\ UNCHANGED <<lock, call, sub, todo, local>>

\* An operation without user code, in one step.
Act(p) ==
    LET done == Outcome(sub[p], m)
    IN  /\ pc[p] = "act" /\ MayAct(p) /\ ~Asks(sub[p], m)
        /\ m' = done.s
        /\ ret' = [ret EXCEPT ![p] = done.ret]
        /\ Goto(p, "done")
        /\ UNCHANGED <<lock, call, sub, todo, local>>

\* The closure is called under the bucket lock, and calls the user back.
Ask(p) ==
    /\ pc[p] = "act" /\ MayAct(p) /\ Asks(sub[p], m)
    /\ lock' = [lock EXCEPT ![Home(p)] = p]
    /\ Goto(p, "callback")
    /\ UNCHANGED <<m, call, sub, todo, local, ret>>

Answer(p) ==
    LET done == Outcome(sub[p], m)
    IN  /\ pc[p] = "callback"
        /\ m' = done.s
        /\ ret' = [ret EXCEPT ![p] = done.ret]
        /\ lock' = [lock EXCEPT ![Home(p)] = none]
        /\ Goto(p, "done")
        /\ UNCHANGED <<call, sub, todo, local>>

\* Mutant of Panic: the panic unwinds through xsync, without runGuarded.
PanicUnwinds(p) ==
    /\ pc[p] = "callback"
    /\ ret' = [ret EXCEPT ![p] = <<none>>]
    /\ Goto(p, "done")
    /\ UNCHANGED <<m, lock, call, sub, todo, local>>

\* Mutant of Panic: the closure answers `prev, false` for an absent key too.
PanicInserts(p) ==
    /\ pc[p] = "callback"
    /\ m' = [m EXCEPT ![sub[p].key] = IF @ = none THEN Zero ELSE @]
    /\ ret' = [ret EXCEPT ![p] = <<none>>]
    /\ lock' = [lock EXCEPT ![Home(p)] = none]
    /\ Goto(p, "done")
    /\ UNCHANGED <<call, sub, todo, local>>

\* runGuarded captures the panic, the closure answers "leave it as it is",
\* the lock is released and the panic raised again.
Panic(p) ==
    /\ pc[p] = "callback"
    /\ ret' = [ret EXCEPT ![p] = <<none>>]
    /\ lock' = [lock EXCEPT ![Home(p)] = none]
    /\ Goto(p, "done")
    /\ UNCHANGED <<m, call, sub, todo, local>>

-----------------------------------------------------------------------------
(* Range. *)

\* The next bucket's entries are copied under its lock.
Copy(p) ==
    \E b \in left[p] :
      /\ pc[p] = "range" /\ lock[b] = none
      /\ \A c \in left[p] : b <= c
      /\ left' = [left EXCEPT ![p] = @ \ {b}]
      /\ batch' = [batch EXCEPT ![p] = {<<k, m[k]>> : k \in {j \in Stored(m) : Bucket[j] = b}}]
      /\ Goto(p, "visit")
      /\ UNCHANGED <<m, lock, call, sub, todo, plan, seen, ret>>

\* The callback stops the iteration: ContainsValue has found its value.
Stops(p) == call[p].kind = "containsValue" /\ \E e \in seen[p] : e[2] = call[p].old

\* Mutant of Visit: ReplaceAll stores the function of the value Range copied.
VisitStale(p) ==
    \E e \in batch[p] :
      /\ pc[p] = "visit" /\ Runs(p) /\ ~Stops(p)
      /\ \A f \in batch[p] : e[1] <= f[1]
      /\ batch' = [batch EXCEPT ![p] = @ \ {e}]
      /\ seen' = [seen EXCEPT ![p] = @ \cup {e}]
      /\ IF call[p].kind = "replaceAll"
         THEN /\ sub' = [sub EXCEPT ![p] = [call[p] EXCEPT !.kind = "put", !.key = e[1],
                                                           !.val = call[p].fn[e[2]]]]
              /\ Goto(p, "act")
         ELSE UNCHANGED <<sub, pc>>
      /\ UNCHANGED <<m, lock, call, todo, plan, left, ret>>

\* The callback is called outside the locks with one of the copies; that of
\* ReplaceAll recomputes the key under its lock.
Visit(p) ==
    \E e \in batch[p] :
      /\ pc[p] = "visit" /\ Runs(p) /\ ~Stops(p)
      /\ \A f \in batch[p] : e[1] <= f[1]
      /\ batch' = [batch EXCEPT ![p] = @ \ {e}]
      /\ seen' = [seen EXCEPT ![p] = @ \cup {e}]
      /\ IF call[p].kind = "replaceAll"
         THEN /\ sub' = [sub EXCEPT ![p] = [call[p] EXCEPT !.kind = "computeIfPresent",
                                                           !.key = e[1]]]
              /\ Goto(p, "act")
         ELSE UNCHANGED <<sub, pc>>
      /\ UNCHANGED <<m, lock, call, todo, plan, left, ret>>

\* Mutant of NextBucket: Range stops after the first bucket.
NextBucketStops(p) ==
    /\ pc[p] = "visit" /\ Runs(p) /\ batch[p] = {} /\ left[p] # {} /\ ~Stops(p)
    /\ left' = [left EXCEPT ![p] = {}]
    /\ UNCHANGED <<m, lock, pc, call, sub, todo, plan, batch, seen, ret>>

NextBucket(p) ==
    /\ pc[p] = "visit" /\ Runs(p) /\ batch[p] = {} /\ left[p] # {} /\ ~Stops(p)
    /\ Goto(p, "range")
    /\ UNCHANGED <<m, lock, call, sub, todo, local, ret>>

Swept(p) == /\ pc[p] = "visit" /\ Runs(p)
            /\ Stops(p) \/ (batch[p] = {} /\ left[p] = {})

\* The keys RemoveFunc's predicate accepted; q.old stands for their values.
Accepted(p) == {e[1] : e \in {f \in seen[p] : f[2] = call[p].old}}

\* RemoveFunc goes on to delete them, one by one.
Collected(p) ==
    /\ Swept(p) /\ call[p].kind = "removeFunc"
    /\ \E l \in Removes(call[p], Accepted(p)) : plan' = [plan EXCEPT ![p] = l]
    /\ Goto(p, "next")
    /\ UNCHANGED <<m, lock, call, sub, todo, left, batch, seen, ret>>

-----------------------------------------------------------------------------
\* A bulk method begins its next operation.
Proceed(p) ==
    /\ pc[p] = "next" /\ Runs(p) /\ plan[p] # <<>>
    /\ sub' = [sub EXCEPT ![p] = Head(plan[p])]
    /\ plan' = [plan EXCEPT ![p] = Tail(@)]
    /\ Goto(p, "act")
    /\ UNCHANGED <<m, lock, call, todo, left, batch, seen, ret>>

\* An operation of a bulk method is over.
Resume(p) ==
    /\ pc[p] = "done" /\ call[p].kind \in Listed \cup {"removeFunc", "replaceAll"}
    /\ ret[p] # <<none>>
    /\ Goto(p, IF call[p].kind = "replaceAll" THEN "visit" ELSE "next")
    /\ sub' = [sub EXCEPT ![p] = none]
    /\ ret' = [ret EXCEPT ![p] = none]
    /\ UNCHANGED <<m, lock, call, todo, local>>

\* The method returns: it was one operation, ReplaceAll's function panicked,
\* the iteration is over, or the last operation is.
Return(p) ==
    /\ \/ pc[p] = "done" /\ (call[p].kind \in Guarded \cup Plain \/ ret[p] = <<none>>)
       \/ Swept(p) /\ call[p].kind # "removeFunc"
       \/ pc[p] = "next" /\ Runs(p) /\ plan[p] = <<>>
    /\ Goto(p, "idle")
    /\ call' = [call EXCEPT ![p] = none]
    /\ sub' = [sub EXCEPT ![p] = none]
    /\ ret' = [ret EXCEPT ![p] = none]
    /\ UNCHANGED <<m, lock, todo, local>>

\* Every goroutine has made its calls (a callback's calls are optional).
Terminated ==
    /\ \A p \in Procs : pc[p] = "idle" /\ (Caller[p] = none => todo[p] = {})
    /\ UNCHANGED vars

Step(p) == \/ Act(p) \/ Ask(p) \/ Answer(p) \/ Copy(p) \/ Visit(p) \/ NextBucket(p)
           \/ Collected(p) \/ Proceed(p) \/ Resume(p) \/ Return(p)
Next == Terminated \/ \E p \in Procs : Call(p) \/ Step(p) \/ Panic(p)

Spec == Init /\ [][Next]_vars

\* The bucket locks are sync.Mutexes, which starve nobody; callbacks return.
Fairness == \A p \in Procs : SF_vars(Step(p))

-----------------------------------------------------------------------------
(* Type invariant; a bucket lock is held by the goroutine whose callback   *)
(* runs for a key of that bucket, and by nobody else, however it ended.    *)
TypeOK ==
    /\ m \in Contents
    /\ pc \in [Procs -> {"idle", "act", "callback", "done", "range", "visit", "next"}]
    /\ call \in [Procs -> Requests \cup {none}]
    /\ sub \in [Procs -> Requests \cup {none}]
    /\ todo \in [Procs -> SUBSET Requests]
    /\ plan \in [Procs -> Seq(Requests)]
    /\ left \in [Procs -> SUBSET Buckets]
    /\ batch \in [Procs -> SUBSET (Keys \X Values)]
    /\ seen \in [Procs -> SUBSET (Keys \X Values)]
    /\ lock \in [Buckets -> Procs \cup {none}]
    /\ \A b \in Buckets, p \in Procs :
         lock[b] = p <=> pc[p] = "callback" /\ Home(p) = b

(***************************************************************************)
(* "Single-key operations are atomic" (line 17): each takes effect in one  *)
(* instant, an absent key stays absent unless the call stores it, and a    *)
(* callback that panics leaves the map as it was ("A panic in eq is        *)
(* propagated after the lock is released and leaves the map unchanged").   *)
(* The operations of the bulk methods are such calls too.                  *)
(***************************************************************************)
EffectsOrPanic(q, s) ==
    {Outcome(q, s)} \cup (IF Asks(q, s) THEN {Does(s, <<none>>)} ELSE {})

Moment(p) == CASE pc[p] \in {"act", "callback"} -> "open" [] pc[p] = "done" -> "closed"
               [] OTHER -> "idle"

Atomic == INSTANCE AtomicObject WITH
    Effects <- EffectsOrPanic,
    content <- m,
    stage <- [p \in Procs |-> Moment(p)],
    request <- [p \in Procs |-> IF Moment(p) = "idle" THEN none ELSE sub[p]],
    result <- [p \in Procs |-> IF Moment(p) = "closed" THEN ret[p] ELSE none]

EveryCallIsAtomic == Atomic!Spec

(***************************************************************************)
(* No call hangs, whatever panics, although the callbacks of an iteration  *)
(* write to the map and those of Compute run under a lock.                 *)
(***************************************************************************)
EveryCallReturns == \A p \in Procs : pc[p] # "idle" ~> pc[p] = "idle"
=============================================================================
