------------------------- MODULE ConcurrentTreeMap -------------------------
(***************************************************************************)
(* concurrentTreeMap (concurrent_treemap.go): a treeMap behind one         *)
(* sync.RWMutex.  Most methods are one critical section.  The compute      *)
(* family, RemoveIf, ReplaceIf and ReplaceAll call back inside it.         *)
(* RemoveFunc and PutAll are two: a snapshot taken under the read lock,    *)
(* user code outside, then a batch under the write lock.                   *)
(*                                                                         *)
(* `call` is the method the goroutine is in, `sub` the critical section it *)
(* is going through.  As in CowList, the calls a callback makes are made   *)
(* by goroutines p with Caller[p] # none.                                  *)
(***************************************************************************)
EXTENDS MapOps

CONSTANTS
    Procs,    \* the goroutines
    Caller,   \* Caller[p]: the goroutine whose callbacks p's calls are, or none
    Keys,     \* the keys (integers: the comparator orders them)
    Values,   \* the values
    Start,    \* the content NewConcurrentTreeMapFrom was given
    Menus     \* bound: m[p], for an m \in Menus, are the calls p makes, in any order

INSTANCE RWMutex

Readers == {"get", "first", "last", "floor", "ceiling", "lower", "higher", "rank", "scan"}
Guarded == {"compute", "computeIfAbsent", "computeIfPresent", "merge", "removeIf",
            "replaceIf", "replaceAll"}
Plain == {"put", "putIfAbsent", "putSeq", "replaceEntries", "remove", "removeAll",
          "replace", "clear", "popFirst", "popLast"}
Composite == {"removeFunc", "putAll"}
Kinds == Readers \cup Guarded \cup Plain \cup Composite
Contents == [Keys -> Values \cup {none}]
Requests == [kind : Kinds, key : Keys, val : Values, old : Values,
             fn : [Values \cup {none} -> Values \cup {none}],
             keys : SUBSET Keys, puts : Seq(Keys \X Values)]

ASSUME KeyAssumption == Keys \subseteq Int /\ IsFiniteSet(Keys) /\ none \notin Values
ASSUME ProcAssumption == none \notin Procs /\ Caller \in [Procs -> Procs \cup {none}]
ASSUME StartAssumption == Start \in Contents
ASSUME MenuAssumption == Menus \subseteq [Procs -> SUBSET Requests]

VARIABLES
    tm, mu,              \* the tree's content and the lock
    pc, call, sub, todo, \* per goroutine: control, method, critical section, calls left
    heard,               \* the content its callback is told of, or its snapshot
    ret                  \* what the critical section returned

shared == <<tm, mu>>
vars   == <<shared, pc, call, sub, todo, heard, ret>>

Init ==
    /\ tm = Start
    /\ mu = Unlocked
    /\ pc = [p \in Procs |-> "idle"]
    /\ call = [p \in Procs |-> none]
    /\ sub = [p \in Procs |-> none]
    /\ todo \in Menus
    /\ heard = [p \in Procs |-> Start]
    /\ ret = [p \in Procs |-> none]

Goto(p, l) == pc' = [pc EXCEPT ![p] = l]

\* p is not waiting for a call its callback made.
Runs(p) == \A c \in Procs : Caller[c] = p => pc[c] = "idle"

\* Begin a critical section.
Begin(p, q) ==
    /\ sub' = [sub EXCEPT ![p] = q]
    /\ Goto(p, IF q.kind \in Readers THEN "rlock" ELSE "lock")

\* RemoveFunc begins with Entries(), PutAll with other.Seq(), here of the
\* map itself.  User code runs outside the lock in "between".
Call(p) ==
    /\ pc[p] = "idle"
    /\ Caller[p] # none => pc[Caller[p]] = "between"
    /\ \E q \in todo[p] :
         /\ todo' = [todo EXCEPT ![p] = @ \ {q}]
         /\ call' = [call EXCEPT ![p] = q]
         /\ Begin(p, IF q.kind \in Composite THEN [q EXCEPT !.kind = "scan"] ELSE q)
    /\ UNCHANGED <<shared, heard, ret>>

RLock(p) ==
    /\ pc[p] = "rlock" /\ MayRLock(mu)
    /\ mu' = RLocked(mu, p)
    /\ Goto(p, "body")
    /\ UNCHANGED <<tm, call, sub, todo, heard, ret>>

Lock(p) ==
    /\ pc[p] = "lock" /\ MayAnnounce(mu)
    /\ mu' = Announced(mu, p)
    /\ Goto(p, "drain")
    /\ UNCHANGED <<tm, call, sub, todo, heard, ret>>

\* Mutant of Drain: the writer does not wait for the readers inside.
DrainNobody(p) ==
    /\ pc[p] = "drain"
    /\ Goto(p, "body")
    /\ UNCHANGED <<shared, call, sub, todo, heard, ret>>

Drain(p) ==
    /\ pc[p] = "drain" /\ Granted(mu, p)
    /\ Goto(p, "body")
    /\ UNCHANGED <<shared, call, sub, todo, heard, ret>>

-----------------------------------------------------------------------------
(* The critical sections. *)

\* The method reaches its callback: the key is there, or absent, as it needs.
Asks(q, s) ==
    CASE q.kind = "compute" -> TRUE
      [] q.kind = "replaceAll" -> Stored(s) # {}
      [] q.kind = "computeIfAbsent" -> s[q.key] = none
      [] q.kind \in Guarded -> s[q.key] # none
      [] OTHER -> FALSE

Body(p) ==
    /\ pc[p] = "body" /\ ~Asks(sub[p], tm)
    /\ tm' = Outcome(sub[p], tm).s
    /\ ret' = [ret EXCEPT ![p] = Outcome(sub[p], tm).ret]
    /\ heard' = [heard EXCEPT ![p] = tm]
    /\ Goto(p, "unlock")
    /\ UNCHANGED <<mu, call, sub, todo>>

\* Mutant of Ask: the lock is given up while the callback runs.
AskUnlocked(p) ==
    /\ pc[p] = "body" /\ Asks(sub[p], tm)
    /\ mu' = Released(mu)
    /\ heard' = [heard EXCEPT ![p] = tm]
    /\ Goto(p, "callback")
    /\ UNCHANGED <<tm, call, sub, todo, ret>>

\* The entries are read, the callback is called with them.
Ask(p) ==
    /\ pc[p] = "body" /\ Asks(sub[p], tm)
    /\ heard' = [heard EXCEPT ![p] = tm]
    /\ Goto(p, "callback")
    /\ UNCHANGED <<shared, call, sub, todo, ret>>

\* The keys of the entries the callback was called with.
Told(p) == IF sub[p].kind = "replaceAll" THEN Stored(heard[p]) ELSE {sub[p].key}

\* The callback has answered: set or delete the entries it was asked about.
Answer(p) ==
    LET done == Outcome(sub[p], heard[p])
    IN  /\ pc[p] = "callback"
        /\ tm' = [k \in Keys |-> IF k \in Told(p) THEN done.s[k] ELSE tm[k]]
        /\ ret' = [ret EXCEPT ![p] = done.ret]
        /\ Goto(p, "unlock")
        /\ UNCHANGED <<mu, call, sub, todo, heard>>

\* The callback panics; nothing is written and the deferred Unlock runs.
Panic(p) ==
    /\ pc[p] = "callback"
    /\ ret' = [ret EXCEPT ![p] = <<none>>]
    /\ Goto(p, "unlock")
    /\ UNCHANGED <<shared, call, sub, todo, heard>>

\* Mutant of Unlock: Entries forgets its RUnlock, which is not deferred.
UnlockForgets(p) ==
    /\ pc[p] = "unlock"
    /\ mu' = IF sub[p].kind = "scan" THEN mu
             ELSE IF sub[p].kind \in Readers THEN RUnlocked(mu, p) ELSE Released(mu)
    /\ Goto(p, IF sub[p].kind = "scan" THEN "between" ELSE "return")
    /\ UNCHANGED <<tm, call, sub, todo, heard, ret>>

Unlock(p) ==
    /\ pc[p] = "unlock"
    /\ mu' = IF sub[p].kind \in Readers THEN RUnlocked(mu, p) ELSE Released(mu)
    /\ Goto(p, IF sub[p].kind = "scan" THEN "between" ELSE "return")
    /\ UNCHANGED <<tm, call, sub, todo, heard, ret>>

-----------------------------------------------------------------------------
(* Outside the lock. *)

\* The predicates of RemoveFunc are asked about the snapshot; q.old stands
\* for the values they accept.
Accepted(p) == {k \in Keys : heard[p][k] # none /\ heard[p][k] = call[p].old}

\* The callbacks of an iteration are over.
Leave(p) ==
    /\ pc[p] = "between" /\ Runs(p) /\ call[p].kind \notin Composite
    /\ Goto(p, "return")
    /\ UNCHANGED <<shared, call, sub, todo, heard, ret>>

\* Mutant of Apply: the batch is applied without the write lock.
ApplyUnlocked(p) ==
    /\ pc[p] = "between" /\ Runs(p) /\ call[p].kind \in Composite
    /\ call[p].kind = "removeFunc" => Stored(heard[p]) # {}
    /\ tm' = [k \in Keys |-> IF call[p].kind = "removeFunc"
                              THEN IF k \in Accepted(p) THEN none ELSE tm[k]
                              ELSE IF heard[p][k] = none THEN tm[k] ELSE heard[p][k]]
    /\ ret' = [ret EXCEPT ![p] = <<Cardinality(Accepted(p))>>]
    /\ Goto(p, "return")
    /\ UNCHANGED <<mu, call, sub, todo, heard>>

\* RemoveFunc and PutAll go on to their second critical section.
Apply(p) ==
    /\ pc[p] = "between" /\ Runs(p) /\ call[p].kind \in Composite
    /\ call[p].kind = "removeFunc" => Stored(heard[p]) # {}
    /\ Begin(p, IF call[p].kind = "removeFunc"
                THEN [call[p] EXCEPT !.kind = "removeAll", !.keys = Accepted(p)]
                ELSE [call[p] EXCEPT !.kind = "putSeq", !.puts = Entries(heard[p])])
    /\ ret' = [ret EXCEPT ![p] = none]
    /\ UNCHANGED <<shared, call, todo, heard>>

Done(p) ==
    /\ Goto(p, "idle")
    /\ call' = [call EXCEPT ![p] = none]
    /\ sub' = [sub EXCEPT ![p] = none]
    /\ ret' = [ret EXCEPT ![p] = none]
    /\ UNCHANGED <<shared, todo, heard>>

\* RemoveFunc of an empty snapshot returns at once.
NothingToRemove(p) ==
    /\ pc[p] = "between" /\ Runs(p)
    /\ call[p].kind = "removeFunc" /\ Stored(heard[p]) = {}
    /\ Done(p)

Return(p) == pc[p] = "return" /\ Done(p)

\* Every goroutine has made its calls (a callback's calls are optional).
Terminated ==
    /\ \A p \in Procs : pc[p] = "idle" /\ (Caller[p] = none => todo[p] = {})
    /\ UNCHANGED vars

Step(p) == \/ RLock(p) \/ Lock(p) \/ Drain(p) \/ Body(p) \/ Ask(p) \/ Answer(p)
           \/ Unlock(p) \/ Leave(p) \/ Apply(p) \/ NothingToRemove(p) \/ Return(p)
Next == Terminated \/ \E p \in Procs : Call(p) \/ Step(p) \/ Panic(p)

Spec == Init /\ [][Next]_vars

\* As for SyncList: sync.RWMutex starves nobody, callbacks return.
Fairness == \A p \in Procs : SF_vars(Step(p))
FairSpec == Spec /\ Fairness

-----------------------------------------------------------------------------
Inside(p) == pc[p] \in {"body", "callback", "unlock"}
Writing(p) == Inside(p) /\ sub[p].kind \notin Readers

(* Type invariant; the lock is held by those inside and by nobody else.    *)
TypeOK ==
    /\ tm \in Contents
    /\ mu \in Locks(Procs)
    /\ pc \in [Procs -> {"idle", "rlock", "lock", "drain", "body", "callback", "unlock",
                         "between", "return"}]
    /\ call \in [Procs -> Requests \cup {none}]
    /\ sub \in [Procs -> Requests \cup {none}]
    /\ todo \in [Procs -> SUBSET Requests]
    /\ heard \in [Procs -> Contents]
    /\ mu.readers = {p \in Procs : Inside(p) /\ ~Writing(p)}
    /\ \A p \in Procs : mu.writer = p <=> (Writing(p) \/ pc[p] = "drain")

(***************************************************************************)
(* treeMap is "Not concurrent-safe" (treemap.go:24): nobody is inside it   *)
(* with a writer.                                                          *)
(***************************************************************************)
WriterIsAlone == \A p, q \in Procs : Writing(p) /\ Inside(q) => p = q

(***************************************************************************)
(* A callback that runs under the lock is told of the entries as they are  *)
(* when it answers (concurrent_treemap.go:18).                             *)
(***************************************************************************)
CallbackIsUpToDate ==
    \A p \in Procs : pc[p] = "callback" => heard[p] = tm /\ mu.writer = p /\ mu.readers = {}

(***************************************************************************)
(* RankOfKey (treemap.go:659) finds every stored key, and its rank is the  *)
(* number of smaller ones; it finds no other key.                          *)
(***************************************************************************)
RankIsPosition ==
    \A k \in Keys : Search(KeySeq(tm), k) =
        IF k \in Stored(tm) THEN <<Cardinality({j \in Stored(tm) : j < k})>> ELSE <<>>

(***************************************************************************)
(* Every method that is one critical section, and each of the two critical *)
(* sections of RemoveFunc and PutAll, takes effect in one instant: in its  *)
(* body.  A callback that panics leaves the map as it was.                 *)
(***************************************************************************)
EffectsOrPanic(q, s) ==
    {Outcome(q, s)} \cup (IF Asks(q, s) THEN {Does(s, <<none>>)} ELSE {})

Moment(p) ==
    CASE pc[p] = "between" -> IF call[p].kind \in Composite THEN "idle" ELSE "closed"
      [] pc[p] \in {"unlock", "return"} -> "closed"
      [] pc[p] = "idle" -> "idle"
      [] OTHER -> "open"

Atomic == INSTANCE AtomicObject WITH
    Effects <- EffectsOrPanic,
    content <- tm,
    stage <- [p \in Procs |-> Moment(p)],
    request <- [p \in Procs |-> IF Moment(p) = "idle" THEN none ELSE sub[p]],
    result <- [p \in Procs |-> IF Moment(p) = "closed" THEN ret[p] ELSE none]

EveryCallIsAtomic == Atomic!Spec

(***************************************************************************)
(* No call hangs although the callbacks of an iteration and the predicates *)
(* of RemoveFunc call the map again.                                       *)
(***************************************************************************)
EveryCallReturns == \A p \in Procs : pc[p] # "idle" ~> pc[p] = "idle"
=============================================================================
