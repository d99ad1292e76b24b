------------------------------- MODULE CowList -------------------------------
(***************************************************************************)
(* cowList (cowlist.go): `data` is an atomic pointer to a slice that is    *)
(* never written once it is published.  Readers load it once and take no   *)
(* lock; writers serialize on `mu`, copy, and store the copy.              *)
(*                                                                         *)
(* A slice is a member of `arrays`, `data` and `snap` are indices into it. *)
(* A callback (predicate, equality, comparator, action) may itself call    *)
(* the list: such calls are made by the goroutines p with Caller[p] # none *)
(* and the goroutine that runs the callback waits for them.                *)
(***************************************************************************)
EXTENDS ListOps

CONSTANTS
    Procs,    \* the goroutines
    Caller,   \* Caller[p]: the goroutine whose callbacks p's calls are, or none
    Values,   \* the elements (integers: Sort compares them)
    Start,    \* the elements given to NewCOWListFrom
    Menus,    \* bound: m[p], for an m \in Menus, are the calls p makes, in any order
    none

Kinds == {"clear", "set", "addAll", "insertAll", "removeAt", "remove", "removeLast",
          "removeFunc", "sort", "replace", "get", "last", "indexOf", "lastIndexOf",
          "subList", "toSlice"}
Readers == {"get", "last", "indexOf", "lastIndexOf", "subList", "toSlice"}
Visitors == {"remove", "removeFunc", "indexOf", "lastIndexOf", "toSlice"}
Requests == [kind : Kinds, idx : Int, to : Int, want : SUBSET Values, elems : Seq(Values)]

ASSUME ValueAssumption == Values \subseteq Int /\ none \notin Values
ASSUME StartAssumption == Start \in Seq(Values)
ASSUME ProcAssumption == none \notin Procs /\ Caller \in [Procs -> Procs \cup {none}]
ASSUME MenuAssumption == none \notin Requests /\ Menus \subseteq [Procs -> SUBSET Requests]

VARIABLES
    arrays, data, mu,       \* the slices, the current one, the holder of the mutex
    pc, req, todo,          \* per goroutine: control, current call, calls left
    snap, pos, acc, ret     \* its loaded slice, loop index, elements kept, result

shared == <<arrays, data, mu>>
local  == <<snap, pos, acc>>
vars   == <<shared, pc, req, todo, local, ret>>

\* Mutant of Init: the zero value of cowList, without a slice to load.
InitZero ==
    /\ arrays = <<>>
    /\ data = none
    /\ mu = none
    /\ pc = [p \in Procs |-> "idle"]
    /\ req = [p \in Procs |-> none]
    /\ todo \in Menus
    /\ snap = [p \in Procs |-> 1]
    /\ pos = [p \in Procs |-> 0]
    /\ acc = [p \in Procs |-> <<>>]
    /\ ret = [p \in Procs |-> none]

Init ==
    /\ arrays = <<Start>>
    /\ data = 1
    /\ mu = none
    /\ pc = [p \in Procs |-> "idle"]
    /\ req = [p \in Procs |-> none]
    /\ todo \in Menus
    /\ snap = [p \in Procs |-> 1]
    /\ pos = [p \in Procs |-> 0]
    /\ acc = [p \in Procs |-> <<>>]
    /\ ret = [p \in Procs |-> none]

Goto(p, l) == pc' = [pc EXCEPT ![p] = l]
Seen(p) == arrays[snap[p]]
Writes(p) == req[p] # none /\ req[p].kind \notin Readers

\* p is not waiting for a call its callback made.
Runs(p) == \A c \in Procs : Caller[c] = p => pc[c] = "idle"

\* A callback that runs under the mutex must not write to the list.
MayCall(p, q) ==
    Caller[p] # none => /\ pc[Caller[p]] = "loop"
                        /\ q.kind \notin Readers => mu # Caller[p]

\* AddAll and InsertAll of nothing return before they touch the lock.
Call(p) ==
    /\ pc[p] = "idle"
    /\ \E q \in todo[p] :
         /\ MayCall(p, q)
         /\ todo' = [todo EXCEPT ![p] = @ \ {q}]
         /\ req' = [req EXCEPT ![p] = q]
         /\ Goto(p, IF q.kind \in {"addAll", "insertAll"} /\ q.elems = <<>> THEN "skip"
                    ELSE IF q.kind \in Readers THEN "load" ELSE "lock")
    /\ UNCHANGED <<shared, local, ret>>

Skip(p) ==
    /\ pc[p] = "skip"
    /\ ret' = [ret EXCEPT ![p] = Outcome(req[p], <<>>).ret]
    /\ Goto(p, "return")
    /\ UNCHANGED <<shared, req, todo, local>>

\* Mutant of Lock: the writers do not exclude each other.
LockFree(p) ==
    /\ pc[p] = "lock"
    /\ mu' = p
    /\ Goto(p, "load")
    /\ UNCHANGED <<arrays, data, req, todo, local, ret>>

Lock(p) ==
    /\ pc[p] = "lock" /\ mu = none
    /\ mu' = p
    /\ Goto(p, "load")
    /\ UNCHANGED <<arrays, data, req, todo, local, ret>>

\* snapshot(): one atomic load.
Load(p) ==
    /\ pc[p] = "load"
    /\ snap' = [snap EXCEPT ![p] = data]
    /\ pos' = [pos EXCEPT ![p] = IF req[p].kind = "lastIndexOf"
                                 THEN Len(arrays[data]) - 1 ELSE 0]
    /\ acc' = [acc EXCEPT ![p] = <<>>]
    /\ Goto(p, IF req[p].kind \in Visitors THEN "loop"
               ELSE IF Writes(p) THEN "store" ELSE "answer")
    /\ UNCHANGED <<shared, req, todo, ret>>

\* A reader without callbacks works on the slice it loaded.
Answer(p) ==
    /\ pc[p] = "answer"
    /\ ret' = [ret EXCEPT ![p] = Outcome(req[p], Seen(p)).ret]
    /\ Goto(p, "return")
    /\ UNCHANGED <<shared, req, todo, local>>

Ends(p) == pos[p] \notin 0 .. Len(Seen(p)) - 1
Hit(p) == Seen(p)[pos[p] + 1] \in req[p].want

\* One element of a loop whose body calls back.
Pass(p) ==
    /\ pc[p] = "loop" /\ Runs(p) /\ ~Ends(p)
    /\ req[p].kind \in {"remove", "indexOf", "lastIndexOf"} => ~Hit(p)
    /\ pos' = [pos EXCEPT ![p] = IF req[p].kind = "lastIndexOf" THEN @ - 1 ELSE @ + 1]
    /\ acc' = [acc EXCEPT ![p] =
                 IF req[p].kind = "toSlice" \/ (req[p].kind = "removeFunc" /\ ~Hit(p))
                 THEN Append(@, Seen(p)[pos[p] + 1]) ELSE @]
    /\ UNCHANGED <<shared, pc, req, todo, snap, ret>>

\* The loop returns from its body: IndexOf and LastIndexOf, or Remove's copy.
Find(p) ==
    /\ pc[p] = "loop" /\ Runs(p) /\ ~Ends(p)
    /\ req[p].kind \in {"remove", "indexOf", "lastIndexOf"} /\ Hit(p)
    /\ IF req[p].kind = "remove"
       THEN /\ acc' = [acc EXCEPT ![p] = Splice(Seen(p), pos[p], pos[p] + 1, <<>>)]
            /\ ret' = [ret EXCEPT ![p] = <<1>>]
            /\ Goto(p, "store")
       ELSE /\ ret' = [ret EXCEPT ![p] = <<pos[p]>>]
            /\ Goto(p, "return")
            /\ UNCHANGED acc
    /\ UNCHANGED <<shared, req, todo, snap, pos>>

\* Mutant of Finish: a RemoveFunc that removes nothing forgets the mutex.
FinishKeepsLock(p) ==
    /\ pc[p] = "loop" /\ Runs(p) /\ Ends(p)
    /\ ret' = [ret EXCEPT ![p] = CASE req[p].kind = "toSlice" -> acc[p]
                                   [] req[p].kind = "removeFunc" -> <<Len(Seen(p)) - Len(acc[p])>>
                                   [] OTHER -> <<>>]
    /\ Goto(p, IF req[p].kind = "removeFunc" /\ Len(acc[p]) < Len(Seen(p))
               THEN "store" ELSE "return")
    /\ UNCHANGED <<shared, req, todo, local>>

\* The loop ends: RemoveFunc stores only if it dropped something.
Finish(p) ==
    /\ pc[p] = "loop" /\ Runs(p) /\ Ends(p)
    /\ ret' = [ret EXCEPT ![p] = CASE req[p].kind = "toSlice" -> acc[p]
                                   [] req[p].kind = "removeFunc" -> <<Len(Seen(p)) - Len(acc[p])>>
                                   [] OTHER -> <<>>]
    /\ Goto(p, IF ~Writes(p) THEN "return"
               ELSE IF req[p].kind = "removeFunc" /\ Len(acc[p]) < Len(Seen(p))
               THEN "store" ELSE "unlock")
    /\ UNCHANGED <<shared, req, todo, local>>

\* A writer's callback, or Sort's comparator, panics: the deferred Unlock
\* still runs.  (A reader that panics leaves nothing behind.)
Panic(p) ==
    /\ Writes(p)
    /\ \/ pc[p] = "loop" /\ Runs(p) /\ ~Ends(p)
       \/ pc[p] = "store" /\ req[p].kind = "sort" /\ Len(Seen(p)) > 1
    /\ ret' = [ret EXCEPT ![p] = <<none>>]
    /\ Goto(p, "unlock")
    /\ UNCHANGED <<shared, req, todo, local>>

\* The copy a writer has made, and what it will answer.
NewData(p) ==
    IF req[p].kind \in Visitors THEN {Does(acc[p], ret[p])} ELSE Outcomes(req[p], Seen(p))

\* A bad index, or RemoveLast of an empty slice.
Rejected(p) == /\ req[p].kind \in {"set", "insertAll", "removeAt", "removeLast"}
               /\ Outcome(req[p], Seen(p)).ret = <<>>

\* Mutant of Store: Sort sorts the published slice in place.
StoreInPlace(p) ==
    /\ pc[p] = "store"
    /\ \E done \in NewData(p) :
         /\ ret' = [ret EXCEPT ![p] = done.ret]
         /\ IF req[p].kind = "sort"
            THEN arrays' = [arrays EXCEPT ![data] = done.s] /\ UNCHANGED data
            ELSE arrays' = Append(arrays, done.s) /\ data' = Len(arrays')
    /\ Goto(p, "unlock")
    /\ UNCHANGED <<mu, req, todo, local>>

\* The copy is finished and published; a rejected call leaves without a Store.
Store(p) ==
    /\ pc[p] = "store"
    /\ \E done \in NewData(p) :
         /\ ret' = [ret EXCEPT ![p] = done.ret]
         /\ IF Rejected(p)
            THEN UNCHANGED <<arrays, data>>
            ELSE arrays' = Append(arrays, done.s) /\ data' = Len(arrays')
    /\ Goto(p, "unlock")
    /\ UNCHANGED <<mu, req, todo, local>>

Unlock(p) ==
    /\ pc[p] = "unlock"
    /\ mu' = none
    /\ Goto(p, "return")
    /\ UNCHANGED <<arrays, data, req, todo, local, ret>>

Return(p) ==
    /\ pc[p] = "return"
    /\ Goto(p, "idle")
    /\ req' = [req EXCEPT ![p] = none]
    /\ ret' = [ret EXCEPT ![p] = none]
    /\ UNCHANGED <<shared, todo, local>>

\* Every goroutine has made its calls (a callback's calls are optional).
Terminated ==
    /\ \A p \in Procs : pc[p] = "idle" /\ (Caller[p] = none => todo[p] = {})
    /\ UNCHANGED vars

Step(p) == \/ Skip(p) \/ Lock(p) \/ Load(p) \/ Answer(p) \/ Pass(p) \/ Find(p) \/ Finish(p)
           \/ Store(p) \/ Unlock(p) \/ Return(p)
Next == Terminated \/ \E p \in Procs : Call(p) \/ Step(p) \/ Panic(p)

Spec == Init /\ [][Next]_vars

\* Calls that began go on, callbacks return, and sync.Mutex starves nobody:
\* who waits for it gets it, though it is taken again and again.
Fairness == \A p \in Procs : SF_vars(Step(p))
FairSpec == Spec /\ Fairness

-----------------------------------------------------------------------------
(* Type invariant. *)
TypeOK ==
    /\ arrays \in Seq(Seq(Values)) /\ data \in DOMAIN arrays
    /\ mu \in Procs \cup {none}
    /\ pc \in [Procs -> {"idle", "skip", "lock", "load", "answer", "loop", "store",
                         "unlock", "return"}]
    /\ req \in [Procs -> Requests \cup {none}]
    /\ todo \in [Procs -> SUBSET Requests]
    /\ snap \in [Procs -> DOMAIN arrays]
    /\ pos \in [Procs -> Int]
    /\ acc \in [Procs -> Seq(Values)]

(***************************************************************************)
(* A writer between its Load and its Store works on the current slice: the *)
(* comment on `replace` ("a bare Store could race a concurrent             *)
(* copy-on-write mutation and silently drop one side's update").           *)
(***************************************************************************)
NoUpdateDropped ==
    \A p \in Procs : pc[p] \in {"loop", "store"} /\ Writes(p) => mu = p /\ snap[p] = data

(***************************************************************************)
(* Linearizability: every call takes effect in one instant, writers at     *)
(* their Store and readers at their Load; a call whose callback panics has *)
(* no effect.  A reader's result, gathered element by element while the    *)
(* list is being changed, is that of the slice at its Load.                *)
(***************************************************************************)
EffectsOrPanic(q, s) ==
    Outcomes(q, s) \cup (IF q.kind \in {"remove", "removeFunc", "sort"}
                         THEN {Does(s, <<none>>)} ELSE {})

Loaded(p) == pc[p] \in {"answer", "loop"} /\ ~Writes(p)

Moment(p) ==
    IF pc[p] = "idle" THEN "idle"
    ELSE IF pc[p] \in {"unlock", "return"} \/ Loaded(p) THEN "closed" ELSE "open"

Atomic == INSTANCE AtomicObject WITH
    Effects <- EffectsOrPanic,
    content <- arrays[data],
    stage <- [p \in Procs |-> Moment(p)],
    request <- req,
    result <- [p \in Procs |-> IF Loaded(p) THEN Outcome(req[p], Seen(p)).ret
                               ELSE IF Moment(p) = "closed" THEN ret[p] ELSE none]

EveryCallIsAtomic == Atomic!Spec

(***************************************************************************)
(* No call hangs, whatever the others do and although callbacks call the   *)
(* list again, as long as those that run under the mutex do not write.     *)
(***************************************************************************)
EveryCallReturns == \A p \in Procs : pc[p] # "idle" ~> pc[p] = "idle"
=============================================================================
