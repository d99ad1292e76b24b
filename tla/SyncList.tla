------------------------------ MODULE SyncList ------------------------------
(***************************************************************************)
(* syncList (synclist.go): one slice behind one sync.RWMutex.  Every       *)
(* method is one critical section; the iterations copy the slice inside it *)
(* and run their callbacks on the copy, outside; all other callbacks run   *)
(* inside, while the slice may be half edited.                             *)
(*                                                                         *)
(* As in CowList, the calls a callback makes are made by goroutines p with *)
(* Caller[p] # none; the documented contract lets only the callbacks of    *)
(* an iteration make them.                                                 *)
(***************************************************************************)
EXTENDS ListOps

CONSTANTS
    Procs,      \* the goroutines
    Caller,     \* Caller[p]: the goroutine whose callbacks p's calls are, or none
    Values,     \* the elements (integers: Sort compares them)
    Start,      \* the elements given to NewSyncListFrom
    Menus,      \* bound: m[p], for an m \in Menus, are the calls p makes, in any order
    Panicking,  \* bound: the methods whose callback may panic
    none

INSTANCE RWMutex

Readers == {"get", "last", "indexOf", "lastIndexOf", "subList", "toSlice"}
Visitors == {"remove", "removeFunc", "indexOf", "lastIndexOf"}
Kinds == Readers \cup Visitors \cup
         {"clear", "set", "addAll", "insertAll", "removeAt", "removeLast", "sort", "replace"}
Requests == [kind : Kinds, idx : Int, to : Int, want : SUBSET Values, elems : Seq(Values)]

ASSUME ValueAssumption == Values \subseteq Int /\ none \notin Values
ASSUME StartAssumption == Start \in Seq(Values)
ASSUME ProcAssumption == none \notin Procs /\ Caller \in [Procs -> Procs \cup {none}]
ASSUME MenuAssumption == /\ none \notin Requests /\ Menus \subseteq [Procs -> SUBSET Requests]
                         /\ Panicking \subseteq Kinds

VARIABLES
    data, mu,            \* the slice and its lock
    pc, req, todo,       \* per goroutine: control, current call, calls left
    snap, pos, n, acc,   \* its copy, loop index, RemoveFunc's n, elements replayed
    ret,                 \* its result
    before               \* history: the slice when the writer inside got the lock

shared == <<data, mu>>
local  == <<snap, pos, n, acc>>
vars   == <<shared, pc, req, todo, local, ret, before>>

Init ==
    /\ data = Start
    /\ mu = Unlocked
    /\ pc = [p \in Procs |-> "idle"]
    /\ req = [p \in Procs |-> none]
    /\ todo \in Menus
    /\ snap = [p \in Procs |-> <<>>]
    /\ pos = [p \in Procs |-> 0]
    /\ n = [p \in Procs |-> 0]
    /\ acc = [p \in Procs |-> <<>>]
    /\ ret = [p \in Procs |-> none]
    /\ before = Start

Goto(p, l) == pc' = [pc EXCEPT ![p] = l]

\* p is not waiting for a call its callback made.
Runs(p) == \A c \in Procs : Caller[c] = p => pc[c] = "idle"

Call(p) ==
    /\ pc[p] = "idle"
    /\ Caller[p] # none => pc[Caller[p]] = "replay"
    /\ \E q \in todo[p] :
         /\ todo' = [todo EXCEPT ![p] = @ \ {q}]
         /\ req' = [req EXCEPT ![p] = q]
         /\ Goto(p, IF q.kind \in {"addAll", "insertAll"} /\ q.elems = <<>> THEN "skip"
                    ELSE IF q.kind \in Readers THEN "rlock" ELSE "lock")
    /\ UNCHANGED <<shared, local, ret, before>>

\* AddAll and InsertAll of nothing return before they touch the lock.
Skip(p) ==
    /\ pc[p] = "skip"
    /\ ret' = [ret EXCEPT ![p] = Outcome(req[p], <<>>).ret]
    /\ Goto(p, "return")
    /\ UNCHANGED <<shared, req, todo, local, before>>

RLock(p) ==
    /\ pc[p] = "rlock" /\ MayRLock(mu)
    /\ mu' = RLocked(mu, p)
    /\ Goto(p, "body")
    /\ UNCHANGED <<data, req, todo, local, ret, before>>

Lock(p) ==
    /\ pc[p] = "lock" /\ MayAnnounce(mu)
    /\ mu' = Announced(mu, p)
    /\ Goto(p, "drain")
    /\ UNCHANGED <<data, req, todo, local, ret, before>>

\* Mutant of Drain: the writer does not wait for the readers inside.
DrainNobody(p) ==
    /\ pc[p] = "drain"
    /\ before' = data
    /\ Goto(p, "body")
    /\ UNCHANGED <<shared, req, todo, local, ret>>

\* The readers inside have left; the writer goes in.
Drain(p) ==
    /\ pc[p] = "drain" /\ Granted(mu, p)
    /\ before' = data
    /\ Goto(p, "body")
    /\ UNCHANGED <<shared, req, todo, local, ret>>

-----------------------------------------------------------------------------
(* The critical sections. *)

\* A body without callbacks, in one step: nobody looks inside it.
Body(p) ==
    /\ pc[p] = "body" /\ req[p].kind \notin Visitors
    /\ \E done \in Outcomes(req[p], data) :
         /\ data' = done.s
         /\ snap' = [snap EXCEPT ![p] = IF req[p].kind = "toSlice" THEN data ELSE <<>>]
         /\ ret' = [ret EXCEPT ![p] = done.ret]
    /\ Goto(p, "unlock")
    /\ UNCHANGED <<mu, req, todo, pos, n, acc, before>>

\* slices.SortFunc was interrupted by a panic of the comparator.
SortPanics(p) ==
    /\ pc[p] = "body" /\ req[p].kind = "sort" /\ "sort" \in Panicking
    /\ data' \in Reorderings(data)
    /\ ret' = [ret EXCEPT ![p] = <<none>>]
    /\ Goto(p, "unlock")
    /\ UNCHANGED <<mu, req, todo, local, before>>

\* Mutant of Enter: RemoveFunc starts from the n of the call before.
EnterKeepsN(p) ==
    /\ pc[p] = "body" /\ req[p].kind \in Visitors
    /\ pos' = [pos EXCEPT ![p] = IF req[p].kind = "lastIndexOf" THEN Len(data) - 1 ELSE 0]
    /\ Goto(p, "loop")
    /\ UNCHANGED <<shared, req, todo, snap, n, acc, ret, before>>

Enter(p) ==
    /\ pc[p] = "body" /\ req[p].kind \in Visitors
    /\ pos' = [pos EXCEPT ![p] = IF req[p].kind = "lastIndexOf" THEN Len(data) - 1 ELSE 0]
    /\ n' = [n EXCEPT ![p] = 0]
    /\ Goto(p, "loop")
    /\ UNCHANGED <<shared, req, todo, snap, acc, ret, before>>

InRange(p) == pos[p] \in 0 .. Len(data) - 1
Hit(p) == data[pos[p] + 1] \in req[p].want

\* One element the callback was asked about; RemoveFunc keeps it in place.
Pass(p) ==
    /\ pc[p] = "loop" /\ InRange(p)
    /\ req[p].kind # "removeFunc" => ~Hit(p)
    /\ pos' = [pos EXCEPT ![p] = IF req[p].kind = "lastIndexOf" THEN @ - 1 ELSE @ + 1]
    /\ IF req[p].kind = "removeFunc" /\ ~Hit(p)
       THEN /\ data' = [data EXCEPT ![n[p] + 1] = data[pos[p] + 1]]
            /\ n' = [n EXCEPT ![p] = @ + 1]
       ELSE UNCHANGED <<data, n>>
    /\ UNCHANGED <<mu, pc, req, todo, snap, acc, ret, before>>

\* IndexOf and LastIndexOf return from the loop, Remove deletes and returns.
Find(p) ==
    /\ pc[p] = "loop" /\ InRange(p) /\ req[p].kind # "removeFunc" /\ Hit(p)
    /\ IF req[p].kind = "remove"
       THEN /\ data' = Splice(data, pos[p], pos[p] + 1, <<>>)
            /\ ret' = [ret EXCEPT ![p] = <<1>>]
       ELSE /\ ret' = [ret EXCEPT ![p] = <<pos[p]>>]
            /\ UNCHANGED data
    /\ Goto(p, "unlock")
    /\ UNCHANGED <<mu, req, todo, local, before>>

\* The loop ends; RemoveFunc cuts the slice to what it kept.
Finish(p) ==
    /\ pc[p] = "loop" /\ ~InRange(p)
    /\ IF req[p].kind = "removeFunc"
       THEN /\ data' = SubSeq(data, 1, n[p])
            /\ ret' = [ret EXCEPT ![p] = <<Len(data) - n[p]>>]
       ELSE /\ ret' = [ret EXCEPT ![p] = <<>>]
            /\ UNCHANGED data
    /\ Goto(p, "unlock")
    /\ UNCHANGED <<mu, req, todo, local, before>>

\* The callback panics; the deferred unlock still runs.
Panic(p) ==
    /\ pc[p] = "loop" /\ InRange(p) /\ req[p].kind \in Panicking
    /\ ret' = [ret EXCEPT ![p] = <<none>>]
    /\ Goto(p, "unlock")
    /\ UNCHANGED <<shared, req, todo, local, before>>

\* Mutant of Unlock: the iteration keeps the read lock while it calls back.
UnlockLate(p) ==
    /\ pc[p] = "unlock"
    /\ mu' = IF req[p].kind = "toSlice" THEN mu
             ELSE IF req[p].kind \in Readers THEN RUnlocked(mu, p) ELSE Released(mu)
    /\ pos' = [pos EXCEPT ![p] = 0]
    /\ acc' = [acc EXCEPT ![p] = <<>>]
    /\ Goto(p, IF req[p].kind = "toSlice" THEN "replay" ELSE "return")
    /\ UNCHANGED <<data, req, todo, snap, n, ret, before>>

Unlock(p) ==
    /\ pc[p] = "unlock"
    /\ mu' = IF req[p].kind \in Readers THEN RUnlocked(mu, p) ELSE Released(mu)
    /\ pos' = [pos EXCEPT ![p] = 0]
    /\ acc' = [acc EXCEPT ![p] = <<>>]
    /\ Goto(p, IF req[p].kind = "toSlice" THEN "replay" ELSE "return")
    /\ UNCHANGED <<data, req, todo, snap, n, ret, before>>

-----------------------------------------------------------------------------
\* Mutant of Replay: the iteration walks the list itself, not a copy.
ReplayLive(p) ==
    /\ pc[p] = "replay" /\ Runs(p)
    /\ IF pos[p] < Len(data)
       THEN /\ acc' = [acc EXCEPT ![p] = Append(@, data[pos[p] + 1])]
            /\ pos' = [pos EXCEPT ![p] = @ + 1]
            /\ UNCHANGED <<pc, ret>>
       ELSE /\ ret' = [ret EXCEPT ![p] = acc[p]]
            /\ Goto(p, "return")
            /\ UNCHANGED <<acc, pos>>
    /\ UNCHANGED <<shared, req, todo, snap, n, before>>

\* Outside the lock: the action of ForEach, the body of `range Seq()`.
Replay(p) ==
    /\ pc[p] = "replay" /\ Runs(p)
    /\ IF pos[p] < Len(snap[p])
       THEN /\ acc' = [acc EXCEPT ![p] = Append(@, snap[p][pos[p] + 1])]
            /\ pos' = [pos EXCEPT ![p] = @ + 1]
            /\ UNCHANGED <<pc, ret>>
       ELSE /\ ret' = [ret EXCEPT ![p] = acc[p]]
            /\ Goto(p, "return")
            /\ UNCHANGED <<acc, pos>>
    /\ UNCHANGED <<shared, req, todo, snap, n, before>>

Return(p) ==
    /\ pc[p] = "return"
    /\ Goto(p, "idle")
    /\ req' = [req EXCEPT ![p] = none]
    /\ ret' = [ret EXCEPT ![p] = none]
    /\ UNCHANGED <<shared, todo, local, before>>

\* Every goroutine has made its calls (a callback's calls are optional).
Terminated ==
    /\ \A p \in Procs : pc[p] = "idle" /\ (Caller[p] = none => todo[p] = {})
    /\ UNCHANGED vars

Step(p) == \/ Skip(p) \/ RLock(p) \/ Lock(p) \/ Drain(p)
           \/ Body(p) \/ Enter(p) \/ Pass(p) \/ Find(p) \/ Finish(p)
           \/ Unlock(p) \/ Replay(p) \/ Return(p)
Next == Terminated \/ \E p \in Procs : Call(p) \/ Step(p) \/ Panic(p) \/ SortPanics(p)

Spec == Init /\ [][Next]_vars

\* sync.RWMutex lets in the readers that waited when a writer leaves and is
\* starvation free between writers; callbacks return, calls that began go on.
Fairness == \A p \in Procs : SF_vars(Step(p))
FairSpec == Spec /\ Fairness

-----------------------------------------------------------------------------
(* Type invariant; the loops under the lock stay inside the slice, and     *)
(* RemoveFunc writes only where it has read.                               *)
TypeOK ==
    /\ data \in Seq(Values) /\ before \in Seq(Values)
    /\ mu \in Locks(Procs)
    /\ pc \in [Procs -> {"idle", "skip", "rlock", "lock", "drain", "body", "loop",
                         "unlock", "replay", "return"}]
    /\ req \in [Procs -> Requests \cup {none}]
    /\ todo \in [Procs -> SUBSET Requests]
    /\ snap \in [Procs -> Seq(Values)] /\ acc \in [Procs -> Seq(Values)]
    /\ pos \in [Procs -> Int] /\ n \in [Procs -> Nat]
    /\ \A p \in Procs : pc[p] = "loop" =>
         pos[p] \in -1 .. Len(data) /\ n[p] \in 0 .. pos[p] + 1

Inside(p) == pc[p] \in {"body", "loop", "unlock"}
Writing(p) == Inside(p) /\ req[p].kind \notin Readers

(***************************************************************************)
(* A writer edits in place, so nobody may be inside with it; a lock is     *)
(* held by those inside and, whatever way they left, by nobody else.       *)
(***************************************************************************)
WriterIsAlone ==
    /\ \A p, q \in Procs : Writing(p) /\ Inside(q) => p = q
    /\ \A p \in Procs : /\ p \in mu.readers <=> Inside(p) /\ ~Writing(p)
                        /\ mu.writer = p <=> Writing(p) \/ pc[p] = "drain"

(***************************************************************************)
(* "Every method call is atomic" (README, synclist.go:19): a writer takes  *)
(* effect when it unlocks, a reader answers from one moment at which no    *)
(* writer was inside, and an iteration replays exactly that moment.  A     *)
(* callback that panics leaves the list as it was; a comparator that does  *)
(* may leave the elements in another order, but all of them.               *)
(***************************************************************************)
EffectsOrPanic(q, s) ==
    Outcomes(q, s) \cup
    {Does(t, <<none>>) : t \in IF q.kind \notin Panicking THEN {}
                              ELSE IF q.kind = "sort" THEN Reorderings(s) ELSE {s}}

Atomic == INSTANCE AtomicObject WITH
    Effects <- EffectsOrPanic,
    content <- IF \E p \in Procs : Writing(p) THEN before ELSE data,
    stage <- [p \in Procs |-> IF pc[p] = "idle" THEN "idle"
                              ELSE IF pc[p] \in {"replay", "return"} THEN "closed" ELSE "open"],
    request <- req,
    result <- [p \in Procs |-> IF pc[p] = "replay" THEN snap[p]
                               ELSE IF pc[p] = "return" THEN ret[p] ELSE none]

EveryCallIsAtomic == Atomic!Spec

(***************************************************************************)
(* No call hangs, whatever the others do and although the callbacks of an  *)
(* iteration call the list again (synclist.go:20).                         *)
(***************************************************************************)
EveryCallReturns == \A p \in Procs : pc[p] # "idle" ~> pc[p] = "idle"
=============================================================================
