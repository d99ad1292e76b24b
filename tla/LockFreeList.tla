---------------------------- MODULE LockFreeList ----------------------------
(***************************************************************************)
(* lockFreeList (lockfreelist.go): a singly linked chain between two       *)
(* permanent sentinels.  A node's `next` and its `state` are two atomic    *)
(* pointers; state = nil means that the node is logically deleted.  Nodes  *)
(* are never unlinked one by one: only Clear swings head.next to tail.     *)
(*                                                                         *)
(* One action is one atomic load, store or compare-and-swap of the code    *)
(* together with the goroutine-local work up to the next one.  A cell is   *)
(* an allocation: the pointer &value a `state` may hold, and the name of   *)
(* the node newLFNode created around it.  Cells are handed out in order    *)
(* and never reused, as a garbage-collected pointer that is still          *)
(* reachable is not.                                                       *)
(***************************************************************************)
EXTENDS Integers, Sequences, FiniteSets

CONSTANTS
    Procs,      \* the goroutines
    Values,     \* the elements (integers: Sort compares them)
    MaxCells,   \* bound: allocations in a behaviour
    Initial,    \* the elements given to NewLockFreeListFrom
    Menus,      \* bound: m[p], for an m \in Menus, are the calls p makes, in any order
    Scheduled,  \* the goroutines the scheduler keeps running
    head, tail, \* the sentinel nodes
    nil

Cells == 1 .. MaxCells
Nodes == Cells \cup {head}

Kinds == {"scan", "find", "get", "remove", "removeFunc", "removeLast",
          "removeAt", "set", "insert", "append", "clear", "sort"}

\* A call: the method, its index, the elements its equality or predicate
\* accepts, and the elements it brings (InsertAll, AddAll, refill).
Calls == {q \in [kind : Kinds, idx : Int, want : SUBSET Values, elems : Seq(Values)] :
            q.kind = "set" => Len(q.elems) = 1}

ASSUME SentinelAssumption == /\ {head, tail, nil} \cap Cells = {}
                             /\ head # tail /\ head # nil /\ tail # nil
ASSUME SizeAssumption == MaxCells \in Nat
ASSUME ValueAssumption == Values \subseteq Int /\ nil \notin Values
ASSUME InitialAssumption == Initial \in Seq(Values) /\ Len(Initial) <= MaxCells
ASSUME MenuAssumption == Menus \subseteq [Procs -> SUBSET Calls]
ASSUME ScheduledAssumption == Scheduled \subseteq Procs

VARIABLES
    next, state,                      \* the atomic pointers of the nodes
    value, used,                      \* the allocated cells and their elements
    pc, call, todo,                   \* per goroutine: control, current call, calls left
    at, last, exp, cnt, seen,         \* its cursor, RemoveLast's candidate, the pointer
                                      \* its CAS expects, its index, what it collected
    cells, rest,                      \* its private chain, and elements still to add
    published, cutAt, epoch, born, out \* history (below)

(***************************************************************************)
(* History variables.  No action reads them in a guard.                    *)
(*   published  nodes linked into the list so far                          *)
(*   epoch      completed Clears;  cutAt[n] = the Clear that detached n    *)
(*              (0: still attached);  born[c] = epoch when c was allocated *)
(*   out[c]     how often the element in c was returned by a Remove or Set *)
(***************************************************************************)

heap  == <<next, state, value, used>>
local == <<at, last, exp, cnt, seen>>
work  == <<call, todo>>
ghost == <<published, cutAt, epoch, born, out>>
vars  == <<heap, pc, local, work, cells, rest, ghost>>

Members(s) == {s[i] : i \in DOMAIN s}
Chain == {n \in published : cutAt[n] = 0}
Finished == {"idle", "ok", "fail"}
Indexed == {"get", "removeAt", "set", "insert"}
Adders  == {"set", "insert", "append", "clear", "sort"}

-----------------------------------------------------------------------------
(* NewLockFreeListFrom: the sentinels, then one AddAll of the elements.    *)
Init ==
    /\ next = [n \in Nodes |-> IF n = head
                 THEN IF Initial = <<>> THEN tail ELSE 1
                 ELSE IF n < Len(Initial) THEN n + 1
                 ELSE IF n = Len(Initial) THEN tail ELSE nil]
    /\ state = [c \in Cells |-> IF c <= Len(Initial) THEN c ELSE nil]
    /\ value = [c \in Cells |-> IF c <= Len(Initial) THEN Initial[c] ELSE nil]
    /\ used = Len(Initial)
    /\ pc = [p \in Procs |-> "idle"]
    /\ call = [p \in Procs |-> nil]
    /\ todo \in Menus
    /\ at = [p \in Procs |-> head]
    /\ last = [p \in Procs |-> nil]
    /\ exp = [p \in Procs |-> nil]
    /\ cnt = [p \in Procs |-> 0]
    /\ seen = [p \in Procs |-> <<>>]
    /\ cells = [p \in Procs |-> <<>>]
    /\ rest = [p \in Procs |-> <<>>]
    /\ published = 1 .. Len(Initial)
    /\ cutAt = [n \in Nodes |-> 0]
    /\ epoch = 0
    /\ born = [c \in Cells |-> 0]
    /\ out = [c \in Cells |-> 0]

Goto(p, l) == pc' = [pc EXCEPT ![p] = l]

\* `curr := l.head.next.Load()` with the loop's locals reset: (re)start the walk.
Rewind(p) ==
    /\ at' = [at EXCEPT ![p] = head]
    /\ cnt' = [cnt EXCEPT ![p] = 0]
    /\ last' = [last EXCEPT ![p] = nil]

\* appendChain walks without looking at the states; it is also the second
\* half of Sort and of refill, once they own a private chain.
Appending(p) == call[p].kind \in {"append", "clear", "sort"} /\ cells[p] # <<>>
Collecting(p) == call[p].kind \in {"scan", "sort"}

\* The early returns, then the first thing each method does.
FirstStep(q) ==
    IF q.elems = <<>> /\ q.kind \in {"insert", "append"} THEN "ok"
    ELSE IF q.idx < 0 /\ q.kind \in Indexed THEN "fail"
    ELSE IF q.kind \in {"set", "insert", "append"} THEN "new"
    ELSE IF q.kind = "clear" THEN "clear" ELSE "walk"

Call(p) ==
    /\ pc[p] \in Finished
    /\ \E q \in todo[p] :
         /\ todo' = [todo EXCEPT ![p] = @ \ {q}]
         /\ call' = [call EXCEPT ![p] = q]
         /\ rest' = [rest EXCEPT ![p] = q.elems]
         /\ Goto(p, FirstStep(q))
    /\ Rewind(p)
    /\ seen' = [seen EXCEPT ![p] = <<>>]
    /\ cells' = [cells EXCEPT ![p] = <<>>]
    /\ UNCHANGED <<heap, exp, ghost>>

\* What slices.SortFunc may leave in the slice: its elements, in order.
Sorted(s) ==
    {t \in [DOMAIN s -> Values] :
        /\ \A i, j \in DOMAIN s : i < j => t[i] <= t[j]
        /\ \E f \in [DOMAIN s -> DOMAIN s] :
             /\ \A i, j \in DOMAIN s : f[i] = f[j] => i = j
             /\ \A i \in DOMAIN s : t[i] = value[s[f[i]].cell]}

\* What the call has still to put into the list.
ToAdd(p) == IF call[p].kind = "sort" THEN seen[p] ELSE rest[p]

\* The elements the next private chain is built from: InsertAll takes them
\* one at a time from the back, Sort takes its sorted snapshot.
Batch(p) ==
    CASE call[p].kind = "insert" -> {<<rest[p][Len(rest[p])]>>}
      [] call[p].kind = "sort" -> Sorted(seen[p])
      [] OTHER -> {rest[p]}

\* Mutant of New: the next Insert of an InsertAll goes on from the old cursor.
NewKeepsCursor(p) ==
    /\ pc[p] = "new"
    /\ \E vs \in Batch(p) :
         /\ used + Len(vs) <= MaxCells /\ used' = used + Len(vs)
         /\ value' = [c \in Cells |-> IF c \in used + 1 .. used' THEN vs[c - used] ELSE value[c]]
         /\ state' = [c \in Cells |-> IF c \in used + 1 .. used' THEN c ELSE state[c]]
         /\ next' = [n \in Nodes |-> IF n \in used + 1 .. used' THEN tail ELSE next[n]]
         /\ cells' = [cells EXCEPT ![p] = [i \in DOMAIN vs |-> used + i]]
         /\ born' = [c \in Cells |-> IF c \in used + 1 .. used' THEN epoch ELSE born[c]]
    /\ rest' = [rest EXCEPT ![p] = IF Len(@) > 1 THEN SubSeq(@, 1, Len(@) - 1) ELSE <<>>]
    /\ Goto(p, "walk")
    /\ UNCHANGED <<at, cnt, last, exp, seen, work, published, cutAt, epoch, out>>

(* newLFNode, buildChain and `last.next.Store(l.tail)`: all private to p.  *)
New(p) ==
    /\ pc[p] = "new"
    /\ \E vs \in Batch(p) :
         LET new == used + 1 .. used + Len(vs)
         IN  /\ used + Len(vs) <= MaxCells
             /\ used' = used + Len(vs)
             /\ value' = [c \in Cells |-> IF c \in new THEN vs[c - used] ELSE value[c]]
             /\ state' = [c \in Cells |-> IF c \in new THEN c ELSE state[c]]
             /\ next' = [n \in Nodes |-> IF n \notin new THEN next[n]
                                         ELSE IF n < used + Len(vs) THEN n + 1
                                         ELSE IF call[p].kind \in {"insert", "set"} THEN nil
                                         ELSE tail]
             /\ cells' = [cells EXCEPT ![p] = [i \in DOMAIN vs |-> used + i]]
             /\ born' = [c \in Cells |-> IF c \in new THEN epoch ELSE born[c]]
    /\ rest' = [rest EXCEPT ![p] = IF call[p].kind = "insert"
                                   THEN SubSeq(@, 1, Len(@) - 1) ELSE <<>>]
    /\ Goto(p, IF call[p].kind = "insert" /\ call[p].idx = 0 THEN "link" ELSE "walk")
    /\ Rewind(p)
    /\ UNCHANGED <<exp, seen, work, published, cutAt, epoch, out>>

-----------------------------------------------------------------------------
(* The walk: `for curr := head.next.Load(); curr != nil && curr != tail;`  *)

\* Mutant of Advance: the loop forgets `curr != l.tail`.
AdvancePastTail(p) ==
    /\ pc[p] = "walk"
    /\ next[at[p]] # nil
    /\ at' = [at EXCEPT ![p] = next[at[p]]]
    /\ Goto(p, IF Appending(p) THEN "walk" ELSE "visit")
    /\ UNCHANGED <<heap, work, last, exp, cnt, seen, cells, rest, ghost>>

Advance(p) ==
    /\ pc[p] = "walk"
    /\ next[at[p]] \notin {tail, nil}
    /\ at' = [at EXCEPT ![p] = next[at[p]]]
    /\ Goto(p, IF Appending(p) THEN "walk" ELSE "visit")
    /\ UNCHANGED <<heap, work, last, exp, cnt, seen, cells, rest, ghost>>

\* The loop ends without having returned.
Exhausted(p) == pc[p] = "walk" /\ next[at[p]] \in {tail, nil}

NotFound(p) ==
    /\ Exhausted(p)
    /\ \/ call[p].kind \in Indexed \cup {"find", "remove", "removeAt"}
       \/ call[p].kind = "removeLast" /\ last[p] = nil
    /\ Goto(p, "fail")
    /\ UNCHANGED <<heap, local, work, cells, rest, ghost>>

SweptAll(p) ==
    /\ Exhausted(p) /\ ~Appending(p)
    /\ call[p].kind \in {"scan", "removeFunc", "sort"}
    /\ Goto(p, IF call[p].kind = "sort" THEN "clear" ELSE "ok")
    /\ UNCHANGED <<heap, local, work, cells, rest, ghost>>

\* RemoveLast goes back to the last live node it passed.
PickLast(p) ==
    /\ Exhausted(p)
    /\ call[p].kind = "removeLast" /\ last[p] # nil
    /\ at' = [at EXCEPT ![p] = last[p]]
    /\ Goto(p, "take")
    /\ UNCHANGED <<heap, work, last, exp, cnt, seen, cells, rest, ghost>>

\* Mutant of AtEnd: append links after the node found, like Insert.
AtEndLinks(p) ==
    /\ Exhausted(p) /\ Appending(p)
    /\ Goto(p, "link")
    /\ UNCHANGED <<heap, local, work, cells, rest, ghost>>

\* appendChain found the end: CAS its next from tail.
AtEnd(p) ==
    /\ Exhausted(p) /\ Appending(p)
    /\ exp' = [exp EXCEPT ![p] = tail]
    /\ Goto(p, "swing")
    /\ UNCHANGED <<heap, work, at, last, cnt, seen, cells, rest, ghost>>

-----------------------------------------------------------------------------
(* `v := curr.state.Load()` and what the loop body decides from it.        *)

Selects(p, v) ==
    CASE call[p].kind \in {"find", "remove", "removeFunc"} -> value[v] \in call[p].want
      [] call[p].kind = "insert" -> cnt[p] = call[p].idx - 1
      [] call[p].kind \in {"get", "set", "removeAt"} -> cnt[p] = call[p].idx
      [] OTHER -> FALSE

\* Mutant of SkipDeleted: a deleted node ends the walk.
SkipDeletedStops(p) ==
    /\ pc[p] = "visit" /\ state[at[p]] = nil
    /\ Goto(p, CASE call[p].kind = "sort" -> "clear"
                 [] call[p].kind \in {"scan", "removeFunc"} -> "ok"
                 [] OTHER -> "fail")
    /\ UNCHANGED <<heap, local, work, cells, rest, ghost>>

SkipDeleted(p) ==
    /\ pc[p] = "visit" /\ state[at[p]] = nil
    /\ Goto(p, "walk")
    /\ UNCHANGED <<heap, local, work, cells, rest, ghost>>

Pass(p) ==
    LET v == state[at[p]]
    IN  /\ pc[p] = "visit" /\ v # nil /\ ~Selects(p, v)
        /\ cnt' = [cnt EXCEPT ![p] = IF call[p].kind \in Indexed THEN @ + 1 ELSE @]
        /\ seen' = [seen EXCEPT ![p] = IF Collecting(p)
                                       THEN Append(@, [node |-> at[p], cell |-> v]) ELSE @]
        /\ IF call[p].kind = "removeLast"
           THEN last' = [last EXCEPT ![p] = at[p]] /\ exp' = [exp EXCEPT ![p] = v]
           ELSE UNCHANGED <<last, exp>>
        /\ Goto(p, "walk")
        /\ UNCHANGED <<heap, work, at, cells, rest, ghost>>

Select(p) ==
    LET v == state[at[p]]
        k == call[p].kind
    IN  /\ pc[p] = "visit" /\ v # nil /\ Selects(p, v)
        /\ exp' = [exp EXCEPT ![p] = v]
        /\ Goto(p, CASE k \in {"find", "get"} -> "ok"
                     [] k = "set" -> "swap"
                     [] k = "insert" -> "link"
                     [] OTHER -> "take")
        /\ UNCHANGED <<heap, work, at, last, cnt, seen, cells, rest, ghost>>

-----------------------------------------------------------------------------
(* state.CompareAndSwap(v, nil): logical deletion.                         *)

\* Mutant of Take: `state.Store(nil)` instead of the CAS.
TakeBlind(p) ==
    /\ pc[p] = "take"
    /\ state' = [state EXCEPT ![at[p]] = nil]
    /\ out' = [out EXCEPT ![exp[p]] = @ + 1]
    /\ Goto(p, IF call[p].kind = "removeFunc" THEN "walk" ELSE "ok")
    /\ UNCHANGED <<next, value, used, local, work, cells, rest, published, cutAt, epoch, born>>

Take(p) ==
    /\ pc[p] = "take" /\ state[at[p]] = exp[p]
    /\ state' = [state EXCEPT ![at[p]] = nil]
    /\ out' = [out EXCEPT ![exp[p]] = @ + 1]
    /\ Goto(p, IF call[p].kind = "removeFunc" THEN "walk" ELSE "ok")
    /\ UNCHANGED <<next, value, used, local, work, cells, rest, published, cutAt, epoch, born>>

\* Mutant of TakeFails: try the CAS again without reading the node again.
TakeFailsSpins(p) ==
    /\ pc[p] = "take" /\ state[at[p]] # exp[p]
    /\ call[p].kind \in {"remove", "removeFunc"}
    /\ Goto(p, IF call[p].kind = "remove" THEN "take" ELSE "walk")
    /\ UNCHANGED <<heap, local, work, cells, rest, ghost>>

\* Remove and RemoveFirst read the same node again, RemoveFunc moves on.
TakeFails(p) ==
    /\ pc[p] = "take" /\ state[at[p]] # exp[p]
    /\ call[p].kind \in {"remove", "removeFunc"}
    /\ Goto(p, IF call[p].kind = "remove" THEN "visit" ELSE "walk")
    /\ UNCHANGED <<heap, local, work, cells, rest, ghost>>

\* Mutant of TakeRestarts: a lost race is taken for an empty list.
TakeGivesUp(p) ==
    /\ pc[p] = "take" /\ state[at[p]] # exp[p]
    /\ call[p].kind \in {"removeAt", "removeLast"}
    /\ Goto(p, "fail") /\ Rewind(p)
    /\ UNCHANGED <<heap, work, exp, seen, cells, rest, ghost>>

\* RemoveAt and RemoveLast resolve their position from the head again.
TakeRestarts(p) ==
    /\ pc[p] = "take" /\ state[at[p]] # exp[p]
    /\ call[p].kind \in {"removeAt", "removeLast"}
    /\ Goto(p, "walk") /\ Rewind(p)
    /\ UNCHANGED <<heap, work, exp, seen, cells, rest, ghost>>

\* Mutant of Swap: `state.Store(&element)` instead of the CAS.
SwapBlind(p) ==
    /\ pc[p] = "swap"
    /\ state' = [state EXCEPT ![at[p]] = cells[p][1]]
    /\ out' = [out EXCEPT ![exp[p]] = @ + 1]
    /\ cells' = [cells EXCEPT ![p] = <<>>]
    /\ Goto(p, "ok")
    /\ UNCHANGED <<next, value, used, local, work, rest, published, cutAt, epoch, born>>

(* Set: state.CompareAndSwap(v, &element), re-reading v on this node.      *)
Swap(p) ==
    /\ pc[p] = "swap" /\ state[at[p]] = exp[p]
    /\ state' = [state EXCEPT ![at[p]] = cells[p][1]]
    /\ out' = [out EXCEPT ![exp[p]] = @ + 1]
    /\ cells' = [cells EXCEPT ![p] = <<>>]
    /\ Goto(p, "ok")
    /\ UNCHANGED <<next, value, used, local, work, rest, published, cutAt, epoch, born>>

SwapFails(p) ==
    /\ pc[p] = "swap" /\ state[at[p]] # exp[p]
    /\ Goto(p, "reload")
    /\ UNCHANGED <<heap, local, work, cells, rest, ghost>>

Reload(p) ==
    /\ pc[p] = "reload" /\ state[at[p]] # nil
    /\ exp' = [exp EXCEPT ![p] = state[at[p]]]
    /\ Goto(p, "swap")
    /\ UNCHANGED <<heap, work, at, last, cnt, seen, cells, rest, ghost>>

\* The node was deleted meanwhile: the index names another one now.
SetRestarts(p) ==
    /\ pc[p] = "reload" /\ state[at[p]] = nil
    /\ Goto(p, "walk") /\ Rewind(p)
    /\ UNCHANGED <<heap, work, exp, seen, cells, rest, ghost>>

-----------------------------------------------------------------------------
(* Insert: read pred.next, point the private node at it, then CAS.         *)

Link(p) ==
    /\ pc[p] = "link"
    /\ exp' = [exp EXCEPT ![p] = next[at[p]]]
    /\ next' = [next EXCEPT ![cells[p][1]] = next[at[p]]]
    /\ Goto(p, "swing")
    /\ UNCHANGED <<state, value, used, work, at, last, cnt, seen, cells, rest, ghost>>

\* Mutant of Swing: `pred.next.Store(first)` instead of the CAS.
SwingBlind(p) ==
    /\ pc[p] = "swing"
    /\ next' = [next EXCEPT ![at[p]] = cells[p][1]]
    /\ published' = published \cup Members(cells[p])
    /\ cutAt' = [n \in Nodes |-> IF n \in Members(cells[p]) THEN cutAt[at[p]] ELSE cutAt[n]]
    /\ cells' = [cells EXCEPT ![p] = <<>>]
    /\ Goto(p, IF rest[p] = <<>> THEN "ok" ELSE "new")
    /\ UNCHANGED <<state, value, used, local, work, rest, epoch, born, out>>

(* pred.next.CompareAndSwap(expected, first) of Insert and appendChain.    *)
Swing(p) ==
    /\ pc[p] = "swing" /\ next[at[p]] = exp[p]
    /\ next' = [next EXCEPT ![at[p]] = cells[p][1]]
    /\ published' = published \cup Members(cells[p])
    /\ cutAt' = [n \in Nodes |-> IF n \in Members(cells[p]) THEN cutAt[at[p]] ELSE cutAt[n]]
    /\ cells' = [cells EXCEPT ![p] = <<>>]
    /\ Goto(p, IF rest[p] = <<>> THEN "ok" ELSE "new")
    /\ UNCHANGED <<state, value, used, local, work, rest, epoch, born, out>>

\* Mutant of SwingFails: only the expected pointer is read again, the private
\* node still points at the old successor.
SwingFailsRelinks(p) ==
    /\ pc[p] = "swing" /\ next[at[p]] # exp[p]
    /\ exp' = [exp EXCEPT ![p] = next[at[p]]]
    /\ UNCHANGED <<heap, pc, work, at, last, cnt, seen, cells, rest, ghost>>

\* insertAtHead reads the head again, the others walk from it again.
SwingFails(p) ==
    /\ pc[p] = "swing" /\ next[at[p]] # exp[p]
    /\ Goto(p, IF call[p].kind = "insert" /\ call[p].idx = 0 THEN "link" ELSE "walk")
    /\ Rewind(p)
    /\ UNCHANGED <<heap, work, exp, seen, cells, rest, ghost>>

(* Clear, alone or as the first half of refill and the second of Sort.     *)
ClearLoad(p) ==
    /\ pc[p] = "clear"
    /\ exp' = [exp EXCEPT ![p] = next[head]]
    /\ Goto(p, "cut")
    /\ UNCHANGED <<heap, work, at, last, cnt, seen, cells, rest, ghost>>

Cut(p) ==
    /\ pc[p] = "cut" /\ next[head] = exp[p]
    /\ next' = [next EXCEPT ![head] = tail]
    /\ epoch' = epoch + 1
    /\ cutAt' = [n \in Nodes |-> IF n \in Chain THEN epoch + 1 ELSE cutAt[n]]
    /\ Goto(p, IF ToAdd(p) = <<>> THEN "ok" ELSE "new")
    /\ UNCHANGED <<state, value, used, local, work, cells, rest, published, born, out>>

CutFails(p) ==
    /\ pc[p] = "cut" /\ next[head] # exp[p]
    /\ Goto(p, "clear")
    /\ UNCHANGED <<heap, local, work, cells, rest, ghost>>

-----------------------------------------------------------------------------
Step(p) ==
    \/ Call(p) \/ New(p)
    \/ Advance(p) \/ NotFound(p) \/ SweptAll(p) \/ PickLast(p) \/ AtEnd(p)
    \/ SkipDeleted(p) \/ Pass(p) \/ Select(p)
    \/ Take(p) \/ TakeFails(p) \/ TakeRestarts(p)
    \/ Swap(p) \/ SwapFails(p) \/ Reload(p) \/ SetRestarts(p)
    \/ Link(p) \/ Swing(p) \/ SwingFails(p)
    \/ ClearLoad(p) \/ Cut(p) \/ CutFails(p)

\* Every goroutine has made its calls: the only way for the system to stop.
Terminated ==
    /\ \A p \in Procs : pc[p] \in Finished /\ todo[p] = {}
    /\ UNCHANGED vars

Next == (\E p \in Procs : Step(p)) \/ Terminated

Spec == Init /\ [][Next]_vars

\* Only the scheduled goroutines are sure to keep running: the others may
\* stop anywhere, between a load and its CAS too.
Fairness == \A p \in Scheduled : WF_vars(Step(p))

-----------------------------------------------------------------------------
Labels == Finished \cup {"walk", "visit", "take", "swap", "reload", "new",
                         "link", "swing", "clear", "cut"}

TypeOK ==
    /\ next \in [Nodes -> Cells \cup {tail, nil}]
    /\ state \in [Cells -> Cells \cup {nil}]
    /\ value \in [Cells -> Values \cup {nil}]
    /\ used \in 0 .. MaxCells
    /\ pc \in [Procs -> Labels]
    /\ call \in [Procs -> Calls \cup {nil}]
    /\ todo \in [Procs -> SUBSET Calls]
    /\ at \in [Procs -> Nodes]
    /\ last \in [Procs -> Cells \cup {nil}]
    /\ exp \in [Procs -> Cells \cup {tail, nil}]
    /\ cnt \in [Procs -> Nat]
    /\ seen \in [Procs -> Seq([node : Cells, cell : Cells])]
    /\ cells \in [Procs -> Seq(Cells)]
    /\ rest \in [Procs -> Seq(Values)]
    /\ published \subseteq Cells
    /\ cutAt \in [Nodes -> Nat]
    /\ epoch \in Nat
    /\ born \in [Cells -> Nat]
    /\ out \in [Cells -> Nat]

-----------------------------------------------------------------------------
\* The k-th node from the head.
Walk ==
    LET to[k \in 0 .. MaxCells + 1] ==
          IF k = 0 THEN head ELSE IF to[k-1] \in Nodes THEN next[to[k-1]] ELSE nil
    IN  to

Attached == [k \in 1 .. Cardinality(Chain) |-> Walk[k]]

(* A walk from the head sentinel visits every attached node once and ends  *)
(* at the tail sentinel: whatever the CASes of Insert, appendChain and     *)
(* Clear do to each other, no element is lost with its predecessor, no     *)
(* cycle appears and nothing a Clear detached comes back (lines 270-273).  *)
ChainSound ==
    /\ Members(Attached) = Chain
    /\ Walk[Cardinality(Chain) + 1] = tail

\* What a sequence of states holds: without the deleted ones, in their order.
Sift(s) ==
    LET upTo[k \in 0 .. Len(s)] == IF k = 0 THEN <<>>
                                   ELSE IF s[k] = nil THEN upTo[k - 1]
                                   ELSE Append(upTo[k - 1], s[k])
    IN  upTo[Len(s)]

\* The live elements in the order a walk meets them, and those Clears detached.
Content == Sift([k \in DOMAIN Attached |->
                    IF Attached[k] \in Cells THEN state[Attached[k]] ELSE nil])
Swept == {state[n] : n \in published \ Chain} \ {nil}

(* Each step of each goroutine is, for the elements the list holds, one    *)
(* step of the contract or none: a failed CAS, a retry or a stopped        *)
(* goroutine leaves no trace, and no element is lost, doubled, revived or  *)
(* moved.                                                                  *)
Contract == INSTANCE ListContract
              WITH Elements <- Cells, content <- Content, swept <- Swept,
                   gone <- {c \in Cells : out[c] > 0}, cleared <- epoch > 0
ImplementsContract == Contract!Spec

(* Add and AddAll put their elements side by side at the very end, also    *)
(* when Inserts land after the node their walk stopped at, unless a Clear  *)
(* that overlaps them swallows the whole batch.                            *)
BatchGoesLast ==
    [][\A p \in Procs :
         pc[p] = "swing" /\ Appending(p) /\ cells'[p] = <<>>
           => \/ Content' = Content \o cells[p]
              \/ Content' = Content /\ Members(cells[p]) \subseteq Swept']_vars

Held == {state[n] : n \in published} \ {nil}

(* An element that reached the list is held by one node or was returned by *)
(* exactly one Remove, RemoveAt, RemoveFunc, RemoveLast or Set, also when  *)
(* these race on one node, or on a node a Clear has detached ("exactly one *)
(* of them observes the old value", lines 185-187).                        *)
HandedOutOnce ==
    /\ \A c \in Cells : out[c] <= 1
    /\ \A c \in Held : out[c] = 0
    /\ \A c \in published : c \in Held \/ out[c] = 1
    /\ \A m, n \in published : state[m] = state[n] /\ m # n => state[m] = nil

(* A Clear may swallow an element whose insertion overlaps it (lines       *)
(* 119-122), never one whose insertion began after the Clear was over: a   *)
(* retry that went on from a detached predecessor would.                   *)
ClearSwallowsOnlyOverlapping ==
    \A c \in published : cutAt[c] > 0 => cutAt[c] > born[c]

-----------------------------------------------------------------------------
(***************************************************************************)
(* The inductive invariant behind the three properties above.              *)
(***************************************************************************)
Private(p) == Members(cells[p])

\* Which calls are where, and what they carry there.
Control(p) ==
    pc[p] \notin Finished =>
      LET k == call[p].kind IN
      /\ call[p] \in Calls
      /\ k \notin Adders => cells[p] = <<>>
      /\ pc[p] \in {"walk", "visit", "link", "swap", "reload"} /\ k \in {"set", "insert"} => cells[p] # <<>>
      /\ IF k = "insert" THEN Len(cells[p]) <= 1 ELSE cells[p] # <<>> => rest[p] = <<>>
      /\ pc[p] = "new" => k \in Adders /\ ToAdd(p) # <<>>
      /\ pc[p] \in {"clear", "cut"} => k \in {"clear", "sort"}
      /\ pc[p] = "link" => k = "insert"
      /\ pc[p] \in {"swap", "reload"} => k = "set"
      /\ pc[p] = "swing" => cells[p] # <<>> /\ k # "set"
      /\ pc[p] \in {"take", "swap"} => exp[p] \in Cells
      /\ pc[p] = "take" => k \in {"remove", "removeFunc", "removeAt", "removeLast"}
      /\ pc[p] \in {"walk", "visit"} /\ k = "removeLast" /\ last[p] # nil => exp[p] \in Cells

\* Cursors stay on published nodes.
Cursor(p) ==
    /\ at[p] \in published \cup {head}
    /\ pc[p] \in {"visit", "take", "swap", "reload"} => at[p] \in published
    /\ last[p] \in published \cup {nil}

\* What a goroutine has allocated and not yet given to the list is its own.
Owned(p) ==
    /\ \A x \in Private(p) :
         /\ x \in 1 .. used
         /\ x \notin published /\ x \notin Held /\ out[x] = 0
         /\ state[x] = x
         /\ next[x] \in published \cup Private(p) \cup {tail, nil}
         /\ cutAt[at[p]] > 0 => cutAt[at[p]] > born[x]
         /\ pc[p] = "swing" => next[x] \in Private(p) \cup {tail, nil, exp[p]}
         /\ pc[p] \notin Finished /\ call[p].kind # "insert" => next[x] \in Private(p) \cup {tail, nil}
    /\ \A q \in Procs : q # p => Private(p) \cap Private(q) = {}

\* Attached nodes lead to attached nodes, detached ones to nodes that the
\* same Clear detached.
Links ==
    /\ \A n \in published \cup {head} :
         next[n] \in Cells => next[n] \in published /\ cutAt[next[n]] = cutAt[n]
    /\ cutAt[head] = 0
    /\ \A n \in published : cutAt[n] <= epoch
    /\ \A x \in Cells : born[x] <= epoch
    /\ \A x \in Cells : x > used => x \notin published /\ x \notin Held /\ out[x] = 0

IInv ==
    /\ TypeOK
    /\ Links
    /\ \A p \in Procs : Control(p) /\ Cursor(p) /\ Owned(p)
    /\ HandedOutOnce
    /\ ClearSwallowsOnlyOverlapping

(***************************************************************************)
(* What ChainSound needs besides: the chain as a sequence, and the chain a *)
(* goroutine is about to link.                                             *)
(***************************************************************************)
\* s lists the attached nodes in the order of their next pointers.
Follows(s, i) == IF i < Len(s) THEN s[i + 1] ELSE tail
Lists(s) ==
    /\ Members(s) = Chain
    /\ \A i, j \in DOMAIN s : s[i] = s[j] => i = j
    /\ next[head] = Follows(s, 0)
    /\ \A i \in DOMAIN s : next[s[i]] = Follows(s, i)

\* A private chain is strung in its order, and ends at the pointer its CAS
\* expects: appendChain's at the tail sentinel, Insert's at the successor.
Strung(p) ==
    LET c == cells[p]
    IN  /\ \A i, j \in DOMAIN c : c[i] = c[j] => i = j
        /\ \A i \in DOMAIN c : i < Len(c) => next[c[i]] = c[i + 1]
        /\ pc[p] = "swing" => next[c[Len(c)]] = exp[p]
        /\ pc[p] \notin Finished /\ Appending(p) => next[c[Len(c)]] = tail

Ordered ==
    /\ \A p \in Procs : Strung(p)
    /\ \E s \in Seq(Cells) : Lists(s)

(* Lock freedom (line 20): the goroutines that keep running finish their   *)
(* calls although the others may be stopped for ever at any point.         *)
ScheduledFinish ==
    \A p \in Scheduled : <>[](pc[p] \in Finished /\ todo[p] = {})

=============================================================================
