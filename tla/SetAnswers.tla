----------------------------- MODULE SetAnswers -----------------------------
(***************************************************************************)
(* What the methods of ConcurrentSets promise.  A single operation is      *)
(* atomic; what a method makes of several is judged by what the sets held  *)
(* while it ran.  History variables, since the call of p began:            *)
(*   kept[p][s], had[p][s]   elements in s at every, at some moment        *)
(*   alone[p]                nobody else had an update under way           *)
(***************************************************************************)
EXTENDS ConcurrentSets

VARIABLES kept, had, alone

Nothing == [s \in Sets |-> {}]
ScanInit ==
    /\ Init
    /\ kept = [p \in Procs |-> Nothing]
    /\ had = [p \in Procs |-> Nothing]
    /\ alone = [p \in Procs |-> TRUE]

\* The history of p begins with its call and ends when it returns.
Since(p, rest, fresh, joined) ==
    IF pc'[p] = "idle" THEN rest ELSE IF pc[p] = "idle" THEN fresh ELSE joined

Undisturbed(p) == \A r \in Procs \ {p} : pc[r] # "idle" => call[r].kind \notin Updates

ScanNext ==
    /\ Next
    /\ kept' = [p \in Procs |-> Since(p, Nothing, content', [s \in Sets |-> kept[p][s] \cap content'[s]])]
    /\ had' = [p \in Procs |-> Since(p, Nothing, content', [s \in Sets |-> had[p][s] \cup content'[s]])]
    /\ alone' = [p \in Procs |-> Since(p, TRUE, Undisturbed(p)', alone[p] /\ Undisturbed(p)')]
ScanSpec == ScanInit /\ [][ScanNext]_<<vars, kept, had, alone>>
FairScanSpec == ScanSpec /\ Fairness

Answered(p, K) == pc[p] = "done" /\ call[p].kind \in K /\ ret[p] # none
Yes(p) == out[p] = {}

-----------------------------------------------------------------------------
(***************************************************************************)
(* Type invariant.  Whoever is inside a tree set's lock is accounted for:  *)
(* no operation leaves it locked, nobody reads it while somebody writes.   *)
(***************************************************************************)
TypeOK ==
    /\ impl \in Mixes
    /\ content \in [Sets -> SUBSET Elems]
    /\ lock \in [Sets -> Locks(Procs)]
    /\ pc \in [Procs -> {"idle", "next", "act", "queued", "held", "got", "walk", "told", "walked", "done"}]
    /\ call \in [Procs -> Requests \cup {none}]
    /\ todo \in [Procs -> SUBSET Requests]
    /\ op \in [Procs -> Ops \cup {none}]
    /\ plan \in [Procs -> Seq(Ops)]
    /\ \A p \in Procs :
         /\ walk[p].batch \subseteq Elems /\ walk[p].left \subseteq Buckets /\ walk[p].at \in Walks(Elems)
         /\ out[p] \subseteq Elems \cup {0} /\ sizes[p] \in Seq(Nat)
    /\ \A s \in Sets :
         LET inside(l, reading) == {p \in Procs : pc[p] \in l /\ op[p].on = s /\ Reading(op[p]) = reading}
             writers == inside({"held"}, FALSE)
         IN  /\ Locked(s) => lock[s].readers = inside({"held"}, TRUE)
             /\ Locked(s) => {lock[s].writer} \ {none} = inside({"queued", "held"}, FALSE)
             /\ Locked(s) /\ writers # {} => lock[s].readers = {}

(***************************************************************************)
(* The Atomicity Guide (collection.go:623-679): Add, Remove, Contains,     *)
(* AddIfAbsent and RemoveAndGet are atomic, every method of a tree set     *)
(* that holds the lock once is, and Pop of the others removes the element  *)
(* it returns, in one instant, and nothing when it returns none.           *)
(***************************************************************************)
Choosing(p) == call[p].kind \in Pops /\ ~Locked(call[p].on)
Deleted(p) == pc[p] = "got" /\ op[p].kind = "remove" /\ ret[p] # {}
\* Sizes of the hash and skip sets are not promised to be exact.
Estimate(p) == op[p].kind = "size" /\ ~Locked(op[p].on)
Moment(p) ==
    IF pc[p] = "idle" THEN "idle"
    ELSE IF Choosing(p) THEN IF pc[p] = "done" \/ Deleted(p) THEN "closed" ELSE "open"
    ELSE IF pc[p] \notin {"act", "queued", "held", "got"} \/ Estimate(p) THEN "idle"
    ELSE IF pc[p] = "got" THEN "closed" ELSE "open"

Promised(o, c) ==
    LET made(e) == [s |-> [c EXCEPT ![o.on] = e.S], ret |-> e.ret]
    IN  IF o.kind = "popSome"
        THEN {made(Does(c[o.on] \ {e}, {e})) : e \in c[o.on]} \cup {made(Does(c[o.on], {}))}
        ELSE {made(Effect(o, c[o.on]))}

Atomic == INSTANCE AtomicObject WITH
    Effects <- Promised,
    Requests <- Ops \cup [kind : {"popSome"}, on : Sets, other : Sets, elem : Elems, elems : SUBSET Elems],
    content <- content,
    stage <- [p \in Procs |-> Moment(p)],
    request <- [p \in Procs |-> IF Moment(p) = "idle" THEN none
                                ELSE IF Choosing(p) THEN [call[p] EXCEPT !.kind = "popSome"]
                                ELSE op[p]],
    result <- [p \in Procs |-> IF Moment(p) # "closed" THEN none
                               ELSE IF Choosing(p) /\ Deleted(p) THEN out[p] ELSE ret[p]]

EveryOperationIsAtomic == Atomic!Spec

(***************************************************************************)
(* Pop answers none only if no element stayed, and PopFirst and PopLast of *)
(* a skip set return no element when a smaller (larger) one stayed: a lost *)
(* race makes them look again, not give up or return the loser's element.  *)
(***************************************************************************)
PopsAreJustified ==
    \A p \in Procs : Answered(p, Pops) /\ Choosing(p) =>
      LET S == kept[p][call[p].on] IN
      /\ ret[p] = {} => S = {}
      /\ impl[call[p].on] = "skip" =>
           \A e \in ret[p], k \in S : IF call[p].kind = "popLast" THEN e >= k ELSE e <= k

(***************************************************************************)
(* Set algebra is not atomic, but the result is in bounds: it has each     *)
(* element that belonged to it all along, and none that never could.       *)
(***************************************************************************)
AlgebraIsJustified ==
    \A p \in Procs : Answered(p, Algebra) =>
      LET q == call[p]
          K == kept[p][q.on]  L == kept[p][q.other]
          H == had[p][q.on]   I == had[p][q.other]
          Between(low, high) == low \subseteq out[p] /\ out[p] \subseteq high
      IN  CASE q.kind = "union" -> Between(K \cup L, H \cup I)
            [] q.kind = "intersection" -> Between(K \cap L, H \cap I)
            [] q.kind = "difference" -> Between(K \ I, H \ L)
            [] OTHER -> Between((K \ I) \cup (L \ H), (H \ L) \cup (I \ K))

(***************************************************************************)
(* Comparing two sets: yes only if no element that stayed, or stayed away, *)
(* contradicts it, no only if one that came or went may; the methods that  *)
(* read two sizes first (three lock holds) are exact when no update        *)
(* overlaps, a set and itself included.                                    *)
(***************************************************************************)
RelationsAreJustified ==
    \A p \in Procs : Answered(p, Relations) =>
      LET q == call[p]
          K == kept[p][q.on]  L == kept[p][q.other]
          H == had[p][q.on]   I == had[p][q.other]
          A == content[q.on]  B == content[q.other]
      IN  /\ q.kind = "isSubsetOf" => IF Yes(p) THEN K \subseteq I ELSE ~(H \subseteq L)
          /\ q.kind = "isSupersetOf" => IF Yes(p) THEN L \subseteq H ELSE ~(I \subseteq K)
          /\ q.kind = "isDisjoint" => IF Yes(p) THEN K \cap L = {} ELSE H \cap I # {}
          /\ q.kind \in {"equals", "isProperSubsetOf"} /\ Yes(p) => K \subseteq I
          /\ q.kind = "isProperSupersetOf" /\ Yes(p) => L \subseteq H
          /\ alone[p] =>
               /\ q.kind = "equals" => Yes(p) = (A = B)
               /\ q.kind = "isProperSubsetOf" => Yes(p) = (A \subseteq B /\ A # B)
               /\ q.kind = "isProperSupersetOf" => Yes(p) = (B \subseteq A /\ A # B)

(***************************************************************************)
(* An iteration, a copy or a marshaller tells of every element that stayed *)
(* and of none that was not there; a navigation query of a skip set        *)
(* returns an element that was there, and none that stayed beats it.       *)
(***************************************************************************)
WalksAreJustified ==
    \A p \in Procs :
      LET q == call[p] IN
      /\ Answered(p, {"scan"}) => kept[p][q.on] \subseteq out[p] /\ out[p] \subseteq had[p][q.on]
      /\ Answered(p, Navigations) /\ ~Locked(q.on) =>
           LET fits == {k \in kept[p][q.on] : Qualifies(q.kind, q.elem, k)}
           IN  /\ Yes(p) => fits = {}
               /\ \A e \in out[p] :
                    /\ e \in had[p][q.on] /\ Qualifies(q.kind, q.elem, e)
                    /\ \A k \in fits : IF q.kind \in Upward THEN e <= k ELSE e >= k

(***************************************************************************)
(* Clear leaves no element, RemoveFunc none its predicate accepts, that    *)
(* was there all along; it returns early only when the set was empty or    *)
(* somebody else's update made its size unreliable.                        *)
(***************************************************************************)
BulkIsThorough ==
    \A p \in Procs :
      LET S == kept[p][call[p].on] IN
      /\ Answered(p, {"clear"}) => S = {}
      /\ Answered(p, {"removeFunc"}) =>
           IF out[p] = {0} THEN S = {} \/ ~alone[p] ELSE S \cap call[p].elems = {}

(* Everything made of several operations answers by what the sets held.    *)
AnswersAreJustified ==
    /\ PopsAreJustified /\ AlgebraIsJustified /\ RelationsAreJustified
    /\ WalksAreJustified /\ BulkIsThorough

(***************************************************************************)
(* No call hangs.  The read lock is never held while the other set, which  *)
(* may be the same one, is asked, nor while user code runs: a writer that  *)
(* has announced itself would block both for ever.                         *)
(***************************************************************************)
EveryCallReturns == \A p \in Procs : pc[p] # "idle" ~> pc[p] = "idle"
=============================================================================
