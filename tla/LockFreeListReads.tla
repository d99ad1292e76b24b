-------------------------- MODULE LockFreeListReads --------------------------
(***************************************************************************)
(* What the calls of LockFreeList answer, judged against what the list     *)
(* held while they ran.  Two history variables watch every step:           *)
(*   kept[p]    elements in the list at every moment since p's call began, *)
(*              and accepted by its predicate                              *)
(*   stayed[p]  nodes that were live at every moment since then, whatever  *)
(*              a Set made of their element                                *)
(***************************************************************************)
EXTENDS LockFreeList

VARIABLES kept, stayed

LiveNodes == {n \in Chain : state[n] # nil}
Accepted(p) == {state[n] : n \in {m \in LiveNodes : value[state[m]] \in call[p].want}}

WatchedInit ==
    /\ Init
    /\ kept = [p \in Procs |-> {}]
    /\ stayed = [p \in Procs |-> {}]

Watch(p) ==
    LET begins == pc[p] \in Finished /\ todo'[p] # todo[p]
    IN  /\ kept' = [q \in Procs |->
              IF q = p /\ begins THEN Accepted(p)'
              ELSE IF call[q] = nil THEN {} ELSE kept[q] \cap Accepted(q)']
        /\ stayed' = [q \in Procs |->
              IF q = p /\ begins THEN LiveNodes' ELSE stayed[q] \cap LiveNodes']

WatchedNext ==
    \/ \E p \in Procs : Step(p) /\ Watch(p)
    \/ Terminated /\ UNCHANGED <<kept, stayed>>
WatchedSpec == WatchedInit /\ [][WatchedNext]_<<vars, kept, stayed>>

FairWatchedSpec == WatchedSpec /\ Fairness

-----------------------------------------------------------------------------
(* A search or a removal that answers "none" passed no element that was    *)
(* there all along; an index out of range was out of range at some moment; *)
(* a RemoveFunc that is over left nothing it should have removed.          *)
NotFoundIsJustified ==
    \A p \in Procs :
      LET q == call[p] IN
      /\ pc[p] = "fail" /\ q.kind \in {"find", "remove", "removeLast"} => kept[p] = {}
      /\ pc[p] = "fail" /\ q.kind \in Indexed /\ q.idx >= 0 =>
           Cardinality(stayed[p]) < IF q.kind = "insert" THEN q.idx ELSE q.idx + 1
      /\ pc[p] = "ok" /\ q.kind = "removeFunc" => kept[p] = {}

(* ToSlice, Size, Last and LastIndexOf miss no node that was live all      *)
(* along, also when another goroutine clears, inserts before the walker or *)
(* deletes the node under it, and report no node twice; nor does the       *)
(* snapshot Sort takes before it clears the list.                          *)
ScanIsComplete ==
    \A p \in Procs :
      (pc[p] = "ok" /\ call[p].kind = "scan") \/ (pc[p] = "clear" /\ call[p].kind = "sort") =>
      /\ stayed[p] \subseteq {seen[p][i].node : i \in DOMAIN seen[p]}
      /\ \A i, j \in DOMAIN seen[p] : seen[p][i].node = seen[p][j].node => i = j

(* Both: no walk overlooks or repeats what stayed.                         *)
AnswersAreJustified == NotFoundIsJustified /\ ScanIsComplete

-----------------------------------------------------------------------------
(***************************************************************************)
(* The inductive invariant behind it: what a walk has still ahead.         *)
(***************************************************************************)
\* R is the order in which published nodes follow each other along their next
\* pointers; the attached ones also follow the head.
Orders(R) ==
    /\ R \subseteq published \X published
    /\ \A a \in published : <<a, a>> \notin R
    /\ \A a, b, c \in published : <<a, b>> \in R /\ <<b, c>> \in R => <<a, c>> \in R
    /\ \A a \in published : next[a] \in Cells => <<a, next[a]>> \in R
    /\ \A a, n \in published :
         <<a, n>> \in R => next[a] \in Cells /\ (n = next[a] \/ <<next[a], n>> \in R)
    /\ \A n \in Chain : next[head] \in Cells /\ (n = next[head] \/ <<next[head], n>> \in R)

\* The nodes that stayed and that p has walked past.
Passed(p, R) ==
    {n \in stayed[p] : at[p] # head /\ <<at[p], n>> \notin R /\ (pc[p] = "walk" \/ n # at[p])}
SeenNodes(p) == {seen[p][i].node : i \in DOMAIN seen[p]}
NoneTwice(p) == \A i, j \in DOMAIN seen[p] : seen[p][i].node = seen[p][j].node => i = j

Walks(p, kinds) == pc[p] \in {"walk", "visit"} /\ call[p].kind \in kinds /\ ~Appending(p)

\* What stayed is still there, and holds what was kept.
Watched(p) ==
    /\ stayed[p] \subseteq LiveNodes
    /\ kept[p] = {} \/ kept[p] \subseteq Accepted(p)
    /\ \A n \in Chain : state[n] \in kept[p] => n \in stayed[p]

\* Where calls with an index, and calls that append, walk.
Route(p) ==
    /\ pc[p] # "idle" => call[p] \in Calls
    /\ pc[p] \notin Finished /\ call[p].kind \in Indexed => call[p].idx >= 0
    /\ Walks(p, {"insert"}) => call[p].idx > 0
    /\ pc[p] = "visit" => ~Appending(p)

\* What the walk of each kind of call has made of the nodes it passed.
Progress(p, R) ==
    LET k == call[p].kind
    IN  /\ pc[p] \in {"walk", "visit", "take"} /\ k \in {"find", "remove", "removeFunc"} =>
             \A n \in Passed(p, R) : state[n] \notin kept[p]
        /\ pc[p] = "take" /\ k \in {"remove", "removeFunc"} /\ state[at[p]] \in kept[p] =>
             state[at[p]] = exp[p]
        /\ Walks(p, {"removeLast"}) /\ last[p] = nil => Passed(p, R) = {}
        /\ Walks(p, Indexed) => /\ Cardinality(Passed(p, R)) <= cnt[p]
                                /\ cnt[p] <= IF k = "insert" THEN call[p].idx - 1 ELSE call[p].idx
        /\ Walks(p, {"scan", "sort"}) =>
             /\ Passed(p, R) \subseteq SeenNodes(p)
             /\ NoneTwice(p)
             /\ \A n \in SeenNodes(p) : (pc[p] = "walk" /\ n = at[p]) \/ <<n, at[p]>> \in R

\* What an answered call, or a Sort with its snapshot, has to show.
Answered(p) ==
    LET k == call[p].kind
    IN  /\ pc[p] = "fail" /\ k \in {"find", "remove", "removeLast"} => kept[p] = {}
        /\ pc[p] = "fail" /\ k \in Indexed /\ call[p].idx >= 0 =>
             Cardinality(stayed[p]) < IF k = "insert" THEN call[p].idx ELSE call[p].idx + 1
        /\ pc[p] = "ok" /\ k = "removeFunc" => kept[p] = {}
        /\ (pc[p] = "ok" /\ k = "scan") \/ (pc[p] \in {"clear", "cut"} /\ k = "sort") =>
             stayed[p] \subseteq SeenNodes(p) /\ NoneTwice(p)

WInv ==
    /\ \A p \in Procs : Watched(p) /\ Route(p) /\ Answered(p)
    /\ \E R \in SUBSET (Cells \X Cells) : Orders(R) /\ \A p \in Procs : Progress(p, R)
=============================================================================
