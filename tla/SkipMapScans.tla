---------------------------- MODULE SkipMapScans ----------------------------
(***************************************************************************)
(* What the walks of ConcurrentSkipMap answer, which is not atomic, judged *)
(* by what the map held while they ran.  History variables, since the call *)
(* of p began:                                                             *)
(*   kept[p], had[p]   entries that were there at every, at some moment    *)
(*   stayed[p]         keys that were there at every moment                *)
(***************************************************************************)
EXTENDS ConcurrentSkipMap

VARIABLES kept, had, stayed

EntriesIn(s) == {<<k, s[k]>> : k \in Stored(s)}

ScanInit ==
    /\ Init
    /\ kept = [p \in Procs |-> {}]
    /\ had = [p \in Procs |-> {}]
    /\ stayed = [p \in Procs |-> {}]

\* The history of p begins with its call and ends when it returns.
Since(p, fresh, joined) ==
    IF pc'[p] = "idle" THEN {} ELSE IF pc[p] = "idle" THEN fresh ELSE joined

ScanNext ==
    /\ Next
    /\ kept' = [p \in Procs |-> Since(p, EntriesIn(m'), kept[p] \cap EntriesIn(m'))]
    /\ had' = [p \in Procs |-> Since(p, EntriesIn(m'), had[p] \cup EntriesIn(m'))]
    /\ stayed' = [p \in Procs |-> Since(p, Stored(m'), stayed[p] \cap Stored(m'))]
ScanSpec == ScanInit /\ [][ScanNext]_<<vars, kept, had, stayed>>
FairScanSpec == ScanSpec /\ Fairness

Answered(p) == pc[p] = "done" /\ ret[p] # <<none>> /\ call[p] = sub[p]
HadKeys(p) == {e[1] : e \in had[p]}

(***************************************************************************)
(* Navigation "answers by scanning" (README.md:583): the entry it returns  *)
(* was there during the call, and no key that stayed would have been a     *)
(* better answer; "none" only if no key that would do stayed.  A rank      *)
(* counts every smaller key that stayed, and none that never was there.    *)
(***************************************************************************)
QueriesAreJustified ==
    \A p \in Procs : Answered(p) =>
      LET q == call[p]  r == ret[p]
          fits == {k \in stayed[p] : Qualifies(q.kind, q.key, k)}
      IN  /\ q.kind \in Navigations =>
               IF r = <<>> THEN fits = {}
               ELSE /\ r \in had[p] /\ Qualifies(q.kind, q.key, r[1])
                    /\ \A k \in fits : IF q.kind \in Upward THEN r[1] <= k ELSE r[1] >= k
          /\ q.kind = "containsValue" =>
               IF r = <<>> THEN \A e \in kept[p] : e[2] # q.old ELSE \E e \in had[p] : e[2] = q.old
          /\ q.kind = "rank" =>
               IF r = <<>> THEN q.key \notin stayed[p]
               ELSE /\ Cardinality({k \in stayed[p] : k < q.key}) <= r[1]
                    /\ r[1] <= Cardinality({k \in HadKeys(p) : k < q.key})

(***************************************************************************)
(* PopFirst and PopLast "may retry under contention": none only if no key  *)
(* stayed, and never an entry while a smaller (larger) key stayed.         *)
(***************************************************************************)
PopsAreJustified ==
    \A p \in Procs : pc[p] = "done" /\ call[p].kind \in Popping =>
      IF ret[p] = <<>> THEN stayed[p] = {}
      ELSE \A k \in stayed[p] : IF call[p].kind = "popFirst" THEN ret[p][1] <= k ELSE ret[p][1] >= k

(***************************************************************************)
(* Iterations, copies and marshallers tell of every entry that stayed, in  *)
(* ascending order, none twice, and of none that was not there.            *)
(***************************************************************************)
ScanIsComplete ==
    \A p \in Procs : Answered(p) /\ call[p].kind = "scan" =>
      LET s == seen[p]  told == {s[i] : i \in DOMAIN s} IN
      /\ kept[p] \subseteq told /\ told \subseteq had[p]
      /\ \A i, j \in DOMAIN s : i < j => s[i][1] < s[j][1]

(***************************************************************************)
(* Clear leaves no key, RemoveFunc no entry its predicate accepts, that    *)
(* was there all along (elements "inserted while Clear runs may survive",  *)
(* lines 46-48); ReplaceAll leaves no such entry as it was.                *)
(***************************************************************************)
BulkIsThorough ==
    \A p \in Procs :
      /\ Answered(p) /\ call[p].kind = "clear" => stayed[p] = {}
      /\ Answered(p) /\ call[p].kind = "replaceAll" =>
           \A e \in kept[p] : call[p].fn[e[2]] = e[2]
      /\ pc[p] = "next" /\ plan[p] = <<>> /\ call[p].kind = "removeFunc" =>
           \A e \in kept[p] : e[2] # call[p].old

(* Everything that walks answers by what the map held meanwhile.           *)
AnswersAreJustified ==
    QueriesAreJustified /\ PopsAreJustified /\ ScanIsComplete /\ BulkIsThorough
=============================================================================
