------------------------------- MODULE ListOps -------------------------------
(***************************************************************************)
(* What one call of the List interface computes from the slice it works    *)
(* on: the slice it leaves and what it returns.  COWList and SyncList      *)
(* share these bodies; they differ in how they get at the slice, which is  *)
(* the business of the modules CowList and SyncList.                       *)
(*                                                                         *)
(* Indices count from 0, as in Go; s[i + 1] is l[i].  A returned (v, true) *)
(* is <<v>>, a bare true or count is <<n>>, (zero, false) and false <<>>.  *)
(***************************************************************************)
EXTENDS Integers, Sequences, FiniteSets, TLC

Seqs == INSTANCE SequencesExt

\* A call: kind, the index arguments, the elements its predicate or equality
\* accepts, and the elements it brings.
Request(kind, idx, to, want, elems) ==
    [kind |-> kind, idx |-> idx, to |-> to, want |-> want, elems |-> elems]

Does(s, ret) == [s |-> s, ret |-> ret]
Splice(s, from, to, elems) == SubSeq(s, 1, from) \o elems \o SubSeq(s, to + 1, Len(s))
Hits(q, s) == {i \in 0 .. Len(s) - 1 : s[i + 1] \in q.want}
Least(S) == CHOOSE i \in S : \A j \in S : i <= j
Greatest(S) == CHOOSE i \in S : \A j \in S : j <= i

Clear(q, s) == Does(<<>>, <<>>)

Set(q, s) ==
    IF q.idx \in 0 .. Len(s) - 1
    THEN Does(Splice(s, q.idx, q.idx + 1, q.elems), <<s[q.idx + 1]>>)
    ELSE Does(s, <<>>)

AddAll(q, s) == Does(s \o q.elems, <<>>)

InsertAll(q, s) ==
    IF q.elems = <<>> THEN Does(s, <<1>>)
    ELSE IF q.idx \in 0 .. Len(s) THEN Does(Splice(s, q.idx, q.idx, q.elems), <<1>>)
    ELSE Does(s, <<>>)

RemoveAt(q, s) ==
    IF q.idx \in 0 .. Len(s) - 1
    THEN Does(Splice(s, q.idx, q.idx + 1, <<>>), <<s[q.idx + 1]>>)
    ELSE Does(s, <<>>)

Remove(q, s) ==
    IF Hits(q, s) = {} THEN Does(s, <<>>)
    ELSE LET i == Least(Hits(q, s)) IN Does(Splice(s, i, i + 1, <<>>), <<1>>)

RemoveLast(q, s) ==
    IF s = <<>> THEN Does(s, <<>>) ELSE Does(Seqs!Front(s), <<Seqs!Last(s)>>)

\* The elements of s that are not wanted, in their order: f lists where they are.
Stays(q, s) == {i \in DOMAIN s : s[i] \notin q.want}
Rising(f) == \A i, j \in DOMAIN f : i < j => f[i] < f[j]
Kept(q, s) ==
    LET n == Cardinality(Stays(q, s))
    IN  {[i \in 1 .. n |-> s[f[i]]] : f \in {g \in [1 .. n -> Stays(q, s)] : Rising(g)}}

RemoveFunc(q, s) == {Does(t, <<Len(s) - Len(t)>>) : t \in Kept(q, s)}

\* All elements of s, in any order.
Onto(S) == {f \in [S -> S] : \A i \in S : \E j \in S : f[j] = i}
Reorderings(s) == {[i \in DOMAIN s |-> s[f[i]]] : f \in Onto(DOMAIN s)}

Sort(q, s) ==
    {Does(t, <<>>) : t \in {u \in Reorderings(s) :
                             \A i, j \in DOMAIN u : i < j => u[i] <= u[j]}}

\* UnmarshalJSON, UnmarshalJSONFrom and GobDecode, once the input is decoded.
Replace(q, s) == Does(q.elems, <<>>)

Get(q, s) ==
    Does(s, IF q.idx \in 0 .. Len(s) - 1 THEN <<s[q.idx + 1]>> ELSE <<>>)

LastElement(q, s) == Does(s, IF s = <<>> THEN <<>> ELSE <<Seqs!Last(s)>>)

IndexOf(q, s) == Does(s, IF Hits(q, s) = {} THEN <<>> ELSE <<Least(Hits(q, s))>>)

LastIndexOf(q, s) == Does(s, IF Hits(q, s) = {} THEN <<>> ELSE <<Greatest(Hits(q, s))>>)

SubList(q, s) ==
    Does(s, IF q.idx < 0 \/ q.to > Len(s) \/ q.idx > q.to THEN <<>>
            ELSE SubSeq(s, q.idx + 1, q.to))

\* ToSlice, Seq, ForEach, Clone, the marshallers; Reversed is its mirror image.
ToSlice(q, s) == Does(s, s)

Outcome(q, s) ==
    CASE q.kind = "clear" -> Clear(q, s)
      [] q.kind = "set" -> Set(q, s)
      [] q.kind = "addAll" -> AddAll(q, s)
      [] q.kind = "insertAll" -> InsertAll(q, s)
      [] q.kind = "removeAt" -> RemoveAt(q, s)
      [] q.kind = "remove" -> Remove(q, s)
      [] q.kind = "removeLast" -> RemoveLast(q, s)
      [] q.kind = "replace" -> Replace(q, s)
      [] q.kind = "get" -> Get(q, s)
      [] q.kind = "last" -> LastElement(q, s)
      [] q.kind = "indexOf" -> IndexOf(q, s)
      [] q.kind = "lastIndexOf" -> LastIndexOf(q, s)
      [] q.kind = "subList" -> SubList(q, s)
      [] OTHER -> ToSlice(q, s)

\* RemoveFunc and Sort by what their result has to be; there is one such.
Outcomes(q, s) ==
    CASE q.kind = "removeFunc" -> RemoveFunc(q, s)
      [] q.kind = "sort" -> Sort(q, s)
      [] OTHER -> {Outcome(q, s)}
=============================================================================
