------------------------------- MODULE MapOps -------------------------------
(***************************************************************************)
(* What one call of the sorted map does to its content: treeMap            *)
(* (treemap.go) on top of tidwall's B-tree, which is external and taken to *)
(* be the sorted dictionary its use here assumes.  The atomic calls of the *)
(* concurrent maps are specified by the same operators.                    *)
(*                                                                         *)
(* A content maps every key to its value or to none (absent).  A returned  *)
(* (v, true) is <<v>>, a bare true or count <<n>>, (zero, false) <<>>.     *)
(***************************************************************************)
EXTENDS Integers, Sequences, FiniteSets

CONSTANT none    \* no value

Seqs == INSTANCE SequencesExt

\* A call: kind, key, value, the value an equality compares with, the
\* remapping function, the keys to remove and the entries to put.
Request(kind, key, val, old, fn, keys, puts) ==
    [kind |-> kind, key |-> key, val |-> val, old |-> old, fn |-> fn,
     keys |-> keys, puts |-> puts]

Does(s, ret) == [s |-> s, ret |-> ret]
Opt(v) == IF v = none THEN <<>> ELSE <<v>>
Stored(s) == {k \in DOMAIN s : s[k] # none}
KeyOpt(S, IsBest(_, _)) == {k \in S : \A j \in S : IsBest(k, j)}

\* The stored keys from the smallest to the largest, and their entries.
KeySeq(s) ==
    CHOOSE q \in [1 .. Cardinality(Stored(s)) -> Stored(s)] :
        \A i, j \in DOMAIN q : i < j => q[i] < q[j]
Entries(s) == [i \in DOMAIN KeySeq(s) |-> <<KeySeq(s)[i], s[KeySeq(s)[i]]>>]

\* The entry of the only key in S.
EntryOf(s, S) == IF S = {} THEN <<>> ELSE LET k == CHOOSE k \in S : TRUE IN <<k, s[k]>>
Smallest(S) == KeyOpt(S, <=)
Largest(S) == KeyOpt(S, >=)

Put(q, s) == Does([s EXCEPT ![q.key] = q.val], Opt(s[q.key]))

PutIfAbsent(q, s) ==
    IF s[q.key] = none THEN Does([s EXCEPT ![q.key] = q.val], <<q.val, 1>>)
                       ELSE Does(s, <<s[q.key], 0>>)

\* Entries in order: a later one for the same key wins.
Touched(q) == {q.puts[i][1] : i \in DOMAIN q.puts}
Final(q, k) ==
    q.puts[CHOOSE i \in DOMAIN q.puts :
             /\ q.puts[i][1] = k
             /\ \A j \in DOMAIN q.puts : q.puts[j][1] = k => j <= i][2]

PutSeq(q, s) ==
    Does([k \in DOMAIN s |-> IF k \in Touched(q) THEN Final(q, k) ELSE s[k]],
         <<Cardinality(Touched(q))>>)

\* UnmarshalJSON, UnmarshalJSONFrom and GobDecode, once the input is decoded.
ReplaceEntries(q, s) ==
    Does([k \in DOMAIN s |-> IF k \in Touched(q) THEN Final(q, k) ELSE none], <<>>)

Get(q, s) == Does(s, Opt(s[q.key]))

Remove(q, s) == Does([s EXCEPT ![q.key] = none], Opt(s[q.key]))

RemoveIf(q, s) ==
    IF s[q.key] # none /\ s[q.key] = q.old THEN Does([s EXCEPT ![q.key] = none], <<1>>)
                                           ELSE Does(s, <<>>)

RemoveAll(q, s) ==
    Does([k \in DOMAIN s |-> IF k \in q.keys THEN none ELSE s[k]],
         <<Cardinality(Stored(s) \cap q.keys)>>)

\* fn[none] is the remapping of an absent key; none is keep = false.
Compute(q, s) ==
    Does([s EXCEPT ![q.key] = q.fn[s[q.key]]], Opt(q.fn[s[q.key]]))

\* ComputeIfAbsent, GetOrCompute: the value, and whether it was computed.
ComputeIfAbsent(q, s) ==
    IF s[q.key] = none THEN Does([s EXCEPT ![q.key] = q.fn[none]], <<q.fn[none], 1>>)
                       ELSE Does(s, <<s[q.key], 0>>)

ComputeIfPresent(q, s) ==
    IF s[q.key] = none THEN Does(s, <<>>) ELSE Compute(q, s)

Merge(q, s) ==
    IF s[q.key] = none THEN Does([s EXCEPT ![q.key] = q.val], <<q.val>>) ELSE Compute(q, s)

Replace(q, s) ==
    IF s[q.key] = none THEN Does(s, <<>>) ELSE Put(q, s)

ReplaceIf(q, s) ==
    IF s[q.key] # none /\ s[q.key] = q.old THEN Does([s EXCEPT ![q.key] = q.val], <<1>>)
                                           ELSE Does(s, <<>>)

ReplaceAll(q, s) ==
    Does([k \in DOMAIN s |-> IF s[k] = none THEN none ELSE q.fn[s[k]]], <<>>)

Clear(q, s) == Does([k \in DOMAIN s |-> none], <<>>)

PopFirst(q, s) ==
    LET S == Smallest(Stored(s))
    IN  Does([k \in DOMAIN s |-> IF k \in S THEN none ELSE s[k]], EntryOf(s, S))

PopLast(q, s) ==
    LET S == Largest(Stored(s))
    IN  Does([k \in DOMAIN s |-> IF k \in S THEN none ELSE s[k]], EntryOf(s, S))

First(q, s) == Does(s, EntryOf(s, Smallest(Stored(s))))
LastOf(q, s) == Does(s, EntryOf(s, Largest(Stored(s))))
Floor(q, s) == Does(s, EntryOf(s, Largest({k \in Stored(s) : k <= q.key})))
Ceiling(q, s) == Does(s, EntryOf(s, Smallest({k \in Stored(s) : k >= q.key})))
Lower(q, s) == Does(s, EntryOf(s, Largest({k \in Stored(s) : k < q.key})))
Higher(q, s) == Does(s, EntryOf(s, Smallest({k \in Stored(s) : k > q.key})))

\* Mutant of Search: the last candidate is not looked at.
SearchShort(keys, key) ==
    LET n == Len(keys)
        f[r \in (0 .. n) \X (-1 .. n - 1)] ==
          LET lo == r[1]
              hi == r[2]
              mid == (lo + hi) \div 2
          IN  IF lo >= hi THEN <<>>
              ELSE IF keys[mid + 1] = key THEN <<mid>>
              ELSE IF keys[mid + 1] < key THEN f[<<mid + 1, hi>>] ELSE f[<<lo, mid - 1>>]
    IN  f[<<0, n - 1>>]

\* Binary search in the sorted keys between the indices lo and hi.
Search(keys, key) ==
    LET n == Len(keys)
        f[r \in (0 .. n) \X (-1 .. n - 1)] ==
          LET lo == r[1]
              hi == r[2]
              mid == (lo + hi) \div 2
          IN  IF lo > hi THEN <<>>
              ELSE IF keys[mid + 1] = key THEN <<mid>>
              ELSE IF keys[mid + 1] < key THEN f[<<mid + 1, hi>>] ELSE f[<<lo, mid - 1>>]
    IN  f[<<0, n - 1>>]

Rank(q, s) == Does(s, Search(KeySeq(s), q.key))

\* Keys, Values, Entries, the iterations, the ranges and the clones: each
\* returns part of this.
Scan(q, s) == Does(s, Entries(s))

Outcome(q, s) ==
    CASE q.kind = "put" -> Put(q, s)
      [] q.kind = "putIfAbsent" -> PutIfAbsent(q, s)
      [] q.kind = "putSeq" -> PutSeq(q, s)
      [] q.kind = "replaceEntries" -> ReplaceEntries(q, s)
      [] q.kind = "get" -> Get(q, s)
      [] q.kind = "remove" -> Remove(q, s)
      [] q.kind = "removeIf" -> RemoveIf(q, s)
      [] q.kind = "removeAll" -> RemoveAll(q, s)
      [] q.kind = "compute" -> Compute(q, s)
      [] q.kind = "computeIfAbsent" -> ComputeIfAbsent(q, s)
      [] q.kind = "computeIfPresent" -> ComputeIfPresent(q, s)
      [] q.kind = "merge" -> Merge(q, s)
      [] q.kind = "replace" -> Replace(q, s)
      [] q.kind = "replaceIf" -> ReplaceIf(q, s)
      [] q.kind = "replaceAll" -> ReplaceAll(q, s)
      [] q.kind = "clear" -> Clear(q, s)
      [] q.kind = "popFirst" -> PopFirst(q, s)
      [] q.kind = "popLast" -> PopLast(q, s)
      [] q.kind = "first" -> First(q, s)
      [] q.kind = "last" -> LastOf(q, s)
      [] q.kind = "floor" -> Floor(q, s)
      [] q.kind = "ceiling" -> Ceiling(q, s)
      [] q.kind = "lower" -> Lower(q, s)
      [] q.kind = "higher" -> Higher(q, s)
      [] q.kind = "rank" -> Rank(q, s)
      [] q.kind = "scan" -> Scan(q, s)
=============================================================================
