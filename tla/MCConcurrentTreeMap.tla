------------------------ MODULE MCConcurrentTreeMap ------------------------
(* Two goroutines on a map of three keys; c1's calls are made by    *)
(* the callbacks of g1.                                                    *)
EXTENDS ConcurrentTreeMap

CONSTANTS g1, g2, c1

MCProcs == {g1, g2, c1}
MCCaller == [p \in MCProcs |-> IF p = c1 THEN g1 ELSE none]
MCKeys == 1 .. 3
MCValues == 1 .. 2
MCStart == [k \in MCKeys |-> IF k = 3 THEN none ELSE k]

\* Callbacks: count up and drop the mapping at 2; the other value.
Bump == [v \in MCValues \cup {none} |-> CASE v = none -> 1 [] v = 1 -> 2 [] OTHER -> none]
Flip == [v \in MCValues \cup {none} |-> CASE v = 1 -> 2 [] OTHER -> 1]

Q(kind, key, val, old) == Request(kind, key, val, old, Flip, {}, <<>>)
Calls(kind, key, fn) == Request(kind, key, 2, 1, fn, {}, <<>>)

Storing(puts) == Request("putSeq", 1, 1, 1, Flip, {}, puts)

\* Calls with and without callbacks on key 1, which is there, and 3, which is not.
Updates == {Calls("compute", 1, Bump), Calls("compute", 3, Bump), Calls("computeIfAbsent", 3, Flip),
            Calls("computeIfPresent", 1, Bump), Calls("merge", 3, Bump), Calls("replaceAll", 1, Flip),
            Q("removeIf", 1, 1, 1), Q("replaceIf", 1, 2, 1), Q("putIfAbsent", 3, 2, 1),
            Q("put", 1, 2, 1), Q("remove", 1, 1, 1), Q("replace", 3, 2, 1), Q("clear", 1, 1, 1),
            Q("popFirst", 1, 1, 1), Q("popLast", 1, 1, 1), Storing(<<<<3, 1>>, <<2, 2>>, <<3, 2>>>>),
            Request("removeAll", 1, 1, 1, Flip, {1, 3}, <<>>),
            Request("replaceEntries", 1, 1, 1, Flip, {}, <<<<2, 1>>, <<2, 2>>>>)}
Queries == {Q(kind, 2, 1, 1) : kind \in Readers \ {"scan"}}
Bulk == {Q("removeFunc", 1, 1, 1), Q("putAll", 1, 1, 1), Q("scan", 1, 1, 1)}

Race(x, y, z) == [p \in MCProcs |-> CASE p = g1 -> {x} [] p = g2 -> y [] OTHER -> z]

\* Every call against every update, and against two of them in a row; bulk
\* calls and iterations whose callbacks update the map while others do.
MCMenus ==
    {Race(x, {y}, {}) : x \in Updates \cup Queries \cup Bulk, y \in Updates}
    \cup {Race(x, {y, Q("clear", 1, 1, 1)}, {}) : x \in Updates \cup Bulk, y \in {Q("put", 1, 2, 1), Q("scan", 1, 1, 1)}}
    \cup {Race(x, {y}, {z, Q("first", 1, 1, 1)}) : x \in Bulk, y \in Updates, z \in {Q("put", 1, 2, 1), Q("popLast", 1, 1, 1)}}
=============================================================================
