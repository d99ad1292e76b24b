------------------------ MODULE MCConcurrentHashMap ------------------------
(* Two goroutines on a map of three keys in two buckets; c1's calls are    *)
(* made by the callbacks of g1.                                            *)
EXTENDS ConcurrentHashMap

CONSTANTS g1, g2, c1

MCProcs == {g1, g2, c1}
MCCaller == [p \in MCProcs |-> IF p = c1 THEN g1 ELSE none]
MCKeys == 1 .. 3
MCBucket == <<1, 2, 1>>
MCValues == 0 .. 2
MCStart == [k \in MCKeys |-> IF k = 3 THEN none ELSE k]

\* Callbacks: count up and drop the mapping at 2; the other value.
Bump == [v \in MCValues \cup {none} |-> CASE v = none -> 1 [] v = 2 -> none [] OTHER -> v + 1]
Flip == [v \in MCValues \cup {none} |-> CASE v = 1 -> 2 [] OTHER -> 1]

Q(kind, key, val, old) == Request(kind, key, val, old, Flip, {}, <<>>)
F(kind, key, fn) == Request(kind, key, 2, 1, fn, {}, <<>>)

Storing(puts) == Request("putSeq", 1, 1, 1, Flip, {}, puts)
Removing(K) == Request("removeAll", 1, 1, 1, Flip, K, <<>>)
Refilling == Request("replaceEntries", 1, 1, 1, Flip, {}, <<<<2, 1>>>>)

\* Calls with and without callbacks on key 1, which is there, and 3, which is not.
Updates == {F("compute", 1, Bump), F("compute", 3, Bump), F("computeIfAbsent", 3, Flip),
            F("computeIfPresent", 3, Bump), F("merge", 1, Bump), Q("removeIf", 1, 1, 2),
            Q("replaceIf", 3, 2, 1), Q("putIfAbsent", 3, 2, 1), Q("put", 3, 1, 1),
            Q("remove", 1, 1, 1), Q("remove", 2, 1, 1), Q("replace", 1, 1, 1), Q("clear", 1, 1, 1)}
Bulk == {Q("scan", 1, 1, 1), Q("removeFunc", 1, 1, 1), Q("replaceAll", 1, 1, 1),
         Q("containsValue", 1, 1, 2), Storing(<<<<2, 1>>, <<3, 2>>>>), Removing({1, 2}), Refilling}

Race(x, y, z) == [p \in MCProcs |-> CASE p = g1 -> {x} [] p = g2 -> y [] OTHER -> z]

\* Every call against every update, with another call after it; bulk calls
\* whose callbacks update the map while others do.
MCMenus ==
    {Race(x, {y}, {}) : x \in Updates \cup Bulk \cup {Q("get", 1, 1, 1)}, y \in Updates \cup Bulk}
    \cup {Race(x, {y, F("compute", 1, Bump)}, {}) : x \in Updates, y \in Updates}
    \cup {Race(x, {y, z}, {}) : x \in Bulk, y \in {Q("put", 3, 1, 1)}, z \in {Q("put", 2, 0, 1), Q("remove", 1, 1, 1)}}
    \cup {Race(x, {y}, {z}) : x \in Bulk, y \in Updates, z \in {Q("put", 3, 2, 1), Q("remove", 2, 1, 1)}}

MarshalMenus == {Race(Q("scan", 1, 1, 1), {Q("put", 3, 1, 1), Q("remove", 2, 1, 1)}, {})}
=============================================================================
