--------------------------- MODULE MCSkipMapScans ---------------------------
(* Two goroutines on a map of three keys; c1's calls are made by the       *)
(* callbacks of g1.                                                        *)
EXTENDS SkipMapScans

CONSTANTS g1, g2, c1

MCProcs == {g1, g2, c1}
MCCaller == [p \in MCProcs |-> IF p = c1 THEN g1 ELSE none]
MCKeys == 1 .. 3
MCValues == 1 .. 2
MCStart == [k \in MCKeys |-> IF k = 3 THEN none ELSE k]

\* Functions: count up and drop the mapping at 2; the other value.
Bump == [v \in MCValues \cup {none} |-> CASE v = none -> 1 [] v = 1 -> 2 [] OTHER -> none]
Flip == [v \in MCValues \cup {none} |-> CASE v = 1 -> 2 [] OTHER -> 1]

Q(kind, key) == Request(kind, key, 2, 1, Flip, {}, <<>>)
Bumps(kind, key) == Request(kind, key, 2, 1, Bump, {}, <<>>)

\* On key 1, which is there with the value 1, and on 3, which is not.
Conditional == {Bumps("compute", 1), Bumps("compute", 3), Bumps("computeIfPresent", 1),
                Bumps("merge", 1), Q("merge", 3), Q("replace", 1), Q("replaceIf", 1),
                Request("replaceIf", 1, 2, 2, Flip, {}, <<>>),
                Q("removeIf", 1), Q("computeIfAbsent", 1), Q("computeIfAbsent", 3), Q("put", 1), Q("put", 3)}
Atomics == {Q("remove", 1), Q("remove", 2), Q("putIfAbsent", 3), Q("get", 1)}
Pops == {Q("popFirst", 1), Q("popLast", 1)}
Bulk == {Q("removeFunc", 1), Q("clear", 1), Q("replaceAll", 1),
         Request("replaceEntries", 1, 1, 1, Flip, {}, <<<<3, 1>>, <<3, 2>>>>),
         Request("putSeq", 1, 1, 1, Flip, {}, <<<<3, 1>>, <<1, 2>>>>),
         Request("removeAll", 1, 1, 1, Flip, {1, 3}, <<>>)}
Queries == {Q(nav, 2) : nav \in Navigations} \cup {Q("rank", 2), Q("containsValue", 1), Q("scan", 1)}

Race(x, y, z) == [p \in MCProcs |-> CASE p = g1 -> {x} [] p = g2 -> y [] OTHER -> z]

\* Every call against every update; pops and queries against two updates in a
\* row; methods whose user code writes to the map while others do.
MCMenus ==
    {Race(x, {y}, {}) : x \in Conditional \cup Atomics \cup Pops \cup Bulk \cup Queries,
                        y \in (Conditional \cup Atomics \cup Pops \cup Bulk) \ {Q("get", 1)}}
    \cup {Race(x, {Q("put", 3), y}, {}) : x \in Pops \cup Queries, y \in Pops \cup {Q("remove", 1), Q("remove", 2)}}
    \cup {Race(x, {y}, {z}) : x \in {Q("computeIfAbsent", 3), Q("replaceIf", 1), Q("removeFunc", 1), Q("replaceAll", 1), Q("scan", 1)},
                              y \in Atomics \cup {Q("put", 3)}, z \in {Q("put", 3), Q("popFirst", 1)}}
=============================================================================
