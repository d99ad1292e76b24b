---------------------------- MODULE MCSetAnswers ----------------------------
(* Two goroutines on two sets of up to three elements, in the combinations *)
(* of implementations below; c1's calls are made by g1's callbacks.        *)
EXTENDS SetAnswers

CONSTANTS g1, g2, c1, s1, s2

MCProcs == {g1, g2, c1}
MCCaller == [p \in MCProcs |-> IF p = c1 THEN g1 ELSE none]
MCSets == {s1, s2}
MCElems == 1 .. 3
MCBuckets == {{1, 3}, {2}}
Mix(a, b) == [s \in MCSets |-> IF s = s1 THEN a ELSE b]
MCMixes == {Mix("tree", "tree"), Mix("tree", "skip"), Mix("skip", "hash"), Mix("hash", "tree")}
MCStart == [s \in MCSets |-> IF s = s1 THEN {1, 2} ELSE {2, 3}]

Q(kind, on, elem) == Op(kind, on, s2, elem, {1, 3})
Both(kind) == {Op(kind, s1, s2, 1, {}), Op(kind, s1, s1, 1, {})}

Combining == UNION {Both(kind) : kind \in Algebra \cup Relations}
Edits == {Q("add", s1, 3), Q("remove", s1, 1), Q("remove", s1, 2)}
Elsewhere == {Q("add", s2, 1), Q("remove", s2, 2)}
Bulk == {Q(kind, s1, 1) : kind \in {"addAll", "removeAll", "clear", "refill", "removeFunc"} \cup Pops}
Reads == {Q(kind, s1, 2) : kind \in {"scan", "contains", "containsAll"}}

Race(x, y, z) == [p \in MCProcs |-> CASE p = g1 -> x [] p = g2 -> y [] OTHER -> z]
Ordered == {Q(kind, s1, 2) : kind \in Navigations}

\* Every method against an update of each set, pops and bulk calls against
\* each other; callbacks that update the set they are called from.
MCMenus ==
    {Race({x}, {y}, {}) : x \in Combining, y \in Edits \cup Elsewhere \cup {Q("clear", s1, 1)}}
    \cup {Race({x}, {y}, {}) : x \in Bulk \cup Reads, y \in Edits \cup Bulk}
    \cup {Race({x}, {Q("add", s1, 3), y}, {}) : x \in {Q("pop", s1, 1), Q("popLast", s1, 1)}, y \in Edits \cup {Q("pop", s1, 1)}}
    \cup {Race({x}, {y}, {z}) : x \in {Q("scan", s1, 1), Q("removeFunc", s1, 1)}, y \in Edits, z \in {Q("remove", s1, 2), Q("pop", s1, 1)}}
    \cup {Race({x}, {Q("add", s1, 3), y}, {}) : x \in Ordered, y \in {Q("remove", s1, 1), Q("remove", s1, 2)}}
=============================================================================
