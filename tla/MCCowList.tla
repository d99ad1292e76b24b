------------------------------ MODULE MCCowList ------------------------------
(* Three goroutines on a list of two elements; c1's calls are made by the  *)
(* callbacks of g1.                                                        *)
EXTENDS CowList

CONSTANTS g1, g2, c1

MCProcs == {g1, g2, c1}
MCCaller == [p \in MCProcs |-> IF p = c1 THEN g1 ELSE none]
MCValues == 1 .. 3
MCStart == <<2, 1>>

Q(kind) == Request(kind, 0, 0, {}, <<>>)
AtIndex(kind, i) == Request(kind, i, 0, {}, <<>>)
Matching(kind, want) == Request(kind, 0, 0, want, <<>>)
Bringing(kind, i, elems) == Request(kind, i, 0, {}, elems)

Adding == Bringing("addAll", 0, <<3>>)
Shrinking == Matching("removeFunc", {1, 3})
Updates == {Q("clear"), Q("sort"), Q("removeLast"), Shrinking, Matching("removeFunc", {}),
            AtIndex("removeAt", 2), Matching("remove", {2}), Adding, Bringing("addAll", 0, <<>>),
            Bringing("insertAll", 0, <<3, 3>>), Bringing("set", 1, <<3>>),
            Bringing("replace", 0, <<1, 2>>)}
Queries == {Q("toSlice"), Matching("indexOf", {1}), Matching("lastIndexOf", {2}),
            Request("subList", 0, 1, {}, <<>>), AtIndex("get", 1), Q("last")}

Race(x, y, z) == [p \in MCProcs |-> CASE p = g1 -> {x} [] p = g2 -> y [] OTHER -> z]

\* Every call against every write and the write after it; every reader that
\* calls back and what its callbacks do.
MCMenus ==
    {Race(x, {y, z}, {}) : x \in Updates \cup Queries, y \in Updates, z \in {Shrinking, Adding}}
    \cup {Race(x, {y}, {z, Q("last")}) : x \in Queries, y \in Updates, z \in {Adding, Q("sort")}}
=============================================================================
