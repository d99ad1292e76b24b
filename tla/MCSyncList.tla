----------------------------- MODULE MCSyncList -----------------------------
(* Two goroutines on a list of three elements; c1's calls are made by the  *)
(* callbacks of g1.                                                        *)
EXTENDS SyncList

CONSTANTS g1, g2, c1

MCProcs == {g1, g2, c1}
MCCaller == [p \in MCProcs |-> IF p = c1 THEN g1 ELSE none]
MCValues == 1 .. 3
MCStart == <<2, 3, 1>>

Q(kind) == Request(kind, 0, 0, {}, <<>>)
AtIndex(kind, i) == Request(kind, i, 0, {}, <<>>)
Matching(kind, want) == Request(kind, 0, 0, want, <<>>)
Bringing(kind, i, elems) == Request(kind, i, 0, {}, elems)

Adding == Bringing("addAll", 0, <<3>>)
Compacting == Matching("removeFunc", {2, 3})
Updates == {Q("clear"), Q("sort"), Q("removeLast"), Compacting, Matching("removeFunc", {1}),
            AtIndex("removeAt", 3), Matching("remove", {2}), Adding,
            Bringing("insertAll", 0, <<>>), Bringing("insertAll", 1, <<1, 1>>),
            Bringing("set", 1, <<3>>), Bringing("replace", 0, <<1, 2>>)}
Queries == {Q("toSlice"), Matching("indexOf", {1}), Matching("lastIndexOf", {2}),
            Request("subList", 0, 2, {}, <<>>), AtIndex("get", 1), Q("last")}

Race(x, y, z) == [p \in MCProcs |-> CASE p = g1 -> {x} [] p = g2 -> y [] OTHER -> z]

\* Every call against every write, with another call after it; iterations
\* whose callbacks call the list twice while others write.
MCMenus ==
    {Race(x, {y, z}, {}) : x \in Updates \cup Queries, y \in Updates, z \in {Compacting, Q("toSlice")}}
    \cup {Race(Q("toSlice"), {y}, {z, Q("last")}) : y \in Updates, z \in {Adding, Q("sort")}}

PanicMenus == {Race(Matching("removeFunc", {2}), {Q("toSlice")}, {})}

\* Where a panic leaves every element where it was or reorders them, and
\* where it does not.
HarmlessPanics == {"remove", "indexOf", "lastIndexOf", "sort"}
FuncPanics == {"removeFunc"}
=============================================================================
