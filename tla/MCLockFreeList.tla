--------------------------- MODULE MCLockFreeList ---------------------------
(* Instances of LockFreeList for TLC: the calls each goroutine makes.      *)
EXTENDS LockFreeList, TLC

Q(k, i, w, e) == [kind |-> k, idx |-> i, want |-> w, elems |-> e]

ToSliceQ        == Q("scan", 0, Values, <<>>)
FindQ(w)        == Q("find", 0, w, <<>>)
GetQ(i)         == Q("get", i, Values, <<>>)
RemoveQ(w)      == Q("remove", 0, w, <<>>)
RemoveFuncQ(w)  == Q("removeFunc", 0, w, <<>>)
RemoveLastQ     == Q("removeLast", 0, Values, <<>>)
RemoveAtQ(i)    == Q("removeAt", i, Values, <<>>)
SetQ(i, v)      == Q("set", i, Values, <<v>>)
InsertAllQ(i, e) == Q("insert", i, Values, e)
AddAllQ(e)      == Q("append", 0, Values, e)
RefillQ(e)      == Q("clear", 0, Values, e)
SortQ           == Q("sort", 0, Values, <<>>)

CONSTANTS g1, g2, g3

MCValues == 1 .. 4
Start == <<2, 1>>

Linking  == {AddAllQ(<<3, 4>>), InsertAllQ(0, <<3>>), InsertAllQ(1, <<3, 1>>)}
Taking   == {RemoveQ({2}), RemoveAtQ(0), RemoveLastQ, RemoveFuncQ({1, 2}), SetQ(0, 2), SetQ(1, 4)}
Updates  == Linking \cup Taking \cup {RefillQ(<<4>>), SortQ}

Race(x, y, z) == g1 :> x @@ g2 :> y @@ g3 :> z

\* Every two updates; every way to link and to detach, racing at both ends of
\* the chain; every way to take an element, racing on two nodes; a Sort that
\* rebuilds the list while others add, take and replace.
WriteMenus ==
    {Race({x}, {y}, {}) : x \in Updates, y \in Updates}
    \cup {Race({AddAllQ(<<3, 4>>)}, {InsertAllQ(1, <<3, 1>>)}, {InsertAllQ(0, <<2>>), RefillQ(<<4>>)}),
          Race({RemoveQ({2}), RemoveAtQ(0)}, {SetQ(0, 2), RemoveLastQ}, {RefillQ(<<>>)}),
          Race({RemoveQ({1, 2})}, {SetQ(0, 2), SetQ(1, 1)}, {RemoveFuncQ({1, 2})}),
          Race({SortQ}, {AddAllQ(<<1>>)}, {SetQ(1, 4), RemoveQ({2})})}

\* Retry loops of every kind against each other.
RetryMenus == {Race({RemoveQ(MCValues), InsertAllQ(1, <<3>>)}, {SetQ(0, 3), AddAllQ(<<2>>)},
                    {InsertAllQ(0, <<1>>), RefillQ(<<>>)})}
=============================================================================
