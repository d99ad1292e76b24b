------------------------- MODULE MCLockFreeListReads -------------------------
(* Instances of LockFreeListReads for TLC.                                 *)
EXTENDS LockFreeListReads, MCLockFreeList

Walking == {ToSliceQ, FindQ({1}), GetQ(1), RemoveQ({1}), RemoveAtQ(1), RemoveLastQ,
            RemoveFuncQ({1, 2}), SetQ(1, 4), SortQ}

\* Everything that walks, against two updates; several walks in a row; retry
\* loops of every kind against each other, two calls of each goroutine.
ReadMenus ==
    {Race({x}, {y}, {z}) : x \in Walking, y \in Updates \ {SortQ}, z \in {InsertAllQ(0, <<1>>), RemoveQ({2})}}
    \cup {Race({FindQ({1}), GetQ(1)}, {RemoveQ({2}), RefillQ(<<1>>)}, {SetQ(1, 4), InsertAllQ(0, <<1>>)})}
    \cup RetryMenus
=============================================================================
