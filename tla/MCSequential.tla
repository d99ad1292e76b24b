---------------------------- MODULE MCSequential -----------------------------
(***************************************************************************)
(* The containers that are not safe for concurrent use, side by side: a    *)
(* behaviour picks one and makes any sequence of calls on it.              *)
(*                                                                         *)
(* Deque: three values, zero among them; five elements force growth from   *)
(* every capacity 0 to 4, the ring turned to every position.  Queue:       *)
(* capacities on both sides of the shrinking threshold.  List: duplicates, *)
(* both halves of nodeAt.  Heap: three levels, batches longer and shorter  *)
(* than the heap.                                                          *)
(***************************************************************************)
EXTENDS ArrayDeque

VARIABLES inUse, list, listCall, listReturned, queue, queueCall, queueReturned,
          heap, heapCall, heapReturned

MCValues == 0 .. 2
MCGiven == {<<>>, <<1>>, <<2, 1>>, <<1, 0, 2>>, <<2, 1, 0, 1, 2>>}

List == INSTANCE LinkedList WITH
    Elements <- {1, 2}, LongestList <- 4,
    Slices <- {<<>>, <<2>>, <<1, 2>>, <<2, 1, 1>>, <<2, 1, 2, 1>>, <<1, 2, 1, 1, 2>>}
Queue == INSTANCE ArrayQueue WITH
    Batches <- {<<>>, <<1>>, <<1, 2, 2>>, <<2, 0, 1, 1>>}, WorthShrinking <- 4,
    Capacities <- {0, 1, 8}, LongestQueue <- 5
ASSUME QueueParameters == Queue!Parameters

Heap == INSTANCE PriorityQueue WITH
    Priorities <- 1 .. 3, LargestHeap <- 6,
    Batches <- {<<>>, <<2>>, <<3, 1>>, <<3, 2, 1>>, <<1, 3, 2, 2>>, <<3, 2, 3, 1, 2, 1>>}

listVars == <<list, listCall, listReturned>>
queueVars == <<queue, queueCall, queueReturned>>
heapVars == <<heap, heapCall, heapReturned>>
Idle(name, empty) == inUse # name => empty

AllInit ==
    /\ inUse \in {"deque", "list", "queue", "heap"}
    /\ Init /\ Idle("deque", length = 0)
    /\ List!ListInit /\ Idle("list", list.size = 0)
    /\ Queue!QueueInit /\ Idle("queue", queue.cap = 0)
    /\ Heap!HeapInit /\ Idle("heap", heap = <<>>)

AllNext ==
    /\ UNCHANGED inUse
    /\ \/ inUse = "deque" /\ Next /\ UNCHANGED <<listVars, queueVars, heapVars>>
       \/ inUse = "list" /\ List!ListNext /\ UNCHANGED <<vars, queueVars, heapVars>>
       \/ inUse = "queue" /\ Queue!QueueNext /\ UNCHANGED <<vars, listVars, heapVars>>
       \/ inUse = "heap" /\ Heap!HeapNext /\ UNCHANGED <<vars, listVars, queueVars>>

AllSpec == AllInit /\ [][AllNext]_<<inUse, vars, listVars, queueVars, heapVars>>

(* The properties of each container, stated in its module.                 *)

(***************************************************************************)
(* What the structures keep between calls: linkedList's two chains of      *)
(* links, head, tail and size agree; the array of arrayQueue refers to     *)
(* nothing that left, and at most half of its slice is spent; the elements *)
(* of priorityQueue are in heap order; arrayDeque's copy is in order.      *)
(***************************************************************************)
StructuresAreSound ==
    List!LinksAgree /\ Queue!NothingRetained /\ Heap!HeapOrdered /\ CopyIsContent

(***************************************************************************)
(* Every call does to the elements, and answers, what its interface says:  *)
(* linkedList what the other lists do, its Sort stable; arrayQueue first   *)
(* in, first out, across compaction and shrinking; priorityQueue pops a    *)
(* smallest element and loses nothing.                                     *)
(***************************************************************************)
ContractsAreKept ==
    List!ActsLikeAList /\ List!SortIsStable /\ Queue!IsAQueue /\ Heap!IsAPriorityQueue
=============================================================================
