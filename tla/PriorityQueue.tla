---------------------------- MODULE PriorityQueue ----------------------------
(***************************************************************************)
(* priorityQueue (priorityqueue.go): a binary heap in a slice, 0 .. n-1.   *)
(* One action is one method call: the type is not safe for concurrent use. *)
(***************************************************************************)
EXTENDS Integers, Sequences, FiniteSets

CONSTANTS
    Priorities,   \* the elements, in the order of the comparator
    Batches,      \* the slices it is built from, is given and decodes
    LargestHeap   \* bound: no element is added beyond it

VARIABLES
    heap,         \* pq.data
    heapCall,     \* the last call and the elements it brought
    heapReturned  \* what the last Pop or Peek returned

heapVars == <<heap, heapCall, heapReturned>>

Seqs == INSTANCE SequencesExt

\* Slices count from 0: d[i + 1] is data[i].
Swapped(d, i, j) == [d EXCEPT ![i + 1] = d[j + 1], ![j + 1] = d[i + 1]]

RECURSIVE SiftUp(_, _)
SiftUp(d, i) ==
    LET parent == (i - 1) \div 2
    IN  IF i = 0 \/ d[i + 1] >= d[parent + 1] THEN d ELSE SiftUp(Swapped(d, i, parent), parent)

RECURSIVE SiftDown(_, _)
SiftDown(d, i) ==
    LET left == 2 * i + 1
        right == left + 1
        smallest == IF right < Len(d) /\ d[right + 1] < d[left + 1] THEN right ELSE left
    IN  IF left >= Len(d) \/ d[smallest + 1] >= d[i + 1] THEN d
        ELSE SiftDown(Swapped(d, i, smallest), smallest)

\* Mutant of Heapify: the parent of the last leaf is left out.
HeapifyShort(d) ==
    LET n == Len(d) \div 2 IN Seqs!FoldLeft(SiftDown, d, [k \in 1 .. n - 1 |-> n - 1 - k])

\* From the last parent to the root.
Heapify(d) ==
    LET n == Len(d) \div 2 IN Seqs!FoldLeft(SiftDown, d, [k \in 1 .. n |-> n - k])

PushOne(d, e) == SiftUp(Append(d, e), Len(d))
Pushed(d, s) ==
    IF Len(s) >= Len(d) /\ s # <<>> THEN Heapify(d \o s) ELSE Seqs!FoldLeft(PushOne, d, s)

\* Mutant of Popped: the last element is dropped with the slot.
PoppedShort(d) == SiftDown(SubSeq(d, 1, Len(d) - 1), 0)

\* The last element moves to the root.
Popped(d) == SiftDown(SubSeq([d EXCEPT ![1] = d[Len(d)]], 1, Len(d) - 1), 0)

-----------------------------------------------------------------------------
Called(name, s) == heapCall' = [name |-> name, elems |-> s]
First(d) == IF d = <<>> THEN <<>> ELSE <<d[1]>>

\* The constructors; NewPriorityQueueFrom heapifies a copy.
HeapInit ==
    /\ \E s \in Batches : heap = Heapify(s) /\ heapCall = [name |-> "replace", elems |-> s]
    /\ heapReturned = <<>>

PushAll ==
    \E s \in Batches :
      /\ Len(heap) + Len(s) <= LargestHeap
      /\ heap' = Pushed(heap, s)
      /\ Called("pushAll", s)
      /\ UNCHANGED heapReturned

Push ==
    \E e \in Priorities :
      /\ Len(heap) < LargestHeap
      /\ heap' = PushOne(heap, e)
      /\ Called("pushAll", <<e>>)
      /\ UNCHANGED heapReturned

Pop ==
    /\ heap # <<>>
    /\ heap' = Popped(heap)
    /\ heapReturned' = First(heap)
    /\ Called("pop", <<>>)

PopNothing ==
    /\ heap = <<>>
    /\ heapReturned' = <<>>
    /\ Called("pop", <<>>)
    /\ UNCHANGED heap

PeekHeap ==
    /\ heapReturned' = First(heap)
    /\ Called("peek", <<>>)
    /\ UNCHANGED heap

ClearHeap ==
    /\ heap' = <<>>
    /\ Called("replace", <<>>)
    /\ UNCHANGED heapReturned

\* UnmarshalJSON, UnmarshalJSONFrom and GobDecode re-establish the heap.
DecodeHeap ==
    \E s \in Batches :
      /\ heap' = Heapify(s)
      /\ Called("replace", s)
      /\ UNCHANGED heapReturned

HeapNext == PushAll \/ Push \/ Pop \/ PopNothing \/ PeekHeap \/ ClearHeap \/ DecodeHeap

-----------------------------------------------------------------------------
(* No element has a higher priority than its parent (lines 24, 37, 58),    *)
(* whichever way a batch was pushed and whatever was decoded.              *)
HeapOrdered == \A i \in 2 .. Len(heap) : heap[i] >= heap[i \div 2]

(* Pop and Peek return an element none is smaller than, and no call loses, *)
(* doubles or invents an element.                                          *)
Count(s, v) == Cardinality({i \in DOMAIN s : s[i] = v})
IsAPriorityQueue ==
    [][LET name == heapCall'.name
           left(v) == CASE name = "pushAll" -> Count(heap, v) + Count(heapCall'.elems, v)
                        [] name = "pop" -> Count(heap, v) - Count(heapReturned', v)
                        [] name = "peek" -> Count(heap, v)
                        [] OTHER -> Count(heapCall'.elems, v)
       IN  /\ \A v \in Priorities : Count(heap', v) = left(v)
           /\ name \in {"pop", "peek"} =>
                /\ heapReturned' = <<>> <=> heap = <<>>
                /\ \A i \in DOMAIN heap : heapReturned'[1] <= heap[i]]_heapVars
=============================================================================
