----------------------------- MODULE ArrayQueue -----------------------------
(***************************************************************************)
(* arrayQueue (arrayqueue.go): a FIFO queue in a slice whose first `head`  *)
(* slots are spent.  Dequeue compacts the slice when more than half of it  *)
(* is spent, into a smaller array when it is mostly empty.  One action is  *)
(* one method call: the type is not safe for concurrent use.               *)
(*                                                                         *)
(* slots is the whole backing array, 0 .. cap-1; len(q.data) of it are in  *)
(* the slice.                                                              *)
(***************************************************************************)
EXTENDS Integers, Sequences

CONSTANTS
    Values, zero,   \* the elements, the zero value of their type among them
    Batches,        \* the slices it is built from, is given and decodes
    WorthShrinking, \* the capacity beyond which compact shrinks: 64 in the code
    Capacities,     \* bound: initial capacities
    LongestQueue    \* bound: no element is added beyond it

\* What the code takes for granted of its parameters.
Parameters == zero \in Values /\ Batches \subseteq Seq(Values) /\ Capacities \subseteq Nat

VARIABLES
    queue,          \* slots, cap, len and head
    queueCall,      \* the last call and the elements it brought
    queueReturned   \* what the last Dequeue or Peek returned

queueVars == <<queue, queueCall, queueReturned>>

Array(cap, len, head, at(_)) ==
    [slots |-> [i \in 0 .. cap - 1 |-> IF i < len THEN at(i) ELSE zero],
     cap |-> cap, len |-> len, head |-> head]
Exactly(s) == Array(Len(s), Len(s), 0, LAMBDA i : s[i + 1])
Elements(q) == [k \in 1 .. q.len - q.head |-> q.slots[q.head + k - 1]]

\* Go's append: in place while the array lasts, else a larger array.
Grown(q, n) == IF 2 * q.cap > q.len + n THEN 2 * q.cap ELSE q.len + n
Appended(q, s) ==
    LET n == q.len + Len(s)
        at(i) == IF i < q.len THEN q.slots[i] ELSE s[i - q.len + 1]
    IN  IF n <= q.cap
        THEN [q EXCEPT !.slots = [i \in DOMAIN @ |-> IF i < n THEN at(i) ELSE @[i]], !.len = n]
        ELSE Array(Grown(q, Len(s)), n, q.head, at)

\* Mutant of Compact: the slots behind the shifted elements keep theirs.
CompactKeepsTail(q) ==
    LET live == q.len - q.head
        at(i) == q.slots[q.head + i]
    IN  IF q.head = 0 THEN q
        ELSE IF live < q.cap \div 4 /\ q.cap > WorthShrinking THEN Array(live, live, 0, at)
        ELSE [q EXCEPT !.slots = [i \in DOMAIN @ |-> IF i < live THEN at(i) ELSE @[i]],
                       !.len = live, !.head = 0]

\* Mutant of Compact: the smaller array is copied from the old start.
CompactFromStart(q) ==
    LET live == q.len - q.head
        at(i) == q.slots[q.head + i]
    IN  IF q.head = 0 THEN q
        ELSE IF live < q.cap \div 4 /\ q.cap > WorthShrinking
        THEN Array(live, live, 0, LAMBDA i : q.slots[i])
        ELSE Array(q.cap, live, 0, at)

Compact(q) ==
    LET live == q.len - q.head
        at(i) == q.slots[q.head + i]
    IN  IF q.head = 0 THEN q
        ELSE IF live < q.cap \div 4 /\ q.cap > WorthShrinking THEN Array(live, live, 0, at)
        ELSE [q EXCEPT !.slots = [i \in DOMAIN @ |-> IF i < live THEN at(i)
                                    ELSE IF i < q.len THEN zero ELSE @[i]],
                       !.len = live, !.head = 0]

-----------------------------------------------------------------------------
Called(name, s) == queueCall' = [name |-> name, elems |-> s]
Front == IF queue.head >= queue.len THEN <<>> ELSE <<queue.slots[queue.head]>>

\* NewArrayQueue, NewArrayQueueWithCapacity, NewArrayQueueFrom.
QueueInit ==
    /\ \/ \E c \in Capacities : queue = Array(c, 0, 0, LAMBDA i : zero)
       \/ \E s \in Batches : queue = Exactly(s)
    /\ queueCall = [name |-> "replace", elems |-> Elements(queue)]
    /\ queueReturned = <<>>

\* Enqueue and EnqueueAll.
EnqueueAll ==
    \E s \in Batches :
      /\ Len(Elements(queue)) + Len(s) <= LongestQueue
      /\ queue' = Appended(queue, s)
      /\ Called("enqueueAll", s)
      /\ UNCHANGED queueReturned

Dequeue ==
    LET spent == [queue EXCEPT !.slots[queue.head] = zero, !.head = @ + 1]
    IN  /\ queue.head < queue.len
        /\ queue' = IF spent.head > spent.len \div 2 THEN Compact(spent) ELSE spent
        /\ queueReturned' = Front
        /\ Called("dequeue", <<>>)

DequeueNothing ==
    /\ queue.head >= queue.len
    /\ queueReturned' = <<>>
    /\ Called("dequeue", <<>>)
    /\ UNCHANGED queue

Peek ==
    /\ queueReturned' = Front
    /\ Called("peek", <<>>)
    /\ UNCHANGED queue

ClearQueue ==
    /\ queue' = [queue EXCEPT !.slots = [i \in DOMAIN @ |-> IF i < queue.len THEN zero ELSE @[i]],
                              !.len = 0, !.head = 0]
    /\ Called("replace", <<>>)
    /\ UNCHANGED queueReturned

\* UnmarshalJSON, UnmarshalJSONFrom and GobDecode, once the input is decoded.
DecodeQueue ==
    \E s \in Batches :
      /\ queue' = Exactly(s)
      /\ Called("replace", s)
      /\ UNCHANGED queueReturned

QueueNext == EnqueueAll \/ Dequeue \/ DequeueNothing \/ Peek \/ ClearQueue \/ DecodeQueue

QueueSpec == QueueInit /\ [][QueueNext]_queueVars

-----------------------------------------------------------------------------
(* The array refers to no element that has left the queue ("to avoid       *)
(* retaining references", lines 75, 131), and at most half of the slice is *)
(* spent ("to avoid unbounded growth", line 79).                           *)
NothingRetained ==
    /\ queue.head <= queue.len /\ queue.len <= queue.cap /\ 2 * queue.head <= queue.len
    /\ \A i \in 0 .. queue.cap - 1 : i < queue.head \/ i >= queue.len => queue.slots[i] = zero

(* Elements leave in the order they came, across spent slots, appends that *)
(* move the array, compactions, shrinking, Clear and decodes.              *)
StepOfAQueue ==
    LET s == Elements(queue)  name == queueCall'.name
        first == IF s = <<>> THEN <<>> ELSE <<Head(s)>>
    IN  /\ Elements(queue') = CASE name = "enqueueAll" -> s \o queueCall'.elems
                                [] name = "dequeue" -> SubSeq(s, 2, Len(s))
                                [] name = "peek" -> s
                                [] OTHER -> queueCall'.elems
        /\ name \in {"dequeue", "peek"} => queueReturned' = first
IsAQueue == [][StepOfAQueue]_queueVars
=============================================================================
