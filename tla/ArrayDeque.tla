----------------------------- MODULE ArrayDeque -----------------------------
(***************************************************************************)
(* arrayDeque (arraydeque.go): a deque in a circular buffer.  The buffer   *)
(* doubles when it is full and never shrinks; a decode installs one that   *)
(* is exactly full, Clear keeps it.  One action is one method call: the    *)
(* type is not safe for concurrent use.  Slices are functions on           *)
(* 0 .. len-1, as in the code.                                             *)
(***************************************************************************)
EXTENDS Integers, Sequences

CONSTANTS
    Values,     \* the elements, the zero value of their type among them
    zero,
    Given,      \* the slices given to NewArrayDequeFrom and to decodes
    MaxSize     \* bound: no push beyond it, no larger initial capacity

ASSUME ValueAssumption == zero \in Values
ASSUME GivenAssumption == Given \subseteq Seq(Values)
ASSUME BoundAssumption == MaxSize \in Nat

VARIABLES
    buf, length,            \* d.buf and len(d.buf)
    front, back, size,      \* d.head, d.tail, d.size
    op, answer              \* the last call, and what the last pop or peek returned

ring == <<buf, length, front, back, size>>
vars == <<ring, op, answer>>

\* A slice of its own with the elements of s: make and copy.
SliceOf(s) == [i \in 0 .. Len(s) - 1 |-> s[i + 1]]
Op(name, elems) == [name |-> name, elems |-> elems]
Nothing == <<zero, FALSE>>
Found(v) == <<v, TRUE>>

\* Go's %: the remainder has the sign of n.
Rem(n, m) == IF n >= 0 THEN n % m ELSE -((-n) % m)

\* Mutant of Mod: the sign of Go's % forgotten.
ModGo(n, m) == Rem(n, m)

Mod(n, m) == IF Rem(n, m) < 0 THEN Rem(n, m) + m ELSE Rem(n, m)

\* d.at(i): the i-th element from the front, the first being 0.
At(i) == buf[Mod(front + i, length)]

\* Mutant of Copied: the buffer's own order.
CopiedFlat(i) == buf[i]

\* What copyTo puts at dst[i]: the segment from head on, then the one from 0.
Copied(i) ==
    LET end == IF front + size < length THEN front + size ELSE length
        n == end - front
    IN  IF i < n THEN buf[front + i] ELSE buf[i - n]

\* The elements that Seq, Reversed and ToSlice list.
Content == [k \in 1 .. size |-> At(k - 1)]

\* Mutant of Room: growth keeps the old tail.
RoomKeepsTail ==
    IF size < length THEN [buf |-> buf, length |-> length, front |-> front, back |-> back]
    ELSE LET newCap == IF length > 0 THEN length * 2 ELSE 1
         IN  [buf |-> [i \in 0 .. newCap - 1 |-> IF i < size THEN Copied(i) ELSE zero],
              length |-> newCap, front |-> 0, back |-> back]

\* The buffer after ensureCapacityForOne.
Room ==
    IF size < length THEN [buf |-> buf, length |-> length, front |-> front, back |-> back]
    ELSE LET newCap == IF length > 0 THEN length * 2 ELSE 1
         IN  [buf |-> [i \in 0 .. newCap - 1 |-> IF i < size THEN Copied(i) ELSE zero],
              length |-> newCap, front |-> 0, back |-> size]

-----------------------------------------------------------------------------
\* NewArrayDeque and NewArrayDequeWithCapacity (any n), NewArrayDequeFrom.
Init ==
    /\ \/ \E n \in 0 .. MaxSize : length = n /\ buf = [i \in 0 .. n - 1 |-> zero] /\ size = 0
       \/ \E s \in Given : length = Len(s) /\ size = Len(s) /\ buf = SliceOf(s)
    /\ front = 0 /\ back = 0
    /\ op = Op("new", Content) /\ answer = Nothing

PushFront(v) ==
    /\ size < MaxSize
    /\ length' = Room.length
    /\ front' = Mod(Room.front - 1, length')
    /\ buf' = [Room.buf EXCEPT ![front'] = v]
    /\ back' = Room.back
    /\ size' = size + 1
    /\ op' = Op("pushFront", <<v>>) /\ UNCHANGED answer

PushBack(v) ==
    /\ size < MaxSize
    /\ length' = Room.length
    /\ buf' = [Room.buf EXCEPT ![Room.back] = v]
    /\ back' = Mod(Room.back + 1, length')
    /\ front' = Room.front
    /\ size' = size + 1
    /\ op' = Op("pushBack", <<v>>) /\ UNCHANGED answer

\* Mutant of PopFront: the slot keeps its element.
PopFrontKeeps ==
    /\ size # 0
    /\ answer' = Found(buf[front])
    /\ front' = Mod(front + 1, length)
    /\ size' = size - 1
    /\ op' = Op("popFront", <<>>) /\ UNCHANGED <<buf, length, back>>

PopFront ==
    /\ size # 0
    /\ answer' = Found(buf[front])
    /\ buf' = [buf EXCEPT ![front] = zero]
    /\ front' = Mod(front + 1, length)
    /\ size' = size - 1
    /\ op' = Op("popFront", <<>>) /\ UNCHANGED <<length, back>>

PopBack ==
    /\ size # 0
    /\ back' = Mod(back - 1, length)
    /\ answer' = Found(buf[back'])
    /\ buf' = [buf EXCEPT ![back'] = zero]
    /\ size' = size - 1
    /\ op' = Op("popBack", <<>>) /\ UNCHANGED <<length, front>>

PeekFront ==
    /\ size # 0
    /\ answer' = Found(buf[front])
    /\ op' = Op("peekFront", <<>>) /\ UNCHANGED ring

PeekBack ==
    /\ size # 0
    /\ answer' = Found(buf[Mod(back - 1, length)])
    /\ op' = Op("peekBack", <<>>) /\ UNCHANGED ring

\* The early returns of the pops and peeks.
Empty ==
    /\ size = 0
    /\ \E name \in {"popFront", "popBack", "peekFront", "peekBack"} : op' = Op(name, <<>>)
    /\ answer' = Nothing /\ UNCHANGED ring

\* The buffer keeps its length; the indexes start again.
Clear ==
    /\ buf' = [i \in 0 .. length - 1 |-> zero]
    /\ front' = 0 /\ back' = 0 /\ size' = 0
    /\ op' = Op("replace", <<>>) /\ UNCHANGED <<length, answer>>

\* replaceFromSlice, the end of UnmarshalJSON, UnmarshalJSONFrom and GobDecode.
ReplaceFromSlice ==
    /\ \E s \in Given :
         /\ buf' = SliceOf(s)
         /\ length' = Len(s) /\ size' = Len(s)
         /\ op' = Op("replace", s)
    /\ front' = 0 /\ back' = 0 /\ UNCHANGED answer

Next ==
    \/ \E v \in Values : PushFront(v) \/ PushBack(v)
    \/ PopFront \/ PopBack \/ PeekFront \/ PeekBack \/ Empty
    \/ Clear \/ ReplaceFromSlice

Spec == Init /\ [][Next]_vars

-----------------------------------------------------------------------------
(* Types; the indexes stay inside the buffer.                              *)
TypeOK ==
    /\ length \in Nat /\ size \in Nat
    /\ buf \in [0 .. length - 1 -> Values]
    /\ front \in Nat /\ back \in Nat
    /\ answer \in Values \X BOOLEAN

(* What every method relies on and none may break (lines 62-63, 78-80):    *)
(* tail is one past the last element of the ring, also when it wraps or    *)
(* the buffer is full, and the slots outside hold nothing.                 *)
RingSound ==
    /\ size <= length
    /\ IF length = 0 THEN front = 0 /\ back = 0
       ELSE front < length /\ back = Mod(front + size, length)
    /\ \A i \in size .. length - 1 : At(i) = zero

IInv == TypeOK /\ RingSound

(* The two segments copyTo copies are the elements one by one: ToSlice,    *)
(* growth and serialization agree with Seq (lines 135-144).                *)
CopyIsContent == \A i \in 0 .. size - 1 : Copied(i) = At(i)

(* Every call does to the listed elements what the Deque interface says,   *)
(* wherever they lie in the ring, across growth, Clear and decode.         *)
Deque == INSTANCE DequeContract WITH content <- Content
ImplementsDeque == Deque!Spec
=============================================================================
