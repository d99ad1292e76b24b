----------------------------- MODULE ArrayProofs -----------------------------
(***************************************************************************)
(* The proofs about the two structures that keep their elements in one     *)
(* array, for any elements, slices and capacities.                         *)
(*                                                                         *)
(* arrayQueue is a queue and retains nothing.  An array that holds a       *)
(* sequence is determined by it (Image); each operation is one lemma about *)
(* the image it makes of the image it got.                                 *)
(*                                                                         *)
(* arrayDeque implements a deque.  TypeOK and RingSound together are       *)
(* inductive: RingSound alone says nothing of a negative index, TypeOK     *)
(* nothing of where tail is.  The circular index is unfolded once, in      *)
(* Wrap, and growth once, in RoomFacts; every later step only speaks of    *)
(* At.                                                                     *)
(***************************************************************************)
EXTENDS ArrayDeque, TLAPS

CONSTANTS Batches, WorthShrinking, Capacities, LongestQueue
VARIABLES queue, queueCall, queueReturned

INSTANCE ArrayQueue

\* The slots of an array that holds s at h .. l-1 and is cleared elsewhere.
Image(c, l, h, s) == [i \in 0 .. c - 1 |-> IF h <= i /\ i < l THEN s[i - h + 1] ELSE zero]

Slots == UNION {[0 .. n - 1 -> Values] : n \in Nat}
Queues == [slots : Slots, cap : Nat, len : Nat, head : Nat]

Holds(q, s) ==
    /\ q \in Queues /\ q.head <= q.len /\ q.len <= q.cap
    /\ s \in Seq(Values) /\ Len(s) = q.len - q.head
    /\ q.slots = Image(q.cap, q.len, q.head, s)

Fits(c, l, h, s) ==
    /\ c \in Nat /\ l \in Nat /\ h \in Nat /\ h <= l /\ l <= c
    /\ s \in Seq(Values) /\ Len(s) = l - h

LEMMA ImageType ==
    ASSUME Parameters, NEW c, NEW l, NEW h, NEW s, Fits(c, l, h, s)
    PROVE  Image(c, l, h, s) \in [0 .. c - 1 -> Values] /\ Image(c, l, h, s) \in Slots
<1> USE DEF Fits
<1>1. ASSUME NEW i \in 0 .. c - 1 PROVE (IF h <= i /\ i < l THEN s[i - h + 1] ELSE zero) \in Values
  <2>1. CASE h <= i /\ i < l
    <3>1. i - h + 1 \in 1 .. Len(s)
      BY <2>1
    <3> QED
      BY <2>1, <3>1
  <2>2. CASE ~(h <= i /\ i < l)
    BY <2>2 DEF Parameters
  <2> QED
    BY <2>1, <2>2
<1>2. Image(c, l, h, s) \in [0 .. c - 1 -> Values]
  BY <1>1 DEF Image
<1> QED
  BY <1>2 DEF Slots

\* A new array, and an array that is changed in place.
Made(c, l, h, s) == [slots |-> Image(c, l, h, s), cap |-> c, len |-> l, head |-> h]
Changed(q, l, h, s) == [q EXCEPT !.slots = Image(q.cap, l, h, s), !.len = l, !.head = h]

LEMMA MadeHolds ==
    ASSUME Parameters, NEW c, NEW l, NEW h, NEW s, Fits(c, l, h, s)
    PROVE  Holds(Made(c, l, h, s), s) /\ Made(c, l, h, s).len = l /\ Made(c, l, h, s).head = h
<1> DEFINE r == Made(c, l, h, s)
<1>1. Image(c, l, h, s) \in Slots
  BY ImageType
<1>2. r \in Queues /\ r.slots = Image(c, l, h, s) /\ r.cap = c /\ r.len = l /\ r.head = h
  BY <1>1 DEF Queues, Made, Fits
<1> QED
  BY <1>2 DEF Holds, Fits

LEMMA ChangedHolds ==
    ASSUME Parameters, NEW q \in Queues, NEW l, NEW h, NEW s, Fits(q.cap, l, h, s)
    PROVE  /\ Holds(Changed(q, l, h, s), s)
           /\ Changed(q, l, h, s).len = l /\ Changed(q, l, h, s).head = h
<1> DEFINE r == Changed(q, l, h, s)
<1>1. Image(q.cap, l, h, s) \in Slots
  BY ImageType
<1>2. /\ r \in Queues /\ r.slots = Image(q.cap, l, h, s)
      /\ r.cap = q.cap /\ r.len = l /\ r.head = h
  BY <1>1 DEF Queues, Changed, Fits
<1> QED
  BY <1>2 DEF Holds, Fits

LEMMA HeldElements ==
    ASSUME NEW q, NEW s, Holds(q, s)
    PROVE  /\ Elements(q) = s
           /\ q.head \in Nat /\ q.len \in Nat /\ q.cap \in Nat
           /\ s = <<>> <=> q.head >= q.len
           /\ s # <<>> => Head(s) = q.slots[q.head]
<1>0. PICK c, l, h \in Nat : /\ c = q.cap /\ l = q.len /\ h = q.head /\ h <= l /\ l <= c
                             /\ q.slots = Image(c, l, h, s) /\ s \in Seq(Values) /\ Len(s) = l - h
  BY DEF Holds, Queues
<1>1. ASSUME NEW k \in 1 .. l - h PROVE Image(c, l, h, s)[h + k - 1] = s[k]
  <2>1. h + k - 1 \in 0 .. c - 1 /\ h <= h + k - 1 /\ h + k - 1 < l /\ h + k - 1 - h + 1 = k
    <3>1. h <= l /\ l <= c
      BY <1>0
    <3> QED
      BY <3>1
  <2> QED
    BY <2>1 DEF Image
<1>2. Elements(q) = [k \in 1 .. l - h |-> s[k]]
  BY <1>0, <1>1 DEF Elements
<1>3. s = [k \in 1 .. l - h |-> s[k]]
  BY <1>0
<1>4. s # <<>> => Head(s) = Image(c, l, h, s)[h]
  <2>1. s # <<>> => 1 \in 1 .. l - h /\ h + 1 - 1 = h /\ Head(s) = s[1]
    BY <1>0
  <2> QED
    BY <1>1, <2>1
<1>5. s = <<>> <=> h >= l
  BY <1>0
<1> QED
  BY <1>0, <1>2, <1>3, <1>4, <1>5

-----------------------------------------------------------------------------
LEMMA ExactlyHolds ==
    ASSUME Parameters, NEW s \in Seq(Values)
    PROVE  Holds(Exactly(s), s) /\ Exactly(s).len = Len(s) /\ Exactly(s).head = 0
<1>1. PICK n \in Nat : n = Len(s)
  OBVIOUS
<1> DEFINE f == [i \in 0 .. n - 1 |-> IF i < n THEN s[i + 1] ELSE zero]
<1>2. Exactly(s) = [slots |-> f, cap |-> n, len |-> n, head |-> 0]
  BY <1>1 DEF Exactly, Array
<1>3. f = Image(n, n, 0, s)
  BY DEF Image
<1> HIDE DEF f
<1>4. Exactly(s) = Made(n, n, 0, s)
  BY <1>2, <1>3 DEF Made
<1>5. Fits(n, n, 0, s)
  BY <1>1 DEF Fits
<1> QED
  BY <1>1, <1>4, <1>5, MadeHolds

LEMMA EmptyHolds ==
    ASSUME Parameters, NEW c \in Nat
    PROVE  LET r == Array(c, 0, 0, LAMBDA i : zero) IN Holds(r, <<>>) /\ r.len = 0 /\ r.head = 0
<1> DEFINE e == <<>>
<1>1. Array(c, 0, 0, LAMBDA i : zero) = Made(c, 0, 0, e)
  BY DEF Array, Made, Image
<1>2. Fits(c, 0, 0, e)
  BY DEF Fits
<1> HIDE DEF e
<1>3. Holds(Made(c, 0, 0, e), e) /\ Made(c, 0, 0, e).len = 0 /\ Made(c, 0, 0, e).head = 0
  BY <1>2, MadeHolds
<1> QED
  BY <1>1, <1>3 DEF e

-----------------------------------------------------------------------------
\* u is s followed by t.
Joins(u, s, t) ==
    /\ u \in Seq(Values) /\ Len(u) = Len(s) + Len(t)
    /\ \A k \in 1 .. Len(s) : u[k] = s[k]
    /\ \A k \in Len(s) + 1 .. Len(s) + Len(t) : u[k] = t[k - Len(s)]

LEMMA Concatenation ==
    ASSUME NEW s \in Seq(Values), NEW t \in Seq(Values) PROVE Joins(s \o t, s, t)
<1>1. s \o t \in Seq(Values) /\ Len(s \o t) = Len(s) + Len(t)
  OBVIOUS
<1>2. \A k \in 1 .. Len(s) : (s \o t)[k] = s[k]
  OBVIOUS
<1>3. \A k \in Len(s) + 1 .. Len(s) + Len(t) : (s \o t)[k] = t[k - Len(s)]
  OBVIOUS
<1> QED
  BY <1>1, <1>2, <1>3 DEF Joins

\* What append leaves at slot i: the old slots, the elements it brings, nothing.
LEMMA AppendedHolds ==
    ASSUME Parameters, NEW q, NEW s, Holds(q, s), NEW t \in Seq(Values), NEW u, u = s \o t
    PROVE  /\ Holds(Appended(q, t), u)
           /\ Appended(q, t).head = q.head /\ Appended(q, t).len >= q.len
<1>0. PICK c, l, h \in Nat : /\ c = q.cap /\ l = q.len /\ h = q.head /\ h <= l /\ l <= c
                             /\ q \in Queues
                             /\ q.slots = Image(c, l, h, s) /\ s \in Seq(Values) /\ Len(s) = l - h
  BY DEF Holds, Queues
<1>1. PICK n \in Nat : n = l + Len(t)
  OBVIOUS
<1>2. Joins(u, s, t) /\ u \in Seq(Values)
  BY <1>0, Concatenation DEF Joins
<1>3. h <= l /\ l <= c /\ l <= n /\ h <= n /\ Len(s) = l - h /\ Len(u) = n - h
  <2>1. Len(u) = Len(s) + Len(t) /\ Len(s) = l - h /\ h <= l /\ l <= c /\ Len(t) \in Nat
    BY <1>0, <1>2 DEF Joins
  <2> QED
    BY <1>1, <2>1
<1>4. DOMAIN q.slots = 0 .. c - 1
  BY <1>0 DEF Image
<1> DEFINE at(i) == IF i < n THEN IF i < l THEN q.slots[i] ELSE t[i - l + 1] ELSE zero
<1>5. ASSUME NEW d \in Nat, n <= d PROVE [i \in 0 .. d - 1 |-> at(i)] = Image(d, n, h, u)
  <2> SUFFICES ASSUME NEW i \in 0 .. d - 1
               PROVE  at(i) = IF h <= i /\ i < n THEN u[i - h + 1] ELSE zero
    BY DEF Image
  <2>1. CASE i < l
    <3>1. i < n /\ i \in 0 .. c - 1
      BY <1>3, <2>1
    <3>2. q.slots[i] = IF h <= i /\ i < l THEN s[i - h + 1] ELSE zero
      BY <1>0, <3>1 DEF Image
    <3>3. ASSUME h <= i PROVE u[i - h + 1] = s[i - h + 1]
      <4>1. i - h + 1 \in 1 .. Len(s)
        BY <1>3, <2>1, <3>3
      <4> QED
        BY <1>2, <4>1 DEF Joins
    <3> QED
      BY <2>1, <3>1, <3>2, <3>3
  <2>2. CASE l <= i /\ i < n
    <3>1. PICK k \in Len(s) + 1 .. Len(s) + Len(t) : k = i - h + 1
      BY <1>1, <1>3, <2>2
    <3>2. u[k] = t[k - Len(s)]
      BY <1>2 DEF Joins
    <3>3. k - Len(s) = i - l + 1 /\ h <= i /\ ~(i < l)
      BY <1>3, <2>2, <3>1
    <3> QED
      BY <2>2, <3>1, <3>2, <3>3
  <2>3. CASE n <= i
    BY <1>3, <2>3
  <2>4. i < l \/ (l <= i /\ i < n) \/ n <= i
    OBVIOUS
  <2> QED
    BY <2>1, <2>2, <2>3, <2>4
<1>6. CASE n <= c
  <2>1. Appended(q, t) =
          [q EXCEPT !.slots = [i \in DOMAIN q.slots |->
              IF i < n THEN IF i < l THEN q.slots[i] ELSE t[i - l + 1] ELSE q.slots[i]], !.len = n]
    BY <1>0, <1>1, <1>6 DEF Appended
  <2>2. \A i \in 0 .. c - 1 : ~(i < n) => q.slots[i] = zero
    <3> TAKE i \in 0 .. c - 1
    <3>1. q.slots[i] = IF h <= i /\ i < l THEN s[i - h + 1] ELSE zero
      BY <1>0 DEF Image
    <3>2. ~(i < n) => ~(i < l)
      BY <1>3
    <3> QED
      BY <3>1, <3>2
  <2>3. Appended(q, t) = [q EXCEPT !.slots = [i \in 0 .. c - 1 |-> at(i)], !.len = n]
    <3> DEFINE g(i) == IF i < n THEN IF i < l THEN q.slots[i] ELSE t[i - l + 1] ELSE q.slots[i]
    <3>1. \A i \in 0 .. c - 1 : g(i) = at(i)
      BY <2>2
    <3>2. Appended(q, t) = [q EXCEPT !.slots = [i \in 0 .. c - 1 |-> g(i)], !.len = n]
      BY <1>4, <2>1, Zenon
    <3> HIDE DEF g, at
    <3>3. [i \in 0 .. c - 1 |-> g(i)] = [i \in 0 .. c - 1 |-> at(i)]
      BY <3>1
    <3> QED
      BY <3>2, <3>3, Zenon
  <2>4. [i \in 0 .. c - 1 |-> at(i)] = Image(q.cap, n, h, u)
    BY <1>0, <1>5, <1>6
  <2> HIDE DEF at
  <2>5. Appended(q, t) = Changed(q, n, h, u)
    BY <1>0, <2>3, <2>4 DEF Changed, Queues
  <2>6. Fits(q.cap, n, h, u) /\ q \in Queues
    BY <1>0, <1>2, <1>3, <1>6 DEF Fits
  <2>7. Holds(Changed(q, n, h, u), u) /\ Changed(q, n, h, u).len = n /\ Changed(q, n, h, u).head = h
    BY <2>6, ChangedHolds
  <2> QED
    BY <1>0, <1>3, <2>5, <2>7
<1>7. CASE n > c
  <2> DEFINE d == Grown(q, Len(t))
  <2>1. Appended(q, t) = [slots |-> [i \in 0 .. d - 1 |-> at(i)], cap |-> d, len |-> n, head |-> h]
    BY <1>0, <1>1, <1>7 DEF Appended, Array
  <2>2. d \in Nat /\ n <= d
    <3>1. d = IF 2 * c > n THEN 2 * c ELSE n
      BY <1>0, <1>1 DEF Grown
    <3> HIDE DEF d
    <3> QED
      BY <3>1
  <2>3. [i \in 0 .. d - 1 |-> at(i)] = Image(d, n, h, u)
    BY <1>5, <2>2
  <2> HIDE DEF at, d
  <2>4. Appended(q, t) = Made(d, n, h, u)
    BY <2>1, <2>3 DEF Made
  <2>5. Fits(d, n, h, u)
    BY <1>2, <1>3, <2>2 DEF Fits
  <2>6. Holds(Made(d, n, h, u), u) /\ Made(d, n, h, u).len = n /\ Made(d, n, h, u).head = h
    BY <2>5, MadeHolds
  <2> QED
    BY <1>0, <1>3, <2>4, <2>6
<1> QED
  BY <1>6, <1>7

\* What compact leaves at slot i: the live elements from 0 on, and nothing.
LEMMA CompactHolds ==
    ASSUME Parameters, NEW q, NEW s, Holds(q, s)
    PROVE  Holds(Compact(q), s) /\ Compact(q).head = 0
<1>0. PICK c, l, h \in Nat : /\ c = q.cap /\ l = q.len /\ h = q.head /\ h <= l /\ l <= c
                             /\ q \in Queues
                             /\ q.slots = Image(c, l, h, s) /\ s \in Seq(Values) /\ Len(s) = l - h
  BY DEF Holds, Queues
<1>1. PICK n \in Nat : n = l - h
  BY <1>0
<1>2. h <= l /\ l <= c /\ n <= l /\ n <= c /\ Len(s) = n
  BY <1>0, <1>1
<1>3. DOMAIN q.slots = 0 .. c - 1
  BY <1>0 DEF Image
<1> DEFINE at(i) == IF i < n THEN q.slots[h + i] ELSE zero
<1>4. ASSUME NEW d \in Nat, n <= d PROVE [i \in 0 .. d - 1 |-> at(i)] = Image(d, n, 0, s)
  <2> SUFFICES ASSUME NEW i \in 0 .. d - 1
               PROVE  at(i) = IF 0 <= i /\ i < n THEN s[i - 0 + 1] ELSE zero
    BY DEF Image
  <2>1. CASE i < n
    <3>1. PICK j \in 0 .. c - 1 : j = h + i
      BY <1>1, <1>2, <2>1
    <3>2. h <= j /\ j < l /\ j - h + 1 = i - 0 + 1 /\ 0 <= i
      BY <1>1, <2>1, <3>1
    <3>3. q.slots[j] = s[j - h + 1]
      BY <1>0, <3>2 DEF Image
    <3> QED
      BY <2>1, <3>1, <3>2, <3>3
  <2>2. CASE ~(i < n)
    BY <2>2
  <2> QED
    BY <2>1, <2>2
<1>5. CASE h = 0
  BY <1>0, <1>5 DEF Compact
<1>6. CASE h # 0 /\ n < c \div 4 /\ c > WorthShrinking
  <2>1. Compact(q) = [slots |-> [i \in 0 .. n - 1 |-> at(i)], cap |-> n, len |-> n, head |-> 0]
    BY <1>0, <1>1, <1>6 DEF Compact, Array
  <2>2. [i \in 0 .. n - 1 |-> at(i)] = Image(n, n, 0, s)
    BY <1>4
  <2> HIDE DEF at
  <2>3. Compact(q) = Made(n, n, 0, s)
    BY <2>1, <2>2 DEF Made
  <2>4. Fits(n, n, 0, s)
    BY <1>0, <1>2 DEF Fits
  <2> QED
    BY <2>3, <2>4, MadeHolds
<1>7. CASE h # 0 /\ ~(n < c \div 4 /\ c > WorthShrinking)
  <2>1. Compact(q) =
          [q EXCEPT !.slots = [i \in DOMAIN q.slots |->
              IF i < n THEN q.slots[h + i] ELSE IF i < l THEN zero ELSE q.slots[i]],
                    !.len = n, !.head = 0]
    BY <1>0, <1>1, <1>7 DEF Compact
  <2>2. \A i \in 0 .. c - 1 : ~(i < l) => q.slots[i] = zero
    BY <1>0 DEF Image
  <2>3. Compact(q) = [q EXCEPT !.slots = [i \in 0 .. c - 1 |-> at(i)], !.len = n, !.head = 0]
    BY <1>3, <2>1, <2>2, ZenonT(60)
  <2>4. [i \in 0 .. c - 1 |-> at(i)] = Image(q.cap, n, 0, s)
    BY <1>0, <1>2, <1>4
  <2> HIDE DEF at
  <2>5. Compact(q) = Changed(q, n, 0, s)
    BY <2>3, <2>4 DEF Changed
  <2>6. Fits(q.cap, n, 0, s) /\ q \in Queues
    BY <1>0, <1>2 DEF Fits
  <2> QED
    BY <2>5, <2>6, ChangedHolds
<1> QED
  BY <1>5, <1>6, <1>7

Spent(q) == [q EXCEPT !.slots[q.head] = zero, !.head = @ + 1]

\* A sequence without its first element.
LEMMA TailSeq ==
    ASSUME NEW S, NEW s \in Seq(S), NEW n \in Nat, n = Len(s), n > 0, NEW u, u = SubSeq(s, 2, n)
    PROVE  u \in Seq(S) /\ Len(u) = n - 1 /\ \A k \in 1 .. n - 1 : u[k] = s[k + 1]
OBVIOUS

LEMMA SpentHolds ==
    ASSUME Parameters, NEW q, NEW s, Holds(q, s), q.head < q.len, NEW u, u = SubSeq(s, 2, Len(s))
    PROVE  Holds(Spent(q), u) /\ Spent(q).len = q.len /\ Spent(q).head = q.head + 1
<1>0. PICK c, l, h \in Nat : /\ c = q.cap /\ l = q.len /\ h = q.head /\ h < l /\ l <= c
                             /\ q \in Queues
                             /\ q.slots = Image(c, l, h, s) /\ s \in Seq(Values) /\ Len(s) = l - h
  BY DEF Holds, Queues
<1>1. PICK n \in Nat : n = Len(s)
  BY <1>0
<1>2. h < l /\ l <= c /\ n = l - h /\ h + 1 \in Nat
  BY <1>0, <1>1, SMTT(60)
<1>3. u \in Seq(Values) /\ Len(u) = n - 1 /\ \A k \in 1 .. n - 1 : u[k] = s[k + 1]
  <2>1. n > 0
    BY <1>2
  <2>2. u = SubSeq(s, 2, n) /\ s \in Seq(Values)
    BY <1>0, <1>1
  <2> QED
    BY <1>1, <2>1, <2>2, TailSeq
<1>4. [q.slots EXCEPT ![h] = zero] = Image(c, l, h + 1, u)
  <2>1. [q.slots EXCEPT ![h] = zero] = [i \in 0 .. c - 1 |-> IF i = h THEN zero ELSE q.slots[i]]
    BY <1>0 DEF Image
  <2> SUFFICES ASSUME NEW i \in 0 .. c - 1
               PROVE  (IF i = h THEN zero ELSE q.slots[i])
                        = IF h + 1 <= i /\ i < l THEN u[i - (h + 1) + 1] ELSE zero
    BY <2>1 DEF Image
  <2>2. q.slots[i] = IF h <= i /\ i < l THEN s[i - h + 1] ELSE zero
    BY <1>0 DEF Image
  <2>3. CASE h + 1 <= i /\ i < l
    <3>1. PICK k \in 1 .. n - 1 : k = i - h
      BY <1>2, <2>3
    <3>2. k = i - (h + 1) + 1 /\ k + 1 = i - h + 1 /\ i # h /\ h <= i
      BY <2>3, <3>1
    <3> QED
      BY <1>3, <2>2, <2>3, <3>1, <3>2
  <2>4. CASE ~(h + 1 <= i /\ i < l)
    BY <2>2, <2>4
  <2> QED
    BY <2>3, <2>4
<1>5. Spent(q) = Changed(q, l, h + 1, u)
  BY <1>0, <1>4 DEF Spent, Changed, Queues
<1>6. Fits(q.cap, l, h + 1, u)
  <2>1. h + 1 <= l /\ Len(u) = l - (h + 1)
    BY <1>2, <1>3
  <2>2. q.cap \in Nat /\ l <= q.cap
    BY <1>0
  <2> QED
    BY <1>2, <1>3, <2>1, <2>2 DEF Fits
<1>7. /\ Holds(Changed(q, l, h + 1, u), u)
      /\ Changed(q, l, h + 1, u).len = l /\ Changed(q, l, h + 1, u).head = h + 1
  BY <1>0, <1>6, ChangedHolds, SMTT(60)
<1> QED
  BY <1>0, <1>5, <1>7

Cleared(q) ==
    [q EXCEPT !.slots = [i \in DOMAIN @ |-> IF i < q.len THEN zero ELSE @[i]],
              !.len = 0, !.head = 0]

LEMMA ClearedHolds ==
    ASSUME Parameters, NEW q, NEW s, Holds(q, s)
    PROVE  Holds(Cleared(q), <<>>) /\ Cleared(q).len = 0 /\ Cleared(q).head = 0
<1> DEFINE e == <<>>
<1>0. PICK c, l, h \in Nat : /\ c = q.cap /\ l = q.len /\ q \in Queues
                             /\ q.slots = Image(c, l, h, s)
  BY DEF Holds, Queues
<1>1. Image(c, 0, 0, e) = [i \in 0 .. c - 1 |-> zero]
  BY DEF Image
<1>2. [i \in DOMAIN q.slots |-> IF i < q.len THEN zero ELSE q.slots[i]] = Image(q.cap, 0, 0, e)
  <2>1. \A i \in 0 .. c - 1 : ~(i < l) => q.slots[i] = zero
    BY <1>0 DEF Image
  <2>2. DOMAIN q.slots = 0 .. c - 1
    BY <1>0 DEF Image
  <2> QED
    BY <1>0, <1>1, <2>1, <2>2
<1>3. Fits(q.cap, 0, 0, e)
  BY <1>0 DEF Fits
<1> HIDE DEF e
<1>4. Cleared(q) = Changed(q, 0, 0, e)
  BY <1>2 DEF Cleared, Changed
<1>5. /\ Holds(Changed(q, 0, 0, e), e)
      /\ Changed(q, 0, 0, e).len = 0 /\ Changed(q, 0, 0, e).head = 0
  BY <1>0, <1>3, ChangedHolds
<1> QED
  BY <1>4, <1>5 DEF e

-----------------------------------------------------------------------------
(* The invariant: the array holds the elements that are listed, and no     *)
(* more than half of the slice is spent.                                   *)
QueueInv == Holds(queue, Elements(queue)) /\ 2 * queue.head <= queue.len

LEMMA HalfSpent ==
    ASSUME NEW q, NEW s, Holds(q, s), 2 * q.head <= q.len, queue' = q
    PROVE  QueueInv' /\ Elements(queue') = s
<1>1. Holds(queue', s) /\ Elements(queue') = s /\ 2 * queue'.head <= queue'.len
  BY HeldElements
<1> QED
  BY <1>1 DEF QueueInv

LEMMA InitQueueInv == ASSUME Parameters, QueueInit PROVE QueueInv
<1>1. ASSUME NEW s \in Batches, queue = Exactly(s) PROVE QueueInv
  <2>1. s \in Seq(Values)
    BY DEF Parameters
  <2>2. Holds(queue, s) /\ queue.len = Len(s) /\ queue.head = 0
    BY <1>1, <2>1, ExactlyHolds
  <2>3. Elements(queue) = s
    BY <2>2, HeldElements
  <2> QED
    BY <2>1, <2>2, <2>3 DEF QueueInv
<1>2. ASSUME NEW c \in Capacities, queue = Array(c, 0, 0, LAMBDA i : zero) PROVE QueueInv
  <2>1. c \in Nat
    BY DEF Parameters
  <2>2. Holds(queue, <<>>) /\ queue.len = 0 /\ queue.head = 0
    BY <1>2, <2>1, EmptyHolds
  <2>3. Elements(queue) = <<>>
    BY <2>2, HeldElements
  <2> QED
    BY <2>2, <2>3 DEF QueueInv
<1> QED
  BY <1>1, <1>2 DEF QueueInit

\* Every call keeps the invariant and does to the elements what it should.
Keeps == QueueInv' /\ StepOfAQueue

LEMMA QueueStepKeeps == ASSUME Parameters, QueueInv, QueueNext PROVE Keeps
<1> DEFINE s == Elements(queue)
<1>0. /\ Holds(queue, s) /\ 2 * queue.head <= queue.len
      /\ queue.head \in Nat /\ queue.len \in Nat /\ s \in Seq(Values)
      /\ s = <<>> <=> queue.head >= queue.len
      /\ s # <<>> => Head(s) = queue.slots[queue.head]
  BY HeldElements DEF QueueInv, Holds
<1> HIDE DEF s
<1>f. Front = IF s = <<>> THEN <<>> ELSE <<Head(s)>>
  BY <1>0 DEF Front
<1>1. CASE EnqueueAll
  <2>1. PICK t \in Batches : queue' = Appended(queue, t) /\ Called("enqueueAll", t)
    BY <1>1 DEF EnqueueAll
  <2>2. t \in Seq(Values)
    BY DEF Parameters
  <2>3. PICK u : u = s \o t
    OBVIOUS
  <2>4. /\ Holds(Appended(queue, t), u)
        /\ Appended(queue, t).head = queue.head /\ Appended(queue, t).len >= queue.len
    BY <1>0, <2>2, <2>3, AppendedHolds
  <2>5. Appended(queue, t).len \in Nat
    BY <2>4, HeldElements
  <2>6. 2 * Appended(queue, t).head <= Appended(queue, t).len
    BY <1>0, <2>4, <2>5
  <2>7. QueueInv' /\ Elements(queue') = s \o t
    BY <2>1, <2>3, <2>4, <2>6, HalfSpent
  <2>8. queueCall'.name = "enqueueAll" /\ queueCall'.elems = t
    BY <2>1 DEF Called
  <2> QED
    BY <2>7, <2>8 DEF Keeps, StepOfAQueue, s
<1>2. CASE Dequeue
  <2> DEFINE q == Spent(queue)
             u == SubSeq(s, 2, Len(s))
  <2>1. /\ queue.head < queue.len
        /\ queue' = IF q.head > q.len \div 2 THEN Compact(q) ELSE q
        /\ queueReturned' = Front /\ Called("dequeue", <<>>)
    BY <1>2 DEF Dequeue, Spent
  <2>2. Holds(q, u) /\ q.len = queue.len /\ q.head = queue.head + 1
    BY <1>0, <2>1, SpentHolds
  <2> HIDE DEF q, u
  <2>3. QueueInv' /\ Elements(queue') = u
    <3>1. CASE q.head > q.len \div 2
      <4>1. Holds(Compact(q), u) /\ Compact(q).head = 0
        BY <2>2, CompactHolds
      <4>2. 2 * Compact(q).head <= Compact(q).len
        BY <4>1, HeldElements
      <4> QED
        BY <2>1, <3>1, <4>1, <4>2, HalfSpent
    <3>2. CASE ~(q.head > q.len \div 2)
      <4>1. 2 * q.head <= q.len
        BY <1>0, <2>2, <3>2
      <4> QED
        BY <2>1, <2>2, <3>2, <4>1, HalfSpent
    <3> QED
      BY <3>1, <3>2
  <2>4. queueCall'.name = "dequeue"
    BY <2>1 DEF Called
  <2> QED
    BY <1>f, <2>1, <2>3, <2>4 DEF Keeps, StepOfAQueue, s, u
<1>3. CASE DequeueNothing
  <2>1. queue.head >= queue.len /\ queue' = queue /\ queueReturned' = <<>> /\ Called("dequeue", <<>>)
    BY <1>3 DEF DequeueNothing
  <2>2. s = <<>> /\ SubSeq(s, 2, Len(s)) = s
    BY <1>0, <2>1
  <2>3. QueueInv' /\ Elements(queue') = s
    BY <2>1 DEF QueueInv, s
  <2>4. queueCall'.name = "dequeue"
    BY <2>1 DEF Called
  <2> QED
    BY <2>1, <2>2, <2>3, <2>4 DEF Keeps, StepOfAQueue, s
<1>4. CASE Peek
  <2>1. queue' = queue /\ queueReturned' = Front /\ Called("peek", <<>>)
    BY <1>4 DEF Peek
  <2>2. QueueInv' /\ Elements(queue') = s
    BY <2>1 DEF QueueInv, s
  <2>3. queueCall'.name = "peek"
    BY <2>1 DEF Called
  <2> QED
    BY <1>f, <2>1, <2>2, <2>3 DEF Keeps, StepOfAQueue, s
<1>5. CASE ClearQueue
  <2>1. queue' = Cleared(queue) /\ Called("replace", <<>>)
    BY <1>5 DEF ClearQueue, Cleared
  <2>2. Holds(Cleared(queue), <<>>) /\ 2 * Cleared(queue).head <= Cleared(queue).len
    BY <1>0, ClearedHolds
  <2>3. QueueInv' /\ Elements(queue') = <<>>
    BY <2>1, <2>2, HalfSpent
  <2>4. queueCall'.name = "replace" /\ queueCall'.elems = <<>>
    BY <2>1 DEF Called
  <2> QED
    BY <2>3, <2>4 DEF Keeps, StepOfAQueue
<1>6. CASE DecodeQueue
  <2>1. PICK t \in Batches : queue' = Exactly(t) /\ Called("replace", t)
    BY <1>6 DEF DecodeQueue
  <2>2. t \in Seq(Values)
    BY DEF Parameters
  <2>3. Holds(Exactly(t), t) /\ Exactly(t).len = Len(t) /\ Exactly(t).head = 0
    BY <2>2, ExactlyHolds
  <2>4. 2 * Exactly(t).head <= Exactly(t).len
    BY <2>2, <2>3
  <2>5. QueueInv' /\ Elements(queue') = t
    BY <2>1, <2>3, <2>4, HalfSpent
  <2>6. queueCall'.name = "replace" /\ queueCall'.elems = t
    BY <2>1 DEF Called
  <2> QED
    BY <2>5, <2>6 DEF Keeps, StepOfAQueue
<1> QED
  BY <1>1, <1>2, <1>3, <1>4, <1>5, <1>6 DEF QueueNext

LEMMA StepQueueInv == ASSUME Parameters PROVE QueueInv /\ [QueueNext]_queueVars => QueueInv'
<1>1. QueueInv /\ UNCHANGED queueVars => QueueInv'
  BY DEF queueVars, QueueInv
<1> QED
  BY <1>1, QueueStepKeeps DEF Keeps

(***************************************************************************)
(* The array refers to no element that left the queue, and at most half of *)
(* the slice is spent, whatever was enqueued, compacted or shrunk          *)
(* (arrayqueue.go:70-84, 111-136).                                         *)
(***************************************************************************)
THEOREM QueueRetainsNothing ==
    ASSUME Parameters
    PROVE  QueueSpec => []NothingRetained
<1>1. QueueInit => QueueInv
  BY InitQueueInv
<1>2. QueueInv /\ [QueueNext]_queueVars => QueueInv'
  BY StepQueueInv
<1>3. QueueInv => NothingRetained
  BY DEF QueueInv, Holds, Queues, Image, NothingRetained
<1> QED
  BY <1>1, <1>2, <1>3, PTL DEF QueueSpec

(***************************************************************************)
(* Dequeue and Peek answer with the elements in the order they came, and   *)
(* no other call loses, repeats or reorders one.                           *)
(***************************************************************************)
THEOREM QueueIsFirstInFirstOut ==
    ASSUME Parameters
    PROVE  QueueSpec => IsAQueue
<1>1. QueueInit => QueueInv
  BY InitQueueInv
<1>2. QueueInv /\ [QueueNext]_queueVars => QueueInv'
  BY StepQueueInv
<1>3. QueueInv /\ [QueueNext]_queueVars => [StepOfAQueue]_queueVars
  BY QueueStepKeeps DEF Keeps
<1> QED
  BY <1>1, <1>2, <1>3, PTL DEF QueueSpec, IsAQueue

-----------------------------------------------------------------------------

USE ValueAssumption, GivenAssumption, BoundAssumption

\* What the corrected % is on the indexes the methods give it.
LEMMA Wrap ==
    ASSUME NEW m \in Nat \ {0}, NEW n \in -1 .. 2 * m - 1
    PROVE  Mod(n, m) = IF n < 0 THEN n + m ELSE IF n < m THEN n ELSE n - m
<1>1. CASE n = -1
  <2>1. CASE m = 1
    BY <1>1, <2>1 DEF Mod, Rem
  <2>2. CASE m > 1
    <3>1. 1 % m = 1
      BY <2>2
    <3> QED
      BY <1>1, <2>2, <3>1 DEF Mod, Rem
  <2> QED
    BY <2>1, <2>2
<1>2. CASE n \in 0 .. m - 1
  <2>1. n % m = n
    BY <1>2
  <2> QED
    BY <1>2, <2>1 DEF Mod, Rem
<1>3. CASE n \in m .. 2 * m - 1
  <2>1. n % m = n - m
    BY <1>3
  <2> QED
    BY <1>3, <2>1 DEF Mod, Rem
<1> QED
  BY <1>1, <1>2, <1>3

\* The ring position of the i-th element, and that no two share one.
LEMMA Positions ==
    ASSUME NEW m \in Nat \ {0}, NEW f \in 0 .. m - 1
    PROVE  /\ \A i \in 0 .. m : Mod(f + i, m) = IF f + i < m THEN f + i ELSE f + i - m
           /\ \A i \in 0 .. m - 1 : Mod(f + i, m) \in 0 .. m - 1
           /\ \A i, j \in 0 .. m - 1 : i # j => Mod(f + i, m) # Mod(f + j, m)
<1>1. \A i \in 0 .. m : Mod(f + i, m) = IF f + i < m THEN f + i ELSE f + i - m
  <2> TAKE i \in 0 .. m
  <2>1. f + i \in -1 .. 2 * m - 1
    OBVIOUS
  <2> QED
    BY <2>1, Wrap
<1>2. \A i \in 0 .. m - 1 : Mod(f + i, m) = IF f + i < m THEN f + i ELSE f + i - m
  BY <1>1
<1>3. \A i \in 0 .. m - 1 : Mod(f + i, m) \in 0 .. m - 1
  <2> TAKE i \in 0 .. m - 1
  <2>1. Mod(f + i, m) = IF f + i < m THEN f + i ELSE f + i - m
    BY <1>2
  <2> QED
    BY <2>1
<1>4. \A i, j \in 0 .. m - 1 : i # j => Mod(f + i, m) # Mod(f + j, m)
  <2> TAKE i, j \in 0 .. m - 1
  <2>1. /\ Mod(f + i, m) = IF f + i < m THEN f + i ELSE f + i - m
        /\ Mod(f + j, m) = IF f + j < m THEN f + j ELSE f + j - m
    BY <1>2
  <2> QED
    BY <2>1
<1> QED
  BY <1>1, <1>3, <1>4

\* The two segments of copyTo are the elements in order.
LEMMA CopyFacts ==
    ASSUME IInv
    PROVE  CopyIsContent
<1> SUFFICES ASSUME NEW i \in 0 .. size - 1
             PROVE  Copied(i) = At(i)
  BY DEF CopyIsContent
<1>0. length \in Nat /\ size \in Nat /\ front \in Nat /\ size <= length
  BY DEF IInv, TypeOK, RingSound
<1>1. /\ length \in Nat \ {0} /\ size \in 0 .. length
      /\ front \in 0 .. length - 1
  BY <1>0 DEF IInv, RingSound
<1>2. Mod(front + i, length) = IF front + i < length THEN front + i ELSE front + i - length
  BY <1>1, Positions
<1> QED
  BY <1>1, <1>2 DEF Copied, At

\* After ensureCapacityForOne there is a free slot, and the elements and the
\* cleared slots are in the same order as before.
LEMMA RoomFacts ==
    ASSUME IInv
    PROVE  /\ Room.length \in Nat \ {0} /\ size < Room.length
           /\ Room.buf \in [0 .. Room.length - 1 -> Values]
           /\ Room.front \in 0 .. Room.length - 1
           /\ Room.back \in 0 .. Room.length - 1
           /\ Room.back = Mod(Room.front + size, Room.length)
           /\ \A i \in 0 .. size - 1 : Room.buf[Mod(Room.front + i, Room.length)] = At(i)
           /\ \A i \in size .. Room.length - 1 : Room.buf[Mod(Room.front + i, Room.length)] = zero
<1>0. length \in Nat /\ size \in Nat /\ buf \in [0 .. length - 1 -> Values] /\ front \in Nat
  BY DEF IInv, TypeOK
<1>1. CASE size < length
  <2>1. Room = [buf |-> buf, length |-> length, front |-> front, back |-> back]
    BY <1>1 DEF Room
  <2>2. /\ front \in 0 .. length - 1 /\ back = Mod(front + size, length)
        /\ \A i \in size .. length - 1 : At(i) = zero
    BY <1>0, <1>1 DEF IInv, RingSound
  <2>3. back \in 0 .. length - 1
    BY <1>0, <1>1, <2>2, Positions
  <2> QED
    BY <1>0, <1>1, <2>1, <2>2, <2>3 DEF At
<1>2. CASE ~(size < length)
  <2> DEFINE c == IF length > 0 THEN length * 2 ELSE 1
             b == [i \in 0 .. c - 1 |-> IF i < size THEN Copied(i) ELSE zero]
  <2>1. Room = [buf |-> b, length |-> c, front |-> 0, back |-> size]
    BY <1>2 DEF Room
  <2>2. c \in Nat \ {0} /\ size < c /\ size = length
    BY <1>0, <1>2 DEF IInv, RingSound
  <2>3. \A i \in 0 .. size - 1 : Copied(i) = At(i) /\ At(i) \in Values
    <3> TAKE i \in 0 .. size - 1
    <3>1. Copied(i) = At(i)
      BY CopyFacts DEF CopyIsContent
    <3>2. front \in 0 .. length - 1
      BY <1>0, <2>2 DEF IInv, RingSound
    <3>3. Mod(front + i, length) \in 0 .. length - 1
      BY <1>0, <2>2, <3>2, Positions
    <3> QED
      BY <1>0, <3>1, <3>3 DEF At
  <2>4. b \in [0 .. c - 1 -> Values]
    <3> HIDE DEF c
    <3>1. \A i \in 0 .. c - 1 : (IF i < size THEN Copied(i) ELSE zero) \in Values
      BY <1>0, <2>2, <2>3
    <3> QED
      BY <3>1
  <2>5. \A i \in 0 .. c - 1 : Mod(0 + i, c) = i
    <3> HIDE DEF c
    <3>1. 0 \in 0 .. c - 1
      BY <2>2
    <3>2. \A i \in 0 .. c : Mod(0 + i, c) = IF 0 + i < c THEN 0 + i ELSE 0 + i - c
      BY <2>2, <3>1, Positions
    <3> QED
      BY <2>2, <3>2
  <2>6. Mod(0 + size, c) = size
    BY <1>0, <2>2, <2>5
  <2>7. \A i \in 0 .. size - 1 : b[i] = At(i)
    BY <1>0, <2>2, <2>3
  <2>8. \A i \in size .. c - 1 : b[i] = zero
    BY <1>0, <2>2
  <2>9. /\ Room.length = c /\ Room.buf = b /\ Room.front = 0 /\ Room.back = size
    BY <2>1
  <2> HIDE DEF c, b
  <2>10. \A i \in 0 .. size - 1 : b[Mod(0 + i, c)] = At(i)
    BY <1>0, <2>2, <2>5, <2>7
  <2>11. \A i \in size .. c - 1 : b[Mod(0 + i, c)] = zero
    BY <1>0, <2>2, <2>5, <2>8
  <2>12. /\ Room.length \in Nat \ {0} /\ size < Room.length
         /\ Room.buf \in [0 .. Room.length - 1 -> Values]
         /\ Room.front \in 0 .. Room.length - 1
         /\ Room.back \in 0 .. Room.length - 1
    BY <1>0, <2>2, <2>4, <2>9
  <2>13. Room.back = Mod(Room.front + size, Room.length)
    BY <2>6, <2>9
  <2>14. \A i \in 0 .. size - 1 : Room.buf[Mod(Room.front + i, Room.length)] = At(i)
    BY <2>9, <2>10
  <2>15. \A i \in size .. Room.length - 1 : Room.buf[Mod(Room.front + i, Room.length)] = zero
    BY <2>9, <2>11
  <2> QED
    BY <2>12, <2>13, <2>14, <2>15
<1> QED
  BY <1>1, <1>2

-----------------------------------------------------------------------------
\* One step of head or tail around the ring moves every position by one.
LEMMA Turns ==
    ASSUME NEW m \in Nat \ {0}, NEW f \in 0 .. m - 1
    PROVE  /\ Mod(f - 1, m) = Mod(f + (m - 1), m)
           /\ Mod(f - 1, m) \in 0 .. m - 1 /\ Mod(f + 1, m) \in 0 .. m - 1
           /\ \A i \in 1 .. m : Mod(Mod(f - 1, m) + i, m) = Mod(f + (i - 1), m)
           /\ \A i \in 0 .. m - 1 : Mod(Mod(f + 1, m) + i, m) = Mod(f + (i + 1), m)
           /\ \A i \in 0 .. m - 1 : Mod(Mod(f + i, m) + 1, m) = Mod(f + (i + 1), m)
           /\ \A i \in 1 .. m : Mod(Mod(f + i, m) - 1, m) = Mod(f + (i - 1), m)
<1>1. \A i \in 0 .. m : Mod(f + i, m) = IF f + i < m THEN f + i ELSE f + i - m
  BY Positions
<1>2. Mod(f - 1, m) = IF f = 0 THEN m - 1 ELSE f - 1
  <2>1. f - 1 \in -1 .. 2 * m - 1
    OBVIOUS
  <2> QED
    BY <2>1, Wrap
<1>3. Mod(f + 1, m) = IF f + 1 < m THEN f + 1 ELSE f + 1 - m
  BY <1>1
<1>4. Mod(f - 1, m) \in 0 .. m - 1 /\ Mod(f + 1, m) \in 0 .. m - 1
  BY <1>2, <1>3
<1>5. Mod(f - 1, m) = Mod(f + (m - 1), m)
  <2>1. Mod(f + (m - 1), m) = IF f + (m - 1) < m THEN f + (m - 1) ELSE f + (m - 1) - m
    BY <1>1
  <2> QED
    BY <1>2, <2>1
<1>6. \A i \in 1 .. m : Mod(Mod(f - 1, m) + i, m) = Mod(f + (i - 1), m)
  <2> TAKE i \in 1 .. m
  <2> DEFINE g == Mod(f - 1, m)
  <2>1. Mod(g + i, m) = IF g + i < m THEN g + i ELSE g + i - m
    <3>1. g \in 0 .. m - 1
      BY <1>4
    <3> HIDE DEF g
    <3>2. g + i \in -1 .. 2 * m - 1 /\ g + i >= 0
      BY <3>1
    <3> QED
      BY <3>1, <3>2, Wrap
  <2>2. Mod(f + (i - 1), m) = IF f + (i - 1) < m THEN f + (i - 1) ELSE f + (i - 1) - m
    <3>1. f + (i - 1) \in -1 .. 2 * m - 1 /\ f + (i - 1) >= 0
      OBVIOUS
    <3> QED
      BY <3>1, Wrap
  <2> QED
    BY <1>2, <2>1, <2>2
<1>7. \A i \in 0 .. m - 1 : Mod(Mod(f + 1, m) + i, m) = Mod(f + (i + 1), m)
  <2> TAKE i \in 0 .. m - 1
  <2> DEFINE g == Mod(f + 1, m)
  <2>1. Mod(g + i, m) = IF g + i < m THEN g + i ELSE g + i - m
    <3>1. g \in 0 .. m - 1
      BY <1>4
    <3> HIDE DEF g
    <3>2. g + i \in -1 .. 2 * m - 1 /\ g + i >= 0
      BY <3>1
    <3> QED
      BY <3>1, <3>2, Wrap
  <2>2. Mod(f + (i + 1), m) = IF f + (i + 1) < m THEN f + (i + 1) ELSE f + (i + 1) - m
    <3>1. f + (i + 1) \in -1 .. 2 * m - 1 /\ f + (i + 1) >= 0
      OBVIOUS
    <3> QED
      BY <3>1, Wrap
  <2> QED
    BY <1>3, <2>1, <2>2
<1>8. \A i \in 0 .. m - 1 : Mod(Mod(f + i, m) + 1, m) = Mod(f + (i + 1), m)
  <2> TAKE i \in 0 .. m - 1
  <2> DEFINE g == Mod(f + i, m)
  <2>0. g = IF f + i < m THEN f + i ELSE f + i - m
    BY <1>1
  <2>1. Mod(g + 1, m) = IF g + 1 < m THEN g + 1 ELSE g + 1 - m
    <3> HIDE DEF g
    <3>1. g \in 0 .. m - 1
      BY <2>0
    <3> QED
      BY <3>1, Positions
  <2>2. Mod(f + (i + 1), m) = IF f + (i + 1) < m THEN f + (i + 1) ELSE f + (i + 1) - m
    <3>1. f + (i + 1) \in -1 .. 2 * m - 1 /\ f + (i + 1) >= 0
      OBVIOUS
    <3> QED
      BY <3>1, Wrap
  <2> QED
    BY <2>0, <2>1, <2>2
<1>9. \A i \in 1 .. m : Mod(Mod(f + i, m) - 1, m) = Mod(f + (i - 1), m)
  <2> TAKE i \in 1 .. m
  <2> DEFINE g == Mod(f + i, m)
  <2>0. g = IF f + i < m THEN f + i ELSE f + i - m
    BY <1>1, SMTT(60)
  <2>1. Mod(g - 1, m) = IF g - 1 < 0 THEN g - 1 + m ELSE g - 1
    <3> HIDE DEF g
    <3>1. g - 1 \in -1 .. m - 1 /\ g - 1 \in -1 .. 2 * m - 1
      BY <2>0
    <3> QED
      BY <3>1, Wrap
  <2>2. Mod(f + (i - 1), m) = IF f + (i - 1) < m THEN f + (i - 1) ELSE f + (i - 1) - m
    <3>1. f + (i - 1) \in -1 .. 2 * m - 1 /\ f + (i - 1) >= 0
      OBVIOUS
    <3> QED
      BY <3>1, Wrap
  <2> QED
    BY <2>0, <2>1, <2>2
<1> QED
  BY <1>4, <1>5, <1>6, <1>7, <1>8, <1>9

-----------------------------------------------------------------------------
\* A slice of exactly the elements is a full ring.
LEMMA FullSlice ==
    ASSUME NEW s \in Given
    PROVE  /\ Len(s) \in Nat /\ s \in Seq(Values)
           /\ SliceOf(s) \in [0 .. Len(s) - 1 -> Values]
           /\ Len(s) # 0 => Mod(0 + Len(s), Len(s)) = 0
<1>1. Len(s) \in Nat /\ s \in Seq(Values)
  OBVIOUS
<1>2. SliceOf(s) \in [0 .. Len(s) - 1 -> Values]
  BY <1>1 DEF SliceOf
<1>3. Len(s) # 0 => Mod(0 + Len(s), Len(s)) = 0
  <2>1. Len(s) # 0 => 0 + Len(s) \in -1 .. 2 * Len(s) - 1 /\ Len(s) \in Nat \ {0}
    BY <1>1
  <2> QED
    BY <2>1, Wrap
<1> QED
  BY <1>1, <1>2, <1>3

\* An empty ring of any length, all slots cleared.
LEMMA EmptySlice ==
    ASSUME NEW n \in Nat, NEW b, b = [i \in 0 .. n - 1 |-> zero]
    PROVE  /\ b \in [0 .. n - 1 -> Values]
           /\ n # 0 => Mod(0 + 0, n) = 0
           /\ \A i \in 0 .. n - 1 : b[Mod(0 + i, n)] = zero
<1>1. n # 0 => \A i \in 0 .. n - 1 : Mod(0 + i, n) \in 0 .. n - 1
  <2>1. n # 0 => 0 \in 0 .. n - 1
    OBVIOUS
  <2> QED
    BY <2>1, Positions
<1>2. n # 0 => Mod(0 + 0, n) = 0
  <2>1. n # 0 => 0 + 0 \in -1 .. 2 * n - 1 /\ n \in Nat \ {0}
    OBVIOUS
  <2> QED
    BY <2>1, Wrap
<1> QED
  BY <1>1, <1>2

\* The constructors make a sound ring.
LEMMA InitIInv ==
    ASSUME Init
    PROVE  IInv
<1>0. front = 0 /\ back = 0 /\ answer \in Values \X BOOLEAN
  BY DEF Init, Nothing
<1>1. CASE \E n \in 0 .. MaxSize : length = n /\ buf = [i \in 0 .. n - 1 |-> zero] /\ size = 0
  <2>1. length \in Nat /\ size = 0 /\ buf = [i \in 0 .. length - 1 |-> zero]
    BY <1>1
  <2> QED
    BY <1>0, <2>1, EmptySlice DEF IInv, TypeOK, RingSound, At
<1>2. CASE \E s \in Given : length = Len(s) /\ size = Len(s) /\ buf = SliceOf(s)
  <2>1. PICK s \in Given : length = Len(s) /\ size = Len(s) /\ buf = SliceOf(s)
    BY <1>2
  <2>2. /\ length \in Nat /\ size = length /\ buf \in [0 .. length - 1 -> Values]
        /\ length # 0 => Mod(0 + length, length) = 0
    BY <2>1, FullSlice
  <2> QED
    BY <1>0, <2>2 DEF IInv, TypeOK, RingSound
<1> QED
  BY <1>1, <1>2 DEF Init

\* A decode installs what a constructor would.
LEMMA ReplaceStep ==
    ASSUME IInv, ReplaceFromSlice
    PROVE  IInv'
<1>0. front' = 0 /\ back' = 0 /\ answer' \in Values \X BOOLEAN
  BY DEF ReplaceFromSlice, IInv, TypeOK
<1>1. PICK s \in Given : buf' = SliceOf(s) /\ length' = Len(s) /\ size' = Len(s)
  BY DEF ReplaceFromSlice
<1> DEFINE n == Len(s)
<1>2. /\ n \in Nat /\ SliceOf(s) \in [0 .. n - 1 -> Values]
      /\ n # 0 => Mod(0 + n, n) = 0
  BY FullSlice
<1> HIDE DEF n
<1>3. buf' = SliceOf(s) /\ length' = n /\ size' = n
  BY <1>1 DEF n
<1>4. TypeOK'
  BY <1>0, <1>2, <1>3 DEF TypeOK
<1>5. RingSound'
  BY <1>0, <1>2, <1>3 DEF RingSound
<1> QED
  BY <1>4, <1>5 DEF IInv

\* Clear keeps the buffer and empties every slot.
LEMMA ClearStep ==
    ASSUME IInv, Clear
    PROVE  IInv'
<1>1. /\ length \in Nat /\ length' = length /\ buf' = [i \in 0 .. length - 1 |-> zero]
      /\ front' = 0 /\ back' = 0 /\ size' = 0 /\ answer' \in Values \X BOOLEAN
  BY DEF Clear, IInv, TypeOK
<1>2. /\ buf' \in [0 .. length - 1 -> Values]
      /\ length # 0 => Mod(0 + 0, length) = 0
      /\ \A i \in 0 .. length - 1 : buf'[Mod(0 + i, length)] = zero
  BY <1>1, EmptySlice
<1>3. TypeOK'
  BY <1>1, <1>2 DEF TypeOK
<1>4. \A i \in 0 .. length' - 1 : At(i)' = zero
  BY <1>1, <1>2 DEF At
<1>5. RingSound'
  BY <1>1, <1>2, <1>4 DEF RingSound
<1> QED
  BY <1>3, <1>5 DEF IInv

\* What a ring that is not empty looks like.
LEMMA RingFacts ==
    ASSUME IInv, size # 0
    PROVE  /\ length \in Nat \ {0} /\ size \in 1 .. length
           /\ buf \in [0 .. length - 1 -> Values]
           /\ front \in 0 .. length - 1 /\ back = Mod(front + size, length)
           /\ back \in 0 .. length - 1
           /\ \A i \in 0 .. length - 1 : At(i) \in Values
           /\ \A i \in size .. length - 1 : At(i) = zero
<1>1. /\ length \in Nat /\ size \in Nat /\ buf \in [0 .. length - 1 -> Values]
      /\ front \in Nat /\ size <= length
  BY DEF IInv, TypeOK, RingSound
<1>2. length \in Nat \ {0} /\ size \in 1 .. length /\ size \in 0 .. length
  BY <1>1
<1>3. front \in 0 .. length - 1 /\ back = Mod(front + size, length)
  BY <1>1, <1>2 DEF IInv, RingSound
<1>4. back \in 0 .. length - 1
  <2>1. Mod(front + size, length) = IF front + size < length THEN front + size ELSE front + size - length
    BY <1>2, <1>3, Positions
  <2> QED
    BY <1>2, <1>3, <2>1
<1>5. \A i \in 0 .. length - 1 : At(i) \in Values
  BY <1>1, <1>2, <1>3, Positions DEF At
<1> QED
  BY <1>1, <1>2, <1>3, <1>4, <1>5 DEF IInv, RingSound

-----------------------------------------------------------------------------
\* The new front element comes before all others; tail stays.
LEMMA PushFrontStep ==
    ASSUME IInv, NEW v \in Values, PushFront(v)
    PROVE  IInv' /\ At(0)' = v /\ \A i \in 1 .. size : At(i)' = At(i - 1)
<1> DEFINE L == Room.length
           B == Room.buf
           F == Room.front
           T == Room.back
           f == Mod(F - 1, L)
<1>1. /\ L \in Nat \ {0} /\ size \in Nat /\ size < L /\ B \in [0 .. L - 1 -> Values]
      /\ F \in 0 .. L - 1 /\ T \in 0 .. L - 1 /\ T = Mod(F + size, L)
      /\ \A i \in 0 .. size - 1 : B[Mod(F + i, L)] = At(i)
      /\ \A i \in size .. L - 1 : B[Mod(F + i, L)] = zero
  BY RoomFacts DEF IInv, TypeOK
<1>2. /\ length' = L /\ front' = f /\ back' = T /\ size' = size + 1
      /\ buf' = [B EXCEPT ![f] = v] /\ answer' \in Values \X BOOLEAN
  BY DEF PushFront, IInv, TypeOK
<1> HIDE DEF L, B, F, T
<1>3. /\ f \in 0 .. L - 1 /\ f = Mod(F + (L - 1), L)
      /\ \A i \in 1 .. L : Mod(f + i, L) = Mod(F + (i - 1), L)
  BY <1>1, Turns
<1> HIDE DEF f
<1>4. \A i \in 1 .. L - 1 : Mod(f + i, L) # f /\ Mod(f + i, L) \in 0 .. L - 1
  <2> TAKE i \in 1 .. L - 1
  <2> DEFINE j == i - 1
             k == L - 1
  <2>1. j \in 0 .. L - 1 /\ k \in 0 .. L - 1 /\ j # k
    BY <1>1
  <2>2. Mod(f + i, L) = Mod(F + j, L) /\ f = Mod(F + k, L)
    BY <1>1, <1>3
  <2> HIDE DEF j, k
  <2>3. Mod(F + j, L) \in 0 .. L - 1 /\ Mod(F + j, L) # Mod(F + k, L)
    BY <1>1, <2>1, Positions, ZenonT(60)
  <2> QED
    BY <2>2, <2>3
<1>5. Mod(f + 0, L) = f
  <2>1. f + 0 \in -1 .. 2 * L - 1 /\ f + 0 = f /\ f >= 0 /\ f < L
    BY <1>1, <1>3, SMTT(60)
  <2> QED
    BY <1>1, <2>1, Wrap
<1>6. buf' \in [0 .. L - 1 -> Values] /\ buf'[f] = v
  BY <1>1, <1>2, <1>3
<1>7. \A i \in 1 .. L - 1 : buf'[Mod(f + i, L)] = B[Mod(F + (i - 1), L)]
  <2> TAKE i \in 1 .. L - 1
  <2>1. Mod(f + i, L) # f /\ Mod(f + i, L) \in 0 .. L - 1
    BY <1>4
  <2>2. Mod(f + i, L) = Mod(F + (i - 1), L)
    BY <1>1, <1>3
  <2>3. buf'[Mod(f + i, L)] = B[Mod(f + i, L)]
    BY <1>1, <1>2, <2>1
  <2> QED
    BY <2>2, <2>3
<1>8. \A i \in 1 .. size : At(i)' = At(i - 1)
  BY <1>1, <1>2, <1>7 DEF At
<1>9. \A i \in size + 1 .. L - 1 : At(i)' = zero
  <2> TAKE i \in size + 1 .. L - 1
  <2> DEFINE j == i - 1
  <2>1. j \in size .. L - 1 /\ i \in 1 .. L - 1
    BY <1>1
  <2>2. At(i)' = B[Mod(F + j, L)]
    BY <1>2, <1>7, <2>1 DEF At
  <2> HIDE DEF j
  <2> QED
    BY <1>1, <2>1, <2>2
<1>10. At(0)' = v
  BY <1>2, <1>5, <1>6 DEF At
<1>11. T = Mod(f + (size + 1), L)
  BY <1>1, <1>3
<1>12. TypeOK'
  BY <1>1, <1>2, <1>3, <1>6 DEF TypeOK
<1>13. RingSound'
  BY <1>1, <1>2, <1>3, <1>9, <1>11 DEF RingSound
<1> QED
  BY <1>8, <1>10, <1>12, <1>13 DEF IInv

\* The new back element goes to the free slot after the last.
LEMMA PushBackStep ==
    ASSUME IInv, NEW v \in Values, PushBack(v)
    PROVE  IInv' /\ (\A k \in {size} : At(k)' = v) /\ \A i \in 0 .. size - 1 : At(i)' = At(i)
<1> DEFINE L == Room.length
           B == Room.buf
           F == Room.front
           T == Room.back
<1>1. /\ L \in Nat \ {0} /\ size \in Nat /\ size < L /\ B \in [0 .. L - 1 -> Values]
      /\ F \in 0 .. L - 1 /\ T \in 0 .. L - 1 /\ T = Mod(F + size, L)
      /\ \A i \in 0 .. size - 1 : B[Mod(F + i, L)] = At(i)
      /\ \A i \in size .. L - 1 : B[Mod(F + i, L)] = zero
  BY RoomFacts DEF IInv, TypeOK
<1>2. /\ length' = L /\ front' = F /\ back' = Mod(T + 1, L) /\ size' = size + 1
      /\ buf' = [B EXCEPT ![T] = v] /\ answer' \in Values \X BOOLEAN
  BY DEF PushBack, IInv, TypeOK
<1> HIDE DEF L, B, F, T
<1>3. Mod(T + 1, L) = Mod(F + (size + 1), L) /\ Mod(T + 1, L) \in 0 .. L - 1
  <2>1. size \in 0 .. L - 1
    BY <1>1
  <2>2. Mod(Mod(F + size, L) + 1, L) = Mod(F + (size + 1), L)
    BY <1>1, <2>1, Turns
  <2> QED
    BY <1>1, <2>2, Turns
<1>4. \A i \in 0 .. L - 1 : /\ Mod(F + i, L) \in 0 .. L - 1
                            /\ i # size => Mod(F + i, L) # T
  BY <1>1, Positions
<1>5. buf' \in [0 .. L - 1 -> Values] /\ buf'[Mod(F + size, L)] = v
  BY <1>1, <1>2
<1>6. \A i \in 0 .. L - 1 : i # size => buf'[Mod(F + i, L)] = B[Mod(F + i, L)]
  BY <1>1, <1>2, <1>4
<1>7. \A i \in 0 .. size - 1 : At(i)' = At(i)
  <2> TAKE i \in 0 .. size - 1
  <2>1. i \in 0 .. L - 1 /\ i # size
    BY <1>1
  <2>2. At(i)' = B[Mod(F + i, L)]
    BY <1>2, <1>6, <2>1 DEF At
  <2> QED
    BY <1>1, <2>2
<1>8. \A i \in size + 1 .. L - 1 : At(i)' = zero
  <2> TAKE i \in size + 1 .. L - 1
  <2>1. i \in 0 .. L - 1 /\ i # size /\ i \in size .. L - 1
    BY <1>1
  <2>2. At(i)' = B[Mod(F + i, L)]
    BY <1>2, <1>6, <2>1 DEF At
  <2> QED
    BY <1>1, <2>1, <2>2
<1>9. \A k \in {size} : At(k)' = v
  BY <1>2, <1>5 DEF At
<1>10. TypeOK'
  BY <1>1, <1>2, <1>3, <1>5 DEF TypeOK
<1>11. RingSound'
  BY <1>1, <1>2, <1>3, <1>8 DEF RingSound
<1> QED
  BY <1>7, <1>9, <1>10, <1>11 DEF IInv

\* Head moves on; the slot it leaves is the cleared one furthest away.
LEMMA PopFrontStep ==
    ASSUME IInv, PopFront
    PROVE  IInv' /\ answer' = Found(At(0)) /\ \A i \in 0 .. size - 2 : At(i)' = At(i + 1)
<1> DEFINE L == length
           f == front
           g == Mod(f + 1, L)
<1>1. /\ L \in Nat \ {0} /\ size \in 1 .. L /\ buf \in [0 .. L - 1 -> Values]
      /\ f \in 0 .. L - 1 /\ back = Mod(f + size, L) /\ back \in 0 .. L - 1
      /\ \A i \in 0 .. L - 1 : At(i) \in Values
      /\ \A i \in size .. L - 1 : At(i) = zero
  BY RingFacts DEF PopFront
<1>2. /\ length' = L /\ front' = g /\ back' = back /\ size' = size - 1
      /\ buf' = [buf EXCEPT ![f] = zero] /\ answer' = Found(buf[f])
  BY DEF PopFront
<1>3. /\ g \in 0 .. L - 1 /\ \A i \in 0 .. L - 1 : Mod(g + i, L) = Mod(f + (i + 1), L)
  BY <1>1, Turns
<1>4. \A i \in 0 .. L - 1 : Mod(f + i, L) \in 0 .. L - 1
  BY <1>1, Positions
<1>5. Mod(f + 0, L) = f /\ Mod(f + L, L) = f
  <2>1. /\ f + 0 \in -1 .. 2 * L - 1 /\ f + 0 >= 0 /\ f + 0 < L
        /\ f + L \in -1 .. 2 * L - 1 /\ f + L >= 0 /\ ~(f + L < L)
    BY <1>1
  <2> QED
    BY <1>1, <2>1, Wrap
<1>6. answer' = Found(At(0)) /\ answer' \in Values \X BOOLEAN
  BY <1>1, <1>2, <1>5 DEF At, Found
<1> HIDE DEF g
<1>7. buf' \in [0 .. L - 1 -> Values] /\ buf'[f] = zero
  BY <1>1, <1>2
<1>8. \A i \in 0 .. L - 2 : buf'[Mod(g + i, L)] = At(i + 1)
  <2> TAKE i \in 0 .. L - 2
  <2> DEFINE j == i + 1
  <2>1. j \in 1 .. L - 1 /\ i \in 0 .. L - 1
    BY <1>1
  <2>2. Mod(g + i, L) = Mod(f + j, L)
    BY <1>3, <2>1
  <2>3. Mod(f + j, L) # f /\ Mod(f + j, L) \in 0 .. L - 1
    <3> HIDE DEF j
    <3>1. j \in 0 .. L - 1 /\ 0 \in 0 .. L - 1 /\ j # 0
      BY <1>1, <2>1
    <3>2. Mod(f + j, L) # Mod(f + 0, L)
      BY <1>1, <3>1, Positions, ZenonT(60)
    <3> QED
      BY <1>4, <1>5, <3>1, <3>2
  <2>4. buf'[Mod(f + j, L)] = buf[Mod(f + j, L)]
    BY <1>1, <1>2, <2>3
  <2> QED
    BY <2>2, <2>4 DEF At
<1>9. \A i \in 0 .. size - 2 : At(i)' = At(i + 1)
  <2> TAKE i \in 0 .. size - 2
  <2>1. i \in 0 .. L - 2
    BY <1>1
  <2> QED
    BY <1>2, <1>8, <2>1 DEF At
<1>10. \A i \in size - 1 .. L - 1 : At(i)' = zero
  <2> TAKE i \in size - 1 .. L - 1
  <2>1. CASE i = L - 1
    <3>1. i \in 0 .. L - 1 /\ i + 1 = L
      BY <1>1, <2>1
    <3>2. Mod(g + i, L) = f
      BY <1>3, <1>5, <3>1
    <3> QED
      BY <1>2, <1>7, <3>2 DEF At
  <2>2. CASE i # L - 1
    <3>1. i \in 0 .. L - 2 /\ i + 1 \in size .. L - 1
      BY <1>1, <2>2
    <3> QED
      BY <1>1, <1>2, <1>8, <3>1 DEF At
  <2> QED
    BY <2>1, <2>2
<1>11. back = Mod(g + (size - 1), L)
  <2> DEFINE k == size - 1
  <2>1. k \in 0 .. L - 1 /\ k + 1 = size
    BY <1>1
  <2>2. Mod(g + k, L) = Mod(f + (k + 1), L)
    BY <1>3, <2>1
  <2> HIDE DEF k
  <2>3. Mod(g + k, L) = Mod(f + size, L)
    BY <2>1, <2>2
  <2> QED
    BY <1>1, <2>3 DEF k
<1>12. TypeOK'
  BY <1>1, <1>2, <1>3, <1>6, <1>7 DEF TypeOK
<1>13. RingSound'
  BY <1>1, <1>2, <1>3, <1>10, <1>11 DEF RingSound
<1> QED
  BY <1>6, <1>9, <1>12, <1>13 DEF IInv

\* Tail moves back onto the last element and clears it.
LEMMA PopBackStep ==
    ASSUME IInv, PopBack
    PROVE  IInv' /\ answer' = Found(At(size - 1)) /\ \A i \in 0 .. size - 2 : At(i)' = At(i)
<1> DEFINE L == length
           f == front
           k == size - 1
           t == Mod(back - 1, L)
<1>1. /\ L \in Nat \ {0} /\ size \in 1 .. L /\ buf \in [0 .. L - 1 -> Values]
      /\ f \in 0 .. L - 1 /\ back = Mod(f + size, L)
      /\ \A i \in 0 .. L - 1 : At(i) \in Values
      /\ \A i \in size .. L - 1 : At(i) = zero
  BY RingFacts DEF PopBack
<1>2. /\ length' = L /\ front' = f /\ back' = t /\ size' = k
      /\ buf' = [buf EXCEPT ![t] = zero] /\ answer' = Found(buf[t])
  BY DEF PopBack
<1>3. k \in 0 .. L - 1 /\ size = k + 1
  BY <1>1
<1>4. t = Mod(f + k, L)
  BY <1>1, Turns
<1> HIDE DEF k, t
<1>5. \A i \in 0 .. L - 1 : /\ Mod(f + i, L) \in 0 .. L - 1
                            /\ i # k => Mod(f + i, L) # t
  BY <1>1, <1>3, <1>4, Positions, ZenonT(60)
<1>6. t \in 0 .. L - 1
  BY <1>3, <1>4, <1>5
<1>7. answer' = Found(At(k)) /\ answer' \in Values \X BOOLEAN
  BY <1>1, <1>2, <1>3, <1>4 DEF At, Found
<1>8. buf' \in [0 .. L - 1 -> Values] /\ buf'[t] = zero
  BY <1>1, <1>2, <1>6
<1>9. \A i \in 0 .. L - 1 : i # k => At(i)' = At(i)
  <2> TAKE i \in 0 .. L - 1
  <2>1. i # k => buf'[Mod(f + i, L)] = buf[Mod(f + i, L)]
    BY <1>1, <1>2, <1>5
  <2> QED
    BY <1>2, <2>1 DEF At
<1>10. \A i \in {k} : At(i)' = zero
  <2>1. buf'[Mod(f + k, L)] = zero
    BY <1>4, <1>8
  <2> QED
    BY <1>2, <2>1 DEF At
<1>11. \A i \in k .. L - 1 : At(i)' = zero
  <2> TAKE i \in k .. L - 1
  <2>1. i \in 0 .. L - 1 /\ (i # k => i \in size .. L - 1)
    BY <1>1, <1>3
  <2> QED
    BY <1>1, <1>9, <1>10, <2>1
<1>12. \A i \in 0 .. size - 2 : At(i)' = At(i)
  <2> TAKE i \in 0 .. size - 2
  <2>1. i \in 0 .. L - 1 /\ i # k
    BY <1>1, <1>3
  <2> QED
    BY <1>9, <2>1
<1>13. TypeOK'
  BY <1>1, <1>2, <1>3, <1>6, <1>7, <1>8 DEF TypeOK
<1>14. RingSound'
  BY <1>1, <1>2, <1>3, <1>4, <1>11 DEF RingSound
<1> QED
  BY <1>7, <1>12, <1>13, <1>14 DEF IInv, k

-----------------------------------------------------------------------------
\* Peeks, and pops and peeks of the empty deque, leave the ring alone.
LEMMA QuietStep ==
    ASSUME IInv, PeekFront \/ PeekBack \/ Empty
    PROVE  IInv' /\ UNCHANGED ring
<1>1. UNCHANGED ring
  BY DEF PeekFront, PeekBack, Empty
<1>2. answer' \in Values \X BOOLEAN
  <2>1. CASE Empty
    BY <2>1 DEF Empty, Nothing
  <2>2. CASE PeekFront
    <3>1. front \in 0 .. length - 1 /\ buf \in [0 .. length - 1 -> Values]
      BY <2>2, RingFacts DEF PeekFront
    <3> QED
      BY <2>2, <3>1 DEF PeekFront, Found
  <2>3. CASE PeekBack
    <3>1. /\ length \in Nat \ {0} /\ back \in 0 .. length - 1
          /\ buf \in [0 .. length - 1 -> Values]
      BY <2>3, RingFacts DEF PeekBack
    <3>2. Mod(back - 1, length) \in 0 .. length - 1
      BY <3>1, Turns
    <3> QED
      BY <2>3, <3>1, <3>2 DEF PeekBack, Found
  <2> QED
    BY <2>1, <2>2, <2>3
<1> QED
  BY <1>1, <1>2 DEF ring, IInv, TypeOK, RingSound, At

\* The ring is sound after every call.
LEMMA NextIInv == IInv /\ [Next]_vars => IInv'
<1> SUFFICES ASSUME IInv, [Next]_vars
             PROVE  IInv'
  OBVIOUS
<1>1. ASSUME NEW v \in Values, PushFront(v)
      PROVE  IInv'
  BY <1>1, PushFrontStep
<1>2. ASSUME NEW v \in Values, PushBack(v)
      PROVE  IInv'
  BY <1>2, PushBackStep
<1>3. CASE PopFront
  BY <1>3, PopFrontStep
<1>4. CASE PopBack
  BY <1>4, PopBackStep
<1>5. CASE PeekFront \/ PeekBack \/ Empty
  BY <1>5, QuietStep
<1>6. CASE Clear
  BY <1>6, ClearStep
<1>7. CASE ReplaceFromSlice
  BY <1>7, ReplaceStep
<1>8. CASE UNCHANGED vars
  BY <1>8 DEF vars, ring, IInv, TypeOK, RingSound, At
<1> QED
  BY <1>1, <1>2, <1>3, <1>4, <1>5, <1>6, <1>7, <1>8 DEF Next

\* In every behaviour the types and the ring hold.
THEOREM Invariant == Spec => []IInv
<1>1. Init => IInv
  BY InitIInv
<1> QED
  BY <1>1, NextIInv, PTL DEF Spec

\* Head and tail are never negative, as Go's % alone would make them, and the
\* buffer is always length slots of values (lines 168-193), for every capacity,
\* 0 included.
THEOREM RingTypes == Spec => []TypeOK
<1>1. IInv => TypeOK
  BY DEF IInv
<1> QED
  BY <1>1, Invariant, PTL

\* Tail is one past the last element and the free slots are cleared, whatever
\* calls came before, for every capacity (lines 62-63, 78-80).
THEOREM RingStaysSound == Spec => []RingSound
<1>1. IInv => RingSound
  BY DEF IInv
<1> QED
  BY <1>1, Invariant, PTL

\* copyTo's two segments are the elements in order: ToSlice, growth and
\* serialization lose nothing and repeat nothing (lines 135-144).
THEOREM CopyListsContent == Spec => []CopyIsContent
<1>1. IInv => CopyIsContent
  BY CopyFacts
<1> QED
  BY <1>1, Invariant, PTL

-----------------------------------------------------------------------------
\* What the contract's sequence operators are, position by position.
LEMMA SequenceForms ==
    ASSUME NEW v \in Values, NEW s \in Seq(Values)
    PROVE  /\ <<v>> \o s = [k \in 1 .. Len(s) + 1 |-> IF k = 1 THEN v ELSE s[k - 1]]
           /\ s \o <<v>> = [k \in 1 .. Len(s) + 1 |-> IF k <= Len(s) THEN s[k] ELSE v]
           /\ SubSeq(s, 2, Len(s)) = [k \in 1 .. Len(s) - 1 |-> s[k + 1]]
           /\ SubSeq(s, 1, Len(s) - 1) = [k \in 1 .. Len(s) - 1 |-> s[k]]
<1>1. <<v>> \o s = [k \in 1 .. Len(s) + 1 |-> IF k = 1 THEN v ELSE s[k - 1]]
  OBVIOUS
<1>2. s \o <<v>> = [k \in 1 .. Len(s) + 1 |-> IF k <= Len(s) THEN s[k] ELSE v]
  OBVIOUS
<1>3. SubSeq(s, 2, Len(s)) = [k \in 1 .. Len(s) - 1 |-> s[k + 1]]
  OBVIOUS
<1>4. SubSeq(s, 1, Len(s) - 1) = [k \in 1 .. Len(s) - 1 |-> s[k]]
  OBVIOUS
<1> QED
  BY <1>1, <1>2, <1>3, <1>4

\* The listed elements, as a sequence.
LEMMA ContentFacts ==
    ASSUME IInv
    PROVE  /\ size \in Nat /\ Content \in Seq(Values) /\ Len(Content) = size
           /\ \A k \in 1 .. size : Content[k] = At(k - 1)
           /\ size # 0 => /\ Content # <<>>
                          /\ Content[1] = buf[front]
                          /\ Content[size] = buf[Mod(back - 1, length)]
           /\ size = 0 => Content = <<>>
<1>1. size \in Nat
  BY DEF IInv, TypeOK
<1>2. \A k \in 1 .. size : At(k - 1) \in Values
  <2> TAKE k \in 1 .. size
  <2> DEFINE j == k - 1
  <2>1. size # 0 /\ j \in 0 .. size - 1
    BY <1>1
  <2> HIDE DEF j
  <2>2. j \in 0 .. length - 1 /\ \A i \in 0 .. length - 1 : At(i) \in Values
    BY <1>1, <2>1, RingFacts
  <2> QED
    BY <2>2 DEF j
<1>3. Content \in Seq(Values) /\ Len(Content) = size
  BY <1>1, <1>2 DEF Content
<1>4. \A k \in 1 .. size : Content[k] = At(k - 1)
  BY DEF Content
<1>5. ASSUME size # 0
      PROVE  Content # <<>> /\ Content[1] = buf[front] /\ Content[size] = buf[Mod(back - 1, length)]
  <2>1. /\ length \in Nat \ {0} /\ size \in 1 .. length
        /\ front \in 0 .. length - 1 /\ back = Mod(front + size, length)
    BY <1>5, RingFacts
  <2>2. Mod(front + 0, length) = front
    <3>1. front + 0 \in -1 .. 2 * length - 1 /\ front + 0 >= 0 /\ front + 0 < length
      BY <2>1
    <3> QED
      BY <2>1, <3>1, Wrap
  <2>3. Mod(back - 1, length) = Mod(front + (size - 1), length)
    BY <2>1, Turns
  <2>4. Content[1] = At(0) /\ Content[size] = At(size - 1)
    BY <1>4, <2>1
  <2>5. Content # <<>>
    BY <1>3, <2>1
  <2> QED
    BY <2>2, <2>3, <2>4, <2>5 DEF At
<1>6. size = 0 => Content = <<>>
  BY <1>3
<1> QED
  BY <1>1, <1>3, <1>4, <1>5, <1>6

-----------------------------------------------------------------------------
\* The constructors start from the content they are given.
LEMMA InitImplements ==
    ASSUME Init
    PROVE  Deque!Init
<1>1. Content \in Seq(Values)
  BY InitIInv, ContentFacts
<1> QED
  BY <1>1 DEF Init, Deque!Init, Op, Deque!Op, Nothing, Deque!Nothing

\* Each push puts its element at its end of the content.
LEMMA PushesImplement ==
    ASSUME IInv, NEW v \in Values, PushFront(v) \/ PushBack(v)
    PROVE  Deque!PushFront(v) \/ Deque!PushBack(v)
<1>1. /\ size \in Nat /\ Content \in Seq(Values) /\ Len(Content) = size
      /\ \A k \in 1 .. size : Content[k] = At(k - 1)
  BY ContentFacts
<1>2. CASE PushFront(v)
  <2>1. size' = size + 1 /\ op' = Op("pushFront", <<v>>) /\ answer' = answer
    BY <1>2 DEF PushFront
  <2>2. At(0)' = v /\ \A i \in 1 .. size : At(i)' = At(i - 1)
    BY <1>2, PushFrontStep
  <2>3. Content' = [k \in 1 .. size + 1 |-> IF k = 1 THEN v ELSE Content[k - 1]]
    <3>1. Content' = [k \in 1 .. size + 1 |-> At(k - 1)']
      BY <2>1 DEF Content
    <3>2. \A k \in 1 .. size + 1 : At(k - 1)' = IF k = 1 THEN v ELSE Content[k - 1]
      <4> TAKE k \in 1 .. size + 1
      <4>1. CASE k = 1
        BY <2>2, <4>1
      <4>2. CASE k # 1
        <5> DEFINE j == k - 1
        <5>1. j \in 1 .. size
          BY <1>1, <4>2
        <5> HIDE DEF j
        <5>2. At(j)' = At(j - 1) /\ Content[j] = At(j - 1)
          BY <1>1, <2>2, <5>1
        <5> QED
          BY <4>2, <5>2 DEF j
      <4> QED
        BY <4>1, <4>2
    <3> QED
      BY <3>1, <3>2
  <2>4. Content' = <<v>> \o Content
    BY <1>1, <2>3, SequenceForms
  <2> QED
    BY <2>1, <2>4 DEF Deque!PushFront, Op, Deque!Op
<1>3. CASE PushBack(v)
  <2>1. size' = size + 1 /\ op' = Op("pushBack", <<v>>) /\ answer' = answer
    BY <1>3 DEF PushBack
  <2>2. (\A k \in {size} : At(k)' = v) /\ \A i \in 0 .. size - 1 : At(i)' = At(i)
    BY <1>3, PushBackStep
  <2>3. Content' = [k \in 1 .. size + 1 |-> IF k <= size THEN Content[k] ELSE v]
    <3>1. Content' = [k \in 1 .. size + 1 |-> At(k - 1)']
      BY <2>1 DEF Content
    <3>2. \A k \in 1 .. size + 1 : At(k - 1)' = IF k <= size THEN Content[k] ELSE v
      <4> TAKE k \in 1 .. size + 1
      <4> DEFINE j == k - 1
      <4>1. CASE k <= size
        <5>1. j \in 0 .. size - 1 /\ Content[k] = At(j)
          BY <1>1, <4>1
        <5> QED
          BY <2>2, <4>1, <5>1
      <4>2. CASE ~(k <= size)
        <5>1. j \in {size}
          BY <1>1, <4>2
        <5> QED
          BY <2>2, <4>2, <5>1
      <4> QED
        BY <4>1, <4>2
    <3> QED
      BY <3>1, <3>2
  <2>4. Content' = Content \o <<v>>
    BY <1>1, <2>3, SequenceForms
  <2> QED
    BY <2>1, <2>4 DEF Deque!PushBack, Op, Deque!Op
<1> QED
  BY <1>2, <1>3

\* Each pop answers and drops the element at its end.
LEMMA PopsImplement ==
    ASSUME IInv, PopFront \/ PopBack
    PROVE  Deque!PopFront \/ Deque!PopBack
<1>1. /\ size \in Nat \ {0} /\ Content \in Seq(Values) /\ Len(Content) = size
      /\ Content # <<>> /\ Content[1] = At(0) /\ Content[size] = At(size - 1)
      /\ \A k \in 1 .. size : Content[k] = At(k - 1)
  BY ContentFacts DEF PopFront, PopBack
<1>2. CASE PopFront
  <2>1. size' = size - 1 /\ op' = Op("popFront", <<>>)
    BY <1>2 DEF PopFront
  <2>2. answer' = Found(At(0)) /\ \A i \in 0 .. size - 2 : At(i)' = At(i + 1)
    BY <1>2, PopFrontStep
  <2>3. Content' = [k \in 1 .. size - 1 |-> Content[k + 1]]
    <3>1. Content' = [k \in 1 .. size - 1 |-> At(k - 1)']
      BY <2>1 DEF Content
    <3>2. \A k \in 1 .. size - 1 : At(k - 1)' = Content[k + 1]
      <4> TAKE k \in 1 .. size - 1
      <4> DEFINE j == k - 1
      <4>1. j \in 0 .. size - 2 /\ k + 1 \in 1 .. size /\ j + 1 = (k + 1) - 1
        BY <1>1
      <4>2. At(j)' = At(j + 1) /\ Content[k + 1] = At((k + 1) - 1)
        BY <1>1, <2>2, <4>1
      <4> QED
        BY <4>1, <4>2
    <3> QED
      BY <3>1, <3>2
  <2>4. Content' = SubSeq(Content, 2, Len(Content))
    BY <1>1, <2>3, SequenceForms
  <2> QED
    BY <1>1, <2>1, <2>2, <2>4 DEF Deque!PopFront, Op, Deque!Op, Found, Deque!Found
<1>3. CASE PopBack
  <2>1. size' = size - 1 /\ op' = Op("popBack", <<>>)
    BY <1>3 DEF PopBack
  <2>2. answer' = Found(At(size - 1)) /\ \A i \in 0 .. size - 2 : At(i)' = At(i)
    BY <1>3, PopBackStep
  <2>3. Content' = [k \in 1 .. size - 1 |-> Content[k]]
    <3>1. Content' = [k \in 1 .. size - 1 |-> At(k - 1)']
      BY <2>1 DEF Content
    <3>2. \A k \in 1 .. size - 1 : At(k - 1)' = Content[k]
      <4> TAKE k \in 1 .. size - 1
      <4> DEFINE j == k - 1
      <4>1. j \in 0 .. size - 2 /\ k \in 1 .. size
        BY <1>1
      <4>2. At(j)' = At(j) /\ Content[k] = At(k - 1)
        BY <1>1, <2>2, <4>1
      <4> QED
        BY <4>2
    <3> QED
      BY <3>1, <3>2
  <2>4. Content' = SubSeq(Content, 1, Len(Content) - 1)
    BY <1>1, <2>3, SequenceForms
  <2> QED
    BY <1>1, <2>1, <2>2, <2>4 DEF Deque!PopBack, Op, Deque!Op, Found, Deque!Found
<1> QED
  BY <1>2, <1>3

\* Peeks, and every pop or peek of the empty deque.
LEMMA QuietImplements ==
    ASSUME IInv, PeekFront \/ PeekBack \/ Empty
    PROVE  Deque!PeekFront \/ Deque!PeekBack \/ Deque!Empty
<1>1. Content' = Content
  BY QuietStep DEF ring, Content, At
<1>2. /\ size \in Nat /\ Content \in Seq(Values) /\ Len(Content) = size
      /\ size # 0 => /\ Content # <<>>
                     /\ Content[1] = buf[front]
                     /\ Content[size] = buf[Mod(back - 1, length)]
      /\ size = 0 => Content = <<>>
  BY ContentFacts
<1>3. CASE PeekFront
  BY <1>1, <1>2, <1>3 DEF PeekFront, Deque!PeekFront, Op, Deque!Op, Found, Deque!Found
<1>4. CASE PeekBack
  BY <1>1, <1>2, <1>4 DEF PeekBack, Deque!PeekBack, Op, Deque!Op, Found, Deque!Found
<1>5. CASE Empty
  BY <1>1, <1>2, <1>5 DEF Empty, Deque!Empty, Op, Deque!Op, Nothing, Deque!Nothing
<1> QED
  BY <1>3, <1>4, <1>5

\* Clear leaves nothing, a decode what it was given.
LEMMA ReplacesImplement ==
    ASSUME IInv, Clear \/ ReplaceFromSlice
    PROVE  Deque!Replace
<1>1. CASE Clear
  <2>1. size' = 0 /\ op' = Op("replace", <<>>) /\ answer' = answer
    BY <1>1 DEF Clear
  <2>2. Content' = <<>>
    BY <2>1 DEF Content
  <2> QED
    BY <2>1, <2>2 DEF Deque!Replace, Op, Deque!Op
<1>2. CASE ReplaceFromSlice
  <2>1. PICK s \in Given : /\ buf' = SliceOf(s) /\ length' = Len(s) /\ size' = Len(s)
                           /\ op' = Op("replace", s)
    BY <1>2 DEF ReplaceFromSlice
  <2>2. front' = 0 /\ answer' = answer
    BY <1>2 DEF ReplaceFromSlice
  <2>3. s \in Seq(Values) /\ Len(s) \in Nat
    BY FullSlice
  <2>4. \A k \in 1 .. Len(s) : At(k - 1)' = s[k]
    <3> TAKE k \in 1 .. Len(s)
    <3> DEFINE j == k - 1
    <3>1. /\ Len(s) \in Nat \ {0} /\ j \in 0 .. Len(s) - 1 /\ j + 1 = k
          /\ 0 + j \in -1 .. 2 * Len(s) - 1 /\ 0 + j = j
      BY <2>3
    <3>2. Mod(0 + j, Len(s)) = j
      BY <3>1, Wrap
    <3>3. SliceOf(s)[j] = s[j + 1]
      BY <3>1 DEF SliceOf
    <3> QED
      BY <2>1, <2>2, <3>1, <3>2, <3>3 DEF At
  <2>5. Content' = [k \in 1 .. Len(s) |-> At(k - 1)']
    BY <2>1 DEF Content
  <2>6. Content' = s
    BY <2>3, <2>4, <2>5
  <2> QED
    BY <2>1, <2>2, <2>6 DEF Deque!Replace, Op, Deque!Op
<1> QED
  BY <1>1, <1>2

\* Every call does to the content what the Deque interface says it does, for
\* every capacity and wherever the elements lie in the ring.
THEOREM ArrayDequeIsADeque == Spec => ImplementsDeque
<1>1. Init => Deque!Init
  BY InitImplements
<1>2. IInv /\ [Next]_vars => [Deque!Next]_Deque!dequeVars
  <2> SUFFICES ASSUME IInv, [Next]_vars
               PROVE  [Deque!Next]_Deque!dequeVars
    OBVIOUS
  <2>1. ASSUME NEW v \in Values, PushFront(v) \/ PushBack(v)
        PROVE  Deque!Next
    BY <2>1, PushesImplement DEF Deque!Next
  <2>2. CASE PopFront \/ PopBack
    BY <2>2, PopsImplement DEF Deque!Next
  <2>3. CASE PeekFront \/ PeekBack \/ Empty
    BY <2>3, QuietImplements DEF Deque!Next
  <2>4. CASE Clear \/ ReplaceFromSlice
    BY <2>4, ReplacesImplement DEF Deque!Next
  <2>5. CASE UNCHANGED vars
    BY <2>5 DEF vars, ring, Content, At, Deque!dequeVars
  <2> QED
    BY <2>1, <2>2, <2>3, <2>4, <2>5 DEF Next
<1> QED
  BY <1>1, <1>2, Invariant, PTL DEF Spec, ImplementsDeque, Deque!Spec
=============================================================================
