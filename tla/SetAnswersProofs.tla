-------------------------- MODULE SetAnswersProofs --------------------------
(***************************************************************************)
(* Proofs about the concurrent sets, for any goroutines, sets, elements,   *)
(* buckets and calls.                                                      *)
(*                                                                         *)
(*  - Types and locks: IInv is TypeOK with what each label says of its     *)
(*    goroutine (Shape, Labelled) and of the locks it is in (Accounted).   *)
(*  - Atomicity: an operation is the instant it happens.  EveryChoice      *)
(*    says that a pop deletes what it has chosen, from its own set.        *)
(*  - Answers: what a call has learned so far of the sets it reads.        *)
(*    EveryCall says it of each call at its label, from the history that   *)
(*    kept, had and alone record, and of a call that is done it says that  *)
(*    its answer is justified.                                             *)
(***************************************************************************)
EXTENDS SetAnswers, FiniteSetTheorems, TLAPS

EffectKinds == Points \cup Batches \cup Pops \cup Navigations \cup {"clear", "refill", "size", "snapshot"}
PlanOps == {o \in Ops : o.kind \in EffectKinds \cup {"walk"}}
Hikes == [on : Sets \cup {none}, other : Sets \cup {none, "itself"},
          left : SUBSET Buckets, batch : SUBSET Elems, at : Walks(Elems)]
Operating == {"act", "queued", "held", "got"}
Walking == {"walk", "told", "walked"}
Labels == Operating \cup Walking \cup {"idle", "next", "done"}
Measuring == {"size", "snapshot"}
Asking == Algebra \cup Relations

\* The operations that may be in the plan of q.
Allowed(q) ==
    {o \in PlanOps : /\ q.kind \in Asking => o.kind \in Measuring \cup {"walk"}
                     /\ q.kind \notin Updates => o.kind \notin Updates}

-----------------------------------------------------------------------------
(* Sequences of operations.                                                *)

LEMMA OneOf == ASSUME NEW S, NEW a \in S PROVE <<a>> \in Seq(S) /\ Len(<<a>>) = 1 /\ <<a>>[1] = a
  OBVIOUS

LEMMA TwoOf ==
    ASSUME NEW S, NEW a \in S, NEW b \in S
    PROVE  /\ <<a, b>> \in Seq(S) /\ Len(<<a, b>>) = 2 /\ <<a, b>>[1] = a /\ <<a, b>>[2] = b
  OBVIOUS

LEMMA Joined ==
    ASSUME NEW S, NEW s \in Seq(S), NEW t \in Seq(S)
    PROVE  /\ s \o t \in Seq(S) /\ Len(s \o t) = Len(s) + Len(t)
           /\ \A i \in 1 .. Len(s) : (s \o t)[i] = s[i]
           /\ \A i \in 1 .. Len(t) : (s \o t)[Len(s) + i] = t[i]
  OBVIOUS

LEMMA HeadOf ==
    ASSUME NEW S, NEW s \in Seq(S), s # <<>>
    PROVE  /\ Head(s) \in S /\ Head(s) = s[1] /\ Tail(s) \in Seq(S)
           /\ Len(s) \in Nat \ {0} /\ Len(Tail(s)) = Len(s) - 1
           /\ \A i \in DOMAIN Tail(s) : i + 1 \in DOMAIN s /\ Tail(s)[i] = s[i + 1]
  OBVIOUS

\* The elements of a finite set, in any order.
LEMMA Listed ==
    ASSUME NEW E, IsFiniteSet(E), NEW l \in SetToSeqs(E)
    PROVE  /\ Cardinality(E) \in Nat /\ l \in [1 .. Cardinality(E) -> E]
           /\ \A e \in E : \E i \in 1 .. Cardinality(E) : l[i] = e
<1>1. Cardinality(E) \in Nat
  BY FS_CardinalityType
<1>2. l \in [1 .. Cardinality(E) -> E] /\ \A i, j \in 1 .. Cardinality(E) : i # j => l[i] # l[j]
  BY DEF SetToSeqs
<1> DEFINE n == Cardinality(E)
<1>3. ASSUME NEW e \in E, \A i \in 1 .. n : l[i] # e PROVE FALSE
  <2>1. l \in [1 .. n -> E \ {e}]
    BY <1>2, <1>3
  <2>2. IsFiniteSet(1 .. n) /\ Cardinality(1 .. n) = n
    BY <1>1, FS_Interval
  <2>3. IsFiniteSet(E \ {e}) /\ Cardinality(E \ {e}) = n - 1
    BY FS_RemoveElement
  <2>4. \E i, j \in 1 .. n : i # j /\ l[i] = l[j]
    BY <1>1, <2>1, <2>2, <2>3, FS_PigeonHole
  <2> QED
    BY <1>2, <2>4
<1> QED
  BY <1>1, <1>2, <1>3

LEMMA Longer ==
    ASSUME NEW S, NEW l \in Seq(S), NEW c \in S
    PROVE  LET m == l \o <<c>> IN
           /\ m \in Seq(S) /\ Len(m) = Len(l) + 1 /\ m[Len(l) + 1] = c
           /\ \A i \in 1 .. Len(l) : m[i] = l[i]
<1>1. (l \o <<c>>)[Len(l) + 1] = c
  OBVIOUS
<1>2. l \o <<c>> \in Seq(S) /\ Len(l \o <<c>>) = Len(l) + 1
  OBVIOUS
<1>3. \A i \in 1 .. Len(l) : (l \o <<c>>)[i] = l[i]
  OBVIOUS
<1> QED
  BY <1>1, <1>2, <1>3, Zenon

LEMMA TwoInARow ==
    ASSUME NEW S, NEW a \in S, NEW b \in S
    PROVE  LET m == <<a>> \o <<b>> IN m \in Seq(S) /\ Len(m) = 2 /\ m[1] = a /\ m[2] = b
  OBVIOUS

LEMMA ThreeInARow ==
    ASSUME NEW S, NEW a \in S, NEW b \in S, NEW c \in S
    PROVE  LET m == <<a>> \o <<b>> \o <<c>> IN
           m \in Seq(S) /\ Len(m) = 3 /\ m[1] = a /\ m[2] = b /\ m[3] = c
<1> DEFINE l == <<a>> \o <<b>>
<1>1. l \in Seq(S) /\ Len(l) = 2 /\ l[1] = a /\ l[2] = b
  OBVIOUS
<1> HIDE DEF l
<1>2. l \o <<c>> \in Seq(S) /\ Len(l \o <<c>>) = Len(l) + 1
  BY <1>1, Longer, Zenon
<1>3. (l \o <<c>>)[Len(l) + 1] = c
  BY <1>1, Longer, Zenon
<1>4. (l \o <<c>>)[1] = a /\ (l \o <<c>>)[2] = b
  <2>1. \A i \in 1 .. Len(l) : (l \o <<c>>)[i] = l[i]
    <3>1. l \in Seq(S)
      BY <1>1
    <3> QED
      BY <3>1
  <2>2. 1 \in 1 .. Len(l) /\ 2 \in 1 .. Len(l)
    BY <1>1
  <2> QED
    BY <1>1, <2>1, <2>2, Zenon
<1>5. Len(l) + 1 = 3
  BY <1>1
<1>6. Len(l \o <<c>>) = 3 /\ (l \o <<c>>)[3] = c
  BY <1>2, <1>3, <1>5, Zenon
<1> QED
  BY <1>2, <1>4, <1>6 DEF l

LEMMA HeadJoined ==
    ASSUME NEW S, NEW a \in Seq(S), a # <<>>, NEW b \in Seq(S)
    PROVE  a \o b \in Seq(S) /\ a \o b # <<>> /\ Head(a \o b) = Head(a)
<1>1. Len(a) \in Nat \ {0} /\ Head(a) = a[1]
  BY HeadOf
<1>2. a \o b \in Seq(S) /\ Len(a \o b) = Len(a) + Len(b) /\ (a \o b)[1] = a[1] /\ Len(b) \in Nat
  BY <1>1, Joined
<1> DEFINE l == a \o b
<1>3. l \in Seq(S) /\ Len(l) # 0
  BY <1>1, <1>2
<1> HIDE DEF l
<1>4. l # <<>>
  BY <1>3
<1>5. Head(l) = l[1]
  BY <1>3, <1>4, HeadOf
<1> QED
  BY <1>1, <1>2, <1>4, <1>5 DEF l

LEMMA TailOf ==
    ASSUME NEW S, NEW l \in Seq(S), l # <<>>
    PROVE  /\ Tail(l) \in Seq(S) /\ Head(l) = l[1] /\ Len(l) \in Nat /\ Len(l) > 0
           /\ DOMAIN l = 1 .. Len(l) /\ 1 \in DOMAIN l
           /\ \A i \in DOMAIN Tail(l) : i \in 1 .. Len(l) - 1 /\ i + 1 \in DOMAIN l /\ Tail(l)[i] = l[i + 1]
           /\ \A i \in DOMAIN l : i = 1 \/ (i - 1 \in DOMAIN Tail(l) /\ Tail(l)[i - 1] = l[i])
  OBVIOUS

USE ElemAssumption, SetAssumption, MenuAssumption

LEMMA AllowedType == ASSUME NEW q PROVE Allowed(q) \subseteq PlanOps /\ PlanOps \subseteq Ops
  BY DEF Allowed, PlanOps

LEMMA MeasureOps ==
    ASSUME NEW q \in Requests, NEW s \in Sets, NEW o \in Sets \cup {none, "itself"}
    PROVE  /\ Op("size", s, none, 1, {}) \in Allowed(q)
           /\ Op("snapshot", s, none, 1, {}) \in Allowed(q)
           /\ Op("walk", s, o, 1, {}) \in Allowed(q)
<1>1. /\ {"size", "snapshot", "walk"} \subseteq Tasks
      /\ {"size", "snapshot", "walk"} \cap Updates = {}
      /\ {"size", "snapshot"} \subseteq EffectKinds /\ {"size", "snapshot", "walk"} \subseteq Measuring \cup {"walk"}
  BY DEF Tasks, Updates, Pops, EffectKinds, Measuring
<1>2. ASSUME NEW k \in {"size", "snapshot", "walk"}, NEW t \in Sets \cup {none, "itself"}
      PROVE  Op(k, s, t, 1, {}) \in Allowed(q)
  <2>1. Op(k, s, t, 1, {}) \in Ops /\ Op(k, s, t, 1, {}).kind = k
    BY <1>1 DEF Op, Ops
  <2> QED
    BY <1>1, <2>1 DEF Allowed, PlanOps
<1> QED
  BY <1>2

LEMMA WalkTyped ==
    ASSUME NEW q \in Requests, NEW s \in Sets, NEW o \in Sets \cup {none, "itself"}
    PROVE  Walk(s, o) \in Seq(Allowed(q)) /\ SizeOf(s) \in Seq(Allowed(q))
<1> DEFINE A == Allowed(q)  a == Op("snapshot", s, none, 1, {})  b == Op("walk", s, o, 1, {})
           c == Op("size", s, none, 1, {})
<1>1. a \in A /\ b \in A /\ c \in A
  BY MeasureOps
<1>2. Walk(s, o) = (IF Locked(s) THEN <<a, b>> ELSE <<b>>) /\ SizeOf(s) = <<c>>
  BY DEF Walk, SizeOf
<1> HIDE DEF A, a, b, c
<1>3. <<a, b>> \in Seq(A) /\ <<b>> \in Seq(A) /\ <<c>> \in Seq(A)
  BY <1>1
<1> QED
  BY <1>2, <1>3 DEF A

LEMMA EachTyped ==
    ASSUME NEW q \in Requests, NEW kind \in {"add", "remove", "contains"}, NEW s \in Sets,
           NEW E \in SUBSET Elems, NEW l \in Each(kind, s, E),
           q.kind \notin Asking, kind \in Updates => q.kind \in Updates
    PROVE  /\ l \in Seq(Allowed(q))
           /\ \A i \in DOMAIN l : l[i].kind = kind /\ l[i].on = s
           /\ \A e \in E : \E i \in DOMAIN l : l[i].elem = e
<1> DEFINE A == Allowed(q)  n == Cardinality(E)
<1>1. PICK f \in SetToSeqs(E) : l = [i \in DOMAIN f |-> Op(kind, s, none, f[i], {})]
  BY DEF Each
<1>2. n \in Nat /\ f \in [1 .. n -> E] /\ \A e \in E : \E i \in 1 .. n : f[i] = e
  <2>1. IsFiniteSet(E)
    BY FS_Subset
  <2> QED
    BY <2>1, Listed
<1>3. ASSUME NEW e \in E
      PROVE  /\ Op(kind, s, none, e, {}) \in A
             /\ Op(kind, s, none, e, {}).kind = kind /\ Op(kind, s, none, e, {}).on = s
             /\ Op(kind, s, none, e, {}).elem = e
  <2>1. kind \in Tasks /\ kind \in EffectKinds
    BY DEF Tasks, Kinds, Points, EffectKinds
  <2>2. Op(kind, s, none, e, {}) \in Ops
    BY <2>1 DEF Op, Ops
  <2> QED
    BY <2>1, <2>2 DEF Allowed, PlanOps, Op
<1>4. l = [i \in 1 .. n |-> Op(kind, s, none, f[i], {})]
  BY <1>1, <1>2
<1> HIDE DEF n, A
<1>5. l \in [1 .. n -> A]
  BY <1>2, <1>3, <1>4
<1>6. l \in Seq(A) /\ DOMAIN l = 1 .. n
  BY <1>2, <1>5
<1> QED
  BY <1>2, <1>3, <1>4, <1>6 DEF A

LEMMA PlansTyped ==
    ASSUME NEW q \in Requests, NEW l \in Plans(q)
    PROVE  l \in Seq(Allowed(q))
<1> DEFINE A == Allowed(q)
<1>q. q \in Ops /\ q.kind \in Kinds /\ q.on \in Sets /\ q.other \in Sets /\ q.elems \in SUBSET Elems
  BY DEF Requests, Ops
<1>w. /\ \A s \in Sets, o \in Sets \cup {none, "itself"} : Walk(s, o) \in Seq(A)
      /\ \A s \in Sets : SizeOf(s) \in Seq(A)
  BY WalkTyped
<1>j. \A s, t \in Seq(A) : s \o t \in Seq(A)
  BY Joined
<1> HIDE DEF A
<1>1. CASE AtOnce(q)
  <2>1. l = <<q>>
    BY <1>1 DEF Plans, AtOnce, Points, Algebra, Relations, Sized, Pops
  <2>2. q.kind \in Tasks /\ q.kind \in EffectKinds /\ q.kind \notin Asking
    BY <1>1, <1>q DEF AtOnce, Kinds, Tasks, EffectKinds, Updates, Asking, Points, Algebra, Relations, Sized, Navigations, Pops, Batches
  <2>3. q \in A
    BY <1>q, <2>2 DEF A, Allowed, PlanOps
  <2> QED
    BY <2>1, <2>3, OneOf DEF A
<1>2. CASE q.kind \in Algebra \cup (Relations \ Sized)
  <2>1. l = Combine(q)
    BY <1>2 DEF Plans, AtOnce, Points, Algebra, Relations, Sized
  <2>2. Combine(q) \in Seq(A)
    BY <1>q, <1>w, <1>j DEF Combine, Back
  <2> QED
    BY <2>1, <2>2 DEF A
<1>3. CASE q.kind \in Sized
  <2>1. l = Compare(q)
    BY <1>3 DEF Plans, AtOnce, Points, Algebra, Relations, Sized
  <2>2. Compare(q) \in Seq(A)
    <3>1. Locked(q.on) => \A i \in 1 .. 2 : <<Walk(q.on, q.other)[i]>> \in Seq(A)
      <4> DEFINE a == Op("snapshot", q.on, none, 1, {})  b == Op("walk", q.on, q.other, 1, {})
      <4>1. a \in A /\ b \in A
        BY <1>q, MeasureOps DEF A
      <4>2. Locked(q.on) => Walk(q.on, q.other) = <<a, b>>
        BY DEF Walk
      <4> HIDE DEF a, b
      <4>3. <<a, b>>[1] = a /\ <<a, b>>[2] = b /\ <<a>> \in Seq(A) /\ <<b>> \in Seq(A)
        BY <4>1
      <4> QED
        BY <4>2, <4>3
    <3>2. SizeOf(q.on) \o SizeOf(q.other) \in Seq(A)
      BY <1>q, <1>w, <1>j
    <3>3. CASE q.kind = "equals" /\ Locked(q.on)
      <4>1. Compare(q) = <<Walk(q.on, q.other)[1]>> \o SizeOf(q.other) \o <<Walk(q.on, q.other)[2]>>
        BY <3>3 DEF Compare
      <4> QED
        BY <1>q, <1>w, <1>j, <3>1, <3>3, <4>1
    <3>4. CASE ~(q.kind = "equals" /\ Locked(q.on))
      <4>1. \E s, o \in Sets : Compare(q) = SizeOf(q.on) \o SizeOf(q.other) \o Walk(s, o)
        BY <1>q, <3>4 DEF Compare
      <4> QED
        BY <1>w, <1>j, <3>2, <4>1
    <3> QED
      BY <3>3, <3>4
  <2> QED
    BY <2>1, <2>2 DEF A
<1>4. CASE q.kind = "removeFunc" /\ ~Locked(q.on)
  <2>1. l = SizeOf(q.on) \o Walk(q.on, none)
    BY <1>4 DEF Plans, AtOnce, Points, Algebra, Relations, Sized
  <2> QED
    BY <1>q, <1>w, <1>j, <2>1 DEF A
<1>5. CASE q.kind \in Batches /\ ~Locked(q.on)
  <2>1. PICK kind \in {"add", "remove", "contains"} :
          l \in Each(kind, q.on, q.elems) /\ (kind \in Updates => q.kind \in Updates)
    BY <1>5 DEF Plans, AtOnce, Points, Algebra, Relations, Sized, Batches, Updates, Pops
  <2>2. q.kind \notin Asking
    BY <1>5 DEF Batches, Asking, Algebra, Relations, Sized
  <2> QED
    BY <1>q, <2>1, <2>2, EachTyped
<1>6. CASE q.kind = "refill" /\ ~Locked(q.on)
  <2> DEFINE first == IF impl[q.on] = "hash" THEN <<Op("clear", q.on, none, 1, {})>> ELSE Walk(q.on, none)
  <2>1. PICK t \in Each("add", q.on, q.elems) : l = first \o t
    BY <1>6 DEF Plans, AtOnce, Points, Algebra, Relations, Sized
  <2>2. q.kind \notin Asking /\ q.kind \in Updates
    BY <1>6 DEF Asking, Algebra, Relations, Sized, Updates
  <2>3. t \in Seq(A)
    BY <1>q, <2>2, EachTyped DEF A
  <2>4. Op("clear", q.on, none, 1, {}) \in A
    <3>1. "clear" \in Tasks /\ "clear" \in EffectKinds
      BY DEF Tasks, Kinds, Updates, EffectKinds
    <3>2. Op("clear", q.on, none, 1, {}) \in Ops /\ Op("clear", q.on, none, 1, {}).kind = "clear"
      BY <1>q, <3>1 DEF Op, Ops
    <3> QED
      BY <2>2, <3>1, <3>2 DEF A, Allowed, PlanOps
  <2>5. first \in Seq(A)
    BY <1>q, <1>w, <2>4, OneOf
  <2> HIDE DEF first
  <2> QED
    BY <1>j, <2>1, <2>3, <2>5 DEF A
<1>7. CASE /\ ~AtOnce(q) /\ q.kind \notin Algebra \cup Relations
           /\ q.kind \in {"removeFunc", "refill"} \cup Batches => Locked(q.on)
  <2>1. l = Walk(q.on, none)
    BY <1>7 DEF Plans, Batches, Relations
  <2> QED
    BY <1>q, <1>w, <2>1 DEF A
<1> QED
  BY <1>1, <1>2, <1>3, <1>4, <1>5, <1>6, <1>7 DEF Relations

-----------------------------------------------------------------------------
(* Types, and what each label says of its goroutine.                       *)

Shape ==
    /\ impl \in Mixes
    /\ content \in [Sets -> SUBSET Elems]
    /\ lock \in [Sets -> Locks(Procs)]
    /\ pc \in [Procs -> Labels]
    /\ call \in [Procs -> Requests \cup {none}]
    /\ todo \in [Procs -> SUBSET Requests]
    /\ op \in [Procs -> Ops \cup {none}]
    /\ plan \in [Procs -> Seq(Ops)]
    /\ walk \in [Procs -> Hikes]
    /\ snap \in [Procs -> (SUBSET Elems) \cup {none}]
    /\ sizes \in [Procs -> Seq(Nat)]
    /\ out \in [Procs -> SUBSET (Elems \cup {0})]
    /\ ret \in [Procs -> (SUBSET Nat) \cup {none}]

Labelled(p) ==
    /\ pc[p] = "idle" => walk[p].on = none /\ snap[p] = none /\ sizes[p] = <<>> /\ out[p] = {}
    /\ pc[p] # "idle" =>
         /\ call[p] \in Requests /\ plan[p] \in Seq(Allowed(call[p]))
         /\ impl[call[p].on] = "hash" => call[p].kind \notin Sorted
    /\ \A q \in todo[p] : impl[q.on] = "hash" => q.kind \notin Sorted
    /\ pc[p] \in Operating =>
         /\ op[p] \in Ops /\ op[p].kind \in EffectKinds
         /\ call[p].kind \notin Updates => op[p].kind \notin Updates
         /\ call[p].kind \in Asking =>
              op[p].kind \in Measuring \/ (op[p].kind = "contains" /\ walk[p].on # none)
    /\ pc[p] \in {"queued", "held"} => Locked(op[p].on)
    /\ pc[p] = "queued" => ~Reading(op[p])
    /\ pc[p] \in Walking => walk[p].on \in Sets
    /\ pc[p] = "told" => op[p] \in Ops /\ call[p].kind \in {"scan", "removeFunc"}
    /\ pc[p] # "done" => out[p] \subseteq Elems
    /\ pc[p] = "got" /\ op[p].kind = "snapshot" => ret[p] \in SUBSET Elems
    /\ pc[p] = "got" /\ op[p].kind = "size" => \E n \in Nat : ret[p] = {n}

\* Who is inside the lock of s.
Inside(s, labels, reading) ==
    {p \in Procs : pc[p] \in labels /\ op[p].on = s /\ Reading(op[p]) = reading}
Accounted(s) ==
    Locked(s) =>
      /\ lock[s].readers = Inside(s, {"held"}, TRUE)
      /\ {lock[s].writer} \ {none} = Inside(s, {"queued", "held"}, FALSE)
      /\ Inside(s, {"held"}, FALSE) # {} => lock[s].readers = {}

IInv == Shape /\ (\A p \in Procs : Labelled(p)) /\ (\A s \in Sets : Accounted(s))

\* What a step of p leaves alone.
Same(r) ==
    /\ pc'[r] = pc[r] /\ call'[r] = call[r] /\ todo'[r] = todo[r] /\ op'[r] = op[r] /\ plan'[r] = plan[r]
    /\ snap'[r] = snap[r] /\ sizes'[r] = sizes[r] /\ out'[r] = out[r] /\ ret'[r] = ret[r]
Apart(p) == impl' = impl /\ \A r \in Procs : r # p => Same(r)
Private(p) == Apart(p) /\ content' = content /\ \A r \in Procs : r # p => walk'[r] = walk[r]

\* The steps, one goroutine at a time.
LEMMA CallFacts ==
    ASSUME Shape, NEW p \in Procs, Call(p)
    PROVE  /\ Private(p) /\ lock' = lock /\ pc[p] = "idle" /\ pc'[p] = "next"
           /\ \E q \in todo[p] : /\ call'[p] = q /\ todo'[p] = todo[p] \ {q}
                                 /\ plan'[p] \in Plans(q)
           /\ op'[p] = op[p] /\ walk'[p] = walk[p] /\ snap'[p] = snap[p] /\ sizes'[p] = sizes[p]
           /\ out'[p] = out[p] /\ ret'[p] = ret[p]
<1>1. /\ pc' = [pc EXCEPT ![p] = "next"] /\ pc[p] = "idle"
      /\ UNCHANGED <<impl, content, lock, op, walk, snap, sizes, out, ret>>
  BY DEF Call, Goto, sets, mine
<1>2. PICK q \in todo[p] : /\ todo' = [todo EXCEPT ![p] = @ \ {q}]
                           /\ call' = [call EXCEPT ![p] = q]
                           /\ \E l \in Plans(q) : plan' = [plan EXCEPT ![p] = l]
  BY DEF Call
<1>3. PICK l \in Plans(q) : plan' = [plan EXCEPT ![p] = l]
  BY <1>2
<1> QED
  BY <1>1, <1>2, <1>3 DEF Shape, Private, Apart, Same

LEMMA ProceedFacts ==
    ASSUME Shape, NEW p \in Procs, Proceed(p)
    PROVE  LET o == Head(plan[p]) IN
           /\ Private(p) /\ lock' = lock /\ pc[p] = "next" /\ plan[p] # <<>>
           /\ plan'[p] = Tail(plan[p]) /\ op'[p] = o /\ call'[p] = call[p] /\ todo'[p] = todo[p]
           /\ IF o.kind = "walk"
              THEN walk'[p] = Walked(o.on, o.other, walk[p].batch) /\ pc'[p] = "walk"
              ELSE walk'[p] = walk[p] /\ pc'[p] = "act"
           /\ snap'[p] = snap[p] /\ sizes'[p] = sizes[p] /\ out'[p] = out[p] /\ ret'[p] = ret[p]
<1> DEFINE o == Head(plan[p])
<1> HIDE DEF o
<1>1. /\ pc[p] = "next" /\ plan[p] # <<>> /\ plan' = [plan EXCEPT ![p] = Tail(@)]
      /\ op' = [op EXCEPT ![p] = o]
      /\ UNCHANGED <<impl, content, lock, call, todo, snap, sizes, out, ret>>
  BY DEF Proceed, sets, o
<1>2. IF o.kind = "walk"
      THEN /\ walk' = [walk EXCEPT ![p] = Walked(o.on, o.other, walk[p].batch)]
           /\ pc' = [pc EXCEPT ![p] = "walk"]
      ELSE pc' = [pc EXCEPT ![p] = "act"] /\ walk' = walk
  BY DEF Proceed, Goto, o
<1>3. CASE o.kind = "walk"
  BY <1>1, <1>2, <1>3 DEF Shape, Private, Apart, Same, o
<1>4. CASE o.kind # "walk"
  BY <1>1, <1>2, <1>4 DEF Shape, Private, Apart, Same, o
<1> QED
  BY <1>3, <1>4

LEMMA HappensFacts ==
    ASSUME Shape, NEW p \in Procs, Happens(p)
    PROVE  /\ Apart(p)
           /\ \E e \in Outcomes(p, op[p]) :
                /\ content' = [content EXCEPT ![op[p].on] = e.S] /\ ret'[p] = e.ret
                /\ \A r \in Procs : walk'[r] = IF walk[r].on = op[p].on
                                               THEN [walk[r] EXCEPT !.at = Without(@, e.S)] ELSE walk[r]
           /\ pc'[p] = "got" /\ call'[p] = call[p] /\ todo'[p] = todo[p] /\ op'[p] = op[p]
           /\ plan'[p] = plan[p] /\ snap'[p] = snap[p] /\ sizes'[p] = sizes[p] /\ out'[p] = out[p]
<1>1. PICK e \in Outcomes(p, op[p]) :
        /\ content' = [content EXCEPT ![op[p].on] = e.S]
        /\ walk' = [r \in Procs |-> IF walk[r].on = op[p].on
                                    THEN [walk[r] EXCEPT !.at = Without(@, e.S)] ELSE walk[r]]
        /\ ret' = [ret EXCEPT ![p] = e.ret]
        /\ pc' = [pc EXCEPT ![p] = "got"]
        /\ UNCHANGED <<impl, call, todo, op, plan, snap, sizes, out>>
  BY DEF Happens, Goto
<1>2. Apart(p) /\ ret'[p] = e.ret /\ pc'[p] = "got"
  BY <1>1 DEF Shape, Apart, Same
<1>3. \A r \in Procs : walk'[r] = IF walk[r].on = op[p].on
                                  THEN [walk[r] EXCEPT !.at = Without(@, e.S)] ELSE walk[r]
  BY <1>1
<1> QED
  BY <1>1, <1>2, <1>3

LEMMA AsksFacts ==
    ASSUME Shape, NEW p \in Procs, Asks(p)
    PROVE  LET s == op[p].on IN
           /\ Private(p) /\ pc[p] = "act" /\ Locked(s)
           /\ call'[p] = call[p] /\ todo'[p] = todo[p] /\ op'[p] = op[p] /\ plan'[p] = plan[p]
           /\ walk'[p] = walk[p] /\ snap'[p] = snap[p] /\ sizes'[p] = sizes[p]
           /\ out'[p] = out[p] /\ ret'[p] = ret[p]
           /\ \/ /\ Reading(op[p]) /\ MayRLock(lock[s]) /\ pc'[p] = "held"
                 /\ lock' = [lock EXCEPT ![s] = RLocked(lock[s], p)]
              \/ /\ ~Reading(op[p]) /\ MayAnnounce(lock[s]) /\ pc'[p] = "queued"
                 /\ lock' = [lock EXCEPT ![s] = Announced(lock[s], p)]
<1>1. /\ pc[p] = "act" /\ Locked(op[p].on)
      /\ UNCHANGED <<impl, content, call, todo, op, plan, walk, snap, sizes, out, ret>>
  BY DEF Asks, mine
<1>2. \/ /\ Reading(op[p]) /\ MayRLock(lock[op[p].on]) /\ pc' = [pc EXCEPT ![p] = "held"]
         /\ lock' = [lock EXCEPT ![op[p].on] = RLocked(lock[op[p].on], p)]
      \/ /\ ~Reading(op[p]) /\ MayAnnounce(lock[op[p].on]) /\ pc' = [pc EXCEPT ![p] = "queued"]
         /\ lock' = [lock EXCEPT ![op[p].on] = Announced(lock[op[p].on], p)]
  BY DEF Asks, Goto
<1>3. Private(p)
  BY <1>1, <1>2 DEF Shape, Private, Apart, Same
<1>4. pc'[p] = "held" <=> Reading(op[p])
  BY <1>2 DEF Shape
<1>5. pc'[p] \in {"held", "queued"}
  BY <1>2 DEF Shape
<1> QED
  BY <1>1, <1>2, <1>3, <1>4, <1>5

\* Steps of p that only move it on.
Moves(p, from, to) ==
    /\ Private(p) /\ lock' = lock /\ pc[p] = from /\ pc'[p] = to
    /\ call'[p] = call[p] /\ todo'[p] = todo[p]

LEMMA EntersFacts ==
    ASSUME Shape, NEW p \in Procs, Enters(p)
    PROVE  /\ Moves(p, "queued", "held") /\ Granted(lock[op[p].on], p)
           /\ op'[p] = op[p] /\ plan'[p] = plan[p] /\ walk'[p] = walk[p] /\ snap'[p] = snap[p]
           /\ sizes'[p] = sizes[p] /\ out'[p] = out[p] /\ ret'[p] = ret[p]
  BY DEF Enters, Goto, sets, mine, Shape, Moves, Private, Apart, Same

LEMMA WalkEndsFacts ==
    ASSUME Shape, NEW p \in Procs, WalkEnds(p)
    PROVE  /\ Moves(p, "walk", "walked") /\ Over(walk[p])
           /\ op'[p] = op[p] /\ plan'[p] = plan[p] /\ walk'[p] = walk[p] /\ snap'[p] = snap[p]
           /\ sizes'[p] = sizes[p] /\ out'[p] = out[p] /\ ret'[p] = ret[p]
  BY DEF WalkEnds, Goto, sets, mine, Shape, Moves, Private, Apart, Same

LEMMA NextBucketFacts ==
    ASSUME Shape, NEW p \in Procs, NextBucket(p)
    PROVE  /\ Moves(p, "walk", "walk") /\ walk[p].batch = {}
           /\ \E b \in walk[p].left : walk'[p] = Copying(walk[p], b)
           /\ op'[p] = op[p] /\ plan'[p] = plan[p] /\ snap'[p] = snap[p]
           /\ sizes'[p] = sizes[p] /\ out'[p] = out[p] /\ ret'[p] = ret[p]
<1>1. PICK b \in walk[p].left :
        /\ pc[p] = "walk" /\ walk[p].batch = {}
        /\ walk' = [walk EXCEPT ![p] = Copying(walk[p], b)]
        /\ UNCHANGED <<impl, content, lock, pc, call, todo, op, plan, snap, sizes, out, ret>>
  BY DEF NextBucket, sets
<1>2. walk'[p] = Copying(walk[p], b)
  BY <1>1 DEF Shape
<1>3. Moves(p, "walk", "walk")
  BY <1>1 DEF Shape, Moves, Private, Apart, Same
<1> QED
  BY <1>1, <1>2, <1>3

\* What p makes of e.
Decides(p, e, found) ==
    LET q == call[p] IN
    /\ out'[p] = IF ~Collects(q, e, found) THEN out[p]
                 ELSE IF q.kind \in Pops \cup Navigations THEN {e} ELSE out[p] \cup {e}
    /\ pc'[p] = IF Halts(q, e, found) THEN "walked" ELSE "walk"

LEMMA JudgeFacts ==
    ASSUME Shape, NEW p \in Procs, NEW e, NEW found, Judge(p, e, found)
    PROVE  /\ Decides(p, e, found)
           /\ \A r \in Procs : r # p => pc'[r] = pc[r] /\ out'[r] = out[r]
<1>1. /\ out' = [out EXCEPT ![p] = IF ~Collects(call[p], e, found) THEN @
                                 ELSE IF call[p].kind \in Pops \cup Navigations THEN {e} ELSE @ \cup {e}]
      /\ pc' = [pc EXCEPT ![p] = IF Halts(call[p], e, found) THEN "walked" ELSE "walk"]
  BY DEF Judge, Goto
<1> QED
  BY <1>1 DEF Shape, Decides

LEMMA VisitFacts ==
    ASSUME Shape, NEW p \in Procs, Visit(p)
    PROVE  /\ Private(p) /\ lock' = lock /\ pc[p] = "walk"
           /\ call'[p] = call[p] /\ todo'[p] = todo[p] /\ plan'[p] = plan[p] /\ snap'[p] = snap[p]
           /\ sizes'[p] = sizes[p] /\ ret'[p] = ret[p]
           /\ \E e \in Ready(walk[p]) :
                LET w == walk[p]  q == call[p]  asks == w.other \in Sets  self == w.other = "itself" IN
                /\ walk'[p] = Past(w, e)
                /\ \/ /\ asks /\ op'[p] = Op("contains", w.other, none, e, {})
                      /\ pc'[p] = "act" /\ out'[p] = out[p]
                   \/ ~asks /\ self /\ Decides(p, e, e \in snap[p]) /\ op'[p] = op[p]
                   \/ /\ ~asks /\ ~self /\ q.kind \in {"clear", "refill"}
                      /\ op'[p] = Op("remove", q.on, none, e, {}) /\ pc'[p] = "act" /\ out'[p] = out[p]
                   \/ /\ ~asks /\ ~self /\ q.kind \in {"scan", "removeFunc"}
                      /\ op'[p] = Op("walk", q.on, none, e, {}) /\ pc'[p] = "told" /\ out'[p] = out[p]
                   \/ /\ ~asks /\ ~self /\ q.kind \notin {"clear", "refill", "scan", "removeFunc"}
                      /\ Decides(p, e, TRUE) /\ op'[p] = op[p]
<1> DEFINE w == walk[p]  q == call[p]  asks == w.other \in Sets  self == w.other = "itself"
           Told(e, o, label) == op' = [op EXCEPT ![p] = o] /\ pc' = [pc EXCEPT ![p] = label] /\ out' = out
<1>1. PICK e \in Ready(w) :
        /\ pc[p] = "walk" /\ walk' = [walk EXCEPT ![p] = Past(w, e)]
        /\ \/ asks /\ Told(e, Op("contains", w.other, none, e, {}), "act")
           \/ ~asks /\ self /\ Judge(p, e, e \in snap[p]) /\ op' = op
           \/ /\ ~asks /\ ~self /\ q.kind \in {"clear", "refill"}
              /\ Told(e, Op("remove", q.on, none, e, {}), "act")
           \/ /\ ~asks /\ ~self /\ q.kind \in {"scan", "removeFunc"}
              /\ Told(e, Op("walk", q.on, none, e, {}), "told")
           \/ /\ ~asks /\ ~self /\ q.kind \notin {"clear", "refill", "scan", "removeFunc"}
              /\ Judge(p, e, TRUE) /\ op' = op
        /\ UNCHANGED <<impl, content, lock, call, todo, plan, snap, sizes, ret>>
  BY DEF Visit, Goto, sets
<1>2. walk'[p] = Past(w, e) /\ \A r \in Procs : r # p => walk'[r] = walk[r]
  BY <1>1 DEF Shape
<1>3. ASSUME NEW o, NEW l, Told(e, o, l)
      PROVE  /\ op'[p] = o /\ pc'[p] = l /\ out'[p] = out[p]
             /\ \A r \in Procs : r # p => op'[r] = op[r] /\ pc'[r] = pc[r] /\ out'[r] = out[r]
  BY <1>3 DEF Shape
<1>4. ASSUME NEW found, Judge(p, e, found), op' = op
      PROVE  /\ Decides(p, e, found) /\ op'[p] = op[p]
             /\ \A r \in Procs : r # p => op'[r] = op[r] /\ pc'[r] = pc[r] /\ out'[r] = out[r]
  BY <1>4, JudgeFacts
<1> HIDE DEF Told
<1>5. /\ \A r \in Procs : r # p => op'[r] = op[r] /\ pc'[r] = pc[r] /\ out'[r] = out[r]
      /\ \/ /\ asks /\ op'[p] = Op("contains", w.other, none, e, {})
            /\ pc'[p] = "act" /\ out'[p] = out[p]
         \/ ~asks /\ self /\ Decides(p, e, e \in snap[p]) /\ op'[p] = op[p]
         \/ /\ ~asks /\ ~self /\ q.kind \in {"clear", "refill"}
            /\ op'[p] = Op("remove", q.on, none, e, {}) /\ pc'[p] = "act" /\ out'[p] = out[p]
         \/ /\ ~asks /\ ~self /\ q.kind \in {"scan", "removeFunc"}
            /\ op'[p] = Op("walk", q.on, none, e, {}) /\ pc'[p] = "told" /\ out'[p] = out[p]
         \/ /\ ~asks /\ ~self /\ q.kind \notin {"clear", "refill", "scan", "removeFunc"}
            /\ Decides(p, e, TRUE) /\ op'[p] = op[p]
  BY <1>1, <1>3, <1>4
<1>6. Private(p)
  BY <1>1, <1>2, <1>5 DEF Private, Apart, Same
<1> QED
  BY <1>1, <1>2, <1>5, <1>6

LEMMA ContinueFacts ==
    ASSUME Shape, NEW p \in Procs, Continue(p)
    PROVE  /\ Private(p) /\ lock' = lock /\ pc[p] = "told" /\ Decides(p, op[p].elem, TRUE)
           /\ call'[p] = call[p] /\ todo'[p] = todo[p] /\ op'[p] = op[p] /\ plan'[p] = plan[p]
           /\ walk'[p] = walk[p] /\ snap'[p] = snap[p] /\ sizes'[p] = sizes[p] /\ ret'[p] = ret[p]
<1>1. /\ pc[p] = "told" /\ Judge(p, op[p].elem, TRUE)
      /\ UNCHANGED <<impl, content, lock, call, todo, op, plan, walk, snap, sizes, ret>>
  BY DEF Continue, sets
<1>2. /\ Decides(p, op[p].elem, TRUE)
      /\ \A r \in Procs : r # p => pc'[r] = pc[r] /\ out'[r] = out[r]
  BY <1>1, JudgeFacts
<1> QED
  BY <1>1, <1>2 DEF Private, Apart, Same

LEMMA ConsultedFacts ==
    ASSUME Shape, NEW p \in Procs, Consulted(p)
    PROVE  /\ Private(p) /\ lock' = lock /\ pc[p] = "got" /\ op[p].kind = "contains"
           /\ call[p].kind \in Asking /\ Decides(p, op[p].elem, ret[p] # {})
           /\ call'[p] = call[p] /\ todo'[p] = todo[p] /\ op'[p] = op[p] /\ plan'[p] = plan[p]
           /\ walk'[p] = walk[p] /\ snap'[p] = snap[p] /\ sizes'[p] = sizes[p] /\ ret'[p] = ret[p]
<1>1. /\ pc[p] = "got" /\ op[p].kind = "contains" /\ call[p].kind \in Asking
      /\ Judge(p, op[p].elem, ret[p] # {})
      /\ UNCHANGED <<impl, content, lock, call, todo, op, plan, walk, snap, sizes, ret>>
  BY DEF Consulted, Got, Asking, sets
<1>2. /\ Decides(p, op[p].elem, ret[p] # {})
      /\ \A r \in Procs : r # p => pc'[r] = pc[r] /\ out'[r] = out[r]
  BY <1>1, JudgeFacts
<1> QED
  BY <1>1, <1>2 DEF Private, Apart, Same

LEMMA PanicFacts ==
    ASSUME Shape, NEW p \in Procs, Panic(p)
    PROVE  /\ Moves(p, "told", "done") /\ ret'[p] = none
           /\ op'[p] = op[p] /\ plan'[p] = plan[p] /\ walk'[p] = walk[p] /\ snap'[p] = snap[p]
           /\ sizes'[p] = sizes[p] /\ out'[p] = out[p]
  BY DEF Panic, Goto, sets, mine, Shape, Moves, Private, Apart, Same

LEMMA ConcludeFacts ==
    ASSUME Shape, NEW p \in Procs, Conclude(p)
    PROVE  LET q == call[p] IN
           /\ Private(p) /\ lock' = lock /\ pc[p] = "walked" /\ walk'[p] = Nowhere
           /\ call'[p] = call[p] /\ todo'[p] = todo[p] /\ snap'[p] = snap[p]
           /\ sizes'[p] = sizes[p] /\ out'[p] = out[p] /\ ret'[p] = ret[p]
           /\ \/ /\ q.kind \in Pops /\ pc'[p] = "act" /\ plan'[p] = plan[p]
                 /\ \E e \in out[p] : op'[p] = Op("remove", q.on, none, e, {})
              \/ /\ q.kind = "removeFunc" /\ pc'[p] = "next" /\ op'[p] = op[p]
                 /\ IF Locked(q.on) THEN plan'[p] = <<Op("removeAll", q.on, none, 1, out[p])>>
                                    ELSE plan'[p] \in Each("remove", q.on, out[p])
              \/ /\ q.kind # "removeFunc" /\ (q.kind \in Pops => out[p] = {})
                 /\ pc'[p] = "next" /\ op'[p] = op[p] /\ plan'[p] = plan[p]
<1> DEFINE q == call[p]
<1>1. /\ pc[p] = "walked" /\ walk' = [walk EXCEPT ![p] = Nowhere]
      /\ UNCHANGED <<impl, content, lock, call, todo, snap, sizes, out, ret>>
  BY DEF Conclude, sets
<1>2. walk'[p] = Nowhere /\ \A r \in Procs : r # p => walk'[r] = walk[r]
  BY <1>1 DEF Shape
<1>3. CASE q.kind \in Pops /\ out[p] # {}
  <2>1. PICK e \in out[p] : /\ op' = [op EXCEPT ![p] = Op("remove", q.on, none, e, {})]
                            /\ pc' = [pc EXCEPT ![p] = "act"] /\ plan' = plan
    BY <1>3 DEF Conclude, Goto, Pops
  <2>2. /\ op'[p] = Op("remove", q.on, none, e, {}) /\ pc'[p] = "act"
        /\ \A r \in Procs : r # p => op'[r] = op[r] /\ pc'[r] = pc[r]
    BY <2>1 DEF Shape
  <2>3. Private(p)
    BY <1>1, <1>2, <2>1, <2>2 DEF Private, Apart, Same
  <2> QED
    BY <1>1, <1>2, <1>3, <2>1, <2>2, <2>3
<1>4. CASE q.kind = "removeFunc"
  <2>1. PICK l \in IF Locked(q.on) THEN {<<Op("removeAll", q.on, none, 1, out[p])>>}
                   ELSE Each("remove", q.on, out[p]) :
          plan' = [plan EXCEPT ![p] = l] /\ pc' = [pc EXCEPT ![p] = "next"] /\ op' = op
    BY <1>4 DEF Conclude, Goto, Pops
  <2>2. /\ plan'[p] = l /\ pc'[p] = "next"
        /\ \A r \in Procs : r # p => plan'[r] = plan[r] /\ pc'[r] = pc[r]
    BY <2>1 DEF Shape
  <2>3. Private(p)
    BY <1>1, <1>2, <2>1, <2>2 DEF Private, Apart, Same
  <2> QED
    BY <1>1, <1>2, <1>4, <2>1, <2>2, <2>3
<1>5. CASE q.kind # "removeFunc" /\ ~(q.kind \in Pops /\ out[p] # {})
  <2>1. pc' = [pc EXCEPT ![p] = "next"] /\ op' = op /\ plan' = plan
    BY <1>5 DEF Conclude, Goto
  <2>2. pc'[p] = "next" /\ \A r \in Procs : r # p => pc'[r] = pc[r]
    BY <2>1 DEF Shape
  <2>3. Private(p)
    BY <1>1, <1>2, <2>1, <2>2 DEF Private, Apart, Same
  <2> QED
    BY <1>1, <1>2, <1>5, <2>1, <2>2, <2>3
<1> QED
  BY <1>3, <1>4, <1>5

\* The number an operation found out, and whether the method keeps it.
Count(p) == IF op[p].kind = "snapshot" THEN Cardinality(ret[p]) ELSE CHOOSE n \in ret[p] : TRUE
Counts(p) == op[p].kind = "size" \/ call[p].kind \in {"equals", "removeFunc"}

LEMMA LearnsFacts ==
    ASSUME Shape, NEW p \in Procs, Learns(p)
    PROVE  /\ Private(p) /\ lock' = lock /\ pc[p] = "got" /\ op[p].kind \in Measuring
           /\ call'[p] = call[p] /\ todo'[p] = todo[p] /\ op'[p] = op[p] /\ plan'[p] = plan[p]
           /\ ret'[p] = ret[p]
           /\ IF op[p].kind = "snapshot"
              THEN /\ walk'[p] = [walk[p] EXCEPT !.batch = ret[p]]
                   /\ snap'[p] = IF snap[p] = none THEN ret[p] ELSE snap[p]
              ELSE walk'[p] = walk[p] /\ snap'[p] = snap[p]
           /\ sizes'[p] = IF Counts(p) THEN Append(sizes[p], Count(p)) ELSE sizes[p]
           /\ IF Counts(p) /\ Settled(p, Count(p)) THEN pc'[p] = "done" /\ out'[p] = {0}
                                                  ELSE pc'[p] = "next" /\ out'[p] = out[p]
<1>1. /\ pc[p] = "got" /\ op[p].kind \in Measuring
      /\ UNCHANGED <<impl, content, lock, call, todo, op, plan, ret>>
  BY DEF Learns, Got, Measuring, sets
<1>2. IF op[p].kind = "snapshot"
      THEN /\ walk' = [walk EXCEPT ![p].batch = ret[p]]
           /\ snap' = [snap EXCEPT ![p] = IF @ = none THEN ret[p] ELSE @]
      ELSE walk' = walk /\ snap' = snap
  BY DEF Learns
<1>3. sizes' = [sizes EXCEPT ![p] = IF Counts(p) THEN Append(@, Count(p)) ELSE @]
  BY DEF Learns, Counts, Count
<1>4. IF Counts(p) /\ Settled(p, Count(p))
      THEN pc' = [pc EXCEPT ![p] = "done"] /\ out' = [out EXCEPT ![p] = {0}]
      ELSE pc' = [pc EXCEPT ![p] = "next"] /\ out' = out
  BY DEF Learns, Counts, Count, Goto
<1>5. /\ IF op[p].kind = "snapshot"
         THEN /\ walk'[p] = [walk[p] EXCEPT !.batch = ret[p]]
              /\ snap'[p] = IF snap[p] = none THEN ret[p] ELSE snap[p]
         ELSE walk'[p] = walk[p] /\ snap'[p] = snap[p]
      /\ \A r \in Procs : r # p => walk'[r] = walk[r] /\ snap'[r] = snap[r]
  BY <1>2 DEF Shape
<1>6. /\ sizes'[p] = IF Counts(p) THEN Append(sizes[p], Count(p)) ELSE sizes[p]
      /\ \A r \in Procs : r # p => sizes'[r] = sizes[r]
  BY <1>3 DEF Shape
<1>7. /\ IF Counts(p) /\ Settled(p, Count(p)) THEN pc'[p] = "done" /\ out'[p] = {0}
                                              ELSE pc'[p] = "next" /\ out'[p] = out[p]
      /\ \A r \in Procs : r # p => pc'[r] = pc[r] /\ out'[r] = out[r]
  BY <1>4 DEF Shape
<1>8. Private(p)
  BY <1>1, <1>5, <1>6, <1>7 DEF Private, Apart, Same
<1> QED
  BY <1>1, <1>5, <1>6, <1>7, <1>8

LEMMA PoppedFacts ==
    ASSUME Shape, NEW p \in Procs, Popped(p)
    PROVE  /\ Private(p) /\ lock' = lock /\ pc[p] = "got" /\ op[p].kind = "remove" /\ call[p].kind \in Pops
           /\ call'[p] = call[p] /\ todo'[p] = todo[p] /\ op'[p] = op[p] /\ walk'[p] = walk[p]
           /\ snap'[p] = snap[p] /\ sizes'[p] = sizes[p] /\ out'[p] = {}
           /\ IF ret[p] = {}
              THEN plan'[p] = Walk(call[p].on, none) /\ pc'[p] = "next" /\ ret'[p] = ret[p]
              ELSE plan'[p] = plan[p] /\ pc'[p] = "done" /\ ret'[p] = out[p]
<1>1. /\ pc[p] = "got" /\ op[p].kind = "remove" /\ call[p].kind \in Pops
      /\ out' = [out EXCEPT ![p] = {}]
      /\ UNCHANGED <<impl, content, lock, call, todo, op, walk, snap, sizes>>
  BY DEF Popped, Got, sets
<1>2. IF ret[p] = {}
      THEN /\ plan' = [plan EXCEPT ![p] = Walk(call[p].on, none)]
           /\ pc' = [pc EXCEPT ![p] = "next"] /\ ret' = ret
      ELSE /\ ret' = [ret EXCEPT ![p] = out[p]]
           /\ pc' = [pc EXCEPT ![p] = "done"] /\ plan' = plan
  BY DEF Popped, Goto
<1>3. /\ IF ret[p] = {}
         THEN plan'[p] = Walk(call[p].on, none) /\ pc'[p] = "next" /\ ret'[p] = ret[p]
         ELSE plan'[p] = plan[p] /\ pc'[p] = "done" /\ ret'[p] = out[p]
      /\ \A r \in Procs : r # p => plan'[r] = plan[r] /\ pc'[r] = pc[r] /\ ret'[r] = ret[r]
  BY <1>2 DEF Shape
<1>4. out'[p] = {} /\ \A r \in Procs : r # p => out'[r] = out[r]
  BY <1>1 DEF Shape
<1>5. Private(p)
  BY <1>1, <1>3, <1>4 DEF Private, Apart, Same
<1> QED
  BY <1>1, <1>3, <1>4, <1>5

LEMMA ResumeFacts ==
    ASSUME Shape, NEW p \in Procs, Resume(p)
    PROVE  LET to == IF op[p].kind = "remove" /\ walk[p].on # none THEN "walk"
                     ELSE IF op[p].kind = "contains" /\ ret[p] = {} THEN "done" ELSE "next"
           IN  /\ Moves(p, "got", to) /\ op[p].kind \in Kinds /\ call[p].kind \notin Asking
               /\ ~(op[p].kind = "remove" /\ call[p].kind \in Pops)
               /\ op'[p] = op[p] /\ plan'[p] = plan[p] /\ walk'[p] = walk[p] /\ snap'[p] = snap[p]
               /\ sizes'[p] = sizes[p] /\ out'[p] = out[p] /\ ret'[p] = ret[p]
<1> DEFINE to == IF op[p].kind = "remove" /\ walk[p].on # none THEN "walk"
                 ELSE IF op[p].kind = "contains" /\ ret[p] = {} THEN "done" ELSE "next"
<1>1. /\ pc[p] = "got" /\ op[p].kind \in Kinds /\ call[p].kind \notin Asking
      /\ ~(op[p].kind = "remove" /\ call[p].kind \in Pops)
      /\ UNCHANGED <<impl, content, lock, call, todo, op, plan, walk, snap, sizes, out, ret>>
  BY DEF Resume, Got, Asking, sets, mine
<1>2. pc' = [pc EXCEPT ![p] = to]
  BY DEF Resume, Goto
<1> HIDE DEF to
<1>3. Moves(p, "got", to)
  BY <1>1, <1>2 DEF Shape, Moves, Private, Apart, Same
<1> QED
  BY <1>1, <1>3 DEF to

LEMMA FinishFacts ==
    ASSUME Shape, NEW p \in Procs, Finish(p)
    PROVE  /\ Moves(p, "next", "done") /\ plan[p] = <<>>
           /\ ret'[p] = IF call[p].kind \in Pops /\ ~Locked(call[p].on) THEN {} ELSE ret[p]
           /\ op'[p] = op[p] /\ plan'[p] = plan[p] /\ walk'[p] = walk[p] /\ snap'[p] = snap[p]
           /\ sizes'[p] = sizes[p] /\ out'[p] = out[p]
  BY DEF Finish, Goto, sets, mine, Shape, Moves, Private, Apart, Same

LEMMA ReturnFacts ==
    ASSUME Shape, NEW p \in Procs, Return(p)
    PROVE  /\ Private(p) /\ lock' = lock /\ pc[p] = "done" /\ pc'[p] = "idle" /\ todo'[p] = todo[p]
           /\ call'[p] = none /\ op'[p] = none /\ plan'[p] = <<>> /\ walk'[p] = Nowhere
           /\ snap'[p] = none /\ sizes'[p] = <<>> /\ out'[p] = {} /\ ret'[p] = {}
  BY DEF Return, Goto, sets, Shape, Private, Apart, Same

-----------------------------------------------------------------------------
\* Every variable stays a function of the goroutines.
Function(f) == f = [r \in Procs |-> f[r]]
Mapped ==
    /\ Function(pc) /\ Function(call) /\ Function(todo) /\ Function(op) /\ Function(plan) /\ Function(walk)
    /\ Function(snap) /\ Function(sizes) /\ Function(out) /\ Function(ret)

LEMMA ExceptFunction ==
    ASSUME NEW f, Function(f), NEW p, NEW v
    PROVE  Function([f EXCEPT ![p] = v])
  BY DEF Function

\* g is f, or f changed at p.
Touched(f, g, p) == g = f \/ \E v : g = [f EXCEPT ![p] = v]

LEMMA TouchedFunction ==
    ASSUME NEW f, NEW g, NEW p, Function(f), Touched(f, g, p)
    PROVE  Function(g)
<1>1. CASE g = f
  BY <1>1
<1>2. ASSUME NEW v, g = [f EXCEPT ![p] = v] PROVE Function(g)
  BY <1>2 DEF Function
<1> QED
  BY <1>1, <1>2 DEF Touched

LEMMA ShapeMaps == ASSUME Shape PROVE Mapped
  BY DEF Shape, Mapped, Function

LEMMA StepMaps ==
    ASSUME Mapped, NEW p \in Procs, Call(p) \/ Step(p) \/ Panic(p)
    PROVE  Mapped'
<1> USE ExceptFunction DEF Mapped
<1>h. ASSUME Happens(p) PROVE Mapped'
  <2>1. PICK e \in Outcomes(p, op[p]) :
          /\ walk' = [r \in Procs |-> IF walk[r].on = op[p].on
                                      THEN [walk[r] EXCEPT !.at = Without(@, e.S)] ELSE walk[r]]
          /\ ret' = [ret EXCEPT ![p] = e.ret]
          /\ pc' = [pc EXCEPT ![p] = "got"]
          /\ UNCHANGED <<call, todo, op, plan, snap, sizes, out>>
    BY <1>h DEF Happens, Goto
  <2>2. Function(walk')
    BY <2>1 DEF Function
  <2> QED
    BY <2>1, <2>2
<1>j. ASSUME NEW e, NEW found, Judge(p, e, found) PROVE Function(out') /\ Function(pc')
  BY <1>j DEF Judge, Goto
<1>1. CASE Call(p)
  <2>1. PICK q \in todo[p] : /\ todo' = [todo EXCEPT ![p] = @ \ {q}]
                             /\ call' = [call EXCEPT ![p] = q]
                             /\ \E l \in Plans(q) : plan' = [plan EXCEPT ![p] = l]
    BY <1>1 DEF Call
  <2>2. PICK l \in Plans(q) : plan' = [plan EXCEPT ![p] = l]
    BY <2>1
  <2>3. pc' = [pc EXCEPT ![p] = "next"] /\ UNCHANGED <<op, walk, snap, sizes, out, ret>>
    BY <1>1 DEF Call, Goto, mine
  <2> QED
    BY <2>1, <2>2, <2>3
<1>2. CASE Proceed(p)
  <2>1. PICK o : /\ op' = [op EXCEPT ![p] = o]
                 /\ walk' = walk \/ walk' = [walk EXCEPT ![p] = Walked(o.on, o.other, walk[p].batch)]
                 /\ \E l \in {"walk", "act"} : pc' = [pc EXCEPT ![p] = l]
    BY <1>2 DEF Proceed, Goto
  <2>2. plan' = [plan EXCEPT ![p] = Tail(@)] /\ UNCHANGED <<call, todo, snap, sizes, out, ret>>
    BY <1>2 DEF Proceed
  <2>3. Touched(walk, walk', p) /\ Touched(pc, pc', p)
    BY <2>1 DEF Touched
  <2> QED
    BY <2>1, <2>2, <2>3, TouchedFunction
<1>3. CASE Act(p) \/ Leaves(p)
  <2>1. Happens(p)
    BY <1>3 DEF Act, Leaves
  <2> QED
    BY <1>h, <2>1
<1>4. CASE Asks(p)
  <2>1. /\ \E l \in {"held", "queued"} : pc' = [pc EXCEPT ![p] = l]
        /\ UNCHANGED <<call, todo, op, plan, walk, snap, sizes, out, ret>>
    BY <1>4 DEF Asks, Goto, mine
  <2>2. Touched(pc, pc', p)
    BY <2>1 DEF Touched
  <2> QED
    BY <2>1, <2>2, TouchedFunction
<1>5. CASE Enters(p) \/ WalkEnds(p) \/ Resume(p)
  <2>1. /\ Touched(pc, pc', p)
        /\ UNCHANGED <<call, todo, op, plan, walk, snap, sizes, out, ret>>
    BY <1>5 DEF Enters, WalkEnds, Resume, Goto, mine, Touched
  <2> QED
    BY <2>1, TouchedFunction
<1>6. CASE Visit(p)
  <2> DEFINE w == walk[p]  q == call[p]
             Told(o, label) == op' = [op EXCEPT ![p] = o] /\ pc' = [pc EXCEPT ![p] = label] /\ out' = out
  <2>1. PICK e \in Ready(w) :
          /\ walk' = [walk EXCEPT ![p] = Past(w, e)]
          /\ \/ Told(Op("contains", w.other, none, e, {}), "act")
             \/ Judge(p, e, e \in snap[p]) /\ op' = op
             \/ Told(Op("remove", q.on, none, e, {}), "act")
             \/ Told(Op("walk", q.on, none, e, {}), "told")
             \/ Judge(p, e, TRUE) /\ op' = op
          /\ UNCHANGED <<call, todo, plan, snap, sizes, ret>>
    BY <1>6 DEF Visit, Goto
  <2>2. ASSUME NEW o, NEW l, Told(o, l) PROVE Function(op') /\ Function(pc') /\ Function(out')
    BY <2>2
  <2> HIDE DEF Told
  <2>3. Function(op') /\ Function(pc') /\ Function(out')
    BY <1>j, <2>1, <2>2
  <2> QED
    BY <2>1, <2>3
<1>7. CASE NextBucket(p)
  <2>1. /\ Touched(walk, walk', p)
        /\ UNCHANGED <<pc, call, todo, op, plan, snap, sizes, out, ret>>
    BY <1>7 DEF NextBucket, Touched
  <2> QED
    BY <2>1, TouchedFunction
<1>8. CASE Continue(p)
  BY <1>8, <1>j DEF Continue
<1>9. CASE Conclude(p)
  <2>1. /\ walk' = [walk EXCEPT ![p] = Nowhere]
        /\ UNCHANGED <<call, todo, snap, sizes, out, ret>>
    BY <1>9 DEF Conclude
  <2>2. CASE call[p].kind \in Pops /\ out[p] # {}
    <3>1. PICK e \in out[p] : /\ op' = [op EXCEPT ![p] = Op("remove", call[p].on, none, e, {})]
                              /\ pc' = [pc EXCEPT ![p] = "act"] /\ plan' = plan
      BY <1>9, <2>2 DEF Conclude, Goto, Pops
    <3> QED
      BY <2>1, <3>1
  <2>3. CASE call[p].kind = "removeFunc"
    <3>1. PICK l \in IF Locked(call[p].on) THEN {<<Op("removeAll", call[p].on, none, 1, out[p])>>}
                     ELSE Each("remove", call[p].on, out[p]) :
            plan' = [plan EXCEPT ![p] = l] /\ pc' = [pc EXCEPT ![p] = "next"] /\ op' = op
      BY <1>9, <2>3 DEF Conclude, Goto, Pops
    <3> QED
      BY <2>1, <3>1
  <2>4. CASE call[p].kind # "removeFunc" /\ ~(call[p].kind \in Pops /\ out[p] # {})
    <3>1. pc' = [pc EXCEPT ![p] = "next"] /\ op' = op /\ plan' = plan
      BY <1>9, <2>4 DEF Conclude, Goto
    <3> QED
      BY <2>1, <3>1
  <2> QED
    BY <2>2, <2>3, <2>4
<1>10. CASE Learns(p)
  <2>1. /\ walk' = walk \/ walk' = [walk EXCEPT ![p].batch = ret[p]]
        /\ snap' = snap \/ snap' = [snap EXCEPT ![p] = IF @ = none THEN ret[p] ELSE @]
        /\ sizes' = [sizes EXCEPT ![p] = IF Counts(p) THEN Append(@, Count(p)) ELSE @]
        /\ out' = out \/ out' = [out EXCEPT ![p] = {0}]
        /\ pc' = [pc EXCEPT ![p] = "done"] \/ pc' = [pc EXCEPT ![p] = "next"]
        /\ UNCHANGED <<call, todo, op, plan, ret>>
    BY <1>10 DEF Learns, Goto, Counts, Count
  <2>2. Function(walk')
    BY <2>1 DEF Function
  <2>3. Touched(snap, snap', p) /\ Touched(sizes, sizes', p) /\ Touched(out, out', p) /\ Touched(pc, pc', p)
    BY <2>1 DEF Touched
  <2> QED
    BY <2>1, <2>2, <2>3, TouchedFunction
<1>11. CASE Consulted(p)
  BY <1>11, <1>j DEF Consulted
<1>12. CASE Popped(p)
  <2>1. /\ plan' = plan \/ plan' = [plan EXCEPT ![p] = Walk(call[p].on, none)]
        /\ ret' = ret \/ ret' = [ret EXCEPT ![p] = out[p]]
        /\ pc' = [pc EXCEPT ![p] = "done"] \/ pc' = [pc EXCEPT ![p] = "next"]
        /\ out' = [out EXCEPT ![p] = {}]
        /\ UNCHANGED <<call, todo, op, walk, snap, sizes>>
    BY <1>12 DEF Popped, Goto
  <2>2. Touched(plan, plan', p) /\ Touched(ret, ret', p) /\ Touched(out, out', p) /\ Touched(pc, pc', p)
    BY <2>1 DEF Touched
  <2> QED
    BY <2>1, <2>2, TouchedFunction
<1>13. CASE Finish(p) \/ Panic(p)
  <2>1. /\ Touched(ret, ret', p) /\ Touched(pc, pc', p)
        /\ UNCHANGED <<call, todo, op, plan, walk, snap, sizes, out>>
    BY <1>13 DEF Finish, Panic, Goto, mine, Touched
  <2> QED
    BY <2>1, TouchedFunction
<1>14. CASE Return(p)
  BY <1>14 DEF Return, Goto
<1> QED
  BY <1>1, <1>2, <1>3, <1>4, <1>5, <1>6, <1>7, <1>8, <1>9, <1>10, <1>11, <1>12, <1>13, <1>14 DEF Step

-----------------------------------------------------------------------------
(* Every step preserves IInv.  What an operation does and returns first.   *)

LEMMA Counted ==
    ASSUME NEW S \in SUBSET Elems
    PROVE  IsFiniteSet(S) /\ Cardinality(S) \in Numbers /\ Cardinality(S) \in Nat
<1>1. IsFiniteSet(S) /\ Cardinality(S) <= Cardinality(Elems)
  BY FS_Subset
<1>2. Cardinality(S) \in Nat /\ Cardinality(Elems) \in Nat
  BY <1>1, FS_CardinalityType
<1> QED
  BY <1>1, <1>2 DEF Numbers

LEMMA WantedSome == ASSUME NEW k, NEW x, NEW S PROVE Wanted(k, x, S) \subseteq S
  BY DEF Wanted

LEMMA EffectType ==
    ASSUME NEW o \in Ops, o.kind \in EffectKinds, NEW S \in SUBSET Elems
    PROVE  /\ Effect(o, S).S \in SUBSET Elems /\ Effect(o, S).ret \in SUBSET Nat
           /\ o.kind \notin Updates => Effect(o, S).S = S
           /\ o.kind = "size" => Effect(o, S).ret = {Cardinality(S)}
           /\ o.kind = "snapshot" => Effect(o, S).ret = S
<1>1. o.elem \in Elems /\ o.elems \in SUBSET Elems /\ Elems \subseteq Nat
  BY DEF Ops
<1>2. ASSUME NEW b PROVE If(b) \in SUBSET Nat
  BY DEF If
<1>3. \A T \in SUBSET Elems : Cardinality(T) \in Nat /\ {Cardinality(T)} \in SUBSET Nat
  BY Counted
<1>4. \A k, x : Wanted(k, x, S) \in SUBSET Elems
  BY WantedSome
<1>5. o.kind \in {"add", "remove", "addAll", "removeAll", "clear", "refill"} \cup Pops => o.kind \in Updates
  BY DEF Updates
<1> DEFINE F == Effect(o, S)
<1>6. CASE o.kind = "add"
  <2>1. F = Does(S \cup {o.elem}, If(o.elem \notin S))
    BY <1>6 DEF Effect, If, Navigations
  <2>2. F.S = S \cup {o.elem} /\ F.ret = If(o.elem \notin S)
    BY <2>1 DEF Does, If
  <2>3. F.S \in SUBSET Elems /\ F.ret \in SUBSET Nat
    BY <1>1, <1>3, <2>2 DEF If
  <2> QED
    BY <1>5, <1>6, <2>2, <2>3
<1>7. CASE o.kind = "remove"
  <2>1. F = Does(S \ {o.elem}, If(o.elem \in S))
    BY <1>7 DEF Effect, If, Navigations
  <2>2. F.S = S \ {o.elem} /\ F.ret = If(o.elem \in S)
    BY <2>1 DEF Does, If
  <2>3. F.S \in SUBSET Elems
    BY <2>2
  <2>4. F.ret \in SUBSET Nat
    BY <2>2 DEF If
  <2> QED
    BY <1>5, <1>7, <2>3, <2>4
<1>8. CASE o.kind = "contains"
  <2>1. F = Does(S, If(o.elem \in S))
    BY <1>8 DEF Effect, If, Navigations
  <2>2. F.S = S /\ F.ret = If(o.elem \in S)
    BY <2>1 DEF Does, If
  <2>3. F.S \in SUBSET Elems /\ F.ret \in SUBSET Nat
    BY <1>1, <1>3, <2>2 DEF If
  <2> QED
    BY <1>5, <1>8, <2>2, <2>3
<1>9. CASE o.kind = "addAll"
  <2>1. F = Does(S \cup o.elems, {Cardinality(o.elems \ S)})
    BY <1>9 DEF Effect, If, Navigations
  <2>2. F.S = S \cup o.elems /\ F.ret = {Cardinality(o.elems \ S)}
    BY <2>1 DEF Does, If
  <2>3. F.S \in SUBSET Elems /\ F.ret \in SUBSET Nat
    BY <1>1, <1>3, <2>2
  <2> QED
    BY <1>5, <1>9, <2>3
<1>10. CASE o.kind = "removeAll"
  <2>1. F = Does(S \ o.elems, {Cardinality(o.elems \cap S)})
    BY <1>10 DEF Effect, If, Navigations
  <2>2. F.S = S \ o.elems /\ F.ret = {Cardinality(o.elems \cap S)}
    BY <2>1 DEF Does, If
  <2>3. F.S \in SUBSET Elems /\ F.ret \in SUBSET Nat
    BY <1>1, <1>3, <2>2
  <2> QED
    BY <1>5, <1>10, <2>3
<1>11. CASE o.kind = "containsAll"
  <2>1. F = Does(S, If(o.elems \subseteq S))
    BY <1>11 DEF Effect, If, Navigations
  <2>2. F.S = S /\ F.ret = If(o.elems \subseteq S)
    BY <2>1 DEF Does, If
  <2>3. F.S \in SUBSET Elems /\ F.ret \in SUBSET Nat
    BY <1>1, <1>3, <2>2 DEF If
  <2> QED
    BY <1>5, <1>11, <2>2, <2>3
<1>12. CASE o.kind \in {"pop", "popFirst"}
  <2>1. F = Does(S \ Wanted("first", 1, S), Wanted("first", 1, S))
    BY <1>12 DEF Effect, If, Navigations
  <2>2. F.S = S \ Wanted("first", 1, S) /\ F.ret = Wanted("first", 1, S)
    BY <2>1 DEF Does, If
  <2>3. o.kind \in Pops
    BY <1>12 DEF Pops
  <2>4. Wanted("first", 1, S) \in SUBSET Elems /\ Wanted("first", 1, S) \in SUBSET Nat
    BY <1>1, <1>4
  <2>5. F.S \in SUBSET Elems /\ F.ret \in SUBSET Nat
    BY <2>2, <2>4
  <2> QED
    BY <1>5, <1>12, <2>3, <2>5
<1>13. CASE o.kind = "popLast"
  <2>1. F = Does(S \ Wanted("last", 1, S), Wanted("last", 1, S))
    BY <1>13 DEF Effect, If, Navigations
  <2>2. F.S = S \ Wanted("last", 1, S) /\ F.ret = Wanted("last", 1, S)
    BY <2>1 DEF Does, If
  <2>3. o.kind \in Pops
    BY <1>13 DEF Pops
  <2>4. Wanted("last", 1, S) \in SUBSET Elems /\ Wanted("last", 1, S) \in SUBSET Nat
    BY <1>1, <1>4
  <2>5. F.S \in SUBSET Elems /\ F.ret \in SUBSET Nat
    BY <2>2, <2>4
  <2> QED
    BY <1>5, <1>13, <2>3, <2>5
<1>14. CASE o.kind = "clear"
  <2>1. F = Does({}, {})
    BY <1>14 DEF Effect, If, Navigations
  <2>2. F.S = {} /\ F.ret = {}
    BY <2>1 DEF Does, If
  <2>3. F.S \in SUBSET Elems /\ F.ret \in SUBSET Nat
    BY <1>1, <1>3, <2>2 DEF If
  <2> QED
    BY <1>5, <1>14, <2>2, <2>3
<1>15. CASE o.kind = "refill"
  <2>1. F = Does(o.elems, {})
    BY <1>15 DEF Effect, If, Navigations
  <2>2. F.S = o.elems /\ F.ret = {}
    BY <2>1 DEF Does, If
  <2>3. F.S \in SUBSET Elems /\ F.ret \in SUBSET Nat
    BY <1>1, <1>3, <2>2 DEF If
  <2> QED
    BY <1>5, <1>15, <2>2, <2>3
<1>16. CASE o.kind = "size"
  <2>1. F = Does(S, {Cardinality(S)})
    BY <1>16 DEF Effect, If, Navigations
  <2>2. F.S = S /\ F.ret = {Cardinality(S)}
    BY <2>1 DEF Does, If
  <2>3. F.S \in SUBSET Elems /\ F.ret \in SUBSET Nat
    BY <1>1, <1>3, <2>2 DEF If
  <2> QED
    BY <1>5, <1>16, <2>2, <2>3
<1>17. CASE o.kind = "snapshot"
  <2>1. F = Does(S, S)
    BY <1>17 DEF Effect, If, Navigations
  <2>2. F.S = S /\ F.ret = S
    BY <2>1 DEF Does, If
  <2>3. F.S \in SUBSET Elems /\ F.ret \in SUBSET Nat
    BY <1>1, <1>3, <2>2 DEF If
  <2> QED
    BY <1>5, <1>17, <2>2, <2>3
<1>18. CASE o.kind \in Navigations
  <2>1. F = Does(S, Wanted(o.kind, o.elem, S))
    <3>1. \A k : k = o.kind => F = Does(S, Wanted(k, o.elem, S))
      BY <1>18 DEF Effect, If, Navigations
    <3> QED
      BY <3>1
  <2>2. F.S = S /\ F.ret = Wanted(o.kind, o.elem, S)
    BY <2>1 DEF Does
  <2>3. o.kind \notin {"size", "snapshot"}
    BY <1>18 DEF Navigations
  <2>4. F.S = S /\ F.ret \in SUBSET Elems
    <3>1. Wanted(o.kind, o.elem, S) \in SUBSET Elems
      BY <1>4, Zenon
    <3> QED
      BY <2>2, <3>1, Zenon
  <2> HIDE DEF F
  <2>5. F.S \in SUBSET Elems /\ F.ret \in SUBSET Nat
    BY <1>1, <2>4
  <2>6. /\ F.S \in SUBSET Elems /\ F.ret \in SUBSET Nat
        /\ o.kind \notin Updates => F.S = S
        /\ o.kind = "size" => F.ret = {Cardinality(S)}
        /\ o.kind = "snapshot" => F.ret = S
    BY <2>3, <2>4, <2>5
  <2> QED
    BY <2>6 DEF F
<1> QED
  BY <1>6, <1>7, <1>8, <1>9, <1>10, <1>11, <1>12, <1>13, <1>14, <1>15, <1>16, <1>17, <1>18 DEF EffectKinds, Points, Batches, Pops

LEMMA OutcomeType ==
    ASSUME Shape, NEW p \in Procs, op[p] \in Ops, op[p].kind \in EffectKinds,
           NEW e \in Outcomes(p, op[p])
    PROVE  LET o == op[p]  S == content[o.on] IN
           /\ o.on \in Sets /\ S \in SUBSET Elems
           /\ e.S \in SUBSET Elems /\ e.ret \in SUBSET Nat
           /\ o.kind \notin Updates => e.S = S
           /\ o.kind = "size" => \E n \in Nat : e.ret = {n}
           /\ o.kind = "snapshot" => e.ret = S
           /\ ~Estimate(p) => e = Effect(o, S)
<1> DEFINE o == op[p]  S == content[o.on]
<1>1. o.on \in Sets /\ S \in SUBSET Elems
  BY DEF Shape, Ops
<1>2. CASE o.kind = "size" /\ ~Locked(o.on) /\ \E r \in Procs \ {p} : Updating(r, o.on)
  <2>1. PICK n \in Numbers : e = Does(S, {n})
    BY <1>2 DEF Outcomes
  <2>2. n \in Nat
    BY FS_CardinalityType DEF Numbers
  <2> QED
    BY <1>1, <1>2, <2>1, <2>2 DEF Does, Estimate
<1>3. CASE ~(o.kind = "size" /\ ~Locked(o.on) /\ \E r \in Procs \ {p} : Updating(r, o.on))
  <2>1. e = Effect(o, S)
    BY <1>3 DEF Outcomes
  <2>2. Cardinality(S) \in Nat
    BY <1>1, Counted
  <2> QED
    BY <1>1, <2>1, <2>2, EffectType
<1> QED
  BY <1>2, <1>3

-----------------------------------------------------------------------------
LEMMA SeqMonotone == ASSUME NEW S, NEW T, S \subseteq T PROVE Seq(S) \subseteq Seq(T)
  OBVIOUS

LEMMA PlanType == ASSUME NEW q, NEW l \in Seq(Allowed(q)) PROVE l \in Seq(Ops)
<1>1. Allowed(q) \subseteq Ops
  BY AllowedType
<1> QED
  BY <1>1, SeqMonotone

Fits(p) ==
    /\ pc[p] \in Labels
    /\ call[p] \in Requests \cup {none}
    /\ todo[p] \in SUBSET Requests
    /\ op[p] \in Ops \cup {none}
    /\ plan[p] \in Seq(Ops)
    /\ walk[p] \in Hikes
    /\ snap[p] \in (SUBSET Elems) \cup {none}
    /\ sizes[p] \in Seq(Nat)
    /\ out[p] \in SUBSET (Elems \cup {0})
    /\ ret[p] \in (SUBSET Nat) \cup {none}

LEMMA ShapeFits == ASSUME Shape, NEW p \in Procs PROVE Fits(p)
  BY DEF Shape, Fits

AllFit == \A p \in Procs : Fits(p)
Based == impl \in Mixes /\ content \in [Sets -> SUBSET Elems] /\ lock \in [Sets -> Locks(Procs)]

LEMMA FitsShape == Based /\ Mapped /\ AllFit => Shape
  BY DEF AllFit, Based, Mapped, Function, Fits, Shape

\* What every step owes: p is in order again, the others were left alone.
Orderly(p) == Fits(p)' /\ Labelled(p)'

LEMMA OthersOrderly ==
    ASSUME Shape, NEW p \in Procs, NEW r \in Procs, r # p, Apart(p), Labelled(r),
           walk'[r] \in Hikes, walk'[r].on = walk[r].on
    PROVE  Orderly(r)
<1>1. Fits(r)'
  BY ShapeFits DEF Fits, Apart, Same
<1>2. Labelled(r)'
  BY DEF Labelled, Apart, Same, Locked
<1> QED
  BY <1>1, <1>2 DEF Orderly

LEMMA CallOrderly ==
    ASSUME Shape, NEW p \in Procs, Labelled(p), Call(p)
    PROVE  Orderly(p)
<1>1. PICK q \in todo[p] : /\ call'[p] = q /\ todo'[p] = todo[p] \ {q}
                           /\ plan'[p] \in Plans(q)
  BY CallFacts
<1>2. /\ impl' = impl /\ pc[p] = "idle" /\ pc'[p] = "next"
      /\ op'[p] = op[p] /\ walk'[p] = walk[p] /\ snap'[p] = snap[p] /\ sizes'[p] = sizes[p]
      /\ out'[p] = out[p] /\ ret'[p] = ret[p]
  BY CallFacts DEF Private, Apart
<1>3. Fits(p) /\ q \in Requests
  BY ShapeFits, <1>1 DEF Fits
<1>4. plan'[p] \in Seq(Allowed(q)) /\ plan'[p] \in Seq(Ops)
  BY <1>1, <1>3, PlansTyped, PlanType
<1>5. Fits(p)'
  BY <1>1, <1>2, <1>3, <1>4 DEF Fits, Labels
<1>6. Labelled(p)'
  BY <1>1, <1>2, <1>3, <1>4 DEF Labelled, Operating, Walking
<1> QED
  BY <1>5, <1>6 DEF Orderly

LEMMA WalkedIs ==
    ASSUME NEW s, NEW asked, NEW taken
    PROVE  Walked(s, asked, taken) =
             [on |-> s, other |-> asked,
              left |-> IF impl[s] = "hash" THEN Buckets ELSE {}, batch |-> IF Locked(s) THEN taken ELSE {},
              at |-> Begun(IF impl[s] = "skip" THEN content[s] ELSE {})]
<1> DEFINE batch == IF Locked(s) THEN taken ELSE {}
           left == IF impl[s] = "hash" THEN Buckets ELSE {}
           at == Begun(IF impl[s] = "skip" THEN content[s] ELSE {})
<1>1. Walked(s, asked, taken) =
        [Unstarted(s) EXCEPT !.other = asked, !.batch = batch, !.left = left, !.at = at]
  BY DEF Walked
<1> HIDE DEF batch, left, at
<1>2. Walked(s, asked, taken) = [on |-> s, other |-> asked, left |-> left, batch |-> batch, at |-> at]
  BY <1>1 DEF Unstarted
<1> QED
  BY <1>2 DEF batch, left, at

LEMMA ProceedOrderly ==
    ASSUME Shape, NEW p \in Procs, Labelled(p), Proceed(p)
    PROVE  Orderly(p)
<1> DEFINE o == Head(plan[p])
<1>1. /\ impl' = impl /\ pc[p] = "next" /\ plan[p] # <<>>
      /\ plan'[p] = Tail(plan[p]) /\ op'[p] = o /\ call'[p] = call[p] /\ todo'[p] = todo[p]
      /\ IF o.kind = "walk"
         THEN walk'[p] = Walked(o.on, o.other, walk[p].batch) /\ pc'[p] = "walk"
         ELSE walk'[p] = walk[p] /\ pc'[p] = "act"
      /\ snap'[p] = snap[p] /\ sizes'[p] = sizes[p] /\ out'[p] = out[p] /\ ret'[p] = ret[p]
  BY ProceedFacts DEF Private, Apart
<1>2. Fits(p) /\ call[p] \in Requests /\ plan[p] \in Seq(Allowed(call[p])) /\ out[p] \subseteq Elems
  BY <1>1, ShapeFits DEF Labelled
<1>3. o \in Allowed(call[p]) /\ Tail(plan[p]) \in Seq(Allowed(call[p]))
  BY <1>1, <1>2, HeadOf
<1>4. Tail(plan[p]) \in Seq(Ops)
  BY <1>3, PlanType
<1> HIDE DEF o
<1>5. /\ o \in Ops /\ o.kind \in EffectKinds \cup {"walk"}
      /\ call[p].kind \notin Updates => o.kind \notin Updates
      /\ call[p].kind \in Asking => o.kind \in Measuring \cup {"walk"}
      /\ o.on \in Sets /\ o.other \in Sets \cup {none, "itself"}
  BY <1>3 DEF Allowed, PlanOps, Ops
<1>6. o.kind = "walk" => walk'[p] \in Hikes /\ walk'[p].on = o.on
  <2> DEFINE w == Walked(o.on, o.other, walk[p].batch)
             batch == IF Locked(o.on) THEN walk[p].batch ELSE {}
             left == IF impl[o.on] = "hash" THEN Buckets ELSE {}
             due == IF impl[o.on] = "skip" THEN content[o.on] ELSE {}
  <2>1. w = [on |-> o.on, other |-> o.other, left |-> left, batch |-> batch, at |-> Begun(due)]
    BY WalkedIs
  <2>2. batch \in SUBSET Elems /\ left \in SUBSET Buckets /\ due \in SUBSET Elems
    <3>1. walk[p].batch \in SUBSET Elems
      BY <1>2 DEF Fits, Hikes
    <3>2. content[o.on] \in SUBSET Elems
      BY <1>5 DEF Shape
    <3> QED
      BY <3>1, <3>2
  <2>3. Begun(due) \in Walks(Elems)
    BY <2>2 DEF Begun, Walks
  <2> HIDE DEF batch, left, due
  <2>4. w \in Hikes /\ w.on = o.on
    BY <1>5, <2>1, <2>2, <2>3 DEF Hikes
  <2> HIDE DEF w
  <2> QED
    BY <1>1, <2>4 DEF w
<1>7. Fits(p)'
  BY <1>1, <1>2, <1>4, <1>5, <1>6 DEF Fits, Labels, Operating, Walking
<1>8. Labelled(p)'
  BY <1>1, <1>2, <1>3, <1>5, <1>6 DEF Labelled, Operating, Walking
<1> QED
  BY <1>7, <1>8 DEF Orderly

\* An operation that happens, on the set and on the walks over it.
LEMMA WithoutWalk ==
    ASSUME NEW w \in Hikes, NEW S \in SUBSET Elems
    PROVE  LET v == [w EXCEPT !.at = Without(@, S)] IN
           /\ v \in Hikes /\ v.on = w.on /\ v.other = w.other /\ v.left = w.left /\ v.batch = w.batch
           /\ v.at.pos = w.at.pos /\ v.at.due = w.at.due \cap S
<1> DEFINE at == Without(w.at, S)  v == [w EXCEPT !.at = at]
<1>1. w.at \in [pos : Elems \cup {0}, due : SUBSET Elems]
  BY DEF Hikes, Walks
<1>2. at \in Walks(Elems) /\ at.pos = w.at.pos /\ at.due = w.at.due \cap S
  BY <1>1 DEF Without, Walks
<1> HIDE DEF at
<1>3. v \in Hikes /\ v.at = at /\ v.on = w.on /\ v.other = w.other /\ v.left = w.left /\ v.batch = w.batch
  BY <1>2 DEF Hikes
<1> QED
  BY <1>2, <1>3 DEF at

LEMMA HappensOrderly ==
    ASSUME Shape, NEW p \in Procs, \A r \in Procs : Labelled(r), Happens(p), pc[p] \in Operating
    PROVE  /\ content' \in [Sets -> SUBSET Elems]
           /\ \A r \in Procs : Orderly(r)
<1> DEFINE s == op[p].on
<1>1. PICK e \in Outcomes(p, op[p]) :
        /\ content' = [content EXCEPT ![s] = e.S] /\ ret'[p] = e.ret
        /\ \A r \in Procs : walk'[r] = IF walk[r].on = s
                                       THEN [walk[r] EXCEPT !.at = Without(@, e.S)] ELSE walk[r]
  BY HappensFacts
<1>2. /\ Apart(p) /\ pc'[p] = "got" /\ call'[p] = call[p] /\ todo'[p] = todo[p] /\ op'[p] = op[p]
      /\ plan'[p] = plan[p] /\ snap'[p] = snap[p] /\ sizes'[p] = sizes[p] /\ out'[p] = out[p]
  BY HappensFacts
<1>3. op[p] \in Ops /\ op[p].kind \in EffectKinds
  BY DEF Labelled
<1>4. /\ s \in Sets /\ content[s] \in SUBSET Elems
      /\ e.S \in SUBSET Elems /\ e.ret \in SUBSET Nat
      /\ op[p].kind = "size" => \E n \in Nat : e.ret = {n}
      /\ op[p].kind = "snapshot" => e.ret = content[s]
  BY <1>3, OutcomeType
<1>5. content' \in [Sets -> SUBSET Elems]
  BY <1>1, <1>4 DEF Shape
<1>6. ASSUME NEW r \in Procs PROVE walk'[r] \in Hikes /\ walk'[r].on = walk[r].on
  <2>1. walk[r] \in Hikes
    BY DEF Shape
  <2>2. [walk[r] EXCEPT !.at = Without(@, e.S)] \in Hikes /\ [walk[r] EXCEPT !.at = Without(@, e.S)].on = walk[r].on
    BY <1>4, <2>1, WithoutWalk
  <2> QED
    BY <1>1, <2>1, <2>2
<1>7. ASSUME NEW r \in Procs, r # p PROVE Orderly(r)
  BY <1>2, <1>6, <1>7, OthersOrderly
<1>8. Fits(p)'
  BY <1>1, <1>2, <1>4, <1>6, ShapeFits DEF Fits, Labels, Operating
<1>9. Labelled(p)'
  <2>1. impl' = impl
    BY <1>2 DEF Apart
  <2> QED
    BY <1>1, <1>2, <1>3, <1>4, <1>6, <2>1 DEF Labelled, Operating, Walking
<1> QED
  BY <1>5, <1>7, <1>8, <1>9 DEF Orderly

LEMMA AsksOrderly ==
    ASSUME Shape, NEW p \in Procs, Labelled(p), Asks(p)
    PROVE  Orderly(p)
<1>1. /\ impl' = impl /\ pc[p] = "act" /\ Locked(op[p].on)
      /\ call'[p] = call[p] /\ todo'[p] = todo[p] /\ op'[p] = op[p] /\ plan'[p] = plan[p]
      /\ walk'[p] = walk[p] /\ snap'[p] = snap[p] /\ sizes'[p] = sizes[p]
      /\ out'[p] = out[p] /\ ret'[p] = ret[p]
  BY AsksFacts DEF Private, Apart
<1>2. pc'[p] = "held" \/ (pc'[p] = "queued" /\ ~Reading(op[p]))
  BY AsksFacts
<1>3. Fits(p)'
  BY <1>1, <1>2, ShapeFits DEF Fits, Labels, Operating
<1>4. Labelled(p)'
  BY <1>1, <1>2 DEF Labelled, Operating, Walking, Locked, Reading
<1> QED
  BY <1>3, <1>4 DEF Orderly

LEMMA EntersOrderly ==
    ASSUME Shape, NEW p \in Procs, Labelled(p), Enters(p)
    PROVE  Orderly(p)
<1>1. /\ impl' = impl /\ pc[p] = "queued" /\ pc'[p] = "held"
      /\ call'[p] = call[p] /\ todo'[p] = todo[p] /\ op'[p] = op[p] /\ plan'[p] = plan[p]
      /\ walk'[p] = walk[p] /\ snap'[p] = snap[p] /\ sizes'[p] = sizes[p]
      /\ out'[p] = out[p] /\ ret'[p] = ret[p]
  BY EntersFacts DEF Moves, Private, Apart
<1>2. Fits(p)'
  BY <1>1, ShapeFits DEF Fits, Labels, Operating
<1>3. Labelled(p)'
  BY <1>1 DEF Labelled, Operating, Walking, Locked, Reading
<1> QED
  BY <1>2, <1>3 DEF Orderly

LEMMA WalkEndsOrderly ==
    ASSUME Shape, NEW p \in Procs, Labelled(p), WalkEnds(p)
    PROVE  Orderly(p)
<1>1. /\ impl' = impl /\ pc[p] = "walk" /\ pc'[p] = "walked"
      /\ call'[p] = call[p] /\ todo'[p] = todo[p] /\ op'[p] = op[p] /\ plan'[p] = plan[p]
      /\ walk'[p] = walk[p] /\ snap'[p] = snap[p] /\ sizes'[p] = sizes[p]
      /\ out'[p] = out[p] /\ ret'[p] = ret[p]
  BY WalkEndsFacts DEF Moves, Private, Apart
<1>2. Fits(p)'
  BY <1>1, ShapeFits DEF Fits, Labels, Walking
<1>3. Labelled(p)'
  BY <1>1 DEF Labelled, Operating, Walking, Locked, Reading
<1> QED
  BY <1>2, <1>3 DEF Orderly

LEMMA CopyingIs ==
    ASSUME NEW w \in Hikes, w.on \in Sets, Shape, NEW b \in w.left
    PROVE  LET v == Copying(w, b) IN
           /\ v \in Hikes /\ v.on = w.on /\ v.other = w.other /\ v.at = w.at
           /\ v.left = w.left \ {b} /\ v.batch = b \cap content[w.on]
<1> DEFINE left == w.left \ {b}  batch == b \cap content[w.on]
<1>1. left \in SUBSET Buckets /\ batch \in SUBSET Elems
  BY DEF Hikes, Shape
<1>2. Copying(w, b) = [w EXCEPT !.left = left, !.batch = batch]
  BY DEF Copying
<1> HIDE DEF left, batch
<1>3. /\ Copying(w, b) \in Hikes
      /\ Copying(w, b).on = w.on /\ Copying(w, b).other = w.other /\ Copying(w, b).at = w.at
      /\ Copying(w, b).left = left /\ Copying(w, b).batch = batch
  BY <1>1, <1>2 DEF Hikes
<1> QED
  BY <1>3 DEF left, batch

LEMMA NextBucketOrderly ==
    ASSUME Shape, NEW p \in Procs, Labelled(p), NextBucket(p)
    PROVE  Orderly(p)
<1>1. /\ impl' = impl /\ pc[p] = "walk" /\ pc'[p] = "walk"
      /\ call'[p] = call[p] /\ todo'[p] = todo[p] /\ op'[p] = op[p] /\ plan'[p] = plan[p]
      /\ snap'[p] = snap[p] /\ sizes'[p] = sizes[p]
      /\ out'[p] = out[p] /\ ret'[p] = ret[p]
  BY NextBucketFacts DEF Moves, Private, Apart
<1>2. PICK b \in walk[p].left : walk'[p] = Copying(walk[p], b)
  BY NextBucketFacts
<1>3. walk[p] \in Hikes /\ walk[p].on \in Sets
  BY <1>1 DEF Labelled, Shape, Walking
<1>4. walk'[p] \in Hikes /\ walk'[p].on = walk[p].on
  BY <1>2, <1>3, CopyingIs
<1>5. Fits(p)'
  BY <1>1, <1>4, ShapeFits DEF Fits, Labels, Walking
<1>6. Labelled(p)'
  BY <1>1, <1>3, <1>4 DEF Labelled, Operating, Walking
<1> QED
  BY <1>5, <1>6 DEF Orderly

\* The element a walk tells of next, and the walk after it.
LEMMA ReadyIs ==
    ASSUME Shape, NEW w \in Hikes, w.on \in Sets, NEW e \in Ready(w)
    PROVE  /\ e \in Elems
           /\ impl[w.on] = "skip" => e \in content[w.on] /\ e > w.at.pos /\ \A d \in w.at.due : e <= d
           /\ impl[w.on] # "skip" => e \in w.batch
           /\ impl[w.on] \notin {"skip", "hash"} => \A d \in w.batch : e <= d
<1>1. content[w.on] \in SUBSET Elems /\ w.batch \in SUBSET Elems
  BY DEF Shape, Hikes
<1>2. CASE impl[w.on] = "skip"
  <2>1. e \in Reached(w.at, content[w.on])
    BY <1>2 DEF Ready
  <2> QED
    BY <1>1, <1>2, <2>1 DEF Reached
<1>3. CASE impl[w.on] = "hash"
  <2>1. e \in w.batch
    BY <1>3 DEF Ready
  <2> QED
    BY <1>1, <1>3, <2>1
<1>4. CASE impl[w.on] \notin {"skip", "hash"}
  <2>1. e \in Wanted("first", 1, w.batch)
    BY <1>4 DEF Ready
  <2>2. \A k : Qualifies("first", 1, k)
    BY DEF Qualifies
  <2> QED
    BY <1>1, <1>4, <2>1, <2>2 DEF Wanted, Upward
<1> QED
  BY <1>2, <1>3, <1>4

LEMMA PastIs ==
    ASSUME NEW w \in Hikes, NEW e \in Elems
    PROVE  LET v == Past(w, e) IN
           /\ v \in Hikes /\ v.on = w.on /\ v.other = w.other /\ v.left = w.left
           /\ IF impl[w.on] = "skip" THEN v.batch = w.batch /\ v.at.pos = e /\ v.at.due = w.at.due \ {e}
                                     ELSE v.batch = w.batch \ {e} /\ v.at = w.at
<1>1. CASE impl[w.on] = "skip"
  <2> DEFINE at == Moved(w.at, e)
  <2>1. w.at \in [pos : Elems \cup {0}, due : SUBSET Elems]
    BY DEF Hikes, Walks
  <2>2. at \in Walks(Elems) /\ at.pos = e /\ at.due = w.at.due \ {e}
    BY <2>1 DEF Moved, Walks
  <2>3. Past(w, e) = [w EXCEPT !.at = at]
    BY <1>1 DEF Past
  <2> HIDE DEF at
  <2>4. /\ Past(w, e) \in Hikes /\ Past(w, e).at = at /\ Past(w, e).on = w.on
        /\ Past(w, e).other = w.other /\ Past(w, e).left = w.left /\ Past(w, e).batch = w.batch
    BY <2>2, <2>3 DEF Hikes
  <2> QED
    BY <1>1, <2>2, <2>4
<1>2. CASE impl[w.on] # "skip"
  <2> DEFINE batch == w.batch \ {e}
  <2>1. Past(w, e) = [w EXCEPT !.batch = batch]
    BY <1>2 DEF Past
  <2>2. batch \in SUBSET Elems
    BY DEF Hikes
  <2> HIDE DEF batch
  <2>3. /\ Past(w, e) \in Hikes /\ Past(w, e).at = w.at /\ Past(w, e).on = w.on
        /\ Past(w, e).other = w.other /\ Past(w, e).left = w.left /\ Past(w, e).batch = batch
    BY <2>1, <2>2 DEF Hikes
  <2> QED
    BY <1>2, <2>3 DEF batch
<1> QED
  BY <1>1, <1>2

LEMMA DecidesTyped ==
    ASSUME NEW p \in Procs, NEW e \in Elems, NEW found, out[p] \in SUBSET Elems, Decides(p, e, found)
    PROVE  out'[p] \in SUBSET Elems /\ pc'[p] \in {"walk", "walked"}
  BY DEF Decides

LEMMA PointOps ==
    ASSUME NEW k \in {"contains", "remove", "walk"}, NEW s \in Sets, NEW e \in Elems
    PROVE  LET o == Op(k, s, none, e, {}) IN
           o \in Ops /\ o.kind = k /\ o.on = s /\ o.elem = e /\ (k # "walk" => k \in EffectKinds)
<1>1. k \in Tasks /\ (k # "walk" => k \in EffectKinds)
  BY DEF Tasks, Kinds, Points, EffectKinds
<1> QED
  BY <1>1 DEF Op, Ops

LEMMA VisitOrderly ==
    ASSUME Shape, NEW p \in Procs, Labelled(p), Visit(p)
    PROVE  Orderly(p)
<1> DEFINE w == walk[p]  q == call[p]  asks == w.other \in Sets
<1>1. /\ impl' = impl /\ pc[p] = "walk"
      /\ call'[p] = call[p] /\ todo'[p] = todo[p] /\ plan'[p] = plan[p] /\ snap'[p] = snap[p]
      /\ sizes'[p] = sizes[p] /\ ret'[p] = ret[p]
  BY VisitFacts DEF Private, Apart
<1>2. PICK e \in Ready(w) :
        /\ walk'[p] = Past(w, e)
        /\ \/ asks /\ op'[p] = Op("contains", w.other, none, e, {}) /\ pc'[p] = "act" /\ out'[p] = out[p]
           \/ Decides(p, e, e \in snap[p]) /\ op'[p] = op[p]
           \/ /\ ~asks /\ q.kind \in {"clear", "refill"}
              /\ op'[p] = Op("remove", q.on, none, e, {}) /\ pc'[p] = "act" /\ out'[p] = out[p]
           \/ /\ ~asks /\ q.kind \in {"scan", "removeFunc"}
              /\ op'[p] = Op("walk", q.on, none, e, {}) /\ pc'[p] = "told" /\ out'[p] = out[p]
           \/ Decides(p, e, TRUE) /\ op'[p] = op[p]
  BY VisitFacts
<1>3. /\ w \in Hikes /\ w.on \in Sets /\ Fits(p) /\ out[p] \in SUBSET Elems
      /\ q \in Requests /\ q.on \in Sets
  BY <1>1, ShapeFits DEF Labelled, Fits, Walking, Requests, Ops
<1>4. e \in Elems
  BY <1>3, ReadyIs
<1>5. walk'[p] \in Hikes /\ walk'[p].on \in Sets
  BY <1>2, <1>3, <1>4, PastIs
<1>6. \/ /\ out'[p] \in SUBSET Elems /\ pc'[p] \in {"walk", "walked"} /\ op'[p] = op[p]
      \/ /\ out'[p] = out[p] /\ pc'[p] = "act" /\ op'[p] \in Ops /\ op'[p].kind = "contains"
      \/ /\ out'[p] = out[p] /\ pc'[p] = "act" /\ op'[p] \in Ops /\ op'[p].kind = "remove"
         /\ q.kind \in {"clear", "refill"}
      \/ /\ out'[p] = out[p] /\ pc'[p] = "told" /\ op'[p] \in Ops /\ q.kind \in {"scan", "removeFunc"}
  <2>1. ASSUME NEW found, Decides(p, e, found)
        PROVE  out'[p] \in SUBSET Elems /\ pc'[p] \in {"walk", "walked"}
    BY <1>3, <1>4, <2>1, DecidesTyped
  <2>2. \A k \in {"contains", "remove", "walk"}, s \in Sets :
          Op(k, s, none, e, {}) \in Ops /\ Op(k, s, none, e, {}).kind = k
    BY <1>4, PointOps
  <2>3. /\ asks => Op("contains", w.other, none, e, {}) \in Ops /\ Op("contains", w.other, none, e, {}).kind = "contains"
        /\ Op("remove", q.on, none, e, {}) \in Ops /\ Op("remove", q.on, none, e, {}).kind = "remove"
        /\ Op("walk", q.on, none, e, {}) \in Ops
    BY <1>3, <2>2
  <2> QED
    BY <1>2, <1>3, <2>1, <2>3
<1>7. Fits(p)'
  BY <1>1, <1>3, <1>5, <1>6 DEF Fits, Labels, Operating, Walking
<1>8. Labelled(p)'
  <2>1. {"contains", "remove"} \subseteq EffectKinds /\ "contains" \notin Updates
    BY DEF EffectKinds, Points, Updates, Pops
  <2>2. {"clear", "refill"} \subseteq Updates /\ {"clear", "refill"} \cap Asking = {}
    BY DEF Updates, Asking, Algebra, Relations, Sized
  <2>3. CASE pc'[p] \in {"walk", "walked"}
    BY <1>1, <1>3, <1>5, <1>6, <2>3 DEF Labelled, Operating, Walking
  <2>4. CASE pc'[p] = "told"
    BY <1>1, <1>3, <1>5, <1>6, <2>4 DEF Labelled, Operating, Walking
  <2>5. CASE pc'[p] = "act"
    BY <1>1, <1>3, <1>5, <1>6, <2>1, <2>2, <2>5 DEF Labelled, Operating, Walking
  <2> QED
    BY <1>6, <2>3, <2>4, <2>5
<1> QED
  BY <1>7, <1>8 DEF Orderly

LEMMA ContinueOrderly ==
    ASSUME Shape, NEW p \in Procs, Labelled(p), Continue(p)
    PROVE  Orderly(p)
<1>1. /\ impl' = impl /\ pc[p] = "told" /\ Decides(p, op[p].elem, TRUE)
      /\ call'[p] = call[p] /\ todo'[p] = todo[p] /\ op'[p] = op[p] /\ plan'[p] = plan[p]
      /\ walk'[p] = walk[p] /\ snap'[p] = snap[p] /\ sizes'[p] = sizes[p] /\ ret'[p] = ret[p]
  BY ContinueFacts DEF Private, Apart
<1>2. op[p].elem \in Elems /\ out[p] \in SUBSET Elems
  BY <1>1 DEF Labelled, Ops
<1>3. out'[p] \in SUBSET Elems /\ pc'[p] \in {"walk", "walked"}
  BY <1>1, <1>2, DecidesTyped
<1>4. Fits(p)'
  BY <1>1, <1>3, ShapeFits DEF Fits, Labels, Walking
<1>5. Labelled(p)'
  BY <1>1, <1>3 DEF Labelled, Operating, Walking
<1> QED
  BY <1>4, <1>5 DEF Orderly

LEMMA ConsultedOrderly ==
    ASSUME Shape, NEW p \in Procs, Labelled(p), Consulted(p)
    PROVE  Orderly(p)
<1>1. /\ impl' = impl /\ pc[p] = "got" /\ Decides(p, op[p].elem, ret[p] # {})
      /\ op[p].kind = "contains" /\ call[p].kind \in Asking
      /\ call'[p] = call[p] /\ todo'[p] = todo[p] /\ op'[p] = op[p] /\ plan'[p] = plan[p]
      /\ walk'[p] = walk[p] /\ snap'[p] = snap[p] /\ sizes'[p] = sizes[p] /\ ret'[p] = ret[p]
  BY ConsultedFacts DEF Private, Apart
<1>2. op[p].elem \in Elems /\ out[p] \in SUBSET Elems /\ walk[p].on \in Sets
  BY <1>1, ShapeFits DEF Labelled, Ops, Operating, Measuring, Fits, Hikes
<1>3. out'[p] \in SUBSET Elems /\ pc'[p] \in {"walk", "walked"}
  BY <1>1, <1>2 DEF Decides
<1>4. Fits(p)'
  BY <1>1, <1>3, ShapeFits DEF Fits, Labels, Walking
<1>5. Labelled(p)'
  BY <1>1, <1>2, <1>3 DEF Labelled, Operating, Walking
<1> QED
  BY <1>4, <1>5 DEF Orderly

LEMMA PanicOrderly ==
    ASSUME Shape, NEW p \in Procs, Labelled(p), Panic(p)
    PROVE  Orderly(p)
<1>1. /\ impl' = impl /\ pc[p] = "told" /\ pc'[p] = "done" /\ ret'[p] = none
      /\ call'[p] = call[p] /\ todo'[p] = todo[p] /\ op'[p] = op[p] /\ plan'[p] = plan[p]
      /\ walk'[p] = walk[p] /\ snap'[p] = snap[p] /\ sizes'[p] = sizes[p] /\ out'[p] = out[p]
  BY PanicFacts DEF Moves, Private, Apart
<1>2. Fits(p)'
  <2>1. ret'[p] \in (SUBSET Nat) \cup {none} /\ Fits(p)
    BY <1>1, ShapeFits
  <2> QED
    BY <1>1, <2>1 DEF Fits, Labels
<1>3. Labelled(p)'
  BY <1>1 DEF Labelled, Operating, Walking
<1> QED
  BY <1>2, <1>3 DEF Orderly

LEMMA NowhereIs == Nowhere \in Hikes /\ Nowhere.on = none
<1>1. Begun({}) \in Walks(Elems)
  BY DEF Begun, Walks
<1> QED
  BY <1>1 DEF Nowhere, Unstarted, Hikes

LEMMA ConcludeOrderly ==
    ASSUME Shape, NEW p \in Procs, Labelled(p), Conclude(p)
    PROVE  Orderly(p)
<1> DEFINE q == call[p]
<1>1. /\ impl' = impl /\ pc[p] = "walked" /\ walk'[p] = Nowhere
      /\ call'[p] = call[p] /\ todo'[p] = todo[p] /\ snap'[p] = snap[p]
      /\ sizes'[p] = sizes[p] /\ out'[p] = out[p] /\ ret'[p] = ret[p]
  BY ConcludeFacts DEF Private, Apart
<1>2. \/ /\ q.kind \in Pops /\ pc'[p] = "act" /\ plan'[p] = plan[p]
         /\ \E e \in out[p] : op'[p] = Op("remove", q.on, none, e, {})
      \/ /\ q.kind = "removeFunc" /\ pc'[p] = "next" /\ op'[p] = op[p]
         /\ IF Locked(q.on) THEN plan'[p] = <<Op("removeAll", q.on, none, 1, out[p])>>
                            ELSE plan'[p] \in Each("remove", q.on, out[p])
      \/ pc'[p] = "next" /\ op'[p] = op[p] /\ plan'[p] = plan[p]
  BY ConcludeFacts
<1>3. /\ Fits(p) /\ out[p] \in SUBSET Elems /\ q \in Requests /\ q.on \in Sets
      /\ plan[p] \in Seq(Allowed(q)) /\ plan[p] \in Seq(Ops)
  BY <1>1, ShapeFits DEF Labelled, Fits, Requests, Ops
<1>4. walk'[p] \in Hikes /\ walk'[p].on = none
  BY <1>1, NowhereIs
<1>5. /\ Pops \subseteq Updates /\ Pops \cap Asking = {}
      /\ "removeFunc" \in Updates /\ "remove" \in Updates /\ "removeFunc" \notin Asking
  BY DEF Pops, Updates, Asking, Algebra, Relations, Sized
<1>6. CASE /\ q.kind \in Pops /\ pc'[p] = "act" /\ plan'[p] = plan[p]
           /\ \E e \in out[p] : op'[p] = Op("remove", q.on, none, e, {})
  <2>1. op'[p] \in Ops /\ op'[p].kind = "remove" /\ op'[p].kind \in EffectKinds
    <3>1. PICK e \in out[p] : op'[p] = Op("remove", q.on, none, e, {})
      BY <1>6
    <3>2. e \in Elems
      BY <1>3, <3>1
    <3> QED
      BY <1>3, <3>1, <3>2, PointOps
  <2>2. Fits(p)'
    BY <1>1, <1>3, <1>4, <1>6, <2>1 DEF Fits, Labels, Operating
  <2>3. Labelled(p)'
    BY <1>1, <1>3, <1>4, <1>5, <1>6, <2>1 DEF Labelled, Operating, Walking
  <2> QED
    BY <2>2, <2>3 DEF Orderly
<1>7. CASE /\ q.kind = "removeFunc" /\ pc'[p] = "next" /\ op'[p] = op[p]
           /\ IF Locked(q.on) THEN plan'[p] = <<Op("removeAll", q.on, none, 1, out[p])>>
                              ELSE plan'[p] \in Each("remove", q.on, out[p])
  <2>1. plan'[p] \in Seq(Allowed(q))
    <3>1. CASE Locked(q.on)
      <4> DEFINE o == Op("removeAll", q.on, none, 1, out[p])
      <4>1. "removeAll" \in Tasks /\ "removeAll" \in EffectKinds
        BY DEF Tasks, Kinds, Batches, EffectKinds
      <4>2. o \in Ops /\ o.kind = "removeAll"
        BY <1>3, <4>1 DEF Op, Ops
      <4>3. o \in Allowed(q)
        BY <1>5, <1>7, <4>1, <4>2 DEF Allowed, PlanOps
      <4> HIDE DEF o
      <4> QED
        BY <1>7, <3>1, <4>3, OneOf DEF o
    <3>2. CASE ~Locked(q.on)
      BY <1>3, <1>5, <1>7, <3>2, EachTyped
    <3> QED
      BY <3>1, <3>2
  <2>2. plan'[p] \in Seq(Ops)
    BY <2>1, PlanType
  <2>3. Fits(p)'
    BY <1>1, <1>3, <1>4, <1>7, <2>2 DEF Fits, Labels
  <2>4. Labelled(p)'
    BY <1>1, <1>3, <1>4, <1>7, <2>1 DEF Labelled, Operating, Walking
  <2> QED
    BY <2>3, <2>4 DEF Orderly
<1>8. CASE pc'[p] = "next" /\ op'[p] = op[p] /\ plan'[p] = plan[p]
  <2>1. Fits(p)'
    BY <1>1, <1>3, <1>4, <1>8 DEF Fits, Labels
  <2>2. Labelled(p)'
    BY <1>1, <1>3, <1>4, <1>8 DEF Labelled, Operating, Walking
  <2> QED
    BY <2>1, <2>2 DEF Orderly
<1> QED
  BY <1>2, <1>6, <1>7, <1>8

LEMMA LearnsOrderly ==
    ASSUME Shape, NEW p \in Procs, Labelled(p), Learns(p)
    PROVE  Orderly(p)
<1>1. /\ impl' = impl /\ pc[p] = "got" /\ op[p].kind \in Measuring
      /\ call'[p] = call[p] /\ todo'[p] = todo[p] /\ op'[p] = op[p] /\ plan'[p] = plan[p]
      /\ ret'[p] = ret[p]
      /\ IF op[p].kind = "snapshot"
         THEN /\ walk'[p] = [walk[p] EXCEPT !.batch = ret[p]]
              /\ snap'[p] = IF snap[p] = none THEN ret[p] ELSE snap[p]
         ELSE walk'[p] = walk[p] /\ snap'[p] = snap[p]
      /\ sizes'[p] = IF Counts(p) THEN Append(sizes[p], Count(p)) ELSE sizes[p]
      /\ (pc'[p] = "done" /\ out'[p] = {0}) \/ (pc'[p] = "next" /\ out'[p] = out[p])
  BY LearnsFacts DEF Private, Apart
<1>2. Fits(p) /\ out[p] \in SUBSET Elems /\ walk[p] \in Hikes
  BY <1>1, ShapeFits DEF Labelled, Fits
<1>3. /\ op[p].kind = "snapshot" => ret[p] \in SUBSET Elems
      /\ op[p].kind = "size" => \E n \in Nat : ret[p] = {n}
  BY <1>1 DEF Labelled
<1>4. Count(p) \in Nat
  BY <1>1, <1>3, Counted DEF Count, Measuring
<1>5. sizes'[p] \in Seq(Nat)
  BY <1>1, <1>2, <1>4 DEF Fits
<1>6. walk'[p] \in Hikes /\ walk'[p].on = walk[p].on
  BY <1>1, <1>2, <1>3 DEF Hikes
<1>7. snap'[p] \in (SUBSET Elems) \cup {none}
  BY <1>1, <1>2, <1>3 DEF Fits
<1>8. Fits(p)'
  BY <1>1, <1>2, <1>5, <1>6, <1>7 DEF Fits, Labels
<1>9. Labelled(p)'
  BY <1>1, <1>2, <1>6 DEF Labelled, Operating, Walking
<1> QED
  BY <1>8, <1>9 DEF Orderly

LEMMA PoppedOrderly ==
    ASSUME Shape, NEW p \in Procs, Labelled(p), Popped(p)
    PROVE  Orderly(p)
<1>1. /\ impl' = impl /\ pc[p] = "got" /\ out'[p] = {}
      /\ call'[p] = call[p] /\ todo'[p] = todo[p] /\ op'[p] = op[p] /\ walk'[p] = walk[p]
      /\ snap'[p] = snap[p] /\ sizes'[p] = sizes[p]
      /\ IF ret[p] = {}
         THEN plan'[p] = Walk(call[p].on, none) /\ pc'[p] = "next" /\ ret'[p] = ret[p]
         ELSE plan'[p] = plan[p] /\ pc'[p] = "done" /\ ret'[p] = out[p]
  BY PoppedFacts DEF Private, Apart
<1>2. /\ Fits(p) /\ call[p] \in Requests /\ call[p].on \in Sets /\ out[p] \in SUBSET Elems
      /\ plan[p] \in Seq(Allowed(call[p])) /\ plan[p] \in Seq(Ops)
  BY <1>1, ShapeFits DEF Labelled, Fits, Requests, Ops
<1>3. Walk(call[p].on, none) \in Seq(Allowed(call[p]))
  BY <1>2, WalkTyped
<1>4. plan'[p] \in Seq(Allowed(call[p])) /\ plan'[p] \in Seq(Ops)
  BY <1>1, <1>2, <1>3, PlanType
<1>5. Fits(p)'
  BY <1>1, <1>2, <1>4 DEF Fits, Labels
<1>6. Labelled(p)'
  BY <1>1, <1>2, <1>4 DEF Labelled, Operating, Walking
<1> QED
  BY <1>5, <1>6 DEF Orderly

LEMMA ResumeOrderly ==
    ASSUME Shape, NEW p \in Procs, Labelled(p), Resume(p)
    PROVE  Orderly(p)
<1>1. /\ impl' = impl /\ pc[p] = "got"
      /\ pc'[p] = IF op[p].kind = "remove" /\ walk[p].on # none THEN "walk"
                  ELSE IF op[p].kind = "contains" /\ ret[p] = {} THEN "done" ELSE "next"
      /\ call'[p] = call[p] /\ todo'[p] = todo[p] /\ op'[p] = op[p] /\ plan'[p] = plan[p]
      /\ walk'[p] = walk[p] /\ snap'[p] = snap[p] /\ sizes'[p] = sizes[p]
      /\ out'[p] = out[p] /\ ret'[p] = ret[p]
  BY ResumeFacts DEF Moves, Private, Apart
<1>2. Fits(p) /\ (walk[p].on # none => walk[p].on \in Sets)
  BY ShapeFits DEF Fits, Hikes
<1>3. Fits(p)'
  BY <1>1, <1>2 DEF Fits, Labels, Walking
<1>4. Labelled(p)'
  BY <1>1, <1>2 DEF Labelled, Operating, Walking
<1> QED
  BY <1>3, <1>4 DEF Orderly

LEMMA FinishOrderly ==
    ASSUME Shape, NEW p \in Procs, Labelled(p), Finish(p)
    PROVE  Orderly(p)
<1>1. /\ impl' = impl /\ pc[p] = "next" /\ pc'[p] = "done"
      /\ ret'[p] = IF call[p].kind \in Pops /\ ~Locked(call[p].on) THEN {} ELSE ret[p]
      /\ call'[p] = call[p] /\ todo'[p] = todo[p] /\ op'[p] = op[p] /\ plan'[p] = plan[p]
      /\ walk'[p] = walk[p] /\ snap'[p] = snap[p] /\ sizes'[p] = sizes[p] /\ out'[p] = out[p]
  BY FinishFacts DEF Moves, Private, Apart
<1>2. Fits(p)'
  BY <1>1, ShapeFits DEF Fits, Labels
<1>3. Labelled(p)'
  BY <1>1 DEF Labelled, Operating, Walking
<1> QED
  BY <1>2, <1>3 DEF Orderly

LEMMA ReturnOrderly ==
    ASSUME Shape, NEW p \in Procs, Labelled(p), Return(p)
    PROVE  Orderly(p)
<1>1. /\ impl' = impl /\ pc'[p] = "idle" /\ todo'[p] = todo[p]
      /\ call'[p] = none /\ op'[p] = none /\ plan'[p] = <<>> /\ walk'[p] = Nowhere
      /\ snap'[p] = none /\ sizes'[p] = <<>> /\ out'[p] = {} /\ ret'[p] = {}
  BY ReturnFacts DEF Private, Apart
<1>2. Fits(p)'
  <2>1. /\ todo[p] \in SUBSET Requests
        /\ <<>> \in Seq(Ops) /\ <<>> \in Seq(Nat)
        /\ {} \in SUBSET (Elems \cup {0}) /\ {} \in SUBSET Nat
    BY DEF Shape
  <2> QED
    BY <1>1, <2>1, NowhereIs DEF Fits, Labels
<1>3. Labelled(p)'
  BY <1>1, NowhereIs DEF Labelled, Operating, Walking
<1> QED
  BY <1>2, <1>3 DEF Orderly

-----------------------------------------------------------------------------
(* Who is inside which lock.                                               *)

LEMMA InsideIs ==
    ASSUME NEW s, NEW labels
    PROVE  /\ Inside(s, labels, TRUE) = {p \in Procs : pc[p] \in labels /\ op[p].on = s /\ op[p].kind \notin Updates}
           /\ Inside(s, labels, FALSE) = {p \in Procs : pc[p] \in labels /\ op[p].on = s /\ op[p].kind \in Updates}
  BY DEF Inside, Reading

\* Somebody who is neither inside nor waiting stays so.
LEMMA LockFrame ==
    ASSUME NEW p \in Procs, Apart(p), lock' = lock, NEW s \in Sets, Accounted(s),
           pc[p] \notin {"queued", "held"}, pc'[p] \notin {"queued", "held"}
    PROVE  Accounted(s)'
<1>1. ASSUME NEW labels, labels \subseteq {"queued", "held"}, NEW reading
      PROVE  Inside(s, labels, reading)' = Inside(s, labels, reading)
  BY <1>1 DEF Inside, Reading, Apart, Same
<1>2. /\ Inside(s, {"held"}, TRUE)' = Inside(s, {"held"}, TRUE)
      /\ Inside(s, {"held"}, FALSE)' = Inside(s, {"held"}, FALSE)
      /\ Inside(s, {"queued", "held"}, FALSE)' = Inside(s, {"queued", "held"}, FALSE)
  BY <1>1
<1> QED
  BY <1>2 DEF Accounted, Apart, Locked

\* A step inside the lock of t leaves the other locks alone.
LEMMA OtherLocks ==
    ASSUME NEW p \in Procs, Apart(p), op'[p] = op[p], NEW s \in Sets, op[p].on # s,
           lock'[s] = lock[s], Accounted(s)
    PROVE  Accounted(s)'
<1>1. ASSUME NEW labels, NEW reading
      PROVE  Inside(s, labels, reading)' = Inside(s, labels, reading)
  BY DEF Inside, Reading, Apart, Same
<1>2. /\ Inside(s, {"held"}, TRUE)' = Inside(s, {"held"}, TRUE)
      /\ Inside(s, {"held"}, FALSE)' = Inside(s, {"held"}, FALSE)
      /\ Inside(s, {"queued", "held"}, FALSE)' = Inside(s, {"queued", "held"}, FALSE)
  BY <1>1
<1> QED
  BY <1>2 DEF Accounted, Apart, Locked

LEMMA AsksAccounted ==
    ASSUME Shape, NEW p \in Procs, Asks(p), Labelled(p), NEW s \in Sets, Accounted(s)
    PROVE  Accounted(s)'
<1> DEFINE t == op[p].on
<1>1. /\ Apart(p) /\ op'[p] = op[p] /\ pc[p] = "act" /\ Locked(t) /\ t \in Sets
      /\ \/ /\ op[p].kind \notin Updates /\ lock[t].writer = none /\ pc'[p] = "held"
            /\ lock' = [lock EXCEPT ![t] = RLocked(lock[t], p)]
         \/ /\ op[p].kind \in Updates /\ lock[t].writer = none /\ pc'[p] = "queued"
            /\ lock' = [lock EXCEPT ![t] = Announced(lock[t], p)]
  BY AsksFacts DEF Private, Reading, MayRLock, MayAnnounce, Labelled, Operating, Ops
<1>2. CASE t # s
  <2>1. lock'[s] = lock[s]
    BY <1>1, <1>2 DEF Shape
  <2> QED
    BY <1>1, <1>2, <2>1, OtherLocks
<1>3. CASE t = s /\ op[p].kind \notin Updates
  <2>1. /\ lock'[s] = RLocked(lock[s], p) /\ lock[s].writer = none /\ pc'[p] = "held"
        /\ lock[s] \in Locks(Procs)
    BY <1>1, <1>3 DEF Shape
  <2>2. lock'[s].writer = none /\ lock'[s].readers = lock[s].readers \cup {p}
    BY <2>1 DEF RLocked, Locks
  <2>3. /\ Inside(s, {"held"}, TRUE)' = Inside(s, {"held"}, TRUE) \cup {p}
        /\ Inside(s, {"held"}, FALSE)' = Inside(s, {"held"}, FALSE)
        /\ Inside(s, {"queued", "held"}, FALSE)' = Inside(s, {"queued", "held"}, FALSE)
    BY <1>1, <1>3, <2>1, InsideIs DEF Apart, Same, Inside, Reading
  <2>4. Inside(s, {"held"}, FALSE) \subseteq Inside(s, {"queued", "held"}, FALSE)
    BY DEF Inside
  <2>5. Locked(s)
    BY <1>1, <1>3
  <2> QED
    BY <2>1, <2>2, <2>3, <2>4, <2>5 DEF Accounted
<1>4. CASE t = s /\ op[p].kind \in Updates
  <2>1. /\ lock'[s] = Announced(lock[s], p) /\ lock[s].writer = none /\ pc'[p] = "queued"
        /\ lock[s] \in Locks(Procs)
    BY <1>1, <1>4 DEF Shape
  <2>2. lock'[s].writer = p /\ lock'[s].readers = lock[s].readers
    BY <2>1 DEF Announced, Locks
  <2>3. /\ Inside(s, {"held"}, TRUE)' = Inside(s, {"held"}, TRUE)
        /\ Inside(s, {"held"}, FALSE)' = Inside(s, {"held"}, FALSE)
        /\ Inside(s, {"queued", "held"}, FALSE)' = Inside(s, {"queued", "held"}, FALSE) \cup {p}
    BY <1>1, <1>4, <2>1, InsideIs DEF Apart, Same, Inside, Reading
  <2>4. Locked(s) /\ p # none
    BY <1>1, <1>4, ProcAssumption
  <2> QED
    BY <2>1, <2>2, <2>3, <2>4 DEF Accounted
<1> QED
  BY <1>2, <1>3, <1>4

LEMMA EntersAccounted ==
    ASSUME Shape, NEW p \in Procs, Enters(p), Labelled(p), NEW s \in Sets, Accounted(s)
    PROVE  Accounted(s)'
<1> DEFINE t == op[p].on
<1>1. /\ Apart(p) /\ lock' = lock /\ op'[p] = op[p] /\ pc[p] = "queued" /\ pc'[p] = "held"
      /\ lock[t].readers = {} /\ op[p].kind \in Updates
  BY EntersFacts DEF Moves, Private, Granted, Labelled, Reading
<1>2. CASE t # s
  BY <1>1, <1>2, OtherLocks
<1>3. CASE t = s
  <2>1. /\ Inside(s, {"held"}, TRUE)' = Inside(s, {"held"}, TRUE)
        /\ Inside(s, {"queued", "held"}, FALSE)' = Inside(s, {"queued", "held"}, FALSE)
    BY <1>1, <1>3, InsideIs DEF Apart, Same, Inside, Reading
  <2> QED
    BY <1>1, <1>3, <2>1 DEF Accounted, Apart, Locked
<1> QED
  BY <1>2, <1>3

LEMMA LeavesFacts ==
    ASSUME NEW p \in Procs, Leaves(p)
    PROVE  LET s == op[p].on IN
           /\ pc[p] = "held" /\ Happens(p)
           /\ op[p].kind \notin Updates => lock' = [lock EXCEPT ![s] = RUnlocked(lock[s], p)]
           /\ op[p].kind \in Updates => lock' = [lock EXCEPT ![s] = Released(lock[s])]
  BY DEF Leaves, Reading

LEMMA LeavesAccounted ==
    ASSUME Shape, NEW p \in Procs, Leaves(p), Labelled(p), NEW s \in Sets, Accounted(s)
    PROVE  Accounted(s)'
<1> DEFINE t == op[p].on
<1>1. /\ Apart(p) /\ op'[p] = op[p] /\ pc[p] = "held" /\ pc'[p] = "got" /\ Locked(t) /\ t \in Sets
      /\ op[p].kind \notin Updates => lock' = [lock EXCEPT ![t] = RUnlocked(lock[t], p)]
      /\ op[p].kind \in Updates => lock' = [lock EXCEPT ![t] = Released(lock[t])]
  BY LeavesFacts, HappensFacts DEF Labelled, Operating, Ops
<1>2. CASE t # s
  <2>1. lock'[s] = lock[s]
    BY <1>1, <1>2 DEF Shape
  <2> QED
    BY <1>1, <1>2, <2>1, OtherLocks
<1>3. CASE t = s /\ op[p].kind \notin Updates
  <2>1. lock'[s] = RUnlocked(lock[s], p) /\ lock[s] \in Locks(Procs)
    BY <1>1, <1>3 DEF Shape
  <2>2. lock'[s].writer = lock[s].writer /\ lock'[s].readers = lock[s].readers \ {p}
    BY <2>1 DEF RUnlocked, Locks
  <2>3. /\ Inside(s, {"held"}, TRUE)' = Inside(s, {"held"}, TRUE) \ {p}
        /\ Inside(s, {"held"}, FALSE)' = Inside(s, {"held"}, FALSE)
        /\ Inside(s, {"queued", "held"}, FALSE)' = Inside(s, {"queued", "held"}, FALSE)
    BY <1>1, <1>3, InsideIs DEF Apart, Same, Inside, Reading
  <2> QED
    BY <1>1, <1>3, <2>2, <2>3 DEF Accounted, Apart, Locked
<1>4. CASE t = s /\ op[p].kind \in Updates
  <2>1. lock'[s] = Released(lock[s]) /\ lock[s] \in Locks(Procs)
    BY <1>1, <1>4 DEF Shape
  <2>2. lock'[s].writer = none /\ lock'[s].readers = lock[s].readers
    BY <2>1 DEF Released, Locks
  <2>3. /\ Inside(s, {"held"}, TRUE)' = Inside(s, {"held"}, TRUE)
        /\ Inside(s, {"held"}, FALSE)' \subseteq Inside(s, {"queued", "held"}, FALSE)'
        /\ Inside(s, {"queued", "held"}, FALSE)' = Inside(s, {"queued", "held"}, FALSE) \ {p}
        /\ p \in Inside(s, {"queued", "held"}, FALSE)
    BY <1>1, <1>4, InsideIs DEF Apart, Same, Inside, Reading
  <2>4. Locked(s) /\ Inside(s, {"queued", "held"}, FALSE) = {lock[s].writer} \ {none}
    BY <1>1, <1>4 DEF Accounted
  <2>5. Inside(s, {"queued", "held"}, FALSE)' = {}
    BY <2>3, <2>4
  <2> QED
    BY <1>1, <1>4, <2>2, <2>3, <2>4, <2>5 DEF Accounted
<1> QED
  BY <1>2, <1>3, <1>4

-----------------------------------------------------------------------------
(* The first inductive invariant.                                          *)

LEMMA LockTypes ==
    ASSUME Shape, NEW p \in Procs, Labelled(p), Asks(p) \/ Leaves(p)
    PROVE  lock' \in [Sets -> Locks(Procs)]
<1> DEFINE s == op[p].on
<1>1. \/ lock' = [lock EXCEPT ![s] = RLocked(lock[s], p)]
      \/ lock' = [lock EXCEPT ![s] = Announced(lock[s], p)]
      \/ lock' = [lock EXCEPT ![s] = RUnlocked(lock[s], p)]
      \/ lock' = [lock EXCEPT ![s] = Released(lock[s])]
  BY AsksFacts, LeavesFacts
<1>2. pc[p] \in Operating /\ s \in Sets
  BY AsksFacts, LeavesFacts DEF Labelled, Operating, Ops
<1>3. lock \in [Sets -> Locks(Procs)] /\ lock[s] \in Locks(Procs)
  BY <1>2 DEF Shape
<1>4. /\ RLocked(lock[s], p) \in Locks(Procs) /\ Announced(lock[s], p) \in Locks(Procs)
      /\ RUnlocked(lock[s], p) \in Locks(Procs) /\ Released(lock[s]) \in Locks(Procs)
  BY <1>3 DEF RLocked, Announced, RUnlocked, Released, Locks
<1> QED
  BY <1>1, <1>2, <1>3, <1>4

LEMMA ShapeNext ==
    ASSUME IInv, NEW p \in Procs, Call(p) \/ Step(p) \/ Panic(p), impl' = impl,
           content' \in [Sets -> SUBSET Elems], lock' \in [Sets -> Locks(Procs)],
           \A r \in Procs : Orderly(r), \A s \in Sets : Accounted(s)'
    PROVE  IInv'
<1>1. Mapped'
  BY ShapeMaps, StepMaps DEF IInv
<1>2. AllFit' /\ Based'
  BY DEF AllFit, Based, Orderly, IInv, Shape
<1>3. Shape'
  BY <1>1, <1>2, FitsShape, PTL
<1> QED
  BY <1>3 DEF IInv, Orderly

LEMMA PrivateStep ==
    ASSUME IInv, NEW p \in Procs, Call(p) \/ Step(p) \/ Panic(p), Private(p), lock' = lock, Orderly(p),
           pc[p] \notin {"queued", "held"}, pc'[p] \notin {"queued", "held"}
    PROVE  IInv'
<1>1. ASSUME NEW r \in Procs PROVE Orderly(r)
  <2>1. r # p => walk'[r] \in Hikes /\ walk'[r].on = walk[r].on
    BY DEF IInv, Shape, Private
  <2> QED
    BY <2>1, OthersOrderly DEF IInv, Private
<1>2. /\ impl' = impl /\ content' \in [Sets -> SUBSET Elems] /\ lock' \in [Sets -> Locks(Procs)]
  BY DEF IInv, Shape, Private, Apart
<1>3. \A s \in Sets : Accounted(s)'
  BY LockFrame DEF IInv, Private
<1> QED
  BY <1>1, <1>2, <1>3, ShapeNext

LEMMA StepInvariant ==
    ASSUME IInv, NEW p \in Procs, Call(p) \/ Step(p) \/ Panic(p)
    PROVE  IInv'
<1>0. Shape /\ (\A r \in Procs : Labelled(r)) /\ (\A s \in Sets : Accounted(s))
  BY DEF IInv
<1> DEFINE Outside(l) == l \notin {"queued", "held"}
<1>1. CASE Call(p)
  BY <1>0, <1>1, CallFacts, CallOrderly, PrivateStep
<1>2. CASE Proceed(p)
  <2>1. Private(p) /\ lock' = lock /\ Outside(pc[p]) /\ Outside(pc'[p])
    BY <1>0, <1>2, ProceedFacts
  <2> QED
    BY <1>0, <1>2, <2>1, ProceedOrderly, PrivateStep
<1>3. CASE Act(p)
  <2>1. Happens(p) /\ pc[p] = "act" /\ lock' = lock
    BY <1>3 DEF Act
  <2>2. Apart(p) /\ pc'[p] = "got"
    BY <1>0, <2>1, HappensFacts
  <2>3. content' \in [Sets -> SUBSET Elems] /\ \A r \in Procs : Orderly(r)
    BY <1>0, <2>1, HappensOrderly DEF Operating
  <2>4. \A s \in Sets : Accounted(s)'
    BY <1>0, <2>1, <2>2, LockFrame
  <2> QED
    BY <1>0, <1>3, <2>1, <2>2, <2>3, <2>4, ShapeNext DEF Shape, Apart
<1>4. CASE Asks(p)
  <2>1. Private(p) /\ Orderly(p)
    BY <1>0, <1>4, AsksFacts, AsksOrderly
  <2>2. \A r \in Procs : Orderly(r)
    <3>1. \A r \in Procs : r # p => walk'[r] \in Hikes /\ walk'[r].on = walk[r].on
      BY <1>0, <2>1 DEF Shape, Private
    <3> QED
      BY <1>0, <2>1, <3>1, OthersOrderly DEF Private
  <2>3. content' = content /\ impl' = impl /\ lock' \in [Sets -> Locks(Procs)]
    BY <1>0, <1>4, <2>1, LockTypes DEF Private, Apart
  <2>4. \A s \in Sets : Accounted(s)'
    BY <1>0, <1>4, AsksAccounted
  <2> QED
    BY <1>0, <1>4, <2>2, <2>3, <2>4, ShapeNext DEF Shape
<1>5. CASE Enters(p)
  <2>1. Private(p) /\ Orderly(p) /\ lock' = lock
    BY <1>0, <1>5, EntersFacts, EntersOrderly DEF Moves
  <2>2. \A r \in Procs : Orderly(r)
    <3>1. \A r \in Procs : r # p => walk'[r] \in Hikes /\ walk'[r].on = walk[r].on
      BY <1>0, <2>1 DEF Shape, Private
    <3> QED
      BY <1>0, <2>1, <3>1, OthersOrderly DEF Private
  <2>3. content' = content /\ impl' = impl
    BY <2>1 DEF Private, Apart
  <2>4. \A s \in Sets : Accounted(s)'
    BY <1>0, <1>5, EntersAccounted
  <2> QED
    BY <1>0, <1>5, <2>1, <2>2, <2>3, <2>4, ShapeNext DEF Shape
<1>6. CASE Leaves(p)
  <2>1. Happens(p) /\ pc[p] = "held"
    BY <1>6 DEF Leaves
  <2>2. Apart(p)
    BY <1>0, <2>1, HappensFacts
  <2>3. content' \in [Sets -> SUBSET Elems] /\ \A r \in Procs : Orderly(r)
    BY <1>0, <2>1, HappensOrderly DEF Operating
  <2>4. \A s \in Sets : Accounted(s)'
    BY <1>0, <1>6, LeavesAccounted
  <2>5. lock' \in [Sets -> Locks(Procs)]
    BY <1>0, <1>6, LockTypes
  <2> QED
    BY <1>0, <1>6, <2>2, <2>3, <2>4, <2>5, ShapeNext DEF Apart
<1>7. CASE Visit(p)
  <2>1. Private(p) /\ lock' = lock /\ pc[p] = "walk" /\ pc'[p] \in {"act", "told", "walk", "walked"}
    BY <1>0, <1>7, VisitFacts DEF Decides
  <2> QED
    BY <1>0, <1>7, <2>1, VisitOrderly, PrivateStep
<1>8. CASE NextBucket(p)
  BY <1>0, <1>8, NextBucketFacts, NextBucketOrderly, PrivateStep DEF Moves
<1>9. CASE WalkEnds(p)
  BY <1>0, <1>9, WalkEndsFacts, WalkEndsOrderly, PrivateStep DEF Moves
<1>10. CASE Continue(p)
  <2>1. Private(p) /\ lock' = lock /\ Outside(pc[p]) /\ Outside(pc'[p])
    BY <1>0, <1>10, ContinueFacts DEF Decides
  <2> QED
    BY <1>0, <1>10, <2>1, ContinueOrderly, PrivateStep
<1>11. CASE Conclude(p)
  <2>1. Private(p) /\ lock' = lock /\ Outside(pc[p]) /\ Outside(pc'[p])
    BY <1>0, <1>11, ConcludeFacts
  <2> QED
    BY <1>0, <1>11, <2>1, ConcludeOrderly, PrivateStep
<1>12. CASE Learns(p)
  <2>1. Private(p) /\ lock' = lock /\ Outside(pc[p]) /\ Outside(pc'[p])
    BY <1>0, <1>12, LearnsFacts
  <2> QED
    BY <1>0, <1>12, <2>1, LearnsOrderly, PrivateStep
<1>13. CASE Consulted(p)
  <2>1. Private(p) /\ lock' = lock /\ Outside(pc[p]) /\ Outside(pc'[p])
    BY <1>0, <1>13, ConsultedFacts DEF Decides
  <2> QED
    BY <1>0, <1>13, <2>1, ConsultedOrderly, PrivateStep
<1>14. CASE Popped(p)
  <2>1. Private(p) /\ lock' = lock /\ Outside(pc[p]) /\ Outside(pc'[p])
    BY <1>0, <1>14, PoppedFacts
  <2> QED
    BY <1>0, <1>14, <2>1, PoppedOrderly, PrivateStep
<1>15. CASE Resume(p)
  <2>1. Private(p) /\ lock' = lock /\ Outside(pc[p]) /\ Outside(pc'[p])
    BY <1>0, <1>15, ResumeFacts DEF Moves
  <2> QED
    BY <1>0, <1>15, <2>1, ResumeOrderly, PrivateStep
<1>16. CASE Finish(p)
  BY <1>0, <1>16, FinishFacts, FinishOrderly, PrivateStep DEF Moves
<1>17. CASE Return(p)
  BY <1>0, <1>17, ReturnFacts, ReturnOrderly, PrivateStep
<1>18. CASE Panic(p)
  BY <1>0, <1>18, PanicFacts, PanicOrderly, PrivateStep DEF Moves
<1> QED
  BY <1>1, <1>2, <1>3, <1>4, <1>5, <1>6, <1>7, <1>8, <1>9, <1>10, <1>11, <1>12, <1>13, <1>14, <1>15, <1>16, <1>17, <1>18 DEF Step

LEMMA InitInvariant == ASSUME Init PROVE IInv
<1>1. Shape
  <2>1. Unlocked \in Locks(Procs)
    BY DEF Unlocked, Locks
  <2>2. <<>> \in Seq(Ops) /\ <<>> \in Seq(Nat)
    OBVIOUS
  <2>3. todo \in [Procs -> SUBSET Requests] /\ impl \in Mixes /\ content \in [Sets -> SUBSET Elems]
    BY StartAssumption DEF Init
  <2> QED
    BY <2>1, <2>2, <2>3, NowhereIs DEF Init, Shape, Labels
<1>2. ASSUME NEW p \in Procs PROVE Labelled(p)
  BY NowhereIs DEF Init, Labelled, Operating, Walking
<1>3. ASSUME NEW s \in Sets PROVE Accounted(s)
  <2>1. lock[s].writer = none /\ lock[s].readers = {}
    BY DEF Init, Unlocked
  <2>2. \A labels, reading : labels \subseteq {"queued", "held"} => Inside(s, labels, reading) = {}
    BY DEF Init, Inside
  <2>3. /\ Inside(s, {"held"}, TRUE) = {} /\ Inside(s, {"held"}, FALSE) = {}
        /\ Inside(s, {"queued", "held"}, FALSE) = {}
    BY <2>2
  <2> QED
    BY <2>1, <2>3 DEF Accounted
<1> QED
  BY <1>1, <1>2, <1>3 DEF IInv

scanVars == <<vars, kept, had, alone>>

LEMMA StutterInvariant == ASSUME IInv, UNCHANGED vars PROVE IInv'
<1>1. /\ impl' = impl /\ content' = content /\ lock' = lock /\ pc' = pc /\ call' = call /\ todo' = todo
      /\ op' = op /\ plan' = plan /\ walk' = walk /\ snap' = snap /\ sizes' = sizes
      /\ out' = out /\ ret' = ret
  BY DEF vars, sets, mine
<1>2. Shape'
  BY <1>1 DEF IInv, Shape
<1>3. ASSUME NEW p \in Procs PROVE Labelled(p)'
  BY <1>1 DEF IInv, Labelled, Locked, Reading
<1>4. ASSUME NEW s \in Sets PROVE Accounted(s)'
  <2>1. \A labels, reading : Inside(s, labels, reading)' = Inside(s, labels, reading)
    BY <1>1 DEF Inside, Reading
  <2>2. /\ Inside(s, {"held"}, TRUE)' = Inside(s, {"held"}, TRUE)
        /\ Inside(s, {"held"}, FALSE)' = Inside(s, {"held"}, FALSE)
        /\ Inside(s, {"queued", "held"}, FALSE)' = Inside(s, {"queued", "held"}, FALSE)
    BY <2>1
  <2> QED
    BY <1>1, <2>2 DEF IInv, Accounted, Locked
<1> QED
  BY <1>2, <1>3, <1>4 DEF IInv

LEMMA NextInvariant == ASSUME IInv, [ScanNext]_scanVars PROVE IInv'
<1>1. CASE UNCHANGED scanVars
  BY <1>1, StutterInvariant DEF scanVars
<1>2. CASE Terminated
  BY <1>2, StutterInvariant DEF Terminated
<1>3. ASSUME NEW p \in Procs, Call(p) \/ Step(p) \/ Panic(p) PROVE IInv'
  BY <1>3, StepInvariant
<1> QED
  BY <1>1, <1>2, <1>3 DEF ScanNext, Next

LEMMA InvariantTypes == ASSUME IInv PROVE TypeOK
<1>1. /\ impl \in Mixes
      /\ content \in [Sets -> SUBSET Elems]
      /\ lock \in [Sets -> Locks(Procs)]
      /\ pc \in [Procs -> {"idle", "next", "act", "queued", "held", "got", "walk", "told", "walked", "done"}]
      /\ call \in [Procs -> Requests \cup {none}]
      /\ todo \in [Procs -> SUBSET Requests]
      /\ op \in [Procs -> Ops \cup {none}]
      /\ plan \in [Procs -> Seq(Ops)]
  BY DEF IInv, Shape, Labels, Operating, Walking
<1>2. ASSUME NEW p \in Procs
      PROVE  /\ walk[p].batch \subseteq Elems /\ walk[p].left \subseteq Buckets /\ walk[p].at \in Walks(Elems)
             /\ out[p] \subseteq Elems \cup {0} /\ sizes[p] \in Seq(Nat)
  <2>1. walk[p] \in Hikes /\ out[p] \in SUBSET (Elems \cup {0}) /\ sizes[p] \in Seq(Nat)
    BY DEF IInv, Shape
  <2> QED
    BY <2>1 DEF Hikes
<1>3. ASSUME NEW s \in Sets
      PROVE  LET inside(l, reading) == {p \in Procs : pc[p] \in l /\ op[p].on = s /\ Reading(op[p]) = reading}
                 writers == inside({"held"}, FALSE)
             IN  /\ Locked(s) => lock[s].readers = inside({"held"}, TRUE)
                 /\ Locked(s) => {lock[s].writer} \ {none} = inside({"queued", "held"}, FALSE)
                 /\ Locked(s) /\ writers # {} => lock[s].readers = {}
  BY DEF IInv, Accounted, Inside
<1> QED
  BY <1>1, <1>2, <1>3 DEF TypeOK

(***************************************************************************)
(* TypeOK: the types, and nobody leaves a tree set locked or reads it      *)
(* while somebody writes: every lock is accounted for by the operations    *)
(* under way (concurrent_treeset.go, each method's Lock and Unlock).       *)
(***************************************************************************)
THEOREM SetTypes == ScanSpec => []TypeOK
<1>1. ScanInit => IInv
  BY InitInvariant DEF ScanInit
<1>2. IInv /\ [ScanNext]_scanVars => IInv'
  BY NextInvariant
<1>3. IInv => TypeOK
  BY InvariantTypes
<1> QED
  BY <1>1, <1>2, <1>3, PTL DEF ScanSpec, scanVars

-----------------------------------------------------------------------------
(* Atomicity.  A Pop that chooses first and deletes later is at one moment *)
(* if what it deletes is what it has chosen.                               *)

Choice(p) ==
    pc[p] # "idle" /\ Choosing(p) =>
      /\ \A i \in DOMAIN plan[p] : plan[p][i].kind = "walk" /\ plan[p][i].other = none
      /\ pc[p] \in Walking => walk[p].other = none
      /\ pc[p] \in Operating =>
           op[p].kind = "remove" /\ op[p].on = call[p].on /\ out[p] = {op[p].elem}
      /\ out[p] # {} => \E m \in out[p] : out[p] = {m}

LEMMA PopsAreNoOthers ==
    /\ Pops \cap Asking = {} /\ Pops \cap {"clear", "refill", "scan", "removeFunc"} = {}
    /\ "remove" \notin Measuring /\ Pops \cap Navigations = {}
  BY DEF Pops, Asking, Algebra, Relations, Sized, Measuring, Navigations

LEMMA ChoiceOthers ==
    ASSUME NEW p \in Procs, Apart(p), NEW r \in Procs, r # p, Choice(r), walk'[r].other = walk[r].other
    PROVE  Choice(r)'
  BY DEF Apart, Same, Choice, Choosing, Locked

LEMMA ChoosingWalk ==
    ASSUME NEW q \in Requests, q.kind \in Pops, ~Locked(q.on)
    PROVE  /\ Walk(q.on, none) = <<Op("walk", q.on, none, 1, {})>>
           /\ \A l \in Plans(q) : l = Walk(q.on, none)
<1>1. q.kind \notin Points \cup Batches \cup {"clear", "refill", "removeFunc"} \cup Asking
  BY DEF Pops, Points, Batches, Asking, Algebra, Relations, Sized
<1>2. ~AtOnce(q)
  BY <1>1 DEF AtOnce
<1>3. Plans(q) = {Walk(q.on, none)}
  BY <1>1, <1>2 DEF Plans, Batches, Asking, Relations
<1> QED
  BY <1>3 DEF Walk

LEMMA PopDecides ==
    ASSUME NEW p \in Procs, call[p].kind \in Pops, NEW e, NEW found, Decides(p, e, found)
    PROVE  out'[p] = {e}
<1>1. Collects(call[p], e, found)
  BY DEF Collects, Pops, Relations, Sized, Navigations
<1> QED
  BY <1>1 DEF Decides

\* p keeps its call.
SameCall(p) == impl' = impl /\ pc[p] # "idle" /\ call'[p] = call[p]

LEMMA ChoiceStep ==
    ASSUME IInv, NEW p \in Procs, Choice(p), Call(p) \/ Step(p) \/ Panic(p), Choosing(p)', pc'[p] # "idle"
    PROVE  Choice(p)'
<1>0. Shape /\ Labelled(p)
  BY DEF IInv
<1>c. Choosing(p)' <=> call'[p].kind \in Pops /\ ~Locked(call[p].on)'
  BY DEF Choosing
<1>k. ASSUME SameCall(p)
      PROVE  /\ Choosing(p) /\ call[p] \in Requests /\ call[p].kind \in Pops
             /\ call[p].kind \notin Asking \cup {"clear", "refill", "scan", "removeFunc"}
             /\ \A i \in DOMAIN plan[p] : plan[p][i].kind = "walk" /\ plan[p][i].other = none
             /\ pc[p] \in Walking => walk[p].other = none
             /\ pc[p] \in Operating =>
                  op[p].kind = "remove" /\ op[p].on = call[p].on /\ out[p] = {op[p].elem}
             /\ out[p] # {} => \E m \in out[p] : out[p] = {m}
  <2>1. Choosing(p)
    BY <1>k DEF SameCall, Choosing, Locked
  <2>2. call[p] \in Requests
    BY <1>0, <1>k DEF SameCall, Labelled
  <2> QED
    BY <1>k, <2>1, <2>2, PopsAreNoOthers DEF Choosing, Choice, SameCall
<1>1. CASE Call(p)
  <2>1. PICK q \in todo[p] : call'[p] = q /\ plan'[p] \in Plans(q)
    BY <1>0, <1>1, CallFacts
  <2>2. /\ impl' = impl /\ pc[p] = "idle" /\ pc'[p] = "next" /\ out'[p] = out[p]
    BY <1>0, <1>1, CallFacts DEF Private, Apart
  <2>3. q \in Requests /\ q.kind \in Pops /\ ~Locked(q.on)
    BY <1>0, <1>c, <2>1, <2>2 DEF Shape, Choosing, Locked
  <2>4. plan'[p] = <<Op("walk", q.on, none, 1, {})>>
    BY <2>1, <2>3, ChoosingWalk
  <2>5. \A i \in DOMAIN plan'[p] : plan'[p][i].kind = "walk" /\ plan'[p][i].other = none
    BY <2>4 DEF Op
  <2> QED
    BY <1>0, <2>2, <2>5 DEF Choice, Labelled, Walking, Operating
<1>2. CASE Proceed(p)
  <2>1. SameCall(p) /\ pc[p] = "next" /\ plan[p] # <<>>
    BY <1>0, <1>2, ProceedFacts DEF SameCall, Private, Apart
  <2>2. plan[p] \in Seq(Ops)
    BY <1>0 DEF Shape
  <2>3. /\ Head(plan[p]).kind = "walk" /\ Head(plan[p]).other = none
        /\ \A i \in DOMAIN Tail(plan[p]) : Tail(plan[p])[i].kind = "walk" /\ Tail(plan[p])[i].other = none
    <3>1. /\ Head(plan[p]) = plan[p][1] /\ 1 \in DOMAIN plan[p]
          /\ \A i \in DOMAIN Tail(plan[p]) : i + 1 \in DOMAIN plan[p] /\ Tail(plan[p])[i] = plan[p][i + 1]
      BY <2>1, <2>2, HeadOf
    <3> QED
      BY <1>k, <2>1, <3>1
  <2>4. /\ plan'[p] = Tail(plan[p]) /\ out'[p] = out[p] /\ pc'[p] = "walk"
        /\ walk'[p] = Walked(Head(plan[p]).on, Head(plan[p]).other, walk[p].batch)
    BY <1>0, <1>2, <2>3, ProceedFacts
  <2>5. walk'[p].other = none
    BY <2>3, <2>4, WalkedIs
  <2> QED
    BY <1>k, <2>1, <2>3, <2>4, <2>5 DEF Choice, Operating
<1>3. CASE Act(p) \/ Leaves(p)
  <2>1. Happens(p) /\ pc[p] \in {"act", "held"}
    BY <1>3 DEF Act, Leaves
  <2>2. /\ SameCall(p) /\ pc'[p] = "got" /\ plan'[p] = plan[p] /\ op'[p] = op[p] /\ out'[p] = out[p]
    BY <1>0, <2>1, HappensFacts DEF SameCall, Apart
  <2> QED
    BY <1>k, <2>1, <2>2 DEF Choice, Walking, Operating, SameCall
<1>4. CASE Asks(p) \/ Enters(p)
  <2>1. /\ SameCall(p) /\ pc[p] \in Operating /\ pc'[p] \in Operating
        /\ plan'[p] = plan[p] /\ op'[p] = op[p] /\ out'[p] = out[p]
    BY <1>0, <1>4, AsksFacts, EntersFacts DEF Moves, SameCall, Private, Apart, Operating
  <2> QED
    BY <1>k, <2>1 DEF Choice, Walking, Operating, SameCall
<1>5. CASE Visit(p)
  <2>1. SameCall(p) /\ pc[p] = "walk" /\ plan'[p] = plan[p]
    BY <1>0, <1>5, VisitFacts DEF SameCall, Private, Apart
  <2>2. walk[p] \in Hikes /\ walk[p].on \in Sets /\ walk[p].other \notin Sets
    BY <1>0, <1>k, <2>1 DEF Shape, Labelled, Walking
  <2>3. PICK e \in Ready(walk[p]) :
          /\ walk'[p] = Past(walk[p], e)
          /\ Decides(p, e, e \in snap[p]) \/ Decides(p, e, TRUE)
    BY <1>0, <1>5, <1>k, <2>1, <2>2, VisitFacts
  <2>4. out'[p] = {e} /\ pc'[p] \in {"walk", "walked"}
    <3>1. Decides(p, e, e \in snap[p]) => out'[p] = {e} /\ pc'[p] \in {"walk", "walked"}
      BY <1>k, <2>1, PopDecides DEF Decides
    <3>2. Decides(p, e, TRUE) => out'[p] = {e} /\ pc'[p] \in {"walk", "walked"}
      BY <1>k, <2>1, PopDecides DEF Decides
    <3> QED
      BY <2>3, <3>1, <3>2
  <2>5. walk'[p].other = walk[p].other
    <3>1. e \in Elems
      BY <1>0, <2>2, ReadyIs
    <3>2. Past(walk[p], e).other = walk[p].other
      BY <2>2, <3>1, PastIs
    <3> QED
      BY <2>3, <3>2
  <2> QED
    BY <1>k, <2>1, <2>4, <2>5 DEF Choice, Walking, Operating
<1>6. CASE NextBucket(p)
  <2>1. SameCall(p) /\ pc[p] = "walk" /\ pc'[p] = "walk" /\ plan'[p] = plan[p] /\ out'[p] = out[p]
    BY <1>0, <1>6, NextBucketFacts DEF Moves, SameCall, Private, Apart
  <2>2. PICK b \in walk[p].left : walk'[p] = Copying(walk[p], b)
    BY <1>0, <1>6, NextBucketFacts
  <2>3. walk[p] \in Hikes /\ walk[p].on \in Sets
    BY <1>0, <2>1 DEF Shape, Labelled, Walking
  <2>4. walk'[p].other = walk[p].other
    BY <1>0, <2>2, <2>3, CopyingIs
  <2> QED
    BY <1>k, <2>1, <2>4 DEF Choice, Walking, Operating
<1>7. CASE WalkEnds(p)
  <2>1. /\ SameCall(p) /\ pc[p] = "walk" /\ pc'[p] = "walked"
        /\ plan'[p] = plan[p] /\ out'[p] = out[p] /\ walk'[p] = walk[p]
    BY <1>0, <1>7, WalkEndsFacts DEF Moves, SameCall, Private, Apart
  <2> QED
    BY <1>k, <2>1 DEF Choice, Walking, Operating
<1>8. CASE Conclude(p)
  <2>1. SameCall(p) /\ pc[p] = "walked" /\ out'[p] = out[p]
    BY <1>0, <1>8, ConcludeFacts DEF SameCall, Private, Apart
  <2>2. /\ plan'[p] = plan[p]
        /\ \/ pc'[p] = "act" /\ \E e \in out[p] : op'[p] = Op("remove", call[p].on, none, e, {})
           \/ pc'[p] = "next"
    BY <1>0, <1>8, <1>k, <2>1, ConcludeFacts
  <2>3. pc'[p] = "act" => op'[p].kind = "remove" /\ op'[p].on = call[p].on /\ out[p] = {op'[p].elem}
    <3>1. ASSUME NEW e \in out[p], op'[p] = Op("remove", call[p].on, none, e, {})
          PROVE  op'[p].kind = "remove" /\ op'[p].on = call[p].on /\ op'[p].elem = e
      BY <3>1 DEF Op
    <3> QED
      BY <1>k, <2>1, <2>2, <3>1
  <2> QED
    BY <1>k, <2>1, <2>2, <2>3 DEF Choice, Walking, Operating, SameCall
<1>9. CASE Popped(p)
  <2>1. /\ SameCall(p) /\ out'[p] = {}
        /\ \/ plan'[p] = Walk(call[p].on, none) /\ pc'[p] = "next"
           \/ plan'[p] = plan[p] /\ pc'[p] = "done"
    BY <1>0, <1>9, PoppedFacts DEF SameCall, Private, Apart
  <2>2. Walk(call[p].on, none) = <<Op("walk", call[p].on, none, 1, {})>>
    BY <1>k, <2>1, ChoosingWalk DEF Choosing
  <2>3. \A i \in DOMAIN plan'[p] : plan'[p][i].kind = "walk" /\ plan'[p][i].other = none
    BY <1>k, <2>1, <2>2 DEF Op
  <2> QED
    BY <2>1, <2>3 DEF Choice, Walking, Operating
<1>10. CASE Finish(p)
  <2>1. /\ SameCall(p) /\ pc'[p] = "done" /\ plan'[p] = plan[p] /\ out'[p] = out[p]
    BY <1>0, <1>10, FinishFacts DEF Moves, SameCall, Private, Apart
  <2> QED
    BY <1>k, <2>1 DEF Choice, Walking, Operating
<1>11. ~Learns(p)
  <2>1. Learns(p) => SameCall(p) /\ pc[p] = "got" /\ op[p].kind \in Measuring
    BY <1>0, LearnsFacts DEF SameCall, Private, Apart
  <2> QED
    BY <1>k, <2>1, PopsAreNoOthers DEF Operating
<1>12. ~Consulted(p)
  <2>1. Consulted(p) => SameCall(p) /\ call[p].kind \in Asking
    BY <1>0, ConsultedFacts DEF SameCall, Private, Apart
  <2> QED
    BY <1>k, <2>1
<1>13. ~Resume(p)
  <2>1. Resume(p) => SameCall(p) /\ pc[p] = "got" /\ ~(op[p].kind = "remove" /\ call[p].kind \in Pops)
    BY <1>0, ResumeFacts DEF Moves, SameCall, Private, Apart
  <2> QED
    BY <1>k, <2>1 DEF Operating
<1>14. ~Continue(p) /\ ~Panic(p)
  <2>1. Continue(p) \/ Panic(p) => SameCall(p) /\ pc[p] = "told"
    BY <1>0, ContinueFacts, PanicFacts DEF Moves, SameCall, Private, Apart
  <2> QED
    BY <1>0, <1>k, <2>1 DEF Labelled
<1>15. ~Return(p)
  BY <1>0, ReturnFacts
<1> QED
  BY <1>1, <1>2, <1>3, <1>4, <1>5, <1>6, <1>7, <1>8, <1>9, <1>10, <1>11, <1>12, <1>13, <1>14, <1>15 DEF Step

\* What a step does to the walks of the others: a skip walk may miss what is no
\* longer there.
Unmoved(r) ==
    /\ walk'[r].on = walk[r].on /\ walk'[r].other = walk[r].other
    /\ walk'[r].left = walk[r].left /\ walk'[r].batch = walk[r].batch
    /\ walk'[r].at.pos = walk[r].at.pos /\ walk'[r].at.due \subseteq walk[r].at.due
    /\ \A e \in walk[r].at.due : e \in content'[walk[r].on] => e \in walk'[r].at.due

LEMMA HappensUnmoved ==
    ASSUME IInv, NEW p \in Procs, Happens(p), pc[p] \in Operating, NEW r \in Procs
    PROVE  Unmoved(r)
<1> DEFINE s == op[p].on
<1>1. PICK e \in Outcomes(p, op[p]) :
        /\ content' = [content EXCEPT ![s] = e.S]
        /\ \A q \in Procs : walk'[q] = IF walk[q].on = s
                                       THEN [walk[q] EXCEPT !.at = Without(@, e.S)] ELSE walk[q]
  BY HappensFacts DEF IInv
<1>2. op[p] \in Ops /\ op[p].kind \in EffectKinds /\ walk[r] \in Hikes
  BY DEF IInv, Shape, Labelled
<1>3. s \in Sets /\ e.S \in SUBSET Elems
  BY <1>2, OutcomeType DEF IInv
<1>4. CASE walk[r].on = s
  <2>1. content'[s] = e.S
    BY <1>1, <1>3 DEF IInv, Shape
  <2>2. walk'[r] = [walk[r] EXCEPT !.at = Without(@, e.S)]
    BY <1>1, <1>4
  <2> QED
    <3> DEFINE w == walk[r]  v == [w EXCEPT !.at = Without(@, e.S)]
    <3>1. /\ v.on = w.on /\ v.other = w.other /\ v.left = w.left /\ v.batch = w.batch
          /\ v.at.pos = w.at.pos /\ v.at.due = w.at.due \cap e.S
      BY <1>2, <1>3, WithoutWalk, ZenonT(60)
    <3>2. walk'[r] = v
      BY <2>2
    <3> HIDE DEF v
    <3> QED
      BY <1>4, <2>1, <3>1, <3>2 DEF Unmoved
<1>5. CASE walk[r].on # s
  BY <1>1, <1>5 DEF Unmoved
<1> QED
  BY <1>4, <1>5

LEMMA StepApart ==
    ASSUME IInv, NEW p \in Procs, Call(p) \/ Step(p) \/ Panic(p)
    PROVE  Apart(p) /\ \A r \in Procs : r # p => Unmoved(r)
<1>0. Shape
  BY DEF IInv
<1>1. CASE Act(p) \/ Leaves(p)
  <2>1. Happens(p) /\ pc[p] \in Operating
    BY <1>1 DEF Act, Leaves, Operating
  <2> QED
    BY <1>0, <2>1, HappensFacts, HappensUnmoved
<1>2. CASE ~(Act(p) \/ Leaves(p))
  <2>1. Private(p)
    <3>1. CASE Call(p) \/ Proceed(p) \/ Asks(p) \/ Enters(p) \/ Visit(p) \/ NextBucket(p)
      BY <1>0, <3>1, CallFacts, ProceedFacts, AsksFacts, EntersFacts, VisitFacts, NextBucketFacts DEF Moves
    <3>2. CASE WalkEnds(p) \/ Continue(p) \/ Conclude(p) \/ Learns(p) \/ Consulted(p) \/ Popped(p)
      BY <1>0, <3>2, WalkEndsFacts, ContinueFacts, ConcludeFacts, LearnsFacts, ConsultedFacts, PoppedFacts DEF Moves
    <3>3. CASE Resume(p) \/ Finish(p) \/ Return(p) \/ Panic(p)
      BY <1>0, <3>3, ResumeFacts, FinishFacts, ReturnFacts, PanicFacts DEF Moves
    <3> QED
      BY <1>2, <3>1, <3>2, <3>3 DEF Step
  <2> QED
    BY <2>1 DEF Private, Unmoved
<1> QED
  BY <1>1, <1>2

EveryChoice == \A p \in Procs : Choice(p)

LEMMA NextChoices == ASSUME IInv, EveryChoice, [ScanNext]_scanVars PROVE EveryChoice'
<1>1. ASSUME UNCHANGED vars PROVE EveryChoice'
  BY <1>1 DEF EveryChoice, Choice, Choosing, Locked, vars, sets, mine
<1>2. ASSUME NEW p \in Procs, Call(p) \/ Step(p) \/ Panic(p) PROVE EveryChoice'
  <2>1. Choice(p)'
    <3>1. CASE Choosing(p)' /\ pc'[p] # "idle"
      BY <1>2, <3>1, ChoiceStep DEF EveryChoice
    <3> QED
      BY <3>1 DEF Choice
  <2>2. ASSUME NEW r \in Procs, r # p PROVE Choice(r)'
    BY <1>2, <2>2, StepApart, ChoiceOthers DEF EveryChoice, Unmoved
  <2> QED
    BY <2>1, <2>2 DEF EveryChoice
<1> QED
  BY <1>1, <1>2 DEF ScanNext, Next, Terminated, scanVars

-----------------------------------------------------------------------------
(* Every step is a step of the atomic object, or none.                     *)

Stage == [p \in Procs |-> Moment(p)]
Wish(p) == IF Moment(p) = "idle" THEN none
            ELSE IF Choosing(p) THEN [call[p] EXCEPT !.kind = "popSome"] ELSE op[p]
Answer(p) == IF Moment(p) # "closed" THEN none ELSE IF Choosing(p) /\ Deleted(p) THEN out[p] ELSE ret[p]
Asked == [p \in Procs |-> Wish(p)]
Answers == [p \in Procs |-> Answer(p)]
Promises == Ops \cup [kind : {"popSome"}, on : Sets, other : Sets, elem : Elems, elems : SUBSET Elems]

LEMMA OthersUnmoved ==
    ASSUME NEW p \in Procs, Apart(p), NEW r \in Procs \ {p}
    PROVE  Moment(r)' = Moment(r) /\ Wish(r)' = Wish(r) /\ Answer(r)' = Answer(r)
<1>1. /\ impl' = impl /\ pc'[r] = pc[r] /\ call'[r] = call[r] /\ op'[r] = op[r]
      /\ out'[r] = out[r] /\ ret'[r] = ret[r]
  BY DEF Apart, Same
<1>2. Choosing(r)' = Choosing(r) /\ Deleted(r)' = Deleted(r) /\ Estimate(r)' = Estimate(r)
  BY <1>1 DEF Choosing, Deleted, Estimate, Locked
<1>3. Moment(r)' = Moment(r)
  BY <1>1, <1>2 DEF Moment
<1> QED
  BY <1>1, <1>2, <1>3 DEF Wish, Answer

LEMMA Stutter ==
    ASSUME NEW p \in Procs, Apart(p), content' = content, Moment(p)' = Moment(p),
           Moment(p) # "idle" => Wish(p)' = Wish(p), Moment(p) = "closed" => Answer(p)' = Answer(p)
    PROVE  UNCHANGED Atomic!vars
<1>1. Wish(p)' = Wish(p) /\ Answer(p)' = Answer(p)
  BY DEF Wish, Answer
<1>2. \A r \in Procs : Moment(r)' = Moment(r) /\ Wish(r)' = Wish(r) /\ Answer(r)' = Answer(r)
  BY <1>1, OthersUnmoved
<1>3. Stage' = Stage /\ Asked' = Asked /\ Answers' = Answers
  BY <1>2 DEF Stage, Asked, Answers
<1> QED
  BY <1>3 DEF Atomic!vars, Stage, Asked, Answers, Wish, Answer

LEMMA Invoked ==
    ASSUME NEW p \in Procs, Apart(p), content' = content,
           Moment(p) = "idle", Moment(p)' = "open", Wish(p)' \in Promises
    PROVE  Atomic!Invoke(p)
<1>1. Stage[p] = "idle" /\ Stage'[p] = "open" /\ Asked'[p] = Wish(p)' /\ Answers'[p] = Answers[p]
  BY DEF Stage, Asked, Answers, Answer
<1>2. Stage' = [Stage EXCEPT ![p] = "open"]
  BY <1>1, OthersUnmoved DEF Stage
<1>3. Asked' = [Asked EXCEPT ![p] = Asked'[p]]
  BY <1>1, OthersUnmoved DEF Asked
<1>4. Answers' = Answers
  BY <1>1, OthersUnmoved DEF Answers
<1> QED
  BY <1>1, <1>2, <1>3, <1>4 DEF Atomic!Invoke, Stage, Asked, Answers, Wish, Answer, Promises

LEMMA Effected ==
    ASSUME NEW p \in Procs, Apart(p),
           Moment(p) = "open", Moment(p)' = "closed", Wish(p)' = Wish(p),
           NEW e \in Promised(Wish(p), content), content' = e.s, Answer(p)' = e.ret
    PROVE  Atomic!TakeEffect(p)
<1>1. /\ Stage[p] = "open" /\ Stage'[p] = "closed" /\ Asked'[p] = Asked[p]
      /\ Asked[p] = Wish(p) /\ Answers'[p] = e.ret
  BY DEF Stage, Asked, Answers
<1>2. Stage' = [Stage EXCEPT ![p] = "closed"]
  BY <1>1, OthersUnmoved DEF Stage
<1>3. Asked' = Asked
  BY <1>1, OthersUnmoved DEF Asked
<1>4. Answers' = [Answers EXCEPT ![p] = e.ret]
  BY <1>1, OthersUnmoved DEF Answers
<1>5. e \in Promised(Asked[p], content)
  BY <1>1
<1> QED
  BY <1>1, <1>2, <1>3, <1>4, <1>5 DEF Atomic!TakeEffect, Stage, Asked, Answers, Wish, Answer

LEMMA Returned ==
    ASSUME NEW p \in Procs, Apart(p), content' = content,
           Moment(p) = "closed", Moment(p)' = "idle"
    PROVE  Atomic!Return(p)
<1>1. /\ Stage[p] = "closed" /\ Stage'[p] = "idle" /\ Asked'[p] = none /\ Answers'[p] = none
  BY DEF Stage, Asked, Answers, Wish, Answer
<1>2. Stage' = [Stage EXCEPT ![p] = "idle"]
  BY <1>1, OthersUnmoved DEF Stage
<1>3. Asked' = [Asked EXCEPT ![p] = none]
  BY <1>1, OthersUnmoved DEF Asked
<1>4. Answers' = [Answers EXCEPT ![p] = none]
  BY <1>1, OthersUnmoved DEF Answers
<1> QED
  BY <1>1, <1>2, <1>3, <1>4 DEF Atomic!Return, Stage, Asked, Answers, Wish, Answer

\* p runs no operation and chooses nothing.
LEMMA Aside ==
    ASSUME NEW p \in Procs, pc[p] \notin Operating, pc[p] # "idle" => call[p].kind \notin Pops
    PROVE  Moment(p) = "idle"
  BY DEF Moment, Choosing, Operating

\* What p does while it neither chooses nor invokes anything is nothing.
LEMMA Passing ==
    ASSUME NEW p \in Procs, Apart(p), content' = content, Moment(p) = "idle", Moment(p)' = "idle"
    PROVE  UNCHANGED Atomic!vars
  BY Stutter

LEMMA PlainMoment ==
    ASSUME NEW p \in Procs, ~Choosing(p)
    PROVE  /\ pc[p] \notin Operating => Moment(p) = "idle"
           /\ pc[p] \in Operating =>
                Moment(p) = IF Estimate(p) THEN "idle" ELSE IF pc[p] = "got" THEN "closed" ELSE "open"
           /\ Moment(p) # "idle" => Wish(p) = op[p]
           /\ Moment(p) = "closed" => Answer(p) = ret[p]
  BY DEF Moment, Operating, Wish, Answer

LEMMA ChoosingMoment ==
    ASSUME NEW p \in Procs, Choosing(p), pc[p] # "idle"
    PROVE  /\ Moment(p) = IF pc[p] = "done" \/ Deleted(p) THEN "closed" ELSE "open"
           /\ Wish(p) = [call[p] EXCEPT !.kind = "popSome"]
           /\ Moment(p) = "closed" => Answer(p) = IF Deleted(p) THEN out[p] ELSE ret[p]
  BY DEF Moment, Wish, Answer

\* Choosing p has not deleted anything.
Open(p) == pc[p] \notin {"idle", "done"} /\ ~Deleted(p)

LEMMA ChoosingStutter ==
    ASSUME NEW p \in Procs, Apart(p), content' = content, call'[p] = call[p], Choosing(p), Open(p), Open(p)'
    PROVE  UNCHANGED Atomic!vars
<1>1. Choosing(p)'
  BY DEF Choosing, Apart, Locked
<1>2. Moment(p) = "open" /\ Moment(p)' = "open"
  BY <1>1 DEF Open, Moment
<1>3. Wish(p)' = Wish(p)
  BY <1>1, <1>2 DEF Wish
<1> QED
  BY <1>2, <1>3, Stutter

\* p's operation is over, or it was an estimate.
LEMMA PlainReturn ==
    ASSUME NEW p \in Procs, Apart(p), content' = content, call'[p] = call[p], ~Choosing(p),
           pc[p] = "got", pc'[p] \notin Operating
    PROVE  Atomic!Return(p) \/ UNCHANGED Atomic!vars
<1>1. ~Choosing(p)'
  BY DEF Choosing, Apart, Locked
<1>2. Moment(p)' = "idle"
  BY <1>1 DEF Moment, Operating
<1>3. Moment(p) \in {"idle", "closed"}
  BY DEF Moment
<1> QED
  BY <1>2, <1>3, Returned, Passing

\* p invokes its next operation, or goes on without one.
LEMMA PlainInvoke ==
    ASSUME NEW p \in Procs, Apart(p), content' = content, call'[p] = call[p], ~Choosing(p),
           pc[p] \notin Operating, pc'[p] \notin {"got", "idle"}, pc'[p] \in Operating => op'[p] \in Ops
    PROVE  Atomic!Invoke(p) \/ UNCHANGED Atomic!vars
<1>1. ~Choosing(p)'
  BY DEF Choosing, Apart, Locked
<1>2. Moment(p) = "idle"
  BY DEF Moment, Operating
<1>3. CASE Moment(p)' = "idle"
  BY <1>2, <1>3, Passing
<1>4. CASE Moment(p)' # "idle"
  <2>1. Moment(p)' = "open" /\ Wish(p)' = op'[p] /\ pc'[p] \in Operating
    BY <1>1, <1>4 DEF Moment, Wish, Operating
  <2> QED
    BY <1>2, <2>1, Invoked DEF Promises
<1> QED
  BY <1>3, <1>4

LEMMA InitIsAtomic == Init => Atomic!Init
<1> SUFFICES ASSUME Init PROVE Atomic!Init
  OBVIOUS
<1>1. \A p \in Procs : Moment(p) = "idle"
  BY DEF Init, Moment
<1> QED
  BY <1>1 DEF Init, Atomic!Init

LEMMA CallIsAtomic ==
    ASSUME IInv, NEW p \in Procs, Call(p)
    PROVE  Atomic!Invoke(p) \/ UNCHANGED Atomic!vars
<1>0. Shape
  BY DEF IInv
<1>1. PICK q \in todo[p] : call'[p] = q
  BY <1>0, CallFacts
<1>2. Apart(p) /\ content' = content /\ pc[p] = "idle" /\ pc'[p] = "next"
  BY <1>0, CallFacts DEF Private
<1>3. q \in Ops /\ q.other \in Sets
  BY <1>0 DEF Shape, Requests
<1>4. Moment(p) = "idle"
  BY <1>2 DEF Moment
<1>5. CASE Choosing(p)'
  <2>1. Moment(p)' = "open" /\ Wish(p)' = [q EXCEPT !.kind = "popSome"]
    BY <1>1, <1>2, <1>5 DEF Moment, Deleted, Wish
  <2>2. [q EXCEPT !.kind = "popSome"] \in Promises
    BY <1>3 DEF Promises, Ops
  <2> QED
    BY <1>2, <1>4, <2>1, <2>2, Invoked
<1>6. CASE ~Choosing(p)'
  <2>1. Moment(p)' = "idle"
    BY <1>2, <1>6 DEF Moment
  <2> QED
    BY <1>2, <1>4, <2>1, Passing
<1> QED
  BY <1>5, <1>6

LEMMA PopSomeEffects ==
    ASSUME NEW q \in Ops, NEW c, NEW t, q.on = t
    PROVE  LET o == [q EXCEPT !.kind = "popSome"] IN
           /\ \A e \in c[t] :
                [s |-> [c EXCEPT ![t] = c[t] \ {e}], ret |-> {e}] \in Promised(o, c)
           /\ [s |-> [c EXCEPT ![t] = c[t]], ret |-> {}] \in Promised(o, c)
<1> DEFINE o == [q EXCEPT !.kind = "popSome"]
<1>1. o.kind = "popSome" /\ o.on = t
  BY DEF Ops
<1> HIDE DEF o
<1> DEFINE made(e) == [s |-> [c EXCEPT ![o.on] = e.S], ret |-> e.ret]
<1>2. Promised(o, c) = {made(Does(c[o.on] \ {e}, {e})) : e \in c[o.on]} \cup {made(Does(c[o.on], {}))}
  BY <1>1 DEF Promised
<1>3. \A S, r : made(Does(S, r)) = [s |-> [c EXCEPT ![o.on] = S], ret |-> r]
  BY DEF Does
<1> HIDE DEF made
<1>4. made(Does(c[o.on], {})) \in Promised(o, c) /\ \A e \in c[o.on] : made(Does(c[o.on] \ {e}, {e})) \in Promised(o, c)
  BY <1>2
<1>5. [s |-> [c EXCEPT ![t] = c[t]], ret |-> {}] \in Promised(o, c)
  BY <1>1, <1>3, <1>4, ZenonT(60)
<1>6. \A e \in c[t] : [s |-> [c EXCEPT ![t] = c[t] \ {e}], ret |-> {e}] \in Promised(o, c)
  BY <1>1, <1>3, <1>4, ZenonT(60)
<1>7. Promised(o, c) = Promised([q EXCEPT !.kind = "popSome"], c)
  BY Zenon DEF o
<1> QED
  BY <1>5, <1>6, <1>7, Zenon

LEMMA HappensIsAtomic ==
    ASSUME IInv, NEW p \in Procs, Choice(p), Happens(p), pc[p] \in {"act", "held"}
    PROVE  Atomic!TakeEffect(p) \/ UNCHANGED Atomic!vars
<1> DEFINE s == op[p].on
<1>0. Shape /\ Labelled(p)
  BY DEF IInv
<1>1. PICK e \in Outcomes(p, op[p]) : content' = [content EXCEPT ![s] = e.S] /\ ret'[p] = e.ret
  BY <1>0, HappensFacts
<1>2. Apart(p) /\ pc'[p] = "got" /\ call'[p] = call[p] /\ op'[p] = op[p] /\ out'[p] = out[p]
  BY <1>0, HappensFacts
<1>3. op[p] \in Ops /\ op[p].kind \in EffectKinds
  BY <1>0 DEF Labelled, Operating
<1>4. /\ s \in Sets /\ op[p].kind \notin Updates => e.S = content[s]
      /\ ~Estimate(p) => e = Effect(op[p], content[s])
  BY <1>0, <1>3, OutcomeType
<1>5. Choosing(p)' = Choosing(p) /\ Estimate(p)' = Estimate(p)
  BY <1>2 DEF Choosing, Estimate, Apart, Locked
<1>6. CASE ~Choosing(p) /\ Estimate(p)
  <2>1. Moment(p) = "idle" /\ Moment(p)' = "idle"
    BY <1>2, <1>5, <1>6 DEF Moment
  <2>2. op[p].kind \notin Updates
    BY <1>6 DEF Estimate, Updates, Pops
  <2>3. content' = content
    BY <1>0, <1>1, <1>4, <2>2 DEF Shape
  <2> QED
    BY <1>2, <2>1, <2>3, Passing
<1>7. CASE ~Choosing(p) /\ ~Estimate(p)
  <2>1. Moment(p) = "open" /\ Moment(p)' = "closed"
    BY <1>2, <1>5, <1>7 DEF Moment
  <2>2. Wish(p) = op[p] /\ Wish(p)' = op[p] /\ Answer(p)' = e.ret
    BY <1>1, <1>2, <1>5, <1>7, <2>1 DEF Wish, Answer
  <2>3. op[p].kind # "popSome"
    BY <1>3 DEF EffectKinds, Points, Batches, Pops, Navigations
  <2> DEFINE m == [s |-> [content EXCEPT ![s] = e.S], ret |-> e.ret]
  <2>4. m \in Promised(op[p], content)
    <3>1. Promised(op[p], content) =
            {[s |-> [content EXCEPT ![s] = Effect(op[p], content[s]).S], ret |-> Effect(op[p], content[s]).ret]}
      BY <2>3 DEF Promised
    <3> QED
      BY <1>4, <1>7, <3>1
  <2>5. content' = m.s /\ Answer(p)' = m.ret
    BY <1>1, <2>2
  <2> HIDE DEF m
  <2> QED
    BY <1>2, <2>1, <2>2, <2>4, <2>5, Effected
<1>8. CASE Choosing(p)
  <2>1. op[p].kind = "remove" /\ s = call[p].on /\ out[p] = {op[p].elem} /\ call[p] \in Ops
    BY <1>0, <1>8 DEF Choice, Operating, Labelled, Requests
  <2>2. e.S = content[s] \ {op[p].elem} /\ e.ret = If(op[p].elem \in content[s])
    <3>1. ~Estimate(p)
      BY <2>1 DEF Estimate
    <3>2. Effect(op[p], content[s]) = Does(content[s] \ {op[p].elem}, If(op[p].elem \in content[s]))
      BY <2>1 DEF Effect, If, Navigations
    <3> QED
      BY <1>4, <3>1, <3>2 DEF Does, If
  <2>3. CASE op[p].elem \in content[s]
    <3>1. Deleted(p)'
      BY <1>1, <1>2, <2>1, <2>2, <2>3 DEF Deleted, If
    <3>2. Moment(p) = "open" /\ Moment(p)' = "closed"
      BY <1>2, <1>5, <1>8, <3>1 DEF Moment, Deleted
    <3>3. Wish(p) = [call[p] EXCEPT !.kind = "popSome"] /\ Wish(p)' = Wish(p) /\ Answer(p)' = {op[p].elem}
      BY <1>2, <1>5, <1>8, <2>1, <3>1, <3>2 DEF Wish, Answer
    <3> DEFINE m == [s |-> [content EXCEPT ![s] = content[s] \ {op[p].elem}], ret |-> {op[p].elem}]
    <3>4. m \in Promised(Wish(p), content)
      <4> DEFINE q == call[p]  o == [q EXCEPT !.kind = "popSome"]
      <4>1. \A x \in content[s] :
              [s |-> [content EXCEPT ![s] = content[s] \ {x}], ret |-> {x}] \in Promised(o, content)
        BY <1>4, <2>1, PopSomeEffects
      <4> HIDE DEF o
      <4>2. m \in Promised(o, content)
        BY <2>1, <2>3, <4>1
      <4>3. Wish(p) = o
        BY <3>3 DEF o
      <4> HIDE DEF m
      <4> QED
        BY <4>2, <4>3
    <3>5. content' = m.s /\ Answer(p)' = m.ret
      BY <1>1, <2>2, <3>3
    <3> HIDE DEF m
    <3> QED
      BY <1>2, <3>2, <3>3, <3>4, <3>5, Effected
  <2>4. CASE op[p].elem \notin content[s]
    <3>1. content' = content
      <4>1. content[s] \ {op[p].elem} = content[s]
        BY <2>4
      <4> QED
        BY <1>0, <1>1, <1>4, <2>2, <4>1 DEF Shape
    <3>2. Open(p) /\ Open(p)'
      BY <1>1, <1>2, <2>2, <2>4 DEF Open, Deleted, If
    <3> QED
      BY <1>2, <1>8, <3>1, <3>2, ChoosingStutter
  <2> QED
    BY <2>3, <2>4
<1> QED
  BY <1>6, <1>7, <1>8

LEMMA FinishIsAtomic ==
    ASSUME IInv, NEW p \in Procs, Finish(p)
    PROVE  Atomic!Next \/ UNCHANGED Atomic!vars
<1>0. Shape /\ Labelled(p)
  BY DEF IInv
<1>1. /\ Apart(p) /\ content' = content /\ pc[p] = "next" /\ pc'[p] = "done" /\ call'[p] = call[p]
      /\ op'[p] = op[p] /\ out'[p] = out[p]
      /\ ret'[p] = IF call[p].kind \in Pops /\ ~Locked(call[p].on) THEN {} ELSE ret[p]
  BY <1>0, FinishFacts DEF Moves, Private
<1>2. CASE ~Choosing(p)
  BY <1>1, <1>2, PlainInvoke DEF Operating, Atomic!Next
<1>3. CASE Choosing(p)
  <2>1. Choosing(p)'
    BY <1>1, <1>3 DEF Choosing, Apart, Locked
  <2>2. Moment(p) = "open" /\ Moment(p)' = "closed"
    BY <1>1, <1>3, <2>1 DEF Moment, Deleted
  <2>3. Wish(p) = [call[p] EXCEPT !.kind = "popSome"] /\ Wish(p)' = Wish(p) /\ Answer(p)' = {}
    BY <1>1, <1>3, <2>1, <2>2 DEF Wish, Answer, Deleted, Choosing
  <2> DEFINE t == call[p].on  m == [s |-> [content EXCEPT ![t] = content[t]], ret |-> {}]
             o == [call[p] EXCEPT !.kind = "popSome"]
  <2>4. call[p] \in Ops /\ t \in Sets
    BY <1>0, <1>1 DEF Labelled, Requests, Ops
  <2>5. m \in Promised(o, content)
    BY <2>4, PopSomeEffects
  <2>6. content' = m.s /\ Answer(p)' = m.ret
    BY <1>0, <1>1, <2>3, <2>4 DEF Shape
  <2> HIDE DEF m, o
  <2>7. Wish(p) = o
    BY <2>3 DEF o
  <2> QED
    BY <1>1, <2>2, <2>3, <2>5, <2>6, <2>7, Effected DEF Atomic!Next
<1> QED
  BY <1>2, <1>3

LEMMA PoppedIsAtomic ==
    ASSUME IInv, NEW p \in Procs, Popped(p)
    PROVE  Atomic!Next \/ UNCHANGED Atomic!vars
<1>0. Shape
  BY DEF IInv
<1>1. /\ Apart(p) /\ content' = content /\ pc[p] = "got" /\ op[p].kind = "remove" /\ call'[p] = call[p]
      /\ IF ret[p] = {} THEN pc'[p] = "next" ELSE pc'[p] = "done" /\ ret'[p] = out[p]
  BY <1>0, PoppedFacts DEF Private
<1>2. CASE ~Choosing(p)
  BY <1>1, <1>2, PlainReturn DEF Operating, Atomic!Next
<1>3. CASE Choosing(p) /\ ret[p] = {}
  BY <1>1, <1>3, ChoosingStutter DEF Open, Deleted
<1>4. CASE Choosing(p) /\ ret[p] # {}
  <2>1. Choosing(p)'
    BY <1>1, <1>4 DEF Choosing, Apart, Locked
  <2>2. Deleted(p) /\ ~Deleted(p)' /\ pc'[p] = "done"
    BY <1>1, <1>4 DEF Deleted
  <2>3. Moment(p) = "closed" /\ Moment(p)' = "closed"
    BY <1>1, <1>4, <2>1, <2>2 DEF Moment
  <2>4. Wish(p)' = Wish(p) /\ Answer(p)' = Answer(p)
    BY <1>1, <1>4, <2>1, <2>2, <2>3 DEF Wish, Answer
  <2> QED
    BY <1>1, <2>3, <2>4, Stutter
<1> QED
  BY <1>2, <1>3, <1>4

LEMMA ReturnIsAtomic ==
    ASSUME IInv, NEW p \in Procs, Return(p)
    PROVE  Atomic!Next \/ UNCHANGED Atomic!vars
<1>1. Apart(p) /\ content' = content /\ pc[p] = "done" /\ pc'[p] = "idle"
  BY ReturnFacts DEF IInv, Private
<1>2. Moment(p)' = "idle" /\ Moment(p) \in {"idle", "closed"}
  BY <1>1 DEF Moment
<1> QED
  BY <1>1, <1>2, Returned, Passing DEF Atomic!Next

\* Steps between two operations.
LEMMA BetweenIsAtomic ==
    ASSUME IInv, IInv', NEW p \in Procs, Choice(p),
           \/ Proceed(p) \/ Visit(p) \/ NextBucket(p) \/ WalkEnds(p)
           \/ Conclude(p) \/ Continue(p) \/ Panic(p)
    PROVE  Atomic!Next \/ UNCHANGED Atomic!vars
<1>0. Shape /\ Labelled(p) /\ Labelled(p)'
  BY DEF IInv
<1>1. /\ Apart(p) /\ content' = content /\ call'[p] = call[p]
      /\ pc[p] \in {"next", "walk", "walked", "told"}
      /\ pc'[p] \in {"act", "told", "walk", "walked", "next", "done"}
  <2>1. CASE Proceed(p) \/ Visit(p) \/ NextBucket(p)
    BY <1>0, <2>1, ProceedFacts, VisitFacts, NextBucketFacts DEF Private, Moves, Decides
  <2>2. CASE WalkEnds(p) \/ Conclude(p) \/ Continue(p) \/ Panic(p)
    BY <1>0, <2>2, WalkEndsFacts, ConcludeFacts, ContinueFacts, PanicFacts DEF Private, Moves, Decides
  <2> QED
    BY <2>1, <2>2
<1>2. CASE ~Choosing(p)
  <2>1. pc'[p] \in Operating => op'[p] \in Ops
    BY <1>0 DEF Labelled
  <2> QED
    BY <1>1, <1>2, <2>1, PlainInvoke DEF Operating, Atomic!Next
<1>3. CASE Choosing(p)
  <2>1. ~Panic(p)
    <3>1. Panic(p) => pc[p] = "told"
      BY <1>0, PanicFacts DEF Moves
    <3> QED
      BY <1>0, <1>3, <3>1, PopsAreNoOthers DEF Labelled, Choosing
  <2>2. pc'[p] # "done"
    <3>1. CASE Proceed(p) \/ Visit(p) \/ NextBucket(p)
      BY <1>0, <3>1, ProceedFacts, VisitFacts, NextBucketFacts DEF Moves, Decides
    <3>2. CASE WalkEnds(p) \/ Conclude(p) \/ Continue(p)
      BY <1>0, <3>2, WalkEndsFacts, ConcludeFacts, ContinueFacts DEF Moves, Decides
    <3> QED
      BY <2>1, <3>1, <3>2
  <2> QED
    BY <1>1, <1>3, <2>2, ChoosingStutter DEF Open, Deleted
<1> QED
  BY <1>2, <1>3

\* What the method makes of an operation that is over.
LEMMA AfterIsAtomic ==
    ASSUME IInv, NEW p \in Procs, Choice(p), Learns(p) \/ Consulted(p) \/ Resume(p)
    PROVE  Atomic!Next \/ UNCHANGED Atomic!vars
<1>0. Shape
  BY DEF IInv
<1>1. /\ Apart(p) /\ content' = content /\ call'[p] = call[p] /\ pc[p] = "got" /\ pc'[p] \notin Operating
  BY <1>0, LearnsFacts, ConsultedFacts, ResumeFacts DEF Private, Moves, Decides, Operating
<1>2. ~Choosing(p)
  <2>1. \/ op[p].kind \in Measuring \/ call[p].kind \in Asking
        \/ ~(op[p].kind = "remove" /\ call[p].kind \in Pops)
    BY <1>0, LearnsFacts, ConsultedFacts, ResumeFacts
  <2> QED
    BY <1>1, <2>1, PopsAreNoOthers DEF Choice, Choosing, Operating
<1> QED
  BY <1>1, <1>2, PlainReturn DEF Atomic!Next

\* Asking for the lock, and getting it.
LEMMA LockingIsAtomic ==
    ASSUME IInv, NEW p \in Procs, Asks(p) \/ Enters(p)
    PROVE  UNCHANGED Atomic!vars
<1>1. /\ Apart(p) /\ content' = content /\ call'[p] = call[p] /\ op'[p] = op[p]
      /\ pc[p] \in {"act", "queued"} /\ pc'[p] \in {"queued", "held"}
  BY AsksFacts, EntersFacts DEF IInv, Private, Moves
<1>2. Choosing(p)' = Choosing(p) /\ Estimate(p)' = Estimate(p)
  BY <1>1 DEF Choosing, Estimate, Apart, Locked
<1>3. Moment(p)' = Moment(p) /\ Moment(p) # "closed"
  BY <1>1, <1>2 DEF Moment, Deleted
<1>4. Moment(p) # "idle" => Wish(p)' = Wish(p)
  BY <1>1, <1>2, <1>3 DEF Wish
<1> QED
  BY <1>1, <1>3, <1>4, Stutter

LEMMA StepIsAtomic ==
    ASSUME IInv, EveryChoice, NEW p \in Procs, Call(p) \/ Step(p) \/ Panic(p)
    PROVE  Atomic!Next \/ UNCHANGED Atomic!vars
<1>1. IInv' /\ Choice(p)
  BY StepInvariant DEF EveryChoice
<1>2. CASE Call(p)
  BY <1>2, CallIsAtomic DEF Atomic!Next
<1>3. CASE Act(p) \/ Leaves(p)
  <2>1. Happens(p) /\ pc[p] \in {"act", "held"}
    BY <1>3 DEF Act, Leaves
  <2> QED
    BY <1>1, <2>1, HappensIsAtomic DEF Atomic!Next
<1>4. CASE Asks(p) \/ Enters(p)
  BY <1>4, LockingIsAtomic
<1>5. CASE Popped(p)
  BY <1>5, PoppedIsAtomic
<1>6. CASE Return(p)
  BY <1>6, ReturnIsAtomic
<1>7. CASE Finish(p)
  BY <1>7, FinishIsAtomic
<1>8. CASE Learns(p) \/ Consulted(p) \/ Resume(p)
  BY <1>1, <1>8, AfterIsAtomic
<1>9. CASE \/ Proceed(p) \/ Visit(p) \/ NextBucket(p) \/ WalkEnds(p)
           \/ Conclude(p) \/ Continue(p) \/ Panic(p)
  BY <1>1, <1>9, BetweenIsAtomic
<1> QED
  BY <1>2, <1>3, <1>4, <1>5, <1>6, <1>7, <1>8, <1>9 DEF Step

LEMMA NextIsAtomic == IInv /\ EveryChoice /\ [ScanNext]_scanVars => [Atomic!Next]_Atomic!vars
<1> SUFFICES ASSUME IInv, EveryChoice, [ScanNext]_scanVars PROVE Atomic!Next \/ UNCHANGED Atomic!vars
  OBVIOUS
<1>1. CASE UNCHANGED vars
  <2>1. \A p \in Procs : Moment(p)' = Moment(p) /\ Wish(p)' = Wish(p) /\ Answer(p)' = Answer(p)
    BY <1>1 DEF vars, sets, mine, Moment, Wish, Answer, Choosing, Deleted, Estimate, Locked
  <2>2. Stage' = Stage /\ Asked' = Asked /\ Answers' = Answers /\ content' = content
    BY <1>1, <2>1 DEF Stage, Asked, Answers, vars, sets
  <2> QED
    BY <2>2 DEF Atomic!vars, Stage, Asked, Answers, Wish, Answer
<1>2. ASSUME NEW p \in Procs, Call(p) \/ Step(p) \/ Panic(p) PROVE Atomic!Next \/ UNCHANGED Atomic!vars
  BY <1>2, StepIsAtomic
<1> QED
  BY <1>1, <1>2 DEF ScanNext, Next, Terminated, scanVars

(***************************************************************************)
(* EveryOperationIsAtomic: every operation of every method takes effect in *)
(* one instant on the set it is for, under its lock or inside one call of  *)
(* the external set, and a Pop that chooses and then deletes removes what  *)
(* it returns in the instant of the deletion, however often it had to      *)
(* choose again (the Atomicity Guide of collection.go:623-679).            *)
(***************************************************************************)
THEOREM SetOperationsAreAtomic == ScanSpec => EveryOperationIsAtomic
<1>1. ScanInit => IInv /\ EveryChoice /\ Atomic!Init
  <2>1. ScanInit => EveryChoice
    BY DEF ScanInit, Init, EveryChoice, Choice
  <2> QED
    BY <2>1, InitInvariant, InitIsAtomic DEF ScanInit
<1>2. IInv /\ EveryChoice /\ [ScanNext]_scanVars => IInv' /\ EveryChoice'
  BY NextInvariant, NextChoices
<1>3. IInv /\ EveryChoice /\ [ScanNext]_scanVars => [Atomic!Next]_Atomic!vars
  BY NextIsAtomic
<1> QED
  BY <1>1, <1>2, <1>3, PTL DEF ScanSpec, scanVars, EveryOperationIsAtomic, Atomic!Spec

-----------------------------------------------------------------------------
(* What a call has found out by its walks.                                 *)

Chooses == Pops \cup Navigations
Rising == Upward \cup {"pop", "popFirst"}
Consultable == Sets \cup {none, "itself"}

\* The methods that walk.
Walker(q) ==
    \/ q.kind \in Asking \cup {"scan", "removeFunc"}
    \/ q.kind \in Chooses /\ ~Locked(q.on)
    \/ q.kind = "clear" /\ impl[q.on] = "skip"

\* They walk over s and ask o.
Leg(q, s, o) ==
    IF q.kind = "union" THEN s \in {q.on, q.other} /\ o = none
    ELSE IF q.kind = "symmetricDifference"
    THEN \/ s = q.on /\ o = q.other
         \/ s = q.other /\ o = IF Locked(q.on) THEN "itself" ELSE q.on
    ELSE IF q.kind \in {"isSupersetOf", "isProperSupersetOf"} THEN s = q.other /\ o = q.on
    ELSE s = q.on /\ o = IF q.kind \in Asking THEN q.other ELSE none

\* S lies between what t held all along and what it held at some moment.
Spanned(p, t, S) == kept[p][t] \subseteq S /\ S \subseteq had[p][t]

\* At some moment o may have answered `found` when it was asked for e.
May(p, o, e, found) ==
    IF o = none THEN found
    ELSE LET t == IF o = "itself" THEN call[p].on ELSE o
         IN  IF found THEN e \in had[p][t] ELSE e \notin kept[p][t]

\* e has been told of, and what is in out is for a reason.
Beats(q, m, e) == impl[q.on] = "skip" => IF q.kind \in Rising THEN m <= e ELSE m >= e
Judged(p, o, e) ==
    LET q == call[p] IN
    \/ \E found \in BOOLEAN : May(p, o, e, found) /\ ~Collects(q, e, found)
    \/ q.kind \in Chooses /\ \E m \in out[p] : Beats(q, m, e)
    \/ q.kind \in Relations /\ out[p] # {}
    \/ q.kind \notin Chooses \cup Relations \cup {"clear"} /\ e \in out[p]
Sound(p, e) ==
    \E s \in Sets, o \in Consultable, found \in BOOLEAN :
       Leg(call[p], s, o) /\ e \in had[p][s] /\ May(p, o, e, found) /\ Collects(call[p], e, found)

\* The walks to come, under way, and over.
Measure(q, o) == o.kind \in Measuring /\ (q.kind = "removeFunc" => o.on = q.on)
Onward(q, l) ==
    \A i \in DOMAIN l : Measure(q, l[i]) \/ (l[i].kind = "walk" /\ Leg(q, l[i].on, l[i].other))
Coming(l, s, o) == \E i \in DOMAIN l : l[i].kind = "walk" /\ l[i].on = s /\ l[i].other = o
Ahead(p, s, o) == Coming(plan[p], s, o)
Here(p, s, o) == walk[p].on = s /\ walk[p].other = o
Behind(p, s, o) == \A e \in kept[p][s] : Judged(p, o, e)

Toured(p) ==
    /\ Onward(call[p], plan[p])
    /\ \A s \in Sets, o \in Consultable : Leg(call[p], s, o) => Ahead(p, s, o) \/ Here(p, s, o) \/ Behind(p, s, o)
    /\ call[p].kind = "removeFunc" /\ walk[p].on = none => Ahead(p, call[p].on, none)
    /\ call[p].kind \in Chooses =>
         plan[p] = <<>> \/ (walk[p].on = none /\ plan[p] = Walk(call[p].on, none) /\ out[p] = {})

\* What a goroutine may be doing between and during its walks.
Measures(p) == Measure(call[p], op[p]) /\ walk[p].on = none
Consults(p) == op[p].kind = "contains" /\ op[p].on = walk[p].other /\ walk[p].on # none
Clears(p) == /\ call[p].kind = "clear" /\ walk[p].on = call[p].on
             /\ op[p].kind = "remove" /\ op[p].on = call[p].on
Removes(p) == /\ call[p].kind \in Pops /\ walk[p].on = none /\ plan[p] = <<>>
              /\ op[p].kind = "remove" /\ op[p].on = call[p].on /\ out[p] = {op[p].elem}
Engaged(p) ==
    /\ pc[p] = "next" => walk[p].on = none
    /\ pc[p] \in Operating => Measures(p) \/ Consults(p) \/ Clears(p) \/ Removes(p)
    /\ pc[p] = "got" =>
         /\ Consults(p) => IF ret[p] = {} THEN op[p].elem \notin kept[p][walk[p].other]
                                          ELSE op[p].elem \in had[p][walk[p].other]
         /\ Clears(p) => op[p].elem \notin kept[p][call[p].on]
         /\ op[p].kind = "snapshot" => Spanned(p, op[p].on, ret[p])
         /\ op[p].kind = "size" /\ alone[p] =>
              \E S \in SUBSET Elems : Spanned(p, op[p].on, S) /\ ret[p] = {Cardinality(S)}

\* The walk under way, over s: the elements it has still to tell of, and those
\* it has told of.
Telling(p) == pc[p] \in Operating \cup {"told"}
Left(w) == w.batch \cup (UNION w.left) \cup w.at.due
WalksOver(p, s) ==
    LET w == walk[p]  q == call[p]  skips == impl[s] = "skip" IN
    /\ Leg(q, s, w.other)
    /\ \A e \in kept[p][s] : \/ Judged(p, w.other, e)
                             \/ pc[p] # "walked" /\ e \in Left(w)
                             \/ Telling(p) /\ e = op[p].elem
    /\ Telling(p) => op[p].elem \in had[p][s]
    /\ IF skips THEN w.batch = {} /\ w.left = {} ELSE w.batch \subseteq had[p][s]
    /\ q.kind \in Chooses =>
         /\ q.kind \in Rising /\ pc[p] # "walked" => out[p] = {}
         /\ skips => \A m \in out[p] : m <= w.at.pos
Strolls(p) == walk[p].on # none => WalksOver(p, walk[p].on)

Gathers(p) ==
    LET q == call[p] IN
    /\ \A e \in out[p] : Sound(p, e)
    /\ q.kind \in Chooses => \A m, k \in out[p] : m = k
    /\ q.kind \in Pops /\ pc[p] = "next" => out[p] = {}

\* The snapshot of a tree set is the last that was taken before the walk over it.
Shot(l, i) == \E j \in 1 .. i - 1 : /\ l[j].kind = "snapshot" /\ l[j].on = l[i].on
                                    /\ \A m \in j + 1 .. i - 1 : l[m].kind = "size"
Prepared(l, t) ==
    \A i \in DOMAIN l : l[i].kind = "walk" /\ Locked(l[i].on) =>
       Shot(l, i) \/ (l[i].on = t /\ \A m \in 1 .. i - 1 : l[m].kind = "size")
Readied(p) ==
    \E t \in Sets \cup {none} :
       /\ Prepared(plan[p], t)
       /\ t # none => /\ walk[p].on = none
                      /\ IF pc[p] \in Operating /\ op[p].kind = "snapshot" THEN op[p].on = t
                                                                       ELSE Spanned(p, t, walk[p].batch)

\* SymmetricDifference of a tree set keeps its first snapshot.
Halves(p) ==
    LET q == call[p] IN
    q.kind = "symmetricDifference" /\ Locked(q.on) =>
      IF snap[p] = none
      THEN /\ walk[p].on = none
           /\ IF pc[p] = "next" THEN plan[p] = Combine(q) ELSE op[p].kind = "snapshot" /\ op[p].on = q.on
      ELSE snap[p] \in SUBSET Elems /\ Spanned(p, q.on, snap[p])

\* The sizes that equality and the proper inclusions read first.
At(p, l) == IF pc[p] = "next" THEN plan[p] = l ELSE op[p] = Head(l) /\ plan[p] = Tail(l)
Counting(q, o) == o.kind = "size" \/ (q.kind = "equals" /\ o.kind = "snapshot")
Sizes(p) ==
    LET q == call[p]  C == Compare(q)  A == content[q.on]  B == content[q.other] IN
    q.kind \in Sized =>
      /\ sizes[p] = <<>> => walk[p].on = none /\ At(p, C)
      /\ Len(sizes[p]) = 1 => walk[p].on = none /\ At(p, Tail(C)) /\ (alone[p] => sizes[p][1] = Cardinality(A))
      /\ Len(sizes[p]) > 1 =>
           /\ alone[p] => SizesFit(q.kind, Cardinality(A), Cardinality(B))
           /\ \A i \in DOMAIN plan[p] : ~Counting(q, plan[p][i])
           /\ pc[p] \in Operating => ~Counting(q, op[p])

Learned(p) == Toured(p) /\ Engaged(p) /\ Strolls(p) /\ Gathers(p) /\ Readied(p) /\ Halves(p) /\ Sizes(p)

\* RemoveFunc after its walk.
Hits(o) == IF o.kind = "remove" THEN {o.elem} ELSE o.elems
Deletion(p, o) == o.kind \in {"remove", "removeAll"} /\ o.on = call[p].on
Deleting(p) ==
    LET q == call[p] IN
    /\ q.kind = "removeFunc" /\ walk[p].on = none /\ pc[p] \in Operating \cup {"next"}
    /\ \A i \in DOMAIN plan[p] : Deletion(p, plan[p][i])
    /\ pc[p] \in Operating => Deletion(p, op[p])
    /\ \A e \in kept[p][q.on] \cap q.elems :
         \/ pc[p] \in Operating \ {"got"} /\ e \in Hits(op[p])
         \/ \E i \in DOMAIN plan[p] : e \in Hits(plan[p][i])

\* Clear of a tree or a hash set.
Clearing(p) ==
    LET q == call[p] IN
    \/ pc[p] = "next" /\ plan[p] = <<q>>
    \/ pc[p] \in Operating \ {"got"} /\ op[p] = q /\ plan[p] = <<>>
    \/ pc[p] \in {"got", "next"} /\ plan[p] = <<>> /\ kept[p][q.on] = {} /\ (pc[p] = "got" => op[p] = q)

History(p) ==
    /\ kept[p] \in [Sets -> SUBSET Elems] /\ had[p] \in [Sets -> SUBSET Elems] /\ alone[p] \in BOOLEAN
    /\ \A s \in Sets : kept[p][s] \subseteq content[s] /\ content[s] \subseteq had[p][s]
    /\ alone[p] => Undisturbed(p)
    /\ alone[p] /\ call[p].kind \notin Updates => \A s \in Sets : kept[p][s] = content[s] /\ had[p][s] = content[s]

\* AnswersAreJustified, a goroutine at a time: the answer o, r by what the two
\* sets held all along, K and L, and at some moment, H and I; the answer of one
\* that ran alone, by what they hold.
PopWithin(q, K, r) ==
    q.kind \in Pops /\ ~Locked(q.on) =>
      /\ r = {} => K = {}
      /\ impl[q.on] = "skip" => \A e \in r, k \in K : IF q.kind = "popLast" THEN e >= k ELSE e <= k
Between(low, o, high) == low \subseteq o /\ o \subseteq high
AlgebraWithin(q, K, L, H, I, o) ==
    /\ q.kind = "union" => Between(K \cup L, o, H \cup I)
    /\ q.kind = "intersection" => Between(K \cap L, o, H \cap I)
    /\ q.kind = "difference" => Between(K \ I, o, H \ L)
    /\ q.kind = "symmetricDifference" => Between((K \ I) \cup (L \ H), o, (H \ L) \cup (I \ K))
RelationWithin(q, K, L, H, I, o) ==
    /\ q.kind = "isSubsetOf" => IF o = {} THEN K \subseteq I ELSE ~(H \subseteq L)
    /\ q.kind = "isSupersetOf" => IF o = {} THEN L \subseteq H ELSE ~(I \subseteq K)
    /\ q.kind = "isDisjoint" => IF o = {} THEN K \cap L = {} ELSE H \cap I # {}
    /\ q.kind \in {"equals", "isProperSubsetOf"} /\ o = {} => K \subseteq I
    /\ q.kind = "isProperSupersetOf" /\ o = {} => L \subseteq H
Fitting(q, K) == {k \in K : Qualifies(q.kind, q.elem, k)}
NavigationWithin(q, K, H, o) ==
    q.kind \in Navigations /\ ~Locked(q.on) =>
      /\ o = {} => Fitting(q, K) = {}
      /\ \A e \in o : /\ e \in H /\ Qualifies(q.kind, q.elem, e)
                      /\ \A k \in Fitting(q, K) : IF q.kind \in Upward THEN e <= k ELSE e >= k
BulkWithin(q, K, H, o) ==
    /\ q.kind = "scan" => Between(K, o, H)
    /\ q.kind = "clear" => K = {}
    /\ q.kind = "removeFunc" /\ o # {0} => K \cap q.elems = {}
Within(q, K, L, H, I, o, r) ==
    /\ PopWithin(q, K, r) /\ AlgebraWithin(q, K, L, H, I, o) /\ RelationWithin(q, K, L, H, I, o)
    /\ NavigationWithin(q, K, H, o) /\ BulkWithin(q, K, H, o)
Exact(q, A, B, o) ==
    /\ q.kind = "equals" => (o = {}) = (A = B)
    /\ q.kind = "isProperSubsetOf" => (o = {}) = (A \subseteq B /\ A # B)
    /\ q.kind = "isProperSupersetOf" => (o = {}) = (B \subseteq A /\ A # B)
Justified(p) ==
    LET q == call[p] IN
    /\ Within(q, kept[p][q.on], kept[p][q.other], had[p][q.on], had[p][q.other], out[p], ret[p])
    /\ alone[p] => Exact(q, content[q.on], content[q.other], out[p])
    /\ q.kind = "removeFunc" /\ out[p] = {0} => kept[p][q.on] = {} \/ ~alone[p]
Running(p) ==
    pc[p] # "idle" =>
      /\ History(p)
      /\ pc[p] = "done" /\ ret[p] # none => Justified(p)
      /\ pc[p] # "done" /\ Walker(call[p]) => Learned(p) \/ Deleting(p)
      /\ pc[p] # "done" /\ call[p].kind = "clear" /\ ~Walker(call[p]) => Clearing(p)
EveryCall == \A p \in Procs : Running(p)

-----------------------------------------------------------------------------
(* The walks a method is made of.                                          *)

LEMMA RequestIs ==
    ASSUME NEW q \in Requests
    PROVE  /\ q \in Ops /\ q.kind \in Kinds /\ q.on \in Sets /\ q.other \in Sets
           /\ q.elem \in Elems /\ q.elems \in SUBSET Elems
           /\ q.on # none /\ q.on # "itself" /\ q.other # none /\ q.other # "itself"
  BY DEF Requests, Ops

LEMMA LegIs ==
    ASSUME NEW q \in Requests, NEW s, NEW o, Leg(q, s, o)
    PROVE  s \in Sets /\ o \in Consultable /\ (o = "itself" => Locked(q.on) /\ q.kind = "symmetricDifference")
  BY RequestIs DEF Leg, Consultable

LEMMA JoinTrip ==
    ASSUME NEW q, NEW a \in Seq(Ops), NEW b \in Seq(Ops), Onward(q, a), Onward(q, b)
    PROVE  /\ a \o b \in Seq(Ops) /\ Onward(q, a \o b)
           /\ \A s, o : Coming(a, s, o) \/ Coming(b, s, o) => Coming(a \o b, s, o)
<1> DEFINE l == a \o b
<1>1. /\ l \in Seq(Ops) /\ Len(l) = Len(a) + Len(b) /\ Len(a) \in Nat /\ Len(b) \in Nat
      /\ DOMAIN l = 1 .. Len(l) /\ DOMAIN a = 1 .. Len(a) /\ DOMAIN b = 1 .. Len(b)
      /\ \A i \in 1 .. Len(a) : l[i] = a[i]
      /\ \A i \in 1 .. Len(b) : l[Len(a) + i] = b[i]
  BY Joined
<1> HIDE DEF l
<1>2. ASSUME NEW i \in DOMAIN l PROVE Measure(q, l[i]) \/ (l[i].kind = "walk" /\ Leg(q, l[i].on, l[i].other))
  <2>1. CASE i <= Len(a)
    <3>1. i \in DOMAIN a /\ l[i] = a[i]
      BY <1>1, <2>1
    <3> QED
      BY <3>1 DEF Onward
  <2>2. CASE i > Len(a)
    <3>1. i - Len(a) \in 1 .. Len(b) /\ i = Len(a) + (i - Len(a))
      BY <1>1, <2>2
    <3>2. i - Len(a) \in DOMAIN b /\ l[i] = b[i - Len(a)]
      BY <1>1, <3>1
    <3> QED
      BY <3>2 DEF Onward
  <2> QED
    BY <1>1, <2>1, <2>2
<1>3. ASSUME NEW s, NEW o, Coming(a, s, o) \/ Coming(b, s, o) PROVE Coming(l, s, o)
  <2>1. CASE Coming(a, s, o)
    <3>1. PICK i \in DOMAIN a : a[i].kind = "walk" /\ a[i].on = s /\ a[i].other = o
      BY <2>1 DEF Coming
    <3>2. i \in DOMAIN l /\ l[i] = a[i]
      BY <1>1, <3>1
    <3> QED
      BY <3>1, <3>2 DEF Coming
  <2>2. CASE Coming(b, s, o)
    <3>1. PICK i \in DOMAIN b : b[i].kind = "walk" /\ b[i].on = s /\ b[i].other = o
      BY <2>2 DEF Coming
    <3>2. Len(a) + i \in DOMAIN l /\ l[Len(a) + i] = b[i]
      BY <1>1, <3>1
    <3> QED
      BY <3>1, <3>2 DEF Coming
  <2> QED
    BY <1>3, <2>1, <2>2
<1> QED
  BY <1>1, <1>2, <1>3 DEF l, Onward

\* The place of an element of the second sequence among those of both.
LEMMA ShiftIn ==
    ASSUME NEW n \in Nat, NEW m \in Nat, NEW k \in 1 .. m, NEW j \in 1 .. k - 1, NEW i, i = n + k
    PROVE  j \in 1 .. m /\ n + j \in 1 .. i - 1
  OBVIOUS

LEMMA JoinPrepared ==
    ASSUME NEW a \in Seq(Ops), NEW b \in Seq(Ops), NEW t, Prepared(a, t), Prepared(b, none)
    PROVE  Prepared(a \o b, t)
<1> DEFINE l == a \o b  n == Len(a)
<1>1. /\ l \in Seq(Ops) /\ Len(l) = n + Len(b) /\ n \in Nat /\ Len(b) \in Nat
      /\ DOMAIN l = 1 .. Len(l) /\ DOMAIN a = 1 .. n /\ DOMAIN b = 1 .. Len(b)
      /\ \A i \in 1 .. n : l[i] = a[i]
      /\ \A i \in 1 .. Len(b) : l[n + i] = b[i]
      /\ \A i \in 1 .. Len(b) : b[i].on # none
  <2>1. \A i \in 1 .. Len(b) : b[i] \in Ops
    OBVIOUS
  <2> QED
    BY <2>1, Joined DEF Ops
<1> HIDE DEF l, n
<1>2. ASSUME NEW i \in DOMAIN l, l[i].kind = "walk", Locked(l[i].on)
      PROVE  Shot(l, i) \/ (l[i].on = t /\ \A m \in 1 .. i - 1 : l[m].kind = "size")
  <2>1. CASE i <= n
    <3>1. i \in DOMAIN a /\ \A k \in 1 .. i : l[k] = a[k]
      BY <1>1, <2>1
    <3>2. Shot(a, i) \/ (a[i].on = t /\ \A m \in 1 .. i - 1 : a[m].kind = "size")
      BY <1>2, <3>1 DEF Prepared
    <3>3. ASSUME Shot(a, i) PROVE Shot(l, i)
      <4>1. PICK j \in 1 .. i - 1 : /\ a[j].kind = "snapshot" /\ a[j].on = a[i].on
                                    /\ \A m \in j + 1 .. i - 1 : a[m].kind = "size"
        BY <3>3 DEF Shot
      <4>2. l[j] = a[j] /\ l[i] = a[i] /\ \A m \in j + 1 .. i - 1 : l[m] = a[m]
        BY <1>1, <2>1, <3>1
      <4> QED
        BY <4>1, <4>2 DEF Shot
    <3>4. \A m \in 1 .. i - 1 : l[m] = a[m]
      BY <1>1, <2>1, <3>1
    <3> QED
      BY <3>1, <3>2, <3>3, <3>4
  <2>2. CASE i > n
    <3>1. PICK k \in 1 .. Len(b) : i = n + k
      <4>1. i - n \in 1 .. Len(b) /\ i = n + (i - n)
        BY <1>1, <2>2
      <4> QED
        BY <4>1
    <3>2. l[i] = b[k] /\ b[k].on # none
      BY <1>1, <3>1
    <3>3. Shot(b, k)
      BY <1>1, <1>2, <3>2 DEF Prepared
    <3>4. PICK j \in 1 .. k - 1 : /\ b[j].kind = "snapshot" /\ b[j].on = b[k].on
                                  /\ \A m \in j + 1 .. k - 1 : b[m].kind = "size"
      BY <3>3 DEF Shot
    <3>5. n + j \in 1 .. i - 1 /\ l[n + j] = b[j]
      <4>1. k \in Nat /\ j \in 1 .. k - 1
        OBVIOUS
      <4>2. j \in 1 .. Len(b) /\ n + j \in 1 .. i - 1
        BY <1>1, <3>1, <4>1, ShiftIn
      <4>3. l[n + j] = b[j]
        <5>1. \A m \in 1 .. Len(b) : l[n + m] = b[m]
          BY <1>1, Zenon
        <5> QED
          BY <4>2, <5>1, Zenon
      <4> QED
        BY <4>2, <4>3, Zenon
    <3>6. ASSUME NEW m \in n + j + 1 .. i - 1 PROVE l[m].kind = "size"
      <4>1. m - n \in j + 1 .. k - 1 /\ m - n \in 1 .. Len(b) /\ m = n + (m - n)
        BY <1>1, <3>1, <3>4
      <4>2. l[m] = b[m - n]
        BY <1>1, <4>1
      <4> QED
        BY <3>4, <4>1, <4>2
    <3> QED
      BY <3>2, <3>4, <3>5, <3>6 DEF Shot
  <2> QED
    BY <1>1, <2>1, <2>2
<1> QED
  BY <1>2 DEF Prepared, l

LEMMA TailPrepared ==
    ASSUME NEW l \in Seq(Ops), l # <<>>, NEW t, Prepared(l, t)
    PROVE  /\ Head(l).kind = "walk" /\ Locked(Head(l).on) => Head(l).on = t
           /\ Head(l).kind = "snapshot" => Prepared(Tail(l), Head(l).on)
           /\ Head(l).kind = "size" => Prepared(Tail(l), t)
           /\ Head(l).kind = "walk" => Prepared(Tail(l), none)
<1> DEFINE r == Tail(l)
<1>1. /\ Head(l) = l[1] /\ r \in Seq(Ops) /\ Len(l) \in Nat \ {0} /\ Len(r) = Len(l) - 1
      /\ DOMAIN l = 1 .. Len(l) /\ DOMAIN r = 1 .. Len(r)
      /\ \A i \in DOMAIN r : i + 1 \in DOMAIN l /\ r[i] = l[i + 1]
  BY HeadOf
<1> HIDE DEF r
<1>2. ASSUME l[1].kind = "walk", Locked(l[1].on) PROVE l[1].on = t
  <2>1. 1 \in DOMAIN l /\ ~Shot(l, 1)
    BY <1>1 DEF Shot
  <2> QED
    BY <1>2, <2>1 DEF Prepared
<1> DEFINE Shown(i, u) == Shot(r, i) \/ (r[i].on = u /\ \A m \in 1 .. i - 1 : r[m].kind = "size")
<1>3. ASSUME NEW i \in DOMAIN r, r[i].kind = "walk", Locked(r[i].on)
      PROVE  /\ l[1].kind = "snapshot" => Shown(i, l[1].on)
             /\ l[1].kind = "size" => Shown(i, t)
             /\ l[1].kind = "walk" => Shown(i, none)
  <2>1. i \in Nat \ {0} /\ r[i] = l[i + 1] /\ i + 1 \in DOMAIN l
    BY <1>1
  <2>2. Shot(l, i + 1) \/ (l[i + 1].on = t /\ \A m \in 1 .. i : l[m].kind = "size")
    BY <1>3, <2>1 DEF Prepared
  <2>3. ASSUME NEW m \in 1 .. i PROVE r[m] = l[m + 1]
    BY <1>1, <2>1
  <2>4. ASSUME Shot(l, i + 1)
        PROVE  Shot(r, i) \/ (l[1].kind = "snapshot" /\ l[1].on = r[i].on /\ \A m \in 1 .. i - 1 : r[m].kind = "size")
    <3>1. PICK j \in 1 .. i : /\ l[j].kind = "snapshot" /\ l[j].on = l[i + 1].on
                              /\ \A m \in j + 1 .. i : l[m].kind = "size"
      BY <2>1, <2>4 DEF Shot
    <3>2. CASE j = 1
      <4>1. \A m \in 1 .. i - 1 : r[m] = l[m + 1] /\ m + 1 \in j + 1 .. i
        BY <2>1, <2>3, <3>2
      <4>2. \A m \in 1 .. i - 1 : r[m].kind = "size"
        BY <3>1, <4>1, Zenon
      <4>3. l[1].kind = "snapshot" /\ l[1].on = r[i].on
        BY <2>1, <3>1, <3>2, Zenon
      <4> QED
        BY <4>2, <4>3
    <3>3. CASE j > 1
      <4>1. j - 1 \in 1 .. i - 1 /\ r[j - 1] = l[j]
        <5>1. j - 1 \in 1 .. i /\ (j - 1) + 1 = j
          BY <2>1, <3>1, <3>3
        <5> QED
          BY <2>1, <2>3, <5>1
      <4>2. \A m \in j .. i - 1 : r[m] = l[m + 1] /\ m + 1 \in j + 1 .. i
        BY <2>1, <2>3, <3>1
      <4>3. (j - 1) + 1 = j
        BY <3>1
      <4>4. r[j - 1].kind = "snapshot" /\ r[j - 1].on = r[i].on
        BY <2>1, <3>1, <4>1, Zenon
      <4>5. \A m \in (j - 1) + 1 .. i - 1 : r[m].kind = "size"
        BY <3>1, <4>2, <4>3, Zenon
      <4> QED
        BY <4>1, <4>4, <4>5, Zenon DEF Shot
    <3> QED
      BY <3>1, <3>2, <3>3
  <2>5. ASSUME l[i + 1].on = t, \A m \in 1 .. i : l[m].kind = "size"
        PROVE  l[1].kind = "size" /\ r[i].on = t /\ \A m \in 1 .. i - 1 : r[m].kind = "size"
    <3>1. 1 \in 1 .. i /\ \A m \in 1 .. i - 1 : r[m] = l[m + 1] /\ m + 1 \in 1 .. i
      BY <2>1, <2>3
    <3> QED
      BY <2>1, <2>5, <3>1
  <2> QED
    BY <2>2, <2>4, <2>5
<1>4. /\ l[1].kind = "snapshot" => Prepared(r, l[1].on)
      /\ l[1].kind = "size" => Prepared(r, t)
      /\ l[1].kind = "walk" => Prepared(r, none)
  BY <1>3 DEF Prepared
<1> QED
  BY <1>1, <1>2, <1>4 DEF r

\* Walks and sizes, by themselves.
LEMMA WalkTrip ==
    ASSUME NEW q \in Requests, NEW s \in Sets, NEW o \in Consultable, Leg(q, s, o)
    PROVE  LET l == Walk(s, o) IN
           l \in Seq(Ops) /\ Onward(q, l) /\ Coming(l, s, o) /\ Prepared(l, none)
<1> DEFINE a == Op("snapshot", s, none, 1, {})  b == Op("walk", s, o, 1, {})
<1>0. a \in Ops /\ b \in Ops
  BY MeasureOps, AllowedType DEF Consultable
<1>1. a.kind = "snapshot" /\ a.on = s /\ b.kind = "walk" /\ b.on = s /\ b.other = o
  BY DEF Op
<1>2. Walk(s, o) = IF Locked(s) THEN <<a, b>> ELSE <<b>>
  BY DEF Walk
<1> HIDE DEF a, b
<1>3. CASE Locked(s)
  <2>1. /\ <<a, b>> \in Seq(Ops) /\ DOMAIN <<a, b>> = {1, 2} /\ <<a, b>>[1] = a /\ <<a, b>>[2] = b
    BY <1>0
  <2>2. Onward(q, <<a, b>>) /\ Coming(<<a, b>>, s, o)
    <3>1. Measure(q, a)
      BY <1>1 DEF Leg, Measure, Measuring
    <3> QED
      BY <1>1, <2>1, <3>1 DEF Onward, Coming
  <2>3. Shot(<<a, b>>, 2)
    <3>1. 1 \in 1 .. 2 - 1 /\ 1 + 1 .. 2 - 1 = {}
      OBVIOUS
    <3> QED
      BY <1>1, <2>1, <3>1 DEF Shot
  <2>4. Prepared(<<a, b>>, none)
    BY <1>1, <2>1, <2>3 DEF Prepared
  <2> QED
    BY <1>2, <1>3, <2>1, <2>2, <2>4
<1>4. CASE ~Locked(s)
  <2>1. <<b>> \in Seq(Ops) /\ DOMAIN <<b>> = {1} /\ <<b>>[1] = b
    BY <1>0
  <2>2. Onward(q, <<b>>) /\ Coming(<<b>>, s, o) /\ Prepared(<<b>>, none)
    BY <1>1, <1>4, <2>1 DEF Onward, Coming, Prepared
  <2> QED
    BY <1>2, <1>4, <2>1, <2>2
<1> QED
  BY <1>3, <1>4

LEMMA SizeTrip ==
    ASSUME NEW q \in Requests, NEW s \in Sets, q.kind = "removeFunc" => s = q.on
    PROVE  LET l == SizeOf(s) IN l \in Seq(Ops) /\ Onward(q, l) /\ Prepared(l, none)
<1> DEFINE a == Op("size", s, none, 1, {})
<1>1. a \in Ops /\ a.kind = "size" /\ a.on = s
  BY MeasureOps, AllowedType DEF Op
<1>2. SizeOf(s) = <<a>>
  BY DEF SizeOf
<1> HIDE DEF a
<1>3. <<a>> \in Seq(Ops) /\ DOMAIN <<a>> = {1} /\ <<a>>[1] = a
  BY <1>1
<1> QED
  BY <1>1, <1>2, <1>3 DEF Onward, Prepared, Measure, Measuring

\* The methods that ask have the walks of Leg to make, and make them.
Trip(q, l) ==
    /\ l \in Seq(Ops) /\ Onward(q, l) /\ Prepared(l, none)
    /\ \A s \in Sets, o \in Consultable : Leg(q, s, o) => Coming(l, s, o)

LEMMA CombineTrip ==
    ASSUME NEW q \in Requests, q.kind \in Algebra \cup (Relations \ Sized)
    PROVE  Trip(q, Combine(q))
<1>q. q.on \in Sets /\ q.other \in Sets /\ q.on \in Consultable /\ q.other \in Consultable /\ none \in Consultable /\ "itself" \in Consultable
  BY RequestIs DEF Consultable
<1>1. CASE q.kind = "union"
  <2>1. Combine(q) = Walk(q.on, none) \o Walk(q.other, none)
    BY <1>1 DEF Combine
  <2>2. Leg(q, q.on, none) /\ Leg(q, q.other, none)
    BY <1>1 DEF Leg
  <2>3. \A s \in Sets, o \in Consultable : Leg(q, s, o) => o = none /\ s \in {q.on, q.other}
    BY <1>1 DEF Leg
  <2>4. /\ Walk(q.on, none) \in Seq(Ops) /\ Onward(q, Walk(q.on, none)) /\ Coming(Walk(q.on, none), q.on, none)
        /\ Prepared(Walk(q.on, none), none)
        /\ Walk(q.other, none) \in Seq(Ops) /\ Onward(q, Walk(q.other, none))
        /\ Coming(Walk(q.other, none), q.other, none) /\ Prepared(Walk(q.other, none), none)
    BY <1>q, <2>2, WalkTrip
  <2> QED
    BY <2>1, <2>3, <2>4, JoinTrip, JoinPrepared DEF Trip
<1>2. CASE q.kind = "symmetricDifference"
  <2> DEFINE o == IF Locked(q.on) THEN "itself" ELSE q.on
             a == Walk(q.on, q.other)  b == Walk(q.other, o)
  <2>1. Combine(q) = a \o b
    BY <1>2 DEF Combine, Back
  <2>2. Leg(q, q.on, q.other) /\ Leg(q, q.other, o) /\ o \in Consultable
    BY <1>2, <1>q DEF Leg
  <2>3. \A s \in Sets, u \in Consultable : Leg(q, s, u) => (s = q.on /\ u = q.other) \/ (s = q.other /\ u = o)
    BY <1>2 DEF Leg
  <2> HIDE DEF o
  <2>4. /\ a \in Seq(Ops) /\ Onward(q, a) /\ Coming(a, q.on, q.other) /\ Prepared(a, none)
        /\ b \in Seq(Ops) /\ Onward(q, b) /\ Coming(b, q.other, o) /\ Prepared(b, none)
    BY <1>q, <2>2, WalkTrip
  <2> HIDE DEF a, b
  <2> QED
    BY <2>1, <2>3, <2>4, JoinTrip, JoinPrepared DEF Trip
<1>3. CASE q.kind = "isSupersetOf"
  <2>1. Combine(q) = Walk(q.other, q.on)
    BY <1>3 DEF Combine
  <2>2. \A s, o : Leg(q, s, o) <=> s = q.other /\ o = q.on
    BY <1>3 DEF Leg
  <2> QED
    BY <1>q, <2>1, <2>2, WalkTrip DEF Trip
<1>4. CASE q.kind \notin {"union", "symmetricDifference", "isSupersetOf"}
  <2>1. Combine(q) = Walk(q.on, q.other)
    BY <1>4 DEF Combine
  <2>2. q.kind \in Asking /\ q.kind # "isProperSupersetOf"
    BY <1>4 DEF Asking, Relations, Algebra, Sized
  <2>3. \A s, o : Leg(q, s, o) <=> s = q.on /\ o = q.other
    BY <1>4, <2>2 DEF Leg
  <2> QED
    BY <1>q, <2>1, <2>3, WalkTrip DEF Trip
<1> QED
  BY <1>1, <1>2, <1>3, <1>4

LEMMA CompareTrip ==
    ASSUME NEW q \in Requests, q.kind \in Sized
    PROVE  Trip(q, Compare(q))
<1>q. q.on \in Sets /\ q.other \in Sets /\ q.on \in Consultable /\ q.other \in Consultable
  BY RequestIs DEF Consultable
<1>1. CASE q.kind = "equals" /\ Locked(q.on)
  <2> DEFINE a == Op("snapshot", q.on, none, 1, {})  b == Op("walk", q.on, q.other, 1, {})
             c == Op("size", q.other, none, 1, {})
  <2>1. a \in Ops /\ b \in Ops /\ c \in Ops
    BY <1>q, MeasureOps, AllowedType
  <2>2. a.kind = "snapshot" /\ a.on = q.on /\ b.kind = "walk" /\ b.on = q.on /\ b.other = q.other /\ c.kind = "size"
    BY DEF Op
  <2>3. Walk(q.on, q.other) = <<a, b>> /\ SizeOf(q.other) = <<c>>
    BY <1>1 DEF Walk, SizeOf
  <2> HIDE DEF a, b, c
  <2>4. Compare(q) = <<<<a, b>>[1]>> \o <<c>> \o <<<<a, b>>[2]>>
    BY <1>1, <2>3 DEF Compare
  <2> DEFINE l == <<a>> \o <<c>> \o <<b>>
  <2>5. Compare(q) = l
    <3>1. <<a, b>>[1] = a /\ <<a, b>>[2] = b
      OBVIOUS
    <3> QED
      BY <2>4, <3>1
  <2>6. l \in Seq(Ops) /\ Len(l) = 3 /\ l[1] = a /\ l[2] = c /\ l[3] = b
    BY <2>1, ThreeInARow
  <2> HIDE DEF l
  <2>7. DOMAIN l = {1, 2, 3}
    BY <2>6
  <2>8. \A s, o : Leg(q, s, o) <=> s = q.on /\ o = q.other
    BY <1>1 DEF Leg, Asking, Relations, Sized
  <2>9. Onward(q, l) /\ Coming(l, q.on, q.other)
    <3>1. Measure(q, a) /\ Measure(q, c)
      BY <1>1, <2>2 DEF Measure, Measuring
    <3> QED
      BY <2>2, <2>6, <2>7, <2>8, <3>1 DEF Onward, Coming
  <2>10. Shot(l, 3)
    <3>1. 1 \in 1 .. 3 - 1 /\ 1 + 1 .. 3 - 1 = {2}
      OBVIOUS
    <3> QED
      BY <2>2, <2>6, <3>1 DEF Shot
  <2>11. Prepared(l, none)
    BY <2>2, <2>6, <2>7, <2>10 DEF Prepared
  <2> QED
    BY <2>5, <2>6, <2>8, <2>9, <2>11 DEF Trip
<1>2. CASE ~(q.kind = "equals" /\ Locked(q.on))
  <2> DEFINE sizing == SizeOf(q.on) \o SizeOf(q.other)
  <2>1. PICK s, o \in {q.on, q.other} : Compare(q) = sizing \o Walk(s, o) /\ \A x, y : Leg(q, x, y) <=> x = s /\ y = o
    <3>1. CASE q.kind = "isProperSupersetOf"
      <4>1. Compare(q) = sizing \o Walk(q.other, q.on)
        BY <3>1 DEF Compare
      <4>2. \A x, y : Leg(q, x, y) <=> x = q.other /\ y = q.on
        BY <3>1 DEF Leg
      <4> QED
        BY <4>1, <4>2
    <3>2. CASE q.kind # "isProperSupersetOf"
      <4>1. Compare(q) = sizing \o Walk(q.on, q.other)
        BY <1>2, <3>2 DEF Compare
      <4>2. \A x, y : Leg(q, x, y) <=> x = q.on /\ y = q.other
        BY <3>2 DEF Leg, Asking, Relations, Sized
      <4> QED
        BY <4>1, <4>2
    <3> QED
      BY <3>1, <3>2
  <2>2. Walk(s, o) \in Seq(Ops) /\ Onward(q, Walk(s, o)) /\ Coming(Walk(s, o), s, o) /\ Prepared(Walk(s, o), none)
    BY <1>q, <2>1, WalkTrip
  <2>3. /\ SizeOf(q.on) \in Seq(Ops) /\ Onward(q, SizeOf(q.on)) /\ Prepared(SizeOf(q.on), none)
        /\ SizeOf(q.other) \in Seq(Ops) /\ Onward(q, SizeOf(q.other)) /\ Prepared(SizeOf(q.other), none)
    BY <1>q, SizeTrip DEF Sized
  <2> DEFINE a == SizeOf(q.on) \o SizeOf(q.other)
  <2>4. a \in Seq(Ops) /\ Onward(q, a) /\ Prepared(a, none)
    BY <2>3, JoinTrip, JoinPrepared
  <2> HIDE DEF a
  <2>5. a \o Walk(s, o) \in Seq(Ops) /\ Onward(q, a \o Walk(s, o)) /\ Coming(a \o Walk(s, o), s, o) /\ Prepared(a \o Walk(s, o), none)
    BY <2>2, <2>4, JoinTrip, JoinPrepared
  <2>6. Compare(q) = a \o Walk(s, o)
    BY <2>1 DEF a
  <2> QED
    BY <2>1, <2>5, <2>6 DEF Trip
<1> QED
  BY <1>1, <1>2

LEMMA CourseTrip ==
    ASSUME NEW q \in Requests, Walker(q), NEW l \in Plans(q)
    PROVE  /\ Trip(q, l)
           /\ q.kind = "symmetricDifference" => l = Combine(q)
           /\ q.kind \in Sized => l = Compare(q)
<1>0. ~AtOnce(q)
  <2>1. CASE q.kind \in Asking \cup {"scan", "removeFunc"}
    BY <2>1 DEF AtOnce, Asking, Algebra, Relations, Sized, Points
  <2>2. CASE q.kind \in Chooses /\ ~Locked(q.on)
    BY <2>2 DEF AtOnce, Chooses, Pops, Navigations, Points
  <2>3. CASE q.kind = "clear" /\ impl[q.on] = "skip"
    BY <2>3 DEF AtOnce, Locked, Points
  <2> QED
    BY <2>1, <2>2, <2>3 DEF Walker
<1>1. CASE q.kind \in Algebra \cup (Relations \ Sized)
  <2>1. l = Combine(q) /\ q.kind \notin Sized
    BY <1>0, <1>1 DEF Plans, Algebra, Relations, Sized
  <2> QED
    BY <1>1, <2>1, CombineTrip, Zenon
<1>2. CASE q.kind \in Sized
  <2>1. l = Compare(q) /\ q.kind # "symmetricDifference"
    BY <1>0, <1>2 DEF Plans, Algebra, Relations, Sized
  <2> QED
    BY <1>2, <2>1, CompareTrip
<1>3. CASE q.kind \notin Asking
  <2>q. q.on \in Sets /\ none \in Consultable
    BY RequestIs DEF Consultable
  <2>0. \A s, o : Leg(q, s, o) <=> s = q.on /\ o = none
    BY <1>3 DEF Leg, Asking, Algebra, Relations, Sized
  <2>1. Walk(q.on, none) \in Seq(Ops) /\ Onward(q, Walk(q.on, none)) /\ Coming(Walk(q.on, none), q.on, none)
        /\ Prepared(Walk(q.on, none), none)
    BY <2>q, <2>0, WalkTrip
  <2>2. CASE q.kind = "removeFunc" /\ ~Locked(q.on)
    <3>1. l = SizeOf(q.on) \o Walk(q.on, none)
      BY <1>0, <2>2 DEF Plans, Algebra, Relations, Sized
    <3>2. /\ SizeOf(q.on) \in Seq(Ops) /\ Onward(q, SizeOf(q.on)) /\ Prepared(SizeOf(q.on), none)
      BY <2>q, SizeTrip
    <3>3. LET t == SizeOf(q.on) \o Walk(q.on, none) IN
          t \in Seq(Ops) /\ Onward(q, t) /\ Prepared(t, none) /\ Coming(t, q.on, none)
      BY <2>1, <3>2, JoinTrip, JoinPrepared
    <3>4. Trip(q, SizeOf(q.on) \o Walk(q.on, none))
      BY <2>0, <3>3 DEF Trip
    <3>5. q.kind \notin Sized /\ q.kind # "symmetricDifference"
      BY <2>2 DEF Sized
    <3> QED
      BY <3>1, <3>4, <3>5, Zenon
  <2>3. CASE ~(q.kind = "removeFunc" /\ ~Locked(q.on))
    <3>1. q.kind \notin {"addAll", "removeAll", "containsAll", "refill"}
      <4>1. q.kind \in {"scan", "removeFunc", "clear"} \/ q.kind \in Chooses
        BY <1>3 DEF Walker
      <4> QED
        BY <4>1 DEF Chooses, Pops, Navigations
    <3>2. l = Walk(q.on, none)
      BY <1>0, <1>3, <2>3, <3>1 DEF Plans, Asking, Relations
    <3>3. Trip(q, Walk(q.on, none))
      BY <2>0, <2>1 DEF Trip
    <3> QED
      BY <1>3, <3>2, <3>3 DEF Asking, Algebra, Relations
  <2> QED
    BY <2>2, <2>3
<1> QED
  BY <1>1, <1>2, <1>3 DEF Asking

HIDE ElemAssumption
HIDE SetAssumption
HIDE MenuAssumption

-----------------------------------------------------------------------------
(* How the history of a call goes on.                                      *)

Acts(r) == Call(r) \/ Step(r) \/ Panic(r)

\* A step while p's call is running.
Ages(p) ==
    /\ p \in Procs /\ call[p] \in Requests /\ pc[p] # "idle" /\ pc'[p] # "idle"
    /\ impl' = impl /\ call'[p] = call[p]
    /\ content \in [Sets -> SUBSET Elems] /\ content' \in [Sets -> SUBSET Elems]
    /\ kept'[p] = [s \in Sets |-> kept[p][s] \cap content'[s]]
    /\ had'[p] = [s \in Sets |-> had[p][s] \cup content'[s]]
    /\ alone'[p] = (alone[p] /\ Undisturbed(p)')
\* It changes no set.
Stays(p) ==
    /\ p \in Procs /\ call[p] \in Requests /\ pc[p] # "idle" /\ pc'[p] # "idle"
    /\ impl' = impl /\ call'[p] = call[p] /\ content' = content
    /\ kept'[p] = kept[p] /\ had'[p] = had[p] /\ alone'[p] = alone[p]

LEMMA CallKept ==
    ASSUME IInv, NEW r \in Procs, Acts(r), pc[r] # "idle", pc'[r] # "idle"
    PROVE  call'[r] = call[r]
<1>0. Shape
  BY DEF IInv
<1>1. ~Call(r) /\ ~Return(r)
  BY <1>0, ReturnFacts, CallFacts
<1>2. CASE Proceed(r) \/ Act(r) \/ Asks(r) \/ Enters(r) \/ Leaves(r) \/ Visit(r)
  BY <1>0, <1>2, ProceedFacts, HappensFacts, AsksFacts, EntersFacts, VisitFacts DEF Moves, Act, Leaves
<1>3. CASE NextBucket(r) \/ WalkEnds(r) \/ Continue(r) \/ Conclude(r) \/ Learns(r)
  BY <1>0, <1>3, NextBucketFacts, WalkEndsFacts, ContinueFacts, ConcludeFacts, LearnsFacts DEF Moves
<1>4. CASE Consulted(r) \/ Popped(r) \/ Resume(r) \/ Finish(r) \/ Panic(r)
  BY <1>0, <1>4, ConsultedFacts, PoppedFacts, ResumeFacts, FinishFacts, PanicFacts DEF Moves
<1> QED
  BY <1>1, <1>2, <1>3, <1>4 DEF Acts, Step

LEMMA NextAges ==
    ASSUME IInv, IInv', NEW r \in Procs, Acts(r), NEW p \in Procs,
           pc[p] # "idle", pc'[p] # "idle",
           kept' = [q \in Procs |-> Since(q, Nothing, content', [s \in Sets |-> kept[q][s] \cap content'[s]])],
           had' = [q \in Procs |-> Since(q, Nothing, content', [s \in Sets |-> had[q][s] \cup content'[s]])],
           alone' = [q \in Procs |-> Since(q, TRUE, Undisturbed(q)', alone[q] /\ Undisturbed(q)')]
    PROVE  Ages(p)
<1>1. impl' = impl /\ (p # r => call'[p] = call[p])
  BY StepApart DEF Acts, Apart, Same
<1>2. call'[p] = call[p]
  BY <1>1, CallKept
<1>3. call[p] \in Requests /\ content \in [Sets -> SUBSET Elems]
  BY DEF IInv, Labelled, Shape
<1>4. content' \in [Sets -> SUBSET Elems]
  BY DEF IInv, Shape
<1>5. /\ kept'[p] = [s \in Sets |-> kept[p][s] \cap content'[s]]
      /\ had'[p] = [s \in Sets |-> had[p][s] \cup content'[s]]
      /\ alone'[p] = (alone[p] /\ Undisturbed(p)')
  BY DEF Since
<1> QED
  BY <1>1, <1>2, <1>3, <1>4, <1>5 DEF Ages

LEMMA Bounds ==
    ASSUME NEW p, Ages(p), History(p), NEW s \in Sets
    PROVE  /\ kept'[p][s] = kept[p][s] \cap content'[s] /\ had'[p][s] = had[p][s] \cup content'[s]
           /\ kept'[p][s] \subseteq kept[p][s] /\ had[p][s] \subseteq had'[p][s]
           /\ kept'[p][s] \subseteq content'[s] /\ content'[s] \subseteq had'[p][s]
           /\ kept[p][s] \subseteq content[s] /\ content[s] \subseteq had[p][s]
           /\ kept[p][s] \subseteq Elems /\ had[p][s] \subseteq Elems /\ had'[p][s] \subseteq Elems
  BY DEF Ages, History

\* Nothing is added to the history, or taken from it, while no set changes.
LEMMA QuietAges ==
    ASSUME NEW p \in Procs, NEW r \in Procs, Apart(r), content' = content, Ages(p), History(p)
    PROVE  /\ kept'[p] = kept[p] /\ had'[p] = had[p]
           /\ p = r => Stays(p)
<1>1. kept'[p] = kept[p]
  <2>1. \A s \in Sets : kept[p][s] \cap content'[s] = kept[p][s]
    BY Bounds DEF Ages
  <2>2. kept[p] = [s \in Sets |-> kept[p][s]]
    BY DEF History
  <2>3. kept'[p] = [s \in Sets |-> kept[p][s] \cap content'[s]]
    BY DEF Ages
  <2> QED
    BY <2>1, <2>2, <2>3
<1>2. had'[p] = had[p]
  <2>1. \A s \in Sets : had[p][s] \cup content'[s] = had[p][s]
    BY Bounds DEF Ages
  <2>2. had[p] = [s \in Sets |-> had[p][s]]
    BY DEF History
  <2>3. had'[p] = [s \in Sets |-> had[p][s] \cup content'[s]]
    BY DEF Ages
  <2> QED
    BY <2>1, <2>2, <2>3
<1>3. ASSUME p = r PROVE Stays(p)
  <2>1. \A q \in Procs \ {p} : pc'[q] = pc[q] /\ call'[q] = call[q]
    BY <1>3 DEF Apart, Same
  <2>2. alone[p] => Undisturbed(p)'
    BY <2>1 DEF History, Undisturbed
  <2>3. alone'[p] = alone[p]
    <3>1. alone[p] \in BOOLEAN /\ alone'[p] = (alone[p] /\ Undisturbed(p)')
      BY DEF History, Ages
    <3>2. CASE alone[p] = TRUE
      BY <2>2, <3>1, <3>2, Zenon
    <3>3. CASE alone[p] = FALSE
      BY <3>1, <3>3, Zenon
    <3> QED
      BY <3>1, <3>2, <3>3, Zenon
  <2> QED
    BY <1>1, <1>2, <2>3 DEF Ages, Stays
<1> QED
  BY <1>1, <1>2, <1>3

\* Only the update of a call changes a set.
LEMMA UpdatesOnly ==
    ASSUME IInv, NEW r \in Procs, Acts(r), content' # content
    PROVE  (Act(r) \/ Leaves(r)) /\ Happens(r) /\ pc[r] \in Operating /\ call[r].kind \in Updates
<1>0. Shape
  BY DEF IInv
<1>1. Act(r) \/ Leaves(r)
  <2>1. CASE Call(r) \/ Proceed(r) \/ Asks(r) \/ Enters(r) \/ Visit(r) \/ NextBucket(r)
    BY <1>0, <2>1, CallFacts, ProceedFacts, AsksFacts, EntersFacts, VisitFacts, NextBucketFacts DEF Moves, Private
  <2>2. CASE WalkEnds(r) \/ Continue(r) \/ Conclude(r) \/ Learns(r) \/ Consulted(r) \/ Popped(r)
    BY <1>0, <2>2, WalkEndsFacts, ContinueFacts, ConcludeFacts, LearnsFacts, ConsultedFacts, PoppedFacts DEF Moves, Private
  <2>3. CASE Resume(r) \/ Finish(r) \/ Return(r) \/ Panic(r)
    BY <1>0, <2>3, ResumeFacts, FinishFacts, ReturnFacts, PanicFacts DEF Moves, Private
  <2> QED
    BY <2>1, <2>2, <2>3 DEF Acts, Step
<1>2. Happens(r) /\ pc[r] \in Operating
  BY <1>1 DEF Act, Leaves, Operating
<1>3. PICK e \in Outcomes(r, op[r]) : content' = [content EXCEPT ![op[r].on] = e.S]
  BY <1>0, <1>2, HappensFacts
<1>4. op[r] \in Ops /\ op[r].kind \in EffectKinds /\ (call[r].kind \notin Updates => op[r].kind \notin Updates)
  BY <1>2 DEF IInv, Labelled
<1>5. op[r].on \in Sets /\ (op[r].kind \notin Updates => e.S = content[op[r].on])
  BY <1>0, <1>4, OutcomeType
<1>6. op[r].kind \in Updates
  <2>1. content \in [Sets -> SUBSET Elems]
    BY <1>0 DEF Shape
  <2> QED
    BY <1>3, <1>5, <2>1
<1> QED
  BY <1>1, <1>2, <1>4, <1>6

LEMMA HistoryStays ==
    ASSUME IInv, NEW r \in Procs, Acts(r), NEW p \in Procs, Ages(p), History(p)
    PROVE  History(p)'
<1>1. kept'[p] \in [Sets -> SUBSET Elems] /\ had'[p] \in [Sets -> SUBSET Elems]
  <2>1. \A s \in Sets : kept[p][s] \cap content'[s] \in SUBSET Elems /\ had[p][s] \cup content'[s] \in SUBSET Elems
    <3>1. ASSUME NEW s \in Sets
          PROVE  kept[p][s] \cap content'[s] \subseteq Elems /\ had[p][s] \cup content'[s] \subseteq Elems
      <4>1. kept[p][s] \subseteq Elems /\ had[p][s] \subseteq Elems /\ content'[s] \in SUBSET Elems
        BY Bounds DEF Ages
      <4> QED
        BY <4>1
    <3> QED
      BY <3>1
  <2> QED
    BY <2>1 DEF Ages
<1>2. alone'[p] \in BOOLEAN /\ (alone'[p] => alone[p] /\ Undisturbed(p)')
  BY Zenon DEF Ages
<1>3. \A s \in Sets : kept'[p][s] \subseteq content'[s] /\ content'[s] \subseteq had'[p][s]
  BY Bounds
<1>4. ASSUME alone'[p], call[p].kind \notin Updates
      PROVE  \A s \in Sets : kept'[p][s] = content'[s] /\ had'[p][s] = content'[s]
  <2>1. content' = content
    <3>1. CASE r = p
      BY <1>4, <3>1, UpdatesOnly
    <3>2. CASE r # p
      <4>1. Undisturbed(p)
        BY <1>2, <1>4 DEF History
      <4>2. pc[r] \in Operating => call[r].kind \notin Updates
        BY <3>2, <4>1 DEF Undisturbed, Operating
      <4> QED
        BY <4>2, UpdatesOnly
    <3> QED
      BY <3>1, <3>2
  <2>2. \A s \in Sets : kept[p][s] = content[s] /\ had[p][s] = content[s]
    BY <1>2, <1>4 DEF History
  <2>3. ASSUME NEW s \in Sets PROVE kept'[p][s] = content'[s] /\ had'[p][s] = content'[s]
    <3>1. kept'[p][s] = kept[p][s] \cap content'[s] /\ had'[p][s] = had[p][s] \cup content'[s]
      BY Bounds
    <3>2. kept[p][s] = content'[s] /\ had[p][s] = content'[s]
      BY <2>1, <2>2
    <3> QED
      BY <3>1, <3>2
  <2> QED
    BY <2>3
<1>5. call'[p] = call[p]
  BY DEF Ages
<1> QED
  BY <1>1, <1>2, <1>3, <1>4, <1>5, Zenon DEF History

-----------------------------------------------------------------------------
(* What a call has found out stays true.                                   *)

LEMMA MeantSet ==
    ASSUME NEW p, Ages(p), NEW o \in Consultable, o # none
    PROVE  (IF o = "itself" THEN call[p].on ELSE o) \in Sets
  BY SetAssumption DEF Consultable, Ages, Requests, Ops

LEMMA MayStays ==
    ASSUME NEW p, Ages(p), History(p), NEW o \in Consultable, NEW e, NEW found, May(p, o, e, found)
    PROVE  May(p, o, e, found)'
<1>1. CASE o = none
  BY <1>1 DEF May
<1>2. CASE o # none
  <2> DEFINE t == IF o = "itself" THEN call[p].on ELSE o
  <2>1. t \in Sets /\ call'[p] = call[p]
    BY <1>2, MeantSet DEF Ages
  <2>2. May(p, o, e, found) = IF found THEN e \in had[p][t] ELSE e \notin kept[p][t]
    BY <1>2 DEF May
  <2>3. May(p, o, e, found)' = IF found THEN e \in had'[p][t] ELSE e \notin kept'[p][t]
    BY <1>2, <2>1 DEF May
  <2> HIDE DEF t
  <2>4. kept'[p][t] \subseteq kept[p][t] /\ had[p][t] \subseteq had'[p][t]
    BY <2>1, Bounds
  <2> QED
    BY <2>2, <2>3, <2>4
<1> QED
  BY <1>1, <1>2

\* What is in out may only be added to.
LEMMA JudgedStays ==
    ASSUME NEW p, Ages(p), History(p), out[p] \subseteq out'[p],
           NEW o \in Consultable, NEW e, Judged(p, o, e)
    PROVE  Judged(p, o, e)'
<1>0. call'[p] = call[p] /\ impl' = impl
  BY DEF Ages
<1>1. CASE \E found \in BOOLEAN : May(p, o, e, found) /\ ~Collects(call[p], e, found)
  <2>1. PICK found \in BOOLEAN : May(p, o, e, found) /\ ~Collects(call[p], e, found)
    BY <1>1
  <2>2. May(p, o, e, found)' /\ ~Collects(call'[p], e, found)
    BY <1>0, <2>1, MayStays
  <2> QED
    BY <2>2, Zenon DEF Judged
<1>2. CASE ~\E found \in BOOLEAN : May(p, o, e, found) /\ ~Collects(call[p], e, found)
  BY <1>0, <1>2 DEF Judged, Beats
<1> QED
  BY <1>1, <1>2

LEMMA SoundStays ==
    ASSUME NEW p, Ages(p), History(p), NEW e, Sound(p, e)
    PROVE  Sound(p, e)'
<1>1. PICK s \in Sets, o \in Consultable, found \in BOOLEAN :
         Leg(call[p], s, o) /\ e \in had[p][s] /\ May(p, o, e, found) /\ Collects(call[p], e, found)
  BY DEF Sound
<1>2. May(p, o, e, found)' /\ e \in had'[p][s]
  BY <1>1, MayStays, Bounds
<1>3. call'[p] = call[p] /\ Leg(call[p], s, o)' = Leg(call[p], s, o)
  BY DEF Ages, Leg, Locked
<1>4. Leg(call[p], s, o)' /\ Collects(call[p], e, found)'
  BY <1>1, <1>3 DEF Ages
<1> QED
  BY <1>2, <1>4, Zenon DEF Sound

LEMMA BehindStays ==
    ASSUME NEW p, Ages(p), History(p), out[p] \subseteq out'[p],
           NEW s \in Sets, NEW o \in Consultable, Behind(p, s, o)
    PROVE  Behind(p, s, o)'
  BY JudgedStays, Bounds DEF Behind

LEMMA SpannedStays ==
    ASSUME NEW p, Ages(p), History(p), NEW s \in Sets, NEW S, Spanned(p, s, S)
    PROVE  Spanned(p, s, S)'
  BY Bounds DEF Spanned

LEMMA LegStays ==
    ASSUME NEW p, Ages(p), NEW s, NEW o
    PROVE  /\ Leg(call[p], s, o)' <=> Leg(call[p], s, o)
           /\ Locked(s)' <=> Locked(s)
           /\ Walker(call[p])' <=> Walker(call[p])
           /\ Combine(call[p])' = Combine(call[p]) /\ Compare(call[p])' = Compare(call[p])
<1>1. \A x : Locked(x)' <=> Locked(x)
  BY DEF Ages, Locked
<1>2. Leg(call[p], s, o)' <=> Leg(call[p], s, o)
  BY <1>1 DEF Ages, Leg
<1>3. Walker(call[p])' <=> Walker(call[p])
  BY <1>1 DEF Ages, Walker
<1>4. impl' = impl /\ call'[p] = call[p]
  BY DEF Ages
<1>5. Combine(call[p])' = Combine(call[p]) /\ Compare(call[p])' = Compare(call[p])
  BY <1>4, Zenon DEF Combine, Compare, Walk, SizeOf, Back, Locked
<1> QED
  BY <1>1, <1>2, <1>3, <1>5

-----------------------------------------------------------------------------
(* While others act, and when its own operation happens, a call only loses *)
(* elements it need not care about any more.                               *)

Frame(p) ==
    /\ Ages(p) /\ History(p) /\ History(p)' /\ Unmoved(p)
    /\ op'[p] = op[p] /\ plan'[p] = plan[p] /\ snap'[p] = snap[p] /\ sizes'[p] = sizes[p] /\ out'[p] = out[p]
    /\ pc[p] = "next" <=> pc'[p] = "next"
    /\ pc[p] = "walked" <=> pc'[p] = "walked"
    /\ pc[p] \in Operating <=> pc'[p] \in Operating
    /\ pc[p] = "told" <=> pc'[p] = "told"

LEMMA FrameIs ==
    ASSUME NEW p, Frame(p)
    PROVE  /\ Ages(p) /\ History(p) /\ History(p)' /\ impl' = impl /\ call'[p] = call[p]
           /\ call[p] \in Requests /\ call[p].on \in Sets /\ call[p].other \in Sets
           /\ op'[p] = op[p] /\ plan'[p] = plan[p] /\ snap'[p] = snap[p] /\ sizes'[p] = sizes[p] /\ out'[p] = out[p]
           /\ walk'[p].on = walk[p].on /\ walk'[p].other = walk[p].other
           /\ walk'[p].left = walk[p].left /\ walk'[p].batch = walk[p].batch
           /\ walk'[p].at.pos = walk[p].at.pos
           /\ \A s \in Sets : kept'[p][s] \subseteq kept[p][s] /\ had[p][s] \subseteq had'[p][s]
           /\ \A s : Locked(s)' <=> Locked(s)
           /\ \A s, o : Leg(call[p], s, o)' <=> Leg(call[p], s, o)
<1>1. Ages(p) /\ History(p) /\ History(p)' /\ impl' = impl /\ call'[p] = call[p] /\ call[p] \in Requests
  BY DEF Frame, Ages
<1>2. call[p].on \in Sets /\ call[p].other \in Sets
  BY <1>1 DEF Requests, Ops
<1>3. \A s, o : Leg(call[p], s, o)' <=> Leg(call[p], s, o)
  BY <1>1, LegStays
<1>4. \A s : Locked(s)' <=> Locked(s)
  BY <1>1, LegStays
<1> QED
  BY <1>1, <1>2, <1>3, <1>4, Bounds DEF Frame, Unmoved

LEMMA OnwardOn ==
    ASSUME NEW p, Ages(p), plan'[p] = plan[p], Onward(call[p], plan[p])
    PROVE  Onward(call[p], plan[p])'
<1>1. \A s : Locked(s)' <=> Locked(s)
  BY DEF Ages, Locked
<1>2. call'[p] = call[p]
  BY DEF Ages
<1> QED
  BY <1>1, <1>2 DEF Onward, Leg, Measure

LEMMA ToursOn ==
    ASSUME NEW p, Frame(p), Toured(p)
    PROVE  Toured(p)'
<1>1. Onward(call[p], plan[p])'
  BY FrameIs, OnwardOn DEF Toured
<1>2. ASSUME NEW s \in Sets, NEW o \in Consultable, Leg(call[p], s, o)'
      PROVE  Ahead(p, s, o)' \/ Here(p, s, o)' \/ Behind(p, s, o)'
  <2>1. Ahead(p, s, o) \/ Here(p, s, o) \/ Behind(p, s, o)
    BY <1>2, FrameIs DEF Toured
  <2>2. Ahead(p, s, o) => Ahead(p, s, o)'
    BY FrameIs DEF Ahead, Coming
  <2>3. Here(p, s, o) => Here(p, s, o)'
    BY FrameIs DEF Here
  <2>4. Behind(p, s, o) => Behind(p, s, o)'
    BY FrameIs, BehindStays
  <2> QED
    BY <2>1, <2>2, <2>3, <2>4
<1>3. ASSUME call'[p].kind = "removeFunc", walk'[p].on = none PROVE Ahead(p, call[p].on, none)'
  <2>1. Ahead(p, call[p].on, none)
    BY <1>3, FrameIs DEF Toured
  <2> QED
    BY <2>1, FrameIs DEF Ahead, Coming
<1>4. ASSUME call'[p].kind \in Chooses
      PROVE  plan'[p] = <<>> \/ (walk'[p].on = none /\ plan'[p] = Walk(call[p].on, none)' /\ out'[p] = {})
  <2>1. \A s, o : Walk(s, o)' = Walk(s, o)
    BY FrameIs DEF Walk
  <2>2. Walk(call[p].on, none)' = Walk(call[p].on, none)
    BY <2>1, FrameIs
  <2> QED
    BY <1>4, <2>2, FrameIs DEF Toured
<1> QED
  BY <1>1, <1>2, <1>3, <1>4 DEF Toured

LEMMA JudgedHere ==
    ASSUME NEW p, Ages(p), History(p), out[p] \subseteq out'[p],
           walk[p].other \in Consultable, walk'[p].other = walk[p].other,
           NEW e, Judged(p, walk[p].other, e)
    PROVE  Judged(p, walk[p].other, e)'
<1>1. PICK o \in Consultable : o = walk[p].other
  OBVIOUS
<1>2. Judged(p, o, e)'
  BY <1>1, JudgedStays
<1>3. \A found : May(p, o, e, found)' => May(p, walk[p].other, e, found)'
  BY <1>1 DEF May
<1> QED
  BY <1>2, <1>3, Zenon DEF Judged

LEMMA StrollsOn ==
    ASSUME NEW p, Frame(p), Strolls(p), walk[p].on # none => walk[p].on \in Sets
    PROVE  Strolls(p)'
<1> DEFINE s == walk[p].on  w == walk[p]
<1>1. CASE s = none
  BY <1>1, FrameIs DEF Strolls
<1>2. CASE s # none
  <2>0. s \in Sets /\ Leg(call[p], s, w.other) /\ w.other \in Consultable
    <3>1. s \in Sets /\ Leg(call[p], s, w.other)
      BY <1>2 DEF Strolls, WalksOver
    <3> QED
      BY <3>1, LegIs, FrameIs
  <2>1. Telling(p)' <=> Telling(p)
    BY DEF Telling, Frame
  <2>2. ASSUME NEW e \in kept'[p][s]
        PROVE  \/ Judged(p, w.other, e)'
               \/ pc'[p] # "walked" /\ e \in Left(walk[p])'
               \/ Telling(p)' /\ e = op'[p].elem
    <3>1. e \in kept[p][s] /\ e \in content'[s]
      BY <2>0, <2>2, FrameIs, Bounds
    <3>2. \/ Judged(p, w.other, e)
          \/ pc[p] # "walked" /\ e \in Left(w)
          \/ Telling(p) /\ e = op[p].elem
      BY <1>2, <3>1 DEF Strolls, WalksOver
    <3>3. ASSUME Judged(p, w.other, e) PROVE Judged(p, w.other, e)'
      <4>1. Ages(p) /\ History(p) /\ out[p] \subseteq out'[p] /\ walk'[p].other = walk[p].other
        BY FrameIs
      <4> QED
        BY <2>0, <3>3, <4>1, JudgedHere, Zenon
    <3>4. e \in Left(w) => e \in Left(walk[p])'
      <4>1. e \in w.at.due => e \in walk'[p].at.due
        BY <3>1 DEF Frame, Unmoved
      <4> QED
        BY <4>1, FrameIs DEF Left
    <3>5. pc'[p] = "walked" <=> pc[p] = "walked"
      BY DEF Frame
    <3>6. op'[p] = op[p]
      BY FrameIs
    <3> QED
      BY <2>1, <3>2, <3>3, <3>4, <3>5, <3>6
  <2>3. Leg(call[p], s, w.other)'
    BY <2>0, FrameIs DEF Leg, Locked
  <2>4. Telling(p)' => op'[p].elem \in had'[p][s]
    BY <1>2, <2>0, <2>1, FrameIs DEF Strolls, WalksOver
  <2>5. IF impl'[s] = "skip" THEN walk'[p].batch = {} /\ walk'[p].left = {} ELSE walk'[p].batch \subseteq had'[p][s]
    BY <1>2, <2>0, FrameIs DEF Strolls, WalksOver
  <2>6. ASSUME call'[p].kind \in Chooses
        PROVE  /\ call'[p].kind \in Rising /\ pc'[p] # "walked" => out'[p] = {}
               /\ impl'[s] = "skip" => \A m \in out'[p] : m <= walk'[p].at.pos
    BY <1>2, <2>0, <2>6, FrameIs DEF Strolls, WalksOver, Frame
  <2>7. walk'[p].on = s
    BY FrameIs
  <2> QED
    BY <2>2, <2>3, <2>4, <2>5, <2>6, <2>7 DEF Strolls, WalksOver
<1> QED
  BY <1>1, <1>2

LEMMA GathersOn ==
    ASSUME NEW p, Frame(p), Gathers(p)
    PROVE  Gathers(p)'
<1>1. ASSUME NEW e \in out'[p] PROVE Sound(p, e)'
  BY FrameIs, SoundStays DEF Gathers
<1> QED
  BY <1>1, FrameIs DEF Gathers, Frame

LEMMA ReadiedOn ==
    ASSUME NEW p, Frame(p), Readied(p)
    PROVE  Readied(p)'
<1>1. PICK t \in Sets \cup {none} :
        /\ Prepared(plan[p], t)
        /\ t # none => /\ walk[p].on = none
                       /\ IF pc[p] \in Operating /\ op[p].kind = "snapshot" THEN op[p].on = t
                                                                        ELSE Spanned(p, t, walk[p].batch)
  BY DEF Readied
<1>2. Prepared(plan[p], t)'
  BY <1>1, FrameIs DEF Prepared, Shot
<1>3. ASSUME t # none, Spanned(p, t, walk[p].batch) PROVE Spanned(p, t, walk[p].batch)'
  BY <1>3, FrameIs DEF Spanned
<1>4. pc'[p] \in Operating <=> pc[p] \in Operating
  BY DEF Frame
<1>5. /\ Prepared(plan[p], t)'
      /\ t # none => /\ walk'[p].on = none
                     /\ IF pc'[p] \in Operating /\ op'[p].kind = "snapshot" THEN op'[p].on = t
                                                                        ELSE Spanned(p, t, walk[p].batch)'
  BY <1>1, <1>2, <1>3, <1>4, FrameIs
<1> QED
  BY <1>5 DEF Readied

LEMMA HalvesOn ==
    ASSUME NEW p, Frame(p), Halves(p)
    PROVE  Halves(p)'
<1>1. Combine(call[p])' = Combine(call[p])
  BY FrameIs, LegStays
<1>2. pc'[p] = "next" <=> pc[p] = "next"
  BY DEF Frame
<1>3. Spanned(p, call[p].on, snap[p]) => Spanned(p, call[p].on, snap[p])'
  BY FrameIs DEF Spanned
<1> QED
  BY <1>1, <1>2, <1>3, FrameIs DEF Halves

LEMMA AloneKeeps ==
    ASSUME NEW p, Ages(p), History(p), History(p)', alone'[p], call[p].kind \notin Updates, NEW s \in Sets
    PROVE  alone[p] /\ content'[s] = content[s]
<1>1. alone[p] /\ call'[p].kind \notin Updates
  BY DEF Ages
<1>2. kept[p][s] = content[s] /\ had[p][s] = content[s]
  BY <1>1 DEF History
<1>3. kept'[p][s] = content'[s] /\ had'[p][s] = content'[s]
  BY <1>1 DEF History
<1>4. kept'[p][s] = kept[p][s] \cap content'[s] /\ had'[p][s] = had[p][s] \cup content'[s]
  BY Bounds
<1>5. PICK c, d : c = content[s] /\ d = content'[s]
  OBVIOUS
<1>6. d = c \cap d /\ d = c \cup d
  BY <1>2, <1>3, <1>4, <1>5, Zenon
<1>7. d = c
  BY <1>6
<1> QED
  BY <1>1, <1>5, <1>7

LEMMA SizedIs ==
    /\ Sized \cap Updates = {} /\ Asking \cap Updates = {} /\ Sized \subseteq Asking
    /\ Chooses \cap Asking = {} /\ Relations \subseteq Asking /\ Algebra \subseteq Asking
    /\ Navigations \cap Updates = {}
  BY DEF Sized, Updates, Asking, Algebra, Relations, Chooses, Pops, Navigations

LEMMA SizesOn ==
    ASSUME NEW p, Frame(p), Sizes(p)
    PROVE  Sizes(p)'
<1>1. CASE call[p].kind \in Sized
  <2>1. call[p].kind \notin Updates
    BY <1>1, SizedIs
  <2>2. alone'[p] => alone[p] /\ content'[call[p].on] = content[call[p].on]
                              /\ content'[call[p].other] = content[call[p].other]
    BY <2>1, FrameIs, AloneKeeps
  <2>3. Compare(call[p])' = Compare(call[p])
    BY FrameIs, LegStays
  <2>4. pc'[p] = "next" <=> pc[p] = "next"
    BY DEF Frame
  <2>5. pc'[p] \in Operating <=> pc[p] \in Operating
    BY DEF Frame
  <2>6. ASSUME NEW l, At(p, l) PROVE At(p, l)'
    BY <2>4, <2>6, FrameIs DEF At
  <2>7. At(p, Compare(call[p])) => At(p, Compare(call[p]))'
    BY <2>3, <2>4, FrameIs DEF At
  <2>8. At(p, Tail(Compare(call[p]))) => At(p, Tail(Compare(call[p])))'
    BY <2>3, <2>4, FrameIs DEF At
  <2>9. sizes'[p] = sizes[p] /\ walk'[p].on = walk[p].on /\ call'[p] = call[p] /\ plan'[p] = plan[p] /\ op'[p] = op[p]
    BY FrameIs
  <2> QED
    BY <1>1, <2>2, <2>5, <2>7, <2>8, <2>9 DEF Sizes, Counting
<1>2. CASE call[p].kind \notin Sized
  BY <1>2, FrameIs DEF Sizes
<1> QED
  BY <1>1, <1>2

LEMMA EngagedOn ==
    ASSUME NEW p, Frame(p), pc'[p] = pc[p], ret'[p] = ret[p], Labelled(p), Engaged(p)
    PROVE  Engaged(p)'
<1>1. /\ Measures(p)' <=> Measures(p)
      /\ Consults(p)' <=> Consults(p)
      /\ Clears(p)' <=> Clears(p)
      /\ Removes(p)' <=> Removes(p)
  BY FrameIs DEF Measures, Measure, Consults, Clears, Removes
<1>2. ASSUME pc'[p] = "got"
      PROVE  /\ Consults(p)' => IF ret'[p] = {} THEN op'[p].elem \notin kept'[p][walk'[p].other]
                                               ELSE op'[p].elem \in had'[p][walk'[p].other]
             /\ Clears(p)' => op'[p].elem \notin kept'[p][call'[p].on]
             /\ op'[p].kind = "snapshot" => Spanned(p, op[p].on, ret[p])'
             /\ op'[p].kind = "size" /\ alone'[p] =>
                  \E S \in SUBSET Elems : Spanned(p, op[p].on, S)' /\ ret'[p] = {Cardinality(S)}
  <2>0. pc[p] = "got" /\ op[p] \in Ops /\ op[p].on \in Sets
    BY <1>2 DEF Labelled, Operating, Ops
  <2>1. Consults(p) => IF ret[p] = {} THEN op[p].elem \notin kept[p][walk[p].other]
                                      ELSE op[p].elem \in had[p][walk[p].other]
    BY <2>0 DEF Engaged
  <2>2. Consults(p) => walk[p].other \in Sets
    BY <2>0 DEF Consults
  <2>3. Clears(p) => op[p].elem \notin kept[p][call[p].on]
    BY <2>0 DEF Engaged
  <2>4. op[p].kind = "snapshot" => Spanned(p, op[p].on, ret[p])
    BY <2>0 DEF Engaged
  <2>5. \A S : Spanned(p, op[p].on, S) => Spanned(p, op[p].on, S)'
    BY <2>0, FrameIs DEF Spanned
  <2>6. Spanned(p, op[p].on, ret[p]) => Spanned(p, op[p].on, ret[p])'
    BY <2>0, FrameIs DEF Spanned
  <2>7. alone'[p] => alone[p]
    BY FrameIs DEF Ages
  <2>8. op[p].kind = "size" /\ alone[p] => \E S \in SUBSET Elems : Spanned(p, op[p].on, S) /\ ret[p] = {Cardinality(S)}
    BY <2>0 DEF Engaged
  <2>9. op[p].kind = "size" /\ alone'[p] => \E S \in SUBSET Elems : Spanned(p, op[p].on, S)' /\ ret'[p] = {Cardinality(S)}
    BY <2>5, <2>7, <2>8
  <2>10. op'[p] = op[p] /\ call'[p] = call[p] /\ walk'[p].other = walk[p].other
    BY FrameIs
  <2>11. Consults(p)' => IF ret'[p] = {} THEN op'[p].elem \notin kept'[p][walk'[p].other]
                                         ELSE op'[p].elem \in had'[p][walk'[p].other]
    BY <1>1, <2>1, <2>2, <2>10, FrameIs
  <2>12. Clears(p)' => op'[p].elem \notin kept'[p][call'[p].on]
    BY <1>1, <2>3, <2>10, FrameIs
  <2> QED
    BY <2>4, <2>6, <2>9, <2>10, <2>11, <2>12
<1>3. pc'[p] = "next" => walk'[p].on = none
  BY FrameIs DEF Engaged
<1>4. pc'[p] \in Operating => (Measures(p) \/ Consults(p) \/ Clears(p) \/ Removes(p))'
  BY <1>1 DEF Engaged
<1> QED
  BY <1>2, <1>3, <1>4 DEF Engaged

LEMMA DeletingOn ==
    ASSUME NEW p, Frame(p), pc'[p] = pc[p] \/ (pc[p] \in Operating \ {"got"} /\ pc'[p] \in Operating \ {"got"}), Deleting(p)
    PROVE  Deleting(p)'
<1>1. \A e : e \in kept'[p][call'[p].on] => e \in kept[p][call[p].on]
  BY FrameIs
<1>2. /\ call'[p] = call[p] /\ walk'[p].on = walk[p].on /\ plan'[p] = plan[p] /\ op'[p] = op[p]
  BY FrameIs
<1> QED
  BY <1>1, <1>2 DEF Deleting, Deletion, Operating

LEMMA ClearingOn ==
    ASSUME NEW p, Frame(p), pc'[p] = pc[p] \/ (pc[p] \in Operating \ {"got"} /\ pc'[p] \in Operating \ {"got"}), Clearing(p)
    PROVE  Clearing(p)'
<1>1. kept[p][call[p].on] = {} => kept'[p][call'[p].on] = {}
  BY FrameIs
<1>2. /\ call'[p] = call[p] /\ plan'[p] = plan[p] /\ op'[p] = op[p]
  BY FrameIs
<1>3. CASE pc[p] = "next" /\ plan[p] = <<call[p]>>
  BY <1>2, <1>3 DEF Clearing, Operating
<1>4. CASE pc[p] \in Operating \ {"got"} /\ op[p] = call[p] /\ plan[p] = <<>>
  BY <1>2, <1>4 DEF Clearing, Operating
<1>5. CASE pc[p] \in {"got", "next"} /\ plan[p] = <<>> /\ kept[p][call[p].on] = {} /\ (pc[p] = "got" => op[p] = call[p])
  BY <1>1, <1>2, <1>5 DEF Clearing, Operating
<1> QED
  BY <1>3, <1>4, <1>5 DEF Clearing

LEMMA WithinGrows ==
    ASSUME NEW q, NEW K, NEW L, NEW H, NEW I, NEW o, NEW r, Within(q, K, L, H, I, o, r),
           NEW M, M \subseteq K, NEW N, N \subseteq L, NEW G, H \subseteq G, NEW J, I \subseteq J
    PROVE  Within(q, M, N, G, J, o, r)
<1>1. PopWithin(q, M, r)
  BY DEF Within, PopWithin
<1>2. AlgebraWithin(q, M, N, G, J, o)
  BY DEF Within, AlgebraWithin, Between
<1>3. RelationWithin(q, M, N, G, J, o)
  BY DEF Within, RelationWithin
<1>4. NavigationWithin(q, M, G, o)
  <2>1. Fitting(q, M) \subseteq Fitting(q, K)
    BY DEF Fitting
  <2>2. NavigationWithin(q, K, H, o)
    BY DEF Within
  <2> QED
    BY <2>1, <2>2 DEF NavigationWithin
<1>5. BulkWithin(q, M, G, o)
  BY DEF Within, BulkWithin, Between
<1> QED
  BY <1>1, <1>2, <1>3, <1>4, <1>5 DEF Within

LEMMA JustifiedOn ==
    ASSUME NEW p, Ages(p), History(p), History(p)', out'[p] = out[p], ret'[p] = ret[p], Justified(p)
    PROVE  Justified(p)'
<1> DEFINE q == call[p]
<1>1. q \in Requests /\ q.on \in Sets /\ q.other \in Sets /\ call'[p] = q /\ impl' = impl
  BY RequestIs DEF Ages
<1>2. Within(q, kept'[p][q.on], kept'[p][q.other], had'[p][q.on], had'[p][q.other], out[p], ret[p])
  <2>1. Within(q, kept[p][q.on], kept[p][q.other], had[p][q.on], had[p][q.other], out[p], ret[p])
    BY DEF Justified
  <2>2. \A s \in Sets : kept'[p][s] \subseteq kept[p][s] /\ had[p][s] \subseteq had'[p][s]
    BY Bounds, SMTT(30)
  <2> QED
    BY <1>1, <2>1, <2>2, WithinGrows
<1>3. Within(q, kept[p][q.on], kept[p][q.other], had[p][q.on], had[p][q.other], out[p], ret[p])'
  <2>0. call'[p] = q /\ impl' = impl /\ out'[p] = out[p] /\ ret'[p] = ret[p]
    BY <1>1
  <2> HIDE DEF q
  <2>1. PopWithin(q, kept'[p][q.on], ret[p]) => PopWithin(call[p], kept[p][call[p].on], ret[p])'
    BY <2>0 DEF PopWithin, Locked
  <2>2. AlgebraWithin(q, kept'[p][q.on], kept'[p][q.other], had'[p][q.on], had'[p][q.other], out[p])
        => AlgebraWithin(call[p], kept[p][call[p].on], kept[p][call[p].other], had[p][call[p].on], had[p][call[p].other], out[p])'
    BY <2>0 DEF AlgebraWithin, Between
  <2>3. RelationWithin(q, kept'[p][q.on], kept'[p][q.other], had'[p][q.on], had'[p][q.other], out[p])
        => RelationWithin(call[p], kept[p][call[p].on], kept[p][call[p].other], had[p][call[p].on], had[p][call[p].other], out[p])'
    BY <2>0 DEF RelationWithin
  <2>4. NavigationWithin(q, kept'[p][q.on], had'[p][q.on], out[p])
        => NavigationWithin(call[p], kept[p][call[p].on], had[p][call[p].on], out[p])'
    BY <2>0, Zenon DEF NavigationWithin, Fitting, Locked
  <2>5. BulkWithin(q, kept'[p][q.on], had'[p][q.on], out[p])
        => BulkWithin(call[p], kept[p][call[p].on], had[p][call[p].on], out[p])'
    BY <2>0 DEF BulkWithin, Between
  <2> QED
    BY <1>2, <2>1, <2>2, <2>3, <2>4, <2>5 DEF Within, q
<1>4. alone'[p] => alone[p]
  BY DEF Ages
<1>5. ASSUME alone'[p] PROVE Exact(q, content[q.on], content[q.other], out[p])'
  <2>1. CASE q.kind \in Sized
    <3>1. content'[q.on] = content[q.on] /\ content'[q.other] = content[q.other]
      BY <1>1, <1>5, <2>1, SizedIs, AloneKeeps
    <3> QED
      BY <1>1, <1>4, <1>5, <3>1 DEF Justified, Exact
  <2>2. CASE q.kind \notin Sized
    BY <1>1, <2>2 DEF Exact, Sized
  <2> QED
    BY <2>1, <2>2
<1>6. q.kind = "removeFunc" /\ out[p] = {0} => kept'[p][q.on] = {} \/ ~alone'[p]
  BY <1>1, <1>4, Bounds DEF Justified
<1> QED
  BY <1>1, <1>3, <1>5, <1>6 DEF Justified

\* A call that is left alone stays justified.
LEMMA LeftAlone ==
    ASSUME NEW p, Frame(p), pc'[p] = pc[p], ret'[p] = ret[p], Labelled(p), walk[p].on \in Sets \cup {none}, Running(p)
    PROVE  Running(p)'
<1>1. /\ Ages(p) /\ History(p) /\ History(p)' /\ pc[p] # "idle" /\ call'[p] = call[p] /\ out'[p] = out[p]
  BY DEF Frame, Ages
<1>2. walk[p].on # none => walk[p].on \in Sets
  OBVIOUS
<1>3. Learned(p) => Learned(p)'
  BY <1>2, ToursOn, EngagedOn, StrollsOn, GathersOn, ReadiedOn, HalvesOn, SizesOn DEF Learned
<1>4. (Deleting(p) => Deleting(p)') /\ (Clearing(p) => Clearing(p)')
  BY DeletingOn, ClearingOn
<1>5. Justified(p) => Justified(p)'
  BY <1>1, JustifiedOn
<1>6. Walker(call[p])' <=> Walker(call[p])
  BY <1>1, LegStays
<1> QED
  BY <1>1, <1>3, <1>4, <1>5, <1>6 DEF Running

LEMMA OthersRun ==
    ASSUME IInv, NEW r \in Procs, Acts(r), NEW p \in Procs, p # r, Ages(p), Running(p)
    PROVE  Running(p)'
<1>1. /\ pc'[p] = pc[p] /\ ret'[p] = ret[p] /\ op'[p] = op[p] /\ plan'[p] = plan[p] /\ snap'[p] = snap[p]
      /\ sizes'[p] = sizes[p] /\ out'[p] = out[p] /\ Unmoved(p)
  BY StepApart DEF Acts, Apart, Same
<1>2. pc[p] # "idle" /\ History(p)
  BY DEF Ages, Running
<1>3. History(p)'
  BY <1>2, HistoryStays
<1>4. Frame(p) /\ Labelled(p)
  BY <1>1, <1>2, <1>3 DEF Frame, IInv
<1>5. walk[p].on \in Sets \cup {none}
  BY DEF IInv, Shape, Hikes
<1> QED
  BY <1>1, <1>4, <1>5, LeftAlone

-----------------------------------------------------------------------------
(* An operation is invoked and happens.                                    *)

LEMMA RingingOn ==
    ASSUME NEW p, Frame(p), pc[p] \in Operating, pc'[p] # "got", Engaged(p)
    PROVE  Engaged(p)'
<1>1. pc'[p] \in Operating /\ pc'[p] # "next"
  BY DEF Frame, Operating
<1>2. /\ Measures(p)' <=> Measures(p)
      /\ Consults(p)' <=> Consults(p)
      /\ Clears(p)' <=> Clears(p)
      /\ Removes(p)' <=> Removes(p)
  BY FrameIs DEF Measures, Measure, Consults, Clears, Removes
<1> QED
  BY <1>1, <1>2 DEF Engaged

\* What the operation of p found, or left.
Found(p) ==
    LET o == op[p]  S == content'[op[p].on] IN
    /\ o.kind = "contains" => IF ret'[p] = {} THEN o.elem \notin S ELSE o.elem \in S
    /\ o.kind = "remove" => o.elem \notin S
    /\ o.kind = "removeAll" => S \cap o.elems = {}
    /\ o.kind = "clear" => S = {}
    /\ o.kind = "snapshot" => ret'[p] = S
    /\ o.kind = "size" /\ Undisturbed(p) => ret'[p] = {Cardinality(S)}

LEMMA EffectsAre ==
    ASSUME NEW o, NEW S
    PROVE  /\ o.kind = "contains" => Effect(o, S) = Does(S, If(o.elem \in S))
           /\ o.kind = "remove" => Effect(o, S) = Does(S \ {o.elem}, If(o.elem \in S))
           /\ o.kind = "removeAll" => Effect(o, S) = Does(S \ o.elems, {Cardinality(o.elems \cap S)})
           /\ o.kind = "clear" => Effect(o, S) = Does({}, {})
           /\ o.kind = "size" => Effect(o, S) = Does(S, {Cardinality(S)})
<1>1. ASSUME o.kind = "contains" PROVE Effect(o, S) = Does(S, If(o.elem \in S))
  BY <1>1 DEF Effect, If, Navigations
<1>2. ASSUME o.kind = "remove" PROVE Effect(o, S) = Does(S \ {o.elem}, If(o.elem \in S))
  BY <1>2 DEF Effect, If, Navigations
<1>3. ASSUME o.kind = "removeAll" PROVE Effect(o, S) = Does(S \ o.elems, {Cardinality(o.elems \cap S)})
  BY <1>3 DEF Effect, If, Navigations
<1>4. ASSUME o.kind = "clear" PROVE Effect(o, S) = Does({}, {})
  BY <1>4 DEF Effect, If, Navigations
<1>5. ASSUME o.kind = "size" PROVE Effect(o, S) = Does(S, {Cardinality(S)})
  BY <1>5 DEF Effect, If, Navigations
<1> QED
  BY <1>1, <1>2, <1>3, <1>4, <1>5

LEMMA HappensFound ==
    ASSUME IInv, NEW p \in Procs, Happens(p), pc[p] \in Operating
    PROVE  Found(p)
<1> DEFINE o == op[p]  S == content[o.on]
<1>0. Shape /\ o \in Ops /\ o.kind \in EffectKinds
  BY DEF IInv, Labelled
<1>1. PICK e \in Outcomes(p, o) : content' = [content EXCEPT ![o.on] = e.S] /\ ret'[p] = e.ret
  BY <1>0, HappensFacts
<1>2. /\ o.on \in Sets /\ S \in SUBSET Elems /\ (o.kind \notin Updates => e.S = S)
      /\ (o.kind = "snapshot" => e.ret = S) /\ (~Estimate(p) => e = Effect(o, S))
  BY <1>0, <1>1, OutcomeType
<1>3. content'[o.on] = e.S
  <2>1. content \in [Sets -> SUBSET Elems]
    BY <1>0 DEF Shape
  <2> QED
    BY <1>1, <1>2, <2>1
<1>4. ASSUME o.kind = "contains" PROVE IF ret'[p] = {} THEN o.elem \notin e.S ELSE o.elem \in e.S
  <2>1. e = Does(S, If(o.elem \in S))
    BY <1>2, <1>4, EffectsAre DEF Estimate
  <2> QED
    BY <1>1, <2>1 DEF Does, If
<1>5. ASSUME o.kind = "remove" PROVE o.elem \notin e.S
  <2>1. e = Does(S \ {o.elem}, If(o.elem \in S))
    BY <1>2, <1>5, EffectsAre DEF Estimate
  <2> QED
    BY <2>1 DEF Does
<1>6. ASSUME o.kind = "removeAll" PROVE e.S \cap o.elems = {}
  <2>1. e = Does(S \ o.elems, {Cardinality(o.elems \cap S)})
    BY <1>2, <1>6, EffectsAre DEF Estimate
  <2> QED
    BY <2>1 DEF Does
<1>7. ASSUME o.kind = "clear" PROVE e.S = {}
  <2>1. e = Does({}, {})
    BY <1>2, <1>7, EffectsAre DEF Estimate
  <2> QED
    BY <2>1 DEF Does
<1>8. ASSUME o.kind = "snapshot" PROVE ret'[p] = e.S
  <2>1. o.kind \notin Updates
    BY <1>8 DEF Updates, Pops
  <2> QED
    BY <1>1, <1>2, <1>8, <2>1
<1>9. ASSUME o.kind = "size", Undisturbed(p) PROVE ret'[p] = {Cardinality(e.S)}
  <2>1. ~\E r \in Procs \ {p} : Updating(r, o.on)
    BY <1>9 DEF Undisturbed, Updating
  <2>2. Outcomes(p, o) = {Effect(o, S)}
    BY <2>1 DEF Outcomes
  <2>3. e = Does(S, {Cardinality(S)})
    BY <1>1, <1>9, <2>2, EffectsAre
  <2> QED
    BY <1>1, <2>3 DEF Does
<1> QED
  BY <1>3, <1>4, <1>5, <1>6, <1>7, <1>8, <1>9 DEF Found

LEMMA EngagedHappens ==
    ASSUME NEW p \in Procs, Frame(p), pc[p] \in Operating, pc'[p] = "got", Engaged(p), Found(p),
           op[p] \in Ops
    PROVE  Engaged(p)'
<1>1. /\ Measures(p)' <=> Measures(p)
      /\ Consults(p)' <=> Consults(p)
      /\ Clears(p)' <=> Clears(p)
      /\ Removes(p)' <=> Removes(p)
  BY FrameIs DEF Measures, Measure, Consults, Clears, Removes
<1> DEFINE o == op[p]  S == content'[op[p].on]
<1>2. o.on \in Sets /\ op'[p] = o /\ call'[p] = call[p] /\ walk'[p].other = walk[p].other
  BY FrameIs DEF Ops
<1>3. kept'[p][o.on] \subseteq S /\ S \subseteq had'[p][o.on] /\ S \in SUBSET Elems
  BY <1>2, FrameIs, Bounds DEF Ages
<1>4. ASSUME Consults(p)
      PROVE  IF ret'[p] = {} THEN o.elem \notin kept'[p][walk[p].other] ELSE o.elem \in had'[p][walk[p].other]
  BY <1>3, <1>4 DEF Consults, Found
<1>5. ASSUME Clears(p) PROVE o.elem \notin kept'[p][call[p].on]
  BY <1>3, <1>5 DEF Clears, Found
<1>6. ASSUME o.kind = "snapshot" PROVE Spanned(p, op[p].on, ret[p])'
  BY <1>2, <1>3, <1>6 DEF Spanned, Found
<1>7. ASSUME o.kind = "size", alone'[p]
      PROVE  \E T \in SUBSET Elems : Spanned(p, op[p].on, T)' /\ ret'[p] = {Cardinality(T)}
  <2>1. Undisturbed(p)
    <3>1. alone[p]
      BY <1>7, FrameIs DEF Ages
    <3> QED
      BY <3>1, FrameIs DEF History
  <2>2. ret'[p] = {Cardinality(S)}
    BY <1>7, <2>1 DEF Found
  <2>3. \A T : kept'[p][o.on] \subseteq T /\ T \subseteq had'[p][o.on] => Spanned(p, op[p].on, T)'
    BY <1>2 DEF Spanned
  <2> QED
    BY <1>3, <2>2, <2>3
<1>8. pc'[p] \in Operating
  BY DEF Operating
<1> QED
  BY <1>1, <1>2, <1>4, <1>5, <1>6, <1>7, <1>8 DEF Engaged

\* Frame holds when p asks for a lock, gets it, or its operation happens.
LEMMA OperateFrame ==
    ASSUME IInv, NEW p \in Procs, Ages(p), History(p), Act(p) \/ Asks(p) \/ Enters(p) \/ Leaves(p)
    PROVE  /\ Frame(p) /\ pc[p] \in Operating \ {"got"} /\ pc'[p] \in Operating /\ op[p] \in Ops
           /\ pc'[p] = "got" => Found(p)
<1>0. Shape /\ History(p)'
  BY HistoryStays DEF IInv, Acts, Step
<1>1. CASE Act(p) \/ Leaves(p)
  <2>1. Happens(p) /\ pc[p] \in Operating \ {"got"} /\ pc[p] \in Operating
    BY <1>1 DEF Act, Leaves, Operating
  <2>2. Unmoved(p) /\ Found(p)
    BY <2>1, HappensUnmoved, HappensFound
  <2>3. pc'[p] = "got" /\ op'[p] = op[p] /\ plan'[p] = plan[p] /\ snap'[p] = snap[p] /\ sizes'[p] = sizes[p] /\ out'[p] = out[p]
    BY <1>0, <2>1, HappensFacts
  <2>4. op[p] \in Ops
    BY <2>1 DEF IInv, Labelled
  <2> QED
    BY <1>0, <2>1, <2>2, <2>3, <2>4 DEF Frame, Operating
<1>2. CASE Asks(p) \/ Enters(p)
  <2>1. /\ pc[p] \in Operating \ {"got"} /\ pc'[p] \in Operating \ {"got"}
        /\ op'[p] = op[p] /\ plan'[p] = plan[p] /\ snap'[p] = snap[p] /\ sizes'[p] = sizes[p] /\ out'[p] = out[p]
        /\ walk'[p] = walk[p]
    BY <1>0, <1>2, AsksFacts, EntersFacts DEF Moves, Operating
  <2>2. Unmoved(p) /\ op[p] \in Ops
    BY <2>1 DEF Unmoved, IInv, Labelled
  <2> QED
    BY <1>0, <2>1, <2>2 DEF Frame, Operating
<1> QED
  BY <1>1, <1>2

LEMMA LearnedOperates ==
    ASSUME IInv, NEW p \in Procs, Ages(p), History(p), Act(p) \/ Asks(p) \/ Enters(p) \/ Leaves(p), Learned(p)
    PROVE  Learned(p)'
<1>1. /\ Frame(p) /\ pc[p] \in Operating \ {"got"} /\ pc'[p] \in Operating /\ op[p] \in Ops
      /\ pc'[p] = "got" => Found(p)
  BY OperateFrame
<1>2. walk[p].on # none => walk[p].on \in Sets
  BY DEF IInv, Shape, Hikes
<1>3. Engaged(p)'
  BY <1>1, RingingOn, EngagedHappens DEF Learned
<1> QED
  BY <1>1, <1>2, <1>3, ToursOn, StrollsOn, GathersOn, ReadiedOn, HalvesOn, SizesOn DEF Learned

LEMMA DeletingOperates ==
    ASSUME IInv, NEW p \in Procs, Ages(p), History(p), Act(p) \/ Asks(p) \/ Enters(p) \/ Leaves(p), Deleting(p)
    PROVE  Deleting(p)'
<1>1. /\ Frame(p) /\ pc[p] \in Operating \ {"got"} /\ pc'[p] \in Operating /\ op[p] \in Ops
      /\ pc'[p] = "got" => Found(p)
  BY OperateFrame
<1>2. CASE pc'[p] # "got"
  BY <1>1, <1>2, DeletingOn
<1>3. CASE pc'[p] = "got"
  <2> DEFINE q == call[p]
  <2>0. call'[p] = q /\ op'[p] = op[p] /\ plan'[p] = plan[p] /\ walk'[p].on = walk[p].on /\ q.on \in Sets
    BY <1>1, FrameIs
  <2>1. op[p].on = q.on /\ op[p].kind \in {"remove", "removeAll"}
    BY <1>1 DEF Deleting, Deletion
  <2>2. content'[q.on] \cap Hits(op[p]) = {}
    BY <1>1, <1>3, <2>1 DEF Found, Hits
  <2>3. kept'[p][q.on] \subseteq kept[p][q.on] /\ kept'[p][q.on] \subseteq content'[q.on]
    BY <1>1, <2>0, FrameIs, Bounds
  <2>4. ASSUME NEW e \in kept'[p][q.on] \cap q.elems PROVE \E i \in DOMAIN plan[p] : e \in Hits(plan[p][i])
    BY <1>1, <2>2, <2>3 DEF Deleting
  <2>5. (\A i \in DOMAIN plan[p] : Deletion(p, plan[p][i]))' /\ Deletion(p, op[p])'
    BY <1>1, <2>0 DEF Deleting, Deletion
  <2> QED
    BY <1>1, <2>0, <2>4, <2>5 DEF Deleting, Hits
<1> QED
  BY <1>2, <1>3

LEMMA ClearingOperates ==
    ASSUME IInv, NEW p \in Procs, Ages(p), History(p), Act(p) \/ Asks(p) \/ Enters(p) \/ Leaves(p), Clearing(p),
           call[p].kind = "clear"
    PROVE  Clearing(p)'
<1>1. /\ Frame(p) /\ pc[p] \in Operating \ {"got"} /\ pc'[p] \in Operating /\ op[p] \in Ops
      /\ pc'[p] = "got" => Found(p)
  BY OperateFrame
<1>2. CASE pc'[p] # "got"
  BY <1>1, <1>2, ClearingOn
<1>3. CASE pc'[p] = "got"
  <2>1. op[p] = call[p] /\ plan[p] = <<>>
    BY <1>1 DEF Clearing, Operating
  <2>2. call'[p] = call[p] /\ plan'[p] = plan[p] /\ op'[p] = op[p] /\ call[p].on \in Sets
    BY <1>1, FrameIs
  <2>3. content'[call[p].on] = {}
    BY <1>1, <1>3, <2>1 DEF Found
  <2>4. kept'[p][call[p].on] = {}
    BY <2>2, <2>3, Bounds
  <2> QED
    BY <1>3, <2>1, <2>2, <2>4 DEF Clearing
<1> QED
  BY <1>2, <1>3

-----------------------------------------------------------------------------
(* Steps of p that change no set.                                          *)

LEMMA OwnStays ==
    ASSUME IInv, NEW p \in Procs, Acts(p), Private(p), Ages(p), History(p)
    PROVE  Stays(p) /\ History(p)'
<1>1. Apart(p) /\ content' = content
  BY DEF Private
<1> QED
  BY <1>1, QuietAges, HistoryStays

LEMMA StaysIs ==
    ASSUME NEW p, Stays(p), History(p)
    PROVE  /\ p \in Procs /\ call[p] \in Requests /\ call[p].on \in Sets /\ call[p].other \in Sets
           /\ call'[p] = call[p] /\ impl' = impl /\ content' = content
           /\ kept'[p] = kept[p] /\ had'[p] = had[p] /\ alone'[p] = alone[p]
           /\ \A s \in Sets : kept[p][s] \subseteq had[p][s] /\ kept[p][s] \subseteq content[s]
                              /\ content[s] \subseteq had[p][s] /\ had[p][s] \subseteq Elems
           /\ \A s : Locked(s)' <=> Locked(s)
           /\ \A s, o : Leg(call[p], s, o)' <=> Leg(call[p], s, o)
           /\ \A o, e, found : May(p, o, e, found)' <=> May(p, o, e, found)
           /\ \A e : Sound(p, e)' <=> Sound(p, e)
           /\ \A s, S : Spanned(p, s, S)' <=> Spanned(p, s, S)
           /\ Combine(call[p])' = Combine(call[p]) /\ Compare(call[p])' = Compare(call[p])
           /\ Walker(call[p])' <=> Walker(call[p])
<1>1. /\ p \in Procs /\ call[p] \in Requests /\ call'[p] = call[p] /\ impl' = impl /\ content' = content
      /\ kept'[p] = kept[p] /\ had'[p] = had[p] /\ alone'[p] = alone[p]
  BY DEF Stays
<1>2. call[p].on \in Sets /\ call[p].other \in Sets
  BY <1>1, RequestIs
<1>3. ASSUME NEW s \in Sets
      PROVE  /\ kept[p][s] \subseteq had[p][s] /\ kept[p][s] \subseteq content[s]
             /\ content[s] \subseteq had[p][s] /\ had[p][s] \subseteq Elems
  BY DEF History
<1>4. ASSUME NEW s PROVE Locked(s)' <=> Locked(s)
  BY <1>1 DEF Locked
<1>5. ASSUME NEW s, NEW o PROVE Leg(call[p], s, o)' <=> Leg(call[p], s, o)
  BY <1>1, <1>4 DEF Leg
<1>6. ASSUME NEW o, NEW e, NEW found PROVE May(p, o, e, found)' <=> May(p, o, e, found)
  BY <1>1 DEF May
<1>7. ASSUME NEW e PROVE Sound(p, e)' <=> Sound(p, e)
  BY <1>1, <1>5, <1>6, Zenon DEF Sound
<1>8. ASSUME NEW s, NEW S PROVE Spanned(p, s, S)' <=> Spanned(p, s, S)
  BY <1>1 DEF Spanned
<1>9. Combine(call[p])' = Combine(call[p]) /\ Compare(call[p])' = Compare(call[p])
  BY <1>1, Zenon DEF Combine, Compare, Walk, SizeOf, Back, Locked
<1>10. Walker(call[p])' <=> Walker(call[p])
  BY <1>1, <1>4 DEF Walker
<1> QED
  BY <1>1, <1>2, <1>3, <1>4, <1>5, <1>6, <1>7, <1>8, <1>9, <1>10

\* What has been judged stays so while out stays, or grows.
LEMMA JudgedKeeps ==
    ASSUME NEW p, Stays(p), History(p), out[p] \subseteq out'[p], NEW o, NEW e, Judged(p, o, e)
    PROVE  Judged(p, o, e)'
<1>1. call'[p] = call[p] /\ impl' = impl /\ \A found : May(p, o, e, found)' <=> May(p, o, e, found)
  BY StaysIs
<1> QED
  BY <1>1 DEF Judged, Beats

\* p strolls on: what it has found out elsewhere it does not lose.
Strides(p) ==
    /\ Stays(p) /\ History(p) /\ History(p)' /\ walk[p].on # none
    /\ walk'[p].on = walk[p].on /\ walk'[p].other = walk[p].other
    /\ plan'[p] = plan[p] /\ snap'[p] = snap[p] /\ sizes'[p] = sizes[p]
    /\ pc'[p] # "next" /\ (pc'[p] \in Operating => op'[p].kind \notin Measuring)

LEMMA OnwardStays ==
    ASSUME NEW p, Stays(p), History(p), NEW l, Onward(call[p], l)
    PROVE  Onward(call[p], l)'
  BY StaysIs DEF Onward, Measure

LEMMA StridesTour ==
    ASSUME NEW p, Strides(p), Toured(p),
           \A s \in Sets, o \in Consultable : Behind(p, s, o) => Behind(p, s, o)'
    PROVE  Toured(p)'
<1>0. /\ Stays(p) /\ History(p) /\ plan'[p] = plan[p] /\ walk'[p].on = walk[p].on /\ walk[p].on # none
      /\ walk'[p].other = walk[p].other
  BY DEF Strides
<1>1. Onward(call[p], plan[p])'
  <2>1. PICK l : l = plan[p]
    OBVIOUS
  <2>2. Onward(call[p], l)'
    BY <1>0, <2>1, OnwardStays DEF Toured
  <2> QED
    BY <1>0, <2>1, <2>2 DEF Onward
<1>2. ASSUME NEW s \in Sets, NEW o \in Consultable, Leg(call[p], s, o)'
      PROVE  Ahead(p, s, o)' \/ Here(p, s, o)' \/ Behind(p, s, o)'
  <2>1. Ahead(p, s, o) \/ Here(p, s, o) \/ Behind(p, s, o)
    BY <1>0, <1>2, StaysIs DEF Toured
  <2>2. Ahead(p, s, o)' <=> Ahead(p, s, o)
    BY <1>0 DEF Ahead, Coming
  <2>3. Here(p, s, o)' <=> Here(p, s, o)
    BY <1>0 DEF Here
  <2> QED
    BY <2>1, <2>2, <2>3
<1>3. call'[p].kind \in Chooses => plan'[p] = <<>>
  BY <1>0, StaysIs DEF Toured
<1> QED
  BY <1>0, <1>1, <1>2, <1>3 DEF Toured

LEMMA StridesReady ==
    ASSUME NEW p, Strides(p), Readied(p)
    PROVE  Readied(p)'
<1>1. Prepared(plan[p], none)
  BY DEF Strides, Readied
<1>2. Prepared(plan[p], none)'
  BY <1>1, StaysIs DEF Prepared, Shot, Strides
<1> QED
  BY <1>2 DEF Readied

LEMMA StridesHalves ==
    ASSUME NEW p, Strides(p), Halves(p)
    PROVE  Halves(p)'
  BY StaysIs DEF Strides, Halves, Spanned

LEMMA StridesSizes ==
    ASSUME NEW p, Strides(p), Sizes(p)
    PROVE  Sizes(p)'
<1>0. /\ Stays(p) /\ History(p) /\ plan'[p] = plan[p] /\ walk[p].on # none /\ walk'[p].on = walk[p].on
      /\ sizes'[p] = sizes[p] /\ (pc'[p] \in Operating => op'[p].kind \notin Measuring)
  BY DEF Strides
<1>1. call'[p] = call[p] /\ content' = content /\ alone'[p] = alone[p]
  BY <1>0, StaysIs
<1>2. pc'[p] \in Operating => ~Counting(call[p], op'[p])
  BY <1>0 DEF Counting, Measuring
<1>3. call[p].kind \in Sized => sizes[p] # <<>> /\ Len(sizes[p]) # 1
  BY <1>0 DEF Sizes
<1>4. ASSUME call[p].kind \in Sized, Len(sizes[p]) > 1
      PROVE  /\ alone[p] => SizesFit(call[p].kind, Cardinality(content[call[p].on]), Cardinality(content[call[p].other]))
             /\ \A i \in DOMAIN plan[p] : ~Counting(call[p], plan[p][i])
  BY <1>4 DEF Sizes
<1> QED
  BY <1>0, <1>1, <1>2, <1>3, <1>4 DEF Sizes, Counting

-----------------------------------------------------------------------------
(* p finds out about an element.                                           *)

LEMMA CollectsIs ==
    ASSUME NEW q, NEW e, NEW found \in BOOLEAN
    PROVE  /\ q.kind \in {"intersection", "isDisjoint"} => (Collects(q, e, found) <=> found)
           /\ q.kind \in {"difference", "symmetricDifference"} \cup (Relations \ {"isDisjoint"})
                => (Collects(q, e, found) <=> ~found)
           /\ q.kind \in Navigations => (Collects(q, e, found) <=> Qualifies(q.kind, q.elem, e))
           /\ q.kind = "removeFunc" => (Collects(q, e, found) <=> e \in q.elems)
           /\ q.kind \in Pops \cup {"union", "scan"} => Collects(q, e, found)
<1>1. ASSUME q.kind \in {"intersection", "isDisjoint"} PROVE Collects(q, e, found) <=> found
  BY <1>1 DEF Collects, Navigations, Relations, Sized, Pops
<1>2. ASSUME q.kind \in {"difference", "symmetricDifference"} \cup (Relations \ {"isDisjoint"})
      PROVE  Collects(q, e, found) <=> ~found
  BY <1>2 DEF Collects, Navigations, Relations, Sized, Pops
<1>3. ASSUME q.kind \in Navigations PROVE Collects(q, e, found) <=> Qualifies(q.kind, q.elem, e)
  BY <1>3 DEF Collects, Navigations, Relations, Sized, Pops
<1>4. ASSUME q.kind = "removeFunc" PROVE Collects(q, e, found) <=> e \in q.elems
  BY <1>4 DEF Collects, Navigations, Relations, Sized, Pops
<1>5. ASSUME q.kind \in Pops \cup {"union", "scan"} PROVE Collects(q, e, found)
  BY <1>5 DEF Collects, Navigations, Relations, Sized, Pops
<1> QED
  BY <1>1, <1>2, <1>3, <1>4, <1>5

LEMMA HaltsIs ==
    ASSUME NEW q, NEW e, NEW found \in BOOLEAN
    PROVE  /\ q.kind \in Relations => (Halts(q, e, found) <=> Collects(q, e, found))
           /\ q.kind \in {"pop", "popFirst", "first"} => Halts(q, e, found)
           /\ q.kind \in {"ceiling", "higher"} => (Halts(q, e, found) <=> Qualifies(q.kind, q.elem, e))
           /\ q.kind \in {"floor", "lower"} => (Halts(q, e, found) <=> ~Qualifies(q.kind, q.elem, e))
           /\ q.kind \notin Relations \cup {"pop", "popFirst", "first", "ceiling", "higher", "floor", "lower"}
                => ~Halts(q, e, found)
<1>1. ASSUME q.kind \in Relations PROVE Halts(q, e, found) <=> Collects(q, e, found)
  BY <1>1 DEF Halts, Relations, Sized, Stops, Navigations, Qualifies
<1>2. ASSUME q.kind \in {"pop", "popFirst", "first"} PROVE Halts(q, e, found)
  BY <1>2 DEF Halts, Relations, Sized, Stops, Navigations, Qualifies
<1>3. ASSUME q.kind \in {"ceiling", "higher"} PROVE Halts(q, e, found) <=> Qualifies(q.kind, q.elem, e)
  BY <1>3 DEF Halts, Relations, Sized, Stops, Navigations, Qualifies
<1>4. ASSUME q.kind \in {"floor", "lower"} PROVE Halts(q, e, found) <=> ~Qualifies(q.kind, q.elem, e)
  BY <1>4 DEF Halts, Relations, Sized, Stops, Navigations, Qualifies
<1>5. ASSUME q.kind \notin Relations \cup {"pop", "popFirst", "first", "ceiling", "higher", "floor", "lower"}
      PROVE  ~Halts(q, e, found)
  BY <1>5 DEF Halts, Relations, Sized, Stops, Navigations, Qualifies
<1> QED
  BY <1>1, <1>2, <1>3, <1>4, <1>5

LEMMA RisingIs ==
    /\ Rising = {"first", "ceiling", "higher", "pop", "popFirst"}
    /\ Chooses = {"pop", "popFirst", "popLast", "first", "last", "floor", "ceiling", "lower", "higher"}
    /\ Chooses \cap Relations = {}
  BY DEF Rising, Upward, Chooses, Pops, Navigations, Relations, Sized

LEMMA DecidedJudged ==
    ASSUME NEW p, Stays(p), History(p), NEW e \in Elems, NEW found \in BOOLEAN, Decides(p, e, found),
           NEW o, May(p, o, e, found), call[p].kind # "clear"
    PROVE  Judged(p, o, e)'
<1> DEFINE q == call[p]
<1>1. call'[p] = q /\ May(p, o, e, found)'
  BY StaysIs
<1>2. CASE ~Collects(q, e, found)
  <2>1. May(p, o, e, found)' /\ ~Collects(call'[p], e, found)
    BY <1>1, <1>2
  <2> QED
    BY <2>1, Zenon DEF Judged
<1>3. CASE Collects(q, e, found)
  <2>1. e \in out'[p]
    BY <1>3 DEF Decides
  <2>2. e \in Nat
    BY ElemAssumption
  <2>3. Beats(call[p], e, e)'
    BY <2>2 DEF Beats
  <2> QED
    BY <1>1, <2>1, <2>3 DEF Judged
<1> QED
  BY <1>2, <1>3

\* A choice is only replaced by a better one.
Outdone(p, e) ==
    LET q == call[p] IN
    q.kind \in Chooses => /\ q.kind \in Rising => out[p] = {}
                          /\ impl[q.on] = "skip" => \A m \in out[p] : m <= e

LEMMA DecidesKeeps ==
    ASSUME NEW p, Stays(p), History(p), NEW e \in Elems, NEW found \in BOOLEAN, Decides(p, e, found),
           Outdone(p, e), out[p] \subseteq Elems, NEW o, NEW x \in Elems, Judged(p, o, x)
    PROVE  Judged(p, o, x)'
<1> DEFINE q == call[p]
<1>0. call'[p] = q /\ impl' = impl
  BY StaysIs
<1>1. CASE out[p] \subseteq out'[p]
  BY <1>1, JudgedKeeps
<1>2. CASE ~(out[p] \subseteq out'[p])
  <2>1. q.kind \in Chooses /\ out'[p] = {e}
    BY <1>2 DEF Decides, Chooses
  <2>2. q.kind \notin Relations
    BY <2>1, RisingIs
  <2>3. CASE \E f \in BOOLEAN : May(p, o, x, f) /\ ~Collects(q, x, f)
    <3>1. PICK f \in BOOLEAN : May(p, o, x, f) /\ ~Collects(q, x, f)
      BY <2>3
    <3>2. May(p, o, x, f)' /\ ~Collects(call'[p], x, f)
      BY <1>0, <3>1, StaysIs
    <3> QED
      BY <3>2, Zenon DEF Judged
  <2>4. CASE \E m \in out[p] : Beats(q, m, x)
    <3>1. PICK m \in out[p] : Beats(q, m, x)
      BY <2>4
    <3>2. q.kind \notin Rising
      BY <2>1, <3>1 DEF Outdone
    <3>3. impl[q.on] = "skip" => m >= x /\ m <= e
      BY <2>1, <3>1, <3>2 DEF Outdone, Beats
    <3>4. m \in Nat /\ x \in Nat /\ e \in Nat
      BY <3>1, ElemAssumption
    <3>5. Beats(call[p], e, x)'
      BY <1>0, <3>2, <3>3, <3>4 DEF Beats
    <3> QED
      BY <1>0, <2>1, <3>5 DEF Judged
  <2> QED
    BY <2>1, <2>2, <2>3, <2>4 DEF Judged
<1> QED
  BY <1>1, <1>2

\* A walk that stops early has seen enough.
LEMMA HaltsJudged ==
    ASSUME NEW p, Stays(p), History(p), NEW e \in Elems, NEW found \in BOOLEAN, Decides(p, e, found),
           pc'[p] = "walked", NEW o, NEW x \in Elems,
           call[p].kind \in Navigations => impl[call[p].on] = "skip",
           call[p].kind \in Chooses /\ impl[call[p].on] = "skip" => e <= x,
           call[p].kind \in Chooses => o = none
    PROVE  Judged(p, o, x)'
<1> DEFINE q == call[p]
<1>0. call'[p] = q /\ impl' = impl /\ Halts(q, e, found)
  <2>1. Halts(q, e, found)
    BY DEF Decides
  <2> QED
    BY <2>1, StaysIs
<1>1. CASE q.kind \in Relations
  <2>1. Collects(q, e, found)
    BY <1>0, <1>1, HaltsIs
  <2>2. out'[p] # {}
    BY <2>1 DEF Decides
  <2> QED
    BY <1>0, <1>1, <2>2 DEF Judged
<1>2. CASE q.kind \in Rising
  <2>1. q.kind \in Chooses
    BY <1>2, RisingIs
  <2>2. Collects(q, e, found)
    <3>1. CASE q.kind \in {"pop", "popFirst"}
      BY <3>1, CollectsIs DEF Pops
    <3>2. CASE q.kind = "first"
      <4>1. Qualifies("first", q.elem, e)
        BY DEF Qualifies
      <4>2. q.kind \in Navigations
        BY <3>2 DEF Navigations
      <4> QED
        BY <3>2, <4>1, <4>2, CollectsIs
    <3>3. CASE q.kind \in {"ceiling", "higher"}
      BY <1>0, <3>3, HaltsIs, CollectsIs DEF Navigations
    <3> QED
      BY <1>2, <3>1, <3>2, <3>3, RisingIs
  <2>3. e \in out'[p]
    BY <2>2 DEF Decides
  <2>4. Beats(call[p], e, x)'
    BY <1>0, <1>2, <2>1 DEF Beats
  <2> QED
    BY <1>0, <2>1, <2>3, <2>4 DEF Judged
<1>3. CASE q.kind \in {"floor", "lower"}
  <2>1. ~Qualifies(q.kind, q.elem, e) /\ e <= x
    BY <1>0, <1>3, HaltsIs, RisingIs DEF Navigations
  <2>2. e \in Nat /\ x \in Nat /\ q.elem \in Nat
    BY StaysIs, RequestIs, ElemAssumption
  <2>3. ~Qualifies(q.kind, q.elem, x)
    <3>1. CASE q.kind = "floor"
      BY <2>1, <2>2, <3>1 DEF Qualifies
    <3>2. CASE q.kind = "lower"
      BY <2>1, <2>2, <3>2 DEF Qualifies
    <3> QED
      BY <1>3, <3>1, <3>2
  <2>4. ~Collects(q, x, TRUE)
    BY <1>3, <2>3, CollectsIs DEF Navigations
  <2>5. o = none
    BY <1>3, RisingIs
  <2>6. May(p, o, x, TRUE)' /\ ~Collects(call'[p], x, TRUE)
    BY <1>0, <2>4, <2>5 DEF May
  <2> QED
    BY <2>6, Zenon DEF Judged
<1>4. CASE q.kind \notin Relations \cup Rising \cup {"floor", "lower"}
  BY <1>0, <1>4, HaltsIs, RisingIs
<1> QED
  BY <1>1, <1>2, <1>3, <1>4

LEMMA DecidedGathers ==
    ASSUME NEW p, Stays(p), History(p), NEW e, NEW found \in BOOLEAN, Decides(p, e, found), Gathers(p),
           NEW s \in Sets, NEW o \in Consultable, Leg(call[p], s, o), e \in had[p][s], May(p, o, e, found)
    PROVE  Gathers(p)'
<1> DEFINE q == call[p]
<1>0. call'[p] = q
  BY StaysIs
<1>1. ASSUME NEW x \in out'[p] PROVE Sound(p, x)'
  <2>1. Sound(p, x)
    <3>1. CASE x \in out[p]
      BY <3>1 DEF Gathers
    <3>2. CASE x \notin out[p]
      <4>1. x = e /\ Collects(q, e, found)
        BY <1>1, <3>2 DEF Decides
      <4> QED
        BY <4>1, Zenon DEF Sound
    <3> QED
      BY <3>1, <3>2
  <2> QED
    BY <2>1, StaysIs
<1>2. ASSUME q.kind \in Chooses, NEW m \in out'[p], NEW k \in out'[p] PROVE m = k
  BY <1>2 DEF Gathers, Decides, Chooses
<1>3. pc'[p] # "next"
  BY DEF Decides
<1> QED
  BY <1>0, <1>1, <1>2, <1>3 DEF Gathers

\* The walk of p has come to e, and not yet been told what to make of it.
Reports(p, e) ==
    LET w == walk[p]  v == walk'[p] IN
    /\ w.on \in Sets /\ e \in Elems /\ e \in had[p][w.on]
    /\ IF impl[w.on] = "skip" THEN v.batch = {} /\ v.left = {} ELSE v.batch \subseteq had[p][w.on]
    /\ \A x \in kept[p][w.on] : Judged(p, w.other, x) \/ x \in Left(v) \/ x = e
    /\ call[p].kind \in Chooses =>
         /\ Outdone(p, e)
         /\ impl[w.on] = "skip" => v.at.pos = e /\ \A x \in Left(v) : e <= x

LEMMA ChoosersWalk ==
    ASSUME NEW q \in Requests, NEW s, NEW o, Leg(q, s, o), q.kind \notin Asking
    PROVE  s = q.on /\ o = none
  BY DEF Leg, Asking, Algebra, Relations, Sized

LEMMA DecidedBehind ==
    ASSUME NEW p, Stays(p), History(p), NEW e \in Elems, NEW found \in BOOLEAN, Decides(p, e, found),
           Outdone(p, e), out[p] \subseteq Elems, NEW s \in Sets, NEW o, Behind(p, s, o)
    PROVE  Behind(p, s, o)'
<1>1. kept'[p] = kept[p] /\ kept[p][s] \subseteq Elems
  BY StaysIs
<1>2. ASSUME NEW x \in kept[p][s] PROVE Judged(p, o, x)'
  <2>1. x \in Elems /\ Judged(p, o, x)
    BY <1>1, <1>2 DEF Behind
  <2> QED
    BY <2>1, DecidesKeeps
<1> QED
  BY <1>1, <1>2 DEF Behind

LEMMA DecidedStrolls ==
    ASSUME NEW p, Strides(p), Strolls(p), NEW e, NEW found \in BOOLEAN, Decides(p, e, found),
           Reports(p, e), May(p, walk[p].other, e, found), out[p] \subseteq Elems,
           call[p].kind # "clear", call[p].kind \in Navigations => impl[call[p].on] = "skip"
    PROVE  Strolls(p)'
<1> DEFINE q == call[p]  w == walk[p]  v == walk'[p]
<1>1. PICK s : s = w.on
  OBVIOUS
<1>2. PICK o : o = w.other
  OBVIOUS
<1>0. /\ Stays(p) /\ History(p) /\ v.on = s /\ v.other = o /\ call'[p] = q /\ impl' = impl /\ q \in Requests
      /\ kept'[p] = kept[p] /\ had'[p] = had[p]
  BY <1>1, <1>2, StaysIs DEF Strides
<1>3. s \in Sets /\ e \in Elems /\ e \in had[p][s] /\ Leg(q, s, o) /\ kept[p][s] \subseteq Elems
  <2>1. s \in Sets /\ e \in Elems /\ e \in had[p][s]
    BY <1>1 DEF Reports
  <2>2. s # none
    BY <2>1, SetAssumption
  <2> QED
    BY <1>0, <1>1, <1>2, <2>1, <2>2, StaysIs DEF Strolls, WalksOver
<1>4. q.kind \in Chooses => s = q.on /\ o = none
  BY <1>0, <1>3, ChoosersWalk, SizedIs
<1>5. q.kind \in Chooses => Outdone(p, e) /\ (impl[s] = "skip" => v.at.pos = e /\ \A x \in Left(v) : e <= x)
  BY <1>1 DEF Reports
<1>6. Outdone(p, e)
  BY <1>5 DEF Outdone
<1>7. pc'[p] \in {"walk", "walked"}
  BY DEF Decides
<1>8. ASSUME NEW x \in kept[p][s] PROVE Judged(p, o, x)' \/ (pc'[p] # "walked" /\ x \in Left(v))
  <2>0. x \in Elems
    BY <1>3, <1>8
  <2>1. Judged(p, o, x) \/ x \in Left(v) \/ x = e
    BY <1>1, <1>2, <1>8 DEF Reports
  <2>2. CASE Judged(p, o, x)
    BY <1>0, <1>3, <1>6, <2>0, <2>2, DecidesKeeps
  <2>3. CASE x = e
    <3>1. May(p, o, e, found)
      BY <1>2
    <3>2. Judged(p, o, e)'
      BY <1>0, <1>3, <3>1, DecidedJudged
    <3> QED
      BY <2>3, <3>2
  <2>4. CASE x \in Left(v) /\ pc'[p] = "walked"
    <3>1. q.kind \in Chooses /\ impl[q.on] = "skip" => e <= x
      BY <1>4, <1>5, <2>4
    <3> QED
      BY <1>0, <1>3, <1>4, <2>0, <2>4, <3>1, HaltsJudged
  <2> QED
    BY <2>1, <2>2, <2>3, <2>4
<1>9. ASSUME q.kind \in Chooses
      PROVE  /\ q.kind \in Rising /\ pc'[p] # "walked" => out'[p] = {}
             /\ impl[s] = "skip" => \A m \in out'[p] : m <= v.at.pos
  <2>1. ASSUME q.kind \in Rising, pc'[p] # "walked" PROVE out'[p] = {}
    <3>1. ~Halts(q, e, found)
      BY <2>1 DEF Decides
    <3>2. ~Collects(q, e, found)
      BY <2>1, <3>1, HaltsIs, CollectsIs, RisingIs DEF Navigations
    <3>3. out[p] = {}
      BY <1>6, <1>9, <2>1 DEF Outdone
    <3> QED
      BY <3>2, <3>3 DEF Decides
  <2>2. ASSUME impl[s] = "skip", NEW m \in out'[p] PROVE m <= v.at.pos
    <3>1. v.at.pos = e /\ e \in Nat
      BY <1>3, <1>5, <1>9, <2>2, ElemAssumption
    <3>2. m = e \/ m \in out[p]
      BY <2>2 DEF Decides
    <3>3. \A k \in out[p] : k <= e
      BY <1>4, <1>6, <1>9, <2>2 DEF Outdone
    <3> QED
      BY <3>1, <3>2, <3>3
  <2> QED
    BY <2>1, <2>2
<1>10. ~Telling(p)'
  BY <1>7 DEF Telling, Operating
<1>11. Leg(call[p], s, o)'
  BY <1>0, <1>3, StaysIs
<1>12. IF impl[s] = "skip" THEN v.batch = {} /\ v.left = {} ELSE v.batch \subseteq had[p][s]
  BY <1>1 DEF Reports
<1>13. ASSUME NEW x \in kept'[p][s]
       PROVE  Judged(p, w.other, x)' \/ (pc'[p] # "walked" /\ x \in Left(v))
  <2>1. Judged(p, o, x)' \/ (pc'[p] # "walked" /\ x \in Left(v))
    BY <1>0, <1>8, <1>13
  <2>0. walk'[p].other = o
    BY <1>0
  <2>2. \A f : May(p, o, x, f)' => May(p, w.other, x, f)'
    BY <2>0 DEF May
  <2>3. Judged(p, o, x)' => Judged(p, w.other, x)'
    BY <2>2, Zenon DEF Judged
  <2> QED
    BY <2>1, <2>3
<1> QED
  BY <1>0, <1>9, <1>10, <1>11, <1>12, <1>13 DEF Strolls, WalksOver

LEMMA DecidedLearned ==
    ASSUME NEW p, Strides(p), Learned(p), NEW e, NEW found \in BOOLEAN, Decides(p, e, found),
           Reports(p, e), May(p, walk[p].other, e, found), out[p] \subseteq Elems,
           call[p].kind # "clear", call[p].kind \in Navigations => impl[call[p].on] = "skip"
    PROVE  Learned(p)'
<1>1. PICK s : s = walk[p].on
  OBVIOUS
<1>2. PICK o : o = walk[p].other
  OBVIOUS
<1>3. /\ Stays(p) /\ History(p) /\ pc'[p] \in {"walk", "walked"} /\ call[p] \in Requests /\ s # none
  BY <1>1, StaysIs DEF Strides, Decides
<1>4. e \in Elems /\ Outdone(p, e) /\ s \in Sets /\ e \in had[p][s]
  BY <1>1 DEF Reports, Outdone
<1>5. Leg(call[p], s, o) /\ o \in Consultable /\ May(p, o, e, found)
  <2>1. Leg(call[p], s, o) /\ May(p, o, e, found)
    BY <1>1, <1>2, <1>3 DEF Learned, Strolls, WalksOver
  <2> QED
    BY <1>3, <2>1, LegIs
<1>6. Toured(p)'
  <2>1. \A t \in Sets, c \in Consultable : Behind(p, t, c) => Behind(p, t, c)'
    BY <1>3, <1>4, DecidedBehind
  <2> QED
    BY <2>1, StridesTour DEF Learned
<1>7. Engaged(p)'
  BY <1>3 DEF Engaged, Operating
<1>8. Strolls(p)'
  BY DecidedStrolls DEF Learned
<1>9. Gathers(p)'
  BY <1>3, <1>4, <1>5, DecidedGathers DEF Learned
<1> QED
  BY <1>6, <1>7, <1>8, <1>9, StridesReady, StridesHalves, StridesSizes DEF Learned

LEMMA NavigatorsSkip ==
    ASSUME IInv, NEW p \in Procs, pc[p] # "idle", Walker(call[p])
    PROVE  /\ call[p].kind \in Navigations => impl[call[p].on] = "skip"
           /\ call[p].kind = "clear" => impl[call[p].on] = "skip"
           /\ call[p].kind # "refill"
<1>0. call[p] \in Requests /\ (impl[call[p].on] = "hash" => call[p].kind \notin Sorted)
  BY DEF IInv, Labelled
<1>1. impl \in [Sets -> {"hash", "skip", "tree"}] /\ call[p].on \in Sets
  BY <1>0, MixAssumption, RequestIs DEF IInv, Shape
<1>2. impl[call[p].on] \in {"hash", "skip", "tree"}
  BY <1>1
<1>3. ASSUME call[p].kind \in Navigations PROVE impl[call[p].on] = "skip"
  <2>1. call[p].kind \notin Asking \cup {"scan", "removeFunc", "clear"} /\ call[p].kind \in Sorted
    BY <1>3 DEF Navigations, Asking, Algebra, Relations, Sized, Sorted
  <2> QED
    BY <1>0, <1>2, <2>1 DEF Walker, Locked
<1>4. call[p].kind \notin Asking \cup {"scan", "removeFunc"} \cup Chooses => call[p].kind = "clear" /\ impl[call[p].on] = "skip"
  BY DEF Walker
<1>5. {"clear", "refill"} \cap (Asking \cup {"scan", "removeFunc"} \cup Chooses) = {}
  BY DEF Asking, Algebra, Relations, Sized, Chooses, Pops, Navigations
<1> QED
  BY <1>3, <1>4, <1>5

LEMMA ContinueLearned ==
    ASSUME IInv, IInv', NEW p \in Procs, Continue(p), Ages(p), History(p), Walker(call[p]), Learned(p)
    PROVE  Learned(p)'
<1> DEFINE e == op[p].elem
<1>0. Shape /\ Labelled(p)
  BY DEF IInv
<1>1. /\ Private(p) /\ pc[p] = "told" /\ Decides(p, e, TRUE) /\ op'[p] = op[p] /\ plan'[p] = plan[p]
      /\ walk'[p] = walk[p] /\ snap'[p] = snap[p] /\ sizes'[p] = sizes[p]
  BY <1>0, ContinueFacts
<1>2. Stays(p) /\ History(p)'
  BY <1>1, OwnStays DEF Acts, Step
<1>3. /\ walk[p].on \in Sets /\ call[p] \in Requests /\ op[p] \in Ops
      /\ call[p].kind \in {"scan", "removeFunc"} /\ out[p] \subseteq Elems
  BY <1>0, <1>1 DEF Labelled, Walking
<1>4. call[p].kind \notin Asking \cup Chooses \cup Navigations \cup {"clear"}
  BY <1>3 DEF Asking, Algebra, Relations, Sized, Chooses, Pops, Navigations
<1>5. walk[p].on # none
  BY <1>3, SetAssumption
<1>6. WalksOver(p, walk[p].on)
  BY <1>5 DEF Learned, Strolls
<1>7. walk[p].on = call[p].on /\ walk[p].other = none
  BY <1>3, <1>4, <1>6, ChoosersWalk DEF WalksOver
<1>8. Strides(p)
  BY <1>1, <1>2, <1>5 DEF Strides, Decides, Operating
<1>9. Reports(p, e)
  <2>1. e \in Elems /\ e \in had[p][walk[p].on]
    BY <1>1, <1>3, <1>6 DEF WalksOver, Telling, Ops
  <2>2. \A x \in kept[p][walk[p].on] : Judged(p, walk[p].other, x) \/ x \in Left(walk[p]) \/ x = e
    BY <1>6 DEF WalksOver
  <2>3. IF impl[walk[p].on] = "skip" THEN walk[p].batch = {} /\ walk[p].left = {}
                                     ELSE walk[p].batch \subseteq had[p][walk[p].on]
    BY <1>6 DEF WalksOver
  <2> QED
    BY <1>1, <1>3, <1>4, <2>1, <2>2, <2>3 DEF Reports
<1>10. May(p, walk[p].other, e, TRUE)
  BY <1>7 DEF May
<1> QED
  BY <1>1, <1>3, <1>4, <1>8, <1>9, <1>10, DecidedLearned

LEMMA ConsultedLearned ==
    ASSUME IInv, IInv', NEW p \in Procs, Consulted(p), Ages(p), History(p), Walker(call[p]), Learned(p)
    PROVE  Learned(p)'
<1> DEFINE e == op[p].elem
<1>0. Shape /\ Labelled(p)
  BY DEF IInv
<1>1. /\ Private(p) /\ pc[p] = "got" /\ op[p].kind = "contains" /\ call[p].kind \in Asking
      /\ Decides(p, e, ret[p] # {}) /\ op'[p] = op[p] /\ plan'[p] = plan[p]
      /\ walk'[p] = walk[p] /\ snap'[p] = snap[p] /\ sizes'[p] = sizes[p]
  BY <1>0, ConsultedFacts
<1>2. Stays(p) /\ History(p)'
  BY <1>1, OwnStays DEF Acts, Step
<1>3. call[p] \in Requests /\ op[p] \in Ops /\ out[p] \subseteq Elems
  BY <1>0, <1>1 DEF Labelled, Operating
<1>4. call[p].kind \notin Chooses \cup Navigations \cup {"clear"}
  BY <1>1, SizedIs DEF Asking, Algebra, Relations, Sized, Chooses, Pops, Navigations
<1>5. Consults(p)
  <2>1. Measures(p) \/ Consults(p) \/ Clears(p) \/ Removes(p)
    BY <1>1 DEF Learned, Engaged, Operating
  <2> QED
    BY <1>1, <2>1 DEF Measures, Measure, Measuring, Clears, Removes
<1>6. walk[p].on # none /\ walk[p].on \in Sets /\ op[p].on = walk[p].other /\ op[p].on \in Sets
  <2>1. walk[p] \in Hikes
    BY <1>0 DEF Shape
  <2> QED
    BY <1>3, <1>5, <2>1 DEF Consults, Hikes, Ops
<1>7. WalksOver(p, walk[p].on)
  BY <1>6 DEF Learned, Strolls
<1>8. Strides(p)
  BY <1>1, <1>2, <1>6 DEF Strides, Decides, Operating
<1>9. Reports(p, e)
  <2>1. e \in Elems /\ e \in had[p][walk[p].on]
    BY <1>1, <1>3, <1>7 DEF WalksOver, Telling, Operating, Ops
  <2>2. \A x \in kept[p][walk[p].on] : Judged(p, walk[p].other, x) \/ x \in Left(walk[p]) \/ x = e
    BY <1>7 DEF WalksOver
  <2>3. IF impl[walk[p].on] = "skip" THEN walk[p].batch = {} /\ walk[p].left = {}
                                     ELSE walk[p].batch \subseteq had[p][walk[p].on]
    BY <1>7 DEF WalksOver
  <2> QED
    BY <1>1, <1>4, <1>6, <2>1, <2>2, <2>3 DEF Reports
<1>10. May(p, walk[p].other, e, ret[p] # {})
  <2>1. IF ret[p] = {} THEN e \notin kept[p][walk[p].other] ELSE e \in had[p][walk[p].other]
    BY <1>1, <1>5 DEF Learned, Engaged
  <2>2. walk[p].other # none /\ walk[p].other # "itself"
    BY <1>6, SetAssumption
  <2> QED
    BY <2>1, <2>2 DEF May
<1> QED
  BY <1>1, <1>3, <1>4, <1>8, <1>9, <1>10, DecidedLearned

-----------------------------------------------------------------------------
(* The steps of a walk.                                                    *)

LEMMA VisitReports ==
    ASSUME IInv, NEW p \in Procs, Stays(p), History(p), pc[p] = "walk", Strolls(p),
           NEW e \in Ready(walk[p]), walk'[p] = Past(walk[p], e)
    PROVE  Reports(p, e)
<1> DEFINE q == call[p]  w == walk[p]  v == walk'[p]  s == walk[p].on
<1>0. Shape /\ w \in Hikes /\ s \in Sets /\ s # none /\ q \in Requests
  BY SetAssumption DEF IInv, Shape, Labelled, Walking
<1>1. WalksOver(p, s)
  BY <1>0 DEF Strolls
<1>2. /\ e \in Elems
      /\ impl[s] = "skip" => e \in content[s] /\ e > w.at.pos /\ \A d \in w.at.due : e <= d
      /\ impl[s] # "skip" => e \in w.batch
  BY <1>0, ReadyIs
<1>3. /\ v.left = w.left
      /\ IF impl[s] = "skip" THEN v.batch = w.batch /\ v.at.pos = e /\ v.at.due = w.at.due \ {e}
                             ELSE v.batch = w.batch \ {e} /\ v.at = w.at
  BY <1>0, <1>2, PastIs
<1>4. IF impl[s] = "skip" THEN w.batch = {} /\ w.left = {} ELSE w.batch \subseteq had[p][s]
  BY <1>1 DEF WalksOver
<1>5. e \in had[p][s]
  BY <1>0, <1>2, <1>4, StaysIs
<1>6. ASSUME NEW x \in kept[p][s] PROVE Judged(p, w.other, x) \/ x \in Left(v) \/ x = e
  <2>1. Judged(p, w.other, x) \/ x \in Left(w)
    BY <1>1, <1>6 DEF WalksOver, Telling, Operating
  <2>2. x \in Left(w) => x \in Left(v) \/ x = e
    BY <1>3 DEF Left
  <2> QED
    BY <2>1, <2>2
<1>7. ASSUME q.kind \in Chooses
      PROVE  /\ Outdone(p, e)
             /\ impl[s] = "skip" => v.at.pos = e /\ \A x \in Left(v) : e <= x
  <2>1. s = q.on
    BY <1>0, <1>1, <1>7, ChoosersWalk, SizedIs DEF WalksOver
  <2>2. w.at.pos \in Nat /\ e \in Nat
    BY <1>0, <1>2, ElemAssumption DEF Hikes, Walks
  <2>3. q.kind \in Rising => out[p] = {}
    BY <1>1, <1>7 DEF WalksOver
  <2>4. ASSUME impl[s] = "skip", NEW m \in out[p] PROVE m <= e
    <3>1. m <= w.at.pos
      BY <1>1, <1>7, <2>4 DEF WalksOver
    <3>2. m \in Nat
      <4>1. out[p] \subseteq Elems
        BY DEF IInv, Labelled
      <4> QED
        BY <2>4, <4>1, ElemAssumption
    <3> QED
      BY <1>2, <2>2, <2>4, <3>1, <3>2
  <2>5. impl[s] = "skip" => \A x \in Left(v) : x \in w.at.due
    BY <1>3, <1>4 DEF Left
  <2> QED
    BY <1>2, <1>3, <2>1, <2>3, <2>4, <2>5 DEF Outdone
<1> QED
  BY <1>0, <1>2, <1>3, <1>4, <1>5, <1>6, <1>7 DEF Reports

\* What comes next is up to another set, the method or user code.
LEMMA ToldLearned ==
    ASSUME NEW p, Strides(p), Learned(p), NEW e, Reports(p, e), out'[p] = out[p],
           pc'[p] \in {"act", "told"}, op'[p].elem = e, Engaged(p)'
    PROVE  Learned(p)'
<1> DEFINE q == call[p]  w == walk[p]  v == walk'[p]
<1>1. PICK s : s = w.on
  OBVIOUS
<1>2. PICK o : o = w.other
  OBVIOUS
<1>3. /\ Stays(p) /\ History(p) /\ v.on = s /\ v.other = o /\ call'[p] = q /\ impl' = impl
      /\ kept'[p] = kept[p] /\ had'[p] = had[p] /\ s # none
  BY <1>1, <1>2, StaysIs DEF Strides
<1>4. /\ s \in Sets /\ e \in Elems /\ e \in had[p][s]
      /\ \A x \in kept[p][s] : Judged(p, o, x) \/ x \in Left(v) \/ x = e
  BY <1>1, <1>2 DEF Reports
<1>5. WalksOver(p, s)
  BY <1>1, <1>3 DEF Learned, Strolls
<1>6. ASSUME NEW t, NEW x, Judged(p, t, x) PROVE Judged(p, t, x)'
  BY <1>3, <1>6, JudgedKeeps
<1>7. Toured(p)'
  <2>1. \A t \in Sets, c \in Consultable : Behind(p, t, c) => Behind(p, t, c)'
    BY <1>3, <1>6 DEF Behind
  <2> QED
    BY <2>1, StridesTour DEF Learned
<1>8. Strolls(p)'
  <2>1. Telling(p)' /\ pc'[p] # "walked"
    BY DEF Telling, Operating
  <2>2. Leg(call[p], s, o)'
    BY <1>2, <1>3, <1>5, StaysIs DEF WalksOver
  <2>3. ASSUME NEW x \in kept'[p][s]
        PROVE  Judged(p, w.other, x)' \/ x \in Left(v) \/ x = op'[p].elem
    <3>1. Judged(p, o, x) \/ x \in Left(v) \/ x = e
      BY <1>3, <1>4, <2>3
    <3>2. walk'[p].other = o
      BY <1>3
    <3>3. \A f : May(p, o, x, f)' => May(p, w.other, x, f)'
      BY <3>2 DEF May
    <3>4. Judged(p, o, x)' => Judged(p, w.other, x)'
      BY <3>3, Zenon DEF Judged
    <3> QED
      BY <1>6, <3>1, <3>4
  <2>4. op'[p].elem \in had'[p][s]
    BY <1>3, <1>4
  <2>5. IF impl[s] = "skip" THEN v.batch = {} /\ v.left = {} ELSE v.batch \subseteq had[p][s]
    BY <1>1 DEF Reports
  <2>6. ASSUME q.kind \in Chooses
        PROVE  /\ q.kind \in Rising => out[p] = {}
               /\ impl[s] = "skip" => \A m \in out[p] : m <= v.at.pos
    <3>1. s = q.on
      BY <1>3, <1>5, <2>6, StaysIs, ChoosersWalk, SizedIs DEF WalksOver
    <3> QED
      BY <1>1, <2>6, <3>1 DEF Reports, Outdone
  <2> QED
    BY <1>3, <2>1, <2>2, <2>3, <2>4, <2>5, <2>6 DEF Strolls, WalksOver
<1>9. Gathers(p)'
  <2>1. \A x \in out'[p] : Sound(p, x)'
    BY <1>3, StaysIs DEF Learned, Gathers
  <2> QED
    BY <1>3, <2>1 DEF Learned, Gathers
<1> QED
  BY <1>7, <1>8, <1>9, StridesReady, StridesHalves, StridesSizes DEF Learned

LEMMA VisitLearned ==
    ASSUME IInv, IInv', NEW p \in Procs, Visit(p), Ages(p), History(p), Walker(call[p]), Learned(p)
    PROVE  Learned(p)'
<1> DEFINE q == call[p]  w == walk[p]
<1>0. Shape /\ Labelled(p)
  BY DEF IInv
<1>1. /\ Private(p) /\ pc[p] = "walk" /\ plan'[p] = plan[p] /\ snap'[p] = snap[p] /\ sizes'[p] = sizes[p]
  BY <1>0, VisitFacts
<1>2. PICK e \in Ready(w) :
        /\ walk'[p] = Past(w, e)
        /\ \/ /\ w.other \in Sets /\ op'[p] = Op("contains", w.other, none, e, {})
              /\ pc'[p] = "act" /\ out'[p] = out[p]
           \/ /\ w.other \notin Sets /\ w.other = "itself" /\ Decides(p, e, e \in snap[p])
           \/ /\ w.other \notin Sets /\ w.other # "itself" /\ q.kind \in {"clear", "refill"}
              /\ op'[p] = Op("remove", q.on, none, e, {}) /\ pc'[p] = "act" /\ out'[p] = out[p]
           \/ /\ w.other \notin Sets /\ w.other # "itself"
              /\ op'[p] = Op("walk", q.on, none, e, {}) /\ pc'[p] = "told" /\ out'[p] = out[p]
           \/ /\ w.other \notin Sets /\ w.other # "itself"
              /\ q.kind \notin {"clear", "refill", "scan", "removeFunc"}
              /\ Decides(p, e, TRUE)
  BY <1>0, VisitFacts
<1>3. Stays(p) /\ History(p)'
  BY <1>1, OwnStays DEF Acts, Step
<1>4. Reports(p, e)
  BY <1>1, <1>2, <1>3, VisitReports DEF Learned
<1>5. w \in Hikes /\ w.on \in Sets /\ w.on # none /\ e \in Elems /\ out[p] \subseteq Elems /\ q \in Requests
  BY <1>0, <1>1, <1>4, SetAssumption DEF Shape, Labelled, Walking, Reports
<1>6. walk'[p].on = w.on /\ walk'[p].other = w.other
  BY <1>2, <1>5, PastIs
<1>7. Leg(q, w.on, w.other) /\ w.other \in Sets \cup {none, "itself"}
  BY <1>5 DEF Learned, Strolls, WalksOver, Hikes
<1>8. /\ q.kind \in Navigations => impl[q.on] = "skip"
      /\ q.kind # "refill"
  BY <1>1, NavigatorsSkip
<1>9. CASE w.other \in Sets /\ op'[p] = Op("contains", w.other, none, e, {}) /\ pc'[p] = "act" /\ out'[p] = out[p]
  <2>1. op'[p].kind = "contains" /\ op'[p].on = w.other /\ op'[p].elem = e
    BY <1>9 DEF Op
  <2>2. Strides(p)
    BY <1>1, <1>3, <1>5, <1>6, <1>9, <2>1 DEF Strides, Measuring
  <2>3. Engaged(p)'
    BY <1>5, <1>6, <1>9, <2>1 DEF Engaged, Consults
  <2> QED
    BY <1>4, <1>9, <2>1, <2>2, <2>3, ToldLearned
<1>10. CASE w.other = "itself" /\ Decides(p, e, e \in snap[p])
  <2>1. Strides(p)
    BY <1>1, <1>3, <1>5, <1>6, <1>10 DEF Strides, Decides, Operating
  <2>2. Locked(q.on) /\ q.kind = "symmetricDifference"
    BY <1>5, <1>7, <1>10, LegIs
  <2>3. snap[p] \in SUBSET Elems /\ Spanned(p, q.on, snap[p])
    BY <1>5, <2>2 DEF Learned, Halves
  <2>4. May(p, w.other, e, e \in snap[p])
    BY <1>10, <2>3, SetAssumption DEF May, Spanned
  <2>5. q.kind # "clear" /\ (e \in snap[p]) \in BOOLEAN
    BY <2>2
  <2> QED
    BY <1>4, <1>5, <1>8, <1>10, <2>1, <2>4, <2>5, DecidedLearned
<1>11. CASE /\ w.other = none /\ q.kind \in {"clear", "refill"}
            /\ op'[p] = Op("remove", q.on, none, e, {}) /\ pc'[p] = "act" /\ out'[p] = out[p]
  <2>1. op'[p].kind = "remove" /\ op'[p].on = q.on /\ op'[p].elem = e
    BY <1>11 DEF Op
  <2>2. Strides(p)
    BY <1>1, <1>3, <1>5, <1>6, <1>11, <2>1 DEF Strides, Measuring
  <2>3. q.kind = "clear" /\ w.on = q.on
    <3>1. q.kind = "clear" /\ q.kind \notin Asking
      BY <1>8, <1>11 DEF Asking, Algebra, Relations, Sized
    <3> QED
      BY <1>5, <1>7, <3>1, ChoosersWalk
  <2>4. Engaged(p)'
    BY <1>3, <1>6, <1>11, <2>1, <2>3, StaysIs DEF Engaged, Clears
  <2> QED
    BY <1>4, <1>11, <2>1, <2>2, <2>4, ToldLearned
<1>12. CASE op'[p] = Op("walk", q.on, none, e, {}) /\ pc'[p] = "told" /\ out'[p] = out[p]
  <2>1. op'[p].elem = e
    BY <1>12 DEF Op
  <2>2. Strides(p)
    BY <1>1, <1>3, <1>5, <1>6, <1>12 DEF Strides, Operating
  <2>3. Engaged(p)'
    BY <1>12 DEF Engaged, Operating
  <2> QED
    BY <1>4, <1>12, <2>1, <2>2, <2>3, ToldLearned
<1>13. CASE w.other = none /\ q.kind \notin {"clear", "refill", "scan", "removeFunc"} /\ Decides(p, e, TRUE)
  <2>1. Strides(p)
    BY <1>1, <1>3, <1>5, <1>6, <1>13 DEF Strides, Decides, Operating
  <2>2. May(p, w.other, e, TRUE)
    BY <1>13 DEF May
  <2> QED
    BY <1>4, <1>5, <1>8, <1>13, <2>1, <2>2, DecidedLearned
<1>14. w.other \in Sets => w.other # none /\ w.other # "itself"
  BY SetAssumption
<1> QED
  BY <1>2, <1>7, <1>9, <1>10, <1>11, <1>12, <1>13

\* The walk goes on, or is over.
LEMMA StrolledLearned ==
    ASSUME NEW p, Strides(p), Learned(p), out'[p] = out[p], pc[p] # "walked", pc'[p] \in {"walk", "walked"},
           NEW s \in Sets, walk[p].on = s, walk'[p].at.pos = walk[p].at.pos,
           IF impl[s] = "skip" THEN walk'[p].batch = {} /\ walk'[p].left = {}
                               ELSE walk'[p].batch \subseteq had[p][s],
           \A x \in kept[p][s] : Judged(p, walk[p].other, x) \/ (pc'[p] = "walk" /\ x \in Left(walk'[p]))
    PROVE  Learned(p)'
<1> DEFINE q == call[p]  w == walk[p]  v == walk'[p]
<1>1. PICK o : o = w.other
  OBVIOUS
<1>2. /\ Stays(p) /\ History(p) /\ v.on = s /\ v.other = o /\ call'[p] = q /\ impl' = impl
      /\ kept'[p] = kept[p] /\ had'[p] = had[p] /\ s # none
  BY <1>1, StaysIs, SetAssumption DEF Strides
<1>3. WalksOver(p, s)
  BY <1>2 DEF Learned, Strolls
<1>4. ASSUME NEW t, NEW x, Judged(p, t, x) PROVE Judged(p, t, x)'
  BY <1>2, <1>4, JudgedKeeps
<1>5. Toured(p)'
  <2>1. \A t \in Sets, c \in Consultable : Behind(p, t, c) => Behind(p, t, c)'
    BY <1>2, <1>4 DEF Behind
  <2> QED
    BY <2>1, StridesTour DEF Learned
<1>6. Strolls(p)'
  <2>1. ~Telling(p)'
    BY DEF Telling, Operating
  <2>2. Leg(call[p], s, o)'
    BY <1>1, <1>2, <1>3, StaysIs DEF WalksOver
  <2>3. ASSUME NEW x \in kept'[p][s]
        PROVE  Judged(p, w.other, x)' \/ (pc'[p] = "walk" /\ x \in Left(v))
    <3>1. Judged(p, o, x) \/ (pc'[p] = "walk" /\ x \in Left(v))
      BY <1>1, <1>2, <2>3
    <3>2. walk'[p].other = o
      BY <1>2
    <3>3. \A f : May(p, o, x, f)' => May(p, w.other, x, f)'
      BY <3>2 DEF May
    <3>4. Judged(p, o, x)' => Judged(p, w.other, x)'
      BY <3>3, Zenon DEF Judged
    <3> QED
      BY <1>4, <3>1, <3>4
  <2>4. ASSUME q.kind \in Chooses
        PROVE  /\ q.kind \in Rising => out[p] = {}
               /\ impl[s] = "skip" => \A m \in out[p] : m <= v.at.pos
    BY <1>3, <2>4 DEF WalksOver
  <2> QED
    BY <1>2, <2>1, <2>2, <2>3, <2>4 DEF Strolls, WalksOver
<1>7. Engaged(p)'
  BY DEF Engaged, Operating
<1>8. Gathers(p)'
  <2>1. \A x \in out'[p] : Sound(p, x)'
    BY <1>2, StaysIs DEF Learned, Gathers
  <2> QED
    BY <1>2, <2>1 DEF Learned, Gathers
<1> QED
  BY <1>5, <1>6, <1>7, <1>8, StridesReady, StridesHalves, StridesSizes DEF Learned

LEMMA WalkLearned ==
    ASSUME IInv, IInv', NEW p \in Procs, NextBucket(p) \/ WalkEnds(p), Ages(p), History(p), Learned(p)
    PROVE  Learned(p)'
<1> DEFINE w == walk[p]  v == walk'[p]  s == walk[p].on
<1>0. Shape /\ Labelled(p)
  BY DEF IInv
<1>1. /\ Private(p) /\ pc[p] = "walk" /\ pc'[p] \in {"walk", "walked"} /\ plan'[p] = plan[p]
      /\ snap'[p] = snap[p] /\ sizes'[p] = sizes[p] /\ out'[p] = out[p]
  BY <1>0, NextBucketFacts, WalkEndsFacts DEF Moves
<1>2. Stays(p) /\ History(p)'
  BY <1>1, OwnStays DEF Acts, Step
<1>3. w \in Hikes /\ s \in Sets /\ s # none
  BY <1>0, <1>1, SetAssumption DEF Shape, Labelled, Walking
<1>4. WalksOver(p, s)
  BY <1>3 DEF Learned, Strolls
<1>5. ASSUME NEW x \in kept[p][s] PROVE Judged(p, w.other, x) \/ x \in Left(w)
  BY <1>1, <1>4, <1>5 DEF WalksOver, Telling, Operating
<1>6. IF impl[s] = "skip" THEN w.batch = {} /\ w.left = {} ELSE w.batch \subseteq had[p][s]
  BY <1>4 DEF WalksOver
<1>7. CASE NextBucket(p)
  <2>1. PICK b \in w.left : v = Copying(w, b)
    BY <1>0, <1>7, NextBucketFacts
  <2>2. pc'[p] = "walk" /\ w.batch = {}
    BY <1>0, <1>7, NextBucketFacts DEF Moves
  <2>3. v.on = s /\ v.other = w.other /\ v.at = w.at /\ v.left = w.left \ {b} /\ v.batch = b \cap content[s]
    BY <1>0, <1>3, <2>1, CopyingIs
  <2>4. Strides(p)
    BY <1>1, <1>2, <1>3, <2>2, <2>3 DEF Strides, Operating
  <2>5. impl[s] # "skip" /\ v.batch \subseteq had[p][s]
    BY <1>2, <1>3, <1>6, <2>3, StaysIs
  <2>6. ASSUME NEW x \in kept[p][s] PROVE Judged(p, w.other, x) \/ x \in Left(v)
    <3>1. x \in content[s]
      BY <1>2, <1>3, <2>6, StaysIs
    <3>2. x \in Left(w) => x \in Left(v)
      <4>1. ASSUME NEW c \in w.left, x \in c PROVE x \in v.batch \/ x \in UNION v.left
        BY <2>3, <3>1, <4>1
      <4> QED
        BY <2>2, <2>3, <4>1 DEF Left
    <3> QED
      BY <1>5, <2>6, <3>2
  <2> QED
    BY <1>1, <1>3, <2>2, <2>3, <2>4, <2>5, <2>6, StrolledLearned
<1>8. CASE WalkEnds(p)
  <2>1. Over(w) /\ v = w
    BY <1>0, <1>8, WalkEndsFacts
  <2>2. Strides(p)
    BY <1>1, <1>2, <1>3, <2>1 DEF Strides, Operating
  <2>3. Left(w) = {}
    BY <2>1 DEF Left, Over, AtEnd
  <2> QED
    BY <1>1, <1>3, <1>5, <1>6, <2>1, <2>2, <2>3, StrolledLearned
<1> QED
  BY <1>7, <1>8

\* Only Clear has something to resume while it walks.
LEMMA ResumeLearned ==
    ASSUME IInv, IInv', NEW p \in Procs, Resume(p), Ages(p), History(p), Learned(p)
    PROVE  Learned(p)' /\ pc'[p] # "done"
<1> DEFINE q == call[p]  w == walk[p]  s == walk[p].on
<1>0. Shape /\ Labelled(p)
  BY DEF IInv
<1>1. /\ Private(p) /\ pc[p] = "got" /\ plan'[p] = plan[p] /\ walk'[p] = w
      /\ pc'[p] = IF op[p].kind = "remove" /\ s # none THEN "walk"
                  ELSE IF op[p].kind = "contains" /\ ret[p] = {} THEN "done" ELSE "next"
      /\ op[p].kind \in Kinds /\ q.kind \notin Asking /\ ~(op[p].kind = "remove" /\ q.kind \in Pops)
      /\ snap'[p] = snap[p] /\ sizes'[p] = sizes[p] /\ out'[p] = out[p]
  BY <1>0, ResumeFacts DEF Moves
<1>2. Stays(p) /\ History(p)'
  BY <1>1, OwnStays DEF Acts, Step
<1>3. q \in Requests /\ op[p] \in Ops /\ op[p].on \in Sets /\ w \in Hikes /\ q.on \in Sets /\ q.on # none
  BY <1>0, <1>1, <1>2, StaysIs, SetAssumption DEF Shape, Labelled, Operating, Ops
<1>4. Clears(p)
  <2>1. Measures(p) \/ Consults(p) \/ Clears(p) \/ Removes(p)
    BY <1>1 DEF Learned, Engaged, Operating
  <2>2. ~Measures(p)
    BY <1>1 DEF Measures, Measure, Measuring, Kinds, Points, Batches, Pops, Algebra, Relations, Sized, Navigations, Updates
  <2>3. ~Consults(p)
    <3>1. ASSUME Consults(p) PROVE FALSE
      <4>1. s # none /\ op[p].on = w.other
        BY <3>1 DEF Consults
      <4>2. Leg(q, s, w.other)
        BY <4>1 DEF Learned, Strolls, WalksOver
      <4> QED
        BY <1>1, <1>3, <4>1, <4>2, ChoosersWalk, SetAssumption
    <3> QED
      BY <3>1
  <2>4. ~Removes(p)
    BY <1>1 DEF Removes
  <2> QED
    BY <2>1, <2>2, <2>3, <2>4
<1>5. s = q.on /\ op[p].kind = "remove" /\ q.kind = "clear" /\ op[p].elem \notin kept[p][s]
  BY <1>1, <1>4 DEF Clears, Learned, Engaged
<1>6. pc'[p] = "walk" /\ s # none /\ s \in Sets
  BY <1>1, <1>3, <1>5
<1>7. WalksOver(p, s)
  BY <1>6 DEF Learned, Strolls
<1>8. ASSUME NEW x \in kept[p][s] PROVE Judged(p, w.other, x) \/ x \in Left(w)
  BY <1>5, <1>7, <1>8 DEF WalksOver
<1>9. IF impl[s] = "skip" THEN w.batch = {} /\ w.left = {} ELSE w.batch \subseteq had[p][s]
  BY <1>7 DEF WalksOver
<1>10. Strides(p)
  BY <1>1, <1>2, <1>6 DEF Strides, Operating
<1> QED
  BY <1>1, <1>6, <1>8, <1>9, <1>10, StrolledLearned

-----------------------------------------------------------------------------
(* After a walk.                                                           *)

LEMMA WalkedBehind ==
    ASSUME NEW p, Stays(p), History(p), pc[p] = "walked", walk[p].on \in Sets, Strolls(p), out'[p] = out[p]
    PROVE  /\ \A e \in kept[p][walk[p].on] : Judged(p, walk[p].other, e)
           /\ \A s \in Sets : \A o : Here(p, s, o) \/ Behind(p, s, o) => Behind(p, s, o)'
<1>1. WalksOver(p, walk[p].on)
  BY SetAssumption DEF Strolls
<1>2. ~Telling(p)
  BY DEF Telling, Operating
<1>3. \A e \in kept[p][walk[p].on] : Judged(p, walk[p].other, e)
  BY <1>1, <1>2 DEF WalksOver
<1>4. ASSUME NEW s \in Sets, NEW o, Here(p, s, o) \/ Behind(p, s, o) PROVE Behind(p, s, o)'
  <2>1. Behind(p, s, o)
    BY <1>3, <1>4 DEF Here, Behind
  <2>2. kept'[p] = kept[p]
    BY StaysIs
  <2>3. ASSUME NEW e \in kept[p][s] PROVE Judged(p, o, e)'
    BY <2>1, <2>3, JudgedKeeps DEF Behind
  <2> QED
    BY <2>2, <2>3 DEF Behind
<1> QED
  BY <1>3, <1>4

LEMMA WalkedLearned ==
    ASSUME NEW p, Stays(p), History(p), Learned(p), pc[p] = "walked", walk[p].on \in Sets,
           walk'[p] = Nowhere, plan'[p] = plan[p], snap'[p] = snap[p], sizes'[p] = sizes[p], out'[p] = out[p],
           call[p].kind # "removeFunc", Engaged(p)', pc'[p] \in {"act", "next"},
           pc'[p] = "act" => call[p].kind \in Pops,
           call[p].kind \in Pops /\ pc'[p] = "next" => out[p] = {}
    PROVE  Learned(p)'
<1> DEFINE q == call[p]
<1>0. /\ walk[p].on # none /\ walk'[p].on = none /\ call'[p] = q /\ content' = content /\ alone'[p] = alone[p]
      /\ q \in Requests
  BY NowhereIs, StaysIs, SetAssumption
<1>1. Toured(p)'
  <2>1. Onward(call[p], plan[p])'
    <3>1. PICK l : l = plan[p]
      OBVIOUS
    <3>2. Onward(call[p], l)'
      BY <3>1, OnwardStays DEF Learned, Toured
    <3> QED
      BY <3>1, <3>2 DEF Onward
  <2>2. ASSUME NEW s \in Sets, NEW o \in Consultable, Leg(call[p], s, o)'
        PROVE  Ahead(p, s, o)' \/ Behind(p, s, o)'
    <3>1. Ahead(p, s, o) \/ Here(p, s, o) \/ Behind(p, s, o)
      BY <2>2, StaysIs DEF Learned, Toured
    <3>2. Ahead(p, s, o)' <=> Ahead(p, s, o)
      BY DEF Ahead, Coming
    <3> QED
      BY <3>1, <3>2, WalkedBehind DEF Learned
  <2>3. q.kind \in Chooses => plan[p] = <<>>
    BY <1>0 DEF Learned, Toured
  <2> QED
    BY <1>0, <2>1, <2>2, <2>3 DEF Toured
<1>2. Strolls(p)'
  BY <1>0 DEF Strolls
<1>3. Gathers(p)'
  <2>1. \A x \in out'[p] : Sound(p, x)'
    BY StaysIs DEF Learned, Gathers
  <2> QED
    BY <1>0, <2>1 DEF Learned, Gathers
<1>4. Readied(p)'
  <2>1. Prepared(plan[p], none)
    BY <1>0 DEF Learned, Readied
  <2>2. Prepared(plan[p], none)'
    BY <2>1, StaysIs DEF Prepared, Shot
  <2> QED
    BY <2>2 DEF Readied
<1>5. Halves(p)'
  BY <1>0, StaysIs DEF Learned, Halves, Spanned
<1>6. Sizes(p)'
  <2>1. ASSUME q.kind \in Sized
        PROVE  /\ Len(sizes[p]) # 1 /\ sizes[p] # <<>>
               /\ Len(sizes[p]) > 1 =>
                    /\ alone[p] => SizesFit(q.kind, Cardinality(content[q.on]), Cardinality(content[q.other]))
                    /\ \A i \in DOMAIN plan[p] : ~Counting(q, plan[p][i])
               /\ pc'[p] \notin Operating
    <3>1. Sizes(p) /\ q.kind \notin Pops
      BY <2>1, SizedIs DEF Learned, Chooses
    <3> QED
      BY <1>0, <2>1, <3>1 DEF Sizes, Operating
  <2> QED
    BY <1>0, <2>1 DEF Sizes, Counting
<1> QED
  BY <1>1, <1>2, <1>3, <1>4, <1>5, <1>6 DEF Learned

\* What is left to do of RemoveFunc.
LEMMA DeletionBegins ==
    ASSUME IInv, NEW p \in Procs, Conclude(p), Stays(p), History(p), Learned(p), call[p].kind = "removeFunc"
    PROVE  Deleting(p)'
<1> DEFINE q == call[p]
<1>0. Shape /\ Labelled(p)
  BY DEF IInv
<1>1. /\ pc[p] = "walked" /\ walk'[p] = Nowhere /\ out'[p] = out[p] /\ pc'[p] = "next"
      /\ IF Locked(q.on) THEN plan'[p] = <<Op("removeAll", q.on, none, 1, out[p])>>
                         ELSE plan'[p] \in Each("remove", q.on, out[p])
  BY <1>0, ConcludeFacts DEF Pops
<1>2. walk[p].on \in Sets /\ out[p] \in SUBSET Elems /\ q \in Requests /\ q.on \in Sets
  BY <1>0, <1>1, StaysIs DEF Labelled, Walking
<1>3. q.kind \notin Asking \cup Chooses \cup Relations /\ q.kind \in Updates
  BY DEF Asking, Algebra, Relations, Sized, Chooses, Pops, Navigations, Updates
<1>4. walk[p].on = q.on /\ walk[p].other = none
  <2>1. Leg(q, walk[p].on, walk[p].other)
    BY <1>2, SetAssumption DEF Learned, Strolls, WalksOver
  <2> QED
    BY <1>2, <1>3, <2>1, ChoosersWalk
<1>5. ASSUME NEW e \in kept[p][q.on] \cap q.elems PROVE e \in out[p]
  <2>1. Judged(p, walk[p].other, e)
    BY <1>1, <1>2, <1>4, <1>5, WalkedBehind DEF Learned
  <2>2. ~\E found \in BOOLEAN : May(p, walk[p].other, e, found) /\ ~Collects(q, e, found)
    BY <1>4, <1>5, CollectsIs DEF May
  <2> QED
    BY <1>3, <2>1, <2>2 DEF Judged
<1>6. call'[p] = q /\ kept'[p] = kept[p] /\ walk'[p].on = none
  BY <1>1, StaysIs, NowhereIs
<1>7. /\ \A i \in DOMAIN plan'[p] : plan'[p][i].kind \in {"remove", "removeAll"} /\ plan'[p][i].on = q.on
      /\ \A e \in out[p] : \E i \in DOMAIN plan'[p] : e \in Hits(plan'[p][i])
  <2>1. CASE Locked(q.on)
    <3> DEFINE o == Op("removeAll", q.on, none, 1, out[p])
    <3>1. o.kind = "removeAll" /\ o.on = q.on /\ o.elems = out[p]
      BY DEF Op
    <3>2. plan'[p] = <<o>>
      BY <1>1, <2>1
    <3> HIDE DEF o
    <3>3. DOMAIN <<o>> = {1} /\ <<o>>[1] = o
      OBVIOUS
    <3> QED
      BY <3>1, <3>2, <3>3 DEF Hits
  <2>2. CASE ~Locked(q.on)
    <3>1. /\ \A i \in DOMAIN plan'[p] : plan'[p][i].kind = "remove" /\ plan'[p][i].on = q.on
          /\ \A e \in out[p] : \E i \in DOMAIN plan'[p] : plan'[p][i].elem = e
      BY <1>1, <1>2, <1>3, <2>2, EachTyped
    <3> QED
      BY <3>1 DEF Hits
  <2> QED
    BY <2>1, <2>2
<1> QED
  BY <1>1, <1>5, <1>6, <1>7 DEF Deleting, Deletion, Hits, Operating

LEMMA ConcludeLearned ==
    ASSUME IInv, IInv', NEW p \in Procs, Conclude(p), Ages(p), History(p), Learned(p)
    PROVE  Learned(p)' \/ Deleting(p)'
<1> DEFINE q == call[p]
<1>0. Shape /\ Labelled(p)
  BY DEF IInv
<1>1. /\ Private(p) /\ pc[p] = "walked" /\ walk'[p] = Nowhere
      /\ snap'[p] = snap[p] /\ sizes'[p] = sizes[p] /\ out'[p] = out[p]
  BY <1>0, ConcludeFacts
<1>2. Stays(p) /\ History(p)'
  BY <1>1, OwnStays DEF Acts, Step
<1>3. walk[p].on \in Sets /\ walk[p].on # none /\ walk'[p].on = none /\ call'[p] = q
  BY <1>0, <1>1, <1>2, NowhereIs, StaysIs, SetAssumption DEF Labelled, Walking
<1>4. CASE q.kind = "removeFunc"
  BY <1>2, <1>4, DeletionBegins
<1>5. CASE q.kind \in Pops /\ pc'[p] = "act" /\ plan'[p] = plan[p] /\ \E e \in out[p] : op'[p] = Op("remove", q.on, none, e, {})
  <2>1. PICK e \in out[p] : op'[p] = Op("remove", q.on, none, e, {})
    BY <1>5
  <2>2. op'[p].kind = "remove" /\ op'[p].on = q.on /\ op'[p].elem = e
    BY <2>1 DEF Op
  <2>3. out[p] = {e}
    BY <1>5, <2>1 DEF Learned, Gathers, Chooses
  <2>4. plan[p] = <<>>
    BY <1>3, <1>5 DEF Learned, Toured, Chooses
  <2>5. Engaged(p)'
    BY <1>1, <1>3, <1>5, <2>2, <2>3, <2>4 DEF Engaged, Removes
  <2>6. q.kind # "removeFunc"
    BY <1>5 DEF Pops
  <2> QED
    BY <1>1, <1>2, <1>3, <1>5, <2>5, <2>6, WalkedLearned
<1>6. CASE q.kind # "removeFunc" /\ (q.kind \in Pops => out[p] = {}) /\ pc'[p] = "next" /\ plan'[p] = plan[p]
  <2>1. Engaged(p)'
    BY <1>3, <1>6 DEF Engaged, Operating
  <2> QED
    BY <1>1, <1>2, <1>3, <1>6, <2>1, WalkedLearned
<1> QED
  BY <1>0, <1>4, <1>5, <1>6, ConcludeFacts

-----------------------------------------------------------------------------
(* The next operation.                                                     *)

LEMMA WalkIs ==
    ASSUME NEW q \in Requests, NEW s \in Sets, NEW o \in Consultable
    PROVE  LET l == Walk(s, o) IN
           /\ l \in Seq(Ops) /\ l # <<>>
           /\ \A i \in DOMAIN l : l[i].kind = "walk" \/ (l[i].kind = "snapshot" /\ Locked(s))
           /\ Locked(s) => Head(l).kind = "snapshot" /\ Head(l).on = s
           /\ ~Locked(s) => Tail(l) = <<>>
<1> DEFINE a == Op("snapshot", s, none, 1, {})  b == Op("walk", s, o, 1, {})
<1>1. a \in Ops /\ b \in Ops
  BY MeasureOps, AllowedType DEF Consultable
<1>2. a.kind = "snapshot" /\ a.on = s /\ b.kind = "walk"
  BY DEF Op
<1>3. Walk(s, o) = IF Locked(s) THEN <<a, b>> ELSE <<b>>
  BY DEF Walk
<1> HIDE DEF a, b
<1>4. <<a, b>> \in Seq(Ops) /\ <<a, b>> # <<>> /\ DOMAIN <<a, b>> = {1, 2} /\ <<a, b>>[1] = a /\ <<a, b>>[2] = b
  BY <1>1
<1>5. <<b>> \in Seq(Ops) /\ <<b>> # <<>> /\ DOMAIN <<b>> = {1} /\ <<b>>[1] = b
  BY <1>1
<1>6. Head(<<a, b>>) = a
  BY <1>4, HeadOf
<1>7. Tail(<<b>>) = <<>>
  OBVIOUS
<1>8. CASE Locked(s)
  BY <1>2, <1>3, <1>4, <1>6, <1>8
<1>9. CASE ~Locked(s)
  BY <1>2, <1>3, <1>5, <1>7, <1>9
<1> QED
  BY <1>8, <1>9

LEMMA CombineIs ==
    ASSUME NEW q \in Requests, q.kind = "symmetricDifference", Locked(q.on)
    PROVE  LET l == Combine(q) IN
           l \in Seq(Ops) /\ l # <<>> /\ Head(l).kind = "snapshot" /\ Head(l).on = q.on
<1> DEFINE a == Walk(q.on, q.other)  b == Walk(q.other, "itself")
<1>1. Combine(q) = a \o b
  BY DEF Combine, Back
<1>2. /\ a \in Seq(Ops) /\ a # <<>> /\ Head(a).kind = "snapshot" /\ Head(a).on = q.on
      /\ b \in Seq(Ops)
  BY RequestIs, WalkIs DEF Consultable
<1> HIDE DEF a, b
<1> QED
  BY <1>1, <1>2, HeadJoined

LEMMA CompareIs ==
    ASSUME NEW q \in Requests, q.kind \in Sized
    PROVE  LET l == Compare(q) IN
           /\ l \in Seq(Ops) /\ Len(l) \in Nat /\ Len(l) > 2
           /\ l[1].on = q.on /\ Counting(q, l[1])
           /\ l[2].on = q.other /\ l[2].kind = "size"
           /\ \A i \in 3 .. Len(l) : ~Counting(q, l[i])
<1>q. q.on \in Sets /\ q.other \in Sets /\ q.on \in Consultable /\ q.other \in Consultable
  BY RequestIs DEF Consultable
<1>1. CASE q.kind = "equals" /\ Locked(q.on)
  <2> DEFINE a == Op("snapshot", q.on, none, 1, {})  b == Op("walk", q.on, q.other, 1, {})
             c == Op("size", q.other, none, 1, {})
  <2>1. a \in Ops /\ b \in Ops /\ c \in Ops
    BY <1>q, MeasureOps, AllowedType
  <2>2. a.kind = "snapshot" /\ a.on = q.on /\ b.kind = "walk" /\ c.kind = "size" /\ c.on = q.other
    BY DEF Op
  <2>3. Walk(q.on, q.other) = <<a, b>> /\ SizeOf(q.other) = <<c>>
    BY <1>1 DEF Walk, SizeOf
  <2> HIDE DEF a, b, c
  <2>4. Compare(q) = <<<<a, b>>[1]>> \o <<c>> \o <<<<a, b>>[2]>>
    BY <1>1, <2>3 DEF Compare
  <2> DEFINE l == <<a>> \o <<c>> \o <<b>>
  <2>5. Compare(q) = l
    <3>1. <<a, b>>[1] = a /\ <<a, b>>[2] = b
      OBVIOUS
    <3> QED
      BY <2>4, <3>1
  <2>6. l \in Seq(Ops) /\ Len(l) = 3 /\ l[1] = a /\ l[2] = c /\ l[3] = b
    BY <2>1, ThreeInARow
  <2> HIDE DEF l
  <2>7. \A i \in 3 .. Len(l) : i = 3
    BY <2>6
  <2> QED
    BY <1>1, <2>2, <2>5, <2>6, <2>7 DEF Counting
<1>2. CASE ~(q.kind = "equals" /\ Locked(q.on))
  <2> DEFINE a == Op("size", q.on, none, 1, {})  b == Op("size", q.other, none, 1, {})
             t == SizeOf(q.on) \o SizeOf(q.other)
  <2>1. PICK s, o \in {q.on, q.other} : Compare(q) = t \o Walk(s, o) /\ (q.kind = "equals" => ~Locked(s))
    <3>1. CASE q.kind = "isProperSupersetOf"
      BY <3>1 DEF Compare
    <3>2. CASE q.kind # "isProperSupersetOf"
      <4>1. Compare(q) = t \o Walk(q.on, q.other)
        BY <1>2, <3>2 DEF Compare
      <4> QED
        BY <1>2, <4>1
    <3> QED
      BY <3>1, <3>2
  <2> DEFINE w == Walk(s, o)
  <2>2. w \in Seq(Ops) /\ w # <<>> /\ \A i \in DOMAIN w : w[i].kind = "walk" \/ (w[i].kind = "snapshot" /\ Locked(s))
    BY <1>q, <2>1, WalkIs
  <2>3. a \in Ops /\ b \in Ops
    BY <1>q, MeasureOps, AllowedType
  <2>4. a.kind = "size" /\ a.on = q.on /\ b.kind = "size" /\ b.on = q.other
    BY DEF Op
  <2>5. t = <<a>> \o <<b>>
    BY DEF SizeOf
  <2> HIDE DEF a, b, t, w
  <2>6. t \in Seq(Ops) /\ Len(t) = 2 /\ t[1] = a /\ t[2] = b
    <3>1. LET m == <<a>> \o <<b>> IN m \in Seq(Ops) /\ Len(m) = 2 /\ m[1] = a /\ m[2] = b
      BY <2>3, TwoInARow
    <3> QED
      BY <2>5, <3>1
  <2> DEFINE l == t \o w
  <2>7. /\ l \in Seq(Ops) /\ Len(l) = 2 + Len(w)
        /\ \A i \in 1 .. 2 : l[i] = t[i]
        /\ \A i \in 1 .. Len(w) : l[2 + i] = w[i]
    <3>1. t \in Seq(Ops) /\ w \in Seq(Ops)
      BY <2>2, <2>6
    <3>2. /\ l \in Seq(Ops) /\ Len(l) = Len(t) + Len(w)
          /\ \A i \in 1 .. Len(t) : l[i] = t[i]
          /\ \A i \in 1 .. Len(w) : l[Len(t) + i] = w[i]
      BY <3>1, Joined
    <3> HIDE DEF l
    <3> QED
      BY <2>6, <3>2
  <2> HIDE DEF l
  <2>8. Len(w) \in Nat \ {0} /\ DOMAIN w = 1 .. Len(w)
    BY <2>2, HeadOf
  <2>9. ASSUME NEW i \in 3 .. Len(l) PROVE ~Counting(q, l[i])
    <3>1. i - 2 \in DOMAIN w /\ i = 2 + (i - 2)
      BY <2>7, <2>8, <2>9
    <3>2. l[i] = w[i - 2]
      BY <2>7, <2>8, <3>1
    <3> QED
      BY <2>1, <2>2, <3>1, <3>2 DEF Counting
  <2>10. l[1] = a /\ l[2] = b /\ Len(l) \in Nat /\ Len(l) > 2
    BY <2>6, <2>7, <2>8
  <2>11. Compare(q) = l
    BY <2>1 DEF l, w
  <2> QED
    BY <2>4, <2>7, <2>9, <2>10, <2>11 DEF Counting
<1> QED
  BY <1>1, <1>2

LEMMA ComingTail ==
    ASSUME NEW l \in Seq(Ops), l # <<>>, NEW s, NEW o, Coming(l, s, o)
    PROVE  Coming(Tail(l), s, o) \/ (Head(l).kind = "walk" /\ Head(l).on = s /\ Head(l).other = o)
<1>1. PICK i \in DOMAIN l : l[i].kind = "walk" /\ l[i].on = s /\ l[i].other = o
  BY DEF Coming
<1>2. CASE i = 1
  BY <1>1, <1>2, TailOf
<1>3. CASE i # 1
  <2>1. i - 1 \in DOMAIN Tail(l) /\ Tail(l)[i - 1] = l[i]
    BY <1>3, TailOf
  <2> QED
    BY <1>1, <2>1 DEF Coming
<1> QED
  BY <1>2, <1>3

LEMMA OnwardTail ==
    ASSUME NEW q, NEW l \in Seq(Ops), l # <<>>, Onward(q, l)
    PROVE  /\ Onward(q, Tail(l))
           /\ Measure(q, Head(l)) \/ (Head(l).kind = "walk" /\ Leg(q, Head(l).on, Head(l).other))
<1>1. \A i \in DOMAIN Tail(l) : i + 1 \in DOMAIN l /\ Tail(l)[i] = l[i + 1]
  BY TailOf
<1>2. Head(l) = l[1] /\ 1 \in DOMAIN l
  BY TailOf
<1> QED
  BY <1>1, <1>2 DEF Onward

\* p turns to its next operation, or walk.
Begins(p) ==
    LET o == Head(plan[p]) IN
    /\ Stays(p) /\ History(p) /\ History(p)' /\ content \in [Sets -> SUBSET Elems]
    /\ pc[p] = "next" /\ walk[p].on = none
    /\ plan[p] \in Seq(Ops) /\ plan[p] # <<>> /\ plan'[p] = Tail(plan[p]) /\ op'[p] = o
    /\ IF o.kind = "walk" THEN walk'[p] = Walked(o.on, o.other, walk[p].batch) /\ pc'[p] = "walk"
                          ELSE walk'[p] = walk[p] /\ pc'[p] = "act"
    /\ snap'[p] = snap[p] /\ sizes'[p] = sizes[p] /\ out'[p] = out[p]

LEMMA BeginsIs ==
    ASSUME NEW p, Begins(p), Onward(call[p], plan[p])
    PROVE  LET o == Head(plan[p]) IN
           /\ Measure(call[p], o) \/ (o.kind = "walk" /\ Leg(call[p], o.on, o.other) /\ o.on \in Sets /\ o.other \in Consultable)
           /\ o.kind # "walk" => walk'[p].on = none
           /\ o.kind = "walk" =>
                /\ walk'[p].on = o.on /\ walk'[p].other = o.other
                /\ walk'[p].left = IF impl[o.on] = "hash" THEN Buckets ELSE {}
                /\ walk'[p].batch = IF Locked(o.on) THEN walk[p].batch ELSE {}
                /\ walk'[p].at.pos = 0
                /\ walk'[p].at.due = IF impl[o.on] = "skip" THEN content[o.on] ELSE {}
           /\ call[p] \in Requests
<1> DEFINE o == Head(plan[p])
<1>0. call[p] \in Requests
  BY StaysIs DEF Begins
<1>1. Measure(call[p], o) \/ (o.kind = "walk" /\ Leg(call[p], o.on, o.other))
  BY OnwardTail DEF Begins
<1>2. o.kind = "walk" /\ Leg(call[p], o.on, o.other) => o.on \in Sets /\ o.other \in Consultable
  BY <1>0, LegIs
<1>3. o.kind # "walk" => walk'[p].on = none
  BY DEF Begins
<1>4. ASSUME o.kind = "walk"
      PROVE  /\ walk'[p].on = o.on /\ walk'[p].other = o.other
             /\ walk'[p].left = IF impl[o.on] = "hash" THEN Buckets ELSE {}
             /\ walk'[p].batch = IF Locked(o.on) THEN walk[p].batch ELSE {}
             /\ walk'[p].at.pos = 0
             /\ walk'[p].at.due = IF impl[o.on] = "skip" THEN content[o.on] ELSE {}
  <2>1. walk'[p] = Walked(o.on, o.other, walk[p].batch)
    BY <1>4 DEF Begins
  <2>2. Walked(o.on, o.other, walk[p].batch) =
          [on |-> o.on, other |-> o.other,
           left |-> IF impl[o.on] = "hash" THEN Buckets ELSE {},
           batch |-> IF Locked(o.on) THEN walk[p].batch ELSE {},
           at |-> Begun(IF impl[o.on] = "skip" THEN content[o.on] ELSE {})]
    BY WalkedIs
  <2> HIDE DEF o
  <2> QED
    BY <2>1, <2>2 DEF Begun
<1> QED
  BY <1>0, <1>1, <1>2, <1>3, <1>4

LEMMA BeginsTours ==
    ASSUME NEW p, Begins(p), Walker(call[p]), Toured(p)
    PROVE  Toured(p)'
<1> DEFINE q == call[p]  o == Head(plan[p])
<1>0. /\ Stays(p) /\ History(p) /\ plan[p] \in Seq(Ops) /\ plan[p] # <<>> /\ plan'[p] = Tail(plan[p])
      /\ walk[p].on = none /\ out'[p] = out[p] /\ Onward(q, plan[p])
  BY DEF Begins, Toured
<1>1. Onward(call[p], plan[p])'
  <2>1. PICK l : l = Tail(plan[p])
    OBVIOUS
  <2>2. Onward(q, l)
    BY <1>0, <2>1, OnwardTail
  <2>3. Onward(call[p], l)'
    BY <1>0, <2>2, OnwardStays
  <2> QED
    BY <1>0, <2>1, <2>3 DEF Onward
<1>2. ASSUME NEW s \in Sets, NEW c \in Consultable, Ahead(p, s, c) PROVE Ahead(p, s, c)' \/ Here(p, s, c)'
  <2>1. Coming(Tail(plan[p]), s, c) \/ (o.kind = "walk" /\ o.on = s /\ o.other = c)
    BY <1>0, <1>2, ComingTail DEF Ahead
  <2>2. Coming(Tail(plan[p]), s, c) => Ahead(p, s, c)'
    BY <1>0 DEF Ahead, Coming
  <2> QED
    BY <1>0, <2>1, <2>2, BeginsIs DEF Here
<1>3. ASSUME NEW s \in Sets, NEW c \in Consultable, Leg(call[p], s, c)'
      PROVE  Ahead(p, s, c)' \/ Here(p, s, c)' \/ Behind(p, s, c)'
  <2>1. Ahead(p, s, c) \/ Here(p, s, c) \/ Behind(p, s, c)
    BY <1>0, <1>3, StaysIs DEF Toured
  <2>2. ~Here(p, s, c)
    BY <1>0, SetAssumption DEF Here
  <2>3. Behind(p, s, c) => Behind(p, s, c)'
    BY <1>0, StaysIs, JudgedKeeps DEF Behind
  <2> QED
    BY <1>2, <2>1, <2>2, <2>3
<1>t. PICK t : t = q.on
  OBVIOUS
<1>6. call'[p] = q
  BY <1>0, StaysIs
<1>4. ASSUME q.kind = "removeFunc", walk'[p].on = none PROVE Ahead(p, t, none)'
  <2>1. Ahead(p, q.on, none) /\ q.on \in Sets /\ none \in Consultable
    BY <1>0, <1>4, StaysIs DEF Toured, Consultable
  <2>2. ASSUME Here(p, t, none)' PROVE FALSE
    BY <1>4, <1>t, <2>1, <2>2, SetAssumption DEF Here
  <2> QED
    BY <1>2, <1>t, <2>1, <2>2
<1>5. ASSUME q.kind \in Chooses PROVE plan'[p] = <<>>
  <2>1. plan[p] = Walk(q.on, none)
    BY <1>0, <1>5 DEF Toured
  <2>2. ~Locked(q.on)
    <3>1. q.kind \notin Asking
      BY <1>5, SizedIs
    <3>2. q.kind \notin {"scan", "removeFunc", "clear"}
      BY <1>5 DEF Chooses, Pops, Navigations
    <3> QED
      BY <3>1, <3>2 DEF Walker
  <2>3. Tail(Walk(q.on, none)) = <<>>
    <3>1. q \in Requests /\ q.on \in Sets /\ none \in Consultable
      BY <1>0, StaysIs DEF Consultable
    <3> QED
      BY <2>2, <3>1, WalkIs
  <2> QED
    BY <1>0, <2>1, <2>3
<1>7. (q.kind = "removeFunc" /\ walk'[p].on = none) => Ahead(p, call[p].on, none)'
  BY <1>4, <1>6, <1>t DEF Ahead
<1> QED
  BY <1>1, <1>3, <1>5, <1>6, <1>7 DEF Toured

LEMMA BeginsStrolls ==
    ASSUME NEW p, Begins(p), Toured(p), Readied(p), impl \in Mixes
    PROVE  Strolls(p)'
<1> DEFINE q == call[p]  o == Head(plan[p])  v == walk'[p]
<1>s. PICK s : s = o.on
  OBVIOUS
<1>c. PICK c : c = o.other
  OBVIOUS
<1>0. /\ Stays(p) /\ History(p) /\ plan[p] \in Seq(Ops) /\ plan[p] # <<>> /\ walk[p].on = none
      /\ out'[p] = out[p] /\ Onward(q, plan[p]) /\ q \in Requests
  BY StaysIs DEF Begins, Toured
<1>1. CASE o.kind # "walk"
  BY <1>0, <1>1, BeginsIs DEF Strolls
<1>2. CASE o.kind = "walk"
  <2>1. /\ Leg(q, s, c) /\ s \in Sets /\ c \in Consultable /\ v.on = s /\ v.other = c
        /\ v.left = IF impl[s] = "hash" THEN Buckets ELSE {}
        /\ v.batch = IF Locked(s) THEN walk[p].batch ELSE {}
        /\ v.at.pos = 0 /\ v.at.due = IF impl[s] = "skip" THEN content[s] ELSE {}
    BY <1>0, <1>2, <1>s, <1>c, BeginsIs DEF Measure, Measuring
  <2>2. impl[s] \in {"hash", "skip", "tree"}
    BY <2>1, MixAssumption
  <2>3. kept[p][s] \subseteq content[s] /\ content[s] \subseteq Elems
    BY <1>0, <2>1, StaysIs DEF Begins
  <2>4. Locked(s) => Spanned(p, s, walk[p].batch)
    <3>1. PICK t \in Sets \cup {none} :
            /\ Prepared(plan[p], t)
            /\ t # none => Spanned(p, t, walk[p].batch)
      BY DEF Readied, Begins, Operating
    <3>2. Locked(s) => s = t
      BY <1>0, <1>2, <1>s, <3>1, TailPrepared
    <3> QED
      BY <2>1, <3>1, <3>2, SetAssumption
  <2>5. ASSUME NEW x \in kept[p][s] PROVE x \in Left(v)
    <3>1. CASE impl[s] = "tree"
      BY <2>1, <2>4, <2>5, <3>1 DEF Locked, Spanned, Left
    <3>2. CASE impl[s] = "hash"
      <4>1. PICK b \in Buckets : x \in b
        BY <2>3, <2>5, BucketAssumption
      <4> QED
        BY <2>1, <3>2, <4>1 DEF Left
    <3>3. CASE impl[s] = "skip"
      BY <2>1, <2>3, <2>5, <3>3 DEF Left
    <3> QED
      BY <2>2, <3>1, <3>2, <3>3
  <2>6. IF impl[s] = "skip" THEN v.batch = {} /\ v.left = {} ELSE v.batch \subseteq had[p][s]
    BY <2>1, <2>2, <2>4 DEF Locked, Spanned
  <2>7. q.kind \in Chooses => out[p] = {}
    BY <1>0 DEF Toured
  <2>8. pc'[p] = "walk" /\ ~Telling(p)'
    BY <1>2 DEF Begins, Telling, Operating
  <2>9. /\ call'[p] = q /\ impl' = impl /\ kept'[p] = kept[p] /\ had'[p] = had[p]
        /\ Leg(call[p], s, c)'
    BY <1>0, <2>1, StaysIs
  <2> QED
    BY <1>0, <2>1, <2>5, <2>6, <2>7, <2>8, <2>9 DEF Strolls, WalksOver
<1> QED
  BY <1>1, <1>2

LEMMA BeginsReady ==
    ASSUME NEW p, Begins(p), Onward(call[p], plan[p]), Readied(p)
    PROVE  Readied(p)'
<1> DEFINE l == plan[p]  o == Head(plan[p])
<1>0. /\ Stays(p) /\ History(p) /\ l \in Seq(Ops) /\ l # <<>> /\ plan'[p] = Tail(l) /\ op'[p] = o
      /\ walk[p].on = none /\ pc[p] = "next" /\ (o.kind # "walk" => walk'[p] = walk[p] /\ pc'[p] = "act")
      /\ pc[p] \notin Operating
  BY DEF Begins, Operating
<1>1. PICK t \in Sets \cup {none} : Prepared(l, t) /\ (t # none => Spanned(p, t, walk[p].batch))
  <2>1. pc[p] \notin Operating
    BY <1>0
  <2> QED
    BY <2>1 DEF Readied
<1>2. o \in Ops /\ o.on \in Sets
  <2>1. o \in Ops
    BY <1>0, HeadOf, Zenon
  <2> QED
    BY <2>1 DEF Ops
<1>3. ASSUME NEW u, Prepared(Tail(l), u) PROVE Prepared(plan[p], u)'
  <2>1. PICK r : r = Tail(l)
    OBVIOUS
  <2>2. Prepared(r, u)
    BY <1>3, <2>1, Zenon
  <2>3. plan'[p] = r /\ \A s : Locked(s)' <=> Locked(s)
    BY <1>0, <2>1, StaysIs
  <2>4. Prepared(r, u)'
    BY <2>2, <2>3 DEF Prepared, Shot
  <2> QED
    BY <2>3, <2>4, Zenon DEF Prepared, Shot
<1>4. o.kind \in Measuring \/ o.kind = "walk"
  BY BeginsIs DEF Measure
<1>5. CASE o.kind = "walk"
  <2>1. Prepared(Tail(l), none)
    BY <1>0, <1>1, <1>5, TailPrepared
  <2> QED
    BY <1>3, <2>1 DEF Readied
<1>6. CASE o.kind = "snapshot"
  <2>1. Prepared(Tail(l), o.on)
    BY <1>0, <1>1, <1>6, TailPrepared
  <2>2. PICK u : u = o.on
    OBVIOUS
  <2>3. Prepared(plan[p], u)'
    BY <1>3, <2>1, <2>2
  <2>4. walk'[p].on = none /\ pc'[p] \in Operating /\ op'[p].kind = "snapshot" /\ op'[p].on = u
    BY <1>0, <1>6, <2>2 DEF Operating
  <2> QED
    BY <1>2, <2>2, <2>3, <2>4 DEF Readied
<1>7. CASE o.kind = "size"
  <2>1. Prepared(Tail(l), t)
    BY <1>0, <1>1, <1>7, TailPrepared
  <2>2. Prepared(plan[p], t)'
    BY <1>3, <2>1
  <2>3. walk'[p] = walk[p] /\ op'[p].kind # "snapshot"
    BY <1>0, <1>7
  <2>4. ASSUME t # none PROVE Spanned(p, t, walk[p].batch)'
    BY <1>0, <1>1, <2>3, <2>4, StaysIs DEF Spanned
  <2> QED
    BY <1>0, <1>1, <2>2, <2>3, <2>4 DEF Readied
<1> QED
  BY <1>4, <1>5, <1>6, <1>7 DEF Measuring

LEMMA BeginsHalves ==
    ASSUME NEW p, Begins(p), Halves(p)
    PROVE  Halves(p)'
<1> DEFINE q == call[p]  o == Head(plan[p])
<1>0. /\ Stays(p) /\ History(p) /\ op'[p] = o /\ snap'[p] = snap[p] /\ pc[p] = "next"
      /\ (o.kind # "walk" => walk'[p] = walk[p] /\ pc'[p] = "act") /\ walk[p].on = none
  BY DEF Begins
<1>1. /\ call'[p] = q /\ q \in Requests /\ (Locked(q.on)' <=> Locked(q.on))
  BY <1>0, StaysIs
<1>2. ASSUME q.kind = "symmetricDifference", Locked(q.on), snap[p] = none
      PROVE  walk'[p].on = none /\ pc'[p] # "next" /\ op'[p].kind = "snapshot" /\ op'[p].on = q.on
  <2>1. plan[p] = Combine(q)
    BY <1>0, <1>2 DEF Halves
  <2>2. o.kind = "snapshot" /\ o.on = q.on
    BY <1>1, <1>2, <2>1, CombineIs
  <2> QED
    BY <1>0, <2>2
<1>3. ASSUME q.kind = "symmetricDifference", Locked(q.on), snap[p] # none
      PROVE  snap[p] \in SUBSET Elems /\ Spanned(p, q.on, snap[p])'
  <2>1. PICK S : S = snap[p]
    OBVIOUS
  <2>2. S \in SUBSET Elems /\ Spanned(p, q.on, S)
    BY <1>3, <2>1 DEF Halves
  <2>3. PICK t : t = q.on
    OBVIOUS
  <2>4. Spanned(p, t, S)'
    BY <1>0, <2>2, <2>3, StaysIs
  <2> QED
    BY <1>0, <1>1, <2>1, <2>2, <2>3, <2>4 DEF Spanned
<1> QED
  BY <1>0, <1>1, <1>2, <1>3 DEF Halves, Spanned

LEMMA BeginsSizes ==
    ASSUME NEW p, Begins(p), Sizes(p)
    PROVE  Sizes(p)'
<1> DEFINE q == call[p]  l == plan[p]  o == Head(plan[p])  C == Compare(call[p])
<1>0. /\ Stays(p) /\ History(p) /\ l \in Seq(Ops) /\ l # <<>> /\ plan'[p] = Tail(l) /\ op'[p] = o
      /\ sizes'[p] = sizes[p] /\ pc[p] = "next"
      /\ (o.kind # "walk" => walk'[p] = walk[p] /\ pc'[p] = "act") /\ walk[p].on = none /\ pc'[p] # "next"
  BY DEF Begins
<1>1. call'[p] = q /\ q \in Requests /\ content' = content /\ alone'[p] = alone[p] /\ Compare(call[p])' = C
  BY <1>0, StaysIs
<1>2. /\ o = l[1] /\ Len(l) > 0 /\ 1 \in DOMAIN l
      /\ \A i \in DOMAIN Tail(l) : i + 1 \in DOMAIN l /\ Tail(l)[i] = l[i + 1]
  BY <1>0, TailOf
<1>3. ASSUME q.kind \in Sized
      PROVE  /\ C \in Seq(Ops) /\ C # <<>> /\ Head(C) = C[1] /\ Counting(q, C[1])
             /\ Tail(C) \in Seq(Ops) /\ Tail(C) # <<>> /\ Head(Tail(C)) = C[2] /\ C[2].kind = "size"
  <2>1. C \in Seq(Ops) /\ Len(C) > 2 /\ Counting(q, C[1]) /\ C[2].kind = "size"
    BY <1>1, <1>3, CompareIs
  <2> HIDE DEF C
  <2>2. C # <<>>
    BY <2>1
  <2>3. Tail(C) \in Seq(Ops) /\ Head(C) = C[1] /\ Len(Tail(C)) = Len(C) - 1 /\ Len(C) \in Nat
    BY <2>1, <2>2, HeadOf
  <2>4. Tail(C) # <<>>
    <3>1. Len(Tail(C)) # 0
      BY <2>1, <2>3
    <3>2. Len(<<>>) = 0
      OBVIOUS
    <3> QED
      BY <3>1, <3>2
  <2>5. Head(Tail(C)) = C[2]
    BY <2>1
  <2> QED
    BY <2>1, <2>2, <2>3, <2>4, <2>5
<1>4. ASSUME q.kind \in Sized, sizes[p] = <<>>
      PROVE  walk'[p].on = none /\ op'[p] = Head(C) /\ plan'[p] = Tail(C)
  <2>1. l = C
    BY <1>0, <1>4 DEF Sizes, At
  <2>2. o.kind # "walk"
    BY <1>3, <1>4, <2>1 DEF Counting
  <2> QED
    BY <1>0, <2>1, <2>2
<1>5. ASSUME q.kind \in Sized, Len(sizes[p]) = 1
      PROVE  /\ walk'[p].on = none /\ op'[p] = Head(Tail(C)) /\ plan'[p] = Tail(Tail(C))
             /\ (alone[p] => sizes[p][1] = Cardinality(content[q.on]))
  <2>1. l = Tail(C) /\ (alone[p] => sizes[p][1] = Cardinality(content[q.on]))
    BY <1>0, <1>5 DEF Sizes, At
  <2>2. o.kind # "walk"
    BY <1>3, <1>5, <2>1
  <2> QED
    BY <1>0, <2>1, <2>2
<1>6. ASSUME q.kind \in Sized, Len(sizes[p]) > 1
      PROVE  /\ alone[p] => SizesFit(q.kind, Cardinality(content[q.on]), Cardinality(content[q.other]))
             /\ \A i \in DOMAIN plan'[p] : ~Counting(q, plan'[p][i])
             /\ ~Counting(q, op'[p])
  <2>1. /\ alone[p] => SizesFit(q.kind, Cardinality(content[q.on]), Cardinality(content[q.other]))
        /\ \A i \in DOMAIN l : ~Counting(q, l[i])
    BY <1>6 DEF Sizes
  <2>2. ~Counting(q, l[1])
    BY <1>2, <2>1
  <2>3. ASSUME NEW i \in DOMAIN Tail(l) PROVE ~Counting(q, Tail(l)[i])
    <3>1. i + 1 \in DOMAIN l /\ Tail(l)[i] = l[i + 1]
      BY <1>2
    <3> QED
      BY <2>1, <3>1
  <2> QED
    BY <1>0, <1>2, <2>1, <2>2, <2>3
<1> HIDE DEF l, o, C
<1>7. ASSUME q.kind \in Sized, sizes[p] = <<>> PROVE At(p, C)'
  BY <1>0, <1>1, <1>4, <1>7 DEF At, C
<1>8. ASSUME q.kind \in Sized, Len(sizes[p]) = 1 PROVE At(p, Tail(C))'
  BY <1>0, <1>1, <1>5, <1>8 DEF At, C
<1> QED
  BY <1>0, <1>1, <1>4, <1>5, <1>6, <1>7, <1>8 DEF Sizes, Counting, C

LEMMA ProceedLearned ==
    ASSUME IInv, IInv', NEW p \in Procs, Proceed(p), Ages(p), History(p), Walker(call[p]), Learned(p)
    PROVE  Learned(p)'
<1> DEFINE o == Head(plan[p])
<1>0. Shape /\ Labelled(p)
  BY DEF IInv
<1>1. /\ Private(p) /\ pc[p] = "next" /\ plan[p] # <<>> /\ plan'[p] = Tail(plan[p]) /\ op'[p] = o
      /\ IF o.kind = "walk"
         THEN walk'[p] = Walked(o.on, o.other, walk[p].batch) /\ pc'[p] = "walk"
         ELSE walk'[p] = walk[p] /\ pc'[p] = "act"
      /\ snap'[p] = snap[p] /\ sizes'[p] = sizes[p] /\ out'[p] = out[p]
  BY <1>0, ProceedFacts
<1>2. Stays(p) /\ History(p)'
  BY <1>1, OwnStays DEF Acts, Step
<1>3. /\ Toured(p) /\ Engaged(p) /\ Strolls(p) /\ Gathers(p) /\ Readied(p) /\ Halves(p) /\ Sizes(p)
  BY DEF Learned
<1>4. Begins(p) /\ impl \in Mixes
  BY <1>0, <1>1, <1>2, <1>3 DEF Begins, Shape, Engaged
<1>5. Onward(call[p], plan[p])
  BY <1>3 DEF Toured
<1>6. Engaged(p)'
  <2>1. pc'[p] = "act" => Measure(call[p], o) /\ walk'[p].on = none
    BY <1>1, <1>4, <1>5, BeginsIs
  <2>3. pc'[p] = "act" => Measures(p)'
    BY <1>1, <1>2, <2>1, StaysIs DEF Measures, Measure
  <2>2. pc'[p] # "next" /\ pc'[p] # "got" /\ (pc'[p] \in Operating => pc'[p] = "act")
    BY <1>1 DEF Operating
  <2> QED
    BY <2>1, <2>2, <2>3 DEF Engaged
<1>7. Gathers(p)'
  <2>1. pc'[p] # "next" /\ out'[p] = out[p] /\ call'[p] = call[p]
    BY <1>1, <1>2, StaysIs
  <2>2. \A e \in out[p] : Sound(p, e)'
    BY <1>2, <1>3, StaysIs DEF Gathers
  <2> QED
    BY <1>3, <2>1, <2>2 DEF Gathers
<1> HIDE DEF o
<1> QED
  BY <1>2, <1>3, <1>4, <1>5, <1>6, <1>7, BeginsTours, BeginsStrolls, BeginsReady, BeginsHalves, BeginsSizes
     DEF Learned

-----------------------------------------------------------------------------
(* A size or a snapshot has been read.                                     *)

Reckons(p) ==
    /\ Stays(p) /\ History(p) /\ History(p)' /\ Choice(p)
    /\ content \in [Sets -> SUBSET Elems] /\ walk[p] \in Hikes /\ sizes[p] \in Seq(Nat)
    /\ pc[p] = "got" /\ op[p] \in Ops /\ op[p].kind \in Measuring
    /\ op[p].kind = "snapshot" => ret[p] \in SUBSET Elems
    /\ op[p].kind = "size" => \E n \in Nat : ret[p] = {n}
    /\ plan'[p] = plan[p]
    /\ IF op[p].kind = "snapshot"
       THEN /\ walk'[p] = [walk[p] EXCEPT !.batch = ret[p]]
            /\ snap'[p] = IF snap[p] = none THEN ret[p] ELSE snap[p]
       ELSE walk'[p] = walk[p] /\ snap'[p] = snap[p]
    /\ sizes'[p] = IF Counts(p) THEN Append(sizes[p], Count(p)) ELSE sizes[p]

LEMMA ReckonsIs ==
    ASSUME NEW p, Reckons(p), Engaged(p)
    PROVE  /\ walk[p].on = none /\ Measure(call[p], op[p])
           /\ call[p].kind \notin Pops \/ Locked(call[p].on)
           /\ walk'[p].on = none
           /\ op[p].kind = "snapshot" => Spanned(p, op[p].on, ret[p]) /\ walk'[p].batch = ret[p]
<1>1. Measures(p) \/ Consults(p) \/ Clears(p) \/ Removes(p)
  BY DEF Reckons, Engaged, Operating
<1>2. Measures(p)
  BY <1>1 DEF Reckons, Measuring, Consults, Clears, Removes
<1>3. Measure(call[p], op[p]) /\ walk[p].on = none
  BY <1>2 DEF Measures
<1>4. call[p].kind \notin Pops \/ Locked(call[p].on)
  BY DEF Reckons, Choice, Choosing, Operating, Measuring
<1>5. op[p].kind = "snapshot" => Spanned(p, op[p].on, ret[p])
  BY DEF Reckons, Engaged
<1>6. CASE op[p].kind = "snapshot"
  <2>1. walk'[p] = [walk[p] EXCEPT !.batch = ret[p]] /\ walk[p] \in Hikes
    BY <1>6 DEF Reckons
  <2>2. walk'[p].on = walk[p].on /\ walk'[p].batch = ret[p]
    BY <2>1 DEF Hikes
  <2> QED
    BY <1>3, <1>4, <1>5, <2>2
<1>7. CASE op[p].kind # "snapshot"
  BY <1>3, <1>4, <1>7 DEF Reckons
<1> QED
  BY <1>6, <1>7

LEMMA CountIs ==
    ASSUME NEW p, Reckons(p), Engaged(p)
    PROVE  LET s == op[p].on IN
           /\ Count(p) \in Nat
           /\ alone[p] /\ call[p].kind \notin Updates => Count(p) = Cardinality(content[s])
           /\ alone[p] /\ Count(p) = 0 => kept[p][s] = {}
<1> DEFINE s == op[p].on
<1>0. /\ History(p) /\ pc[p] = "got" /\ s \in Sets /\ op[p].kind \in Measuring
      /\ content[s] \in SUBSET Elems
      /\ op[p].kind = "snapshot" => ret[p] \in SUBSET Elems
      /\ op[p].kind = "size" => \E n \in Nat : ret[p] = {n}
  BY DEF Reckons, Ops
<1>1. ASSUME NEW S \in SUBSET Elems, Spanned(p, s, S)
      PROVE  /\ alone[p] /\ call[p].kind \notin Updates => S = content[s]
             /\ Cardinality(S) = 0 => kept[p][s] = {}
             /\ Cardinality(S) \in Nat
  <2>1. kept[p][s] \subseteq S /\ S \subseteq had[p][s]
    BY <1>1 DEF Spanned
  <2>2. alone[p] /\ call[p].kind \notin Updates => kept[p][s] = content[s] /\ had[p][s] = content[s]
    BY <1>0 DEF History
  <2>3. IsFiniteSet(S) /\ Cardinality(S) \in Nat
    BY Counted
  <2>4. Cardinality(S) = 0 => S = {}
    BY <2>3, FS_EmptySet
  <2> QED
    BY <2>1, <2>2, <2>3, <2>4
<1>2. CASE op[p].kind = "snapshot"
  <2>1. Count(p) = Cardinality(ret[p]) /\ ret[p] \in SUBSET Elems
    BY <1>0, <1>2 DEF Count
  <2>2. Spanned(p, s, ret[p])
    BY <1>2, ReckonsIs
  <2> HIDE DEF s
  <2> QED
    BY <1>1, <2>1, <2>2 DEF s
<1>3. CASE op[p].kind = "size"
  <2>1. PICK n \in Nat : ret[p] = {n}
    BY <1>0, <1>3
  <2>2. Count(p) = n
    BY <1>3, <2>1 DEF Count
  <2>3. ASSUME alone[p] PROVE \E S \in SUBSET Elems : Spanned(p, s, S) /\ n = Cardinality(S)
    <3>1. PICK S \in SUBSET Elems : Spanned(p, s, S) /\ ret[p] = {Cardinality(S)}
      BY <1>0, <1>3, <2>3 DEF Engaged
    <3> QED
      BY <2>1, <3>1
  <2> HIDE DEF s
  <2> QED
    BY <1>1, <2>2, <2>3 DEF s
<1> QED
  BY <1>0, <1>2, <1>3 DEF Measuring

\* The sizes of equality and the proper inclusions.
LEMMA ReckonsSizes ==
    ASSUME NEW p, Reckons(p), Engaged(p), Sizes(p), call[p].kind \in Sized
    PROVE  LET q == call[p]  A == Cardinality(content[q.on])  B == Cardinality(content[q.other]) IN
           /\ sizes[p] = <<>> => Counts(p) /\ plan[p] = Tail(Compare(q)) /\ (alone[p] => Count(p) = A)
           /\ Len(sizes[p]) = 1 =>
                /\ Counts(p) /\ plan[p] = Tail(Tail(Compare(q)))
                /\ alone[p] => sizes[p][1] = A /\ Count(p) = B
           /\ Len(sizes[p]) > 1 => ~Counts(p)
<1> DEFINE q == call[p]  C == Compare(call[p])
<1>0. /\ q \in Requests /\ pc[p] = "got" /\ pc[p] # "next" /\ pc[p] \in Operating /\ op[p].kind \in Measuring
      /\ q.kind \notin Updates /\ q.kind # "removeFunc"
  BY StaysIs, SizedIs DEF Reckons, Operating, Sized
<1>1. C \in Seq(Ops) /\ Len(C) \in Nat /\ Len(C) > 2 /\ C[1].on = q.on /\ Counting(q, C[1]) /\ C[2].on = q.other /\ C[2].kind = "size"
  BY <1>0, CompareIs
<1>2. Counting(q, op[p]) <=> Counts(p)
  BY <1>0 DEF Counting, Counts, Measuring
<1> HIDE DEF C
<1>3. Head(C) = C[1] /\ Head(Tail(C)) = C[2]
  BY <1>1
<1>4. alone[p] => Count(p) = Cardinality(content[op[p].on])
  BY <1>0, CountIs
<1>5. ASSUME sizes[p] = <<>> PROVE Counts(p) /\ plan[p] = Tail(C) /\ (alone[p] => Count(p) = Cardinality(content[q.on]))
  <2>1. op[p] = Head(C) /\ plan[p] = Tail(C)
    BY <1>0, <1>5 DEF Sizes, At, C
  <2> QED
    BY <1>1, <1>2, <1>3, <1>4, <2>1
<1>6. ASSUME Len(sizes[p]) = 1
      PROVE  /\ Counts(p) /\ plan[p] = Tail(Tail(C))
             /\ alone[p] => sizes[p][1] = Cardinality(content[q.on]) /\ Count(p) = Cardinality(content[q.other])
  <2>1. op[p] = Head(Tail(C)) /\ plan[p] = Tail(Tail(C)) /\ (alone[p] => sizes[p][1] = Cardinality(content[q.on]))
    BY <1>0, <1>6 DEF Sizes, At, C
  <2>2. Counting(q, op[p])
    BY <1>1, <1>3, <2>1 DEF Counting
  <2> QED
    BY <1>1, <1>2, <1>3, <1>4, <2>1, <2>2
<1>7. ASSUME Len(sizes[p]) > 1 PROVE ~Counts(p)
  BY <1>0, <1>2, <1>7 DEF Sizes
<1> QED
  BY <1>5, <1>6, <1>7 DEF C

LEMMA LearnsSizes ==
    ASSUME NEW p, Reckons(p), Engaged(p), Sizes(p), pc'[p] = "next", ~(Counts(p) /\ Settled(p, Count(p)))
    PROVE  Sizes(p)'
<1> DEFINE q == call[p]  C == Compare(call[p])
<1>0. /\ q \in Requests /\ call'[p] = q /\ content' = content /\ alone'[p] = alone[p] /\ Compare(call[p])' = C
      /\ plan'[p] = plan[p] /\ sizes[p] \in Seq(Nat) /\ Count(p) \in Nat /\ walk'[p].on = none
      /\ sizes'[p] = IF Counts(p) THEN Append(sizes[p], Count(p)) ELSE sizes[p]
  BY StaysIs, CountIs, ReckonsIs DEF Reckons
<1>1. /\ Len(sizes[p]) \in Nat /\ (sizes[p] = <<>> <=> Len(sizes[p]) = 0)
      /\ Len(Append(sizes[p], Count(p))) = Len(sizes[p]) + 1
      /\ Append(sizes[p], Count(p))[1] = IF Len(sizes[p]) = 0 THEN Count(p) ELSE sizes[p][1]
  BY <1>0
<1>12. Len(sizes[p]) \in Nat
  BY <1>0
<1>2. pc'[p] \notin Operating
  BY DEF Operating
<1>3. ASSUME q.kind \in Sized, Len(sizes[p]) = 0
      PROVE  /\ Len(sizes'[p]) = 1 /\ plan'[p] = Tail(C)
             /\ alone[p] => sizes'[p][1] = Cardinality(content[q.on])
  BY <1>0, <1>1, <1>3, ReckonsSizes
<1>4. ASSUME q.kind \in Sized, Len(sizes[p]) = 1
      PROVE  /\ Len(sizes'[p]) = 2
             /\ \A i \in DOMAIN plan[p] : ~Counting(q, plan[p][i])
             /\ alone[p] => SizesFit(q.kind, Cardinality(content[q.on]), Cardinality(content[q.other]))
  <2>1. /\ Counts(p) /\ plan[p] = Tail(Tail(C))
        /\ alone[p] => sizes[p][1] = Cardinality(content[q.on]) /\ Count(p) = Cardinality(content[q.other])
    BY <1>4, ReckonsSizes
  <2>2. Len(sizes'[p]) = 2
    BY <1>0, <1>1, <1>4, <2>1
  <2>3. SizesFit(q.kind, sizes[p][1], Count(p))
    BY <1>1, <1>4, <2>1 DEF Settled
  <2>4. \A i \in DOMAIN Tail(Tail(C)) : ~Counting(q, Tail(Tail(C))[i])
    <3>1. C \in Seq(Ops) /\ Len(C) > 2 /\ \A i \in 3 .. Len(C) : ~Counting(q, C[i])
      BY <1>0, <1>4, CompareIs
    <3> HIDE DEF C
    <3>2. \A i \in DOMAIN Tail(Tail(C)) : i + 2 \in 3 .. Len(C) /\ Tail(Tail(C))[i] = C[i + 2]
      BY <3>1
    <3> QED
      BY <3>1, <3>2
  <2> QED
    BY <2>1, <2>2, <2>3, <2>4
<1>5. ASSUME q.kind \in Sized, Len(sizes[p]) > 1
      PROVE  /\ sizes'[p] = sizes[p]
             /\ \A i \in DOMAIN plan[p] : ~Counting(q, plan[p][i])
             /\ alone[p] => SizesFit(q.kind, Cardinality(content[q.on]), Cardinality(content[q.other]))
  <2>1. sizes'[p] = sizes[p]
    BY <1>0, <1>5, ReckonsSizes
  <2>2. /\ \A i \in DOMAIN plan[p] : ~Counting(q, plan[p][i])
        /\ alone[p] => SizesFit(q.kind, Cardinality(content[q.on]), Cardinality(content[q.other]))
    BY <1>5 DEF Sizes
  <2> QED
    BY <2>1, <2>2
<1> HIDE DEF C
<1>8. sizes'[p] \in Seq(Nat)
  BY <1>0
<1>13. PICK n : n = Len(sizes[p])
  OBVIOUS
<1>14. PICK m : m = Len(sizes'[p])
  OBVIOUS
<1>15. n \in Nat
  BY <1>12, <1>13, Zenon
<1>16. n = 0 \/ n = 1 \/ n > 1
  BY <1>15
<1>6. ASSUME q.kind \in Sized
      PROVE  /\ n = 0 => m = 1
             /\ n = 1 => m = 2
             /\ n > 1 => m = n
  BY <1>3, <1>4, <1>5, <1>6, <1>13, <1>14, Zenon
<1>17. q.kind \in Sized => /\ m # 0 /\ (m = 1 => n = 0) /\ (m > 1 => n = 1 \/ n > 1)
  BY <1>6, <1>15, <1>16
<1>9. Len(sizes'[p]) # 0 => sizes'[p] # <<>>
  BY <1>8
<1>10. ASSUME q.kind \in Sized, m > 1
       PROVE  /\ \A i \in DOMAIN plan[p] : ~Counting(q, plan[p][i])
              /\ alone[p] => SizesFit(q.kind, Cardinality(content[q.on]), Cardinality(content[q.other]))
  BY <1>4, <1>5, <1>10, <1>13, <1>17, Zenon
<1>11. ASSUME q.kind \in Sized, m = 1
       PROVE  plan'[p] = Tail(C) /\ (alone[p] => sizes'[p][1] = Cardinality(content[q.on]))
  BY <1>3, <1>11, <1>13, <1>17, Zenon
<1>7. ASSUME q.kind \in Sized, m = 1 PROVE At(p, Tail(C))'
  BY <1>0, <1>7, <1>11 DEF At, C
<1>18. q.kind \in Sized => sizes'[p] # <<>>
  BY <1>9, <1>14, <1>17, Zenon
<1> QED
  BY <1>0, <1>2, <1>7, <1>10, <1>11, <1>14, <1>18 DEF Sizes, Counting, C

\* The answer of p, after a step of its own.
LEMMA JustifiedAnew ==
    ASSUME NEW p, Stays(p), History(p), NEW o, out'[p] = o, NEW r, ret'[p] = r,
           Within(call[p], kept[p][call[p].on], kept[p][call[p].other],
                  had[p][call[p].on], had[p][call[p].other], o, r),
           alone[p] => Exact(call[p], content[call[p].on], content[call[p].other], o),
           call[p].kind = "removeFunc" /\ o = {0} => kept[p][call[p].on] = {} \/ ~alone[p]
    PROVE  Justified(p)'
<1> DEFINE q == call[p]  K == kept[p][call[p].on]  L == kept[p][call[p].other]
           H == had[p][call[p].on]  I == had[p][call[p].other]
<1>1. /\ call'[p] = q /\ impl' = impl /\ content' = content
      /\ kept'[p] = kept[p] /\ had'[p] = had[p] /\ alone'[p] = alone[p]
      /\ Locked(q.on)' <=> Locked(q.on)
  BY StaysIs
<1>2. PICK c, k, l, h, i : c = q /\ k = K /\ l = L /\ h = H /\ i = I
  BY ZenonT(60)
<1>3. Within(c, k, l, h, i, o, r)
  BY <1>2, ZenonT(60)
<1>4. PopWithin(c, k, r)' /\ NavigationWithin(c, k, h, o)'
  BY <1>1, <1>2, <1>3 DEF Within, PopWithin, NavigationWithin, Fitting
<1>5. AlgebraWithin(c, k, l, h, i, o)' /\ RelationWithin(c, k, l, h, i, o)' /\ BulkWithin(c, k, h, o)'
  BY <1>3 DEF Within, AlgebraWithin, RelationWithin, BulkWithin, Between
<1>6. Within(c, k, l, h, i, o, r)'
  BY <1>4, <1>5 DEF Within
<1>7. Within(call[p], kept[p][call[p].on], kept[p][call[p].other],
             had[p][call[p].on], had[p][call[p].other], out[p], ret[p])'
  BY <1>1, <1>2, <1>6 DEF Within, PopWithin, NavigationWithin, Fitting, AlgebraWithin, RelationWithin, BulkWithin, Between
<1>8. alone[p] => Exact(call[p], content[call[p].on], content[call[p].other], out[p])'
  BY <1>1 DEF Exact
<1> QED
  BY <1>1, <1>7, <1>8 DEF Justified

LEMMA Smaller ==
    ASSUME NEW A \in SUBSET Elems, NEW B \in SUBSET Elems
    PROVE  /\ Cardinality(A) \in Nat /\ Cardinality(B) \in Nat
           /\ A \subseteq B => /\ Cardinality(A) <= Cardinality(B)
                               /\ Cardinality(A) = Cardinality(B) => A = B
<1>1. IsFiniteSet(B) /\ Cardinality(A) \in Nat /\ Cardinality(B) \in Nat
  BY Counted
<1>2. ASSUME A \subseteq B
      PROVE  /\ Cardinality(A) <= Cardinality(B)
             /\ Cardinality(A) = Cardinality(B) => A = B
  <2>1. A \in SUBSET B
    BY <1>2
  <2>2. Cardinality(A) <= Cardinality(B) /\ (Cardinality(B) = Cardinality(A) => B = A)
    BY <1>1, <2>1, FS_Subset
  <2> QED
    BY <2>2, Zenon
<1> QED
  BY <1>1, <1>2, Zenon

\* What the sizes say.
LEMMA FitIs ==
    ASSUME NEW q, NEW A \in SUBSET Elems, NEW B \in SUBSET Elems, NEW fit,
           fit <=> SizesFit(q.kind, Cardinality(A), Cardinality(B))
    PROVE  /\ q.kind = "equals" => (A = B <=> fit /\ A \subseteq B)
           /\ q.kind = "isProperSubsetOf" => (A \subseteq B /\ A # B <=> fit /\ A \subseteq B)
           /\ q.kind = "isProperSupersetOf" => (B \subseteq A /\ A # B <=> fit /\ B \subseteq A)
<1> DEFINE a == Cardinality(A)  b == Cardinality(B)
<1>1. /\ a \in Nat /\ b \in Nat
      /\ A \subseteq B => a <= b /\ (a = b => A = B)
      /\ B \subseteq A => b <= a /\ (b = a => B = A)
  BY Smaller
<1>2. /\ q.kind = "equals" => (fit <=> a = b)
      /\ q.kind = "isProperSubsetOf" => (fit <=> a < b)
      /\ q.kind = "isProperSupersetOf" => (fit <=> a > b)
  BY DEF SizesFit
<1>3. A = B => a = b
  OBVIOUS
<1> HIDE DEF a, b
<1>4. (A \subseteq B => (a < b <=> A # B)) /\ (B \subseteq A => (a > b <=> A # B))
  BY <1>1, <1>3
<1> QED
  BY <1>1, <1>2, <1>3, <1>4

\* The sizes settle the answer.
LEMMA LearnsSettles ==
    ASSUME NEW p, Reckons(p), Engaged(p), Sizes(p), Counts(p), Settled(p, Count(p)), out'[p] = {0}, ret'[p] = ret[p]
    PROVE  Justified(p)'
<1> DEFINE q == call[p]  K == kept[p][call[p].on]  L == kept[p][call[p].other]
           H == had[p][call[p].on]  I == had[p][call[p].other]
<1>0. Stays(p) /\ History(p) /\ content[q.on] \in SUBSET Elems /\ content[q.other] \in SUBSET Elems /\ sizes[p] \in Seq(Nat)
  BY StaysIs DEF Reckons
<1>1. CASE q.kind = "removeFunc" /\ Count(p) = 0
  <2>1. q.kind \notin Sized \cup Pops \cup Navigations
    BY <1>1 DEF Sized, Pops, Navigations
  <2>2. \A o : o = {0} => Within(q, K, L, H, I, o, ret[p])
    BY <1>1, <2>1 DEF Within, PopWithin, NavigationWithin, AlgebraWithin, RelationWithin, BulkWithin, Sized
  <2>3. Exact(q, content[q.on], content[q.other], {0})
    BY <1>1 DEF Exact
  <2>4. op[p].on = q.on
    BY <1>1, ReckonsIs DEF Measure
  <2>5. kept[p][q.on] = {} \/ ~alone[p]
    BY <1>1, <2>4, CountIs
  <2> QED
    BY <1>0, <2>2, <2>3, <2>5, JustifiedAnew
<1>2. CASE q.kind \in Sized /\ sizes[p] # <<>> /\ ~SizesFit(q.kind, sizes[p][1], Count(p))
  <2>1. Len(sizes[p]) = 1
    <3>1. Len(sizes[p]) \in Nat /\ Len(sizes[p]) # 0
      BY <1>0, <1>2
    <3>2. ~(Len(sizes[p]) > 1)
      BY <1>2, ReckonsSizes
    <3>3. PICK n : n = Len(sizes[p])
      OBVIOUS
    <3>4. n \in Nat /\ n # 0 /\ ~(n > 1)
      BY <3>1, <3>2, <3>3, Zenon
    <3>5. n = 1
      BY <3>4
    <3> QED
      BY <3>3, <3>5
  <2>2. alone[p] => sizes[p][1] = Cardinality(content[q.on]) /\ Count(p) = Cardinality(content[q.other])
    BY <1>2, <2>1, ReckonsSizes
  <2>3. alone[p] => ~SizesFit(q.kind, Cardinality(content[q.on]), Cardinality(content[q.other]))
    BY <1>2, <2>2, Zenon
  <2>4. \A o : o = {0} => Within(q, K, L, H, I, o, ret[p])
    BY <1>2 DEF Within, PopWithin, NavigationWithin, AlgebraWithin, RelationWithin, BulkWithin, Sized, Pops, Navigations
  <2>5. alone[p] => Exact(q, content[q.on], content[q.other], {0})
    BY <1>0, <2>3, FitIs DEF Exact
  <2>6. q.kind # "removeFunc"
    BY <1>2 DEF Sized
  <2> QED
    BY <1>0, <2>4, <2>5, <2>6, JustifiedAnew
<1> QED
  BY <1>1, <1>2 DEF Settled

LEMMA LearnsTours ==
    ASSUME NEW p, Reckons(p), Engaged(p), out'[p] = out[p], Toured(p)
    PROVE  Toured(p)'
<1>0. /\ Stays(p) /\ History(p) /\ plan'[p] = plan[p] /\ walk[p].on = none /\ walk'[p].on = none
  BY ReckonsIs DEF Reckons
<1>1. Onward(call[p], plan[p])'
  <2>1. PICK l : l = plan[p]
    OBVIOUS
  <2>2. Onward(call[p], l)'
    BY <1>0, <2>1, OnwardStays DEF Toured
  <2> QED
    BY <1>0, <2>1, <2>2 DEF Onward
<1>2. ASSUME NEW s \in Sets, NEW o \in Consultable, Leg(call[p], s, o)'
      PROVE  Ahead(p, s, o)' \/ Behind(p, s, o)'
  <2>1. Ahead(p, s, o) \/ Behind(p, s, o)
    BY <1>0, <1>2, StaysIs, SetAssumption DEF Toured, Here
  <2>2. Ahead(p, s, o)' <=> Ahead(p, s, o)
    BY <1>0 DEF Ahead, Coming
  <2>3. Behind(p, s, o) => Behind(p, s, o)'
    BY <1>0, JudgedKeeps, StaysIs DEF Behind
  <2> QED
    BY <2>1, <2>2, <2>3
<1>3. call[p].kind = "removeFunc" => Ahead(p, call[p].on, none)'
  <2>1. call'[p] = call[p]
    BY <1>0, StaysIs
  <2>2. call[p].kind = "removeFunc" => Ahead(p, call[p].on, none)
    BY <1>0 DEF Toured
  <2> QED
    BY <1>0, <2>1, <2>2 DEF Ahead, Coming
<1>4. ASSUME call[p].kind \in Chooses
      PROVE  plan[p] = <<>> \/ (walk'[p].on = none /\ plan[p] = Walk(call[p].on, none)' /\ out[p] = {})
  <2>1. impl' = impl /\ call'[p] = call[p]
    BY <1>0, StaysIs
  <2>2. Walk(call[p].on, none)' = Walk(call[p].on, none)
    BY <2>1 DEF Walk, Locked
  <2> QED
    BY <1>0, <1>4, <2>2 DEF Toured
<1>5. call'[p] = call[p]
  BY <1>0, StaysIs
<1> QED
  BY <1>0, <1>1, <1>2, <1>3, <1>4, <1>5 DEF Toured

LEMMA LearnsReady ==
    ASSUME NEW p, Reckons(p), Engaged(p), pc'[p] = "next", Readied(p)
    PROVE  Readied(p)'
<1> DEFINE o == op[p]
<1>0. /\ Stays(p) /\ History(p) /\ plan'[p] = plan[p] /\ walk'[p].on = none /\ pc[p] \in Operating
      /\ pc'[p] \notin Operating /\ o.kind \in Measuring
      /\ o.kind = "snapshot" => Spanned(p, o.on, ret[p]) /\ walk'[p].batch = ret[p]
      /\ o.kind # "snapshot" => walk'[p] = walk[p]
  BY ReckonsIs DEF Reckons, Operating
<1>1. PICK t \in Sets \cup {none} :
        /\ Prepared(plan[p], t)
        /\ t # none => IF pc[p] \in Operating /\ o.kind = "snapshot" THEN o.on = t ELSE Spanned(p, t, walk[p].batch)
  BY DEF Readied
<1>2. Prepared(plan[p], t)'
  BY <1>0, <1>1, StaysIs DEF Prepared, Shot
<1>3. ASSUME t # none PROVE Spanned(p, t, walk'[p].batch)
  <2>1. CASE o.kind = "snapshot"
    <3>1. o.on = t
      BY <1>0, <1>1, <1>3, <2>1
    <3> QED
      BY <1>0, <2>1, <3>1
  <2>2. CASE o.kind # "snapshot"
    BY <1>0, <1>1, <1>3, <2>2
  <2> QED
    BY <2>1, <2>2
<1>4. t # none => Spanned(p, t, walk[p].batch)'
  <2>1. kept'[p] = kept[p] /\ had'[p] = had[p]
    BY <1>0, StaysIs
  <2> QED
    BY <1>3, <2>1 DEF Spanned
<1> QED
  BY <1>0, <1>1, <1>2, <1>4 DEF Readied

LEMMA LearnsHalves ==
    ASSUME NEW p, Reckons(p), Engaged(p), pc'[p] = "next", Halves(p)
    PROVE  Halves(p)'
<1> DEFINE q == call[p]
<1>0. /\ Stays(p) /\ History(p) /\ pc[p] # "next" /\ op[p].kind \in Measuring
      /\ op[p].kind = "snapshot" => /\ Spanned(p, op[p].on, ret[p]) /\ ret[p] \in SUBSET Elems
                                    /\ snap'[p] = IF snap[p] = none THEN ret[p] ELSE snap[p]
      /\ op[p].kind # "snapshot" => snap'[p] = snap[p]
  BY ReckonsIs DEF Reckons
<1>1. call'[p] = q /\ kept'[p] = kept[p] /\ had'[p] = had[p] /\ (Locked(q.on)' <=> Locked(q.on))
  BY <1>0, StaysIs
<1>2. ASSUME q.kind = "symmetricDifference", Locked(q.on)
      PROVE  snap'[p] \in SUBSET Elems /\ Spanned(p, q.on, snap'[p])
  <2>1. CASE snap[p] = none
    <3>1. op[p].kind = "snapshot" /\ op[p].on = q.on
      BY <1>0, <1>2, <2>1 DEF Halves
    <3> QED
      BY <1>0, <2>1, <3>1
  <2>2. CASE snap[p] # none
    BY <1>0, <1>2, <2>2 DEF Halves
  <2> QED
    BY <2>1, <2>2
<1>3. \A S \in SUBSET Elems : S # none
  BY SnapshotAssumption
<1> QED
  BY <1>1, <1>2, <1>3 DEF Halves, Spanned

LEMMA LearnsLearned ==
    ASSUME IInv, IInv', NEW p \in Procs, Learns(p), Ages(p), History(p), Walker(call[p]), Learned(p), Choice(p)
    PROVE  (Learned(p)' /\ pc'[p] # "done") \/ (Justified(p)' /\ pc'[p] = "done")
<1> DEFINE q == call[p]
<1>0. Shape /\ Labelled(p)
  BY DEF IInv
<1>1. /\ Private(p) /\ pc[p] = "got" /\ op[p].kind \in Measuring /\ plan'[p] = plan[p] /\ ret'[p] = ret[p]
      /\ IF op[p].kind = "snapshot"
         THEN /\ walk'[p] = [walk[p] EXCEPT !.batch = ret[p]]
              /\ snap'[p] = IF snap[p] = none THEN ret[p] ELSE snap[p]
         ELSE walk'[p] = walk[p] /\ snap'[p] = snap[p]
      /\ sizes'[p] = IF Counts(p) THEN Append(sizes[p], Count(p)) ELSE sizes[p]
      /\ IF Counts(p) /\ Settled(p, Count(p)) THEN pc'[p] = "done" /\ out'[p] = {0}
                                              ELSE pc'[p] = "next" /\ out'[p] = out[p]
  BY <1>0, LearnsFacts
<1>2. Stays(p) /\ History(p)'
  BY <1>1, OwnStays DEF Acts, Step
<1>3. /\ op[p] \in Ops /\ walk[p] \in Hikes /\ sizes[p] \in Seq(Nat) /\ content \in [Sets -> SUBSET Elems]
      /\ op[p].kind = "snapshot" => ret[p] \in SUBSET Elems
      /\ op[p].kind = "size" => \E n \in Nat : ret[p] = {n}
  BY <1>0, <1>1 DEF Labelled, Operating, Shape
<1>4. Reckons(p)
  BY <1>1, <1>2, <1>3 DEF Reckons
<1>5. Toured(p) /\ Engaged(p) /\ Gathers(p) /\ Readied(p) /\ Halves(p) /\ Sizes(p)
  BY DEF Learned
<1>6. CASE Counts(p) /\ Settled(p, Count(p))
  BY <1>1, <1>4, <1>5, <1>6, LearnsSettles
<1>7. CASE ~(Counts(p) /\ Settled(p, Count(p)))
  <2>1. pc'[p] = "next" /\ out'[p] = out[p]
    BY <1>1, <1>7, Zenon
  <2>2. walk'[p].on = none /\ (q.kind \notin Pops \/ Locked(q.on)) /\ call'[p] = q
    BY <1>2, <1>4, <1>5, ReckonsIs, StaysIs
  <2>3. Engaged(p)'
    BY <2>1, <2>2 DEF Engaged, Operating
  <2>4. Strolls(p)'
    BY <2>2 DEF Strolls
  <2>5. Gathers(p)'
    <3>1. \A e \in out[p] : Sound(p, e)'
      BY <1>2, <1>5, StaysIs DEF Gathers
    <3>2. q.kind \notin Pops
      BY <2>2 DEF Walker, Asking, Algebra, Relations, Sized, Pops, Chooses
    <3> QED
      BY <1>5, <2>1, <2>2, <3>1, <3>2 DEF Gathers
  <2>6. Toured(p)' /\ Readied(p)' /\ Halves(p)' /\ Sizes(p)'
    BY <1>4, <1>5, <1>7, <2>1, LearnsTours, LearnsReady, LearnsHalves, LearnsSizes
  <2> QED
    BY <2>1, <2>3, <2>4, <2>5, <2>6 DEF Learned
<1> QED
  BY <1>6, <1>7

-----------------------------------------------------------------------------
(* What the walks that are over have shown.                                *)

LEMMA JudgedAlone ==
    ASSUME NEW p, NEW e, Judged(p, none, e)
    PROVE  LET q == call[p] IN
           /\ q.kind \in {"union", "scan"} => e \in out[p]
           /\ q.kind \in Pops => \E m \in out[p] : Beats(q, m, e)
           /\ q.kind \in Navigations => ~Qualifies(q.kind, q.elem, e) \/ \E m \in out[p] : Beats(q, m, e)
           /\ q.kind # "clear"
<1> DEFINE q == call[p]
<1>1. (\E found \in BOOLEAN : May(p, none, e, found) /\ ~Collects(q, e, found)) => ~Collects(q, e, TRUE)
  BY DEF May
<1>2. ASSUME q.kind \in {"union", "scan"} PROVE e \in out[p]
  <2>1. Collects(q, e, TRUE)
    BY <1>2, CollectsIs
  <2>2. q.kind \notin Chooses \cup Relations \cup {"clear"}
    BY <1>2, RisingIs DEF Relations, Sized
  <2> QED
    BY <1>1, <2>1, <2>2, Zenon DEF Judged
<1>3. ASSUME q.kind \in Chooses
      PROVE  ~Collects(q, e, TRUE) \/ \E m \in out[p] : Beats(q, m, e)
  <2>1. q.kind \notin Relations
    BY <1>3, RisingIs
  <2> QED
    BY <1>1, <1>3, <2>1, Zenon DEF Judged
<1>4. ASSUME q.kind = "clear" PROVE FALSE
  <2>1. q.kind \notin Chooses \cup Relations
    BY <1>4, RisingIs DEF Relations, Sized
  <2>2. Collects(q, e, TRUE)
    BY <1>4, <2>1 DEF Collects, Navigations, Relations, Chooses
  <2> QED
    BY <1>1, <1>4, <2>1, <2>2, Zenon DEF Judged
<1>5. /\ q.kind \in Pops => Collects(q, e, TRUE)
      /\ q.kind \in Navigations => (Collects(q, e, TRUE) <=> Qualifies(q.kind, q.elem, e))
  BY CollectsIs
<1> QED
  BY <1>2, <1>3, <1>4, <1>5 DEF Chooses

\* The set that o stands for.
Meant(p, o) == IF o = "itself" THEN call[p].on ELSE o

LEMMA JudgedAsking ==
    ASSUME NEW p, NEW o, o # none, NEW e, Judged(p, o, e)
    PROVE  LET q == call[p]  t == Meant(p, o) IN
           /\ q.kind = "intersection" => e \notin kept[p][t] \/ e \in out[p]
           /\ q.kind = "isDisjoint" => e \notin kept[p][t] \/ out[p] # {}
           /\ q.kind \in {"difference", "symmetricDifference"} => e \in had[p][t] \/ e \in out[p]
           /\ q.kind \in Relations \ {"isDisjoint"} => e \in had[p][t] \/ out[p] # {}
<1> DEFINE q == call[p]  t == Meant(p, o)
<1>1. ASSUME NEW found \in BOOLEAN, May(p, o, e, found), ~Collects(q, e, found)
      PROVE  /\ q.kind \in {"intersection", "isDisjoint"} => e \notin kept[p][t]
             /\ q.kind \in {"difference", "symmetricDifference"} \cup (Relations \ {"isDisjoint"}) => e \in had[p][t]
  BY <1>1, CollectsIs DEF May, Meant
<1>2. \/ /\ q.kind \in {"intersection", "isDisjoint"} => e \notin kept[p][t]
         /\ q.kind \in {"difference", "symmetricDifference"} \cup (Relations \ {"isDisjoint"}) => e \in had[p][t]
      \/ q.kind \in Chooses
      \/ q.kind \in Relations /\ out[p] # {}
      \/ q.kind \notin Relations /\ e \in out[p]
  BY <1>1 DEF Judged
<1>3. /\ {"intersection", "difference", "symmetricDifference", "isDisjoint"} \cap Chooses = {}
      /\ {"intersection", "difference", "symmetricDifference"} \cap Relations = {} /\ "isDisjoint" \in Relations
      /\ Relations \cap Chooses = {}
  BY RisingIs DEF Relations, Sized
<1> QED
  BY <1>2, <1>3

LEMMA SoundIs ==
    ASSUME NEW p, call[p] \in Requests, NEW e, Sound(p, e)
    PROVE  LET q == call[p]
               K == kept[p][q.on]  L == kept[p][q.other]  H == had[p][q.on]  I == had[p][q.other]
           IN  /\ q.kind = "union" => e \in H \cup I
               /\ q.kind = "scan" => e \in H
               /\ q.kind \in Navigations => e \in H /\ Qualifies(q.kind, q.elem, e)
               /\ q.kind \in {"intersection", "isDisjoint"} => e \in H \cap I
               /\ q.kind \in {"difference", "isSubsetOf", "equals", "isProperSubsetOf"} => e \in H \ L
               /\ q.kind \in {"isSupersetOf", "isProperSupersetOf"} => e \in I \ K
               /\ q.kind = "symmetricDifference" => e \in (H \ L) \cup (I \ K)
<1> DEFINE q == call[p]
           K == kept[p][q.on]  L == kept[p][q.other]  H == had[p][q.on]  I == had[p][q.other]
<1>1. PICK s \in Sets, o \in Consultable, found \in BOOLEAN :
        Leg(q, s, o) /\ e \in had[p][s] /\ May(p, o, e, found) /\ Collects(q, e, found)
  BY DEF Sound
<1>2. q.on # none /\ q.on # "itself" /\ q.other # none /\ q.other # "itself"
  BY RequestIs
<1>3. ASSUME q.kind = "union" PROVE e \in H \cup I
  BY <1>1, <1>3 DEF Leg
<1>4. ASSUME q.kind \in {"scan"} \cup Navigations PROVE e \in H /\ (q.kind \in Navigations => Qualifies(q.kind, q.elem, e))
  <2>1. q.kind \notin Asking
    BY <1>4 DEF Asking, Algebra, Relations, Sized, Navigations
  <2>2. s = q.on
    BY <1>1, <2>1, ChoosersWalk
  <2> QED
    BY <1>1, <2>2, CollectsIs
<1>5. ASSUME q.kind \in {"intersection", "isDisjoint"} PROVE e \in H \cap I
  <2>1. s = q.on /\ o = q.other
    BY <1>1, <1>5 DEF Leg, Asking, Algebra, Relations
  <2>2. found
    BY <1>1, <1>5, CollectsIs
  <2> QED
    BY <1>1, <1>2, <2>1, <2>2 DEF May
<1>6. ASSUME q.kind \in {"difference", "isSubsetOf", "equals", "isProperSubsetOf"} PROVE e \in H \ L
  <2>1. s = q.on /\ o = q.other
    BY <1>1, <1>6 DEF Leg, Asking, Algebra, Relations, Sized
  <2>2. ~found
    BY <1>1, <1>6, CollectsIs DEF Relations, Sized
  <2> QED
    BY <1>1, <1>2, <2>1, <2>2 DEF May
<1>7. ASSUME q.kind \in {"isSupersetOf", "isProperSupersetOf"} PROVE e \in I \ K
  <2>1. s = q.other /\ o = q.on
    BY <1>1, <1>7 DEF Leg
  <2>2. ~found
    BY <1>1, <1>7, CollectsIs DEF Relations, Sized
  <2> QED
    BY <1>1, <1>2, <2>1, <2>2 DEF May
<1>8. ASSUME q.kind = "symmetricDifference" PROVE e \in (H \ L) \cup (I \ K)
  <2>1. ~found
    BY <1>1, <1>8, CollectsIs
  <2>2. (s = q.on /\ o = q.other) \/ (s = q.other /\ o \in {"itself", q.on})
    BY <1>1, <1>8 DEF Leg
  <2> QED
    BY <1>1, <1>2, <2>1, <2>2 DEF May
<1> QED
  BY <1>3, <1>4, <1>5, <1>6, <1>7, <1>8

\* Every walk is over, and nothing is under way.
LEMMA AllBehind ==
    ASSUME NEW p, Toured(p), plan[p] = <<>>, walk[p].on = none
    PROVE  /\ \A s \in Sets, o \in Consultable : Leg(call[p], s, o) => Behind(p, s, o)
           /\ call[p].kind # "removeFunc"
<1>1. \A s, o : ~Ahead(p, s, o)
  BY DEF Ahead, Coming
<1>2. \A s \in Sets : \A o : ~Here(p, s, o)
  BY SetAssumption DEF Here
<1> QED
  BY <1>1, <1>2 DEF Toured

\* The element Pop has chosen, or that there is none.
LEMMA PopFound ==
    ASSUME NEW p, call[p] \in Requests, Toured(p), Gathers(p), plan[p] = <<>>, walk[p].on = none,
           NEW r, r = out[p]
    PROVE  PopWithin(call[p], kept[p][call[p].on], r)
<1> DEFINE q == call[p]  K == kept[p][call[p].on]
<1>1. ASSUME q.kind \in Pops PROVE \A k \in K : \E m \in r : Beats(q, m, k)
  <2>1. q.kind \notin Asking /\ q.kind \notin {"union", "symmetricDifference", "isSupersetOf", "isProperSupersetOf"}
    BY <1>1, PopsAreNoOthers DEF Asking, Algebra, Relations, Sized
  <2>2. Leg(q, q.on, none) /\ q.on \in Sets /\ none \in Consultable
    BY <2>1, RequestIs DEF Leg, Consultable
  <2>3. Behind(p, q.on, none)
    BY <2>2, AllBehind
  <2> QED
    BY <1>1, <2>3, JudgedAlone DEF Behind
<1>2. ASSUME q.kind \in Pops, NEW m \in r, NEW k \in K, impl[q.on] = "skip"
      PROVE  IF q.kind = "popLast" THEN m >= k ELSE m <= k
  <2>1. PICK b \in r : Beats(q, b, k)
    BY <1>1, <1>2
  <2>2. b = m
    BY <1>2, <2>1 DEF Gathers, Chooses
  <2>3. q.kind = "popLast" <=> q.kind \notin Rising
    BY <1>2, RisingIs DEF Pops
  <2> QED
    BY <1>2, <2>1, <2>2, <2>3 DEF Beats
<1> QED
  BY <1>1, <1>2 DEF PopWithin

LEMMA PopAgain ==
    ASSUME NEW p, Stays(p), History(p), Learned(p), call[p].kind \in Pops, ~Locked(call[p].on),
           walk[p].on = none, walk'[p].on = none, plan'[p] = Walk(call[p].on, none), pc'[p] = "next",
           out'[p] = {}, snap'[p] = snap[p], sizes'[p] = sizes[p]
    PROVE  Learned(p)'
<1> DEFINE q == call[p]
<1>1. call'[p] = q /\ impl' = impl /\ q \in Requests /\ q.on \in Sets /\ none \in Consultable
  BY StaysIs DEF Consultable
<1>2. q.kind \notin Asking /\ q.kind \notin Algebra \cup Relations \cup Sized /\ q.kind # "removeFunc" /\ q.kind # "symmetricDifference"
  BY PopsAreNoOthers DEF Asking, Algebra, Relations
<1>3. Leg(q, q.on, none)
  BY <1>2, RequestIs DEF Leg, Algebra, Relations, Sized
<1>4. PICK l : l = Walk(q.on, none)
  OBVIOUS
<1>5. Onward(q, l) /\ Coming(l, q.on, none) /\ Prepared(l, none)
  BY <1>1, <1>3, <1>4, WalkTrip
<1>6. Onward(call[p], l)' /\ Prepared(l, none)'
  <2>1. Onward(call[p], l)'
    BY <1>5, OnwardStays
  <2> QED
    BY <1>1, <1>5, <2>1 DEF Prepared, Shot, Locked
<1>7. Toured(p)'
  <2>1. Onward(call[p], plan[p])'
    BY <1>4, <1>6 DEF Onward
  <2>2. ASSUME NEW s \in Sets, NEW o \in Consultable, Leg(call[p], s, o)' PROVE Ahead(p, s, o)'
    <3>0. Leg(q, s, o)
      BY <2>2, StaysIs
    <3>1. s = q.on /\ o = none
      BY <1>1, <1>2, <3>0, ChoosersWalk
    <3> QED
      BY <1>4, <1>5, <3>1 DEF Ahead, Coming
  <2>3. Walk(call[p].on, none)' = Walk(call[p].on, none)
    BY <1>1 DEF Walk, Locked
  <2> QED
    BY <1>1, <1>2, <2>1, <2>2, <2>3 DEF Toured
<1>8. Engaged(p)' /\ Strolls(p)' /\ Gathers(p)'
  BY DEF Engaged, Strolls, Gathers, Operating
<1>9. Readied(p)'
  BY <1>4, <1>6 DEF Readied, Prepared, Shot
<1>10. Halves(p)' /\ Sizes(p)'
  BY <1>1, <1>2 DEF Halves, Sizes
<1> QED
  BY <1>7, <1>8, <1>9, <1>10 DEF Learned

LEMMA PoppedLearned ==
    ASSUME IInv, IInv', NEW p \in Procs, Popped(p), Ages(p), History(p), Walker(call[p]), Learned(p)
    PROVE  (Learned(p)' /\ pc'[p] # "done") \/ (Justified(p)' /\ pc'[p] = "done")
<1> DEFINE q == call[p]
<1>0. Shape /\ Labelled(p)
  BY DEF IInv
<1>1. /\ Private(p) /\ pc[p] = "got" /\ op[p].kind = "remove" /\ q.kind \in Pops
      /\ walk'[p] = walk[p] /\ snap'[p] = snap[p] /\ sizes'[p] = sizes[p] /\ out'[p] = {}
      /\ IF ret[p] = {}
         THEN plan'[p] = Walk(q.on, none) /\ pc'[p] = "next" /\ ret'[p] = ret[p]
         ELSE plan'[p] = plan[p] /\ pc'[p] = "done" /\ ret'[p] = out[p]
  BY <1>0, PoppedFacts
<1>2. Stays(p) /\ History(p)' /\ q \in Requests
  BY <1>1, OwnStays, StaysIs DEF Acts, Step
<1>3. q.kind \notin Asking \cup Navigations \cup {"clear", "scan", "removeFunc"} /\ q.kind \notin Relations \cup Sized \cup Algebra
  BY <1>1, PopsAreNoOthers DEF Asking, Algebra, Relations
<1>4. ~Locked(q.on)
  BY <1>3 DEF Walker
<1>5. Removes(p)
  BY <1>1, <1>3 DEF Learned, Engaged, Operating, Measures, Measure, Measuring, Consults, Clears
<1>6. walk[p].on = none /\ plan[p] = <<>> /\ out[p] = {op[p].elem}
  BY <1>5 DEF Removes
<1>7. CASE ret[p] = {}
  BY <1>1, <1>2, <1>4, <1>6, <1>7, PopAgain
<1>8. CASE ret[p] # {}
  <2>1. PICK r : r = out[p] /\ ret'[p] = r
    BY <1>1, <1>8
  <2>2. PopWithin(q, kept[p][q.on], r)
    BY <1>2, <1>6, <2>1, PopFound DEF Learned
  <2>3. \A o : Exact(q, content[q.on], content[q.other], o)
    BY <1>3 DEF Exact, Sized
  <2>4. \A K, L, H, I, o : PopWithin(q, K, r) => Within(q, K, L, H, I, o, r)
    BY <1>3 DEF Within, AlgebraWithin, RelationWithin, NavigationWithin, BulkWithin, Algebra, Relations, Sized
  <2>5. q.kind # "removeFunc"
    BY <1>3
  <2>6. Justified(p)'
    BY <1>1, <1>2, <2>1, <2>2, <2>3, <2>4, <2>5, JustifiedAnew
  <2> QED
    BY <1>1, <1>8, <2>6
<1> QED
  BY <1>7, <1>8

\* Nothing is under way any more.
Rested(p) ==
    /\ call[p] \in Requests /\ Toured(p) /\ Gathers(p) /\ plan[p] = <<>> /\ walk[p].on = none
    /\ \A s \in Sets : kept[p][s] \subseteq had[p][s]

LEMMA SetAlgebraFound ==
    ASSUME NEW p, Rested(p)
    PROVE  AlgebraWithin(call[p], kept[p][call[p].on], kept[p][call[p].other],
                         had[p][call[p].on], had[p][call[p].other], out[p])
<1> DEFINE q == call[p]
           K == kept[p][q.on]  L == kept[p][q.other]  H == had[p][q.on]  I == had[p][q.other]
<1>0. /\ q \in Requests /\ q.on \in Sets /\ q.other \in Sets /\ q.other # none /\ q.on # none
      /\ q.on # "itself" /\ q.other # "itself" /\ q.other \in Consultable /\ none \in Consultable
      /\ q.on \in Consultable /\ "itself" \in Consultable
  BY RequestIs DEF Rested, Consultable
<1>1. \A s \in Sets, o \in Consultable : Leg(q, s, o) => \A e \in kept[p][s] : Judged(p, o, e)
  BY AllBehind DEF Rested, Behind
<1>2. \A e \in out[p] : Sound(p, e)
  BY DEF Rested, Gathers
<1>3. ASSUME q.kind = "union" PROVE Between(K \cup L, out[p], H \cup I)
  <2>1. Leg(q, q.on, none) /\ Leg(q, q.other, none)
    BY <1>3 DEF Leg
  <2>2. \A e \in K \cup L : Judged(p, none, e)
    BY <1>0, <1>1, <2>1
  <2>3. \A e \in K \cup L : e \in out[p]
    BY <1>3, <2>2, JudgedAlone
  <2>4. \A e \in out[p] : e \in H \cup I
    BY <1>0, <1>2, <1>3, SoundIs
  <2> QED
    BY <2>3, <2>4 DEF Between
<1>4. ASSUME q.kind \in {"intersection", "difference"} PROVE \A e \in K : Judged(p, q.other, e)
  <2>1. Leg(q, q.on, q.other)
    BY <1>4 DEF Leg, Asking, Algebra
  <2> QED
    BY <1>0, <1>1, <2>1
<1>5. Meant(p, q.other) = q.other /\ Meant(p, q.on) = q.on /\ Meant(p, "itself") = q.on
  BY <1>0 DEF Meant
<1>6. ASSUME q.kind = "intersection" PROVE Between(K \cap L, out[p], H \cap I)
  <2>1. \A e \in K : e \notin L \/ e \in out[p]
    BY <1>0, <1>4, <1>5, <1>6, JudgedAsking
  <2>2. \A e \in out[p] : e \in H \cap I
    BY <1>0, <1>2, <1>6, SoundIs
  <2> QED
    BY <2>1, <2>2 DEF Between
<1>7. ASSUME q.kind = "difference" PROVE Between(K \ I, out[p], H \ L)
  <2>1. \A e \in K : e \in I \/ e \in out[p]
    BY <1>0, <1>4, <1>5, <1>7, JudgedAsking
  <2>2. \A e \in out[p] : e \in H \ L
    BY <1>0, <1>2, <1>7, SoundIs
  <2> QED
    BY <2>1, <2>2 DEF Between
<1>8. ASSUME q.kind = "symmetricDifference" PROVE Between((K \ I) \cup (L \ H), out[p], (H \ L) \cup (I \ K))
  <2> DEFINE o == IF Locked(q.on) THEN "itself" ELSE q.on
  <2>1. Leg(q, q.on, q.other) /\ Leg(q, q.other, o) /\ o \in Consultable
    BY <1>0, <1>8 DEF Leg
  <2>2. (\A e \in K : Judged(p, q.other, e)) /\ (\A e \in L : Judged(p, o, e))
    BY <1>0, <1>1, <2>1
  <2>3. o # none /\ Meant(p, o) = q.on
    BY <1>0, <1>5, SetAssumption
  <2>4. \A e \in K : e \in I \/ e \in out[p]
    BY <1>0, <1>5, <1>8, <2>2, JudgedAsking
  <2>5. \A e \in L : e \in H \/ e \in out[p]
    <3> HIDE DEF o
    <3> QED
      BY <1>8, <2>2, <2>3, JudgedAsking
  <2>6. \A e \in out[p] : e \in (H \ L) \cup (I \ K)
    BY <1>0, <1>2, <1>8, SoundIs
  <2> QED
    BY <2>4, <2>5, <2>6 DEF Between
<1> QED
  BY <1>3, <1>6, <1>7, <1>8 DEF AlgebraWithin

\* What an empty and another collection say of a comparison.
LEMMA RelationFound ==
    ASSUME NEW p, Rested(p), call[p].kind \in Relations
    PROVE  LET q == call[p]
               K == kept[p][q.on]  L == kept[p][q.other]  H == had[p][q.on]  I == had[p][q.other]
           IN  /\ q.kind = "isDisjoint" => IF out[p] = {} THEN K \cap L = {} ELSE H \cap I # {}
               /\ q.kind \in {"isSubsetOf", "equals", "isProperSubsetOf"} =>
                    IF out[p] = {} THEN K \subseteq I ELSE ~(H \subseteq L)
               /\ q.kind \in {"isSupersetOf", "isProperSupersetOf"} =>
                    IF out[p] = {} THEN L \subseteq H ELSE ~(I \subseteq K)
<1> DEFINE q == call[p]
           K == kept[p][q.on]  L == kept[p][q.other]  H == had[p][q.on]  I == had[p][q.other]
<1>0. /\ q \in Requests /\ q.on \in Sets /\ q.other \in Sets /\ q.other # none /\ q.on # none
      /\ q.on # "itself" /\ q.other # "itself" /\ q.other \in Consultable /\ q.on \in Consultable
  BY RequestIs DEF Rested, Consultable
<1>1. \A s \in Sets, o \in Consultable : Leg(q, s, o) => \A e \in kept[p][s] : Judged(p, o, e)
  BY AllBehind DEF Rested, Behind
<1>2. \A e \in out[p] : Sound(p, e)
  BY DEF Rested, Gathers
<1>3. Meant(p, q.other) = q.other /\ Meant(p, q.on) = q.on
  BY <1>0 DEF Meant
<1>4. ASSUME q.kind \in {"isSupersetOf", "isProperSupersetOf"}
      PROVE  IF out[p] = {} THEN L \subseteq H ELSE ~(I \subseteq K)
  <2>1. Leg(q, q.other, q.on)
    BY <1>4 DEF Leg
  <2>2. \A e \in L : e \in H \/ out[p] # {}
    BY <1>0, <1>1, <1>3, <1>4, <2>1, JudgedAsking
  <2>3. \A e \in out[p] : e \in I \ K
    BY <1>0, <1>2, <1>4, SoundIs
  <2> QED
    BY <2>2, <2>3
<1>5. ASSUME q.kind \notin {"isSupersetOf", "isProperSupersetOf"} PROVE \A e \in K : Judged(p, q.other, e)
  <2>1. Leg(q, q.on, q.other)
    BY <1>5 DEF Leg, Asking, Relations, Sized
  <2> QED
    BY <1>0, <1>1, <2>1
<1>6. ASSUME q.kind \in {"isSubsetOf", "equals", "isProperSubsetOf"}
      PROVE  IF out[p] = {} THEN K \subseteq I ELSE ~(H \subseteq L)
  <2>1. \A e \in K : e \in I \/ out[p] # {}
    BY <1>0, <1>3, <1>5, <1>6, JudgedAsking
  <2>2. \A e \in out[p] : e \in H \ L
    BY <1>0, <1>2, <1>6, SoundIs
  <2> QED
    BY <2>1, <2>2
<1>7. ASSUME q.kind = "isDisjoint" PROVE IF out[p] = {} THEN K \cap L = {} ELSE H \cap I # {}
  <2>1. \A e \in K : e \notin L \/ out[p] # {}
    BY <1>0, <1>3, <1>5, <1>7, JudgedAsking
  <2>2. \A e \in out[p] : e \in H \cap I
    BY <1>0, <1>2, <1>7, SoundIs
  <2> QED
    BY <2>1, <2>2
<1> QED
  BY <1>4, <1>6, <1>7

LEMMA NavigationFound ==
    ASSUME NEW p, Rested(p), Walker(call[p]), impl[call[p].on] # "tree" => impl[call[p].on] = "skip" \/ call[p].kind \notin Navigations
    PROVE  NavigationWithin(call[p], kept[p][call[p].on], had[p][call[p].on], out[p])
<1> DEFINE q == call[p]  K == kept[p][q.on]  H == had[p][q.on]
<1>0. q \in Requests /\ q.on \in Sets /\ none \in Consultable
  BY RequestIs DEF Rested, Consultable
<1>1. ASSUME q.kind \in Navigations, ~Locked(q.on)
      PROVE  /\ out[p] = {} => Fitting(q, K) = {}
             /\ \A e \in out[p] : /\ e \in H /\ Qualifies(q.kind, q.elem, e)
                                  /\ \A k \in Fitting(q, K) : IF q.kind \in Upward THEN e <= k ELSE e >= k
  <2>1. Leg(q, q.on, none)
    BY <1>1 DEF Leg, Navigations, Asking, Algebra, Relations, Sized
  <2>2. \A k \in K : Judged(p, none, k)
    BY <1>0, <2>1, AllBehind DEF Rested, Behind
  <2>3. \A k \in Fitting(q, K) : \E m \in out[p] : Beats(q, m, k)
    BY <1>1, <2>2, JudgedAlone DEF Fitting
  <2>4. ASSUME NEW e \in out[p] PROVE e \in H /\ Qualifies(q.kind, q.elem, e)
    BY <1>0, <1>1, <2>4, SoundIs DEF Rested, Gathers
  <2>5. ASSUME NEW e \in out[p], NEW k \in Fitting(q, K)
        PROVE  IF q.kind \in Upward THEN e <= k ELSE e >= k
    <3>1. PICK m \in out[p] : Beats(q, m, k)
      BY <2>3, <2>5
    <3>2. m = e
      BY <1>1, <2>5, <3>1 DEF Rested, Gathers, Chooses
    <3>3. impl[q.on] = "skip"
      BY <1>1 DEF Locked
    <3>4. q.kind \in Rising <=> q.kind \in Upward
      BY <1>1 DEF Rising, Navigations, Upward
    <3> QED
      BY <3>1, <3>2, <3>3, <3>4 DEF Beats
  <2> QED
    BY <2>3, <2>4, <2>5
<1> QED
  BY <1>1 DEF NavigationWithin

LEMMA BulkFound ==
    ASSUME NEW p, Rested(p), Walker(call[p])
    PROVE  BulkWithin(call[p], kept[p][call[p].on], had[p][call[p].on], out[p])
<1> DEFINE q == call[p]  K == kept[p][q.on]  H == had[p][q.on]
<1>0. q \in Requests /\ q.on \in Sets /\ none \in Consultable
  BY RequestIs DEF Rested, Consultable
<1>1. ASSUME q.kind \in {"scan", "clear"} PROVE \A e \in K : Judged(p, none, e)
  <2>1. Leg(q, q.on, none)
    BY <1>1 DEF Leg, Asking, Algebra, Relations, Sized
  <2> QED
    BY <1>0, <2>1, AllBehind DEF Rested, Behind
<1>2. ASSUME q.kind = "scan" PROVE Between(K, out[p], H)
  <2>1. \A e \in K : e \in out[p]
    BY <1>1, <1>2, JudgedAlone
  <2>2. \A e \in out[p] : e \in H
    BY <1>0, <1>2, SoundIs DEF Rested, Gathers
  <2> QED
    BY <2>1, <2>2 DEF Between
<1>3. ASSUME q.kind = "clear" PROVE K = {}
  BY <1>1, <1>3, JudgedAlone
<1>4. q.kind # "removeFunc"
  BY AllBehind DEF Rested
<1> QED
  BY <1>2, <1>3, <1>4 DEF BulkWithin

\* The sizes and the inclusion settle the answer of a comparison nobody disturbed.
LEMMA ExactFound ==
    ASSUME NEW p, Rested(p), History(p), Sizes(p), pc[p] = "next", sizes[p] \in Seq(Nat),
           content \in [Sets -> SUBSET Elems], alone[p]
    PROVE  Exact(call[p], content[call[p].on], content[call[p].other], out[p])
<1> DEFINE q == call[p]  A == content[q.on]  B == content[q.other]
<1>0. q \in Requests /\ q.on \in Sets /\ q.other \in Sets /\ A \in SUBSET Elems /\ B \in SUBSET Elems
  BY RequestIs DEF Rested
<1>1. ASSUME q.kind \in Sized PROVE Exact(q, A, B, out[p])
  <2>1. /\ kept[p][q.on] = A /\ kept[p][q.other] = B /\ had[p][q.on] = A /\ had[p][q.other] = B
    BY <1>0, <1>1, SizedIs DEF History
  <2>2. Len(sizes[p]) > 1
    <3>1. PICK l : l = Compare(q)
      OBVIOUS
    <3>2. l \in Seq(Ops) /\ Len(l) \in Nat /\ Len(l) > 2
      BY <1>0, <1>1, <3>1, CompareIs
    <3>3. l # <<>> /\ Tail(l) # <<>>
      <4>1. l # <<>>
        BY <3>2
      <4>2. Len(Tail(l)) = Len(l) - 1
        BY <3>2, <4>1, HeadOf
      <4>3. PICK t, n : t = Tail(l) /\ n = Len(l)
        OBVIOUS
      <4>4. n \in Nat /\ n > 2 /\ Len(t) = n - 1
        BY <3>2, <4>2, <4>3, Zenon
      <4>5. t # <<>>
        BY <4>4
      <4> QED
        BY <4>1, <4>3, <4>5
    <3>4. sizes[p] # <<>> /\ Len(sizes[p]) # 1
      BY <1>1, <3>1, <3>3 DEF Sizes, At, Rested
    <3>5. PICK n : n = Len(sizes[p])
      OBVIOUS
    <3>6. n \in Nat /\ n # 0
      BY <3>4, <3>5
    <3>7. n # 1
      BY <3>4, <3>5, Zenon
    <3>8. n > 1
      BY <3>6, <3>7
    <3> QED
      BY <3>5, <3>8, Zenon
  <2>3. SizesFit(q.kind, Cardinality(A), Cardinality(B))
    BY <1>1, <2>2 DEF Sizes
  <2>4. PICK fit : fit = TRUE
    OBVIOUS
  <2>5. /\ q.kind = "equals" => (A = B <=> A \subseteq B)
        /\ q.kind = "isProperSubsetOf" => (A \subseteq B /\ A # B <=> A \subseteq B)
        /\ q.kind = "isProperSupersetOf" => (B \subseteq A /\ A # B <=> B \subseteq A)
    BY <1>0, <2>3, <2>4, FitIs
  <2>6. /\ q.kind \in {"equals", "isProperSubsetOf"} => IF out[p] = {} THEN A \subseteq B ELSE ~(A \subseteq B)
        /\ q.kind = "isProperSupersetOf" => IF out[p] = {} THEN B \subseteq A ELSE ~(B \subseteq A)
    <3>1. q.kind \in Relations
      BY <1>1 DEF Relations
    <3> QED
      BY <2>1, <3>1, RelationFound
  <2> QED
    BY <2>5, <2>6 DEF Exact
<1>2. q.kind \notin Sized => Exact(q, A, B, out[p])
  BY DEF Exact, Sized
<1> QED
  BY <1>1, <1>2

LEMMA FinishLearned ==
    ASSUME IInv, IInv', NEW p \in Procs, Finish(p), Ages(p), History(p), Walker(call[p]), Learned(p)
    PROVE  Justified(p)'
<1> DEFINE q == call[p]
<1>0. Shape /\ Labelled(p)
  BY DEF IInv
<1>1. /\ Private(p) /\ pc[p] = "next" /\ plan[p] = <<>> /\ out'[p] = out[p]
      /\ ret'[p] = IF q.kind \in Pops /\ ~Locked(q.on) THEN {} ELSE ret[p]
  BY <1>0, FinishFacts DEF Moves
<1>2. Stays(p) /\ History(p)' /\ q \in Requests /\ \A s \in Sets : kept[p][s] \subseteq had[p][s]
  BY <1>1, OwnStays, StaysIs DEF Acts, Step
<1>3. content \in [Sets -> SUBSET Elems] /\ sizes[p] \in Seq(Nat) /\ impl \in [Sets -> {"hash", "skip", "tree"}]
  BY <1>0, MixAssumption DEF Shape
<1>4. Rested(p)
  BY <1>1, <1>2 DEF Learned, Engaged, Rested
<1>5. PICK o, r : o = out[p] /\ r = ret'[p]
  OBVIOUS
<1> DEFINE K == kept[p][q.on]  L == kept[p][q.other]  H == had[p][q.on]  I == had[p][q.other]
<1>6. PopWithin(q, K, r)
  <2>1. CASE q.kind \in Pops /\ ~Locked(q.on)
    <3>1. out[p] = {} /\ r = {}
      BY <1>1, <1>5, <2>1 DEF Learned, Gathers
    <3> QED
      BY <1>1, <1>2, <1>4, <3>1, PopFound DEF Rested
  <2>2. CASE ~(q.kind \in Pops /\ ~Locked(q.on))
    BY <2>2 DEF PopWithin
  <2> QED
    BY <2>1, <2>2
<1>7. AlgebraWithin(q, K, L, H, I, o) /\ BulkWithin(q, K, H, o)
  BY <1>4, <1>5, SetAlgebraFound, BulkFound
<1>8. RelationWithin(q, K, L, H, I, o)
  <2>1. CASE q.kind \in Relations
    BY <1>4, <1>5, <2>1, RelationFound DEF RelationWithin
  <2>2. CASE q.kind \notin Relations
    BY <2>2 DEF RelationWithin, Relations, Sized
  <2> QED
    BY <2>1, <2>2
<1>9. NavigationWithin(q, K, H, o)
  <2>1. impl[q.on] # "tree" => impl[q.on] = "skip" \/ q.kind \notin Navigations
    <3>1. q.on \in Sets
      BY <1>2, RequestIs
    <3>2. impl[q.on] = "hash" => q.kind \notin Sorted
      BY <1>0, <1>1 DEF Labelled
    <3> QED
      BY <1>3, <3>1, <3>2 DEF Sorted
  <2> QED
    BY <1>4, <1>5, <2>1, NavigationFound
<1>10. Within(q, K, L, H, I, o, r)
  BY <1>6, <1>7, <1>8, <1>9 DEF Within
<1>11. alone[p] => Exact(q, content[q.on], content[q.other], o)
  BY <1>1, <1>3, <1>4, <1>5, ExactFound DEF Learned
<1>12. q.kind # "removeFunc"
  BY <1>4, AllBehind DEF Rested
<1> QED
  BY <1>1, <1>2, <1>5, <1>10, <1>11, <1>12, JustifiedAnew

-----------------------------------------------------------------------------
(* RemoveFunc after its walk, and Clear of a tree or a hash set.           *)

LEMMA DeletingProceeds ==
    ASSUME IInv, NEW p \in Procs, Proceed(p), Stays(p), History(p), Deleting(p)
    PROVE  Deleting(p)' /\ pc'[p] # "done"
<1> DEFINE q == call[p]  o == Head(plan[p])  t == Tail(plan[p])
<1>0. Shape /\ Labelled(p)
  BY DEF IInv
<1>1. /\ pc[p] = "next" /\ plan[p] # <<>> /\ plan'[p] = t /\ op'[p] = o
      /\ IF o.kind = "walk" THEN walk'[p] = Walked(o.on, o.other, walk[p].batch) /\ pc'[p] = "walk"
                            ELSE walk'[p] = walk[p] /\ pc'[p] = "act"
  BY <1>0, ProceedFacts
<1>2. plan[p] \in Seq(Ops)
  BY <1>0 DEF Shape
<1>3. /\ 1 \in DOMAIN plan[p] /\ o = plan[p][1]
      /\ \A i \in DOMAIN t : i + 1 \in DOMAIN plan[p] /\ t[i] = plan[p][i + 1]
      /\ \A i \in DOMAIN plan[p] : i = 1 \/ (i - 1 \in DOMAIN t /\ t[i - 1] = plan[p][i])
  BY <1>1, <1>2, TailOf
<1> HIDE DEF o, t
<1>4. Deletion(p, o) /\ \A i \in DOMAIN t : Deletion(p, t[i])
  BY <1>3 DEF Deleting
<1>5. pc'[p] = "act" /\ walk'[p] = walk[p]
  BY <1>1, <1>4 DEF Deletion
<1>6. call'[p] = q /\ kept'[p] = kept[p]
  BY StaysIs
<1>7. ASSUME NEW e \in kept[p][q.on] \cap q.elems
      PROVE  e \in Hits(o) \/ \E i \in DOMAIN t : e \in Hits(t[i])
  <2>1. PICK i \in DOMAIN plan[p] : e \in Hits(plan[p][i])
    BY <1>1, <1>7 DEF Deleting, Operating
  <2> QED
    BY <1>3, <2>1
<1> QED
  BY <1>1, <1>4, <1>5, <1>6, <1>7 DEF Deleting, Deletion, Hits, Operating

LEMMA DeletingResumes ==
    ASSUME IInv, NEW p \in Procs, Resume(p), Stays(p), History(p), Deleting(p)
    PROVE  Deleting(p)' /\ pc'[p] # "done"
<1>0. Shape
  BY DEF IInv
<1>1. /\ pc[p] = "got" /\ op'[p] = op[p] /\ plan'[p] = plan[p] /\ walk'[p] = walk[p]
      /\ pc'[p] = IF op[p].kind = "remove" /\ walk[p].on # none THEN "walk"
                  ELSE IF op[p].kind = "contains" /\ ret[p] = {} THEN "done" ELSE "next"
  BY <1>0, ResumeFacts DEF Moves
<1>2. Deletion(p, op[p]) /\ walk[p].on = none
  BY <1>1 DEF Deleting, Operating
<1>3. pc'[p] = "next"
  BY <1>1, <1>2 DEF Deletion
<1>4. call'[p] = call[p] /\ kept'[p] = kept[p]
  BY StaysIs
<1> QED
  BY <1>1, <1>3, <1>4 DEF Deleting, Deletion, Operating

LEMMA DeletingFinishes ==
    ASSUME IInv, NEW p \in Procs, Finish(p), Stays(p), History(p), Deleting(p)
    PROVE  Justified(p)'
<1> DEFINE q == call[p]  K == kept[p][call[p].on]  L == kept[p][call[p].other]
           H == had[p][call[p].on]  I == had[p][call[p].other]
<1>0. Shape /\ Labelled(p)
  BY DEF IInv
<1>1. pc[p] = "next" /\ plan[p] = <<>> /\ out'[p] = out[p]
  BY <1>0, FinishFacts DEF Moves
<1>2. q.kind = "removeFunc"
  BY DEF Deleting
<1>3. K \cap q.elems = {}
  BY <1>1 DEF Deleting, Operating
<1>4. out[p] # {0}
  <2>1. out[p] \subseteq Elems
    BY <1>0, <1>1 DEF Labelled
  <2> QED
    BY <2>1, ElemAssumption
<1>5. PICK o, r : o = out[p] /\ r = ret'[p]
  OBVIOUS
<1>6. Within(q, K, L, H, I, o, r)
  BY <1>2, <1>3 DEF Within, PopWithin, AlgebraWithin, RelationWithin, NavigationWithin, BulkWithin,
                    Pops, Navigations
<1>7. Exact(q, content[q.on], content[q.other], o)
  BY <1>2 DEF Exact
<1> QED
  BY <1>1, <1>4, <1>5, <1>6, <1>7, JustifiedAnew

LEMMA DeletingSteps ==
    ASSUME IInv, IInv', NEW p \in Procs, Acts(p), Ages(p), History(p), Deleting(p)
    PROVE  IF pc'[p] = "done" THEN Justified(p)' ELSE Deleting(p)'
<1>0. Shape /\ Labelled(p)
  BY DEF IInv
<1>1. /\ pc[p] \in Operating \cup {"next"} /\ pc[p] \notin Walking \cup {"idle", "done"}
      /\ pc[p] \in Operating => op[p].kind \in {"remove", "removeAll"}
      /\ call[p].kind = "removeFunc"
  BY DEF Deleting, Deletion, Operating, Walking
<1>2. CASE Proceed(p) \/ Resume(p) \/ Finish(p)
  <2>1. Private(p)
    BY <1>0, <1>2, ProceedFacts, ResumeFacts, FinishFacts DEF Moves
  <2>2. Stays(p)
    BY <1>2, <2>1, OwnStays DEF Acts, Step
  <2>3. Finish(p) => pc'[p] = "done"
    BY <1>0, FinishFacts DEF Moves
  <2> QED
    BY <1>2, <2>2, <2>3, DeletingProceeds, DeletingResumes, DeletingFinishes
<1>3. CASE Act(p) \/ Asks(p) \/ Enters(p) \/ Leaves(p)
  <2>1. Deleting(p)'
    BY <1>3, DeletingOperates
  <2>2. pc'[p] # "done"
    BY <2>1 DEF Deleting, Operating
  <2> QED
    BY <2>1, <2>2
<1>4. ~(Call(p) \/ Return(p) \/ Panic(p) \/ Visit(p) \/ NextBucket(p) \/ WalkEnds(p) \/ Continue(p) \/ Conclude(p))
  BY <1>1 DEF Call, Return, Panic, Visit, NextBucket, WalkEnds, Continue, Conclude, Walking
<1>5. ~(Learns(p) \/ Consulted(p) \/ Popped(p))
  BY <1>1 DEF Learns, Consulted, Popped, Got, Operating, Pops
<1> QED
  BY <1>2, <1>3, <1>4, <1>5 DEF Acts, Step

LEMMA ClearedJustified ==
    ASSUME NEW p, Stays(p), History(p), call[p].kind = "clear", kept[p][call[p].on] = {}
    PROVE  Justified(p)'
<1>1. PICK o, r : o = out'[p] /\ r = ret'[p]
  OBVIOUS
<1> DEFINE q == call[p]  K == kept[p][call[p].on]  L == kept[p][call[p].other]
           H == had[p][call[p].on]  I == had[p][call[p].other]
<1>2. Within(q, K, L, H, I, o, r)
  BY DEF Within, PopWithin, AlgebraWithin, RelationWithin, NavigationWithin, BulkWithin, Pops, Navigations
<1>3. Exact(q, content[q.on], content[q.other], o)
  BY DEF Exact
<1> QED
  BY <1>1, <1>2, <1>3, JustifiedAnew

LEMMA ClearingProceeds ==
    ASSUME IInv, NEW p \in Procs, Proceed(p), Stays(p), History(p), Clearing(p), call[p].kind = "clear"
    PROVE  Clearing(p)' /\ pc'[p] # "done"
<1> DEFINE q == call[p]
<1>0. Shape
  BY DEF IInv
<1>1. /\ pc[p] = "next" /\ plan[p] # <<>> /\ plan'[p] = Tail(plan[p]) /\ op'[p] = Head(plan[p])
      /\ Head(plan[p]).kind # "walk" => pc'[p] = "act"
  BY <1>0, ProceedFacts
<1>2. plan[p] = <<q>>
  BY <1>1 DEF Clearing, Operating
<1>3. Head(plan[p]) = q /\ Tail(plan[p]) = <<>>
  BY <1>2
<1>4. op'[p] = q /\ plan'[p] = <<>> /\ pc'[p] = "act" /\ call'[p] = q
  BY <1>1, <1>3, StaysIs
<1> QED
  BY <1>4 DEF Clearing, Operating

LEMMA ClearingResumes ==
    ASSUME IInv, NEW p \in Procs, Resume(p), Stays(p), History(p), Clearing(p), call[p].kind = "clear"
    PROVE  Clearing(p)' /\ pc'[p] # "done"
<1>0. Shape
  BY DEF IInv
<1>1. /\ pc[p] = "got" /\ op'[p] = op[p] /\ plan'[p] = plan[p]
      /\ pc'[p] = IF op[p].kind = "remove" /\ walk[p].on # none THEN "walk"
                  ELSE IF op[p].kind = "contains" /\ ret[p] = {} THEN "done" ELSE "next"
  BY <1>0, ResumeFacts DEF Moves
<1>2. op[p] = call[p] /\ plan[p] = <<>> /\ kept[p][call[p].on] = {}
  BY <1>1 DEF Clearing, Operating
<1>3. pc'[p] = "next"
  BY <1>1, <1>2
<1>4. call'[p] = call[p] /\ kept'[p] = kept[p]
  BY StaysIs
<1> QED
  BY <1>1, <1>2, <1>3, <1>4 DEF Clearing

LEMMA ClearingSteps ==
    ASSUME IInv, IInv', NEW p \in Procs, Acts(p), Ages(p), History(p), Clearing(p), call[p].kind = "clear"
    PROVE  IF pc'[p] = "done" THEN Justified(p)' ELSE Clearing(p)'
<1>0. Shape /\ Labelled(p)
  BY DEF IInv
<1>1. /\ pc[p] \in Operating \cup {"next"} /\ pc[p] \notin Walking \cup {"idle", "done"}
      /\ pc[p] \in Operating => op[p].kind = "clear"
  BY DEF Clearing, Operating, Walking
<1>2. CASE Proceed(p) \/ Resume(p) \/ Finish(p)
  <2>1. Private(p)
    BY <1>0, <1>2, ProceedFacts, ResumeFacts, FinishFacts DEF Moves
  <2>2. Stays(p)
    BY <1>2, <2>1, OwnStays DEF Acts, Step
  <2>3. CASE Finish(p)
    <3>1. pc'[p] = "done" /\ pc[p] = "next" /\ plan[p] = <<>>
      BY <1>0, <2>3, FinishFacts DEF Moves
    <3>2. <<call[p]>> # <<>>
      OBVIOUS
    <3>3. kept[p][call[p].on] = {}
      BY <3>1, <3>2 DEF Clearing, Operating
    <3> QED
      BY <2>2, <3>1, <3>3, ClearedJustified
  <2> QED
    BY <1>2, <2>2, <2>3, ClearingProceeds, ClearingResumes
<1>3. CASE Act(p) \/ Asks(p) \/ Enters(p) \/ Leaves(p)
  <2>1. Clearing(p)'
    BY <1>3, ClearingOperates
  <2>2. pc'[p] # "done"
    BY <2>1 DEF Clearing, Operating
  <2> QED
    BY <2>1, <2>2
<1>4. ~(Call(p) \/ Return(p) \/ Panic(p) \/ Visit(p) \/ NextBucket(p) \/ WalkEnds(p) \/ Continue(p) \/ Conclude(p))
  BY <1>1 DEF Call, Return, Panic, Visit, NextBucket, WalkEnds, Continue, Conclude, Walking
<1>5. ~(Learns(p) \/ Consulted(p) \/ Popped(p))
  BY <1>1 DEF Learns, Consulted, Popped, Got, Operating, Pops
<1> QED
  BY <1>2, <1>3, <1>4, <1>5 DEF Acts, Step

-----------------------------------------------------------------------------
(* A call that walks.                                                      *)

LEMMA LearnedSteps ==
    ASSUME IInv, IInv', NEW p \in Procs, Acts(p), pc[p] # "done", Ages(p), History(p), Choice(p), Walker(call[p]), Learned(p)
    PROVE  IF pc'[p] = "done" THEN ret'[p] = none \/ Justified(p)' ELSE Learned(p)' \/ Deleting(p)'
<1>0. Shape
  BY DEF IInv
<1>1. CASE Act(p) \/ Asks(p) \/ Enters(p) \/ Leaves(p)
  <2>1. Learned(p)'
    BY <1>1, LearnedOperates
  <2>2. pc'[p] # "done"
    <3>1. pc'[p] \in Operating
      BY <1>1, OperateFrame
    <3> QED
      BY <3>1 DEF Operating
  <2> QED
    BY <2>1, <2>2
<1>2. CASE Proceed(p)
  <2>1. pc'[p] # "done"
    BY <1>0, <1>2, ProceedFacts
  <2> QED
    BY <1>2, <2>1, ProceedLearned
<1>3. CASE Visit(p)
  <2>1. Learned(p)'
    BY <1>3, VisitLearned
  <2>2. pc'[p] # "done"
    BY <1>0, <1>3, VisitFacts DEF Decides
  <2> QED
    BY <2>1, <2>2
<1>4. CASE NextBucket(p) \/ WalkEnds(p)
  <2>1. Learned(p)'
    BY <1>4, WalkLearned
  <2>2. pc'[p] # "done"
    BY <1>0, <1>4, WalkEndsFacts, NextBucketFacts DEF Moves
  <2> QED
    BY <2>1, <2>2
<1>5. CASE Conclude(p)
  <2>1. pc'[p] # "done"
    BY <1>0, <1>5, ConcludeFacts
  <2> QED
    BY <1>5, <2>1, ConcludeLearned
<1>6. CASE Resume(p)
  BY <1>6, ResumeLearned
<1>7. CASE Learns(p)
  BY <1>7, LearnsLearned
<1>8. CASE Popped(p)
  BY <1>8, PoppedLearned
<1>9. CASE Finish(p)
  <2>1. pc'[p] = "done"
    BY <1>0, <1>9, FinishFacts DEF Moves
  <2> QED
    BY <1>9, <2>1, FinishLearned
<1>10. CASE Panic(p)
  <2>1. pc'[p] = "done" /\ ret'[p] = none
    BY <1>0, <1>10, PanicFacts DEF Moves
  <2> QED
    BY <2>1
<1>11. ~Call(p) /\ ~Return(p)
  BY DEF Call, Return, Ages
<1>12. CASE Continue(p) \/ Consulted(p)
  <2>1. Learned(p)'
    BY <1>12, ContinueLearned, ConsultedLearned
  <2>2. pc'[p] # "done"
    BY <1>0, <1>12, ContinueFacts, ConsultedFacts DEF Decides
  <2> QED
    BY <2>1, <2>2
<1> QED
  BY <1>1, <1>2, <1>3, <1>4, <1>5, <1>6, <1>7, <1>8, <1>9, <1>10, <1>11, <1>12 DEF Acts, Step

-----------------------------------------------------------------------------
(* A call begins.                                                          *)

LEMMA ChoosersCourse ==
    ASSUME NEW q \in Requests, q.kind \in Chooses, ~Locked(q.on), NEW l \in Plans(q)
    PROVE  l = Walk(q.on, none)
<1>1. q.kind \notin Points \cup Batches \cup {"clear", "refill", "removeFunc"} \cup Asking
  BY DEF Chooses, Pops, Navigations, Points, Batches, Asking, Algebra, Relations, Sized
<1>2. ~AtOnce(q)
  BY <1>1 DEF AtOnce
<1>3. Plans(q) = {Walk(q.on, none)}
  BY <1>1, <1>2 DEF Plans, Batches, Asking, Relations
<1> QED
  BY <1>3

LEMMA ClearsAtOnce ==
    ASSUME NEW q \in Requests, q.kind = "clear", impl \in Mixes, ~Walker(q), NEW l \in Plans(q)
    PROVE  l = <<q>>
<1>1. impl[q.on] \in {"hash", "tree"}
  <2>1. q.on \in Sets
    BY RequestIs
  <2>2. impl \in [Sets -> {"hash", "skip", "tree"}]
    BY MixAssumption
  <2>3. impl[q.on] # "skip"
    BY DEF Walker
  <2> QED
    BY <2>1, <2>2, <2>3
<1>2. AtOnce(q)
  BY <1>1 DEF AtOnce, Locked, Algebra, Relations, Sized
<1> QED
  BY <1>1, <1>2 DEF Plans, Locked, Points, Algebra, Relations, Sized

\* p has nothing behind it.
Starts(p, q, l) ==
    /\ p \in Procs /\ q \in Requests /\ l \in Plans(q) /\ impl' = impl /\ content' = content
    /\ call'[p] = q /\ plan'[p] = l /\ pc'[p] = "next"
    /\ walk'[p].on = none /\ snap'[p] = none /\ sizes'[p] = <<>> /\ out'[p] = {}

LEMMA StartsTour ==
    ASSUME NEW p, NEW q, NEW l, Starts(p, q, l), Walker(q)
    PROVE  Toured(p)' /\ Readied(p)'
<1>0. q \in Requests /\ l \in Plans(q) /\ impl' = impl /\ q.on \in Sets /\ none \in Consultable
  BY RequestIs DEF Starts, Consultable
<1>1. Trip(q, l)
  BY <1>0, CourseTrip
<1>2. Onward(q, l)' /\ Prepared(l, none)'
  BY <1>0, <1>1 DEF Trip, Onward, Prepared, Shot, Leg, Measure, Locked
<1>3. \A s \in Sets, o \in Consultable : Leg(q, s, o)' => Coming(l, s, o)
  BY <1>0, <1>1 DEF Trip, Leg, Locked
<1>4. ASSUME q.kind = "removeFunc" PROVE Coming(l, q.on, none)
  <2>1. Leg(q, q.on, none)
    BY <1>4 DEF Leg, Asking, Algebra, Relations, Sized
  <2> QED
    BY <1>0, <1>1, <2>1 DEF Trip
<1>5. ASSUME q.kind \in Chooses PROVE l = Walk(q.on, none)'
  <2>1. ~Locked(q.on)
    <3>1. q.kind \notin Asking \cup {"scan", "removeFunc", "clear"}
      BY <1>5 DEF Chooses, Pops, Navigations, Asking, Algebra, Relations, Sized
    <3> QED
      BY <3>1 DEF Walker
  <2>2. l = Walk(q.on, none)
    BY <1>0, <1>5, <2>1, ChoosersCourse
  <2> QED
    BY <1>0, <2>2 DEF Walk, Locked
<1>6. Toured(p)'
  <2>1. call'[p] = q /\ plan'[p] = l /\ walk'[p].on = none /\ out'[p] = {}
    BY DEF Starts
  <2>2. Onward(call[p], plan[p])'
    BY <1>2, <2>1 DEF Onward
  <2>3. \A s \in Sets, o \in Consultable : Leg(call[p], s, o)' => Ahead(p, s, o)'
    BY <1>3, <2>1 DEF Ahead, Coming, Leg
  <2>4. q.kind = "removeFunc" => Ahead(p, call[p].on, none)'
    BY <1>4, <2>1 DEF Ahead, Coming
  <2> QED
    BY <1>5, <2>1, <2>2, <2>3, <2>4 DEF Toured
<1>7. Readied(p)'
  <2>1. plan'[p] = l
    BY DEF Starts
  <2>2. Prepared(plan[p], none)'
    BY <1>2, <2>1 DEF Prepared, Shot
  <2> QED
    BY <2>2 DEF Readied
<1> QED
  BY <1>6, <1>7

LEMMA StartsLearned ==
    ASSUME NEW p, NEW q, NEW l, Starts(p, q, l), Walker(q)
    PROVE  Learned(p)'
<1>1. Toured(p)' /\ Readied(p)'
  BY StartsTour
<1>2. /\ q \in Requests /\ l \in Plans(q) /\ impl' = impl
      /\ call'[p] = q /\ plan'[p] = l /\ pc'[p] = "next"
      /\ walk'[p].on = none /\ snap'[p] = none /\ sizes'[p] = <<>> /\ out'[p] = {}
  BY DEF Starts
<1>3. Engaged(p)' /\ Strolls(p)' /\ Gathers(p)'
  BY <1>2 DEF Engaged, Strolls, Gathers, Operating
<1>4. Halves(p)'
  <2>1. q.kind = "symmetricDifference" => l = Combine(q)
    BY <1>2, CourseTrip
  <2>2. Combine(q)' = Combine(q)
    BY <1>2 DEF Combine, Back, Walk, Locked
  <2> QED
    BY <1>2, <2>1, <2>2 DEF Halves
<1>5. Sizes(p)'
  <2>1. q.kind \in Sized => l = Compare(q)
    BY <1>2, CourseTrip
  <2>2. Compare(q)' = Compare(q)
    BY <1>2 DEF Compare, SizeOf, Walk, Locked
  <2>3. Len(<<>>) = 0
    OBVIOUS
  <2> QED
    BY <1>2, <2>1, <2>2, <2>3 DEF Sizes, At
<1> QED
  BY <1>1, <1>3, <1>4, <1>5 DEF Learned

LEMMA CallRuns ==
    ASSUME IInv, NEW p \in Procs, Call(p),
           kept'[p] = content', had'[p] = content', alone'[p] = Undisturbed(p)'
    PROVE  Running(p)'
<1>0. Shape /\ Labelled(p)
  BY DEF IInv
<1>1. PICK q \in todo[p] : call'[p] = q /\ plan'[p] \in Plans(q)
  BY <1>0, CallFacts
<1>2. /\ impl' = impl /\ content' = content /\ pc[p] = "idle" /\ pc'[p] = "next"
      /\ walk'[p] = walk[p] /\ snap'[p] = snap[p] /\ sizes'[p] = sizes[p] /\ out'[p] = out[p]
  BY <1>0, CallFacts DEF Private, Apart
<1>3. /\ q \in Requests /\ impl \in Mixes /\ content \in [Sets -> SUBSET Elems]
      /\ walk[p].on = none /\ snap[p] = none /\ sizes[p] = <<>> /\ out[p] = {}
  <2>1. todo[p] \in SUBSET Requests
    BY <1>0, ShapeFits DEF Fits
  <2> QED
    BY <1>0, <1>1, <1>2, <2>1 DEF Labelled, Shape
<1>4. History(p)'
  BY <1>2, <1>3 DEF History, Undisturbed
<1>5. PICK l : l = plan'[p]
  OBVIOUS
<1>6. Starts(p, q, l)
  BY <1>1, <1>2, <1>3, <1>5 DEF Starts
<1>7. Walker(call[p])' <=> Walker(q)
  BY <1>1, <1>2 DEF Walker, Locked
<1>8. Walker(q) => Learned(p)'
  BY <1>6, StartsLearned
<1>9. ASSUME q.kind = "clear", ~Walker(q) PROVE Clearing(p)'
  <2>1. plan'[p] = <<q>>
    BY <1>1, <1>3, <1>9, ClearsAtOnce
  <2> QED
    BY <1>1, <1>2, <2>1 DEF Clearing
<1> QED
  BY <1>1, <1>2, <1>4, <1>7, <1>8, <1>9 DEF Running

\* The methods that are not judged by what the sets held.
LEMMA PlainJustified ==
    ASSUME NEW p, Stays(p), History(p), ~Walker(call[p]), call[p].kind # "clear"
    PROVE  Justified(p)'
<1> DEFINE q == call[p]  K == kept[p][call[p].on]  L == kept[p][call[p].other]
           H == had[p][call[p].on]  I == had[p][call[p].other]
<1>1. /\ q.kind \notin Asking \cup {"scan", "removeFunc", "clear"}
      /\ q.kind \in Pops \cup Navigations => Locked(q.on)
  BY DEF Walker, Chooses
<1>2. q.kind \notin Algebra \cup Relations \cup Sized
  BY <1>1 DEF Asking, Relations
<1>3. PICK o, r : o = out'[p] /\ r = ret'[p]
  OBVIOUS
<1>4. PopWithin(q, K, r) /\ NavigationWithin(q, K, H, o)
  BY <1>1 DEF PopWithin, NavigationWithin
<1>5. AlgebraWithin(q, K, L, H, I, o) /\ RelationWithin(q, K, L, H, I, o) /\ Exact(q, content[q.on], content[q.other], o)
  BY <1>2 DEF AlgebraWithin, RelationWithin, Exact, Algebra, Relations, Sized
<1>6. BulkWithin(q, K, H, o) /\ q.kind # "removeFunc"
  BY <1>1 DEF BulkWithin
<1>7. Within(q, K, L, H, I, o, r)
  BY <1>4, <1>5, <1>6 DEF Within
<1> QED
  BY <1>3, <1>5, <1>6, <1>7, JustifiedAnew

\* A step that ends a call is p's own, and changes no set.
LEMMA EndsStay ==
    ASSUME IInv, NEW p \in Procs, Acts(p), Ages(p), History(p), pc'[p] = "done"
    PROVE  Stays(p)
<1>0. Shape
  BY DEF IInv
<1>1. CASE Act(p) \/ Asks(p) \/ Enters(p) \/ Leaves(p)
  <2>1. pc'[p] \in Operating
    BY <1>1, OperateFrame
  <2> QED
    BY <2>1 DEF Operating
<1>2. CASE \/ Proceed(p) \/ Visit(p) \/ NextBucket(p) \/ WalkEnds(p) \/ Continue(p) \/ Conclude(p)
           \/ Learns(p) \/ Consulted(p) \/ Popped(p) \/ Resume(p) \/ Finish(p) \/ Panic(p)
  <2>1. Private(p)
    <3>1. Proceed(p) \/ Visit(p) \/ NextBucket(p) \/ WalkEnds(p) => Private(p)
      BY <1>0, ProceedFacts, VisitFacts, NextBucketFacts, WalkEndsFacts DEF Moves
    <3>2. Continue(p) \/ Conclude(p) \/ Learns(p) \/ Consulted(p) => Private(p)
      BY <1>0, ContinueFacts, ConcludeFacts, LearnsFacts, ConsultedFacts DEF Moves
    <3>3. Popped(p) \/ Resume(p) \/ Finish(p) \/ Panic(p) => Private(p)
      BY <1>0, PoppedFacts, ResumeFacts, FinishFacts, PanicFacts DEF Moves
    <3> QED
      BY <1>2, <3>1, <3>2, <3>3
  <2> QED
    BY <2>1, OwnStays
<1>3. ~Call(p) /\ ~Return(p)
  BY <1>0, CallFacts, ReturnFacts DEF Ages
<1> QED
  BY <1>1, <1>2, <1>3 DEF Acts, Step

LEMMA OwnRuns ==
    ASSUME IInv, IInv', NEW p \in Procs, Acts(p), Ages(p), Choice(p), Running(p)
    PROVE  Running(p)'
<1> DEFINE q == call[p]
<1>0. Shape /\ pc[p] # "idle" /\ pc'[p] # "idle" /\ History(p)
  BY DEF IInv, Ages, Running
<1>1. History(p)'
  BY <1>0, HistoryStays
<1>2. pc[p] # "done"
  <2>1. ASSUME pc[p] = "done" PROVE FALSE
    <3>1. ~(\/ Proceed(p) \/ Act(p) \/ Asks(p) \/ Enters(p) \/ Leaves(p) \/ Visit(p) \/ NextBucket(p) \/ WalkEnds(p)
            \/ Continue(p) \/ Conclude(p) \/ Learns(p) \/ Consulted(p) \/ Popped(p) \/ Resume(p) \/ Finish(p)
            \/ Call(p) \/ Panic(p))
      BY <2>1 DEF Proceed, Act, Asks, Enters, Leaves, Visit, NextBucket, WalkEnds, Continue, Conclude,
                  Learns, Consulted, Popped, Resume, Finish, Call, Panic, Got
    <3>2. Return(p)
      BY <3>1 DEF Acts, Step
    <3> QED
      BY <1>0, <3>2, ReturnFacts
  <2> QED
    BY <2>1
<1>3. call'[p] = q /\ (Walker(call[p])' <=> Walker(q))
  BY LegStays DEF Ages
<1>4. ASSUME Walker(q)
      PROVE  IF pc'[p] = "done" THEN ret'[p] = none \/ Justified(p)' ELSE Learned(p)' \/ Deleting(p)'
  <2>1. Learned(p) \/ Deleting(p)
    BY <1>0, <1>2, <1>4 DEF Running
  <2> QED
    BY <1>0, <1>2, <1>4, <2>1, LearnedSteps, DeletingSteps
<1>5. ASSUME ~Walker(q), q.kind = "clear" PROVE IF pc'[p] = "done" THEN Justified(p)' ELSE Clearing(p)'
  <2>1. Clearing(p)
    BY <1>0, <1>2, <1>5 DEF Running
  <2> QED
    BY <1>0, <1>5, <2>1, ClearingSteps
<1>6. ASSUME ~Walker(q), q.kind # "clear", pc'[p] = "done" PROVE Justified(p)'
  BY <1>0, <1>6, EndsStay, PlainJustified
<1> QED
  BY <1>0, <1>1, <1>3, <1>4, <1>5, <1>6 DEF Running

LEMMA InitRuns == ASSUME ScanInit PROVE EveryCall
<1>1. \A p \in Procs : pc[p] = "idle"
  BY DEF ScanInit, Init
<1> QED
  BY <1>1 DEF EveryCall, Running

LEMMA StepRuns ==
    ASSUME IInv, IInv', EveryChoice, EveryCall, NEW r \in Procs, Acts(r), NEW p \in Procs,
           kept' = [q \in Procs |-> Since(q, Nothing, content', [s \in Sets |-> kept[q][s] \cap content'[s]])],
           had' = [q \in Procs |-> Since(q, Nothing, content', [s \in Sets |-> had[q][s] \cup content'[s]])],
           alone' = [q \in Procs |-> Since(q, TRUE, Undisturbed(q)', alone[q] /\ Undisturbed(q)')]
    PROVE  Running(p)'
<1>0. Shape /\ Running(p) /\ Choice(p)
  BY DEF IInv, EveryCall, EveryChoice
<1>1. CASE pc'[p] = "idle"
  BY <1>1 DEF Running
<1>2. CASE pc[p] # "idle" /\ pc'[p] # "idle"
  <2>1. Ages(p)
    BY <1>2, NextAges
  <2>2. CASE p = r
    BY <1>0, <2>1, <2>2, OwnRuns
  <2>3. CASE p # r
    BY <1>0, <2>1, <2>3, OthersRun
  <2> QED
    BY <2>2, <2>3
<1>3. CASE pc[p] = "idle" /\ pc'[p] # "idle"
  <2>1. p = r
    <3>1. p # r => pc'[p] = pc[p]
      BY StepApart DEF Acts, Apart, Same
    <3> QED
      BY <1>3, <3>1
  <2>2. Call(p)
    <3>1. ~(\/ Proceed(p) \/ Act(p) \/ Asks(p) \/ Enters(p) \/ Leaves(p) \/ Visit(p) \/ NextBucket(p) \/ WalkEnds(p)
            \/ Continue(p) \/ Conclude(p) \/ Learns(p) \/ Consulted(p) \/ Popped(p) \/ Resume(p) \/ Finish(p)
            \/ Return(p) \/ Panic(p))
      BY <1>3 DEF Proceed, Act, Asks, Enters, Leaves, Visit, NextBucket, WalkEnds, Continue, Conclude,
                  Learns, Consulted, Popped, Resume, Finish, Return, Panic, Got
    <3> QED
      BY <2>1, <3>1 DEF Acts, Step
  <2>3. kept'[p] = content' /\ had'[p] = content' /\ alone'[p] = Undisturbed(p)'
    BY <1>3 DEF Since
  <2> QED
    BY <2>2, <2>3, CallRuns
<1> QED
  BY <1>1, <1>2, <1>3

LEMMA StillRuns ==
    ASSUME IInv, NEW p \in Procs, Running(p), UNCHANGED scanVars
    PROVE  Running(p)'
<1>1. /\ impl' = impl /\ content' = content /\ pc' = pc /\ call' = call /\ op' = op /\ plan' = plan
      /\ walk' = walk /\ snap' = snap /\ sizes' = sizes /\ out' = out /\ ret' = ret
      /\ kept' = kept /\ had' = had /\ alone' = alone
  BY DEF scanVars, vars, sets, mine
<1>2. CASE pc[p] = "idle"
  BY <1>1, <1>2 DEF Running
<1>3. CASE pc[p] # "idle"
  <2>1. /\ Labelled(p) /\ walk[p] \in Hikes /\ call[p] \in Requests /\ content \in [Sets -> SUBSET Elems]
    BY <1>3 DEF IInv, Shape, Labelled
  <2>2. History(p)
    BY <1>3 DEF Running
  <2>3. Undisturbed(p)' <=> Undisturbed(p)
    BY <1>1 DEF Undisturbed
  <2>4. Ages(p)
    <3>1. kept[p] = [s \in Sets |-> kept[p][s] \cap content[s]] /\ had[p] = [s \in Sets |-> had[p][s] \cup content[s]]
      <4>1. \A s \in Sets : kept[p][s] \cap content[s] = kept[p][s] /\ had[p][s] \cup content[s] = had[p][s]
        BY <2>2 DEF History
      <4>2. kept[p] = [s \in Sets |-> kept[p][s]] /\ had[p] = [s \in Sets |-> had[p][s]]
        BY <2>2 DEF History
      <4> QED
        BY <4>1, <4>2
    <3>2. alone[p] = (alone[p] /\ Undisturbed(p)')
      BY <2>2, <2>3 DEF History
    <3> QED
      BY <1>1, <1>3, <2>1, <3>1, <3>2 DEF Ages
  <2>5. History(p)'
    BY <1>1, <2>2, <2>3 DEF History
  <2>6. Frame(p)
    BY <1>1, <2>2, <2>4, <2>5 DEF Frame, Unmoved
  <2>7. walk[p].on \in Sets \cup {none}
    BY <2>1 DEF Hikes
  <2> QED
    BY <1>1, <2>1, <2>6, <2>7, LeftAlone
<1> QED
  BY <1>2, <1>3

LEMMA NextRuns == ASSUME IInv, IInv', EveryChoice, EveryCall, [ScanNext]_scanVars PROVE EveryCall'
<1>1. CASE UNCHANGED scanVars
  <2>1. ASSUME NEW p \in Procs PROVE Running(p)'
    BY <1>1, <2>1, StillRuns DEF EveryCall
  <2> QED
    BY <2>1 DEF EveryCall
<1>2. CASE Terminated
  <2>1. \A p \in Procs : pc'[p] = "idle"
    BY <1>2 DEF Terminated, vars
  <2> QED
    BY <2>1 DEF EveryCall, Running
<1>3. CASE ScanNext /\ ~Terminated
  <2>1. PICK r \in Procs : Acts(r)
    BY <1>3 DEF ScanNext, Next, Acts
  <2>2. ASSUME NEW p \in Procs PROVE Running(p)'
    BY <1>3, <2>1, <2>2, StepRuns DEF ScanNext
  <2> QED
    BY <2>2 DEF EveryCall
<1> QED
  BY <1>1, <1>2, <1>3

LEMMA RunningAnswers == ASSUME IInv, EveryCall PROVE AnswersAreJustified
<1>1. ASSUME NEW p \in Procs, pc[p] = "done", ret[p] # none PROVE Justified(p) /\ History(p)
  BY <1>1 DEF EveryCall, Running
<1>2. PopsAreJustified
  <2>1. ASSUME NEW p \in Procs, Answered(p, Pops), Choosing(p)
        PROVE  PopWithin(call[p], kept[p][call[p].on], ret[p])
    BY <1>1, <2>1 DEF Answered, Justified, Within
  <2> QED
    BY <2>1 DEF PopsAreJustified, PopWithin, Choosing
<1>3. AlgebraIsJustified
  <2>1. ASSUME NEW p \in Procs, Answered(p, Algebra)
        PROVE  AlgebraWithin(call[p], kept[p][call[p].on], kept[p][call[p].other],
                             had[p][call[p].on], had[p][call[p].other], out[p])
    BY <1>1, <2>1 DEF Answered, Justified, Within
  <2>2. \A p \in Procs : Answered(p, Algebra) => call[p].kind \in Algebra
    BY DEF Answered
  <2> QED
    BY <2>1, <2>2 DEF AlgebraIsJustified, AlgebraWithin, Between, Algebra
<1>4. RelationsAreJustified
  <2>1. ASSUME NEW p \in Procs, Answered(p, Relations)
        PROVE  /\ RelationWithin(call[p], kept[p][call[p].on], kept[p][call[p].other],
                                 had[p][call[p].on], had[p][call[p].other], out[p])
               /\ alone[p] => Exact(call[p], content[call[p].on], content[call[p].other], out[p])
    BY <1>1, <2>1 DEF Answered, Justified, Within
  <2> QED
    BY <2>1 DEF RelationsAreJustified, RelationWithin, Exact, Yes
<1>5. WalksAreJustified
  <2>1. ASSUME NEW p \in Procs, Answered(p, {"scan"})
        PROVE  kept[p][call[p].on] \subseteq out[p] /\ out[p] \subseteq had[p][call[p].on]
    BY <1>1, <2>1 DEF Answered, Justified, Within, BulkWithin, Between
  <2>2. ASSUME NEW p \in Procs, Answered(p, Navigations)
        PROVE  NavigationWithin(call[p], kept[p][call[p].on], had[p][call[p].on], out[p]) /\ call[p].kind \in Navigations
    BY <1>1, <2>2 DEF Answered, Justified, Within
  <2> QED
    BY <2>1, <2>2 DEF WalksAreJustified, NavigationWithin, Fitting, Yes
<1>6. BulkIsThorough
  <2>1. ASSUME NEW p \in Procs, Answered(p, {"clear"}) PROVE kept[p][call[p].on] = {}
    BY <1>1, <2>1 DEF Answered, Justified, Within, BulkWithin
  <2>2. ASSUME NEW p \in Procs, Answered(p, {"removeFunc"})
        PROVE  IF out[p] = {0} THEN kept[p][call[p].on] = {} \/ ~alone[p]
                               ELSE kept[p][call[p].on] \cap call[p].elems = {}
    BY <1>1, <2>2 DEF Answered, Justified, Within, BulkWithin
  <2> QED
    BY <2>1, <2>2 DEF BulkIsThorough
<1> QED
  BY <1>2, <1>3, <1>4, <1>5, <1>6 DEF AnswersAreJustified

(***************************************************************************)
(* AnswersAreJustified: whatever other goroutines do to the sets while it  *)
(* runs, a call made of several operations answers by what the sets held.  *)
(* Pop answers none only if no element stayed; a set operation, an         *)
(* iteration or a copy tells of every element that belongs by staying, and *)
(* of none that could not have; a relation is answered yes or no only if   *)
(* no element that stayed, or stayed away, contradicts it, and exactly if  *)
(* nobody else updated the sets; a navigation query of a skip set is not   *)
(* beaten by an element that stayed; Clear and RemoveFunc leave none of    *)
(* those that stayed and are theirs to delete.  This is the weakly         *)
(* consistent half of the Atomicity Guide (collection.go:623-679).         *)
(***************************************************************************)
THEOREM SetAnswersAreJustified == ScanSpec => []AnswersAreJustified
<1>1. ScanInit => IInv /\ EveryChoice /\ EveryCall
  <2>1. ASSUME ScanInit PROVE IInv /\ EveryCall
    BY <2>1, InitInvariant, InitRuns DEF ScanInit
  <2>2. ScanInit => EveryChoice
    BY DEF ScanInit, Init, EveryChoice, Choice
  <2> QED
    BY <2>1, <2>2
<1>2. IInv /\ EveryChoice /\ EveryCall /\ [ScanNext]_scanVars => (IInv /\ EveryChoice /\ EveryCall)'
  BY NextInvariant, NextChoices, NextRuns
<1>3. IInv /\ EveryCall => AnswersAreJustified
  BY RunningAnswers
<1> QED
  BY <1>1, <1>2, <1>3, PTL DEF ScanSpec, scanVars
=============================================================================
