--------------------------- MODULE CowListProofs ---------------------------
(***************************************************************************)
(* The proofs that no update of a cowList is lost and that each of its     *)
(* calls is atomic, for any number of goroutines, elements and calls.      *)
(* NoUpdateDropped is not inductive: who stores must be known to write     *)
(* (StoresWrite), and who writes to hold the mutex from its Load on        *)
(* (WritersHoldMu); then no two are between Load and Store, and the slice  *)
(* a writer copied is still the published one.  For atomicity (AInv) a     *)
(* loop knows the elements it has passed (Scanned), and that of RemoveFunc *)
(* that what it has kept is what it has to keep of them (Sifted).          *)
(***************************************************************************)
EXTENDS CowList, FiniteSetTheorems, SequenceTheorems, TLAPS

USE ProcAssumption, MenuAssumption

Shapes ==
    /\ pc \in [Procs -> {"idle", "skip", "lock", "load", "answer", "loop", "store",
                         "unlock", "return"}]
    /\ req \in [Procs -> Requests \cup {none}]
    /\ todo \in [Procs -> SUBSET Requests]
    /\ DOMAIN snap = Procs

StoresWrite == \A p \in Procs : pc[p] \in {"lock", "store", "unlock"} => Writes(p)

WritersHoldMu ==
    \A p \in Procs : pc[p] \in {"load", "loop", "store", "unlock"} /\ Writes(p) => mu = p

InACall == \A p \in Procs : pc[p] # "idle" => req[p] \in Requests

IInv == Shapes /\ InACall /\ StoresWrite /\ WritersHoldMu /\ NoUpdateDropped

LEMMA InitInvariant == Init => IInv
BY DEF Init, IInv, Shapes, InACall, StoresWrite, WritersHoldMu, NoUpdateDropped

\* What a step of p leaves of the others.
OthersStay(p) ==
    \A q \in Procs \ {p} : pc'[q] = pc[q] /\ req'[q] = req[q] /\ snap'[q] = snap[q]

-----------------------------------------------------------------------------
LEMMA CallKeeps == ASSUME IInv, NEW p \in Procs, Call(p) PROVE IInv'
<1>1. PICK q \in todo[p] :
        /\ todo' = [todo EXCEPT ![p] = @ \ {q}]
        /\ req' = [req EXCEPT ![p] = q]
        /\ Goto(p, IF q.kind \in {"addAll", "insertAll"} /\ q.elems = <<>> THEN "skip"
                   ELSE IF q.kind \in Readers THEN "load" ELSE "lock")
  BY DEF Call
<1>2. pc[p] = "idle" /\ UNCHANGED <<data, mu, snap>>
  BY DEF Call, shared, local
<1>3. q \in Requests /\ q # none
  BY DEF IInv, Shapes
<1>4. PICK l \in {"skip", "load", "lock"} :
        /\ pc' = [pc EXCEPT ![p] = l]
        /\ l = "load" => q.kind \in Readers
        /\ l = "lock" => q.kind \notin Readers
  BY <1>1 DEF Goto
<1>5. Shapes'
  BY <1>1, <1>2, <1>3, <1>4 DEF IInv, Shapes
<1>6. OthersStay(p) /\ pc'[p] = l /\ req'[p] = q
  BY <1>1, <1>2, <1>4 DEF IInv, Shapes, OthersStay
<1>7. InACall'
  BY <1>3, <1>6 DEF IInv, InACall, OthersStay
<1>8. StoresWrite'
  BY <1>3, <1>4, <1>6 DEF IInv, StoresWrite, OthersStay, Writes
<1>9. WritersHoldMu' /\ NoUpdateDropped'
  BY <1>2, <1>3, <1>4, <1>6 DEF IInv, WritersHoldMu, NoUpdateDropped, OthersStay, Writes
<1> QED
  BY <1>5, <1>7, <1>8, <1>9 DEF IInv

\* A step of p within its call: it stores only as a writer, and it may touch
\* the mutex and the published slice only where the mutex is its own.
Within(p) ==
    /\ pc[p] # "idle" /\ req' = req /\ todo' = todo
    /\ \E l \in {"load", "answer", "loop", "store", "unlock", "return"} :
         pc' = [pc EXCEPT ![p] = l]
    /\ DOMAIN snap' = Procs
    /\ \A q \in Procs \ {p} : snap'[q] = snap[q]
    /\ pc'[p] \in {"store", "unlock"} => Writes(p)
    /\ pc'[p] \in {"load", "loop", "store", "unlock"} /\ Writes(p) => mu' = p
    /\ pc'[p] \in {"loop", "store"} /\ Writes(p) => snap'[p] = data'
    /\ mu' # mu => mu \in {none, p}
    /\ data' # data => mu = p

LEMMA WithinKeeps == ASSUME IInv, NEW p \in Procs, Within(p) PROVE IInv'
<1>1. PICK l \in {"load", "answer", "loop", "store", "unlock", "return"} :
        pc' = [pc EXCEPT ![p] = l]
  BY DEF Within
<1>2. Shapes'
  BY <1>1 DEF IInv, Shapes, Within
<1>3. OthersStay(p) /\ pc'[p] = l /\ req' = req
  BY <1>1 DEF IInv, Shapes, OthersStay, Within
<1>4. InACall'
  BY <1>3 DEF IInv, InACall, OthersStay, Within
<1>5. StoresWrite'
  BY <1>3 DEF IInv, StoresWrite, OthersStay, Writes, Within
<1>6. WritersHoldMu'
  BY <1>3 DEF IInv, WritersHoldMu, OthersStay, Writes, Within
<1>7. NoUpdateDropped'
  BY <1>3 DEF IInv, NoUpdateDropped, OthersStay, Writes, Within
<1> QED
  BY <1>2, <1>4, <1>5, <1>6, <1>7 DEF IInv

LEMMA StepIsWithin ==
    ASSUME IInv, NEW p \in Procs,
           Skip(p) \/ Lock(p) \/ Load(p) \/ Answer(p) \/ Pass(p) \/ Find(p) \/ Finish(p)
             \/ Store(p) \/ Unlock(p) \/ Panic(p)
    PROVE  Within(p)
<1> USE DEF IInv, Shapes, InACall, Goto, shared, local
<1>1. CASE Skip(p)
  BY <1>1 DEF Skip, Within
<1>2. CASE Lock(p)
  BY <1>2 DEF Lock, Within
<1>3. CASE Load(p)
  BY <1>3 DEF Load, Within, WritersHoldMu
<1>4. CASE Answer(p)
  BY <1>4 DEF Answer, Within
<1>5. CASE Pass(p)
  <2>1. pc[p] = "loop" /\ pc' = pc /\ UNCHANGED <<data, mu, snap, req, todo>>
    BY <1>5 DEF Pass
  <2>2. pc' = [pc EXCEPT ![p] = "loop"]
    BY <2>1
  <2> QED
    BY <2>1, <2>2 DEF Within, WritersHoldMu, NoUpdateDropped
<1>6. CASE Find(p)
  <2>1. /\ pc[p] = "loop" /\ UNCHANGED <<data, mu, snap, req, todo>>
        /\ \/ req[p].kind = "remove" /\ pc' = [pc EXCEPT ![p] = "store"]
           \/ pc' = [pc EXCEPT ![p] = "return"]
    BY <1>6 DEF Find
  <2>2. req[p].kind = "remove" => Writes(p)
    BY <2>1 DEF Writes, Readers
  <2> QED
    BY <2>1, <2>2 DEF Within, WritersHoldMu, NoUpdateDropped
<1>7. CASE Finish(p)
  <2>1. /\ pc[p] = "loop" /\ UNCHANGED <<data, mu, snap, req, todo>>
        /\ \E l \in {"store", "unlock", "return"} :
             pc' = [pc EXCEPT ![p] = l] /\ (l # "return" => Writes(p))
    BY <1>7 DEF Finish
  <2> QED
    BY <2>1 DEF Within, WritersHoldMu, NoUpdateDropped
<1>8. CASE Store(p)
  <2>1. /\ pc[p] = "store" /\ UNCHANGED <<mu, snap, req, todo>>
        /\ pc' = [pc EXCEPT ![p] = "unlock"]
    BY <1>8 DEF Store
  <2>2. Writes(p) /\ mu = p
    BY <2>1 DEF StoresWrite, WritersHoldMu
  <2> QED
    BY <2>1, <2>2 DEF Within
<1>9. CASE Unlock(p)
  <2>1. Writes(p) /\ mu = p
    BY <1>9 DEF Unlock, StoresWrite, WritersHoldMu
  <2> QED
    BY <1>9, <2>1 DEF Unlock, Within
<1>10. CASE Panic(p)
  <2>1. /\ pc[p] \in {"loop", "store"} /\ Writes(p) /\ UNCHANGED <<data, mu, snap, req, todo>>
        /\ pc' = [pc EXCEPT ![p] = "unlock"]
    BY <1>10 DEF Panic
  <2> QED
    BY <2>1 DEF Within, WritersHoldMu
<1> QED
  BY <1>1, <1>2, <1>3, <1>4, <1>5, <1>6, <1>7, <1>8, <1>9, <1>10

LEMMA ReturnKeeps == ASSUME IInv, NEW p \in Procs, Return(p) PROVE IInv'
<1>1. /\ pc[p] = "return" /\ pc' = [pc EXCEPT ![p] = "idle"]
      /\ req' = [req EXCEPT ![p] = none] /\ UNCHANGED <<data, mu, snap, todo>>
  BY DEF Return, Goto, shared, local
<1>2. Shapes'
  BY <1>1 DEF IInv, Shapes
<1>3. OthersStay(p) /\ pc'[p] = "idle"
  BY <1>1 DEF IInv, Shapes, OthersStay
<1>4. InACall' /\ StoresWrite' /\ WritersHoldMu' /\ NoUpdateDropped'
  BY <1>1, <1>3 DEF IInv, InACall, StoresWrite, WritersHoldMu, NoUpdateDropped, OthersStay,
                    Writes
<1> QED
  BY <1>2, <1>4 DEF IInv

LEMMA StepInvariant == IInv /\ [Next]_vars => IInv'
<1> SUFFICES ASSUME IInv, [Next]_vars PROVE IInv'
  OBVIOUS
<1>1. CASE UNCHANGED vars \/ Terminated
  BY <1>1 DEF vars, shared, local, Terminated, IInv, Shapes, InACall, StoresWrite,
              WritersHoldMu, NoUpdateDropped, Writes
<1>2. ASSUME NEW p \in Procs, Call(p) PROVE IInv'
  BY <1>2, CallKeeps
<1>3. ASSUME NEW p \in Procs, Step(p) \/ Panic(p) PROVE IInv'
  <2>1. CASE Return(p)
    BY <2>1, ReturnKeeps
  <2>2. CASE ~Return(p)
    BY <1>3, <2>2, StepIsWithin, WithinKeeps DEF Step
  <2> QED
    BY <2>1, <2>2
<1> QED
  BY <1>1, <1>2, <1>3 DEF Next

(***************************************************************************)
(* A writer between its Load and its Store (cowlist.go:67-333, 420-427)    *)
(* holds the mutex and works on the slice that is published: no two        *)
(* writers start from the same slice, so none drops the other's update.    *)
(***************************************************************************)
THEOREM CowListDropsNoUpdate == Spec => []NoUpdateDropped
<1>1. IInv => NoUpdateDropped
  BY DEF IInv
<1> QED
  BY InitInvariant, StepInvariant, <1>1, PTL DEF Spec

-----------------------------------------------------------------------------
(* RemoveFunc sifts the slice from the left.                               *)

\* t is what it keeps of the first k elements of s.
StaysTo(q, s, k) == {i \in 1 .. k : s[i] \notin q.want}
Sifted(q, s, k, t) ==
    /\ Len(t) = Cardinality(StaysTo(q, s, k))
    /\ \E f \in [1 .. Len(t) -> StaysTo(q, s, k)] :
         Rising(f) /\ \A i \in 1 .. Len(t) : t[i] = s[f[i]]

LEMMA SiftedNothing == ASSUME NEW q, NEW s PROVE Sifted(q, s, 0, <<>>)
<1>1. StaysTo(q, s, 0) = {} /\ Len(<<>>) = 0
  BY DEF StaysTo
<1>2. Cardinality({}) = 0
  BY FS_EmptySet
<1> DEFINE f == [i \in 1 .. 0 |-> i]
<1>3. f \in [1 .. 0 -> {}] /\ Rising(f)
  BY DEF Rising
<1>4. \A i \in 1 .. 0 : <<>>[i] = s[f[i]]
  OBVIOUS
<1> QED
  BY <1>1, <1>2, <1>3, <1>4 DEF Sifted

LEMMA SiftedDrop ==
    ASSUME NEW q, NEW s, NEW k \in Nat, NEW t, Sifted(q, s, k, t), s[k + 1] \in q.want
    PROVE  Sifted(q, s, k + 1, t)
<1>1. StaysTo(q, s, k + 1) = StaysTo(q, s, k)
  BY DEF StaysTo
<1> QED
  BY <1>1 DEF Sifted

LEMMA SiftedKeep ==
    ASSUME NEW q, NEW s, NEW k \in Nat, NEW t \in Seq(Values), Sifted(q, s, k, t),
           s[k + 1] \in Values \ q.want
    PROVE  Sifted(q, s, k + 1, Append(t, s[k + 1]))
<1> DEFINE S == StaysTo(q, s, k)
           m == Len(t)
           u == Append(t, s[k + 1])
<1>1. StaysTo(q, s, k + 1) = S \cup {k + 1} /\ k + 1 \notin S /\ \A i \in S : i \in 1 .. k
  BY DEF StaysTo
<1>2. IsFiniteSet(S)
  <2>1. IsFiniteSet(1 .. k) /\ S \in SUBSET (1 .. k)
    BY FS_Interval DEF StaysTo
  <2> QED
    BY <2>1, FS_Subset
<1>3. Cardinality(S \cup {k + 1}) = Cardinality(S) + 1
  BY <1>1, <1>2, FS_AddElement
<1>4. PICK f \in [1 .. m -> S] : Rising(f) /\ \A i \in 1 .. m : t[i] = s[f[i]]
  BY DEF Sifted
<1>5. m \in Nat /\ m = Cardinality(S)
  BY LenProperties DEF Sifted
<1>6. Len(u) = m + 1 /\ (\A i \in 1 .. m : u[i] = t[i]) /\ u[m + 1] = s[k + 1]
  BY AppendProperties
<1> DEFINE g == [i \in 1 .. m + 1 |-> IF i = m + 1 THEN k + 1 ELSE f[i]]
<1> HIDE DEF S, m, u
<1>7. g \in [1 .. m + 1 -> S \cup {k + 1}]
  BY <1>4, <1>5
<1>8. Rising(g)
  <2>1. ASSUME NEW i \in 1 .. m + 1, NEW j \in 1 .. m + 1, i < j PROVE g[i] < g[j]
    <3>1. i \in 1 .. m /\ g[i] = f[i] /\ f[i] \in S
      BY <1>4, <1>5, <2>1
    <3>2. f[i] < k + 1
      BY <1>1, <3>1
    <3>3. CASE j = m + 1
      BY <3>1, <3>2, <3>3
    <3>4. CASE j # m + 1
      <4>1. j \in 1 .. m /\ g[j] = f[j]
        BY <1>5, <3>4
      <4> QED
        BY <1>4, <2>1, <3>1, <4>1 DEF Rising
    <3> QED
      BY <3>3, <3>4
  <2> QED
    BY <2>1 DEF Rising
<1>9. \A i \in 1 .. m + 1 : u[i] = s[g[i]]
  BY <1>4, <1>5, <1>6
<1> HIDE DEF g
<1>10. /\ Len(u) = Cardinality(StaysTo(q, s, k + 1))
       /\ g \in [1 .. Len(u) -> StaysTo(q, s, k + 1)]
       /\ \A i \in 1 .. Len(u) : u[i] = s[g[i]]
  BY <1>1, <1>3, <1>5, <1>6, <1>7, <1>9
<1>11. Sifted(q, s, k + 1, u)
  BY <1>8, <1>10 DEF Sifted
<1> QED
  BY <1>11 DEF u

LEMMA SiftedAll ==
    ASSUME NEW q, NEW s \in Seq(Values), NEW t \in Seq(Values), Sifted(q, s, Len(s), t)
    PROVE  /\ Does(t, <<Len(s) - Len(t)>>) \in RemoveFunc(q, s)
           /\ Len(t) <= Len(s)
           /\ Len(t) = Len(s) => Does(s, <<Len(s) - Len(t)>>) \in RemoveFunc(q, s)
<1> DEFINE S == Stays(q, s)
<1>1. Len(s) \in Nat /\ DOMAIN s = 1 .. Len(s) /\ Len(t) \in Nat
  BY LenProperties
<1>2. StaysTo(q, s, Len(s)) = S
  BY <1>1 DEF StaysTo, Stays
<1>3. PICK f \in [1 .. Len(t) -> S] : Rising(f) /\ \A i \in 1 .. Len(t) : t[i] = s[f[i]]
  BY <1>2 DEF Sifted
<1>4. Len(t) = Cardinality(S)
  BY <1>2 DEF Sifted
<1>5. IsFiniteSet(1 .. Len(s)) /\ Cardinality(1 .. Len(s)) = Len(s) /\ S \in SUBSET (1 .. Len(s))
  <2> DEFINE m == Len(s)
  <2> HIDE DEF m
  <2>1. IsFiniteSet(1 .. m) /\ Cardinality(1 .. m) = m
    <3>1. m \in Nat
      BY <1>1 DEF m
    <3> QED
      BY <3>1, FS_Interval
  <2>2. S \in SUBSET (1 .. Len(s))
    BY <1>1 DEF Stays
  <2> QED
    BY <2>1, <2>2 DEF m
<1>6. /\ Cardinality(S) <= Len(s)
      /\ Len(s) = Cardinality(S) => S = 1 .. Len(s)
  BY <1>5, FS_Subset
<1>7. t = [i \in 1 .. Len(t) |-> s[f[i]]]
  BY <1>3, LenProperties
<1>8. t \in Kept(q, s)
  BY <1>3, <1>4, <1>7 DEF Kept
<1>9. ASSUME Len(t) = Len(s) PROVE s \in Kept(q, s)
  <2> DEFINE h == [i \in 1 .. Len(s) |-> i]
  <2>1. S = 1 .. Len(s)
    BY <1>4, <1>6, <1>9
  <2>2. h \in [1 .. Len(s) -> S] /\ Rising(h)
    BY <2>1 DEF Rising
  <2>3. s = [i \in 1 .. Len(s) |-> s[h[i]]]
    BY LenProperties
  <2> QED
    BY <1>4, <1>9, <2>2, <2>3, SMTT(60) DEF Kept
<1>10. Len(t) <= Len(s)
  BY <1>4, <1>6
<1>11. \A u \in Kept(q, s) : Does(u, <<Len(s) - Len(u)>>) \in RemoveFunc(q, s)
  BY DEF RemoveFunc
<1>12. Does(t, <<Len(s) - Len(t)>>) \in RemoveFunc(q, s)
  BY <1>8, <1>11
<1>13. ASSUME Len(t) = Len(s) PROVE Does(s, <<Len(s) - Len(t)>>) \in RemoveFunc(q, s)
  BY <1>9, <1>11, <1>13
<1> QED
  BY <1>10, <1>12, <1>13

-----------------------------------------------------------------------------
(* What the calls leave and answer.                                        *)

LEMMA DoesFields == \A s, r : Does(s, r).s = s /\ Does(s, r).ret = r
BY DEF Does

LEMMA SpliceType ==
    ASSUME NEW s \in Seq(Values), NEW u \in Seq(Values), NEW i \in 0 .. Len(s), NEW j \in Nat
    PROVE  Splice(s, i, j, u) \in Seq(Values)
<1>1. Len(s) \in Nat /\ \A k \in 1 .. Len(s) : s[k] \in Values
  BY ElementOfSeq, LenProperties
<1>2. SubSeq(s, 1, i) \in Seq(Values)
  BY <1>1, SubSeqProperties
<1>3. SubSeq(s, j + 1, Len(s)) \in Seq(Values)
  BY <1>1, SubSeqProperties
<1>4. SubSeq(s, 1, i) \o u \in Seq(Values)
  BY <1>2, ConcatProperties
<1> QED
  BY <1>3, <1>4, ConcatProperties DEF Splice

LEMMA ReorderingType ==
    ASSUME NEW s \in Seq(Values), NEW t \in Reorderings(s)
    PROVE  t \in Seq(Values)
<1>1. PICK f \in Onto(DOMAIN s) : t = [i \in DOMAIN s |-> s[f[i]]]
  BY DEF Reorderings
<1>2. Len(s) \in Nat /\ DOMAIN s = 1 .. Len(s) /\ s \in [1 .. Len(s) -> Values]
  BY LenProperties
<1>3. t \in [1 .. Len(s) -> Values]
  BY <1>1, <1>2 DEF Onto
<1> QED
  BY <1>2, <1>3

LEMMA KeptType ==
    ASSUME NEW q, NEW s \in Seq(Values), NEW t \in Kept(q, s)
    PROVE  t \in Seq(Values)
<1> DEFINE k == Cardinality(Stays(q, s))
<1>1. PICK f \in [1 .. k -> Stays(q, s)] : t = [i \in 1 .. k |-> s[f[i]]]
  BY DEF Kept
<1>2. Len(s) \in Nat /\ DOMAIN s = 1 .. Len(s) /\ s \in [1 .. Len(s) -> Values]
  BY LenProperties
<1>3. k \in Nat
  <2>1. IsFiniteSet(1 .. Len(s)) /\ Stays(q, s) \in SUBSET (1 .. Len(s))
    BY <1>2, FS_Interval DEF Stays
  <2> QED
    BY <2>1, FS_Subset, FS_CardinalityType
<1>4. t \in [1 .. k -> Values]
  BY <1>1, <1>2 DEF Stays
<1> QED
  BY <1>3, <1>4, SMTT(60)

\* The calls that change a slice on their own terms, one by one.
LEMMA OutcomeType ==
    ASSUME NEW q, q.idx \in Int, q.elems \in Seq(Values), NEW s \in Seq(Values),
           q.kind # "remove"
    PROVE  Outcome(q, s).s \in Seq(Values)
<1> USE DoesFields
<1>1. Len(s) \in Nat /\ \A k \in 1 .. Len(s) : s[k] \in Values
  BY ElementOfSeq, LenProperties
<1>2. <<>> \in Seq(Values)
  BY EmptySeq
<1>3. \A i \in 0 .. Len(s) : \A j \in Nat : \A u \in Seq(Values) : Splice(s, i, j, u) \in Seq(Values)
  BY SpliceType
<1>4. Clear(q, s).s \in Seq(Values) /\ Replace(q, s).s \in Seq(Values)
  BY <1>2, ZenonT(60) DEF Clear, Replace
<1>5. Set(q, s).s \in Seq(Values)
  <2>1. ASSUME q.idx \in 0 .. Len(s) - 1
        PROVE  Splice(s, q.idx, q.idx + 1, q.elems) \in Seq(Values)
    <3>1. q.idx \in 0 .. Len(s) /\ q.idx + 1 \in Nat
      BY <1>1, <2>1
    <3> QED
      BY <1>3, <3>1, Zenon
  <2> QED
    BY <2>1 DEF Set
<1>6. AddAll(q, s).s \in Seq(Values)
  <2>1. s \o q.elems \in Seq(Values)
    BY ConcatProperties
  <2> QED
    BY <2>1 DEF AddAll
<1>7. InsertAll(q, s).s \in Seq(Values)
  <2>1. ASSUME q.idx \in 0 .. Len(s)
        PROVE  Splice(s, q.idx, q.idx, q.elems) \in Seq(Values)
    <3>1. q.idx \in Nat
      BY <1>1, <2>1
    <3> QED
      BY <1>3, <2>1, <3>1, Zenon
  <2> QED
    BY <2>1 DEF InsertAll
<1>8. RemoveAt(q, s).s \in Seq(Values)
  <2>1. ASSUME q.idx \in 0 .. Len(s) - 1
        PROVE  Splice(s, q.idx, q.idx + 1, <<>>) \in Seq(Values)
    <3>1. q.idx \in 0 .. Len(s) /\ q.idx + 1 \in Nat
      BY <1>1, <2>1
    <3> QED
      BY <1>2, <1>3, <3>1, Zenon
  <2> QED
    BY <2>1 DEF RemoveAt
<1>9. RemoveLast(q, s).s \in Seq(Values)
  <2>1. Seqs!Front(s) \in Seq(Values)
    BY <1>1, SubSeqProperties DEF Seqs!Front
  <2> QED
    BY <2>1 DEF RemoveLast
<1>10. /\ Get(q, s).s = s /\ LastElement(q, s).s = s /\ IndexOf(q, s).s = s
       /\ LastIndexOf(q, s).s = s /\ SubList(q, s).s = s /\ ToSlice(q, s).s = s
  BY DEF Get, LastElement, IndexOf, LastIndexOf, SubList, ToSlice
<1> QED
  BY <1>4, <1>5, <1>6, <1>7, <1>8, <1>9, <1>10 DEF Outcome

LEMMA OutcomesType ==
    ASSUME NEW q, q.idx \in Int, q.elems \in Seq(Values), NEW s \in Seq(Values),
           q.kind # "remove", NEW e \in Outcomes(q, s)
    PROVE  e.s \in Seq(Values)
<1>1. CASE q.kind = "removeFunc"
  <2>1. PICK t \in Kept(q, s) : e = Does(t, <<Len(s) - Len(t)>>)
    BY <1>1 DEF Outcomes, RemoveFunc
  <2> QED
    BY <2>1, KeptType, DoesFields
<1>2. CASE q.kind = "sort"
  <2>1. PICK t \in Reorderings(s) : e = Does(t, <<>>)
    BY <1>2 DEF Outcomes, Sort
  <2> QED
    BY <2>1, ReorderingType, DoesFields
<1>3. CASE q.kind \notin {"removeFunc", "sort"}
  <2>1. e = Outcome(q, s)
    BY <1>3 DEF Outcomes
  <2> QED
    BY <1>3, <2>1, OutcomeType
<1> QED
  BY <1>1, <1>2, <1>3

\* The calls that only look leave the slice as it is.
LEMMA QueriesKeep ==
    ASSUME NEW q, NEW s, q.kind \in Readers
    PROVE  Outcomes(q, s) = {Outcome(q, s)} /\ Outcome(q, s).s = s
<1>1. /\ Get(q, s).s = s /\ LastElement(q, s).s = s /\ IndexOf(q, s).s = s
      /\ LastIndexOf(q, s).s = s /\ SubList(q, s).s = s /\ ToSlice(q, s).s = s
  BY DoesFields DEF Get, LastElement, IndexOf, LastIndexOf, SubList, ToSlice
<1>2. Outcome(q, s).s = s
  BY <1>1 DEF Outcome, Readers
<1>3. Outcomes(q, s) = {Outcome(q, s)}
  BY DEF Outcomes, Readers
<1> QED
  BY <1>2, <1>3

LEMMA NothingToAdd ==
    ASSUME NEW q, NEW s \in Seq(Values), q.kind \in {"addAll", "insertAll"}, q.elems = <<>>
    PROVE  Outcomes(q, s) = {Outcome(q, s)} /\ Outcome(q, s) = Does(s, Outcome(q, <<>>).ret)
<1>1. AddAll(q, s) = Does(s, <<>>) /\ AddAll(q, <<>>).ret = <<>>
  BY ConcatEmptySeq, DoesFields DEF AddAll
<1>2. InsertAll(q, s) = Does(s, <<1>>) /\ InsertAll(q, <<>>).ret = <<1>>
  BY DoesFields DEF InsertAll
<1>3. Outcome(q, s) = Does(s, Outcome(q, <<>>).ret)
  BY <1>1, <1>2 DEF Outcome
<1>4. Outcomes(q, s) = {Outcome(q, s)}
  BY DEF Outcomes
<1> QED
  BY <1>3, <1>4
-----------------------------------------------------------------------------
(* Searches from the left and from the right.                              *)

LEMMA FirstHit ==
    ASSUME NEW q, NEW s, NEW i \in 0 .. Len(s) - 1, Len(s) \in Nat, s[i + 1] \in q.want,
           \A j \in 0 .. i - 1 : s[j + 1] \notin q.want
    PROVE  Hits(q, s) # {} /\ Least(Hits(q, s)) = i
<1>1. i \in Hits(q, s) /\ \A j \in Hits(q, s) : i <= j
  BY DEF Hits
<1>2. \A j \in Hits(q, s) : j \in Int
  BY DEF Hits
<1>3. \A k \in Hits(q, s) : (\A j \in Hits(q, s) : k <= j) => k = i
  BY <1>1, <1>2
<1> QED
  BY <1>1, <1>3 DEF Least

LEMMA LastHit ==
    ASSUME NEW q, NEW s, NEW i \in 0 .. Len(s) - 1, Len(s) \in Nat, s[i + 1] \in q.want,
           \A j \in i + 1 .. Len(s) - 1 : s[j + 1] \notin q.want
    PROVE  Hits(q, s) # {} /\ Greatest(Hits(q, s)) = i
<1>1. i \in Hits(q, s) /\ \A j \in Hits(q, s) : j <= i
  BY DEF Hits
<1>2. \A j \in Hits(q, s) : j \in Int
  BY DEF Hits
<1>3. \A k \in Hits(q, s) : (\A j \in Hits(q, s) : j <= k) => k = i
  BY <1>1, <1>2
<1> QED
  BY <1>1, <1>3 DEF Greatest

-----------------------------------------------------------------------------
(* A loop knows the elements it has passed.                                *)

Seeks(q) == q.kind \in {"remove", "indexOf", "lastIndexOf"}

\* Where the loop of q over s is at index i and has kept t.
Scanned(q, s, i, t) ==
    /\ q.kind \in Visitors
    /\ q.kind = "lastIndexOf" =>
         i \in -1 .. Len(s) - 1 /\ \A j \in i + 1 .. Len(s) - 1 : s[j + 1] \notin q.want
    /\ q.kind # "lastIndexOf" => i \in 0 .. Len(s)
    /\ q.kind \in {"remove", "indexOf"} => \A j \in 0 .. i - 1 : s[j + 1] \notin q.want
    /\ q.kind = "toSlice" => t = SubSeq(s, 1, i)
    /\ q.kind = "removeFunc" => Sifted(q, s, i, t)

LEMMA ScanStarts ==
    ASSUME NEW q, NEW s \in Seq(Values), q.kind \in Visitors
    PROVE  Scanned(q, s, IF q.kind = "lastIndexOf" THEN Len(s) - 1 ELSE 0, <<>>)
<1>1. Len(s) \in Nat
  BY LenProperties
<1>2. SubSeq(s, 1, 0) = <<>>
  BY SubSeqEmpty
<1>3. Sifted(q, s, 0, <<>>)
  BY SiftedNothing
<1> QED
  BY <1>1, <1>2, <1>3 DEF Scanned

LEMMA ScanPasses ==
    ASSUME NEW q, NEW s \in Seq(Values), NEW i \in 0 .. Len(s) - 1, NEW t \in Seq(Values),
           Scanned(q, s, i, t), Seeks(q) => s[i + 1] \notin q.want
    PROVE  Scanned(q, s, IF q.kind = "lastIndexOf" THEN i - 1 ELSE i + 1,
                   IF q.kind = "toSlice" \/ (q.kind = "removeFunc" /\ s[i + 1] \notin q.want)
                   THEN Append(t, s[i + 1]) ELSE t)
<1>1. Len(s) \in Nat /\ i \in Nat /\ s[i + 1] \in Values
  BY ElementOfSeq, LenProperties
<1>2. CASE q.kind = "lastIndexOf"
  BY <1>1, <1>2 DEF Scanned, Seeks
<1>3. CASE q.kind \in {"remove", "indexOf"}
  BY <1>1, <1>3 DEF Scanned, Seeks
<1>4. CASE q.kind = "toSlice"
  <2>1. t = SubSeq(s, 1, i)
    BY <1>4 DEF Scanned
  <2>2. Append(t, s[i + 1]) = SubSeq(s, 1, i + 1)
    BY <1>1, <2>1, SubSeqRecursiveSecond
  <2> QED
    BY <1>1, <1>4, <2>2 DEF Scanned
<1>5. CASE q.kind = "removeFunc"
  <2>1. Sifted(q, s, i, t)
    BY <1>5 DEF Scanned
  <2>2. CASE s[i + 1] \in q.want
    <3>1. Sifted(q, s, i + 1, t)
      BY <1>1, <2>1, <2>2, SiftedDrop
    <3> QED
      BY <1>1, <1>5, <2>2, <3>1 DEF Scanned
  <2>3. CASE s[i + 1] \notin q.want
    <3>1. Sifted(q, s, i + 1, Append(t, s[i + 1]))
      BY <1>1, <2>1, <2>3, SiftedKeep
    <3> QED
      BY <1>1, <1>5, <2>3, <3>1 DEF Scanned
  <2> QED
    BY <2>2, <2>3
<1> QED
  BY <1>2, <1>3, <1>4, <1>5 DEF Scanned, Visitors

LEMMA ScanFinds ==
    ASSUME NEW q, NEW s \in Seq(Values), NEW i \in 0 .. Len(s) - 1, NEW t,
           Scanned(q, s, i, t), Seeks(q), s[i + 1] \in q.want
    PROVE  /\ q.kind = "remove" =>
                Does(Splice(s, i, i + 1, <<>>), <<1>>) \in Outcomes(q, s)
           /\ q.kind # "remove" => Outcome(q, s).ret = <<i>>
<1>1. Len(s) \in Nat
  BY LenProperties
<1>2. CASE q.kind = "lastIndexOf"
  <2>1. Hits(q, s) # {} /\ Greatest(Hits(q, s)) = i
    BY <1>1, <1>2, LastHit DEF Scanned
  <2> QED
    BY <1>2, <2>1, DoesFields DEF Outcome, LastIndexOf
<1>3. CASE q.kind # "lastIndexOf"
  <2>1. Hits(q, s) # {} /\ Least(Hits(q, s)) = i
    BY <1>1, <1>3, FirstHit DEF Scanned, Seeks
  <2>2. CASE q.kind = "indexOf"
    BY <2>1, <2>2, DoesFields DEF Outcome, IndexOf
  <2>3. CASE q.kind = "remove"
    <3>1. Outcome(q, s) = Remove(q, s) /\ Outcomes(q, s) = {Outcome(q, s)}
      BY <2>3 DEF Outcome, Outcomes
    <3>2. Remove(q, s) = Does(Splice(s, i, i + 1, <<>>), <<1>>)
      BY <2>1 DEF Remove
    <3> QED
      BY <2>3, <3>1, <3>2
  <2> QED
    BY <1>3, <2>2, <2>3 DEF Seeks
<1> QED
  BY <1>2, <1>3

LEMMA ScanEnds ==
    ASSUME NEW q, NEW s \in Seq(Values), NEW i, NEW t \in Seq(Values),
           Scanned(q, s, i, t), i \notin 0 .. Len(s) - 1
    PROVE  /\ q.kind = "toSlice" => Outcome(q, s).ret = t
           /\ q.kind \in {"indexOf", "lastIndexOf"} => Outcome(q, s).ret = <<>>
           /\ q.kind = "remove" => Does(s, <<>>) \in Outcomes(q, s)
           /\ q.kind = "removeFunc" =>
                /\ Does(t, <<Len(s) - Len(t)>>) \in Outcomes(q, s)
                /\ Len(t) >= Len(s) => Does(s, <<Len(s) - Len(t)>>) \in Outcomes(q, s)
<1>1. Len(s) \in Nat
  BY LenProperties
<1>2. CASE q.kind = "toSlice"
  <2>1. i = Len(s) /\ t = SubSeq(s, 1, Len(s))
    BY <1>1, <1>2 DEF Scanned
  <2>2. t = s
    BY <2>1, SubSeqFull
  <2> QED
    BY <1>2, <2>2, DoesFields DEF Outcome, ToSlice
<1>3. CASE Seeks(q)
  <2>1. Hits(q, s) = {}
    <3>1. q.kind = "lastIndexOf" => i = -1 /\ \A j \in i + 1 .. Len(s) - 1 : s[j + 1] \notin q.want
      BY <1>1 DEF Scanned
    <3>2. q.kind \in {"remove", "indexOf"} => i = Len(s) /\ \A j \in 0 .. i - 1 : s[j + 1] \notin q.want
      BY <1>1 DEF Scanned
    <3> QED
      BY <1>1, <1>3, <3>1, <3>2 DEF Seeks, Hits
  <2>2. CASE q.kind # "remove"
    BY <1>3, <2>1, <2>2, DoesFields DEF Outcome, IndexOf, LastIndexOf, Seeks
  <2>3. CASE q.kind = "remove"
    <3>1. Outcome(q, s) = Remove(q, s) /\ Outcomes(q, s) = {Outcome(q, s)}
      BY <2>3 DEF Outcome, Outcomes
    <3> QED
      BY <2>1, <2>3, <3>1 DEF Remove
  <2> QED
    BY <2>2, <2>3
<1>4. CASE q.kind = "removeFunc"
  <2>1. i = Len(s) /\ Sifted(q, s, Len(s), t)
    BY <1>1, <1>4 DEF Scanned
  <2>2. Outcomes(q, s) = RemoveFunc(q, s) /\ Len(t) \in Nat
    BY <1>4, LenProperties DEF Outcomes
  <2> QED
    BY <1>1, <1>4, <2>1, <2>2, SiftedAll
<1> QED
  BY <1>2, <1>3, <1>4 DEF Scanned, Visitors, Seeks

-----------------------------------------------------------------------------
(* What is known of each goroutine, and that its steps keep it.            *)

Facts(p) ==
    /\ pc[p] = "skip" => req[p].kind \in {"addAll", "insertAll"} /\ req[p].elems = <<>>
    /\ pc[p] = "answer" => req[p].kind \in Readers
    /\ pc[p] = "loop" => Scanned(req[p], Seen(p), pos[p], acc[p])
    /\ pc[p] = "store" /\ req[p].kind \in Visitors =>
         Does(acc[p], ret[p]) \in Outcomes(req[p], Seen(p))

AInv == TypeOK /\ DOMAIN ret = Procs /\ \A p \in Procs : Facts(p)

\* A step of p leaves the others alone, and every published slice.
OthersKeep(p) ==
    /\ \A q \in Procs \ {p} :
         /\ pc'[q] = pc[q] /\ req'[q] = req[q] /\ snap'[q] = snap[q]
         /\ pos'[q] = pos[q] /\ acc'[q] = acc[q] /\ ret'[q] = ret[q]
    /\ \A i \in DOMAIN arrays : i \in DOMAIN arrays' /\ arrays'[i] = arrays[i]

LEMMA OthersFacts ==
    ASSUME AInv, NEW p \in Procs, OthersKeep(p), NEW q \in Procs \ {p}
    PROVE  Facts(q)'
<1>1. snap[q] \in DOMAIN arrays /\ Facts(q)
  BY DEF AInv, TypeOK
<1>2. Seen(q)' = Seen(q)
  BY <1>1 DEF OthersKeep, Seen
<1> QED
  BY <1>1, <1>2 DEF OthersKeep, Facts

LEMMA AInvInit == Init => AInv
<1> SUFFICES ASSUME Init PROVE AInv
  OBVIOUS
<1>1. <<>> \in Seq(Values) /\ <<Start>> \in Seq(Seq(Values)) /\ DOMAIN <<Start>> = {1}
  BY StartAssumption
<1>2. TypeOK
  BY <1>1 DEF Init, TypeOK
<1> QED
  BY <1>2 DEF Init, AInv, Facts

LEMMA Updated ==
    ASSUME NEW S, NEW f \in [Procs -> S], NEW p \in Procs, NEW x \in S, NEW g,
           g = f \/ g = [f EXCEPT ![p] = x]
    PROVE  g \in [Procs -> S] /\ \A q \in Procs \ {p} : g[q] = f[q]
OBVIOUS

\* Steps of p that leave the published slices as they are.
Edits(p) ==
    /\ UNCHANGED <<arrays, data>> /\ mu' \in {mu, none, p}
    /\ \/ pc' = pc
       \/ \E l \in {"idle", "skip", "lock", "load", "answer", "loop", "store", "unlock",
                    "return"} : pc' = [pc EXCEPT ![p] = l]
    /\ req' = req \/ \E q \in Requests \cup {none} : req' = [req EXCEPT ![p] = q]
    /\ todo' = todo \/ \E q : todo' = [todo EXCEPT ![p] = todo[p] \ {q}]
    /\ snap' = snap \/ snap' = [snap EXCEPT ![p] = data]
    /\ pos' = pos \/ \E i \in Int : pos' = [pos EXCEPT ![p] = i]
    /\ acc' = acc \/ \E t \in Seq(Values) : acc' = [acc EXCEPT ![p] = t]
    /\ ret' = ret \/ \E r : ret' = [ret EXCEPT ![p] = r]

LEMMA LocalType ==
    ASSUME AInv, NEW p \in Procs, Edits(p)
    PROVE  TypeOK' /\ DOMAIN ret' = Procs /\ OthersKeep(p)
<1>t. TypeOK /\ DOMAIN ret = Procs
  BY DEF AInv
<1>1. arrays' \in Seq(Seq(Values)) /\ data' \in DOMAIN arrays' /\ mu' \in Procs \cup {none}
  BY <1>t, SMTT(60) DEF TypeOK, Edits
<1>2. /\ pc' \in [Procs -> {"idle", "skip", "lock", "load", "answer", "loop", "store",
                            "unlock", "return"}]
      /\ \A o \in Procs \ {p} : pc'[o] = pc[o]
  <2> DEFINE L == {"idle", "skip", "lock", "load", "answer", "loop", "store", "unlock", "return"}
  <2>1. pc \in [Procs -> L]
    BY <1>t DEF TypeOK
  <2>2. pc' = pc \/ \E l \in L : pc' = [pc EXCEPT ![p] = l]
    BY DEF Edits
  <2> HIDE DEF L
  <2>3. PICK l \in L : pc' = pc \/ pc' = [pc EXCEPT ![p] = l]
    BY <2>1, <2>2
  <2>4. pc' \in [Procs -> L] /\ \A o \in Procs \ {p} : pc'[o] = pc[o]
    BY <2>1, <2>3, Updated, Zenon
  <2> QED
    BY <2>4 DEF L
<1>3. /\ req' \in [Procs -> Requests \cup {none}]
      /\ \A o \in Procs \ {p} : req'[o] = req[o]
  <2>1. req \in [Procs -> Requests \cup {none}]
    BY <1>t DEF TypeOK
  <2>2. PICK q \in Requests \cup {none} : req' = req \/ req' = [req EXCEPT ![p] = q]
    BY <2>1 DEF Edits
  <2> QED
    BY <2>1, <2>2, Updated, Zenon
<1>4. todo' \in [Procs -> SUBSET Requests]
  <2>1. PICK q : todo' = todo \/ todo' = [todo EXCEPT ![p] = todo[p] \ {q}]
    BY DEF Edits
  <2>2. todo \in [Procs -> SUBSET Requests] /\ todo[p] \ {q} \in SUBSET Requests
    BY <1>t DEF TypeOK
  <2> QED
    BY <2>1, <2>2, Updated
<1>5. /\ snap' \in [Procs -> DOMAIN arrays']
      /\ \A o \in Procs \ {p} : snap'[o] = snap[o]
  <2>1. snap \in [Procs -> DOMAIN arrays] /\ data \in DOMAIN arrays /\ arrays' = arrays
    BY <1>t DEF TypeOK, Edits
  <2>2. snap' = snap \/ snap' = [snap EXCEPT ![p] = data]
    BY DEF Edits
  <2> QED
    BY <2>1, <2>2, Updated, ZenonT(60)
<1>6. /\ pos' \in [Procs -> Int]
      /\ \A o \in Procs \ {p} : pos'[o] = pos[o]
  <2>1. pos \in [Procs -> Int]
    BY <1>t DEF TypeOK
  <2>2. PICK i \in Int : pos' = pos \/ pos' = [pos EXCEPT ![p] = i]
    BY <2>1 DEF Edits
  <2> QED
    BY <2>1, <2>2, Updated, Zenon
<1>7. /\ acc' \in [Procs -> Seq(Values)]
      /\ \A o \in Procs \ {p} : acc'[o] = acc[o]
  <2>1. acc \in [Procs -> Seq(Values)]
    BY <1>t DEF TypeOK
  <2>2. PICK t \in Seq(Values) : acc' = acc \/ acc' = [acc EXCEPT ![p] = t]
    BY <2>1 DEF Edits
  <2> QED
    BY <2>1, <2>2, Updated, ZenonT(60)
<1>8. /\ DOMAIN ret' = Procs
      /\ \A o \in Procs \ {p} : ret'[o] = ret[o]
  BY <1>t DEF Edits
<1>9. \A k \in DOMAIN arrays : k \in DOMAIN arrays' /\ arrays'[k] = arrays[k]
  BY DEF Edits
<1>10. OthersKeep(p)
  BY <1>2, <1>3, <1>5, <1>6, <1>7, <1>8, <1>9 DEF OthersKeep
<1>11. TypeOK'
  BY <1>1, <1>2, <1>3, <1>4, <1>5, <1>6, <1>7 DEF TypeOK
<1> QED
  BY <1>8, <1>10, <1>11

\* To keep AInv, a step of p has to keep the types and what is known of p.
LEMMA AInvFrom ==
    ASSUME AInv, NEW p \in Procs, TypeOK', DOMAIN ret' = Procs, OthersKeep(p), Facts(p)'
    PROVE  AInv'
<1>1. \A q \in Procs : Facts(q)'
  BY OthersFacts
<1> QED
  BY <1>1 DEF AInv

\* The values of p's variables after an assignment.
LEMMA Assigned ==
    ASSUME AInv, NEW p \in Procs
    PROVE  /\ \A x : [pc EXCEPT ![p] = x][p] = x /\ [req EXCEPT ![p] = x][p] = x
           /\ \A x : [snap EXCEPT ![p] = x][p] = x /\ [pos EXCEPT ![p] = x][p] = x
           /\ \A x : [acc EXCEPT ![p] = x][p] = x /\ [ret EXCEPT ![p] = x][p] = x
BY DEF AInv, TypeOK

LEMMA SeenType ==
    ASSUME AInv, NEW p \in Procs
    PROVE  /\ Seen(p) \in Seq(Values) /\ arrays[data] \in Seq(Values) /\ acc[p] \in Seq(Values)
           /\ <<>> \in Seq(Values) /\ Len(Seen(p)) \in Nat /\ Len(arrays[data]) \in Nat
<1>1. Seen(p) \in Seq(Values) /\ arrays[data] \in Seq(Values) /\ acc[p] \in Seq(Values)
  BY ElementOfSeq, LenProperties DEF AInv, TypeOK, Seen
<1> QED
  BY <1>1, LenProperties, EmptySeq

LEMMA CallKnows == ASSUME AInv, NEW p \in Procs, Call(p) PROVE AInv' /\ OthersKeep(p)
<1>1. PICK q \in todo[p] :
        /\ todo' = [todo EXCEPT ![p] = @ \ {q}]
        /\ req' = [req EXCEPT ![p] = q]
        /\ Goto(p, IF q.kind \in {"addAll", "insertAll"} /\ q.elems = <<>> THEN "skip"
                   ELSE IF q.kind \in Readers THEN "load" ELSE "lock")
  BY DEF Call
<1>2. UNCHANGED <<arrays, data, mu, snap, pos, acc, ret>>
  BY DEF Call, shared, local
<1>3. PICK l \in {"skip", "load", "lock"} :
        /\ pc' = [pc EXCEPT ![p] = l]
        /\ l = "skip" => q.kind \in {"addAll", "insertAll"} /\ q.elems = <<>>
  BY <1>1 DEF Goto
<1>4. q \in Requests
  BY DEF AInv, TypeOK
<1>5. TypeOK' /\ DOMAIN ret' = Procs /\ OthersKeep(p)
  <2>1. Edits(p)
    BY <1>1, <1>2, <1>3, <1>4 DEF Edits
  <2> QED
    BY <2>1, LocalType
<1>6. pc'[p] = l /\ req'[p] = q
  BY <1>1, <1>3, Assigned
<1>7. Facts(p)'
  BY <1>3, <1>6 DEF Facts
<1> QED
  BY <1>5, <1>7, AInvFrom

LEMMA LoadKnows == ASSUME AInv, InACall, NEW p \in Procs, Load(p) PROVE AInv' /\ OthersKeep(p)
<1> DEFINE i == IF req[p].kind = "lastIndexOf" THEN Len(arrays[data]) - 1 ELSE 0
<1>1. /\ UNCHANGED <<arrays, data, mu, req, todo, ret>>
      /\ snap' = [snap EXCEPT ![p] = data] /\ pos' = [pos EXCEPT ![p] = i]
      /\ acc' = [acc EXCEPT ![p] = <<>>]
  BY DEF Load, shared
<1>2. PICK l \in {"loop", "store", "answer"} :
        /\ pc' = [pc EXCEPT ![p] = l]
        /\ l = "loop" => req[p].kind \in Visitors
        /\ l # "loop" => req[p].kind \notin Visitors
        /\ l = "answer" => ~Writes(p)
  BY DEF Load, Goto
<1>3. arrays[data] \in Seq(Values) /\ <<>> \in Seq(Values) /\ i \in Int
  BY SeenType
<1> HIDE DEF i
<1>4. TypeOK' /\ DOMAIN ret' = Procs /\ OthersKeep(p)
  <2>1. Edits(p)
    BY <1>1, <1>2, <1>3 DEF Edits
  <2> QED
    BY <2>1, LocalType
<1>5. pc'[p] = l /\ snap'[p] = data /\ pos'[p] = i /\ acc'[p] = <<>>
  BY <1>1, <1>2, Assigned
<1>6. Seen(p)' = arrays[data]
  BY <1>1, <1>5 DEF Seen
<1>7. l = "answer" => req[p].kind \in Readers
  <2>1. req[p] # none
    BY DEF Load, InACall
  <2> QED
    BY <1>2, <2>1 DEF Writes
<1>8. l = "loop" => Scanned(req[p], arrays[data], i, <<>>)
  BY <1>2, <1>3, ScanStarts DEF i
<1>9. Facts(p)'
  BY <1>1, <1>2, <1>5, <1>6, <1>7, <1>8 DEF Facts
<1> QED
  BY <1>4, <1>9, AInvFrom

LEMMA PassKnows == ASSUME AInv, NEW p \in Procs, Pass(p) PROVE AInv' /\ OthersKeep(p)
<1> DEFINE q == req[p]
           s == Seen(p)
           i == IF q.kind = "lastIndexOf" THEN pos[p] - 1 ELSE pos[p] + 1
           t == IF q.kind = "toSlice" \/ (q.kind = "removeFunc" /\ s[pos[p] + 1] \notin q.want)
                THEN Append(acc[p], s[pos[p] + 1]) ELSE acc[p]
<1>1. /\ UNCHANGED <<arrays, data, mu, pc, req, todo, snap, ret>>
      /\ pos' = [pos EXCEPT ![p] = i] /\ acc' = [acc EXCEPT ![p] = t]
  BY DEF Pass, shared, Hit
<1>2. /\ pc[p] = "loop" /\ pos[p] \in 0 .. Len(s) - 1
      /\ Seeks(q) => s[pos[p] + 1] \notin q.want
  BY DEF Pass, Ends, Hit, Seeks
<1>3. s \in Seq(Values) /\ acc[p] \in Seq(Values) /\ Scanned(q, s, pos[p], acc[p])
  BY <1>2, SeenType DEF AInv, Facts
<1>4. Scanned(q, s, i, t)
  BY <1>2, <1>3, ScanPasses
<1>5. i \in Int /\ t \in Seq(Values)
  <2>1. s[pos[p] + 1] \in Values
    BY <1>2, <1>3, ElementOfSeq, LenProperties
  <2> QED
    BY <1>2, <1>3, <2>1, AppendProperties
<1> HIDE DEF i, t
<1>6. TypeOK' /\ DOMAIN ret' = Procs /\ OthersKeep(p)
  <2>1. Edits(p)
    BY <1>1, <1>5 DEF Edits
  <2> QED
    BY <2>1, LocalType
<1>7. pos'[p] = i /\ acc'[p] = t
  BY <1>1, Assigned
<1>8. Facts(p)'
  BY <1>1, <1>2, <1>4, <1>7 DEF Facts, Seen
<1> QED
  BY <1>6, <1>8, AInvFrom

LEMMA FindKnows == ASSUME AInv, NEW p \in Procs, Find(p) PROVE AInv' /\ OthersKeep(p)
<1> DEFINE q == req[p]
           s == Seen(p)
<1>1. /\ UNCHANGED <<arrays, data, mu, req, todo, snap, pos>>
      /\ pc[p] = "loop" /\ pos[p] \in 0 .. Len(s) - 1
      /\ Seeks(q) /\ s[pos[p] + 1] \in q.want
  BY DEF Find, shared, Ends, Hit, Seeks
<1>2. s \in Seq(Values) /\ acc[p] \in Seq(Values) /\ Scanned(q, s, pos[p], acc[p])
  BY <1>1, SeenType DEF AInv, Facts
<1>3. CASE q.kind = "remove"
  <2> DEFINE t == Splice(s, pos[p], pos[p] + 1, <<>>)
  <2>1. /\ acc' = [acc EXCEPT ![p] = t] /\ ret' = [ret EXCEPT ![p] = <<1>>]
        /\ pc' = [pc EXCEPT ![p] = "store"]
    BY <1>3 DEF Find, Goto
  <2>2. t \in Seq(Values)
    <3>1. pos[p] \in 0 .. Len(s) /\ pos[p] + 1 \in Nat /\ <<>> \in Seq(Values)
      BY <1>1, <1>2, LenProperties, SeenType
    <3> QED
      BY <1>2, <3>1, SpliceType
  <2>3. Does(t, <<1>>) \in Outcomes(q, s)
    BY <1>1, <1>2, <1>3, ScanFinds
  <2> HIDE DEF t
  <2>4. TypeOK' /\ DOMAIN ret' = Procs /\ OthersKeep(p)
    <3>1. Edits(p)
      BY <1>1, <2>1, <2>2 DEF Edits
    <3> QED
      BY <3>1, LocalType
  <2>5. acc'[p] = t /\ ret'[p] = <<1>> /\ pc'[p] = "store"
    BY <2>1, Assigned
  <2>6. Facts(p)'
    BY <1>1, <2>3, <2>5 DEF Facts, Seen
  <2> QED
    BY <2>4, <2>6, AInvFrom
<1>4. CASE q.kind # "remove"
  <2>1. /\ acc' = acc /\ ret' = [ret EXCEPT ![p] = <<pos[p]>>]
        /\ pc' = [pc EXCEPT ![p] = "return"]
    BY <1>4 DEF Find, Goto
  <2>4. TypeOK' /\ DOMAIN ret' = Procs /\ OthersKeep(p)
    <3>1. Edits(p)
      BY <1>1, <1>2, <2>1 DEF Edits
    <3> QED
      BY <3>1, LocalType
  <2>5. pc'[p] = "return"
    BY <2>1, Assigned
  <2>6. Facts(p)'
    BY <2>5 DEF Facts
  <2> QED
    BY <2>4, <2>6, AInvFrom
<1> QED
  BY <1>3, <1>4

LEMMA FinishKnows == ASSUME AInv, NEW p \in Procs, Finish(p) PROVE AInv' /\ OthersKeep(p)
<1> DEFINE q == req[p]
           s == Seen(p)
<1>1. /\ UNCHANGED <<arrays, data, mu, req, todo, snap, pos, acc>>
      /\ pc[p] = "loop" /\ pos[p] \notin 0 .. Len(s) - 1
  BY DEF Finish, shared, local, Ends
<1>2. s \in Seq(Values) /\ acc[p] \in Seq(Values) /\ Scanned(q, s, pos[p], acc[p])
  BY <1>1, SeenType DEF AInv, Facts
<1>3. PICK l \in {"return", "store", "unlock"} :
        /\ pc' = [pc EXCEPT ![p] = l]
        /\ l = "store" => q.kind = "removeFunc"
  BY DEF Finish, Goto
<1>4. PICK r : /\ ret' = [ret EXCEPT ![p] = r]
               /\ q.kind = "removeFunc" => r = <<Len(s) - Len(acc[p])>>
  BY DEF Finish
<1>5. TypeOK' /\ DOMAIN ret' = Procs /\ OthersKeep(p)
  <2>1. Edits(p)
    BY <1>1, <1>2, <1>3, <1>4 DEF Edits
  <2> QED
    BY <2>1, LocalType
<1>6. ret'[p] = r /\ pc'[p] = l
  BY <1>3, <1>4, Assigned, ZenonT(60)
<1>7. q.kind = "removeFunc" => Does(acc[p], <<Len(s) - Len(acc[p])>>) \in Outcomes(q, s)
  BY <1>1, <1>2, ScanEnds
<1>8. Facts(p)'
  BY <1>1, <1>3, <1>4, <1>6, <1>7 DEF Facts, Seen
<1> QED
  BY <1>5, <1>8, AInvFrom

LEMMA StoreKnows == ASSUME AInv, IInv, NEW p \in Procs, Store(p) PROVE AInv' /\ OthersKeep(p)
<1>1. /\ UNCHANGED <<mu, req, todo, snap, pos, acc>>
      /\ pc' = [pc EXCEPT ![p] = "unlock"]
  BY DEF Store, Goto, local
<1>u. pc'[p] = "unlock"
  BY <1>1, Assigned
<1>2. PICK done \in NewData(p) :
        /\ ret' = [ret EXCEPT ![p] = done.ret]
        /\ \/ UNCHANGED <<arrays, data>>
           \/ arrays' = Append(arrays, done.s) /\ data' = Len(arrays')
  BY DEF Store
<1>3. done.s \in Seq(Values)
  <2>1. Seen(p) \in Seq(Values) /\ acc[p] \in Seq(Values)
    BY SeenType
  <2>2. CASE req[p].kind \in Visitors
    BY <2>1, <2>2, <1>2, DoesFields DEF NewData
  <2>3. CASE req[p].kind \notin Visitors
    <3>1. done \in Outcomes(req[p], Seen(p)) /\ req[p].kind # "remove"
      BY <1>2, <2>3 DEF NewData, Visitors
    <3>2. req[p].idx \in Int /\ req[p].elems \in Seq(Values)
      BY DEF Store, IInv, InACall, Requests
    <3> QED
      BY <2>1, <3>1, <3>2, OutcomesType
  <2> QED
    BY <2>2, <2>3
<1>4. CASE UNCHANGED <<arrays, data>>
  <2>1. TypeOK' /\ DOMAIN ret' = Procs /\ OthersKeep(p)
    <3>1. Edits(p)
      BY <1>1, <1>2, <1>4 DEF Edits
    <3> QED
      BY <3>1, LocalType
  <2>2. Facts(p)'
    BY <1>u DEF Facts
  <2> QED
    BY <2>1, <2>2, AInvFrom
<1>5. CASE arrays' = Append(arrays, done.s) /\ data' = Len(arrays')
  <2>t. TypeOK /\ DOMAIN ret = Procs
    BY DEF AInv
  <2>1. /\ arrays' \in Seq(Seq(Values)) /\ data' \in DOMAIN arrays'
        /\ \A i \in DOMAIN arrays : i \in DOMAIN arrays' /\ arrays'[i] = arrays[i]
    <3>1. /\ arrays' \in Seq(Seq(Values)) /\ Len(arrays') = Len(arrays) + 1
          /\ \A i \in 1 .. Len(arrays) : arrays'[i] = arrays[i]
      BY <1>3, <1>5, <2>t, AppendProperties DEF TypeOK
    <3>2. DOMAIN arrays' = 1 .. Len(arrays') /\ DOMAIN arrays = 1 .. Len(arrays) /\ Len(arrays) \in Nat
      BY <2>t, <3>1, LenProperties DEF TypeOK
    <3> QED
      BY <1>5, <3>1, <3>2
  <2>2. snap' \in [Procs -> DOMAIN arrays']
    BY <1>1, <2>t, <2>1 DEF TypeOK
  <2>3. /\ pc' \in [Procs -> {"idle", "skip", "lock", "load", "answer", "loop", "store",
                              "unlock", "return"}]
        /\ \A q \in Procs \ {p} : pc'[q] = pc[q]
    BY <1>1, <2>t, Updated DEF TypeOK
  <2>4. TypeOK'
    BY <1>1, <2>t, <2>1, <2>2, <2>3 DEF TypeOK
  <2>5. DOMAIN ret' = Procs /\ OthersKeep(p)
    BY <1>1, <1>2, <2>t, <2>1, <2>3 DEF OthersKeep
  <2>6. Facts(p)'
    BY <1>u DEF Facts
  <2> QED
    BY <2>4, <2>5, <2>6, AInvFrom
<1> QED
  BY <1>2, <1>4, <1>5

\* The steps after which nothing has to be known of p.
LEMMA OtherStepsKnow ==
    ASSUME AInv, IInv, NEW p \in Procs,
           Skip(p) \/ Lock(p) \/ Answer(p) \/ Unlock(p) \/ Return(p) \/ Panic(p)
    PROVE  AInv' /\ OthersKeep(p)
<1>1. /\ UNCHANGED <<arrays, data, todo, snap, pos, acc>> /\ mu' \in {mu, none, p}
      /\ req' = req \/ req' = [req EXCEPT ![p] = none]
      /\ ret' = ret \/ \E r : ret' = [ret EXCEPT ![p] = r]
      /\ \E l \in {"load", "unlock", "return", "idle"} : pc' = [pc EXCEPT ![p] = l]
  BY DEF Skip, Lock, Answer, Unlock, Return, Panic, Goto, shared, local
<1>2. TypeOK' /\ DOMAIN ret' = Procs /\ OthersKeep(p)
  <2>1. Edits(p)
    BY <1>1 DEF Edits
  <2> QED
    BY <2>1, LocalType
<1>3. Facts(p)'
  <2>1. pc'[p] \notin {"skip", "answer", "loop", "store"}
    <3>1. PICK l \in {"load", "unlock", "return", "idle"} : pc' = [pc EXCEPT ![p] = l]
      BY <1>1
    <3>2. pc'[p] = l
      BY <3>1, Assigned, Zenon
    <3> QED
      BY <3>2
  <2> QED
    BY <2>1 DEF Facts
<1> QED
  BY <1>2, <1>3, AInvFrom

LEMMA StepIsLocal ==
    ASSUME AInv, IInv, NEW p \in Procs, Call(p) \/ Step(p) \/ Panic(p)
    PROVE  AInv' /\ OthersKeep(p)
BY CallKnows, LoadKnows, PassKnows, FindKnows, FinishKnows, StoreKnows, OtherStepsKnow
   DEF Step, IInv

LEMMA StepKnows == IInv /\ AInv /\ [Next]_vars => AInv'
<1> SUFFICES ASSUME IInv, AInv, [Next]_vars PROVE AInv'
  OBVIOUS
<1>1. CASE UNCHANGED vars \/ Terminated
  BY <1>1, SMTT(60) DEF vars, shared, local, Terminated, AInv, TypeOK, Facts, Seen
<1>2. ASSUME NEW p \in Procs, Call(p) \/ Step(p) \/ Panic(p) PROVE AInv'
  BY <1>2, StepIsLocal
<1> QED
  BY <1>1, <1>2 DEF Next

LEMMA Knowledge == Spec => [](IInv /\ AInv)
<1>1. Init => IInv /\ AInv
  BY InitInvariant, AInvInit
<1>2. IInv /\ AInv /\ [Next]_vars => (IInv /\ AInv)'
  BY StepInvariant, StepKnows
<1> QED
  BY <1>1, <1>2, PTL DEF Spec

(***************************************************************************)
(* Whatever the calls and their callbacks do, the published slices and the *)
(* copies the writers make (cowlist.go:59-427) hold elements of the list,  *)
(* and the pointer and every snapshot lead to a slice that was published.  *)
(***************************************************************************)
THEOREM CowListTypes == Spec => []TypeOK
<1>1. IInv /\ AInv => TypeOK
  BY DEF AInv
<1> QED
  BY Knowledge, <1>1, PTL

-----------------------------------------------------------------------------
(* Every step is a step of the atomic object, or none.                     *)

Content == arrays[data]
Stage == [p \in Procs |-> Moment(p)]
Found(p) == IF Loaded(p) THEN Outcome(req[p], Seen(p)).ret
            ELSE IF Moment(p) = "closed" THEN ret[p] ELSE none
Answered == [p \in Procs |-> Found(p)]

LEMMA OthersUnmoved ==
    ASSUME AInv, NEW p \in Procs, OthersKeep(p), NEW q \in Procs \ {p}
    PROVE  Stage'[q] = Stage[q] /\ req'[q] = req[q] /\ Answered'[q] = Answered[q]
<1>1. Seen(q)' = Seen(q)
  BY ZenonT(60) DEF AInv, TypeOK, OthersKeep, Seen
<1>2. Moment(q)' = Moment(q) /\ (Loaded(q)' <=> Loaded(q))
  BY DEF OthersKeep, Moment, Loaded, Writes
<1>3. Found(q)' = Found(q)
  BY <1>1, <1>2 DEF OthersKeep, Found
<1> QED
  BY <1>2, <1>3 DEF OthersKeep, Stage, Answered

LEMMA Stutter ==
    ASSUME AInv, NEW p \in Procs, OthersKeep(p), Content' = Content, req' = req,
           Moment(p)' = Moment(p), Found(p)' = Found(p)
    PROVE  UNCHANGED Atomic!vars
<1>1. \A q \in Procs : Stage'[q] = Stage[q] /\ Answered'[q] = Answered[q]
  BY OthersUnmoved DEF Stage, Answered
<1>2. Stage' = Stage /\ Answered' = Answered
  BY <1>1 DEF Stage, Answered
<1> QED
  BY <1>2 DEF Atomic!vars, Content, Stage, Answered, Found

LEMMA Invoked ==
    ASSUME AInv, NEW p \in Procs, OthersKeep(p), Content' = Content,
           NEW q \in Requests, req' = [req EXCEPT ![p] = q],
           Moment(p) = "idle", Moment(p)' = "open", ~Loaded(p), ~Loaded(p)'
    PROVE  Atomic!Invoke(p)
<1>1. Stage[p] = "idle" /\ Stage'[p] = "open" /\ Answered'[p] = Answered[p]
  BY DEF Stage, Answered, Found
<1>2. Stage' = [Stage EXCEPT ![p] = "open"]
  BY <1>1, OthersUnmoved DEF Stage
<1>3. Answered' = Answered
  BY <1>1, OthersUnmoved DEF Answered
<1>4. req'[p] = q
  BY Assigned
<1> QED
  BY <1>1, <1>2, <1>3, <1>4 DEF Atomic!Invoke, Content, Stage, Answered, Found

LEMMA Effected ==
    ASSUME AInv, NEW p \in Procs, OthersKeep(p), req' = req,
           Moment(p) = "open", Moment(p)' = "closed",
           NEW e \in EffectsOrPanic(req[p], Content), Content' = e.s, Found(p)' = e.ret
    PROVE  Atomic!TakeEffect(p)
<1>1. Stage[p] = "open" /\ Stage'[p] = "closed" /\ Answered'[p] = e.ret
  BY DEF Stage, Answered
<1>2. Stage' = [Stage EXCEPT ![p] = "closed"]
  BY <1>1, OthersUnmoved DEF Stage
<1>3. Answered' = [Answered EXCEPT ![p] = e.ret]
  BY <1>1, OthersUnmoved DEF Answered
<1> QED
  BY <1>1, <1>2, <1>3 DEF Atomic!TakeEffect, Content, Stage, Answered, Found

LEMMA Returned ==
    ASSUME AInv, NEW p \in Procs, OthersKeep(p), Content' = Content,
           req' = [req EXCEPT ![p] = none], Moment(p) = "closed", Moment(p)' = "idle",
           ~Loaded(p)'
    PROVE  Atomic!Return(p)
<1>1. Stage[p] = "closed" /\ Stage'[p] = "idle" /\ Answered'[p] = none
  BY DEF Stage, Answered, Found
<1>2. Stage' = [Stage EXCEPT ![p] = "idle"]
  BY <1>1, OthersUnmoved DEF Stage
<1>3. Answered' = [Answered EXCEPT ![p] = none]
  BY <1>1, OthersUnmoved DEF Answered
<1> QED
  BY <1>1, <1>2, <1>3 DEF Atomic!Return, Content, Stage, Answered, Found

LEMMA InitIsAtomic == Init => Atomic!Init
<1> SUFFICES ASSUME Init PROVE Atomic!Init
  OBVIOUS
<1>1. \A p \in Procs : Moment(p) = "idle" /\ ~Loaded(p)
  BY DEF Init, Moment, Loaded
<1>2. arrays[data] = Start
  BY DEF Init
<1> QED
  BY <1>1, <1>2 DEF Init, Atomic!Init

LEMMA InvokedByCall == ASSUME AInv, IInv, NEW p \in Procs, Call(p) PROVE Atomic!Invoke(p)
<1>1. OthersKeep(p)
  BY StepIsLocal
<1>2. pc[p] = "idle" /\ UNCHANGED <<arrays, data>>
  BY DEF Call, shared
<1>3. PICK q \in todo[p], l \in {"skip", "load", "lock"} :
        /\ req' = [req EXCEPT ![p] = q]
        /\ pc' = [pc EXCEPT ![p] = l]
  BY DEF Call, Goto
<1>4. q \in Requests /\ pc'[p] = l
  BY <1>3, Assigned DEF AInv, TypeOK
<1>5. Moment(p) = "idle" /\ Moment(p)' = "open" /\ ~Loaded(p) /\ ~Loaded(p)'
  BY <1>2, <1>4 DEF Moment, Loaded
<1> QED
  BY <1>1, <1>2, <1>3, <1>4, <1>5, Invoked DEF Content

LEMMA EffectedBySkip == ASSUME AInv, IInv, NEW p \in Procs, Skip(p) PROVE Atomic!TakeEffect(p)
<1>1. OthersKeep(p)
  BY StepIsLocal DEF Step
<1>2. /\ pc[p] = "skip" /\ UNCHANGED <<arrays, data, req>>
      /\ ret' = [ret EXCEPT ![p] = Outcome(req[p], <<>>).ret]
      /\ pc' = [pc EXCEPT ![p] = "return"]
  BY DEF Skip, Goto, shared
<1>3. pc'[p] = "return" /\ ret'[p] = Outcome(req[p], <<>>).ret
  BY <1>2, Assigned, ZenonT(60)
<1>4. /\ Moment(p) = "open" /\ Moment(p)' = "closed"
      /\ Found(p)' = Outcome(req[p], <<>>).ret
  BY <1>2, <1>3 DEF Moment, Loaded, Found
<1>5. Does(Content, Outcome(req[p], <<>>).ret) \in EffectsOrPanic(req[p], Content)
  <2>1. req[p].kind \in {"addAll", "insertAll"} /\ req[p].elems = <<>>
    BY <1>2 DEF AInv, Facts
  <2> QED
    BY <2>1, SeenType, NothingToAdd DEF EffectsOrPanic, Content
<1> QED
  BY <1>1, <1>2, <1>4, <1>5, DoesFields, Effected DEF Content

\* A reader takes effect when it loads, a writer has still to store.
LEMMA EffectedByLoad ==
    ASSUME AInv, IInv, NEW p \in Procs, Load(p)
    PROVE  Atomic!TakeEffect(p) \/ UNCHANGED Atomic!vars
<1>1. OthersKeep(p)
  BY StepIsLocal DEF Step
<1>2. /\ pc[p] = "load" /\ UNCHANGED <<arrays, data, req, ret>>
      /\ snap' = [snap EXCEPT ![p] = data]
  BY DEF Load, shared
<1>3. PICK l \in {"loop", "store", "answer"} :
        /\ pc' = [pc EXCEPT ![p] = l]
        /\ l = "store" => Writes(p)
        /\ l = "answer" => ~Writes(p)
  BY DEF Load, Goto
<1>4. pc'[p] = l /\ snap'[p] = data /\ req[p] # none
  BY <1>2, <1>3, Assigned, SMTT(60) DEF IInv, InACall
<1>5. Seen(p)' = Content /\ (Writes(p)' <=> Writes(p))
  BY <1>2, <1>4 DEF Seen, Content, Writes
<1>6. Moment(p) = "open" /\ ~Loaded(p)
  BY <1>2 DEF Moment, Loaded
<1>7. CASE Writes(p)
  <2>1. Moment(p)' = "open" /\ ~Loaded(p)'
    BY <1>3, <1>4, <1>5, <1>7 DEF Moment, Loaded
  <2>2. Found(p)' = Found(p)
    BY <1>6, <2>1 DEF Found
  <2> QED
    BY <1>1, <1>2, <1>6, <2>1, <2>2, Stutter DEF Content
<1>8. CASE ~Writes(p)
  <2>1. Loaded(p)' /\ Moment(p)' = "closed"
    BY <1>3, <1>4, <1>5, <1>8 DEF Moment, Loaded
  <2>2. Found(p)' = Outcome(req[p], Content).ret
    BY <1>2, <1>5, <2>1 DEF Found
  <2>3. /\ Outcome(req[p], Content) \in EffectsOrPanic(req[p], Content)
        /\ Outcome(req[p], Content).s = Content
    BY <1>4, <1>8, QueriesKeep DEF Writes, EffectsOrPanic
  <2>4. Atomic!TakeEffect(p)
    BY <1>1, <1>2, <1>6, <2>1, <2>2, <2>3, Effected DEF Content
  <2> QED
    BY <2>4
<1> QED
  BY <1>7, <1>8

LEMMA LockStutters == ASSUME AInv, IInv, NEW p \in Procs, Lock(p) PROVE UNCHANGED Atomic!vars
<1>1. OthersKeep(p)
  BY StepIsLocal DEF Step
<1>2. pc[p] = "lock" /\ UNCHANGED <<arrays, data, req, ret>> /\ pc' = [pc EXCEPT ![p] = "load"]
  BY DEF Lock, Goto
<1>3. pc'[p] = "load"
  BY <1>2, Assigned
<1>4. Moment(p) = "open" /\ Moment(p)' = "open" /\ ~Loaded(p) /\ ~Loaded(p)'
  BY <1>2, <1>3 DEF Moment, Loaded
<1> QED
  BY <1>1, <1>2, <1>4, Stutter DEF Content, Found

LEMMA AnswerStutters ==
    ASSUME AInv, IInv, NEW p \in Procs, Answer(p)
    PROVE  UNCHANGED Atomic!vars
<1>1. OthersKeep(p)
  BY StepIsLocal DEF Step
<1>2. /\ pc[p] = "answer" /\ UNCHANGED <<arrays, data, req, snap>>
      /\ ret' = [ret EXCEPT ![p] = Outcome(req[p], Seen(p)).ret]
      /\ pc' = [pc EXCEPT ![p] = "return"]
  BY DEF Answer, Goto, shared, local
<1>3. pc'[p] = "return" /\ ret'[p] = Outcome(req[p], Seen(p)).ret
  BY <1>2, Assigned, ZenonT(60)
<1>4. Loaded(p) /\ ~Loaded(p)' /\ Moment(p) = "closed" /\ Moment(p)' = "closed"
  BY <1>2, <1>3 DEF AInv, Facts, Moment, Loaded, Writes
<1> QED
  BY <1>1, <1>2, <1>3, <1>4, Stutter DEF Content, Found

LEMMA PassStutters == ASSUME AInv, IInv, NEW p \in Procs, Pass(p) PROVE UNCHANGED Atomic!vars
<1>1. OthersKeep(p)
  BY StepIsLocal DEF Step
<1>2. UNCHANGED <<arrays, data, pc, req, snap, ret>>
  BY DEF Pass, shared
<1>3. Moment(p)' = Moment(p) /\ Found(p)' = Found(p)
  BY <1>2 DEF Moment, Loaded, Found, Seen, Writes
<1> QED
  BY <1>1, <1>2, <1>3, Stutter DEF Content

\* A loop that finds: the reader has its answer, Remove has its copy.
LEMMA FindStutters == ASSUME AInv, IInv, NEW p \in Procs, Find(p) PROVE UNCHANGED Atomic!vars
<1>1. OthersKeep(p)
  BY StepIsLocal DEF Step
<1>2. /\ pc[p] = "loop" /\ UNCHANGED <<arrays, data, req, snap>> /\ Seeks(req[p])
      /\ pos[p] \in 0 .. Len(Seen(p)) - 1 /\ Seen(p)[pos[p] + 1] \in req[p].want
  BY DEF Find, shared, Ends, Hit, Seeks
<1>3. req[p] # none
  BY <1>2 DEF IInv, InACall
<1>4. CASE req[p].kind = "remove"
  <2>1. pc' = [pc EXCEPT ![p] = "store"]
    BY <1>4 DEF Find, Goto
  <2>2. pc'[p] = "store" /\ Writes(p) /\ Writes(p)'
    BY <1>2, <1>3, <1>4, <2>1, Assigned DEF Writes, Readers
  <2>3. Moment(p) = "open" /\ Moment(p)' = "open" /\ ~Loaded(p) /\ ~Loaded(p)'
    BY <1>2, <2>2 DEF Moment, Loaded
  <2> QED
    BY <1>1, <1>2, <2>3, Stutter DEF Content, Found
<1>5. CASE req[p].kind # "remove"
  <2>1. /\ pc' = [pc EXCEPT ![p] = "return"]
        /\ ret' = [ret EXCEPT ![p] = <<pos[p]>>]
    BY <1>5 DEF Find, Goto
  <2>2. pc'[p] = "return" /\ ret'[p] = <<pos[p]>> /\ ~Writes(p)
    BY <1>2, <1>5, <2>1, Assigned, ZenonT(60) DEF Writes, Readers, Seeks
  <2>3. Loaded(p) /\ ~Loaded(p)' /\ Moment(p) = "closed" /\ Moment(p)' = "closed"
    BY <1>2, <2>2 DEF Moment, Loaded
  <2>4. Outcome(req[p], Seen(p)).ret = <<pos[p]>>
    <3>1. Scanned(req[p], Seen(p), pos[p], acc[p])
      BY <1>2 DEF AInv, Facts
    <3> QED
      BY <1>2, <1>5, <3>1, SeenType, ScanFinds
  <2> QED
    BY <1>1, <1>2, <2>2, <2>3, <2>4, Stutter DEF Content, Found
<1> QED
  BY <1>4, <1>5

\* A loop that ends: a reader has its answer, RemoveFunc may have its copy,
\* and a writer that leaves everything as it is takes effect here.
LEMMA EffectedByFinish ==
    ASSUME AInv, IInv, NEW p \in Procs, Finish(p)
    PROVE  Atomic!TakeEffect(p) \/ UNCHANGED Atomic!vars
<1> DEFINE q == req[p]
           s == Seen(p)
           r == CASE q.kind = "toSlice" -> acc[p]
                  [] q.kind = "removeFunc" -> <<Len(s) - Len(acc[p])>>
                  [] OTHER -> <<>>
           l == IF ~Writes(p) THEN "return"
                ELSE IF q.kind = "removeFunc" /\ Len(acc[p]) < Len(s) THEN "store" ELSE "unlock"
<1>1. OthersKeep(p)
  BY StepIsLocal DEF Step
<1>2. /\ pc[p] = "loop" /\ UNCHANGED <<arrays, data, req, snap>>
      /\ pos[p] \notin 0 .. Len(s) - 1
      /\ ret' = [ret EXCEPT ![p] = r] /\ pc' = [pc EXCEPT ![p] = l]
  BY DEF Finish, Goto, shared, local, Ends
<1>3. q # none /\ Scanned(q, s, pos[p], acc[p]) /\ q.kind \in Visitors
  BY <1>2 DEF IInv, InACall, AInv, Facts, Scanned
<1>4. s \in Seq(Values) /\ acc[p] \in Seq(Values) /\ Len(s) \in Nat /\ Len(acc[p]) \in Nat
  BY SeenType, LenProperties
<1>5. pc'[p] = l /\ ret'[p] = r /\ (Writes(p)' <=> Writes(p))
  <2> HIDE DEF l, r
  <2>1. pc'[p] = l /\ ret'[p] = r
    BY <1>2, Assigned
  <2> QED
    BY <1>2, <2>1 DEF Writes
<1>6. /\ q.kind = "toSlice" => Outcome(q, s).ret = acc[p]
      /\ q.kind \in {"indexOf", "lastIndexOf"} => Outcome(q, s).ret = <<>>
      /\ q.kind = "remove" => Does(s, <<>>) \in Outcomes(q, s)
      /\ q.kind = "removeFunc" /\ Len(acc[p]) >= Len(s) =>
           Does(s, <<Len(s) - Len(acc[p])>>) \in Outcomes(q, s)
  BY <1>2, <1>3, <1>4, ScanEnds, ZenonT(60)
<1>7. CASE ~Writes(p)
  <2>1. Loaded(p) /\ ~Loaded(p)' /\ Moment(p) = "closed" /\ Moment(p)' = "closed"
    BY <1>2, <1>5, <1>7 DEF Moment, Loaded
  <2>2. r = Outcome(q, s).ret
    BY <1>3, <1>6, <1>7 DEF Writes, Readers, Visitors
  <2>3. Found(p)' = Found(p)
    BY <1>5, <2>1, <2>2 DEF Found
  <2> QED
    BY <1>1, <1>2, <2>1, <2>3, Stutter DEF Content
<1>8. CASE Writes(p) /\ l = "store"
  <2>1. Moment(p) = "open" /\ Moment(p)' = "open" /\ ~Loaded(p) /\ ~Loaded(p)'
    BY <1>2, <1>5, <1>8 DEF Moment, Loaded
  <2> QED
    BY <1>1, <1>2, <2>1, Stutter DEF Content, Found
<1>9. CASE Writes(p) /\ l # "store"
  <2>1. /\ pc'[p] = "unlock" /\ q.kind \in {"remove", "removeFunc"}
        /\ q.kind = "removeFunc" => Len(acc[p]) >= Len(s)
    BY <1>3, <1>4, <1>5, <1>9 DEF Writes, Readers, Visitors
  <2>2. Moment(p) = "open" /\ Moment(p)' = "closed" /\ ~Loaded(p)'
    BY <1>2, <1>9, <2>1 DEF Moment, Loaded
  <2>3. Found(p)' = r
    BY <1>5, <2>2 DEF Found
  <2>4. s = Content
    BY <1>2, <1>9 DEF IInv, NoUpdateDropped, Seen, Content
  <2>5. Does(s, r) \in Outcomes(q, s)
    BY <1>6, <2>1
  <2>6. Does(s, r) \in EffectsOrPanic(req[p], Content)
    BY <2>4, <2>5 DEF EffectsOrPanic
  <2> HIDE DEF r, l, s
  <2>7. Atomic!TakeEffect(p)
    BY <1>1, <1>2, <2>2, <2>3, <2>4, <2>6, DoesFields, Effected DEF Content
  <2> QED
    BY <2>7
<1> QED
  BY <1>7, <1>8, <1>9

LEMMA EffectedByPanic ==
    ASSUME AInv, IInv, NEW p \in Procs, Panic(p)
    PROVE  Atomic!TakeEffect(p)
<1>1. OthersKeep(p)
  BY StepIsLocal
<1>2. /\ pc[p] \in {"loop", "store"} /\ Writes(p) /\ UNCHANGED <<arrays, data, req>>
      /\ pc[p] = "store" => req[p].kind = "sort"
      /\ ret' = [ret EXCEPT ![p] = <<none>>] /\ pc' = [pc EXCEPT ![p] = "unlock"]
  BY DEF Panic, Goto, shared
<1>3. pc'[p] = "unlock" /\ ret'[p] = <<none>>
  BY <1>2, Assigned, ZenonT(60)
<1>4. /\ Moment(p) = "open" /\ Moment(p)' = "closed"
      /\ Found(p)' = <<none>>
  BY <1>2, <1>3 DEF Moment, Loaded, Found
<1>5. req[p].kind \in {"remove", "removeFunc", "sort"}
  BY <1>2 DEF AInv, Facts, Scanned, Visitors, Writes, Readers
<1>6. Does(Content, <<none>>) \in EffectsOrPanic(req[p], Content)
  BY <1>5 DEF EffectsOrPanic
<1> QED
  BY <1>1, <1>2, <1>4, <1>6, DoesFields, Effected DEF Content

\* A call that is turned down leaves the slice as it is.
LEMMA RejectedKeep ==
    ASSUME NEW q, NEW s, q.kind \in {"set", "insertAll", "removeAt", "removeLast"},
           Outcome(q, s).ret = <<>>
    PROVE  Outcome(q, s).s = s
<1>0. \A t, v : Does(t, <<v>>).ret # <<>> /\ Does(s, <<>>).s = s
  BY DoesFields
<1>1. Set(q, s).ret = <<>> => Set(q, s).s = s
  BY <1>0, Zenon DEF Set
<1>2. InsertAll(q, s).ret = <<>> => InsertAll(q, s).s = s
  BY <1>0, Zenon DEF InsertAll
<1>3. RemoveAt(q, s).ret = <<>> => RemoveAt(q, s).s = s
  BY <1>0, Zenon DEF RemoveAt
<1>4. RemoveLast(q, s).ret = <<>> => RemoveLast(q, s).s = s
  BY <1>0, Zenon DEF RemoveLast
<1> QED
  BY <1>1, <1>2, <1>3, <1>4 DEF Outcome

LEMMA EffectedByStore ==
    ASSUME AInv, IInv, NEW p \in Procs, Store(p)
    PROVE  Atomic!TakeEffect(p)
<1>1. OthersKeep(p)
  BY StepIsLocal DEF Step
<1>2. pc[p] = "store" /\ req' = req /\ pc' = [pc EXCEPT ![p] = "unlock"]
  BY DEF Store, Goto
<1>3. PICK done \in NewData(p) :
        /\ ret' = [ret EXCEPT ![p] = done.ret]
        /\ IF Rejected(p)
           THEN UNCHANGED <<arrays, data>>
           ELSE arrays' = Append(arrays, done.s) /\ data' = Len(arrays')
  BY DEF Store
<1>4. pc'[p] = "unlock" /\ ret'[p] = done.ret
  BY <1>2, <1>3, Assigned
<1>5. Seen(p) = Content
  BY <1>2 DEF IInv, StoresWrite, NoUpdateDropped, Seen, Content
<1>6. /\ Moment(p) = "open" /\ Moment(p)' = "closed"
      /\ Found(p)' = done.ret
  BY <1>2, <1>4 DEF Moment, Loaded, Found
<1>7. done \in Outcomes(req[p], Content)
  BY <1>2, <1>3, <1>5 DEF NewData, AInv, Facts
<1>8. Content' = done.s
  <2>1. CASE Rejected(p)
    <3>1. done = Outcome(req[p], Content) /\ done.ret = <<>>
      BY <1>5, <1>7, <2>1 DEF Rejected, Outcomes
    <3> QED
      BY <1>3, <1>5, <2>1, <3>1, RejectedKeep DEF Rejected, Content
  <2>2. CASE ~Rejected(p)
    <3>1. arrays' = Append(arrays, done.s) /\ data' = Len(arrays')
      BY <1>3, <2>2
    <3>2. arrays \in Seq(Seq(Values)) /\ arrays' \in Seq(Seq(Values))
      BY <1>1, StepIsLocal DEF AInv, TypeOK, Step
    <3>3. arrays'[Len(arrays')] = done.s
      BY <3>1, <3>2
    <3> QED
      BY <3>1, <3>3 DEF Content
  <2> QED
    BY <2>1, <2>2
<1>9. done \in EffectsOrPanic(req[p], Content)
  BY <1>7 DEF EffectsOrPanic
<1> QED
  BY <1>1, <1>2, <1>6, <1>8, <1>9, Effected

LEMMA UnlockStutters ==
    ASSUME AInv, IInv, NEW p \in Procs, Unlock(p)
    PROVE  UNCHANGED Atomic!vars
<1>1. OthersKeep(p)
  BY StepIsLocal DEF Step
<1>2. /\ pc[p] = "unlock" /\ UNCHANGED <<arrays, data, req, ret>>
      /\ pc' = [pc EXCEPT ![p] = "return"]
  BY DEF Unlock, Goto
<1>3. pc'[p] = "return"
  BY <1>2, Assigned
<1>4. Moment(p) = "closed" /\ Moment(p)' = "closed" /\ ~Loaded(p) /\ ~Loaded(p)'
  BY <1>2, <1>3 DEF Moment, Loaded
<1> QED
  BY <1>1, <1>2, <1>4, Stutter DEF Content, Found

LEMMA ReturnedByReturn == ASSUME AInv, IInv, NEW p \in Procs, Return(p) PROVE Atomic!Return(p)
<1>1. OthersKeep(p)
  BY StepIsLocal DEF Step
<1>2. /\ pc[p] = "return" /\ UNCHANGED <<arrays, data>>
      /\ req' = [req EXCEPT ![p] = none] /\ pc' = [pc EXCEPT ![p] = "idle"]
  BY DEF Return, Goto, shared
<1>3. pc'[p] = "idle"
  BY <1>2, Assigned
<1>4. Moment(p) = "closed" /\ Moment(p)' = "idle" /\ ~Loaded(p)'
  BY <1>2, <1>3 DEF Moment, Loaded
<1> QED
  BY <1>1, <1>2, <1>4, Returned DEF Content

LEMMA StepIsAtomic == IInv /\ AInv /\ [Next]_vars => [Atomic!Next]_Atomic!vars
<1> SUFFICES ASSUME IInv, AInv, [Next]_vars PROVE Atomic!Next \/ UNCHANGED Atomic!vars
  OBVIOUS
<1>1. CASE UNCHANGED vars \/ Terminated
  BY <1>1 DEF vars, shared, local, Terminated, Atomic!vars, Moment, Loaded, Writes, Seen
<1>2. ASSUME NEW p \in Procs, Call(p) \/ Step(p) \/ Panic(p)
      PROVE  \/ Atomic!Invoke(p) \/ Atomic!TakeEffect(p) \/ Atomic!Return(p)
             \/ UNCHANGED Atomic!vars
  <2>1. CASE Call(p)
    BY <2>1, InvokedByCall
  <2>2. CASE Panic(p)
    BY <2>2, EffectedByPanic
  <2>3. CASE Step(p)
    BY <2>3, EffectedBySkip, LockStutters, EffectedByLoad, AnswerStutters, PassStutters,
       FindStutters, EffectedByFinish, EffectedByStore, UnlockStutters, ReturnedByReturn DEF Step
  <2> QED
    BY <1>2, <2>1, <2>2, <2>3
<1>3. ASSUME NEW p \in Procs, Call(p) \/ Step(p) \/ Panic(p)
      PROVE  Atomic!Next \/ UNCHANGED Atomic!vars
  BY <1>2, <1>3 DEF Atomic!Next
<1> QED
  BY <1>1, <1>3 DEF Next

(***************************************************************************)
(* Every call of a cowList (cowlist.go:59-427) takes effect in one         *)
(* instant: a writer when it stores its copy, which it made of the slice   *)
(* then published, a reader when it loads, and what its loop gathers       *)
(* afterwards, element by element and with callbacks in between, is the    *)
(* answer for that slice.  A writer whose callback panics has no effect.   *)
(***************************************************************************)
THEOREM CowListIsAtomic == Spec => EveryCallIsAtomic
<1>1. Init => Atomic!Init
  BY InitIsAtomic
<1>2. IInv /\ AInv /\ [Next]_vars => [Atomic!Next]_Atomic!vars
  BY StepIsAtomic
<1> QED
  BY <1>1, <1>2, Knowledge, PTL DEF Spec, EveryCallIsAtomic, Atomic!Spec
=============================================================================
