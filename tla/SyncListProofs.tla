--------------------------- MODULE SyncListProofs ---------------------------
(***************************************************************************)
(* The proofs that who edits a syncList in place is alone inside, and that *)
(* each call is atomic, for any number of goroutines, elements and calls.  *)
(* WriterIsAlone is not inductive: a goroutine must be known to wait for   *)
(* the lock its method asks for (RightLock), and a writer to have seen the *)
(* readers leave before it went in (ReadersAreOut).  For atomicity (SInv)  *)
(* a loop knows the elements it has passed (Scanned) of the slice it found *)
(* (Content), and RemoveFunc, which has overwritten the first of them,     *)
(* that the ones it has still to read are as it found them (Edited).       *)
(***************************************************************************)
EXTENDS SyncList, FiniteSetTheorems, SequenceTheorems, TLAPS

USE ProcAssumption, MenuAssumption

Shapes ==
    /\ mu \in Locks(Procs)
    /\ pc \in [Procs -> {"idle", "skip", "rlock", "lock", "drain", "body", "loop",
                         "unlock", "replay", "return"}]
    /\ req \in [Procs -> Requests \cup {none}]
    /\ todo \in [Procs -> SUBSET Requests]

RightLock ==
    \A p \in Procs : /\ pc[p] = "rlock" => req[p].kind \in Readers
                     /\ pc[p] \in {"lock", "drain"} => req[p].kind \notin Readers

LockHeld ==
    /\ mu.readers = {p \in Procs : Inside(p) /\ ~Writing(p)}
    /\ \A p \in Procs : mu.writer = p <=> (Writing(p) \/ pc[p] = "drain")

ReadersAreOut == \A p \in Procs : Writing(p) => mu.readers = {}

IInv == Shapes /\ RightLock /\ LockHeld /\ ReadersAreOut

LEMMA InitInvariant == Init => IInv
<1> SUFFICES ASSUME Init PROVE IInv
  OBVIOUS
<1>1. mu = [writer |-> none, readers |-> {}]
  BY DEF Init, Unlocked
<1>2. mu.writer = none /\ mu.readers = {} /\ mu \in Locks(Procs)
  BY <1>1 DEF Locks
<1>3. \A p \in Procs : pc[p] = "idle" /\ ~Inside(p) /\ ~Writing(p)
  BY DEF Init, Inside, Writing
<1>4. Shapes /\ RightLock
  BY <1>2, <1>3 DEF Init, Shapes, RightLock
<1> QED
  BY <1>2, <1>3, <1>4 DEF IInv, LockHeld, ReadersAreOut

\* Where IInv' speaks of the goroutines one by one, only p has moved.
OthersStay(p) == \A q \in Procs \ {p} : pc'[q] = pc[q] /\ req'[q] = req[q]

LEMMA OthersInside ==
    ASSUME NEW p \in Procs, OthersStay(p), NEW q \in Procs, q # p
    PROVE  /\ Inside(q)' <=> Inside(q)
           /\ Writing(q)' <=> Writing(q)
           /\ pc'[q] = "drain" <=> pc[q] = "drain"
BY DEF OthersStay, Inside, Writing

-----------------------------------------------------------------------------
(* The steps that take or release the lock.                                *)

LEMMA RLockKeeps == ASSUME IInv, NEW p \in Procs, RLock(p) PROVE IInv'
<1>1. /\ pc[p] = "rlock" /\ mu.writer = none /\ mu' = RLocked(mu, p)
      /\ pc' = [pc EXCEPT ![p] = "body"] /\ UNCHANGED <<req, todo>>
  BY DEF RLock, Goto, MayRLock
<1>2. mu' \in Locks(Procs) /\ mu'.writer = mu.writer /\ mu'.readers = mu.readers \cup {p}
  BY <1>1 DEF IInv, Shapes, Locks, RLocked
<1>3. Shapes' /\ OthersStay(p) /\ pc'[p] = "body" /\ req'[p].kind \in Readers
  BY <1>1, <1>2 DEF IInv, Shapes, OthersStay, RightLock
<1>4. RightLock'
  BY <1>3 DEF IInv, RightLock, OthersStay
<1>5. Inside(p)' /\ ~Writing(p)'
  BY <1>3 DEF Inside, Writing
<1>6. \A q \in Procs : ~Writing(q) /\ pc[q] # "drain"
  BY <1>1 DEF IInv, LockHeld
<1>7. \A q \in Procs : ~Writing(q)' /\ pc'[q] # "drain"
  BY <1>3, <1>5, <1>6, OthersInside
<1>8. LockHeld'
  <2>1. mu'.readers = {q \in Procs : Inside(q)' /\ ~Writing(q)'}
    BY <1>2, <1>3, <1>5, OthersInside DEF IInv, LockHeld
  <2> QED
    BY <1>1, <1>2, <1>7, <2>1 DEF LockHeld
<1> QED
  BY <1>3, <1>4, <1>7, <1>8 DEF IInv, ReadersAreOut

LEMMA LockKeeps == ASSUME IInv, NEW p \in Procs, Lock(p) PROVE IInv'
<1>1. /\ pc[p] = "lock" /\ mu.writer = none /\ mu' = Announced(mu, p)
      /\ pc' = [pc EXCEPT ![p] = "drain"] /\ UNCHANGED <<req, todo>>
  BY DEF Lock, Goto, MayAnnounce
<1>2. mu' \in Locks(Procs) /\ mu'.writer = p /\ mu'.readers = mu.readers
  BY <1>1 DEF IInv, Shapes, Locks, Announced
<1>3. Shapes' /\ OthersStay(p) /\ pc'[p] = "drain" /\ req'[p].kind \notin Readers
  BY <1>1, <1>2 DEF IInv, Shapes, OthersStay, RightLock
<1>4. RightLock'
  BY <1>3 DEF IInv, RightLock, OthersStay
<1>5. ~Inside(p) /\ ~Writing(p) /\ ~Inside(p)' /\ ~Writing(p)'
  BY <1>1, <1>3 DEF Inside, Writing
<1>6. \A q \in Procs : ~Writing(q) /\ pc[q] # "drain"
  BY <1>1 DEF IInv, LockHeld
<1>7. \A q \in Procs : ~Writing(q)' /\ (pc'[q] = "drain" <=> q = p)
  BY <1>3, <1>5, <1>6, OthersInside
<1>8. LockHeld'
  <2>1. mu'.readers = {q \in Procs : Inside(q)' /\ ~Writing(q)'}
    BY <1>2, <1>3, <1>5, OthersInside DEF IInv, LockHeld
  <2> QED
    BY <1>2, <1>7, <2>1 DEF LockHeld
<1> QED
  BY <1>3, <1>4, <1>7, <1>8 DEF IInv, ReadersAreOut

LEMMA DrainKeeps == ASSUME IInv, NEW p \in Procs, Drain(p) PROVE IInv'
<1>1. /\ pc[p] = "drain" /\ mu.writer = p /\ mu.readers = {}
      /\ pc' = [pc EXCEPT ![p] = "body"] /\ UNCHANGED <<mu, req, todo>>
  BY DEF Drain, Goto, Granted, shared
<1>2. Shapes' /\ OthersStay(p) /\ pc'[p] = "body" /\ req'[p].kind \notin Readers
  BY <1>1 DEF IInv, Shapes, OthersStay, RightLock
<1>3. RightLock'
  BY <1>2 DEF IInv, RightLock, OthersStay
<1>4. ~Inside(p) /\ ~Writing(p) /\ Inside(p)' /\ Writing(p)'
  BY <1>1, <1>2 DEF Inside, Writing
<1>5. LockHeld'
  <2>1. mu'.readers = {q \in Procs : Inside(q)' /\ ~Writing(q)'}
    BY <1>1, <1>2, <1>4, OthersInside DEF IInv, LockHeld
  <2>2. ASSUME NEW q \in Procs PROVE mu'.writer = q <=> (Writing(q)' \/ pc'[q] = "drain")
    BY <1>1, <1>2, <1>4, OthersInside DEF IInv, LockHeld
  <2> QED
    BY <2>1, <2>2 DEF LockHeld
<1> QED
  BY <1>1, <1>2, <1>3, <1>5 DEF IInv, ReadersAreOut

LEMMA UnlockKeeps == ASSUME IInv, NEW p \in Procs, Unlock(p) PROVE IInv'
<1>1. /\ pc[p] = "unlock" /\ UNCHANGED <<req, todo>>
      /\ mu' = IF req[p].kind \in Readers THEN RUnlocked(mu, p) ELSE Released(mu)
      /\ \E l \in {"replay", "return"} : pc' = [pc EXCEPT ![p] = l]
  BY DEF Unlock, Goto
<1>2. mu' \in Locks(Procs)
  BY <1>1 DEF IInv, Shapes, Locks, RUnlocked, Released
<1>3. Shapes' /\ OthersStay(p) /\ pc'[p] \in {"replay", "return"}
  BY <1>1, <1>2 DEF IInv, Shapes, OthersStay
<1>4. RightLock'
  BY <1>3 DEF IInv, RightLock, OthersStay
<1>5. Inside(p) /\ ~Inside(p)' /\ ~Writing(p)' /\ pc[p] # "drain" /\ pc'[p] # "drain"
  BY <1>1, <1>3 DEF Inside, Writing
<1>6. CASE req[p].kind \in Readers
  <2>1. ~Writing(p) /\ mu'.readers = mu.readers \ {p} /\ mu'.writer = mu.writer
    BY <1>1, <1>6 DEF IInv, Shapes, RUnlocked, Locks, Writing
  <2>2. mu.writer # p
    BY <1>5, <2>1 DEF IInv, LockHeld
  <2>3. mu'.readers = {q \in Procs : Inside(q)' /\ ~Writing(q)'}
    BY <1>3, <1>5, <2>1, OthersInside DEF IInv, LockHeld
  <2>4. ASSUME NEW q \in Procs PROVE mu'.writer = q <=> (Writing(q)' \/ pc'[q] = "drain")
    BY <1>3, <1>5, <2>1, <2>2, OthersInside DEF IInv, LockHeld
  <2>5. ReadersAreOut'
    BY <1>3, <1>5, <2>1, OthersInside DEF IInv, ReadersAreOut
  <2> QED
    BY <1>3, <1>4, <2>3, <2>4, <2>5 DEF IInv, LockHeld
<1>7. CASE req[p].kind \notin Readers
  <2>1. Writing(p) /\ mu'.readers = mu.readers /\ mu'.writer = none
    BY <1>1, <1>5, <1>7 DEF IInv, Shapes, Released, Locks, Writing
  <2>2. mu.writer = p /\ mu.readers = {}
    BY <2>1 DEF IInv, LockHeld, ReadersAreOut
  <2>3. \A q \in Procs : q # p => ~Writing(q) /\ pc[q] # "drain"
    BY <2>2 DEF IInv, LockHeld
  <2>4. \A q \in Procs : ~Writing(q)' /\ pc'[q] # "drain"
    BY <1>3, <1>5, <2>3, OthersInside
  <2>5. mu'.readers = {q \in Procs : Inside(q)' /\ ~Writing(q)'}
    BY <1>3, <1>5, <2>1, <2>3, OthersInside DEF IInv, LockHeld
  <2> QED
    BY <1>3, <1>4, <2>1, <2>4, <2>5 DEF IInv, LockHeld, ReadersAreOut
<1> QED
  BY <1>6, <1>7

-----------------------------------------------------------------------------
(* The other steps: p stays inside, or stays outside.                      *)

SameSide(p) ==
    /\ OthersStay(p) /\ mu' = mu /\ Shapes'
    /\ \/ /\ pc[p] \in {"body", "loop"} /\ pc'[p] \in {"body", "loop", "unlock"}
          /\ req'[p] = req[p]
       \/ /\ pc[p] \in {"idle", "skip", "replay", "return"}
          /\ \/ pc'[p] \in {"idle", "skip", "replay", "return"}
             \/ pc'[p] = "rlock" /\ req'[p].kind \in Readers
             \/ pc'[p] = "lock" /\ req'[p].kind \notin Readers

LEMMA SameSideKeeps == ASSUME IInv, NEW p \in Procs, SameSide(p) PROVE IInv'
<1>1. OthersStay(p) /\ mu' = mu /\ Shapes'
  BY DEF SameSide
<1>2. RightLock'
  BY DEF IInv, RightLock, SameSide, OthersStay
<1>3. /\ Inside(p)' <=> Inside(p)
      /\ Writing(p)' <=> Writing(p)
      /\ pc'[p] = "drain" <=> pc[p] = "drain"
  BY DEF SameSide, Inside, Writing
<1>4. \A q \in Procs : /\ Inside(q)' <=> Inside(q)
                       /\ Writing(q)' <=> Writing(q)
                       /\ pc'[q] = "drain" <=> pc[q] = "drain"
  BY <1>1, <1>3, OthersInside
<1>5. LockHeld' /\ ReadersAreOut'
  BY <1>1, <1>4 DEF IInv, LockHeld, ReadersAreOut
<1> QED
  BY <1>1, <1>2, <1>5 DEF IInv

LEMMA CallStaysOutside == ASSUME IInv, NEW p \in Procs, Call(p) PROVE SameSide(p)
<1>1. PICK q \in todo[p] :
        /\ todo' = [todo EXCEPT ![p] = @ \ {q}]
        /\ req' = [req EXCEPT ![p] = q]
        /\ Goto(p, IF q.kind \in {"addAll", "insertAll"} /\ q.elems = <<>> THEN "skip"
                   ELSE IF q.kind \in Readers THEN "rlock" ELSE "lock")
  BY DEF Call
<1>2. pc[p] = "idle" /\ mu' = mu /\ q \in Requests
  BY DEF Call, shared, IInv, Shapes
<1>3. PICK l \in {"skip", "rlock", "lock"} :
        /\ pc' = [pc EXCEPT ![p] = l]
        /\ l = "rlock" => q.kind \in Readers
        /\ l = "lock" => q.kind \notin Readers
  BY <1>1 DEF Goto
<1>4. Shapes'
  BY <1>1, <1>2, <1>3 DEF IInv, Shapes
<1>5. OthersStay(p) /\ pc'[p] = l /\ req'[p] = q
  BY <1>1, <1>3 DEF IInv, Shapes, OthersStay
<1> QED
  BY <1>2, <1>3, <1>4, <1>5 DEF SameSide

LEMMA StepStaysInside ==
    ASSUME IInv, NEW p \in Procs,
           Body(p) \/ Enter(p) \/ Pass(p) \/ Find(p) \/ Finish(p) \/ Panic(p) \/ SortPanics(p)
    PROVE  SameSide(p)
<1>1. /\ pc[p] \in {"body", "loop"} /\ UNCHANGED <<mu, req, todo>>
      /\ \/ pc' = pc
         \/ pc' = [pc EXCEPT ![p] = "loop"]
         \/ pc' = [pc EXCEPT ![p] = "unlock"]
  BY DEF Body, Enter, Pass, Find, Finish, Panic, SortPanics, Goto, shared
<1>2. Shapes' /\ OthersStay(p) /\ pc'[p] \in {"body", "loop", "unlock"}
  BY <1>1 DEF IInv, Shapes, OthersStay
<1> QED
  BY <1>1, <1>2 DEF SameSide

LEMMA StepStaysOutside ==
    ASSUME IInv, NEW p \in Procs, Skip(p) \/ Replay(p) \/ Return(p)
    PROVE  SameSide(p)
<1>1. /\ pc[p] \in {"skip", "replay", "return"} /\ UNCHANGED <<mu, todo>>
      /\ req' = req \/ req' = [req EXCEPT ![p] = none]
      /\ \/ pc' = pc
         \/ pc' = [pc EXCEPT ![p] = "return"]
         \/ pc' = [pc EXCEPT ![p] = "idle"]
  BY DEF Skip, Replay, Return, Goto, shared
<1>2. Shapes' /\ OthersStay(p) /\ pc'[p] \in {"idle", "skip", "replay", "return"}
  BY <1>1 DEF IInv, Shapes, OthersStay
<1> QED
  BY <1>1, <1>2 DEF SameSide

LEMMA StepInvariant == IInv /\ [Next]_vars => IInv'
<1> SUFFICES ASSUME IInv, [Next]_vars PROVE IInv'
  OBVIOUS
<1>1. CASE UNCHANGED vars \/ Terminated
  BY <1>1 DEF vars, shared, Terminated, IInv, Shapes, RightLock, LockHeld, ReadersAreOut,
              Inside, Writing
<1>2. ASSUME NEW p \in Procs, RLock(p) \/ Lock(p) \/ Drain(p) \/ Unlock(p) PROVE IInv'
  BY <1>2, RLockKeeps, LockKeeps, DrainKeeps, UnlockKeeps
<1>3. ASSUME NEW p \in Procs,
             Body(p) \/ Enter(p) \/ Pass(p) \/ Find(p) \/ Finish(p) \/ Panic(p) \/ SortPanics(p)
      PROVE  IInv'
  BY <1>3, StepStaysInside, SameSideKeeps
<1>4. ASSUME NEW p \in Procs, Call(p) \/ Skip(p) \/ Replay(p) \/ Return(p) PROVE IInv'
  BY <1>4, CallStaysOutside, StepStaysOutside, SameSideKeeps
<1> QED
  BY <1>1, <1>2, <1>3, <1>4 DEF Next, Step

(***************************************************************************)
(* A method that edits the slice (synclist.go:54-278) has no other method  *)
(* inside with it, and however a method leaves, by its return or by a      *)
(* panic of a callback, it leaves the lock.                                *)
(***************************************************************************)
THEOREM SyncListWriterIsAlone == Spec => []WriterIsAlone
<1>1. IInv => WriterIsAlone
  <2> SUFFICES ASSUME IInv PROVE WriterIsAlone
    OBVIOUS
  <2>1. ASSUME NEW p \in Procs, NEW q \in Procs, Writing(p), Inside(q) PROVE p = q
    <3>1. mu.readers = {} /\ mu.writer = p
      BY <2>1 DEF IInv, LockHeld, ReadersAreOut
    <3>2. Writing(q)
      BY <2>1, <3>1 DEF IInv, LockHeld
    <3> QED
      BY <3>1, <3>2 DEF IInv, LockHeld
  <2>2. ASSUME NEW p \in Procs
        PROVE  /\ p \in mu.readers <=> Inside(p) /\ ~Writing(p)
               /\ mu.writer = p <=> Writing(p) \/ pc[p] = "drain"
    BY DEF IInv, LockHeld
  <2> QED
    BY <2>1, <2>2 DEF WriterIsAlone
<1> QED
  BY InitInvariant, StepInvariant, <1>1, PTL DEF Spec

-----------------------------------------------------------------------------
(* RemoveFunc sifts the slice from the left.                               *)

\* t is what it keeps of the first k elements of s.
StaysTo(q, s, k) == {i \in 1 .. k : s[i] \notin q.want}
Sifted(q, s, k, t) ==
    /\ Len(t) = Cardinality(StaysTo(q, s, k))
    /\ \E f \in [1 .. Len(t) -> StaysTo(q, s, k)] :
         Rising(f) /\ \A i \in 1 .. Len(t) : t[i] = s[f[i]]

LEMMA SiftedNothing == ASSUME NEW q, NEW s PROVE Sifted(q, s, 0, <<>>)
<1>1. StaysTo(q, s, 0) = {} /\ Len(<<>>) = 0
  BY DEF StaysTo
<1>2. Cardinality({}) = 0
  BY FS_EmptySet
<1> DEFINE f == [i \in 1 .. 0 |-> i]
<1>3. f \in [1 .. 0 -> {}] /\ Rising(f)
  BY DEF Rising
<1>4. \A i \in 1 .. 0 : <<>>[i] = s[f[i]]
  OBVIOUS
<1> QED
  BY <1>1, <1>2, <1>3, <1>4 DEF Sifted

LEMMA SiftedDrop ==
    ASSUME NEW q, NEW s, NEW k \in Nat, NEW t, Sifted(q, s, k, t), s[k + 1] \in q.want
    PROVE  Sifted(q, s, k + 1, t)
<1>1. StaysTo(q, s, k + 1) = StaysTo(q, s, k)
  BY DEF StaysTo
<1> QED
  BY <1>1 DEF Sifted

LEMMA SiftedKeep ==
    ASSUME NEW q, NEW s, NEW k \in Nat, NEW t \in Seq(Values), Sifted(q, s, k, t),
           s[k + 1] \in Values \ q.want
    PROVE  Sifted(q, s, k + 1, Append(t, s[k + 1]))
<1> DEFINE S == StaysTo(q, s, k)
           m == Len(t)
           u == Append(t, s[k + 1])
<1>1. StaysTo(q, s, k + 1) = S \cup {k + 1} /\ k + 1 \notin S /\ \A i \in S : i \in 1 .. k
  BY DEF StaysTo
<1>2. IsFiniteSet(S)
  <2>1. IsFiniteSet(1 .. k) /\ S \in SUBSET (1 .. k)
    BY FS_Interval DEF StaysTo
  <2> QED
    BY <2>1, FS_Subset
<1>3. Cardinality(S \cup {k + 1}) = Cardinality(S) + 1
  BY <1>1, <1>2, FS_AddElement
<1>4. PICK f \in [1 .. m -> S] : Rising(f) /\ \A i \in 1 .. m : t[i] = s[f[i]]
  BY DEF Sifted
<1>5. m \in Nat /\ m = Cardinality(S)
  BY LenProperties DEF Sifted
<1>6. Len(u) = m + 1 /\ (\A i \in 1 .. m : u[i] = t[i]) /\ u[m + 1] = s[k + 1]
  BY AppendProperties
<1> DEFINE g == [i \in 1 .. m + 1 |-> IF i = m + 1 THEN k + 1 ELSE f[i]]
<1> HIDE DEF S, m, u
<1>7. g \in [1 .. m + 1 -> S \cup {k + 1}]
  BY <1>4, <1>5
<1>8. Rising(g)
  <2>1. ASSUME NEW i \in 1 .. m + 1, NEW j \in 1 .. m + 1, i < j PROVE g[i] < g[j]
    <3>1. i \in 1 .. m /\ g[i] = f[i] /\ f[i] \in S
      BY <1>4, <1>5, <2>1
    <3>2. f[i] < k + 1
      BY <1>1, <3>1
    <3>3. CASE j = m + 1
      BY <3>1, <3>2, <3>3
    <3>4. CASE j # m + 1
      <4>1. j \in 1 .. m /\ g[j] = f[j]
        BY <1>5, <3>4
      <4> QED
        BY <1>4, <2>1, <3>1, <4>1 DEF Rising
    <3> QED
      BY <3>3, <3>4
  <2> QED
    BY <2>1 DEF Rising
<1>9. \A i \in 1 .. m + 1 : u[i] = s[g[i]]
  BY <1>4, <1>5, <1>6
<1> HIDE DEF g
<1>10. /\ Len(u) = Cardinality(StaysTo(q, s, k + 1))
       /\ g \in [1 .. Len(u) -> StaysTo(q, s, k + 1)]
       /\ \A i \in 1 .. Len(u) : u[i] = s[g[i]]
  BY <1>1, <1>3, <1>5, <1>6, <1>7, <1>9
<1>11. Sifted(q, s, k + 1, u)
  BY <1>8, <1>10 DEF Sifted
<1> QED
  BY <1>11 DEF u

LEMMA SiftedAll ==
    ASSUME NEW q, NEW s \in Seq(Values), NEW t \in Seq(Values), Sifted(q, s, Len(s), t)
    PROVE  /\ Does(t, <<Len(s) - Len(t)>>) \in RemoveFunc(q, s)
           /\ Len(t) <= Len(s)
           /\ Len(t) = Len(s) => Does(s, <<Len(s) - Len(t)>>) \in RemoveFunc(q, s)
<1> DEFINE S == Stays(q, s)
<1>1. Len(s) \in Nat /\ DOMAIN s = 1 .. Len(s) /\ Len(t) \in Nat
  BY LenProperties
<1>2. StaysTo(q, s, Len(s)) = S
  BY <1>1 DEF StaysTo, Stays
<1>3. PICK f \in [1 .. Len(t) -> S] : Rising(f) /\ \A i \in 1 .. Len(t) : t[i] = s[f[i]]
  BY <1>2 DEF Sifted
<1>4. Len(t) = Cardinality(S)
  BY <1>2 DEF Sifted
<1>5. IsFiniteSet(1 .. Len(s)) /\ Cardinality(1 .. Len(s)) = Len(s) /\ S \in SUBSET (1 .. Len(s))
  <2> DEFINE m == Len(s)
  <2> HIDE DEF m
  <2>1. IsFiniteSet(1 .. m) /\ Cardinality(1 .. m) = m
    <3>1. m \in Nat
      BY <1>1 DEF m
    <3> QED
      BY <3>1, FS_Interval
  <2>2. S \in SUBSET (1 .. Len(s))
    BY <1>1 DEF Stays
  <2> QED
    BY <2>1, <2>2 DEF m
<1>6. /\ Cardinality(S) <= Len(s)
      /\ Len(s) = Cardinality(S) => S = 1 .. Len(s)
  BY <1>5, FS_Subset
<1>7. t = [i \in 1 .. Len(t) |-> s[f[i]]]
  BY <1>3, LenProperties
<1>8. t \in Kept(q, s)
  BY <1>3, <1>4, <1>7 DEF Kept
<1>9. ASSUME Len(t) = Len(s) PROVE s \in Kept(q, s)
  <2> DEFINE h == [i \in 1 .. Len(s) |-> i]
  <2>1. S = 1 .. Len(s)
    BY <1>4, <1>6, <1>9
  <2>2. h \in [1 .. Len(s) -> S] /\ Rising(h)
    BY <2>1 DEF Rising
  <2>3. s = [i \in 1 .. Len(s) |-> s[h[i]]]
    BY LenProperties
  <2> QED
    BY <1>4, <1>9, <2>2, <2>3, SMTT(60) DEF Kept
<1>10. Len(t) <= Len(s)
  BY <1>4, <1>6
<1>11. \A u \in Kept(q, s) : Does(u, <<Len(s) - Len(u)>>) \in RemoveFunc(q, s)
  BY DEF RemoveFunc
<1>12. Does(t, <<Len(s) - Len(t)>>) \in RemoveFunc(q, s)
  BY <1>8, <1>11
<1>13. ASSUME Len(t) = Len(s) PROVE Does(s, <<Len(s) - Len(t)>>) \in RemoveFunc(q, s)
  BY <1>9, <1>11, <1>13
<1> QED
  BY <1>10, <1>12, <1>13

-----------------------------------------------------------------------------
(* What the calls leave and answer.                                        *)

LEMMA DoesFields == \A s, r : Does(s, r).s = s /\ Does(s, r).ret = r
BY DEF Does

LEMMA SpliceType ==
    ASSUME NEW s \in Seq(Values), NEW u \in Seq(Values), NEW i \in 0 .. Len(s), NEW j \in Nat
    PROVE  Splice(s, i, j, u) \in Seq(Values)
<1>1. Len(s) \in Nat /\ \A k \in 1 .. Len(s) : s[k] \in Values
  BY ElementOfSeq, LenProperties
<1>2. SubSeq(s, 1, i) \in Seq(Values)
  BY <1>1, SubSeqProperties
<1>3. SubSeq(s, j + 1, Len(s)) \in Seq(Values)
  BY <1>1, SubSeqProperties
<1>4. SubSeq(s, 1, i) \o u \in Seq(Values)
  BY <1>2, ConcatProperties
<1> QED
  BY <1>3, <1>4, ConcatProperties DEF Splice

LEMMA ReorderingType ==
    ASSUME NEW s \in Seq(Values), NEW t \in Reorderings(s)
    PROVE  t \in Seq(Values)
<1>1. PICK f \in Onto(DOMAIN s) : t = [i \in DOMAIN s |-> s[f[i]]]
  BY DEF Reorderings
<1>2. Len(s) \in Nat /\ DOMAIN s = 1 .. Len(s) /\ s \in [1 .. Len(s) -> Values]
  BY LenProperties
<1>3. t \in [1 .. Len(s) -> Values]
  BY <1>1, <1>2 DEF Onto
<1> QED
  BY <1>2, <1>3

LEMMA KeptType ==
    ASSUME NEW q, NEW s \in Seq(Values), NEW t \in Kept(q, s)
    PROVE  t \in Seq(Values)
<1> DEFINE k == Cardinality(Stays(q, s))
<1>1. PICK f \in [1 .. k -> Stays(q, s)] : t = [i \in 1 .. k |-> s[f[i]]]
  BY DEF Kept
<1>2. Len(s) \in Nat /\ DOMAIN s = 1 .. Len(s) /\ s \in [1 .. Len(s) -> Values]
  BY LenProperties
<1>3. k \in Nat
  <2>1. IsFiniteSet(1 .. Len(s)) /\ Stays(q, s) \in SUBSET (1 .. Len(s))
    BY <1>2, FS_Interval DEF Stays
  <2> QED
    BY <2>1, FS_Subset, FS_CardinalityType
<1>4. t \in [1 .. k -> Values]
  BY <1>1, <1>2 DEF Stays
<1> QED
  BY <1>3, <1>4, SMTT(60)

\* The calls that change a slice on their own terms, one by one.
LEMMA OutcomeType ==
    ASSUME NEW q, q.idx \in Int, q.elems \in Seq(Values), NEW s \in Seq(Values),
           q.kind # "remove"
    PROVE  Outcome(q, s).s \in Seq(Values)
<1> USE DoesFields
<1>1. Len(s) \in Nat /\ \A k \in 1 .. Len(s) : s[k] \in Values
  BY ElementOfSeq, LenProperties
<1>2. <<>> \in Seq(Values)
  BY EmptySeq
<1>3. \A i \in 0 .. Len(s) : \A j \in Nat : \A u \in Seq(Values) : Splice(s, i, j, u) \in Seq(Values)
  BY SpliceType
<1>4. Clear(q, s).s \in Seq(Values) /\ Replace(q, s).s \in Seq(Values)
  BY <1>2, ZenonT(60) DEF Clear, Replace
<1>5. Set(q, s).s \in Seq(Values)
  <2>1. ASSUME q.idx \in 0 .. Len(s) - 1
        PROVE  Splice(s, q.idx, q.idx + 1, q.elems) \in Seq(Values)
    <3>1. q.idx \in 0 .. Len(s) /\ q.idx + 1 \in Nat
      BY <1>1, <2>1
    <3> QED
      BY <1>3, <3>1, Zenon
  <2> QED
    BY <2>1 DEF Set
<1>6. AddAll(q, s).s \in Seq(Values)
  <2>1. s \o q.elems \in Seq(Values)
    BY ConcatProperties
  <2> QED
    BY <2>1 DEF AddAll
<1>7. InsertAll(q, s).s \in Seq(Values)
  <2>1. ASSUME q.idx \in 0 .. Len(s)
        PROVE  Splice(s, q.idx, q.idx, q.elems) \in Seq(Values)
    <3>1. q.idx \in Nat
      BY <1>1, <2>1
    <3> QED
      BY <1>3, <2>1, <3>1, Zenon
  <2> QED
    BY <2>1 DEF InsertAll
<1>8. RemoveAt(q, s).s \in Seq(Values)
  <2>1. ASSUME q.idx \in 0 .. Len(s) - 1
        PROVE  Splice(s, q.idx, q.idx + 1, <<>>) \in Seq(Values)
    <3>1. q.idx \in 0 .. Len(s) /\ q.idx + 1 \in Nat
      BY <1>1, <2>1
    <3> QED
      BY <1>2, <1>3, <3>1, Zenon
  <2> QED
    BY <2>1 DEF RemoveAt
<1>9. RemoveLast(q, s).s \in Seq(Values)
  <2>1. Seqs!Front(s) \in Seq(Values)
    BY <1>1, SubSeqProperties DEF Seqs!Front
  <2> QED
    BY <2>1 DEF RemoveLast
<1>10. /\ Get(q, s).s = s /\ LastElement(q, s).s = s /\ IndexOf(q, s).s = s
       /\ LastIndexOf(q, s).s = s /\ SubList(q, s).s = s /\ ToSlice(q, s).s = s
  BY DEF Get, LastElement, IndexOf, LastIndexOf, SubList, ToSlice
<1> QED
  BY <1>4, <1>5, <1>6, <1>7, <1>8, <1>9, <1>10 DEF Outcome

LEMMA OutcomesType ==
    ASSUME NEW q, q.idx \in Int, q.elems \in Seq(Values), NEW s \in Seq(Values),
           q.kind # "remove", NEW e \in Outcomes(q, s)
    PROVE  e.s \in Seq(Values)
<1>1. CASE q.kind = "removeFunc"
  <2>1. PICK t \in Kept(q, s) : e = Does(t, <<Len(s) - Len(t)>>)
    BY <1>1 DEF Outcomes, RemoveFunc
  <2> QED
    BY <2>1, KeptType, DoesFields
<1>2. CASE q.kind = "sort"
  <2>1. PICK t \in Reorderings(s) : e = Does(t, <<>>)
    BY <1>2 DEF Outcomes, Sort
  <2> QED
    BY <2>1, ReorderingType, DoesFields
<1>3. CASE q.kind \notin {"removeFunc", "sort"}
  <2>1. e = Outcome(q, s)
    BY <1>3 DEF Outcomes
  <2> QED
    BY <1>3, <2>1, OutcomeType
<1> QED
  BY <1>1, <1>2, <1>3

\* The calls that only look leave the slice as it is.
LEMMA QueriesKeep ==
    ASSUME NEW q, NEW s, q.kind \in Readers
    PROVE  Outcomes(q, s) = {Outcome(q, s)} /\ Outcome(q, s).s = s
<1>1. /\ Get(q, s).s = s /\ LastElement(q, s).s = s /\ IndexOf(q, s).s = s
      /\ LastIndexOf(q, s).s = s /\ SubList(q, s).s = s /\ ToSlice(q, s).s = s
  BY DoesFields DEF Get, LastElement, IndexOf, LastIndexOf, SubList, ToSlice
<1>2. Outcome(q, s).s = s
  BY <1>1 DEF Outcome, Readers
<1>3. Outcomes(q, s) = {Outcome(q, s)}
  BY DEF Outcomes, Readers
<1> QED
  BY <1>2, <1>3

LEMMA NothingToAdd ==
    ASSUME NEW q, NEW s \in Seq(Values), q.kind \in {"addAll", "insertAll"}, q.elems = <<>>
    PROVE  Outcomes(q, s) = {Outcome(q, s)} /\ Outcome(q, s) = Does(s, Outcome(q, <<>>).ret)
<1>1. AddAll(q, s) = Does(s, <<>>) /\ AddAll(q, <<>>).ret = <<>>
  BY ConcatEmptySeq, DoesFields DEF AddAll
<1>2. InsertAll(q, s) = Does(s, <<1>>) /\ InsertAll(q, <<>>).ret = <<1>>
  BY DoesFields DEF InsertAll
<1>3. Outcome(q, s) = Does(s, Outcome(q, <<>>).ret)
  BY <1>1, <1>2 DEF Outcome
<1>4. Outcomes(q, s) = {Outcome(q, s)}
  BY DEF Outcomes
<1> QED
  BY <1>3, <1>4
-----------------------------------------------------------------------------
(* Searches from the left and from the right.                              *)

LEMMA FirstHit ==
    ASSUME NEW q, NEW s, NEW i \in 0 .. Len(s) - 1, Len(s) \in Nat, s[i + 1] \in q.want,
           \A j \in 0 .. i - 1 : s[j + 1] \notin q.want
    PROVE  Hits(q, s) # {} /\ Least(Hits(q, s)) = i
<1>1. i \in Hits(q, s) /\ \A j \in Hits(q, s) : i <= j
  BY DEF Hits
<1>2. \A j \in Hits(q, s) : j \in Int
  BY DEF Hits
<1>3. \A k \in Hits(q, s) : (\A j \in Hits(q, s) : k <= j) => k = i
  BY <1>1, <1>2
<1> QED
  BY <1>1, <1>3 DEF Least

LEMMA LastHit ==
    ASSUME NEW q, NEW s, NEW i \in 0 .. Len(s) - 1, Len(s) \in Nat, s[i + 1] \in q.want,
           \A j \in i + 1 .. Len(s) - 1 : s[j + 1] \notin q.want
    PROVE  Hits(q, s) # {} /\ Greatest(Hits(q, s)) = i
<1>1. i \in Hits(q, s) /\ \A j \in Hits(q, s) : j <= i
  BY DEF Hits
<1>2. \A j \in Hits(q, s) : j \in Int
  BY DEF Hits
<1>3. \A k \in Hits(q, s) : (\A j \in Hits(q, s) : j <= k) => k = i
  BY <1>1, <1>2
<1> QED
  BY <1>1, <1>3 DEF Greatest

-----------------------------------------------------------------------------
(* A loop knows the elements it has passed.                                *)

Seeks(q) == q.kind \in {"remove", "indexOf", "lastIndexOf"}

\* Where the loop of q over s is at index i and has kept t.
Scanned(q, s, i, t) ==
    /\ q.kind \in Visitors
    /\ q.kind = "lastIndexOf" =>
         i \in -1 .. Len(s) - 1 /\ \A j \in i + 1 .. Len(s) - 1 : s[j + 1] \notin q.want
    /\ q.kind # "lastIndexOf" => i \in 0 .. Len(s)
    /\ q.kind \in {"remove", "indexOf"} => \A j \in 0 .. i - 1 : s[j + 1] \notin q.want
    /\ q.kind = "removeFunc" => Sifted(q, s, i, t)

LEMMA ScanStarts ==
    ASSUME NEW q, NEW s \in Seq(Values), q.kind \in Visitors
    PROVE  Scanned(q, s, IF q.kind = "lastIndexOf" THEN Len(s) - 1 ELSE 0, <<>>)
<1>1. Len(s) \in Nat
  BY LenProperties
<1>2. Sifted(q, s, 0, <<>>)
  BY SiftedNothing
<1> QED
  BY <1>1, <1>2 DEF Scanned

LEMMA ScanPasses ==
    ASSUME NEW q, NEW s \in Seq(Values), NEW i \in 0 .. Len(s) - 1, NEW t \in Seq(Values),
           Scanned(q, s, i, t), Seeks(q) => s[i + 1] \notin q.want
    PROVE  Scanned(q, s, IF q.kind = "lastIndexOf" THEN i - 1 ELSE i + 1,
                   IF q.kind = "removeFunc" /\ s[i + 1] \notin q.want
                   THEN Append(t, s[i + 1]) ELSE t)
<1>1. Len(s) \in Nat /\ i \in Nat /\ s[i + 1] \in Values
  BY ElementOfSeq, LenProperties
<1>2. CASE q.kind = "lastIndexOf"
  BY <1>1, <1>2 DEF Scanned, Seeks
<1>3. CASE q.kind \in {"remove", "indexOf"}
  BY <1>1, <1>3 DEF Scanned, Seeks
<1>4. CASE q.kind = "removeFunc"
  <2>1. Sifted(q, s, i, t)
    BY <1>4 DEF Scanned
  <2>2. CASE s[i + 1] \in q.want
    <3>1. Sifted(q, s, i + 1, t)
      BY <1>1, <2>1, <2>2, SiftedDrop
    <3> QED
      BY <1>1, <1>4, <2>2, <3>1 DEF Scanned
  <2>3. CASE s[i + 1] \notin q.want
    <3>1. Sifted(q, s, i + 1, Append(t, s[i + 1]))
      BY <1>1, <2>1, <2>3, SiftedKeep
    <3> QED
      BY <1>1, <1>4, <2>3, <3>1 DEF Scanned
  <2> QED
    BY <2>2, <2>3
<1> QED
  BY <1>2, <1>3, <1>4 DEF Scanned, Visitors

LEMMA ScanFinds ==
    ASSUME NEW q, NEW s \in Seq(Values), NEW i \in 0 .. Len(s) - 1, NEW t,
           Scanned(q, s, i, t), Seeks(q), s[i + 1] \in q.want
    PROVE  /\ q.kind = "remove" =>
                Does(Splice(s, i, i + 1, <<>>), <<1>>) \in Outcomes(q, s)
           /\ q.kind # "remove" => Outcome(q, s).ret = <<i>>
<1>1. Len(s) \in Nat
  BY LenProperties
<1>2. CASE q.kind = "lastIndexOf"
  <2>1. Hits(q, s) # {} /\ Greatest(Hits(q, s)) = i
    BY <1>1, <1>2, LastHit DEF Scanned
  <2> QED
    BY <1>2, <2>1, DoesFields DEF Outcome, LastIndexOf
<1>3. CASE q.kind # "lastIndexOf"
  <2>1. Hits(q, s) # {} /\ Least(Hits(q, s)) = i
    BY <1>1, <1>3, FirstHit DEF Scanned, Seeks
  <2>2. CASE q.kind = "indexOf"
    BY <2>1, <2>2, DoesFields DEF Outcome, IndexOf
  <2>3. CASE q.kind = "remove"
    <3>1. Outcome(q, s) = Remove(q, s) /\ Outcomes(q, s) = {Outcome(q, s)}
      BY <2>3 DEF Outcome, Outcomes
    <3>2. Remove(q, s) = Does(Splice(s, i, i + 1, <<>>), <<1>>)
      BY <2>1 DEF Remove
    <3> QED
      BY <2>3, <3>1, <3>2
  <2> QED
    BY <1>3, <2>2, <2>3 DEF Seeks
<1> QED
  BY <1>2, <1>3

LEMMA ScanEnds ==
    ASSUME NEW q, NEW s \in Seq(Values), NEW i, NEW t \in Seq(Values),
           Scanned(q, s, i, t), i \notin 0 .. Len(s) - 1
    PROVE  /\ q.kind \in {"indexOf", "lastIndexOf"} => Outcome(q, s).ret = <<>>
           /\ q.kind = "remove" => Does(s, <<>>) \in Outcomes(q, s)
           /\ q.kind = "removeFunc" =>
                /\ Does(t, <<Len(s) - Len(t)>>) \in Outcomes(q, s)
                /\ Len(t) >= Len(s) => Does(s, <<Len(s) - Len(t)>>) \in Outcomes(q, s)
<1>1. Len(s) \in Nat
  BY LenProperties
<1>2. CASE Seeks(q)
  <2>1. Hits(q, s) = {}
    <3>1. q.kind = "lastIndexOf" => i = -1 /\ \A j \in i + 1 .. Len(s) - 1 : s[j + 1] \notin q.want
      BY <1>1 DEF Scanned
    <3>2. q.kind \in {"remove", "indexOf"} => i = Len(s) /\ \A j \in 0 .. i - 1 : s[j + 1] \notin q.want
      BY <1>1 DEF Scanned
    <3> QED
      BY <1>1, <1>2, <3>1, <3>2 DEF Seeks, Hits
  <2>2. CASE q.kind # "remove"
    BY <1>2, <2>1, <2>2, DoesFields DEF Outcome, IndexOf, LastIndexOf, Seeks
  <2>3. CASE q.kind = "remove"
    <3>1. Outcome(q, s) = Remove(q, s) /\ Outcomes(q, s) = {Outcome(q, s)}
      BY <2>3 DEF Outcome, Outcomes
    <3> QED
      BY <2>1, <2>3, <3>1 DEF Remove
  <2> QED
    BY <2>2, <2>3
<1>3. CASE q.kind = "removeFunc"
  <2>1. i = Len(s) /\ Sifted(q, s, Len(s), t)
    BY <1>1, <1>3 DEF Scanned
  <2>2. Outcomes(q, s) = RemoveFunc(q, s) /\ Len(t) \in Nat
    BY <1>3, LenProperties DEF Outcomes
  <2> QED
    BY <1>1, <1>3, <2>1, <2>2, SiftedAll
<1> QED
  BY <1>2, <1>3 DEF Scanned, Visitors, Seeks

-----------------------------------------------------------------------------
(* What the list holds, and what is known of each goroutine.               *)

\* What a writer works on until it unlocks, and everybody sees otherwise.
Content == IF \E p \in Procs : Writing(p) THEN before ELSE data

\* RemoveFunc has read more than it has written.
Edited(p) ==
    /\ Len(data) = Len(Content)
    /\ req[p].kind # "removeFunc" => data = Content /\ n[p] = 0
    /\ req[p].kind = "removeFunc" =>
         n[p] \in 0 .. pos[p] /\ \A i \in pos[p] + 1 .. Len(data) : data[i] = Content[i]

\* The slice and the answer are those of the call, but for RemoveFunc's panic.
Ready(p) ==
    /\ \/ \E e \in EffectsOrPanic(req[p], Content) : e.s = data /\ e.ret = ret[p]
       \/ req[p].kind = "removeFunc" /\ "removeFunc" \in Panicking
    /\ req[p].kind = "toSlice" => snap[p] = ret[p]

Facts(p) ==
    /\ pc[p] # "idle" => req[p] \in Requests
    /\ pc[p] = "skip" => req[p].kind \in {"addAll", "insertAll"} /\ req[p].elems = <<>>
    /\ pc[p] = "body" => data = Content
    /\ pc[p] = "loop" =>
         Scanned(req[p], Content, pos[p], SubSeq(data, 1, n[p])) /\ Edited(p)
    /\ pc[p] = "unlock" => Ready(p)
    /\ pc[p] = "replay" => pos[p] \in 0 .. Len(snap[p]) /\ acc[p] = SubSeq(snap[p], 1, pos[p])

Types ==
    /\ data \in Seq(Values) /\ before \in Seq(Values)
    /\ snap \in [Procs -> Seq(Values)] /\ acc \in [Procs -> Seq(Values)]
    /\ pos \in [Procs -> Int] /\ n \in [Procs -> Nat] /\ DOMAIN ret = Procs

SInv == Types /\ \A p \in Procs : Facts(p)

\* A step of p leaves the others alone, and the slice if one of them is inside.
OthersKeep(p) ==
    /\ OthersStay(p)
    /\ \A q \in Procs \ {p} :
         /\ snap'[q] = snap[q] /\ pos'[q] = pos[q] /\ n'[q] = n[q]
         /\ acc'[q] = acc[q] /\ ret'[q] = ret[q]
    /\ (\E q \in Procs \ {p} : Inside(q)) => data' = data /\ Content' = Content

LEMMA OthersFacts ==
    ASSUME SInv, NEW p \in Procs, OthersKeep(p), NEW q \in Procs \ {p}
    PROVE  Facts(q)'
<1>1. /\ pc'[q] = pc[q] /\ req'[q] = req[q] /\ snap'[q] = snap[q] /\ pos'[q] = pos[q]
      /\ n'[q] = n[q] /\ acc'[q] = acc[q] /\ ret'[q] = ret[q]
  BY DEF OthersKeep, OthersStay
<1>2. Facts(q)
  BY DEF SInv
<1>3. CASE Inside(q)
  <2>1. data' = data /\ Content' = Content
    BY <1>3 DEF OthersKeep
  <2>2. (Edited(q)' <=> Edited(q)) /\ (Ready(q)' <=> Ready(q))
    BY <1>1, <2>1 DEF Edited, Ready
  <2> QED
    BY <1>1, <1>2, <2>1, <2>2 DEF Facts
<1>4. CASE ~Inside(q)
  BY <1>1, <1>2, <1>4 DEF Facts, Inside
<1> QED
  BY <1>3, <1>4

LEMMA SInvFrom ==
    ASSUME SInv, NEW p \in Procs, Types', OthersKeep(p), Facts(p)'
    PROVE  SInv'
<1>1. \A q \in Procs : Facts(q)'
  BY OthersFacts
<1> QED
  BY <1>1 DEF SInv

LEMMA SInvInit == Init => SInv
<1> SUFFICES ASSUME Init PROVE SInv
  OBVIOUS
<1>1. <<>> \in Seq(Values) /\ Start \in Seq(Values)
  BY StartAssumption
<1>2. Types
  BY <1>1 DEF Init, Types
<1> QED
  BY <1>2 DEF Init, SInv, Facts

\* Who is inside sees the list, a writer as it found it.
LEMMA WriterContent ==
    ASSUME IInv, NEW p \in Procs, Writing(p)
    PROVE  Content = before /\ \A q \in Procs \ {p} : ~Inside(q)
<1>1. mu.readers = {} /\ mu.writer = p
  BY DEF IInv, LockHeld, ReadersAreOut
<1>2. ASSUME NEW q \in Procs \ {p}, Inside(q) PROVE FALSE
  BY <1>1, <1>2 DEF IInv, LockHeld
<1> QED
  BY <1>2 DEF Content

LEMMA ReaderContent ==
    ASSUME IInv, NEW p \in Procs, Inside(p), ~Writing(p)
    PROVE  Content = data /\ \A q \in Procs : ~Writing(q)
<1>1. \A q \in Procs : ~Writing(q)
  BY WriterContent
<1> QED
  BY <1>1 DEF Content

\* The content does not change while the writers stay the same.
LEMMA SameContent ==
    ASSUME NEW p \in Procs, OthersStay(p), Writing(p)' <=> Writing(p),
           before' = before, data' = data \/ Writing(p)
    PROVE  Content' = Content
<1>1. \A q \in Procs : Writing(q)' <=> Writing(q)
  BY OthersInside
<1> QED
  BY <1>1 DEF Content

LEMMA ContentType == SInv => Content \in Seq(Values)
BY DEF SInv, Types, Content

-----------------------------------------------------------------------------
(* The steps, one by one.                                                  *)

\* So that an assignment to a variable of p's shows.
LEMMA Assigned ==
    ASSUME IInv, SInv, NEW p \in Procs
    PROVE  /\ p \in DOMAIN pc /\ p \in DOMAIN req /\ p \in DOMAIN snap /\ p \in DOMAIN pos
           /\ p \in DOMAIN n /\ p \in DOMAIN acc /\ p \in DOMAIN ret
BY DEF IInv, Shapes, SInv, Types

LEMMA Updated ==
    ASSUME NEW S, NEW f \in [Procs -> S], NEW p \in Procs, NEW x \in S, NEW g,
           g = f \/ g = [f EXCEPT ![p] = x]
    PROVE  g \in [Procs -> S] /\ \A q \in Procs \ {p} : g[q] = f[q]
OBVIOUS

\* A step of p changes no variables but its own, and the slice.
Edits(p) ==
    /\ data' \in Seq(Values) /\ before' \in Seq(Values)
    /\ pc' = pc \/ \E l : pc' = [pc EXCEPT ![p] = l]
    /\ req' = req \/ \E q : req' = [req EXCEPT ![p] = q]
    /\ snap' = snap \/ \E s \in Seq(Values) : snap' = [snap EXCEPT ![p] = s]
    /\ pos' = pos \/ \E i \in Int : pos' = [pos EXCEPT ![p] = i]
    /\ n' = n \/ \E i \in Nat : n' = [n EXCEPT ![p] = i]
    /\ acc' = acc \/ \E t \in Seq(Values) : acc' = [acc EXCEPT ![p] = t]
    /\ ret' = ret \/ \E r : ret' = [ret EXCEPT ![p] = r]

LEMMA EditsKeep ==
    ASSUME IInv, SInv, NEW p \in Procs, Edits(p)
    PROVE  /\ Types' /\ OthersStay(p)
           /\ ((\E q \in Procs \ {p} : Inside(q)) => data' = data /\ Content' = Content)
              => OthersKeep(p)
<1>t. Types
  BY DEF SInv
<1>1. OthersStay(p)
  BY DEF IInv, Shapes, Edits, OthersStay
<1>2. snap' \in [Procs -> Seq(Values)] /\ \A q \in Procs \ {p} : snap'[q] = snap[q]
  BY <1>t, Updated, ZenonT(60) DEF Types, Edits
<1>3. acc' \in [Procs -> Seq(Values)] /\ \A q \in Procs \ {p} : acc'[q] = acc[q]
  BY <1>t, Updated, ZenonT(60) DEF Types, Edits
<1>4. pos' \in [Procs -> Int] /\ \A q \in Procs \ {p} : pos'[q] = pos[q]
  BY <1>t, Updated, SMTT(60) DEF Types, Edits
<1>5. n' \in [Procs -> Nat] /\ \A q \in Procs \ {p} : n'[q] = n[q]
  BY <1>t, Updated, ZenonT(60) DEF Types, Edits
<1>6. DOMAIN ret' = Procs /\ \A q \in Procs \ {p} : ret'[q] = ret[q]
  BY <1>t DEF Types, Edits
<1>7. Types'
  BY <1>2, <1>3, <1>4, <1>5, <1>6 DEF Types, Edits
<1> QED
  BY <1>1, <1>2, <1>3, <1>4, <1>5, <1>6, <1>7 DEF OthersKeep

LEMMA SeenTypes ==
    ASSUME SInv, NEW p \in Procs
    PROVE  /\ data \in Seq(Values) /\ before \in Seq(Values) /\ Content \in Seq(Values)
           /\ snap[p] \in Seq(Values) /\ acc[p] \in Seq(Values) /\ <<>> \in Seq(Values)
           /\ Len(data) \in Nat /\ Len(Content) \in Nat /\ Len(snap[p]) \in Nat
           /\ pos[p] \in Int /\ n[p] \in Nat
BY ContentType, LenProperties, EmptySeq DEF SInv, Types

\* Where p neither was nor is inside.
LEMMA OutsideStep ==
    ASSUME IInv, SInv, NEW p \in Procs, Edits(p), UNCHANGED <<data, before>>,
           ~Inside(p), ~Inside(p)', Facts(p)'
    PROVE  SInv' /\ OthersKeep(p) /\ Content' = Content
<1>1. OthersStay(p) /\ Types'
  BY EditsKeep
<1>2. Content' = Content
  BY <1>1, SameContent DEF Writing
<1>3. OthersKeep(p)
  BY <1>2, EditsKeep
<1> QED
  BY <1>1, <1>2, <1>3, SInvFrom

\* Where p stays inside and only a writer changes the slice.
LEMMA InsideStep ==
    ASSUME IInv, SInv, NEW p \in Procs, Edits(p), before' = before, req' = req,
           Inside(p), Inside(p)', data' = data \/ req[p].kind \notin Readers
    PROVE  /\ OthersKeep(p) /\ Content' = Content
           /\ Facts(p)' => SInv'
<1>1. OthersStay(p) /\ Types'
  BY EditsKeep
<1>2. Writing(p)' <=> Writing(p)
  BY DEF Writing
<1>3. data' = data \/ Writing(p)
  BY DEF Writing
<1>4. Content' = Content
  BY <1>1, <1>2, <1>3, SameContent
<1>5. OthersKeep(p)
  BY <1>3, <1>4, WriterContent, EditsKeep
<1> QED
  BY <1>1, <1>4, <1>5, SInvFrom

LEMMA CallKnows ==
    ASSUME IInv, SInv, NEW p \in Procs, Call(p)
    PROVE  SInv' /\ OthersKeep(p) /\ Content' = Content
<1>1. PICK q \in todo[p] :
        /\ req' = [req EXCEPT ![p] = q]
        /\ Goto(p, IF q.kind \in {"addAll", "insertAll"} /\ q.elems = <<>> THEN "skip"
                   ELSE IF q.kind \in Readers THEN "rlock" ELSE "lock")
  BY DEF Call
<1>2. pc[p] = "idle" /\ UNCHANGED <<data, before, snap, pos, n, acc, ret>>
  BY DEF Call, shared, local
<1>3. PICK l \in {"skip", "rlock", "lock"} :
        /\ pc' = [pc EXCEPT ![p] = l]
        /\ l = "skip" => q.kind \in {"addAll", "insertAll"} /\ q.elems = <<>>
  BY <1>1 DEF Goto
<1>4. q \in Requests
  BY DEF IInv, Shapes
<1>5. Edits(p)
  BY <1>1, <1>2, <1>3 DEF Edits, SInv, Types
<1>6. pc'[p] = l /\ req'[p] = q
  BY <1>1, <1>3, Assigned
<1>7. Facts(p)' /\ ~Inside(p) /\ ~Inside(p)'
  BY <1>2, <1>3, <1>4, <1>6 DEF Facts, Inside
<1> QED
  BY <1>2, <1>5, <1>7, OutsideStep

LEMMA OutsideKnows ==
    ASSUME IInv, SInv, NEW p \in Procs, Skip(p) \/ Lock(p) \/ Return(p)
    PROVE  SInv' /\ OthersKeep(p) /\ Content' = Content
<1>1. /\ pc[p] \in {"skip", "lock", "return"} /\ UNCHANGED <<data, before, snap, pos, n, acc>>
      /\ ret' = ret \/ \E r : ret' = [ret EXCEPT ![p] = r]
      /\ \/ req' = req /\ \E l \in {"return", "drain"} : pc' = [pc EXCEPT ![p] = l]
         \/ req' = [req EXCEPT ![p] = none] /\ pc' = [pc EXCEPT ![p] = "idle"]
  BY DEF Skip, Lock, Return, Goto, shared, local
<1>2. Edits(p)
  BY <1>1 DEF Edits, SInv, Types
<1>3. pc'[p] \in {"return", "drain", "idle"} /\ (pc'[p] # "idle" => req' = req)
  BY <1>1, Assigned
<1>4. Facts(p)' /\ ~Inside(p) /\ ~Inside(p)'
  BY <1>1, <1>3 DEF SInv, Facts, Inside
<1> QED
  BY <1>1, <1>2, <1>4, OutsideStep

LEMMA RLockKnows ==
    ASSUME IInv, SInv, NEW p \in Procs, RLock(p)
    PROVE  SInv' /\ OthersKeep(p) /\ Content' = Content
<1>1. /\ pc[p] = "rlock" /\ UNCHANGED <<data, before, req, snap, pos, n, acc, ret>>
      /\ pc' = [pc EXCEPT ![p] = "body"] /\ mu.writer = none
  BY DEF RLock, Goto, local, MayRLock
<1>2. Edits(p)
  BY <1>1 DEF Edits, SInv, Types
<1>3. pc'[p] = "body" /\ req[p].kind \in Readers /\ req[p] \in Requests
  BY <1>1, Assigned DEF IInv, RightLock, SInv, Facts
<1>4. ~Writing(p) /\ ~Writing(p)'
  BY <1>1, <1>3 DEF Writing
<1>5. OthersStay(p) /\ Types'
  BY <1>2, EditsKeep
<1>6. Content' = Content
  BY <1>1, <1>4, <1>5, SameContent
<1>7. OthersKeep(p)
  BY <1>1, <1>2, <1>6, EditsKeep
<1>8. Content = data
  <2>1. \A q \in Procs : ~Writing(q)
    BY <1>1 DEF IInv, LockHeld
  <2> QED
    BY <2>1 DEF Content
<1>9. Facts(p)'
  BY <1>1, <1>3, <1>6, <1>8 DEF Facts
<1> QED
  BY <1>5, <1>6, <1>7, <1>9, SInvFrom

LEMMA DrainKnows ==
    ASSUME IInv, SInv, NEW p \in Procs, Drain(p)
    PROVE  SInv' /\ OthersKeep(p) /\ Content' = Content
<1>1. /\ pc[p] = "drain" /\ UNCHANGED <<data, req, snap, pos, n, acc, ret>>
      /\ before' = data /\ pc' = [pc EXCEPT ![p] = "body"]
      /\ mu.writer = p /\ mu.readers = {}
  BY DEF Drain, Goto, shared, local, Granted
<1>2. Edits(p)
  BY <1>1 DEF Edits, SInv, Types
<1>3. pc'[p] = "body" /\ req[p].kind \notin Readers /\ req[p] \in Requests
  <2>1. pc'[p] = "body"
    BY <1>1, Assigned
  <2>2. req[p].kind \notin Readers
    BY <1>1 DEF IInv, RightLock
  <2>3. req[p] \in Requests
    BY <1>1 DEF SInv, Facts
  <2> QED
    BY <2>1, <2>2, <2>3
<1>4. ASSUME NEW q \in Procs, Inside(q) PROVE FALSE
  <2>1. Writing(q) /\ q = p
    BY <1>1, <1>4 DEF IInv, LockHeld
  <2> QED
    BY <1>1, <1>4, <2>1 DEF Inside
<1>5. OthersStay(p) /\ Types'
  BY <1>2, EditsKeep
<1>6. Content = data
  BY <1>4 DEF Content, Writing
<1>7. Content' = data
  <2>1. Writing(p)'
    BY <1>1, <1>3 DEF Writing, Inside
  <2> QED
    BY <1>1, <2>1 DEF Content
<1>8. OthersKeep(p)
  BY <1>2, <1>4, EditsKeep
<1>9. Facts(p)'
  BY <1>1, <1>3, <1>7 DEF Facts
<1> QED
  BY <1>5, <1>6, <1>7, <1>8, <1>9, SInvFrom

\* What Call to Drain have made sure of when p is in its critical section.
LEMMA InsideTypes ==
    ASSUME SInv, NEW p \in Procs, Inside(p)
    PROVE  /\ req[p] \in Requests /\ req[p].idx \in Int /\ req[p].elems \in Seq(Values)
           /\ \A e \in Outcomes(req[p], Content) : e \in EffectsOrPanic(req[p], Content)
<1>1. req[p] \in Requests
  BY DEF SInv, Facts, Inside
<1> QED
  BY <1>1 DEF Requests, EffectsOrPanic

LEMMA BodyKnows ==
    ASSUME IInv, SInv, NEW p \in Procs, Body(p)
    PROVE  SInv' /\ OthersKeep(p) /\ Content' = Content
<1> DEFINE q == req[p]
<1>1. /\ pc[p] = "body" /\ q.kind \notin Visitors /\ pc' = [pc EXCEPT ![p] = "unlock"]
      /\ UNCHANGED <<before, req, pos, n, acc>>
  BY DEF Body, Goto
<1>2. PICK done \in Outcomes(q, data) :
        /\ data' = done.s
        /\ snap' = [snap EXCEPT ![p] = IF q.kind = "toSlice" THEN data ELSE <<>>]
        /\ ret' = [ret EXCEPT ![p] = done.ret]
  BY DEF Body
<1>3. Inside(p) /\ data = Content
  BY <1>1 DEF Inside, SInv, Facts
<1>4. data' \in Seq(Values)
  BY <1>1, <1>2, <1>3, InsideTypes, SeenTypes, OutcomesType DEF Visitors
<1>5. q.kind \in Readers => done = Outcome(q, data) /\ data' = data
  BY <1>2, QueriesKeep
<1>6. Edits(p)
  <2>1. \E s \in Seq(Values) : snap' = [snap EXCEPT ![p] = s]
    BY <1>2, SeenTypes
  <2> QED
    BY <1>1, <1>2, <1>4, <2>1, SeenTypes DEF Edits
<1>7. /\ pc'[p] = "unlock" /\ ret'[p] = done.ret
      /\ snap'[p] = IF q.kind = "toSlice" THEN data ELSE <<>>
  BY <1>1, <1>2, Assigned
<1>8. Inside(p)' /\ req' = req /\ before' = before
  BY <1>1, <1>7 DEF Inside
<1>9. OthersKeep(p) /\ Content' = Content /\ (Facts(p)' => SInv')
  BY <1>3, <1>5, <1>6, <1>8, InsideStep
<1>10. Ready(p)'
  <2>1. done \in EffectsOrPanic(q, Content)'
    BY <1>3, <1>8, <1>9, InsideTypes DEF EffectsOrPanic
  <2>2. q.kind = "toSlice" => done.ret = data
    BY <1>5, DoesFields DEF Readers, Outcome, ToSlice
  <2> QED
    BY <1>2, <1>7, <1>8, <2>1, <2>2 DEF Ready
<1>11. Facts(p)'
  BY <1>3, <1>7, <1>8, <1>10, InsideTypes DEF Facts
<1> QED
  BY <1>9, <1>11

LEMMA SortPanicsKnows ==
    ASSUME IInv, SInv, NEW p \in Procs, SortPanics(p)
    PROVE  SInv' /\ OthersKeep(p) /\ Content' = Content
<1>1. /\ pc[p] = "body" /\ req[p].kind = "sort" /\ "sort" \in Panicking
      /\ pc' = [pc EXCEPT ![p] = "unlock"] /\ UNCHANGED <<before, req, snap, pos, n, acc>>
      /\ data' \in Reorderings(data) /\ ret' = [ret EXCEPT ![p] = <<none>>]
  BY DEF SortPanics, Goto, local
<1>2. Inside(p) /\ data = Content
  BY <1>1 DEF Inside, SInv, Facts
<1>3. Edits(p)
  BY <1>1, SeenTypes, ReorderingType DEF Edits
<1>4. pc'[p] = "unlock" /\ ret'[p] = <<none>>
  BY <1>1, Assigned
<1>5. Inside(p)' /\ req' = req /\ before' = before
  BY <1>1, <1>4 DEF Inside
<1>6. OthersKeep(p) /\ Content' = Content /\ (Facts(p)' => SInv')
  BY <1>1, <1>2, <1>3, <1>5, InsideStep DEF Readers
<1>7. Does(data', <<none>>) \in EffectsOrPanic(req[p], Content)
  BY <1>1, <1>2 DEF EffectsOrPanic
<1>8. Ready(p)'
  BY <1>1, <1>4, <1>6, <1>7, DoesFields DEF Ready, EffectsOrPanic
<1>9. Facts(p)'
  BY <1>2, <1>4, <1>5, <1>8, InsideTypes DEF Facts
<1> QED
  BY <1>6, <1>9

LEMMA EnterKnows ==
    ASSUME IInv, SInv, NEW p \in Procs, Enter(p)
    PROVE  SInv' /\ OthersKeep(p) /\ Content' = Content
<1> DEFINE i == IF req[p].kind = "lastIndexOf" THEN Len(data) - 1 ELSE 0
<1>1. /\ pc[p] = "body" /\ req[p].kind \in Visitors /\ pc' = [pc EXCEPT ![p] = "loop"]
      /\ UNCHANGED <<data, before, req, snap, acc, ret>>
      /\ pos' = [pos EXCEPT ![p] = i] /\ n' = [n EXCEPT ![p] = 0]
  BY DEF Enter, Goto, shared
<1>2. Inside(p) /\ data = Content
  BY <1>1 DEF Inside, SInv, Facts
<1>3. i \in Int
  BY SeenTypes
<1>4. Scanned(req[p], data, i, <<>>)
  BY <1>1, SeenTypes, ScanStarts
<1>5. req[p].kind = "removeFunc" => i = 0
  OBVIOUS
<1> HIDE DEF i
<1>6. Edits(p)
  BY <1>1, <1>3, SeenTypes DEF Edits
<1>7. pc'[p] = "loop" /\ pos'[p] = i /\ n'[p] = 0
  BY <1>1, Assigned
<1>8. Inside(p)' /\ req' = req /\ before' = before /\ data' = data
  BY <1>1, <1>7 DEF Inside
<1>9. OthersKeep(p) /\ Content' = Content /\ (Facts(p)' => SInv')
  BY <1>2, <1>6, <1>8, InsideStep
<1>10. SubSeq(data, 1, 0) = <<>>
  BY SeenTypes, SubSeqProperties, EmptySeq
<1>11. Edited(p)'
  BY <1>2, <1>5, <1>7, <1>8, <1>9 DEF Edited
<1>12. Facts(p)'
  BY <1>2, <1>4, <1>7, <1>8, <1>9, <1>10, <1>11, InsideTypes DEF Facts
<1> QED
  BY <1>9, <1>12

\* What p knows in its loop, and where its callback is asked.
LEMMA LoopFacts ==
    ASSUME SInv, NEW p \in Procs, pc[p] = "loop"
    PROVE  /\ Inside(p) /\ Edited(p) /\ Scanned(req[p], Content, pos[p], SubSeq(data, 1, n[p]))
           /\ SubSeq(data, 1, n[p]) \in Seq(Values) /\ Len(SubSeq(data, 1, n[p])) = n[p]
           /\ Len(data) = Len(Content) /\ (req[p].kind # "removeFunc" => data = Content)
           /\ InRange(p) => /\ pos[p] \in 0 .. Len(Content) - 1
                            /\ data[pos[p] + 1] = Content[pos[p] + 1]
<1>1. Inside(p) /\ Edited(p) /\ Scanned(req[p], Content, pos[p], SubSeq(data, 1, n[p]))
  BY DEF SInv, Facts, Inside
<1>2. n[p] \in 0 .. Len(data)
  BY <1>1, SeenTypes DEF Edited, Scanned
<1>3. SubSeq(data, 1, n[p]) \in Seq(Values) /\ Len(SubSeq(data, 1, n[p])) = n[p]
  <2>1. \A i \in 1 .. n[p] : data[i] \in Values
    BY <1>2, ElementOfSeq, SeenTypes
  <2> QED
    BY <1>2, <2>1, SeenTypes, SubSeqProperties
<1>4. ASSUME InRange(p)
      PROVE  pos[p] \in 0 .. Len(Content) - 1 /\ data[pos[p] + 1] = Content[pos[p] + 1]
  <2>1. pos[p] \in 0 .. Len(Content) - 1 /\ pos[p] + 1 \in pos[p] + 1 .. Len(data)
    BY <1>1, <1>4, SeenTypes DEF InRange, Edited
  <2>2. \/ data = Content
        \/ \A i \in pos[p] + 1 .. Len(data) : data[i] = Content[i]
    BY <1>1 DEF Edited
  <2> QED
    BY <2>1, <2>2
<1> QED
  BY <1>1, <1>3, <1>4 DEF Edited

\* RemoveFunc keeps an element: what it has written grows by it.
LEMMA Written ==
    ASSUME NEW s \in Seq(Values), NEW m \in Nat, NEW i \in m .. Len(s) - 1,
           NEW t \in Seq(Values), Len(t) = Len(s), t[m + 1] = s[i + 1],
           \A j \in 1 .. Len(s) : j # m + 1 => t[j] = s[j]
    PROVE  /\ SubSeq(t, 1, m + 1) = Append(SubSeq(s, 1, m), s[i + 1])
           /\ \A j \in i + 2 .. Len(s) : t[j] = s[j]
<1>1. Len(s) \in Nat /\ s[i + 1] \in Values /\ m + 1 \in 1 .. Len(s)
  BY ElementOfSeq, LenProperties
<1> DEFINE u == SubSeq(s, 1, m)
           v == SubSeq(t, 1, m + 1)
<1>4. /\ u \in Seq(Values) /\ Len(u) = m /\ \A j \in 1 .. m : u[j] = s[j]
  <2>1. \A j \in 1 .. m : s[j] \in Values
    BY <1>1, ElementOfSeq
  <2> QED
    BY <1>1, <2>1, SubSeqProperties
<1>5. /\ v \in Seq(Values) /\ Len(v) = m + 1 /\ \A j \in 1 .. m + 1 : v[j] = t[j]
  <2>1. \A j \in 1 .. m + 1 : t[j] \in Values
    BY <1>1, ElementOfSeq
  <2> QED
    BY <1>1, <2>1, SubSeqProperties
<1>6. v = Append(u, s[i + 1])
  <2> HIDE DEF u, v
  <2>1. /\ Append(u, s[i + 1]) \in Seq(Values) /\ Len(Append(u, s[i + 1])) = m + 1
        /\ \A j \in 1 .. m : Append(u, s[i + 1])[j] = u[j]
        /\ Append(u, s[i + 1])[m + 1] = s[i + 1]
    BY <1>1, <1>4, AppendProperties
  <2>2. \A j \in 1 .. m + 1 : Append(u, s[i + 1])[j] = v[j]
    BY <1>1, <1>4, <1>5, <2>1, SMTT(60)
  <2> QED
    BY <1>5, <2>1, <2>2, SeqEqual
<1> QED
  BY <1>1, <1>6, SMTT(60)

LEMMA PassKnows ==
    ASSUME IInv, SInv, NEW p \in Procs, Pass(p)
    PROVE  SInv' /\ OthersKeep(p) /\ Content' = Content
<1> DEFINE q == req[p]
           s == Content
           i == IF q.kind = "lastIndexOf" THEN pos[p] - 1 ELSE pos[p] + 1
           keeps == q.kind = "removeFunc" /\ s[pos[p] + 1] \notin q.want
           m == IF keeps THEN n[p] + 1 ELSE n[p]
<1>1. /\ UNCHANGED <<before, pc, req, snap, acc, ret>> /\ pc[p] = "loop"
      /\ InRange(p) /\ pos' = [pos EXCEPT ![p] = i]
  BY DEF Pass
<1>2. /\ Inside(p) /\ Edited(p) /\ Scanned(q, s, pos[p], SubSeq(data, 1, n[p]))
      /\ SubSeq(data, 1, n[p]) \in Seq(Values) /\ Len(data) = Len(s)
      /\ q.kind # "removeFunc" => data = s
      /\ pos[p] \in 0 .. Len(s) - 1 /\ data[pos[p] + 1] = s[pos[p] + 1]
  BY <1>1, LoopFacts
<1>3. Seeks(q) => s[pos[p] + 1] \notin q.want
  BY <1>2 DEF Pass, Hit, Seeks
<1>4. IF keeps THEN data' = [data EXCEPT ![n[p] + 1] = data[pos[p] + 1]]
                    /\ n' = [n EXCEPT ![p] = @ + 1]
      ELSE UNCHANGED <<data, n>>
  BY <1>2 DEF Pass, Hit
<1>5. Scanned(q, s, i, IF keeps THEN Append(SubSeq(data, 1, n[p]), s[pos[p] + 1])
                       ELSE SubSeq(data, 1, n[p]))
  BY <1>2, <1>3, SeenTypes, ScanPasses
<1>6. ASSUME keeps
      PROVE  /\ data' \in Seq(Values) /\ Len(data') = Len(data) /\ n[p] \in 0 .. pos[p]
             /\ SubSeq(data', 1, n[p] + 1) = Append(SubSeq(data, 1, n[p]), s[pos[p] + 1])
             /\ \A j \in pos[p] + 2 .. Len(data) : data'[j] = data[j]
  <2>1. n[p] \in 0 .. pos[p]
    BY <1>2, <1>6 DEF Edited
  <2>2. data' = [data EXCEPT ![n[p] + 1] = data[pos[p] + 1]] /\ pos[p] \in n[p] .. Len(data) - 1
    BY <1>2, <1>4, <1>6, <2>1, SeenTypes
  <2>3. data \in Seq(Values) /\ n[p] \in Nat /\ n[p] + 1 \in 1 .. Len(data) /\ data[pos[p] + 1] \in Values
    BY <2>2, SeenTypes, ElementOfSeq, SMTT(60)
  <2>4. /\ data' \in Seq(Values) /\ Len(data') = Len(data) /\ data'[n[p] + 1] = data[pos[p] + 1]
        /\ \A j \in 1 .. Len(data) : j # n[p] + 1 => data'[j] = data[j]
    BY <2>2, <2>3, ExceptSeq
  <2>5. /\ SubSeq(data', 1, n[p] + 1) = Append(SubSeq(data, 1, n[p]), data[pos[p] + 1])
        /\ \A j \in pos[p] + 2 .. Len(data) : data'[j] = data[j]
    BY <2>2, <2>3, <2>4, Written, SMTT(60)
  <2> QED
    BY <1>2, <2>1, <2>4, <2>5
<1>7. i \in Int /\ m \in Nat
  BY SeenTypes, SMTT(60)
<1>8. pos'[p] = i /\ n'[p] = m
  BY <1>1, <1>4, Assigned
<1>9. Scanned(q, s, i, SubSeq(data', 1, m))
  BY <1>4, <1>5, <1>6
<1>10. Edits(p)
  <2>1. data' \in Seq(Values)
    BY <1>4, <1>6, SeenTypes
  <2>2. n' = n \/ n' = [n EXCEPT ![p] = m]
    BY <1>4
  <2> HIDE DEF keeps, i, m
  <2> QED
    BY <1>1, <1>7, <2>1, <2>2, SeenTypes DEF Edits
<1>11. data' = data \/ q.kind \notin Readers
  BY <1>4 DEF Readers
<1>12. OthersKeep(p) /\ Content' = Content /\ (Facts(p)' => SInv') /\ Inside(p)'
  <2>1. Inside(p)' /\ req' = req /\ before' = before
    BY <1>1, <1>2 DEF Inside
  <2> QED
    BY <1>2, <1>10, <1>11, <2>1, InsideStep
<1>13. Edited(p)'
  <2>1. q.kind # "removeFunc" => data' = s /\ m = 0
    BY <1>2, <1>4 DEF Edited
  <2>2. ASSUME q.kind = "removeFunc" PROVE m \in 0 .. i /\ i = pos[p] + 1
    <3>1. n[p] \in 0 .. pos[p] /\ i = pos[p] + 1
      BY <1>2, <2>2 DEF Edited
    <3> QED
      BY <1>2, <3>1, SeenTypes, SMTT(60)
  <2>3. ASSUME q.kind = "removeFunc", NEW j \in pos[p] + 2 .. Len(data) PROVE data'[j] = s[j]
    <3>1. data'[j] = data[j] /\ j \in pos[p] + 1 .. Len(data)
      BY <1>4, <1>6, <2>3, SeenTypes, SMTT(60)
    <3> QED
      BY <2>3, <3>1, <1>2 DEF Edited
  <2>4. Len(data') = Len(s)
    BY <1>2, <1>4, <1>6
  <2> HIDE DEF keeps, i, m
  <2> QED
    BY <1>1, <1>2, <1>8, <1>12, <2>1, <2>2, <2>3, <2>4, SeenTypes DEF Edited
<1>14. Facts(p)'
  <2> HIDE DEF keeps, i, m
  <2> QED
    BY <1>1, <1>2, <1>8, <1>9, <1>12, <1>13, InsideTypes DEF Facts
<1> QED
  BY <1>12, <1>14

LEMMA FindKnows ==
    ASSUME IInv, SInv, NEW p \in Procs, Find(p)
    PROVE  SInv' /\ OthersKeep(p) /\ Content' = Content
<1> DEFINE q == req[p]
           s == Content
           t == Splice(s, pos[p], pos[p] + 1, <<>>)
           r == IF q.kind = "remove" THEN <<1>> ELSE <<pos[p]>>
<1>1. /\ pc[p] = "loop" /\ InRange(p) /\ q.kind # "removeFunc" /\ Hit(p)
      /\ pc' = [pc EXCEPT ![p] = "unlock"] /\ UNCHANGED <<before, req, snap, pos, n, acc>>
      /\ ret' = [ret EXCEPT ![p] = r]
  BY DEF Find, Goto, local
<1>2. /\ Inside(p) /\ data = s /\ Scanned(q, s, pos[p], SubSeq(data, 1, n[p]))
      /\ pos[p] \in 0 .. Len(s) - 1
  BY <1>1, LoopFacts
<1>3. Seeks(q) /\ s[pos[p] + 1] \in q.want
  BY <1>1, <1>2 DEF Scanned, Visitors, Seeks, Hit
<1>4. IF q.kind = "remove" THEN data' = t ELSE data' = data
  BY <1>1, <1>2 DEF Find
<1>5. t \in Seq(Values)
  <2>1. pos[p] \in 0 .. Len(s) /\ pos[p] + 1 \in Nat /\ s \in Seq(Values) /\ <<>> \in Seq(Values)
    BY <1>2, SeenTypes
  <2> QED
    BY <2>1, SpliceType
<1>6. /\ q.kind = "remove" => Does(t, <<1>>) \in Outcomes(q, s)
      /\ q.kind # "remove" => Outcome(q, s).ret = <<pos[p]>>
  BY <1>2, <1>3, SeenTypes, ScanFinds
<1>7. \E e \in Outcomes(q, s) : e.s = data' /\ e.ret = r
  <2>1. CASE q.kind = "remove"
    BY <1>4, <1>6, <2>1, DoesFields
  <2>2. CASE q.kind # "remove"
    <3>1. Outcomes(q, s) = {Outcome(q, s)} /\ Outcome(q, s).s = s
      BY <1>3, <2>2, QueriesKeep DEF Seeks, Readers
    <3> QED
      BY <1>2, <1>4, <1>6, <2>2, <3>1
  <2> QED
    BY <2>1, <2>2
<1> HIDE DEF t, r
<1>8. Edits(p)
  BY <1>1, <1>4, <1>5, SeenTypes DEF Edits
<1>9. pc'[p] = "unlock" /\ ret'[p] = r /\ req' = req /\ before' = before
  BY <1>1, Assigned
<1>10. Inside(p)' /\ (data' = data \/ q.kind \notin Readers)
  BY <1>4, <1>9 DEF Inside, Readers
<1>11. OthersKeep(p) /\ Content' = s /\ (Facts(p)' => SInv')
  BY <1>2, <1>8, <1>9, <1>10, InsideStep
<1>12. Ready(p)'
  <2>1. q.kind # "toSlice"
    BY <1>3 DEF Seeks
  <2>2. \E e \in EffectsOrPanic(q, s)' : e.s = data' /\ e.ret = r
    BY <1>7, <1>9, <1>11 DEF EffectsOrPanic
  <2> QED
    BY <1>9, <2>1, <2>2 DEF Ready
<1>13. Facts(p)'
  BY <1>2, <1>9, <1>12, InsideTypes DEF Facts
<1> QED
  BY <1>11, <1>13

LEMMA FinishKnows ==
    ASSUME IInv, SInv, NEW p \in Procs, Finish(p)
    PROVE  SInv' /\ OthersKeep(p) /\ Content' = Content
<1> DEFINE q == req[p]
           s == Content
           t == SubSeq(data, 1, n[p])
           r == IF q.kind = "removeFunc" THEN <<Len(s) - Len(t)>> ELSE <<>>
<1>1. /\ pc[p] = "loop" /\ ~InRange(p)
      /\ pc' = [pc EXCEPT ![p] = "unlock"] /\ UNCHANGED <<before, req, snap, pos, n, acc>>
  BY DEF Finish, Goto, local
<1>2. /\ Inside(p) /\ Scanned(q, s, pos[p], t) /\ t \in Seq(Values) /\ Len(t) = n[p]
      /\ Len(data) = Len(s) /\ (q.kind # "removeFunc" => data = s)
  BY <1>1, LoopFacts
<1>3. ret' = [ret EXCEPT ![p] = r]
  BY <1>2 DEF Finish
<1>4. IF q.kind = "removeFunc" THEN data' = t ELSE data' = data
  BY DEF Finish
<1>5. /\ q.kind \in {"indexOf", "lastIndexOf"} => Outcome(q, s).ret = <<>>
      /\ q.kind = "remove" => Does(s, <<>>) \in Outcomes(q, s)
      /\ q.kind = "removeFunc" => Does(t, <<Len(s) - Len(t)>>) \in Outcomes(q, s)
  <2>1. pos[p] \notin 0 .. Len(s) - 1
    BY <1>1, <1>2 DEF InRange
  <2> HIDE DEF t
  <2> QED
    BY <1>2, <2>1, SeenTypes, ScanEnds
<1>6. q.kind \in {"remove", "removeFunc", "indexOf", "lastIndexOf"}
  BY <1>2 DEF Scanned, Visitors
<1>7. \E e \in Outcomes(q, s) : e.s = data' /\ e.ret = r
  <2>1. CASE q.kind = "remove"
    BY <1>2, <1>4, <1>5, <2>1, DoesFields
  <2>2. CASE q.kind = "removeFunc"
    <3>1. data' = t /\ r = <<Len(s) - Len(t)>> /\ Does(t, r) \in Outcomes(q, s)
      BY <1>4, <1>5, <2>2
    <3> HIDE DEF t, r
    <3> QED
      BY <3>1, DoesFields
  <2>3. CASE q.kind \in {"indexOf", "lastIndexOf"}
    <3>1. Outcomes(q, s) = {Outcome(q, s)} /\ Outcome(q, s).s = s
      BY <2>3, QueriesKeep DEF Readers
    <3> QED
      BY <1>2, <1>4, <1>5, <2>3, <3>1
  <2> QED
    BY <1>6, <2>1, <2>2, <2>3
<1> HIDE DEF t, r
<1>8. Edits(p)
  BY <1>1, <1>2, <1>3, <1>4, SeenTypes DEF Edits
<1>9. pc'[p] = "unlock" /\ ret'[p] = r /\ req' = req /\ before' = before
  BY <1>1, <1>3, Assigned
<1>10. Inside(p)' /\ (data' = data \/ q.kind \notin Readers)
  BY <1>4, <1>9 DEF Inside, Readers
<1>11. OthersKeep(p) /\ Content' = s /\ (Facts(p)' => SInv')
  BY <1>2, <1>8, <1>9, <1>10, InsideStep
<1>12. Ready(p)'
  <2>1. q.kind # "toSlice"
    BY <1>6
  <2>2. \E e \in EffectsOrPanic(q, s)' : e.s = data' /\ e.ret = r
    BY <1>7, <1>9, <1>11 DEF EffectsOrPanic
  <2> QED
    BY <1>9, <2>1, <2>2 DEF Ready
<1>13. Facts(p)'
  BY <1>2, <1>9, <1>12, InsideTypes DEF Facts
<1> QED
  BY <1>11, <1>13

LEMMA PanicKnows ==
    ASSUME IInv, SInv, NEW p \in Procs, Panic(p)
    PROVE  SInv' /\ OthersKeep(p) /\ Content' = Content
<1>1. /\ pc[p] = "loop" /\ req[p].kind \in Panicking
      /\ pc' = [pc EXCEPT ![p] = "unlock"] /\ ret' = [ret EXCEPT ![p] = <<none>>]
      /\ UNCHANGED <<data, before, req, snap, pos, n, acc>>
  BY DEF Panic, Goto, local, shared
<1>2. Inside(p) /\ (req[p].kind # "removeFunc" => data = Content) /\ req[p].kind \in Visitors
  BY <1>1, LoopFacts DEF Scanned
<1>3. Edits(p)
  BY <1>1, SeenTypes DEF Edits
<1>4. pc'[p] = "unlock" /\ ret'[p] = <<none>>
  BY <1>1, Assigned
<1>5. Inside(p)' /\ req' = req /\ before' = before /\ data' = data
  BY <1>1, <1>4 DEF Inside
<1>6. OthersKeep(p) /\ Content' = Content /\ (Facts(p)' => SInv')
  BY <1>2, <1>3, <1>5, InsideStep
<1>7. Does(Content, <<none>>) \in EffectsOrPanic(req[p], Content) /\ req[p].kind # "toSlice"
  BY <1>1, <1>2 DEF EffectsOrPanic, Visitors
<1>8. Ready(p)'
  <2>1. CASE req[p].kind = "removeFunc"
    BY <1>1, <1>5, <2>1 DEF Ready
  <2>2. CASE req[p].kind # "removeFunc"
    <3>1. Does(Content, <<none>>) \in EffectsOrPanic(req[p], Content)'
      BY <1>5, <1>6, <1>7 DEF EffectsOrPanic
    <3> QED
      BY <1>2, <1>4, <1>5, <1>7, <2>2, <3>1, DoesFields DEF Ready
  <2> QED
    BY <2>1, <2>2
<1>9. Facts(p)'
  BY <1>2, <1>4, <1>5, <1>8, InsideTypes DEF Facts
<1> QED
  BY <1>6, <1>9

\* A writer that leaves shows what it has made of the list, a reader nothing.
LEMMA UnlockKnows ==
    ASSUME IInv, SInv, NEW p \in Procs, Unlock(p)
    PROVE  SInv' /\ OthersKeep(p) /\ Content' = data /\ (~Writing(p) => Content = data)
<1> DEFINE l == IF req[p].kind = "toSlice" THEN "replay" ELSE "return"
<1>1. /\ pc[p] = "unlock" /\ UNCHANGED <<data, before, req, snap, n, ret>>
      /\ pos' = [pos EXCEPT ![p] = 0] /\ acc' = [acc EXCEPT ![p] = <<>>]
      /\ pc' = [pc EXCEPT ![p] = l]
  BY DEF Unlock, Goto
<1>2. Inside(p)
  BY <1>1 DEF Inside
<1>3. Edits(p)
  <2> HIDE DEF l
  <2>1. 0 \in Int /\ <<>> \in Seq(Values) /\ data' \in Seq(Values) /\ before' \in Seq(Values)
    BY <1>1, SeenTypes
  <2> QED
    BY <1>1, <2>1, Zenon DEF Edits
<1>4. pc'[p] = l /\ pos'[p] = 0 /\ acc'[p] = <<>>
  BY <1>1, Assigned
<1>5. ~Inside(p)' /\ ~Writing(p)'
  BY <1>4 DEF Inside, Writing
<1>6. OthersStay(p) /\ Types'
  BY <1>3, EditsKeep
<1>7. \A q \in Procs \ {p} : ~Writing(q)
  BY <1>2, WriterContent, ReaderContent
<1>8. Content' = data
  <2>1. \A q \in Procs : ~Writing(q)'
    BY <1>5, <1>6, <1>7, OthersInside
  <2> QED
    BY <1>1, <2>1 DEF Content
<1>9. ~Writing(p) => Content = data
  BY <1>2, ReaderContent
<1>10. OthersKeep(p)
  BY <1>1, <1>3, <1>8, <1>9, WriterContent, EditsKeep
<1>11. Facts(p)'
  <2>1. SubSeq(snap[p], 1, 0) = <<>>
    BY SeenTypes, SubSeqProperties, EmptySeq
  <2>2. req[p] \in Requests
    BY <1>2, InsideTypes
  <2> QED
    BY <1>1, <1>4, <2>1, <2>2, SeenTypes DEF Facts
<1> QED
  BY <1>6, <1>8, <1>9, <1>10, <1>11, SInvFrom

LEMMA ReplayKnows ==
    ASSUME IInv, SInv, NEW p \in Procs, Replay(p)
    PROVE  SInv' /\ OthersKeep(p) /\ Content' = Content
<1>1. pc[p] = "replay" /\ UNCHANGED <<data, before, req, snap, n>>
  BY DEF Replay, shared
<1>2. pos[p] \in 0 .. Len(snap[p]) /\ acc[p] = SubSeq(snap[p], 1, pos[p]) /\ req[p] \in Requests
  BY <1>1 DEF SInv, Facts
<1>3. CASE pos[p] < Len(snap[p])
  <2> DEFINE t == Append(acc[p], snap[p][pos[p] + 1])
  <2>1. /\ acc' = [acc EXCEPT ![p] = t] /\ pos' = [pos EXCEPT ![p] = pos[p] + 1]
        /\ UNCHANGED <<pc, ret>>
    BY <1>3 DEF Replay
  <2>2. pos[p] + 1 \in 1 .. Len(snap[p]) /\ snap[p][pos[p] + 1] \in Values
    BY <1>2, <1>3, SeenTypes, ElementOfSeq, SMTT(60)
  <2>3. t \in Seq(Values)
    BY <2>2, SeenTypes, AppendProperties
  <2>4. t = SubSeq(snap[p], 1, pos[p] + 1)
    BY <1>2, <2>2, SeenTypes, SubSeqRecursiveSecond, SMTT(60)
  <2> HIDE DEF t
  <2>5. Edits(p)
    <3>1. pos[p] + 1 \in Int /\ data' \in Seq(Values) /\ before' \in Seq(Values)
      BY <1>1, SeenTypes
    <3> QED
      BY <1>1, <2>1, <2>3, <3>1, Zenon DEF Edits
  <2>6. acc'[p] = t /\ pos'[p] = pos[p] + 1
    BY <2>1, Assigned
  <2>7. Facts(p)' /\ ~Inside(p) /\ ~Inside(p)'
    BY <1>1, <1>2, <2>1, <2>2, <2>4, <2>6 DEF Facts, Inside
  <2> QED
    BY <1>1, <2>5, <2>7, OutsideStep
<1>4. CASE ~(pos[p] < Len(snap[p]))
  <2>1. /\ pc' = [pc EXCEPT ![p] = "return"] /\ ret' = [ret EXCEPT ![p] = acc[p]]
        /\ UNCHANGED <<pos, acc>>
    BY <1>4 DEF Replay, Goto
  <2>2. Edits(p)
    BY <1>1, <2>1, SeenTypes DEF Edits
  <2>3. pc'[p] = "return"
    BY <2>1, Assigned
  <2>4. Facts(p)' /\ ~Inside(p) /\ ~Inside(p)'
    BY <1>1, <1>2, <2>3 DEF Facts, Inside
  <2> QED
    BY <1>1, <2>2, <2>4, OutsideStep
<1> QED
  BY <1>3, <1>4

LEMMA StepIsLocal ==
    ASSUME IInv, SInv, NEW p \in Procs, Call(p) \/ Step(p) \/ Panic(p) \/ SortPanics(p)
    PROVE  SInv' /\ OthersKeep(p) /\ (~Unlock(p) => Content' = Content)
BY CallKnows, OutsideKnows, RLockKnows, DrainKnows, BodyKnows, EnterKnows, PassKnows,
   FindKnows, FinishKnows, UnlockKnows, ReplayKnows, PanicKnows, SortPanicsKnows DEF Step

LEMMA StepKnows == IInv /\ SInv /\ [Next]_vars => SInv'
<1> SUFFICES ASSUME IInv, SInv, [Next]_vars PROVE SInv'
  OBVIOUS
<1>1. CASE UNCHANGED vars \/ Terminated
  <2>1. UNCHANGED vars
    BY <1>1 DEF Terminated
  <2>2. Content' = Content
    BY <2>1 DEF vars, shared, Content, Writing, Inside
  <2>3. \A p \in Procs : (Edited(p)' <=> Edited(p)) /\ (Ready(p)' <=> Ready(p))
    BY <2>1, <2>2 DEF vars, shared, local, Edited, Ready
  <2> QED
    BY <2>1, <2>2, <2>3 DEF vars, shared, local, SInv, Types, Facts
<1>2. ASSUME NEW p \in Procs, Call(p) \/ Step(p) \/ Panic(p) \/ SortPanics(p) PROVE SInv'
  BY <1>2, StepIsLocal
<1> QED
  BY <1>1, <1>2 DEF Next

LEMMA Knowledge == Spec => [](IInv /\ SInv)
<1>1. Init => IInv /\ SInv
  BY InitInvariant, SInvInit
<1>2. IInv /\ SInv /\ [Next]_vars => (IInv /\ SInv)'
  BY StepInvariant, StepKnows
<1> QED
  BY <1>1, <1>2, PTL DEF Spec

(***************************************************************************)
(* The loops under the lock (synclist.go:208-309) stay inside the *)
(* slice, and RemoveFunc, which moves elements within the slice it reads,  *)
(* never writes beyond the element it reads.                               *)
(***************************************************************************)
THEOREM SyncListTypes == Spec => []TypeOK
<1>1. IInv /\ SInv => TypeOK
  <2> SUFFICES ASSUME IInv, SInv PROVE TypeOK
    OBVIOUS
  <2>1. ASSUME NEW p \in Procs, pc[p] = "loop"
        PROVE  pos[p] \in -1 .. Len(data) /\ n[p] \in 0 .. pos[p] + 1
    <3>1. Scanned(req[p], Content, pos[p], SubSeq(data, 1, n[p])) /\ Edited(p)
      BY <2>1, LoopFacts
    <3>2. pos[p] \in -1 .. Len(data)
      BY <3>1, SeenTypes DEF Scanned, Edited
    <3>3. n[p] \in 0 .. pos[p] + 1
      BY <3>1, <3>2, SeenTypes DEF Edited
    <3> QED
      BY <3>2, <3>3
  <2> QED
    BY <2>1 DEF IInv, Shapes, SInv, Types, TypeOK
<1> QED
  BY Knowledge, <1>1, PTL

-----------------------------------------------------------------------------
(* Every step is a step of the atomic object, or none.                     *)

Moment(p) == IF pc[p] = "idle" THEN "idle"
             ELSE IF pc[p] \in {"replay", "return"} THEN "closed" ELSE "open"
Found(p) == IF pc[p] = "replay" THEN snap[p] ELSE IF pc[p] = "return" THEN ret[p] ELSE none
Stage == [p \in Procs |-> Moment(p)]
Answered == [p \in Procs |-> Found(p)]

LEMMA AtomicVars == Atomic!vars = <<Content, Stage, req, Answered>>
BY DEF Atomic!vars, Content, Stage, Moment, Answered, Found

LEMMA OthersUnmoved ==
    ASSUME NEW p \in Procs, OthersKeep(p), NEW q \in Procs \ {p}
    PROVE  Stage'[q] = Stage[q] /\ req'[q] = req[q] /\ Answered'[q] = Answered[q]
<1>1. Moment(q)' = Moment(q) /\ Found(q)' = Found(q) /\ req'[q] = req[q]
  BY DEF OthersKeep, OthersStay, Moment, Found
<1> QED
  BY <1>1 DEF Stage, Answered

LEMMA Stutter ==
    ASSUME NEW p \in Procs, OthersKeep(p), Content' = Content, req' = req,
           Moment(p)' = Moment(p), Found(p)' = Found(p)
    PROVE  UNCHANGED Atomic!vars
<1>1. \A q \in Procs : Stage'[q] = Stage[q] /\ Answered'[q] = Answered[q]
  BY OthersUnmoved DEF Stage, Answered
<1>2. Stage' = Stage /\ Answered' = Answered
  BY <1>1 DEF Stage, Answered
<1> QED
  BY <1>2 DEF Atomic!vars, Content, Stage, Moment, Answered, Found

LEMMA Effected ==
    ASSUME NEW p \in Procs, OthersKeep(p), req' = req,
           Moment(p) = "open", Moment(p)' = "closed",
           NEW e \in EffectsOrPanic(req[p], Content), Content' = e.s, Found(p)' = e.ret
    PROVE  Atomic!TakeEffect(p)
<1>1. Stage[p] = "open" /\ Stage'[p] = "closed" /\ Answered'[p] = e.ret
  BY DEF Stage, Answered
<1>2. Stage' = [Stage EXCEPT ![p] = "closed"]
  BY <1>1, OthersUnmoved DEF Stage
<1>3. Answered' = [Answered EXCEPT ![p] = e.ret]
  BY <1>1, OthersUnmoved DEF Answered
<1> QED
  BY <1>1, <1>2, <1>3 DEF Atomic!TakeEffect, Content, Stage, Moment, Answered, Found

LEMMA InitIsAtomic == Init => Atomic!Init
<1> SUFFICES ASSUME Init PROVE Atomic!Init
  OBVIOUS
<1>1. \A p \in Procs : pc[p] = "idle" /\ ~Writing(p)
  BY DEF Init, Writing, Inside
<1> QED
  BY <1>1 DEF Init, Atomic!Init

LEMMA InvokedByCall == ASSUME IInv, SInv, NEW p \in Procs, Call(p) PROVE Atomic!Invoke(p)
<1>1. OthersKeep(p) /\ Content' = Content
  BY CallKnows
<1>2. PICK q \in todo[p], l \in {"skip", "rlock", "lock"} :
        /\ req' = [req EXCEPT ![p] = q]
        /\ pc' = [pc EXCEPT ![p] = l]
  BY DEF Call, Goto
<1>3. q \in Requests /\ pc[p] = "idle" /\ pc'[p] = l /\ req'[p] = q
  BY <1>2, Assigned DEF IInv, Shapes, Call
<1>4. Stage[p] = "idle" /\ Stage'[p] = "open" /\ Answered'[p] = Answered[p]
  BY <1>3 DEF Stage, Moment, Answered, Found
<1>5. Stage' = [Stage EXCEPT ![p] = "open"]
  BY <1>1, <1>4, OthersUnmoved DEF Stage
<1>6. Answered' = Answered
  BY <1>1, <1>4, OthersUnmoved DEF Answered
<1> QED
  BY <1>1, <1>2, <1>3, <1>4, <1>5, <1>6
     DEF Atomic!Invoke, Content, Stage, Moment, Answered, Found

LEMMA ReturnedByReturn == ASSUME IInv, SInv, NEW p \in Procs, Return(p) PROVE Atomic!Return(p)
<1>1. OthersKeep(p) /\ Content' = Content
  BY OutsideKnows
<1>2. /\ pc[p] = "return" /\ pc' = [pc EXCEPT ![p] = "idle"]
      /\ req' = [req EXCEPT ![p] = none]
  BY DEF Return, Goto
<1>3. pc'[p] = "idle"
  BY <1>2, Assigned
<1>4. Stage[p] = "closed" /\ Stage'[p] = "idle" /\ Answered'[p] = none
  BY <1>2, <1>3 DEF Stage, Moment, Answered, Found
<1>5. Stage' = [Stage EXCEPT ![p] = "idle"]
  BY <1>1, <1>4, OthersUnmoved DEF Stage
<1>6. Answered' = [Answered EXCEPT ![p] = none]
  BY <1>1, <1>4, OthersUnmoved DEF Answered
<1> QED
  BY <1>1, <1>2, <1>4, <1>5, <1>6
     DEF Atomic!Return, Content, Stage, Moment, Answered, Found

LEMMA EffectedBySkip == ASSUME IInv, SInv, NEW p \in Procs, Skip(p) PROVE Atomic!TakeEffect(p)
<1>1. OthersKeep(p) /\ Content' = Content
  BY OutsideKnows
<1>2. /\ pc[p] = "skip" /\ req' = req
      /\ ret' = [ret EXCEPT ![p] = Outcome(req[p], <<>>).ret]
      /\ pc' = [pc EXCEPT ![p] = "return"]
  BY DEF Skip, Goto
<1>3. pc'[p] = "return" /\ ret'[p] = Outcome(req[p], <<>>).ret
  BY <1>2, Assigned
<1>4. /\ Moment(p) = "open" /\ Moment(p)' = "closed"
      /\ Found(p)' = Outcome(req[p], <<>>).ret
  BY <1>2, <1>3 DEF Moment, Found
<1>5. Does(Content, Outcome(req[p], <<>>).ret) \in EffectsOrPanic(req[p], Content)
  <2>1. req[p].kind \in {"addAll", "insertAll"} /\ req[p].elems = <<>>
    BY <1>2 DEF SInv, Facts
  <2> QED
    BY <2>1, SeenTypes, NothingToAdd DEF EffectsOrPanic
<1> QED
  BY <1>1, <1>2, <1>4, <1>5, DoesFields, Effected

\* What the critical section has made ready becomes the effect of the call.
LEMMA EffectedByUnlock ==
    ASSUME "removeFunc" \notin Panicking, IInv, SInv, NEW p \in Procs, Unlock(p)
    PROVE  Atomic!TakeEffect(p)
<1>1. OthersKeep(p) /\ Content' = data
  BY UnlockKnows
<1>2. /\ pc[p] = "unlock" /\ UNCHANGED <<req, snap, ret>>
      /\ pc' = [pc EXCEPT ![p] = IF req[p].kind = "toSlice" THEN "replay" ELSE "return"]
  BY DEF Unlock, Goto
<1>3. pc'[p] = IF req[p].kind = "toSlice" THEN "replay" ELSE "return"
  BY <1>2, Assigned
<1>4. Ready(p)
  BY <1>2 DEF SInv, Facts
<1>5. PICK e \in EffectsOrPanic(req[p], Content) : e.s = data /\ e.ret = ret[p]
  BY <1>4 DEF Ready
<1>6. Moment(p) = "open" /\ Moment(p)' = "closed" /\ Found(p)' = ret[p]
  BY <1>2, <1>3, <1>4 DEF Moment, Found, Ready
<1> QED
  BY <1>1, <1>2, <1>5, <1>6, Effected

\* The steps up to the unlock: nothing of the call shows yet.
LEMMA OpenStutters ==
    ASSUME IInv, SInv, NEW p \in Procs,
           \/ RLock(p) \/ Lock(p) \/ Drain(p) \/ Body(p) \/ SortPanics(p) \/ Enter(p)
           \/ Pass(p) \/ Find(p) \/ Finish(p) \/ Panic(p)
    PROVE  UNCHANGED Atomic!vars
<1>1. OthersKeep(p) /\ Content' = Content
  BY RLockKnows, OutsideKnows, DrainKnows, BodyKnows, SortPanicsKnows, EnterKnows, PassKnows,
     FindKnows, FinishKnows, PanicKnows
<1>2. /\ pc[p] \in {"rlock", "lock", "drain", "body", "loop"} /\ req' = req
      /\ \/ pc' = pc
         \/ \E l \in {"drain", "body", "loop", "unlock"} : pc' = [pc EXCEPT ![p] = l]
  BY DEF RLock, Lock, Drain, Body, SortPanics, Enter, Pass, Find, Finish, Panic, Goto
<1>3. pc'[p] \in {"rlock", "lock", "drain", "body", "loop", "unlock"}
  BY <1>2, Assigned
<1>4. Moment(p) = "open" /\ Moment(p)' = "open" /\ Found(p)' = Found(p)
  BY <1>2, <1>3 DEF Moment, Found
<1> QED
  BY <1>1, <1>2, <1>4, Stutter

\* An iteration replays the moment of its answer to the end.
LEMMA ReplayStutters ==
    ASSUME IInv, SInv, NEW p \in Procs, Replay(p)
    PROVE  UNCHANGED Atomic!vars
<1>1. OthersKeep(p) /\ Content' = Content
  BY ReplayKnows
<1>2. /\ pc[p] = "replay" /\ UNCHANGED <<req, snap>>
      /\ pos[p] \in 0 .. Len(snap[p]) /\ acc[p] = SubSeq(snap[p], 1, pos[p])
  BY DEF Replay, SInv, Facts
<1>3. CASE pos[p] < Len(snap[p])
  <2>1. pc' = pc
    BY <1>3 DEF Replay
  <2>2. Moment(p)' = Moment(p) /\ Found(p)' = Found(p)
    BY <1>2, <2>1 DEF Moment, Found
  <2> QED
    BY <1>1, <1>2, <2>2, Stutter
<1>4. CASE ~(pos[p] < Len(snap[p]))
  <2>1. pc' = [pc EXCEPT ![p] = "return"] /\ ret' = [ret EXCEPT ![p] = acc[p]]
    BY <1>4 DEF Replay, Goto
  <2>2. pc'[p] = "return" /\ ret'[p] = acc[p]
    BY <2>1, Assigned
  <2>3. acc[p] = snap[p]
    BY <1>2, <1>4, SeenTypes, SubSeqFull
  <2>4. Moment(p)' = Moment(p) /\ Found(p)' = Found(p)
    BY <1>2, <2>2, <2>3 DEF Moment, Found
  <2> QED
    BY <1>1, <1>2, <2>4, Stutter
<1> QED
  BY <1>3, <1>4

LEMMA StepIsAtomic ==
    ASSUME "removeFunc" \notin Panicking, IInv, SInv, [Next]_vars
    PROVE  [Atomic!Next]_Atomic!vars
<1>1. CASE UNCHANGED vars \/ Terminated
  BY <1>1 DEF vars, shared, local, Terminated, Atomic!vars, Writing, Inside
<1>2. ASSUME NEW p \in Procs, Call(p) \/ Step(p) \/ Panic(p) \/ SortPanics(p)
      PROVE  \/ Atomic!Invoke(p) \/ Atomic!TakeEffect(p) \/ Atomic!Return(p)
             \/ UNCHANGED Atomic!vars
  BY <1>2, InvokedByCall, EffectedBySkip, OpenStutters, EffectedByUnlock, ReplayStutters,
     ReturnedByReturn DEF Step
<1>3. ASSUME NEW p \in Procs, Call(p) \/ Step(p) \/ Panic(p) \/ SortPanics(p)
      PROVE  Atomic!Next \/ UNCHANGED Atomic!vars
  BY <1>2, <1>3 DEF Atomic!Next
<1> QED
  BY <1>1, <1>3 DEF Next

(***************************************************************************)
(* "Every method call is atomic" (README, synclist.go:19), for any number  *)
(* of goroutines and calls: what a method does under the lock, one element *)
(* at a time and with callbacks in between, becomes visible when it        *)
(* unlocks, all of it, and the answer is the one for the slice it found;   *)
(* an iteration replays that slice.  Callbacks may panic, but for that of  *)
(* RemoveFunc, whose panic leaves a slice that no call leaves (sync_panic).*)
(***************************************************************************)
THEOREM SyncListIsAtomic ==
    ASSUME "removeFunc" \notin Panicking
    PROVE  Spec => EveryCallIsAtomic
<1>1. Init => Atomic!Init
  BY InitIsAtomic
<1>2. IInv /\ SInv /\ [Next]_vars => [Atomic!Next]_Atomic!vars
  BY StepIsAtomic
<1> QED
  BY <1>1, <1>2, Knowledge, PTL DEF Spec, EveryCallIsAtomic, Atomic!Spec
=============================================================================
