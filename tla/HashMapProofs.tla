--------------------------- MODULE HashMapProofs ---------------------------
(***************************************************************************)
(* The proof that the operations of concurrentHashMap are atomic, for any  *)
(* number of goroutines, keys, buckets, calls and callbacks, however the   *)
(* callbacks end, and that the methods made of many of them are thorough.  *)
(*                                                                         *)
(* What a callback was asked about is still so when it has answered        *)
(* (CallbackHolds): whoever writes to its key needs the lock of the key's  *)
(* bucket, and that one is held (LockHeld).                                *)
(***************************************************************************)
EXTENDS HashMapScans, FiniteSetTheorems, FunctionTheorems, SequenceTheorems, TLAPS

USE KeyAssumption, ValueAssumption, ProcAssumption, StartAssumption, MenuAssumption

Points == {q \in Requests : q.kind \in Guarded \cup Plain}
\* The operations bulk methods are lists of.
Chores == {q \in Requests : q.kind \in {"put", "remove", "clear"}}

-----------------------------------------------------------------------------
(* What one operation leaves behind.                                       *)

LEMMA DoesFields == \A s, r : Does(s, r).s = s /\ Does(s, r).ret = r
BY DEF Does

LEMMA PointUpdate ==
    ASSUME NEW s \in Contents, NEW k, NEW v \in Values \cup {none}
    PROVE  [s EXCEPT ![k] = v] \in Contents
BY DEF Contents

\* The content after an operation on the key of q.
Changed(q, s) ==
    {s} \cup {[s EXCEPT ![q.key] = v] : v \in {q.val, none, q.fn[none], q.fn[s[q.key]]}}

LEMMA PointOutcome ==
    ASSUME NEW q \in Points, NEW s, q.kind # "clear"
    PROVE  Outcome(q, s).s \in Changed(q, s)
<1> DEFINE To(v) == [s EXCEPT ![q.key] = v]
<1>c. /\ s \in Changed(q, s) /\ To(q.val) \in Changed(q, s) /\ To(none) \in Changed(q, s)
      /\ To(q.fn[none]) \in Changed(q, s) /\ To(q.fn[s[q.key]]) \in Changed(q, s)
  BY DEF Changed
<1> USE <1>c, DoesFields
<1>1. CASE q.kind = "put"
  BY <1>1 DEF Outcome, Put
<1>2. CASE q.kind = "putIfAbsent"
  <2>1. Outcome(q, s) = PutIfAbsent(q, s)
    BY <1>2 DEF Outcome
  <2> QED
    BY <2>1 DEF PutIfAbsent
<1>3. CASE q.kind = "get"
  BY <1>3 DEF Outcome, Get
<1>4. CASE q.kind = "remove"
  <2>1. Outcome(q, s) = Remove(q, s)
    BY <1>4 DEF Outcome
  <2> QED
    BY <2>1 DEF Remove
<1>5. CASE q.kind = "removeIf"
  <2>1. Outcome(q, s) = RemoveIf(q, s)
    BY <1>5 DEF Outcome
  <2> QED
    BY <2>1 DEF RemoveIf
<1>6. CASE q.kind = "compute"
  <2>1. Outcome(q, s) = Compute(q, s)
    BY <1>6 DEF Outcome
  <2> QED
    BY <2>1 DEF Compute
<1>7. CASE q.kind = "computeIfAbsent"
  <2>1. Outcome(q, s) = ComputeIfAbsent(q, s)
    BY <1>7 DEF Outcome
  <2> QED
    BY <2>1 DEF ComputeIfAbsent
<1>8. CASE q.kind = "computeIfPresent"
  <2>1. Outcome(q, s) = ComputeIfPresent(q, s)
    BY <1>8 DEF Outcome
  <2> QED
    BY <2>1 DEF ComputeIfPresent, Compute
<1>9. CASE q.kind = "merge"
  <2>1. Outcome(q, s) = Merge(q, s)
    BY <1>9 DEF Outcome
  <2> QED
    BY <2>1 DEF Merge, Compute
<1>10. CASE q.kind = "replace"
  <2>1. Outcome(q, s) = Replace(q, s)
    BY <1>10 DEF Outcome
  <2> QED
    BY <2>1 DEF Replace, Put
<1>11. CASE q.kind = "replaceIf"
  <2>1. Outcome(q, s) = ReplaceIf(q, s)
    BY <1>11 DEF Outcome
  <2> QED
    BY <2>1 DEF ReplaceIf
<1> QED
  BY <1>1, <1>2, <1>3, <1>4, <1>5, <1>6, <1>7, <1>8, <1>9, <1>10, <1>11
     DEF Points, Guarded, Plain

LEMMA OutcomeType ==
    ASSUME NEW q \in Points, NEW s \in Contents
    PROVE  Outcome(q, s).s \in Contents
<1>1. CASE q.kind = "clear"
  <2>1. Outcome(q, s) = Clear(q, s)
    BY <1>1 DEF Outcome
  <2>2. Outcome(q, s).s = [k \in DOMAIN s |-> none]
    BY <2>1, DoesFields DEF Clear
  <2> QED
    BY <2>2 DEF Contents
<1>2. CASE q.kind # "clear"
  <2>1. /\ q.val \in Values /\ q.key \in Keys
        /\ q.fn \in [Values \cup {none} -> Values \cup {none}]
    BY DEF Points, Requests
  <2>2. s[q.key] \in Values \cup {none}
    BY <2>1 DEF Contents
  <2>3. q.fn[none] \in Values \cup {none} /\ q.fn[s[q.key]] \in Values \cup {none}
    BY <2>1, <2>2
  <2>4. \A v \in {q.val, none, q.fn[none], q.fn[s[q.key]]} : [s EXCEPT ![q.key] = v] \in Contents
    BY <2>1, <2>3, PointUpdate
  <2>5. Changed(q, s) \subseteq Contents
    BY <2>4 DEF Changed
  <2> QED
    BY <1>2, <2>5, PointOutcome
<1> QED
  BY <1>1, <1>2

\* A point operation leaves the other keys alone, a Load all of them.
LEMMA OthersUntouched ==
    ASSUME NEW q \in Points, NEW s \in Contents, q.kind # "clear", NEW k \in Keys, k # q.key
    PROVE  Outcome(q, s).s[k] = s[k]
<1>1. \A t \in Changed(q, s) : t[k] = s[k]
  BY DEF Changed, Contents
<1> QED
  BY <1>1, PointOutcome

LEMMA GetChangesNothing ==
    ASSUME NEW q, NEW s, q.kind = "get"
    PROVE  Outcome(q, s).s = s
BY DoesFields DEF Outcome, Get

-----------------------------------------------------------------------------
(* What a bulk method has planned.                                         *)

LEMMA Rekind ==
    ASSUME NEW q \in Requests, NEW k \in Kinds, NEW j \in Keys
    PROVE  /\ [q EXCEPT !.kind = k] \in Requests /\ [q EXCEPT !.kind = k].kind = k
           /\ [q EXCEPT !.kind = k, !.key = j] \in Requests
           /\ [q EXCEPT !.kind = k, !.key = j].kind = k
           /\ [q EXCEPT !.kind = k, !.key = j].key = j
           /\ [q EXCEPT !.kind = k, !.key = j].fn = q.fn
           /\ [q EXCEPT !.kind = k, !.key = j].old = q.old
BY DEF Requests

\* A list of removals names every key to remove.
LEMMA RemovesType ==
    ASSUME NEW q \in Requests, NEW K \in SUBSET Keys, NEW l \in Removes(q, K)
    PROVE  /\ l \in Seq(Chores)
           /\ \A i \in DOMAIN l : l[i].kind = "remove"
           /\ \A k \in K : \E i \in DOMAIN l : l[i].key = k
<1>1. PICK s \in Seqs!SetToSeqs(K) :
        l = [i \in DOMAIN s |-> [q EXCEPT !.kind = "remove", !.key = s[i]]]
  BY DEF Removes
<1> DEFINE n == Cardinality(K)
<1>2. IsFiniteSet(K) /\ n \in Nat
  BY FS_Subset, FS_CardinalityType
<1>3. s \in [1 .. n -> K] /\ \A i, j \in 1 .. n : i # j => s[i] # s[j]
  <2>1. Seqs!Cardinality(K) = n
    BY DEF Seqs!Cardinality, Cardinality, Seqs!IsFiniteSet, IsFiniteSet
  <2> HIDE DEF n
  <2> QED
    BY <2>1 DEF Seqs!SetToSeqs
<1>4. s \in Injection(1 .. n, K)
  BY <1>3, Fun_IsInj
<1>5. IsFiniteSet(1 .. n) /\ Cardinality(1 .. n) = n
  BY <1>2, FS_Interval
<1>6. s \in Surjection(1 .. n, K)
  BY <1>2, <1>4, <1>5, FS_Injection
<1>7. \A k \in K : \E i \in 1 .. n : s[i] = k
  BY <1>6 DEF Surjection
<1>8. \A i \in 1 .. n : /\ [q EXCEPT !.kind = "remove", !.key = s[i]] \in Chores
                        /\ l[i].kind = "remove" /\ l[i].key = s[i]
  <2> TAKE i \in 1 .. n
  <2>1. s[i] \in Keys /\ i \in DOMAIN s
    BY <1>3
  <2> DEFINE r == [q EXCEPT !.kind = "remove", !.key = s[i]]
  <2>k. "remove" \in Kinds
    BY DEF Kinds, Plain
  <2>2. r \in Requests /\ r.kind = "remove" /\ r.key = s[i]
    BY <2>1, <2>k DEF Requests
  <2>3. l[i] = r
    BY <1>1, <2>1
  <2> HIDE DEF r
  <2> QED
    BY <2>2, <2>3 DEF Chores, r
<1>9. l \in [1 .. n -> Chores] /\ DOMAIN l = 1 .. n
  BY <1>1, <1>3, <1>8
<1>10. l \in Seq(Chores)
  BY <1>2, <1>9, SeqDef
<1> QED
  BY <1>7, <1>8, <1>9, <1>10, ZenonT(60)

LEMMA PutsType == ASSUME NEW q \in Requests PROVE Puts(q) \in Seq(Chores)
<1>1. q.puts \in Seq(Keys \X Values)
  BY DEF Requests
<1>2. Len(q.puts) \in Nat /\ q.puts \in [1 .. Len(q.puts) -> Keys \X Values]
  BY <1>1, LenProperties
<1>3. ASSUME NEW i \in DOMAIN q.puts
      PROVE  [q EXCEPT !.kind = "put", !.key = q.puts[i][1], !.val = q.puts[i][2]] \in Chores
  <2>1. q.puts[i][1] \in Keys /\ q.puts[i][2] \in Values
    BY <1>2, <1>3
  <2> QED
    BY <2>1 DEF Chores, Requests, Kinds, Plain
<1>4. Puts(q) \in [1 .. Len(q.puts) -> Chores]
  BY <1>2, <1>3 DEF Puts
<1> QED
  BY <1>2, <1>4, SeqDef, SMTT(60)

LEMMA PlansType ==
    ASSUME NEW q \in Requests, NEW l \in Plans(q)
    PROVE  l \in Seq(Chores) /\ (q.kind \notin Listed => l = <<>>)
<1>1. CASE q.kind = "putSeq"
  BY <1>1, PutsType DEF Plans, Listed
<1>2. CASE q.kind = "removeAll"
  <2>1. q.keys \in SUBSET Keys
    BY DEF Requests
  <2> QED
    BY <1>2, <2>1, RemovesType DEF Plans, Listed
<1>3. CASE q.kind = "replaceEntries"
  <2>1. l = <<[q EXCEPT !.kind = "clear"]>> \o Puts(q)
    BY <1>3 DEF Plans
  <2>2. [q EXCEPT !.kind = "clear"] \in Chores
    BY DEF Chores, Requests, Kinds, Plain
  <2>3. <<[q EXCEPT !.kind = "clear"]>> \in Seq(Chores)
    BY <2>2
  <2> QED
    BY <1>3, <2>1, <2>3, PutsType, ConcatProperties DEF Listed
<1>4. CASE q.kind \notin Listed
  <2>1. l = <<>>
    BY <1>4 DEF Plans, Listed
  <2> QED
    BY <2>1, EmptySeq
<1> QED
  BY <1>1, <1>2, <1>3, <1>4 DEF Listed

-----------------------------------------------------------------------------
(* The inductive invariant.  TypeOK says who holds the locks, but not what *)
(* the operation under way is, nor that a callback's question still stands.*)

Types ==
    /\ m \in Contents
    /\ pc \in [Procs -> {"idle", "act", "callback", "done", "range", "visit", "next"}]
    /\ call \in [Procs -> Requests \cup {none}]
    /\ sub \in [Procs -> Requests \cup {none}]
    /\ todo \in [Procs -> SUBSET Requests]
    /\ left \in [Procs -> SUBSET Buckets]
    /\ batch \in [Procs -> SUBSET (Keys \X Values)]
    /\ seen \in [Procs -> SUBSET (Keys \X Values)]
    /\ lock \in [Buckets -> Procs \cup {none}]

LockHeld ==
    \A b \in Buckets, p \in Procs : lock[b] = p <=> pc[p] = "callback" /\ Home(p) = b

InACall ==
    /\ DOMAIN ret = Procs
    /\ plan \in [Procs -> Seq(Chores)]
    /\ \A p \in Procs : /\ pc[p] # "idle" => call[p] \in Requests
                        /\ pc[p] \in {"act", "callback"} => sub[p] \in Points

CallbackHolds == \A p \in Procs : pc[p] = "callback" => Asks(sub[p], m)

IInv == Types /\ LockHeld /\ InACall /\ CallbackHolds

LEMMA InitInvariant == Init => IInv
<1> SUFFICES ASSUME Init PROVE IInv
  OBVIOUS
<1>1. Types
  BY DEF Init, Types
<1>2. \A p \in Procs : pc[p] = "idle"
  BY DEF Init
<1>3. LockHeld
  BY <1>2 DEF Init, LockHeld
<1>4. plan \in [Procs -> Seq(Chores)]
  BY EmptySeq DEF Init
<1> QED
  BY <1>1, <1>2, <1>3, <1>4 DEF Init, IInv, InACall, CallbackHolds

LEMMA HomeIsABucket ==
    ASSUME NEW p \in Procs, sub[p] \in Requests
    PROVE  Home(p) \in Buckets
BY DEF Home, Buckets, Requests

\* Who asks needs the lock of the key's bucket, and nobody holds it.
LEMMA AskersLock ==
    ASSUME NEW p \in Procs, Asks(sub[p], m)
    PROVE  /\ sub[p].kind \in Guarded /\ sub[p].kind \notin {"get", "clear"}
           /\ MayAct(p) => lock[Home(p)] = none
BY DEF Asks, Guarded, MayAct

\* What the methods may find is in Points.
LEMMA CallGoes ==
    ASSUME NEW q \in Requests
    PROVE  LET l == CASE q.kind \in Listed -> "next" [] q.kind \in Ranging -> "range"
                      [] OTHER -> "act"
           IN  /\ l \in {"next", "range", "act"}
               /\ l = "act" => q \in Points
               /\ l = "next" <=> q.kind \in Listed
               /\ l = "range" <=> q.kind \in Ranging
<1>1. q.kind \in Guarded \cup Plain \cup Listed \cup Ranging
  BY DEF Requests, Kinds
<1>2. Listed \cap Ranging = {} /\ Listed \cap (Guarded \cup Plain) = {}
        /\ Ranging \cap (Guarded \cup Plain) = {}
  BY DEF Listed, Ranging, Guarded, Plain
<1> QED
  BY <1>1, <1>2 DEF Points

\* What a call does, its request q and its plan l.
Called(p, q, l) ==
    /\ pc[p] = "idle" /\ q \in Requests /\ l \in Seq(Chores)
    /\ q.kind \notin Listed => l = <<>>
    /\ todo' = [todo EXCEPT ![p] = @ \ {q}]
    /\ call' = [call EXCEPT ![p] = q]
    /\ sub' = [sub EXCEPT ![p] = q]
    /\ plan' = [plan EXCEPT ![p] = l]
    /\ left' = [left EXCEPT ![p] = Buckets]
    /\ batch' = [batch EXCEPT ![p] = {}]
    /\ seen' = [seen EXCEPT ![p] = {}]
    /\ UNCHANGED <<m, lock, ret>>
    /\ \/ q.kind \in Listed /\ pc' = [pc EXCEPT ![p] = "next"]
       \/ q.kind \in Ranging /\ pc' = [pc EXCEPT ![p] = "range"]
       \/ q \in Points /\ pc' = [pc EXCEPT ![p] = "act"]

LEMMA CallIs ==
    ASSUME Types, NEW p \in Procs, Call(p)
    PROVE  \E q, l : Called(p, q, l)
<1>1. PICK q \in todo[p] :
        /\ todo' = [todo EXCEPT ![p] = @ \ {q}]
        /\ call' = [call EXCEPT ![p] = q]
        /\ sub' = [sub EXCEPT ![p] = q]
        /\ \E l \in Plans(q) : plan' = [plan EXCEPT ![p] = l]
        /\ left' = [left EXCEPT ![p] = Buckets]
        /\ Goto(p, CASE q.kind \in Listed -> "next" [] q.kind \in Ranging -> "range"
                     [] OTHER -> "act")
  BY DEF Call
<1>2. PICK l \in Plans(q) : plan' = [plan EXCEPT ![p] = l]
  BY <1>1
<1>3. q \in Requests
  BY DEF Types
<1>4. l \in Seq(Chores) /\ (q.kind \notin Listed => l = <<>>)
  BY <1>3, PlansType
<1> DEFINE to == CASE q.kind \in Listed -> "next" [] q.kind \in Ranging -> "range"
                   [] OTHER -> "act"
<1>5. pc' = [pc EXCEPT ![p] = to]
  BY <1>1 DEF Goto
<1>6. /\ to \in {"next", "range", "act"} /\ (to = "act" => q \in Points)
      /\ (to = "next" <=> q.kind \in Listed) /\ (to = "range" <=> q.kind \in Ranging)
  BY <1>3, CallGoes
<1> HIDE DEF to
<1>7. \/ q.kind \in Listed /\ pc' = [pc EXCEPT ![p] = "next"]
      \/ q.kind \in Ranging /\ pc' = [pc EXCEPT ![p] = "range"]
      \/ q \in Points /\ pc' = [pc EXCEPT ![p] = "act"]
  BY <1>5, <1>6
<1>8. pc[p] = "idle" /\ UNCHANGED <<m, lock, ret>>
      /\ batch' = [batch EXCEPT ![p] = {}] /\ seen' = [seen EXCEPT ![p] = {}]
  BY DEF Call
<1>9. Called(p, q, l)
  BY <1>1, <1>2, <1>3, <1>4, <1>7, <1>8 DEF Called
<1> QED
  BY <1>9

-----------------------------------------------------------------------------
(* Types.                                                                  *)

LEMMA ChoresArePoints == Chores \subseteq Points /\ Points \subseteq Requests
BY DEF Chores, Points, Guarded, Plain

\* The operation under way leaves a content.
LEMMA WritesContents ==
    ASSUME IInv, NEW p \in Procs, Act(p) \/ Answer(p)
    PROVE  /\ sub[p] \in Points /\ m' = Outcome(sub[p], m).s /\ m' \in Contents
           /\ ret' = [ret EXCEPT ![p] = Outcome(sub[p], m).ret]
           /\ pc[p] \in {"act", "callback"} /\ pc' = [pc EXCEPT ![p] = "done"]
           /\ UNCHANGED <<call, sub, todo, plan, left, batch, seen>>
<1>1. /\ m' = Outcome(sub[p], m).s
      /\ ret' = [ret EXCEPT ![p] = Outcome(sub[p], m).ret]
      /\ pc[p] \in {"act", "callback"} /\ pc' = [pc EXCEPT ![p] = "done"]
      /\ UNCHANGED <<call, sub, todo, plan, left, batch, seen>>
  BY DEF Act, Answer, Goto, local
<1>2. m \in Contents
  BY DEF IInv, Types
<1>3. sub[p] \in Points
  <2>1. pc[p] \in {"act", "callback"}
    BY <1>1
  <2> QED
    BY <2>1 DEF IInv, InACall
<1> QED
  BY <1>1, <1>2, <1>3, OutcomeType

LEMMA StepTypes == IInv /\ [Next]_vars => Types'
<1> SUFFICES ASSUME IInv, [Next]_vars PROVE Types'
  OBVIOUS
<1> USE DEF Types
<1>t. Types
  BY DEF IInv
<1>1. CASE UNCHANGED vars \/ Terminated
  BY <1>1, <1>t DEF vars, local, Terminated
<1>2. ASSUME NEW p \in Procs, Call(p) PROVE Types'
  <2>1. PICK q, l : Called(p, q, l)
    BY <1>2, <1>t, CallIs
  <2> QED
    BY <1>t, <2>1 DEF Called
<1>3. ASSUME NEW p \in Procs, Act(p) PROVE Types'
  <2>1. lock' = lock
    BY <1>3 DEF Act
  <2> QED
    BY <1>3, <1>t, <2>1, WritesContents
<1>4. ASSUME NEW p \in Procs, Answer(p) PROVE Types'
  <2>1. lock' \in [Buckets -> Procs \cup {none}]
    BY <1>4, <1>t DEF Answer
  <2> QED
    BY <1>4, <1>t, <2>1, WritesContents
<1>5. ASSUME NEW p \in Procs, Ask(p) \/ Panic(p) PROVE Types'
  BY <1>5, <1>t DEF Ask, Panic, Goto, local
<1>6. ASSUME NEW p \in Procs, Copy(p) PROVE Types'
  <2>1. PICK b \in left[p] :
          /\ left' = [left EXCEPT ![p] = @ \ {b}]
          /\ batch' = [batch EXCEPT ![p] = {<<k, m[k]>> : k \in {j \in Stored(m) : Bucket[j] = b}}]
          /\ Goto(p, "visit")
          /\ UNCHANGED <<m, lock, call, sub, todo, plan, seen, ret>>
    BY <1>6 DEF Copy
  <2>2. {<<k, m[k]>> : k \in {j \in Stored(m) : Bucket[j] = b}} \subseteq Keys \X Values
    BY <1>t DEF Stored, Contents
  <2> QED
    BY <1>t, <2>1, <2>2 DEF Goto
<1>7. ASSUME NEW p \in Procs, Visit(p) PROVE Types'
  <2>1. PICK e \in batch[p] :
          /\ pc[p] = "visit"
          /\ batch' = [batch EXCEPT ![p] = @ \ {e}]
          /\ seen' = [seen EXCEPT ![p] = @ \cup {e}]
          /\ IF call[p].kind = "replaceAll"
             THEN /\ sub' = [sub EXCEPT ![p] = [call[p] EXCEPT !.kind = "computeIfPresent",
                                                               !.key = e[1]]]
                  /\ Goto(p, "act")
             ELSE UNCHANGED <<sub, pc>>
          /\ UNCHANGED <<m, lock, call, todo, plan, left, ret>>
    BY <1>7 DEF Visit
  <2>2. e \in Keys \X Values
    BY <1>t, <2>1
  <2>v. pc[p] = "visit"
    BY <2>1
  <2>c. call[p] \in Requests
    BY <2>v DEF IInv, InACall
  <2>3. "computeIfPresent" \in Kinds
    BY DEF Kinds, Guarded
  <2>4. [call[p] EXCEPT !.kind = "computeIfPresent", !.key = e[1]] \in Requests
    BY <2>2, <2>c, <2>3, Rekind
  <2>5. sub' \in [Procs -> Requests \cup {none}] /\ pc' \in [Procs -> {"idle", "act", "callback", "done", "range", "visit", "next"}]
    BY <1>t, <2>1, <2>4 DEF Goto
  <2> QED
    BY <1>t, <2>1, <2>2, <2>5, ZenonT(60)
<1>8. ASSUME NEW p \in Procs, Proceed(p) PROVE Types'
  <2>1. Head(plan[p]) \in Requests
    BY <1>8, HeadTailProperties, ChoresArePoints DEF Proceed, IInv, InACall
  <2> QED
    BY <1>8, <1>t, <2>1 DEF Proceed, Goto
<1>9. ASSUME NEW p \in Procs, NextBucket(p) \/ Collected(p) PROVE Types'
  BY <1>9, <1>t DEF NextBucket, Collected, Goto, local
<1>10. ASSUME NEW p \in Procs, Resume(p) \/ Return(p) PROVE Types'
  <2>1. /\ sub' = [sub EXCEPT ![p] = none] /\ call' \in {call, [call EXCEPT ![p] = none]}
        /\ \E l \in {"visit", "next", "idle"} : pc' = [pc EXCEPT ![p] = l]
        /\ UNCHANGED <<m, lock, todo, left, batch, seen>>
    BY <1>10 DEF Resume, Return, Goto, local
  <2> QED
    BY <1>t, <2>1
<1> QED
  BY <1>1, <1>2, <1>3, <1>4, <1>5, <1>6, <1>7, <1>8, <1>9, <1>10 DEF Next, Step

-----------------------------------------------------------------------------
(* A step of one goroutine, seen by the others.                            *)

Moves(p) == Call(p) \/ Step(p) \/ Panic(p)

OthersKeep(p) ==
    \A q \in Procs \ {p} :
       /\ pc'[q] = pc[q] /\ call'[q] = call[q] /\ sub'[q] = sub[q] /\ ret'[q] = ret[q]
       /\ plan'[q] = plan[q] /\ left'[q] = left[q] /\ batch'[q] = batch[q] /\ seen'[q] = seen[q]

LEMMA StepIsLocal ==
    ASSUME IInv, NEW p \in Procs, Moves(p)
    PROVE  OthersKeep(p)
<1> USE DEF OthersKeep, Goto, local
<1>t. Types
  BY DEF IInv
<1>f. /\ DOMAIN pc = Procs /\ DOMAIN call = Procs /\ DOMAIN sub = Procs /\ DOMAIN ret = Procs
      /\ DOMAIN plan = Procs /\ DOMAIN left = Procs /\ DOMAIN batch = Procs /\ DOMAIN seen = Procs
  BY DEF IInv, InACall, Types
<1> USE <1>f
<1>1. CASE Call(p)
  <2>1. PICK q, l : Called(p, q, l)
    BY <1>1, <1>t, CallIs
  <2> QED
    BY <2>1 DEF Called
<1>2. CASE Act(p) \/ Ask(p) \/ Answer(p) \/ Panic(p)
  BY <1>2 DEF Act, Ask, Answer, Panic
<1>3. CASE Copy(p)
  BY <1>3 DEF Copy
<1>4. CASE Visit(p)
  BY <1>4 DEF Visit
<1>5. CASE NextBucket(p) \/ Collected(p) \/ Proceed(p)
  BY <1>5 DEF NextBucket, Collected, Proceed
<1>6. CASE Resume(p) \/ Return(p)
  BY <1>6 DEF Resume, Return
<1> QED
  BY <1>1, <1>2, <1>3, <1>4, <1>5, <1>6 DEF Moves, Step

\* Nobody else's key changes while a callback runs under its bucket's lock.
LEMMA LockedKeysStay ==
    ASSUME IInv, NEW p \in Procs, Act(p) \/ Answer(p),
           NEW k \in Keys, lock[Bucket[k]] \notin {none, p}
    PROVE  m'[k] = m[k]
<1>1. /\ sub[p] \in Points /\ sub[p] \in Requests /\ m' = Outcome(sub[p], m).s /\ m \in Contents
  BY WritesContents, ChoresArePoints DEF IInv, Types
<1>2. Bucket[k] \in Buckets
  BY DEF Buckets
<1>3. CASE sub[p].kind = "get"
  BY <1>1, <1>3, GetChangesNothing
<1>4. ASSUME sub[p].kind # "get" PROVE sub[p].kind # "clear" /\ lock[Home(p)] \in {none, p}
  <2>1. CASE Act(p)
    BY <1>2, <1>4, <2>1 DEF Act, MayAct
  <2>2. CASE Answer(p)
    <3>1. pc[p] = "callback"
      BY <2>2 DEF Answer
    <3>2. lock[Home(p)] = p
      BY <1>1, <3>1, HomeIsABucket DEF IInv, LockHeld
    <3>3. Asks(sub[p], m)
      BY <3>1 DEF IInv, CallbackHolds
    <3> QED
      BY <3>2, <3>3, AskersLock
  <2> QED
    BY <2>1, <2>2
<1>5. CASE sub[p].kind # "get"
  <2>1. sub[p].kind # "clear" /\ k # sub[p].key
    BY <1>4, <1>5 DEF Home
  <2> QED
    BY <1>1, <2>1, OthersUntouched
<1> QED
  BY <1>3, <1>5

\* The operations do no harm to the keys of callbacks, and nothing else writes.
LEMMA CallbackKeysStay ==
    ASSUME IInv, NEW p \in Procs, Moves(p), NEW q \in Procs \ {p}, pc[q] = "callback"
    PROVE  sub[q] \in Requests /\ m'[sub[q].key] = m[sub[q].key]
<1>1. sub[q] \in Requests /\ sub[q].key \in Keys
  BY ChoresArePoints DEF IInv, InACall, Requests
<1>2. lock[Bucket[sub[q].key]] = q
  BY <1>1, HomeIsABucket DEF IInv, LockHeld, Home
<1>3. CASE Act(p) \/ Answer(p)
  BY <1>1, <1>2, <1>3, LockedKeysStay, ZenonT(60)
<1>4. CASE ~(Act(p) \/ Answer(p))
  <2>1. m' = m
    BY <1>4 DEF Moves, Step, Call, Ask, Panic, Copy, Visit, NextBucket, Collected, Proceed,
                Resume, Return
  <2> QED
    BY <1>1, <2>1, SMTT(60)
<1> QED
  BY <1>3, <1>4

-----------------------------------------------------------------------------
(* The locks, the methods and the callbacks.                               *)

LEMMA LocksKept ==
    ASSUME IInv, NEW p \in Procs, OthersKeep(p), lock' = lock,
           pc[p] # "callback", pc'[p] # "callback"
    PROVE  LockHeld'
BY DEF IInv, LockHeld, OthersKeep, Home

LEMMA StepLock == IInv /\ [Next]_vars => LockHeld'
<1> SUFFICES ASSUME IInv, [Next]_vars PROVE LockHeld'
  OBVIOUS
<1>t. Types /\ LockHeld
  BY DEF IInv
<1>1. CASE UNCHANGED vars \/ Terminated
  BY <1>1, <1>t DEF vars, Terminated, LockHeld, Home
<1>2. ASSUME NEW p \in Procs, Ask(p) PROVE LockHeld'
  <2>1. /\ pc[p] = "act" /\ MayAct(p) /\ Asks(sub[p], m) /\ sub' = sub
        /\ pc' = [pc EXCEPT ![p] = "callback"] /\ lock' = [lock EXCEPT ![Home(p)] = p]
    BY <1>2 DEF Ask, Goto
  <2>2. sub[p] \in Requests
    BY <2>1, ChoresArePoints DEF IInv, InACall
  <2>3. Home(p) \in Buckets /\ lock[Home(p)] = none
    BY <2>1, <2>2, HomeIsABucket, AskersLock
  <2> QED
    BY <1>t, <2>1, <2>3 DEF Types, LockHeld, Home
<1>3. ASSUME NEW p \in Procs, Answer(p) \/ Panic(p) PROVE LockHeld'
  <2>1. /\ pc[p] = "callback" /\ sub' = sub
        /\ pc' = [pc EXCEPT ![p] = "done"] /\ lock' = [lock EXCEPT ![Home(p)] = none]
    BY <1>3 DEF Answer, Panic, Goto
  <2>2. sub[p] \in Requests
    BY <2>1, ChoresArePoints DEF IInv, InACall
  <2>3. Home(p) \in Buckets /\ lock[Home(p)] = p
    BY <1>t, <2>1, <2>2, HomeIsABucket DEF LockHeld
  <2> QED
    BY <1>t, <2>1, <2>3 DEF Types, LockHeld, Home
<1>4. ASSUME NEW p \in Procs, Moves(p), ~Ask(p), ~Answer(p), ~Panic(p) PROVE LockHeld'
  <2>1. OthersKeep(p)
    BY <1>4, StepIsLocal, SMTT(60)
  <2>2. lock' = lock
    BY <1>4, ZenonT(60) DEF Moves, Step, Call, Act, Copy, Visit, NextBucket, Collected, Proceed,
                Resume, Return
  <2>3. pc[p] # "callback"
    BY <1>4 DEF Moves, Step, Call, Act, Copy, Visit, NextBucket, Collected, Proceed,
                Resume, Return, Swept
  <2>4. pc'[p] # "callback"
    <3>1. CASE Call(p)
      <4>1. PICK q, l : Called(p, q, l)
        BY <3>1, <1>t, CallIs, SMTT(60)
      <4> QED
        BY <1>t, <4>1 DEF Called, Types
    <3>2. CASE ~Call(p)
      BY <1>4, <3>2, <1>t, <2>3, ZenonT(60) DEF Moves, Step, Act, Copy, Visit, NextBucket, Collected, Proceed,
                Resume, Return, Goto, Types
    <3> QED
      BY <3>1, <3>2
  <2> QED
    BY <2>1, <2>2, <2>3, <2>4, LocksKept
<1> QED
  BY <1>1, <1>2, <1>3, <1>4 DEF Next, Moves

LEMMA StepCall == IInv /\ [Next]_vars => InACall'
<1> SUFFICES ASSUME IInv, [Next]_vars PROVE InACall'
  OBVIOUS
<1>t. Types /\ InACall
  BY DEF IInv
<1>d. DOMAIN ret = Procs /\ plan \in [Procs -> Seq(Chores)]
  BY <1>t DEF InACall
<1>1. CASE UNCHANGED vars \/ Terminated
  BY <1>1, <1>t DEF vars, local, Terminated, InACall
<1>2. ASSUME NEW p \in Procs, Moves(p), DOMAIN ret' = Procs, plan' \in [Procs -> Seq(Chores)],
             pc'[p] # "idle" => call'[p] \in Requests,
             pc'[p] \in {"act", "callback"} => sub'[p] \in Points
      PROVE  InACall'
  <2>1. OthersKeep(p)
    BY <1>2, StepIsLocal
  <2> QED
    BY <1>2, <1>t, <2>1 DEF InACall, OthersKeep
<1>3. ASSUME NEW p \in Procs, Call(p) PROVE InACall'
  <2>1. PICK q, l : Called(p, q, l)
    BY <1>3, <1>t, CallIs
  <2>2. ret' = ret /\ plan' \in [Procs -> Seq(Chores)] /\ call'[p] \in Requests
        /\ (pc'[p] = "act" => sub'[p] \in Points) /\ pc'[p] # "callback"
    BY <1>t, <1>d, <2>1 DEF Called, Types
  <2> QED
    BY <1>2, <1>3, <1>d, <2>2 DEF Moves
<1>4. ASSUME NEW p \in Procs, Act(p) \/ Ask(p) \/ Answer(p) \/ Panic(p) PROVE InACall'
  <2>1. /\ plan' = plan /\ call' = call /\ sub' = sub /\ DOMAIN ret' = Procs
        /\ pc[p] \in {"act", "callback"}
    BY <1>4, <1>d DEF Act, Ask, Answer, Panic, local
  <2>2. call[p] \in Requests /\ sub[p] \in Points
    BY <1>t, <2>1 DEF InACall
  <2> QED
    BY <1>2, <1>4, <1>d, <2>1, <2>2 DEF Moves, Step
<1>5. ASSUME NEW p \in Procs, Copy(p) \/ NextBucket(p) PROVE InACall'
  <2>1. /\ plan' = plan /\ call' = call /\ ret' = ret
        /\ pc[p] \in {"range", "visit"} /\ pc'[p] \in {"range", "visit"}
    BY <1>5, <1>t DEF Copy, NextBucket, Goto, local, Types
  <2>2. call[p] \in Requests
    BY <1>t, <2>1 DEF InACall
  <2> QED
    BY <1>2, <1>5, <1>d, <2>1, <2>2 DEF Moves, Step
<1>6. ASSUME NEW p \in Procs, Visit(p) PROVE InACall'
  <2>1. PICK e \in batch[p] :
          /\ pc[p] = "visit"
          /\ IF call[p].kind = "replaceAll"
             THEN /\ sub' = [sub EXCEPT ![p] = [call[p] EXCEPT !.kind = "computeIfPresent",
                                                               !.key = e[1]]]
                  /\ Goto(p, "act")
             ELSE UNCHANGED <<sub, pc>>
          /\ UNCHANGED <<m, lock, call, todo, plan, left, ret>>
    BY <1>6 DEF Visit
  <2>2. call[p] \in Requests
    BY <1>t, <2>1 DEF InACall
  <2>3. e[1] \in Keys /\ "computeIfPresent" \in Kinds
    BY <1>t DEF Types, Kinds, Guarded
  <2>4. [call[p] EXCEPT !.kind = "computeIfPresent", !.key = e[1]] \in Points
    <3> DEFINE r == [call[p] EXCEPT !.kind = "computeIfPresent", !.key = e[1]]
    <3> USE <2>2, <2>3
    <3>1. r \in Requests /\ r.kind = "computeIfPresent"
      <4>1. "computeIfPresent" \in Kinds /\ call[p] \in Requests /\ e[1] \in Keys
        OBVIOUS
      <4> QED
        BY <4>1 DEF Requests
    <3> HIDE DEF r
    <3>2. r \in Points
      BY <3>1 DEF Points, Guarded
    <3> QED
      BY <3>2 DEF r
  <2>5. pc'[p] # "callback" /\ (pc'[p] = "act" => sub'[p] \in Points)
    BY <1>t, <2>1, <2>4 DEF Goto, Types
  <2> QED
    BY <1>2, <1>6, <1>d, <2>1, <2>2, <2>5, SMTT(60) DEF Moves, Step
<1>7. ASSUME NEW p \in Procs, Collected(p) PROVE InACall'
  <2>1. PICK l \in Removes(call[p], Accepted(p)) : plan' = [plan EXCEPT ![p] = l]
    BY <1>7 DEF Collected
  <2>2. pc[p] = "visit" /\ pc'[p] = "next" /\ call' = call /\ ret' = ret
    BY <1>7, <1>t DEF Collected, Swept, Goto, Types
  <2>3. call[p] \in Requests
    BY <1>t, <2>2 DEF InACall
  <2>4. Accepted(p) \subseteq Keys
    BY <1>t DEF Accepted, Types
  <2>5. plan' \in [Procs -> Seq(Chores)]
    BY <1>d, <2>1, <2>3, <2>4, RemovesType
  <2> QED
    BY <1>2, <1>7, <1>d, <2>2, <2>3, <2>5 DEF Moves, Step
<1>8. ASSUME NEW p \in Procs, Proceed(p) PROVE InACall'
  <2>1. /\ pc[p] = "next" /\ plan[p] # <<>> /\ call' = call /\ ret' = ret
        /\ sub' = [sub EXCEPT ![p] = Head(plan[p])]
        /\ plan' = [plan EXCEPT ![p] = Tail(plan[p])]
    BY <1>8 DEF Proceed
  <2>2. call[p] \in Requests
    BY <1>t, <2>1 DEF InACall
  <2>3. Head(plan[p]) \in Chores /\ Tail(plan[p]) \in Seq(Chores)
    BY <1>d, <2>1, HeadTailProperties
  <2>4. sub'[p] \in Points
    BY <1>t, <2>1, <2>3, ChoresArePoints DEF Types
  <2>5. plan' \in [Procs -> Seq(Chores)]
    BY <1>d, <2>1, <2>3
  <2> QED
    BY <1>2, <1>8, <1>d, <2>1, <2>2, <2>4, <2>5 DEF Moves, Step
<1>9. ASSUME NEW p \in Procs, Resume(p) PROVE InACall'
  <2>1. /\ pc[p] = "done" /\ pc'[p] \in {"visit", "next"} /\ call' = call /\ plan' = plan
        /\ DOMAIN ret' = Procs
    BY <1>9, <1>t, <1>d DEF Resume, Goto, local, Types
  <2>2. call[p] \in Requests
    BY <1>t, <2>1 DEF InACall
  <2> QED
    BY <1>2, <1>9, <1>d, <2>1, <2>2 DEF Moves, Step
<1>10. ASSUME NEW p \in Procs, Return(p) PROVE InACall'
  <2>1. pc'[p] = "idle" /\ plan' = plan /\ DOMAIN ret' = Procs
    BY <1>10, <1>t, <1>d DEF Return, Goto, local, Types
  <2> QED
    BY <1>2, <1>10, <1>d, <2>1 DEF Moves, Step
<1> QED
  BY <1>1, <1>3, <1>4, <1>5, <1>6, <1>7, <1>8, <1>9, <1>10 DEF Next, Step

LEMMA AskedKeyStays ==
    ASSUME NEW q, NEW s, NEW t, t[q.key] = s[q.key], Asks(q, s)
    PROVE  Asks(q, t)
BY DEF Asks, Guarded

LEMMA StepCallback == IInv /\ [Next]_vars => CallbackHolds'
<1> SUFFICES ASSUME IInv, [Next]_vars, NEW q \in Procs, pc'[q] = "callback"
             PROVE  Asks(sub'[q], m')
  BY DEF CallbackHolds
<1>t. Types
  BY DEF IInv
<1>1. CASE UNCHANGED vars \/ Terminated
  BY <1>1 DEF vars, Terminated, IInv, CallbackHolds
<1>2. ASSUME NEW p \in Procs, Moves(p), p # q PROVE Asks(sub'[q], m')
  <2>1. pc[q] = "callback" /\ sub'[q] = sub[q]
    BY <1>2, StepIsLocal DEF OthersKeep
  <2>2. Asks(sub[q], m) /\ m'[sub[q].key] = m[sub[q].key]
    BY <1>2, <2>1, CallbackKeysStay DEF IInv, CallbackHolds
  <2> QED
    BY <2>1, <2>2, AskedKeyStays
<1>3. ASSUME Moves(q) PROVE Asks(sub'[q], m')
  <2>1. CASE Ask(q)
    BY <2>1 DEF Ask
  <2>2. CASE Call(q)
    <3>1. PICK r, l : Called(q, r, l)
      BY <1>t, <2>2, CallIs, SMTT(60)
    <3> QED
      BY <1>t, <3>1 DEF Called, Types
  <2>3. CASE ~Ask(q) /\ ~Call(q)
    BY <1>3, <1>t, <2>3, ZenonT(60) DEF Moves, Step, Act, Answer, Panic, Copy, Visit, NextBucket, Collected, Proceed,
                Resume, Return, Swept, Goto, Types
  <2> QED
    BY <2>1, <2>2, <2>3
<1> QED
  BY <1>1, <1>2, <1>3 DEF Next, Moves

LEMMA Invariance == Spec => []IInv
<1>1. IInv /\ [Next]_vars => IInv'
  BY StepTypes, StepLock, StepCall, StepCallback DEF IInv
<1> QED
  BY InitInvariant, <1>1, PTL DEF Spec

(* A bucket lock is held by the goroutine whose callback runs for a key of *)
(* that bucket and by nobody else, however the callback ends.              *)
THEOREM HashMapTypes == Spec => []TypeOK
<1>1. IInv => TypeOK
  <2> SUFFICES ASSUME IInv PROVE TypeOK
    OBVIOUS
  <2>1. \A p \in Procs : plan[p] \in Seq(Chores)
    BY DEF IInv, InACall
  <2>2. Chores \subseteq Requests
    BY ChoresArePoints
  <2>3. \A p \in Procs : plan[p] \in Seq(Requests)
    BY <2>1, <2>2, SeqMonotonic
  <2>4. plan \in [Procs -> Seq(Requests)]
    BY <2>3 DEF IInv, InACall
  <2> QED
    BY <2>4 DEF IInv, Types, LockHeld, TypeOK
<1> QED
  BY <1>1, Invariance, PTL

-----------------------------------------------------------------------------
(* Every step is a step of the atomic object, or none.                     *)

Stage == [p \in Procs |-> Moment(p)]
Asked == [p \in Procs |-> IF Moment(p) = "idle" THEN none ELSE sub[p]]
Answered == [p \in Procs |-> IF Moment(p) = "closed" THEN ret[p] ELSE none]

LEMMA OthersUnmoved ==
    ASSUME NEW p \in Procs, OthersKeep(p)
    PROVE  \A q \in Procs \ {p} :
              Stage'[q] = Stage[q] /\ Asked'[q] = Asked[q] /\ Answered'[q] = Answered[q]
<1> TAKE q \in Procs \ {p}
<1>1. Moment(q)' = Moment(q)
  BY DEF OthersKeep, Moment
<1> QED
  BY <1>1 DEF OthersKeep, Stage, Asked, Answered

LEMMA Stutter ==
    ASSUME NEW p \in Procs, OthersKeep(p), m' = m, Moment(p)' = Moment(p),
           Moment(p) # "idle" => sub'[p] = sub[p], Moment(p) = "closed" => ret'[p] = ret[p]
    PROVE  UNCHANGED Atomic!vars
<1>1. Stage'[p] = Stage[p] /\ Asked'[p] = Asked[p] /\ Answered'[p] = Answered[p]
  BY DEF Stage, Asked, Answered
<1>2. \A q \in Procs : Stage'[q] = Stage[q] /\ Asked'[q] = Asked[q] /\ Answered'[q] = Answered[q]
  BY <1>1, OthersUnmoved
<1>3. Stage' = Stage /\ Asked' = Asked /\ Answered' = Answered
  BY <1>2 DEF Stage, Asked, Answered
<1> QED
  BY <1>3 DEF Atomic!vars, Stage, Asked, Answered

LEMMA Invoked ==
    ASSUME NEW p \in Procs, OthersKeep(p), m' = m,
           Moment(p) = "idle", Moment(p)' = "open", sub'[p] \in Requests
    PROVE  Atomic!Invoke(p)
<1>1. Stage[p] = "idle" /\ Stage'[p] = "open" /\ Asked'[p] = sub'[p] /\ Answered'[p] = Answered[p]
  BY DEF Stage, Asked, Answered
<1>2. Stage' = [Stage EXCEPT ![p] = "open"]
  BY <1>1, OthersUnmoved DEF Stage
<1>3. Asked' = [Asked EXCEPT ![p] = Asked'[p]]
  BY <1>1, OthersUnmoved DEF Asked
<1>4. Answered' = Answered
  BY <1>1, OthersUnmoved DEF Answered
<1> QED
  BY <1>1, <1>2, <1>3, <1>4 DEF Atomic!Invoke, Stage, Asked, Answered

LEMMA Effected ==
    ASSUME NEW p \in Procs, OthersKeep(p),
           Moment(p) = "open", Moment(p)' = "closed", sub'[p] = sub[p],
           NEW e \in EffectsOrPanic(sub[p], m), m' = e.s, ret'[p] = e.ret
    PROVE  Atomic!TakeEffect(p)
<1>1. /\ Stage[p] = "open" /\ Stage'[p] = "closed" /\ Asked'[p] = Asked[p]
      /\ Asked[p] = sub[p] /\ Answered'[p] = e.ret
  BY DEF Stage, Asked, Answered
<1>2. Stage' = [Stage EXCEPT ![p] = "closed"]
  BY <1>1, OthersUnmoved DEF Stage
<1>3. Asked' = Asked
  BY <1>1, OthersUnmoved DEF Asked
<1>4. Answered' = [Answered EXCEPT ![p] = e.ret]
  BY <1>1, OthersUnmoved DEF Answered
<1>5. e \in EffectsOrPanic(Asked[p], m)
  BY <1>1
<1> QED
  BY <1>1, <1>2, <1>3, <1>4, <1>5 DEF Atomic!TakeEffect, Stage, Asked, Answered

LEMMA Returned ==
    ASSUME NEW p \in Procs, OthersKeep(p), m' = m,
           Moment(p) = "closed", Moment(p)' = "idle"
    PROVE  Atomic!Return(p)
<1>1. /\ Stage[p] = "closed" /\ Stage'[p] = "idle" /\ Asked'[p] = none /\ Answered'[p] = none
  BY DEF Stage, Asked, Answered
<1>2. Stage' = [Stage EXCEPT ![p] = "idle"]
  BY <1>1, OthersUnmoved DEF Stage
<1>3. Asked' = [Asked EXCEPT ![p] = none]
  BY <1>1, OthersUnmoved DEF Asked
<1>4. Answered' = [Answered EXCEPT ![p] = none]
  BY <1>1, OthersUnmoved DEF Answered
<1> QED
  BY <1>1, <1>2, <1>3, <1>4 DEF Atomic!Return, Stage, Asked, Answered

LEMMA InitIsAtomic == Init => Atomic!Init
<1> SUFFICES ASSUME Init PROVE Atomic!Init
  OBVIOUS
<1>1. \A p \in Procs : Moment(p) = "idle"
  BY DEF Init, Moment
<1> QED
  BY <1>1 DEF Init, Atomic!Init

LEMMA StepIsAtomic == IInv /\ [Next]_vars => [Atomic!Next]_Atomic!vars
<1> SUFFICES ASSUME IInv, [Next]_vars PROVE Atomic!Next \/ UNCHANGED Atomic!vars
  OBVIOUS
<1>t. Types
  BY DEF IInv
<1>d. DOMAIN ret = Procs
  BY DEF IInv, InACall
<1>1. CASE UNCHANGED vars \/ Terminated
  BY <1>1 DEF vars, local, Terminated, Atomic!vars, Moment
<1>2. ASSUME NEW p \in Procs, Call(p) PROVE Atomic!Next \/ UNCHANGED Atomic!vars
  <2>1. PICK q, l : Called(p, q, l)
    BY <1>2, <1>t, CallIs
  <2>2. /\ pc[p] = "idle" /\ sub'[p] = q /\ q \in Requests /\ m' = m /\ OthersKeep(p)
        /\ pc'[p] \in {"next", "range", "act"}
    BY <1>2, <1>t, <2>1, StepIsLocal DEF Called, Types, Moves
  <2>3. CASE pc'[p] = "act"
    <3>1. Atomic!Invoke(p)
      BY <2>2, <2>3, Invoked DEF Moment
    <3> QED
      BY <3>1 DEF Atomic!Next
  <2>4. CASE pc'[p] # "act"
    <3>1. Moment(p) = "idle" /\ Moment(p)' = "idle"
      BY <2>2, <2>4 DEF Moment
    <3> QED
      BY <2>2, <3>1, Stutter
  <2> QED
    BY <2>3, <2>4
<1>3. ASSUME NEW p \in Procs, Act(p) \/ Answer(p) PROVE Atomic!TakeEffect(p)
  <2> DEFINE e == Outcome(sub[p], m)
  <2>1. /\ m' = e.s /\ ret'[p] = e.ret /\ pc[p] \in {"act", "callback"}
        /\ pc'[p] = "done" /\ sub' = sub
    BY <1>3, <1>t, <1>d, WritesContents DEF Types
  <2>2. e \in EffectsOrPanic(sub[p], m)
    BY DEF EffectsOrPanic
  <2>3. OthersKeep(p)
    BY <1>3, StepIsLocal DEF Moves, Step
  <2> HIDE DEF e
  <2> QED
    BY <2>1, <2>2, <2>3, Effected DEF Moment
<1>4. ASSUME NEW p \in Procs, Panic(p) PROVE Atomic!TakeEffect(p)
  <2> DEFINE e == Does(m, <<none>>)
  <2>1. /\ pc[p] = "callback" /\ pc'[p] = "done" /\ sub' = sub /\ m' = m /\ ret'[p] = <<none>>
    BY <1>4, <1>t, <1>d DEF Panic, Goto, Types
  <2>2. m' = e.s /\ ret'[p] = e.ret
    BY <2>1, DoesFields
  <2>3. Asks(sub[p], m)
    BY <2>1 DEF IInv, CallbackHolds
  <2>4. e \in EffectsOrPanic(sub[p], m)
    BY <2>3 DEF EffectsOrPanic
  <2>5. OthersKeep(p)
    BY <1>4, StepIsLocal DEF Moves
  <2> HIDE DEF e
  <2> QED
    BY <2>1, <2>2, <2>4, <2>5, Effected DEF Moment
<1>5. ASSUME NEW p \in Procs, Ask(p) PROVE UNCHANGED Atomic!vars
  <2>1. /\ pc[p] = "act" /\ pc'[p] = "callback" /\ sub' = sub /\ m' = m
    BY <1>5, <1>t DEF Ask, Goto, Types
  <2>2. OthersKeep(p)
    BY <1>5, StepIsLocal DEF Moves, Step
  <2> QED
    BY <2>1, <2>2, Stutter DEF Moment
<1>6. ASSUME NEW p \in Procs, Visit(p) PROVE Atomic!Next \/ UNCHANGED Atomic!vars
  <2>1. /\ pc[p] = "visit" /\ m' = m
        /\ pc'[p] = "visit" \/ (pc'[p] = "act" /\ call[p].kind = "replaceAll")
    BY <1>6, <1>t DEF Visit, Goto, Types
  <2>2. OthersKeep(p)
    BY <1>6, StepIsLocal DEF Moves, Step
  <2>3. CASE pc'[p] = "visit"
    <3>1. Moment(p) = "idle" /\ Moment(p)' = "idle"
      BY <2>1, <2>3 DEF Moment
    <3> QED
      BY <2>1, <2>2, <3>1, Stutter
  <2>4. CASE pc'[p] = "act"
    <3>1. IInv'
      BY StepTypes, StepLock, StepCall, StepCallback DEF IInv
    <3>2. sub'[p] \in Requests
      BY <2>4, <3>1, ChoresArePoints DEF IInv, InACall
    <3>3. Atomic!Invoke(p)
      BY <2>1, <2>2, <2>4, <3>2, Invoked DEF Moment
    <3> QED
      BY <3>3 DEF Atomic!Next
  <2> QED
    BY <2>1, <2>3, <2>4
<1>7. ASSUME NEW p \in Procs, Copy(p) \/ NextBucket(p) \/ Collected(p) PROVE UNCHANGED Atomic!vars
  <2>1. /\ pc[p] \in {"range", "visit"} /\ pc'[p] \in {"range", "visit", "next"} /\ m' = m
    BY <1>7, <1>t DEF Copy, NextBucket, Collected, Swept, Goto, Types
  <2>2. OthersKeep(p)
    BY <1>7, StepIsLocal DEF Moves, Step
  <2>3. Moment(p) = "idle" /\ Moment(p)' = "idle"
    BY <2>1 DEF Moment
  <2> QED
    BY <2>1, <2>2, <2>3, Stutter
<1>8. ASSUME NEW p \in Procs, Proceed(p) PROVE Atomic!Invoke(p)
  <2>1. /\ pc[p] = "next" /\ pc'[p] = "act" /\ m' = m
    BY <1>8, <1>t DEF Proceed, Goto, Types
  <2>2. OthersKeep(p)
    BY <1>8, StepIsLocal DEF Moves, Step
  <2>3. IInv'
    BY StepTypes, StepLock, StepCall, StepCallback DEF IInv
  <2>4. sub'[p] \in Requests
    BY <2>1, <2>3, ChoresArePoints DEF IInv, InACall
  <2> QED
    BY <2>1, <2>2, <2>4, Invoked DEF Moment
<1>9. ASSUME NEW p \in Procs, Resume(p) PROVE Atomic!Return(p)
  <2>1. /\ pc[p] = "done" /\ pc'[p] \in {"visit", "next"} /\ m' = m
    BY <1>9, <1>t DEF Resume, Goto, Types
  <2>2. OthersKeep(p)
    BY <1>9, StepIsLocal DEF Moves, Step
  <2> QED
    BY <2>1, <2>2, Returned DEF Moment
<1>10. ASSUME NEW p \in Procs, Return(p) PROVE Atomic!Next \/ UNCHANGED Atomic!vars
  <2>1. /\ pc[p] \in {"done", "visit", "next"} /\ pc'[p] = "idle" /\ m' = m
    BY <1>10, <1>t DEF Return, Swept, Goto, Types
  <2>2. OthersKeep(p)
    BY <1>10, StepIsLocal DEF Moves, Step
  <2>3. CASE pc[p] = "done"
    <3>1. Atomic!Return(p)
      BY <2>1, <2>2, <2>3, Returned DEF Moment
    <3> QED
      BY <3>1 DEF Atomic!Next
  <2>4. CASE pc[p] # "done"
    <3>1. Moment(p) = "idle" /\ Moment(p)' = "idle"
      BY <2>1, <2>4 DEF Moment
    <3> QED
      BY <2>1, <2>2, <3>1, Stutter
  <2> QED
    BY <2>3, <2>4
<1> QED
  BY <1>1, <1>2, <1>3, <1>4, <1>5, <1>6, <1>7, <1>8, <1>9, <1>10
     DEF Next, Step, Atomic!Next

(* Every operation on MapOf, alone or as a part of a bulk method, takes    *)
(* effect in one instant and returns what it found then; a callback that   *)
(* panics leaves the map as it was: for any number of goroutines, keys,    *)
(* buckets, calls and callbacks.                                           *)
THEOREM HashMapIsAtomic == Spec => EveryCallIsAtomic
<1>1. Init => Atomic!Init
  BY InitIsAtomic
<1>2. IInv /\ [Next]_vars => [Atomic!Next]_Atomic!vars
  BY StepIsAtomic
<1> QED
  BY <1>1, <1>2, Invariance, PTL DEF Spec, EveryCallIsAtomic, Atomic!Spec

-----------------------------------------------------------------------------
(* Thoroughness.  What an iteration still owes is in the buckets to come   *)
(* or among the copies; what a bulk method still owes is planned or under  *)
(* way; and no key is owed twice.                                          *)

UnderWay(p) == pc[p] \in {"act", "callback"}
KeysOf(S) == {e[1] : e \in S}
Copied(p) == batch[p] \cup seen[p]

Remembers(p) ==
    /\ pc[p] = "idle" => contents[p] = {} /\ call[p] = none
    /\ pc[p] # "idle" => m \in contents[p]
    /\ applied[p] \in [Keys -> Nat]

Ranges(p) ==
    /\ pc[p] = "range" => batch[p] = {}
    /\ batch[p] \cap seen[p] = {}
    /\ \A e, f \in Copied(p) : e[1] = f[1] => e = f
    /\ \A e \in Copied(p) : Bucket[e[1]] \notin left[p]
    /\ pc[p] # "idle" =>
         /\ Copied(p) \subseteq Had(p)
         /\ \A e \in Kept(p) : Bucket[e[1]] \in left[p] \/ e \in Copied(p)
         /\ \A k \in Stayed(p) : Bucket[k] \in left[p] \/ k \in KeysOf(Copied(p))

Doomed(p, k) ==
    \/ \E i \in DOMAIN plan[p] : plan[p][i].key = k
    \/ UnderWay(p) /\ sub[p].key = k

RemovesWell(p) ==
    pc[p] # "idle" /\ call[p].kind = "removeFunc" =>
      /\ UnderWay(p) => sub[p].kind = "remove"
      /\ \A i \in DOMAIN plan[p] : plan[p][i].kind = "remove"
      /\ pc[p] \notin {"range", "visit"} =>
           \A e \in Kept(p) : e[2] = call[p].old => Doomed(p, e[1])

Owed(p, k) ==
    \/ UnderWay(p) /\ sub[p].key = k
    \/ pc[p] = "done" /\ ret[p] = <<none>>

ReplacesWell(p) ==
    pc[p] # "idle" /\ call[p].kind = "replaceAll" =>
      /\ pc[p] # "next"
      /\ UnderWay(p) => /\ sub[p].kind = "computeIfPresent" /\ sub[p].fn = call[p].fn
                        /\ sub[p].key \in KeysOf(seen[p])
      /\ \A k \in Keys : /\ applied[p][k] \in {0, 1}
                         /\ applied[p][k] = 1 => /\ k \in KeysOf(seen[p])
                                                 /\ ~(UnderWay(p) /\ sub[p].key = k)
      /\ \A k \in Stayed(p) : k \in KeysOf(seen[p]) => applied[p][k] = 1 \/ Owed(p, k)

Thorough(p) == Remembers(p) /\ Ranges(p) /\ RemovesWell(p) /\ ReplacesWell(p)

SInv ==
    /\ DOMAIN contents = Procs /\ DOMAIN applied = Procs
    /\ \A p \in Procs : Thorough(p)

\* A content more: less was always there, more was there once.
LEMMA OneMoreContent ==
    ASSUME NEW p \in Procs, contents'[p] = contents[p] \cup {m'}
    PROVE  /\ Kept(p)' \subseteq Kept(p) /\ Stayed(p)' \subseteq Stayed(p)
           /\ Had(p) \subseteq Had(p)' /\ m' \in contents'[p]
           /\ \A e \in Kept(p)' : m'[e[1]] = e[2]
           /\ \A k \in Stayed(p)' : m'[k] # none
BY DEF Kept, Stayed, Had

LEMMA ThoroughInit == ScanInit => SInv
<1> SUFFICES ASSUME ScanInit PROVE SInv
  OBVIOUS
<1>1. /\ Init /\ contents = [p \in Procs |-> {}]
      /\ applied = [p \in Procs |-> [k \in Keys |-> 0]]
  BY DEF ScanInit
<1>2. \A p \in Procs : pc[p] = "idle" /\ call[p] = none /\ batch[p] = {} /\ seen[p] = {}
  BY <1>1 DEF Init
<1>3. \A p \in Procs : Remembers(p)
  BY <1>1, <1>2 DEF Remembers
<1>4. \A p \in Procs : Ranges(p) /\ RemovesWell(p) /\ ReplacesWell(p)
  BY <1>2 DEF Ranges, Copied, RemovesWell, ReplacesWell
<1> QED
  BY <1>1, <1>3, <1>4 DEF SInv, Thorough

\* The history of a goroutine: it forgets between calls.
LEMMA History ==
    ASSUME SInv, ScanNext, NEW p \in Procs
    PROVE  /\ pc'[p] = "idle" => contents'[p] = {}
           /\ pc'[p] # "idle" => contents'[p] = contents[p] \cup {m'}
           /\ applied'[p] \in [Keys -> Nat]
           /\ pc[p] = "idle" => applied'[p] = [k \in Keys |-> 0]
           /\ (pc[p] # "idle" /\ pc[p] # "callback") => applied'[p] = applied[p]
           /\ (pc[p] # "idle" /\ pc'[p] # "done") => applied'[p] = applied[p]
           /\ (pc[p] = "callback" /\ pc'[p] = "done" /\ call[p].kind = "replaceAll") =>
                applied'[p] = IF ret'[p] = <<none>> THEN applied[p]
                              ELSE [applied[p] EXCEPT ![sub[p].key] = @ + 1]
<1>1. applied[p] \in [Keys -> Nat]
  BY DEF SInv, Thorough, Remembers
<1>2. applied'[p] =
         IF pc[p] = "idle" THEN [k \in Keys |-> 0]
         ELSE IF pc[p] = "callback" /\ call[p].kind = "replaceAll" /\ ret'[p] # <<none>>
                 /\ pc'[p] = "done"
              THEN [applied[p] EXCEPT ![sub[p].key] = @ + 1] ELSE applied[p]
  BY DEF ScanNext
<1>3. contents'[p] = IF pc'[p] = "idle" THEN {} ELSE contents[p] \cup {m'}
  BY DEF ScanNext
<1>4. [k \in Keys |-> 0] \in [Keys -> Nat]
      /\ [applied[p] EXCEPT ![sub[p].key] = @ + 1] \in [Keys -> Nat]
  <2>1. \A k : \A f \in [Keys -> Nat] : [f EXCEPT ![k] = @ + 1] \in [Keys -> Nat]
    <3> TAKE k
    <3> TAKE f \in [Keys -> Nat]
    <3>1. CASE k \in Keys
      BY <3>1
    <3>2. CASE k \notin Keys
      BY <3>2
    <3> QED
      BY <3>1, <3>2
  <2> QED
    BY <1>1, <2>1
<1> QED
  BY <1>1, <1>2, <1>3, <1>4

LEMMA BystanderStaysThorough ==
    ASSUME SInv, ScanNext, NEW p \in Procs,
           pc'[p] = pc[p], call'[p] = call[p], sub'[p] = sub[p], ret'[p] = ret[p],
           plan'[p] = plan[p], left'[p] = left[p], batch'[p] = batch[p], seen'[p] = seen[p]
    PROVE  Thorough(p)'
<1>t. Remembers(p) /\ Ranges(p) /\ RemovesWell(p) /\ ReplacesWell(p)
  BY DEF SInv, Thorough
<1>1. CASE pc[p] = "idle"
  <2>1. Remembers(p)'
    BY <1>1, <1>t, History DEF Remembers
  <2>2. Ranges(p)'
    BY <1>1, <1>t DEF Ranges, Copied
  <2> QED
    BY <1>1, <2>1, <2>2 DEF Thorough, RemovesWell, ReplacesWell
<1>2. CASE pc[p] # "idle"
  <2>1. contents'[p] = contents[p] \cup {m'} /\ applied'[p] = applied[p]
    BY <1>2, History
  <2>2. /\ Kept(p)' \subseteq Kept(p) /\ Stayed(p)' \subseteq Stayed(p)
        /\ Had(p) \subseteq Had(p)' /\ m' \in contents'[p]
    BY <2>1, OneMoreContent
  <2>3. Remembers(p)'
    BY <1>2, <1>t, <2>1, <2>2 DEF Remembers
  <2>4. Copied(p)' = Copied(p) /\ (UnderWay(p)' <=> UnderWay(p))
    BY DEF Copied, UnderWay
  <2>5. Ranges(p)'
    BY <1>2, <1>t, <2>2, <2>4 DEF Ranges
  <2>6. RemovesWell(p)'
    BY <1>2, <1>t, <2>2, <2>4 DEF RemovesWell, Doomed
  <2>7. ReplacesWell(p)'
    BY <1>2, <1>t, <2>1, <2>2, <2>4 DEF ReplacesWell, Owed
  <2> QED
    BY <2>3, <2>5, <2>6, <2>7 DEF Thorough
<1> QED
  BY <1>1, <1>2

\* A call begins where nothing ran, and is forgotten when it returns.
LEMMA FromAndToIdle ==
    ASSUME IInv, NEW p \in Procs, Moves(p)
    PROVE  /\ pc[p] = "idle" <=> Call(p)
           /\ Call(p) => pc'[p] # "idle"
           /\ pc'[p] = "idle" => Return(p) /\ call'[p] = none
           /\ ~Call(p) /\ ~Return(p) => call' = call /\ call[p] \in Requests
<1>t. Types /\ InACall
  BY DEF IInv
<1>1. CASE Call(p)
  <2>1. PICK q, l : Called(p, q, l)
    BY <1>1, <1>t, CallIs
  <2>2. pc[p] = "idle" /\ pc'[p] # "idle"
    BY <1>t, <2>1 DEF Called, Types
  <2> QED
    BY <1>1, <2>2
<1>2. CASE Return(p)
  <2>1. pc[p] # "idle" /\ pc'[p] = "idle" /\ call'[p] = none
    BY <1>2, <1>t DEF Return, Swept, Goto, Types
  <2>2. ~Call(p)
    BY <2>1 DEF Call
  <2> QED
    BY <1>2, <2>1, <2>2
<1>3. CASE ~Call(p) /\ ~Return(p)
  <2>1. pc[p] # "idle" /\ pc'[p] # "idle" /\ call' = call
    BY <1>3, <1>t, ZenonT(60) DEF Moves, Step, Act, Ask, Answer, Panic, Copy, Visit, NextBucket,
         Collected, Proceed, Resume, Swept, Goto, Types
  <2>2. call[p] \in Requests
    BY <1>t, <2>1 DEF InACall
  <2> QED
    BY <1>3, <2>1, <2>2, SMTT(60)
<1> QED
  BY <1>1, <1>2, <1>3

LEMMA OwnRemembers ==
    ASSUME IInv, SInv, ScanNext, NEW p \in Procs, Moves(p)
    PROVE  Remembers(p)'
BY History, FromAndToIdle, OneMoreContent DEF Remembers

LEMMA RangesKept ==
    ASSUME SInv, ScanNext, NEW p \in Procs, pc[p] # "idle",
           left'[p] = left[p], batch'[p] = batch[p], seen'[p] = seen[p],
           pc'[p] = "range" => batch[p] = {}
    PROVE  Ranges(p)'
<1>1. Ranges(p)
  BY DEF SInv, Thorough
<1>2. Copied(p)' = Copied(p)
  BY DEF Copied
<1>3. CASE pc'[p] = "idle"
  BY <1>1, <1>2, <1>3 DEF Ranges
<1>4. CASE pc'[p] # "idle"
  <2>1. /\ Kept(p)' \subseteq Kept(p) /\ Stayed(p)' \subseteq Stayed(p) /\ Had(p) \subseteq Had(p)'
    BY <1>4, History, OneMoreContent
  <2> QED
    BY <1>1, <1>2, <2>1 DEF Ranges
<1> QED
  BY <1>3, <1>4

LEMMA OwnRanges ==
    ASSUME IInv, SInv, ScanNext, NEW p \in Procs, Moves(p)
    PROVE  Ranges(p)'
<1>t. Types
  BY DEF IInv
<1>r. Ranges(p) /\ Remembers(p)
  BY DEF SInv, Thorough
<1>1. CASE Call(p)
  <2>1. PICK q, l : Called(p, q, l)
    BY <1>1, <1>t, CallIs
  <2>2. /\ left'[p] = Buckets /\ batch'[p] = {} /\ seen'[p] = {} /\ Copied(p)' = {}
    BY <1>t, <2>1 DEF Called, Types, Copied
  <2>3. \A k \in Keys : Bucket[k] \in Buckets
    BY DEF Buckets
  <2>4. (\A e \in Kept(p)' : e[1] \in Keys) /\ Stayed(p)' \subseteq Keys
    BY DEF Kept, Stayed
  <2> QED
    BY <2>2, <2>3, <2>4 DEF Ranges
<1>2. CASE Copy(p)
  <2>1. PICK b \in left[p] :
          /\ pc[p] = "range"
          /\ left' = [left EXCEPT ![p] = @ \ {b}]
          /\ batch' = [batch EXCEPT ![p] = {<<k, m[k]>> : k \in {j \in Stored(m) : Bucket[j] = b}}]
          /\ Goto(p, "visit")
          /\ UNCHANGED <<m, lock, call, sub, todo, plan, seen, ret>>
    BY <1>2 DEF Copy
  <2>2. /\ left'[p] = left[p] \ {b} /\ seen'[p] = seen[p] /\ pc'[p] = "visit" /\ m' = m
        /\ batch'[p] = {<<k, m[k]>> : k \in {j \in Stored(m) : Bucket[j] = b}}
    BY <1>t, <2>1 DEF Types, Goto
  <2>3. /\ batch[p] = {} /\ Copied(p) = seen[p]
    BY <1>r, <2>1 DEF Ranges, Copied
  <2>4. m \in contents[p] /\ contents'[p] = contents[p] \cup {m'}
    BY <1>r, <2>1, <2>2, History DEF Remembers
  <2>5. /\ Kept(p)' \subseteq Kept(p) /\ Stayed(p)' \subseteq Stayed(p) /\ Had(p) \subseteq Had(p)'
    BY <2>4, OneMoreContent
  <2>6. \A e \in batch'[p] : /\ e \in Keys \X Values /\ e[2] = m[e[1]] /\ Bucket[e[1]] = b
                             /\ e = <<e[1], m[e[1]]>>
    BY <1>t, <2>2 DEF Stored, Types, Contents
  <2>7. \A k \in Keys : m[k] # none /\ Bucket[k] = b => <<k, m[k]>> \in batch'[p]
    BY <1>t, <2>2 DEF Stored, Types, Contents
  <2>8. \A e \in seen[p] : Bucket[e[1]] \notin left[p]
    BY <1>r, <2>3 DEF Ranges
  <2>9. /\ batch'[p] \cap seen'[p] = {} /\ \A e \in Copied(p)' : Bucket[e[1]] \notin left'[p]
    BY <2>2, <2>6, <2>8 DEF Copied
  <2>10. \A e, f \in Copied(p)' : e[1] = f[1] => e = f
    <3> SUFFICES ASSUME NEW e \in Copied(p)', NEW f \in Copied(p)', e[1] = f[1] PROVE e = f
      OBVIOUS
    <3>1. CASE e \in seen[p] /\ f \in seen[p]
      BY <1>r, <2>3, <3>1 DEF Ranges
    <3>2. CASE e \in batch'[p] /\ f \in batch'[p]
      BY <2>6, <3>2
    <3>3. ~(e \in seen[p] /\ f \in batch'[p]) /\ ~(e \in batch'[p] /\ f \in seen[p])
      BY <2>6, <2>8
    <3> QED
      BY <2>2, <3>1, <3>2, <3>3 DEF Copied
  <2>11. Copied(p)' \subseteq Had(p)'
    <3>1. seen[p] \subseteq Had(p)'
      BY <1>r, <2>1, <2>3, <2>5 DEF Ranges
    <3>2. batch'[p] \subseteq Had(p)'
      BY <2>4, <2>6 DEF Had
    <3> QED
      BY <2>2, <3>1, <3>2 DEF Copied
  <2>12. \A e \in Kept(p)' : Bucket[e[1]] \in left'[p] \/ e \in Copied(p)'
    <3> SUFFICES ASSUME NEW e \in Kept(p)' PROVE Bucket[e[1]] \in left'[p] \/ e \in Copied(p)'
      OBVIOUS
    <3>1. Bucket[e[1]] \in left[p] \/ e \in seen[p]
      BY <1>r, <2>1, <2>3, <2>5 DEF Ranges
    <3>2. CASE Bucket[e[1]] = b
      <4>1. e \in Keys \X Values /\ m[e[1]] = e[2]
        <5>1. m'[e[1]] = e[2]
          BY <2>4, OneMoreContent
        <5>2. e \in Keys \X Values
          BY DEF Kept
        <5> QED
          BY <2>2, <5>1, <5>2
      <4>2. e = <<e[1], m[e[1]]>> /\ m[e[1]] # none /\ e[1] \in Keys
        BY <4>1
      <4>3. e \in batch'[p]
        BY <2>7, <3>2, <4>2
      <4> QED
        BY <4>3 DEF Copied
    <3> QED
      BY <2>2, <3>1, <3>2 DEF Copied
  <2>13. \A k \in Stayed(p)' : Bucket[k] \in left'[p] \/ k \in KeysOf(Copied(p)')
    <3> SUFFICES ASSUME NEW k \in Stayed(p)' PROVE Bucket[k] \in left'[p] \/ k \in KeysOf(Copied(p)')
      OBVIOUS
    <3>1. Bucket[k] \in left[p] \/ k \in KeysOf(seen[p])
      BY <1>r, <2>1, <2>3, <2>5 DEF Ranges
    <3>2. KeysOf(seen[p]) \subseteq KeysOf(Copied(p)')
      BY <2>2 DEF KeysOf, Copied
    <3>3. CASE Bucket[k] = b
      <4>1. k \in Keys /\ m[k] # none
        BY <2>4 DEF Stayed
      <4>2. <<k, m[k]>> \in Copied(p)'
        BY <2>7, <3>3, <4>1 DEF Copied
      <4> QED
        BY <4>2 DEF KeysOf
    <3> QED
      BY <2>2, <3>1, <3>2, <3>3
  <2> QED
    BY <2>2, <2>9, <2>10, <2>11, <2>12, <2>13 DEF Ranges
<1>3. CASE Visit(p)
  <2>1. PICK e \in batch[p] :
          /\ pc[p] = "visit"
          /\ batch' = [batch EXCEPT ![p] = @ \ {e}]
          /\ seen' = [seen EXCEPT ![p] = @ \cup {e}]
          /\ IF call[p].kind = "replaceAll" THEN Goto(p, "act") ELSE UNCHANGED pc
          /\ UNCHANGED <<m, left>>
    BY <1>3 DEF Visit
  <2>2. /\ left'[p] = left[p] /\ batch'[p] = batch[p] \ {e} /\ seen'[p] = seen[p] \cup {e}
        /\ pc'[p] \in {"visit", "act"}
    BY <1>t, <2>1 DEF Types, Goto
  <2>3. Copied(p)' = Copied(p)
    BY <2>2 DEF Copied
  <2>4. batch'[p] \cap seen'[p] = {}
    BY <1>r, <2>2 DEF Ranges
  <2>5. /\ Kept(p)' \subseteq Kept(p) /\ Stayed(p)' \subseteq Stayed(p) /\ Had(p) \subseteq Had(p)'
    BY <2>2, History, OneMoreContent
  <2> QED
    BY <1>r, <2>1, <2>2, <2>3, <2>4, <2>5 DEF Ranges
<1>4. CASE ~Call(p) /\ ~Copy(p) /\ ~Visit(p)
  <2>1. /\ left'[p] = left[p] /\ batch'[p] = batch[p] /\ seen'[p] = seen[p]
    BY <1>4 DEF Moves, Step, Act, Ask, Answer, Panic, NextBucket, Collected, Proceed, Resume,
         Return, local
  <2>2. pc[p] # "idle"
    BY <1>4, FromAndToIdle
  <2>3. pc'[p] = "range" => batch[p] = {}
    BY <1>4, <1>t DEF Moves, Step, Act, Ask, Answer, Panic, NextBucket, Collected, Proceed, Resume,
         Return, Goto, Types
  <2> QED
    BY <2>1, <2>2, <2>3, RangesKept
<1> QED
  BY <1>1, <1>2, <1>3, <1>4

\* What a goroutine does outside an iteration and a removal.
LEMMA OwnRemovesWell ==
    ASSUME IInv, SInv, ScanNext, NEW p \in Procs, Moves(p)
    PROVE  RemovesWell(p)'
<1>t. Types /\ InACall /\ CallbackHolds
  BY DEF IInv
<1>r. Remembers(p) /\ Ranges(p) /\ RemovesWell(p)
  BY DEF SInv, Thorough
<1> SUFFICES ASSUME pc'[p] # "idle", call'[p].kind = "removeFunc"
             PROVE  /\ UnderWay(p)' => sub'[p].kind = "remove"
                    /\ \A i \in DOMAIN plan'[p] : plan'[p][i].kind = "remove"
                    /\ pc'[p] \notin {"range", "visit"} =>
                         \A e \in Kept(p)' : e[2] = call'[p].old => Doomed(p, e[1])'
  BY DEF RemovesWell
<1>1. CASE Call(p)
  <2>1. PICK q, l : Called(p, q, l)
    BY <1>1, <1>t, CallIs
  <2>2. call'[p] = q /\ plan'[p] = l
    BY <1>t, <2>1 DEF Called, Types, InACall
  <2>3. q.kind \notin Listed /\ q \notin Points
    BY <2>2 DEF Listed, Points, Guarded, Plain
  <2>4. pc'[p] = "range" /\ plan'[p] = <<>>
    BY <1>t, <2>1, <2>2, <2>3 DEF Called, Types
  <2> QED
    BY <2>4 DEF UnderWay
<1> SUFFICES ASSUME ~Call(p) PROVE RemovesWell(p)'
  BY <1>1 DEF RemovesWell
<1>k. /\ pc[p] # "idle" /\ ~Return(p) /\ call' = call /\ call[p] \in Requests
      /\ call[p].kind = "removeFunc"
  <2>1. pc[p] # "idle" /\ ~Return(p)
    BY <1>t, FromAndToIdle DEF Return, Goto, Types
  <2> QED
    BY <2>1, FromAndToIdle
<1>h. /\ contents'[p] = contents[p] \cup {m'} /\ Kept(p)' \subseteq Kept(p)
      /\ \A e \in Kept(p)' : m'[e[1]] = e[2] /\ e \in Keys \X Values
  BY History, OneMoreContent DEF Kept
<1>p. /\ UnderWay(p) => sub[p].kind = "remove"
      /\ \A i \in DOMAIN plan[p] : plan[p][i].kind = "remove"
      /\ pc[p] \notin {"range", "visit"} =>
           \A e \in Kept(p) : e[2] = call[p].old => Doomed(p, e[1])
  BY <1>r, <1>k DEF RemovesWell
<1>2. CASE Copy(p) \/ Visit(p) \/ NextBucket(p)
  <2>1. plan' = plan /\ pc'[p] \in {"range", "visit"}
    BY <1>2, <1>t, <1>k DEF Copy, Visit, NextBucket, Goto, local, Types
  <2> QED
    BY <1>p, <2>1 DEF RemovesWell, UnderWay
<1>3. CASE Collected(p)
  <2>1. PICK l \in Removes(call[p], Accepted(p)) : plan' = [plan EXCEPT ![p] = l]
    BY <1>3 DEF Collected
  <2>2. plan'[p] = l /\ pc'[p] = "next"
    BY <1>3, <1>t, <2>1 DEF Collected, Goto, Types, InACall
  <2>3. Accepted(p) \in SUBSET Keys
    BY <1>t DEF Accepted, Types
  <2>4. /\ \A i \in DOMAIN l : l[i].kind = "remove"
        /\ \A k \in Accepted(p) : \E i \in DOMAIN l : l[i].key = k
    <3>1. call[p] \in Requests
      BY <1>k
    <3> QED
      BY ONLY <2>1, <2>3, <3>1, RemovesType, ZenonT(60)
  <2>5. batch[p] = {} /\ left[p] = {}
    BY <1>3, <1>k DEF Collected, Swept, Stops
  <2>6. Kept(p) \subseteq seen[p]
    BY <1>r, <1>k, <2>5 DEF Ranges, Copied
  <2>7. \A e \in Kept(p)' : e[2] = call[p].old => e[1] \in Accepted(p)
    BY <1>h, <2>6 DEF Accepted
  <2>8. \A e \in Kept(p)' : e[2] = call'[p].old => Doomed(p, e[1])'
    BY <1>k, <2>2, <2>4, <2>7 DEF Doomed
  <2> QED
    BY <2>2, <2>4, <2>8 DEF RemovesWell, UnderWay
<1>4. CASE Proceed(p)
  <2>1. /\ pc[p] = "next" /\ pc'[p] = "act" /\ plan[p] # <<>>
        /\ sub'[p] = Head(plan[p]) /\ plan'[p] = Tail(plan[p])
    BY <1>4, <1>t DEF Proceed, Goto, Types, InACall
  <2>2. plan[p] \in Seq(Chores)
    BY <1>t DEF InACall
  <2>3. /\ 1 \in DOMAIN plan[p] /\ Head(plan[p]) = plan[p][1]
        /\ \A i \in DOMAIN Tail(plan[p]) : i + 1 \in DOMAIN plan[p] /\ Tail(plan[p])[i] = plan[p][i + 1]
        /\ \A i \in DOMAIN plan[p] : i = 1 \/ (i - 1 \in DOMAIN Tail(plan[p]) /\ Tail(plan[p])[i - 1] = plan[p][i])
    BY <2>1, <2>2
  <2>4. \A k : Doomed(p, k) => Doomed(p, k)'
    <3> SUFFICES ASSUME NEW k, Doomed(p, k) PROVE Doomed(p, k)'
      OBVIOUS
    <3>1. PICK i \in DOMAIN plan[p] : plan[p][i].key = k
      BY <2>1 DEF Doomed, UnderWay
    <3>2. CASE i = 1
      BY <2>1, <2>3, <3>1, <3>2 DEF Doomed, UnderWay
    <3>3. CASE i # 1
      <4>1. i - 1 \in DOMAIN plan'[p] /\ plan'[p][i - 1].key = k
        BY <2>1, <2>3, <3>1, <3>3
      <4> QED
        BY <4>1 DEF Doomed
    <3> QED
      BY <3>2, <3>3
  <2>5. sub'[p].kind = "remove" /\ \A i \in DOMAIN plan'[p] : plan'[p][i].kind = "remove"
    BY <1>p, <2>1, <2>3
  <2> QED
    BY <1>h, <1>k, <1>p, <2>1, <2>4, <2>5 DEF RemovesWell
<1>5. CASE Act(p)
  <2>1. /\ pc[p] = "act" /\ pc'[p] = "done" /\ plan' = plan /\ sub' = sub
        /\ m' = Outcome(sub[p], m).s
    BY <1>5, <1>t DEF Act, Goto, Types, local
  <2>2. sub[p].kind = "remove" /\ sub[p] \in Points
    BY <1>p, <1>t, <2>1 DEF UnderWay, InACall
  <2>3. m' = [m EXCEPT ![sub[p].key] = none]
    BY <2>1, <2>2, DoesFields DEF Outcome, Remove
  <2>4. sub[p].key \in Keys => m'[sub[p].key] = none
    BY <1>t, <2>3 DEF Types, Contents
  <2>5. \A e \in Kept(p)' : e[1] # sub[p].key
    BY <1>h, <2>4
  <2>6. \A e \in Kept(p)' : e[2] = call'[p].old => Doomed(p, e[1])'
    BY <1>h, <1>k, <1>p, <2>1, <2>5 DEF Doomed
  <2> QED
    BY <1>p, <2>1, <2>6 DEF RemovesWell, UnderWay
<1>6. CASE Ask(p) \/ Answer(p) \/ Panic(p)
  <2>1. Asks(sub[p], m) /\ UnderWay(p)
    BY <1>6, <1>t DEF Ask, Answer, Panic, CallbackHolds, UnderWay
  <2> QED
    BY <1>p, <2>1 DEF Asks, Guarded
<1>7. CASE Resume(p)
  <2>1. pc[p] = "done" /\ pc'[p] = "next" /\ plan' = plan
    BY <1>7, <1>t, <1>k DEF Resume, Goto, Types, local
  <2> QED
    BY <1>h, <1>k, <1>p, <2>1 DEF RemovesWell, UnderWay, Doomed
<1> QED
  BY <1>k, <1>2, <1>3, <1>4, <1>5, <1>6, <1>7 DEF Moves, Step, Panic

LEMMA OwnReplacesWell ==
    ASSUME IInv, SInv, ScanNext, NEW p \in Procs, Moves(p)
    PROVE  ReplacesWell(p)'
<1>t. Types /\ InACall /\ CallbackHolds
  BY DEF IInv
<1>r. Remembers(p) /\ Ranges(p) /\ ReplacesWell(p)
  BY DEF SInv, Thorough
<1> SUFFICES ASSUME pc'[p] # "idle", call'[p].kind = "replaceAll"
             PROVE  ReplacesWell(p)'
  BY DEF ReplacesWell
<1>1. CASE Call(p)
  <2>1. PICK q, l : Called(p, q, l)
    BY <1>1, <1>t, CallIs
  <2>2. call'[p] = q
    BY <1>t, <2>1 DEF Called, Types
  <2>3. q.kind \notin Listed /\ q \notin Points
    BY <2>2 DEF Listed, Points, Guarded, Plain
  <2>4. pc'[p] = "range"
    BY <1>t, <2>1, <2>3 DEF Called, Types
  <2>5. applied'[p] = [k \in Keys |-> 0] /\ seen'[p] = {}
    BY <1>1, <1>t, <2>1, History, FromAndToIdle DEF Called, Types
  <2> QED
    BY <2>4, <2>5 DEF ReplacesWell, UnderWay, KeysOf
<1> SUFFICES ASSUME ~Call(p) PROVE ReplacesWell(p)'
  BY <1>1
<1>k. /\ pc[p] # "idle" /\ ~Return(p) /\ call' = call /\ call[p] \in Requests
      /\ call[p].kind = "replaceAll"
  <2>1. pc[p] # "idle" /\ ~Return(p)
    BY <1>t, FromAndToIdle DEF Return, Goto, Types
  <2> QED
    BY <2>1, FromAndToIdle
<1>h. /\ contents'[p] = contents[p] \cup {m'} /\ Stayed(p)' \subseteq Stayed(p)
      /\ m \in contents[p] /\ applied[p] \in [Keys -> Nat] /\ Stayed(p) \subseteq Keys
  BY <1>r, <1>k, History, OneMoreContent DEF Remembers, Stayed
<1>p. /\ pc[p] # "next"
      /\ UnderWay(p) => /\ sub[p].kind = "computeIfPresent" /\ sub[p].fn = call[p].fn
                        /\ sub[p].key \in KeysOf(seen[p])
      /\ \A k \in Keys : /\ applied[p][k] \in {0, 1}
                         /\ applied[p][k] = 1 => /\ k \in KeysOf(seen[p])
                                                 /\ ~(UnderWay(p) /\ sub[p].key = k)
      /\ \A k \in Stayed(p) : k \in KeysOf(seen[p]) => applied[p][k] = 1 \/ Owed(p, k)
  BY <1>r, <1>k DEF ReplacesWell
<1>2. CASE Copy(p) \/ NextBucket(p)
  <2>1. pc[p] \in {"range", "visit"} /\ pc'[p] \in {"range", "visit"} /\ seen' = seen
    BY <1>2, <1>t DEF Copy, NextBucket, Goto, local, Types
  <2>2. applied'[p] = applied[p]
    BY <1>k, <2>1, History
  <2> QED
    BY <1>h, <1>p, <2>1, <2>2 DEF ReplacesWell, UnderWay, Owed
<1>3. CASE Visit(p)
  <2>1. PICK e \in batch[p] :
          /\ pc[p] = "visit"
          /\ seen' = [seen EXCEPT ![p] = @ \cup {e}]
          /\ sub' = [sub EXCEPT ![p] = [call[p] EXCEPT !.kind = "computeIfPresent", !.key = e[1]]]
          /\ Goto(p, "act")
    BY <1>3, <1>k DEF Visit
  <2> DEFINE r == [call[p] EXCEPT !.kind = "computeIfPresent", !.key = e[1]]
  <2>2. e[1] \in Keys /\ "computeIfPresent" \in Kinds
    BY <1>t DEF Types, Kinds, Guarded
  <2>3. r.kind = "computeIfPresent" /\ r.fn = call[p].fn /\ r.key = e[1]
    BY <1>k, <2>2 DEF Requests
  <2>4. seen'[p] = seen[p] \cup {e} /\ sub'[p] = r /\ pc'[p] = "act"
    BY <1>t, <2>1 DEF Types, Goto
  <2> HIDE DEF r
  <2>5. KeysOf(seen'[p]) = KeysOf(seen[p]) \cup {e[1]} /\ UnderWay(p)'
    BY <2>4 DEF KeysOf, UnderWay
  <2>6. e[1] \notin KeysOf(seen[p])
    BY <1>r DEF Ranges, Copied, KeysOf
  <2>7. applied'[p] = applied[p]
    BY <1>k, <2>1, History
  <2>8. \A k \in Keys : /\ applied'[p][k] \in {0, 1}
                        /\ applied'[p][k] = 1 => /\ k \in KeysOf(seen'[p])
                                                 /\ ~(UnderWay(p)' /\ sub'[p].key = k)
    BY <1>p, <2>3, <2>4, <2>5, <2>6, <2>7, ZenonT(60)
  <2>9. \A k \in Stayed(p)' : k \in KeysOf(seen'[p]) => applied'[p][k] = 1 \/ Owed(p, k)'
    <3> SUFFICES ASSUME NEW k \in Stayed(p)', k \in KeysOf(seen'[p]), k # e[1]
                 PROVE  applied'[p][k] = 1
      BY <2>3, <2>4, <2>5 DEF Owed
    <3>1. applied[p][k] = 1 \/ Owed(p, k)
      BY <1>h, <1>p, <2>5
    <3>2. ~Owed(p, k)
      BY <2>1 DEF Owed, UnderWay
    <3> QED
      BY <2>7, <3>1, <3>2
  <2> QED
    BY <1>k, <2>3, <2>4, <2>5, <2>8, <2>9 DEF ReplacesWell
<1>4. CASE Act(p)
  <2>1. /\ pc[p] = "act" /\ pc'[p] = "done" /\ ~Asks(sub[p], m) /\ UNCHANGED <<seen, sub>>
    BY <1>4, <1>t DEF Act, Goto, Types, local
  <2>2. m[sub[p].key] = none
    BY <1>p, <2>1 DEF UnderWay, Asks, Guarded
  <2>3. \A k \in Stayed(p) : k # sub[p].key
    BY <1>h, <2>2 DEF Stayed
  <2>4. applied'[p] = applied[p]
    BY <1>k, <2>1, History
  <2>5. \A k \in Stayed(p) : ~Owed(p, k)
    BY <2>1, <2>3 DEF Owed
  <2> QED
    BY <1>h, <1>p, <2>1, <2>4, <2>5 DEF ReplacesWell, UnderWay
<1>5. CASE Ask(p)
  <2>1. pc[p] = "act" /\ pc'[p] = "callback" /\ UNCHANGED <<seen, sub>>
    BY <1>5, <1>t DEF Ask, Goto, Types, local
  <2>2. applied'[p] = applied[p]
    BY <1>k, <2>1, History
  <2> QED
    BY <1>h, <1>k, <1>p, <2>1, <2>2 DEF ReplacesWell, UnderWay, Owed
<1>6. CASE Answer(p)
  <2>1. /\ pc[p] = "callback" /\ pc'[p] = "done" /\ UNCHANGED <<seen, sub>>
        /\ ret'[p] = Outcome(sub[p], m).ret
    BY <1>6, <1>t DEF Answer, Goto, Types, InACall, local
  <2>2. sub[p].kind = "computeIfPresent" /\ m[sub[p].key] # none
    BY <1>p, <1>t, <2>1 DEF UnderWay, CallbackHolds, Asks, Guarded
  <2>3. ret'[p] # <<none>>
    <3>1. ret'[p] = Opt(sub[p].fn[m[sub[p].key]])
      <4>1. Outcome(sub[p], m) = ComputeIfPresent(sub[p], m)
        BY <2>2 DEF Outcome
      <4> QED
        BY <2>1, <2>2, <4>1, DoesFields DEF ComputeIfPresent, Compute
    <3> QED
      BY <3>1 DEF Opt
  <2>4. applied'[p] = [applied[p] EXCEPT ![sub[p].key] = @ + 1]
    BY <1>k, <2>1, <2>3, History
  <2>5. \A k \in Keys : applied'[p][k] = IF k = sub[p].key THEN 1 ELSE applied[p][k]
    BY <1>h, <1>p, <2>1, <2>4 DEF UnderWay
  <2>6. \A k \in Stayed(p) : Owed(p, k) => k = sub[p].key
    BY <2>1 DEF Owed
  <2> QED
    BY <1>h, <1>p, <2>1, <2>5, <2>6 DEF ReplacesWell, UnderWay
<1>7. CASE Panic(p)
  <2>1. pc[p] = "callback" /\ pc'[p] = "done" /\ UNCHANGED <<seen, sub>> /\ ret'[p] = <<none>>
    BY <1>7, <1>t DEF Panic, Goto, Types, InACall, local
  <2>2. applied'[p] = applied[p]
    BY <1>k, <2>1, History
  <2> QED
    BY <1>h, <1>p, <2>1, <2>2 DEF ReplacesWell, UnderWay, Owed
<1>8. CASE Resume(p)
  <2>1. pc[p] = "done" /\ pc'[p] = "visit" /\ seen' = seen /\ ret[p] # <<none>>
    BY <1>8, <1>t, <1>k DEF Resume, Goto, Types, local
  <2>2. applied'[p] = applied[p]
    BY <1>k, <2>1, History
  <2>3. \A k \in Stayed(p) : ~Owed(p, k)
    BY <2>1 DEF Owed, UnderWay
  <2> QED
    BY <1>h, <1>p, <2>1, <2>2, <2>3 DEF ReplacesWell, UnderWay
<1>9. ~Collected(p) /\ ~Proceed(p)
  BY <1>k, <1>p DEF Collected, Proceed
<1> QED
  BY <1>k, <1>2, <1>3, <1>4, <1>5, <1>6, <1>7, <1>8, <1>9 DEF Moves, Step

LEMMA StepThorough == IInv /\ SInv /\ [ScanNext]_<<vars, contents, applied>> => SInv'
<1> SUFFICES ASSUME IInv, SInv, [ScanNext]_<<vars, contents, applied>> PROVE SInv'
  OBVIOUS
<1>1. CASE UNCHANGED <<vars, contents, applied>>
  BY <1>1 DEF vars, local, SInv, Thorough, Remembers, Ranges, RemovesWell, ReplacesWell, UnderWay,
       Copied, Doomed, Owed, Kept, Had, Stayed, KeysOf
<1>2. ASSUME ScanNext, NEW p \in Procs, Moves(p), NEW q \in Procs PROVE Thorough(q)'
  <2>1. CASE q = p
    BY <1>2, <2>1, OwnRemembers, OwnRanges, OwnRemovesWell, OwnReplacesWell DEF Thorough
  <2>2. CASE q # p
    <3>1. /\ pc'[q] = pc[q] /\ call'[q] = call[q] /\ sub'[q] = sub[q] /\ ret'[q] = ret[q]
          /\ plan'[q] = plan[q] /\ left'[q] = left[q] /\ batch'[q] = batch[q] /\ seen'[q] = seen[q]
      BY <1>2, <2>2, StepIsLocal DEF OthersKeep
    <3> QED
      BY <1>2, <3>1, BystanderStaysThorough
  <2> QED
    BY <2>1, <2>2
<1>3. ASSUME ScanNext, Terminated, NEW q \in Procs PROVE Thorough(q)'
  <2>1. /\ pc'[q] = pc[q] /\ call'[q] = call[q] /\ sub'[q] = sub[q] /\ ret'[q] = ret[q]
        /\ plan'[q] = plan[q] /\ left'[q] = left[q] /\ batch'[q] = batch[q] /\ seen'[q] = seen[q]
    BY <1>3 DEF Terminated, vars, local
  <2> QED
    BY <1>3, <2>1, BystanderStaysThorough
<1>4. CASE ScanNext
  <2>1. DOMAIN contents' = Procs /\ DOMAIN applied' = Procs
    BY <1>4 DEF ScanNext
  <2>2. Terminated \/ \E p \in Procs : Moves(p)
    BY <1>4 DEF ScanNext, Next, Moves
  <2>3. \A q \in Procs : Thorough(q)'
    BY <1>2, <1>3, <1>4, <2>2
  <2> QED
    BY <2>1, <2>3 DEF SInv
<1> QED
  BY <1>1, <1>4

LEMMA ScanInvariance == ScanSpec => [](IInv /\ SInv)
<1>1. ScanInit => IInv /\ SInv
  BY InitInvariant, ThoroughInit DEF ScanInit
<1>2. IInv /\ [ScanNext]_<<vars, contents, applied>> => IInv'
  <2>1. [ScanNext]_<<vars, contents, applied>> => [Next]_vars
    BY DEF ScanNext
  <2> QED
    BY <2>1, StepTypes, StepLock, StepCall, StepCallback DEF IInv
<1> QED
  BY <1>1, <1>2, StepThorough, PTL DEF ScanSpec

(* However the buckets, the calls of others and the iteration's own        *)
(* callbacks interleave: an iteration is told of every entry that stayed,  *)
(* of no key twice and of nothing that never was; RemoveFunc leaves no     *)
(* entry it accepts and that stayed; ReplaceAll replaces every value that  *)
(* stayed, once.                                                           *)
THEOREM HashMapScansAreThorough == ScanSpec => []ScansAreThorough
<1>1. IInv /\ SInv => ScansAreThorough
  <2> SUFFICES ASSUME SInv, NEW p \in Procs
               PROVE  /\ seen[p] \subseteq Had(p) \/ pc[p] = "idle"
                      /\ \A e, f \in seen[p] : e[1] = f[1] => e = f
                      /\ Over(p) => Kept(p) \subseteq seen[p] \/ Stops(p)
                      /\ pc[p] = "next" /\ plan[p] = <<>> /\ call[p].kind = "removeFunc" =>
                           \A e \in Kept(p) : e[2] # call[p].old
                      /\ call[p] # none /\ call[p].kind = "replaceAll" =>
                           /\ \A k \in Keys : applied[p][k] <= 1
                           /\ Over(p) => \A k \in Stayed(p) : applied[p][k] = 1
    BY DEF ScansAreThorough, ScanIsComplete, BulkIsThorough
  <2>t. Remembers(p) /\ Ranges(p) /\ RemovesWell(p) /\ ReplacesWell(p)
    BY DEF SInv, Thorough
  <2>1. seen[p] \subseteq Had(p) \/ pc[p] = "idle"
    BY <2>t DEF Ranges, Copied
  <2>2. \A e, f \in seen[p] : e[1] = f[1] => e = f
    BY <2>t DEF Ranges, Copied
  <2>3. Over(p) => Kept(p) \subseteq seen[p]
    BY <2>t DEF Ranges, Copied, Over
  <2>4. pc[p] = "next" /\ plan[p] = <<>> /\ call[p].kind = "removeFunc" =>
          \A e \in Kept(p) : e[2] # call[p].old
    BY <2>t DEF RemovesWell, Doomed, UnderWay
  <2>5. ASSUME call[p] # none, call[p].kind = "replaceAll"
        PROVE  /\ \A k \in Keys : applied[p][k] <= 1
               /\ Over(p) => \A k \in Stayed(p) : applied[p][k] = 1
    <3>1. pc[p] # "idle"
      BY <2>t, <2>5 DEF Remembers
    <3>2. \A k \in Keys : applied[p][k] <= 1
      BY <2>t, <2>5, <3>1 DEF ReplacesWell
    <3>3. ASSUME Over(p), NEW k \in Stayed(p) PROVE applied[p][k] = 1
      <4>1. k \in KeysOf(seen[p])
        <5>1. left[p] = {} /\ Copied(p) = seen[p]
          BY <3>3 DEF Over, Copied
        <5> QED
          BY <2>t, <3>1, <5>1 DEF Ranges
      <4>2. ~Owed(p, k)
        BY <3>3 DEF Over, Owed, UnderWay
      <4> QED
        BY <2>t, <2>5, <3>1, <4>1, <4>2 DEF ReplacesWell
    <3> QED
      BY <3>2, <3>3
  <2> QED
    BY <2>1, <2>2, <2>3, <2>4, <2>5
<1> QED
  BY <1>1, ScanInvariance, PTL

(* ReplaceAll writes a function of the value it overwrites, and brings no  *)
(* removed key back, whatever lands between its Range and its Compute.     *)
THEOREM HashMapReplacesWhatIsThere == ScanSpec => ReplacesWhatIsThere
<1> DEFINE WritesOnce(p) ==
      /\ call[p] # none /\ call[p].kind = "replaceAll"
      /\ pc[p] # "done" /\ pc'[p] = "done"
      => \A k \in Keys : m'[k] # m[k] => m[k] # none /\ m'[k] = call[p].fn[m[k]]
<1>1. IInv /\ SInv /\ [ScanNext]_<<vars, contents, applied>> => [\A p \in Procs : WritesOnce(p)]_vars
  <2> SUFFICES ASSUME IInv, SInv, ScanNext, NEW p \in Procs,
                      call[p] # none, call[p].kind = "replaceAll",
                      pc[p] # "done", pc'[p] = "done",
                      NEW k \in Keys, m'[k] # m[k]
               PROVE  m[k] # none /\ m'[k] = call[p].fn[m[k]]
    OBVIOUS
  <2>t. Types /\ InACall /\ CallbackHolds /\ Remembers(p) /\ ReplacesWell(p)
    BY DEF IInv, SInv, Thorough
  <2>1. Moves(p)
    <3>1. ~Terminated
      BY DEF Terminated, vars
    <3>2. PICK q \in Procs : Moves(q)
      BY <3>1 DEF ScanNext, Next, Moves
    <3> QED
      BY <3>2, StepIsLocal DEF OthersKeep
  <2>2. Act(p) \/ Answer(p)
    <3>1. CASE Call(p)
      <4>1. PICK q, l : Called(p, q, l)
        BY <2>t, <3>1, CallIs, SMTT(60)
      <4> QED
        BY <2>t, <4>1 DEF Called, Types
    <3>2. CASE ~Call(p) /\ ~(Act(p) \/ Answer(p))
      BY <2>t, <2>1, <3>2 DEF Moves, Step, Ask, Panic, Copy, Visit, NextBucket, Collected,
           Proceed, Resume, Return, Goto, Types
    <3> QED
      BY <3>1, <3>2
  <2>3. /\ m' = Outcome(sub[p], m).s /\ pc[p] \in {"act", "callback"} /\ sub[p] \in Points
    BY <2>2, WritesContents
  <2>4. sub[p].kind = "computeIfPresent" /\ sub[p].fn = call[p].fn
    BY <2>t, <2>3 DEF ReplacesWell, UnderWay
  <2>5. Outcome(sub[p], m) = ComputeIfPresent(sub[p], m)
    BY <2>4 DEF Outcome
  <2>6. CASE m[sub[p].key] = none
    BY <2>3, <2>5, <2>6, DoesFields DEF ComputeIfPresent
  <2>7. CASE m[sub[p].key] # none
    <3>1. m' = [m EXCEPT ![sub[p].key] = sub[p].fn[m[sub[p].key]]]
      BY <2>3, <2>5, <2>7, DoesFields DEF ComputeIfPresent, Compute
    <3> QED
      BY <2>t, <2>4, <2>7, <3>1, SMTT(60) DEF Types, Contents
  <2> QED
    BY <2>6, <2>7
<1> QED
  BY <1>1, ScanInvariance, PTL DEF ScanSpec, ReplacesWhatIsThere
=============================================================================
