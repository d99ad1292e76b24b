----------------------- MODULE ConcurrentSkipMapProofs -----------------------
(***************************************************************************)
(* The proof of what concurrentSkipMap promises of its calls and of what   *)
(* its walks answer, for any number of goroutines, keys, calls and         *)
(* callbacks, wherever their steps and their user code fall.               *)
(*                                                                         *)
(* No lock orders anything here.  What carries the proof is that a write   *)
(* is one step whose outcome its call promises whatever was loaded before, *)
(* and that a walk has told of every key that stayed and is not in front   *)
(* of it.                                                                  *)
(***************************************************************************)
EXTENDS SkipMapScans, FiniteSetTheorems, FunctionTheorems, SequenceTheorems, TLAPS

USE KeyAssumption, ValueAssumption, ProcAssumption, StartAssumption, MenuAssumption

-----------------------------------------------------------------------------
(* What one operation leaves behind.                                       *)

Points == Loading \cup {"get", "remove", "putIfAbsent"}

LEMMA DoesFields == \A s, r : Does(s, r).s = s /\ Does(s, r).ret = r
BY DEF Does

LEMMA PointUpdate ==
    ASSUME NEW s \in Contents, NEW k, NEW v \in Values \cup {none}
    PROVE  [s EXCEPT ![k] = v] \in Contents
BY DEF Contents

\* The content after an operation on the key of q.
Changed(q, s) ==
    {s} \cup {[s EXCEPT ![q.key] = v] : v \in {q.val, none, q.fn[none], q.fn[s[q.key]]}}

LEMMA PointOutcome ==
    ASSUME NEW q, q.kind \in Points, NEW s
    PROVE  Outcome(q, s).s \in Changed(q, s)
<1> DEFINE To(v) == [s EXCEPT ![q.key] = v]
<1>c. /\ s \in Changed(q, s) /\ To(q.val) \in Changed(q, s) /\ To(none) \in Changed(q, s)
      /\ To(q.fn[none]) \in Changed(q, s) /\ To(q.fn[s[q.key]]) \in Changed(q, s)
  BY DEF Changed
<1> USE <1>c, DoesFields
<1>1. CASE q.kind = "put"
  BY <1>1 DEF Outcome, Put
<1>2. CASE q.kind = "putIfAbsent"
  <2>1. Outcome(q, s) = PutIfAbsent(q, s)
    BY <1>2 DEF Outcome
  <2> QED
    BY <2>1 DEF PutIfAbsent
<1>3. CASE q.kind = "get"
  BY <1>3 DEF Outcome, Get
<1>4. CASE q.kind = "remove"
  <2>1. Outcome(q, s) = Remove(q, s)
    BY <1>4 DEF Outcome
  <2> QED
    BY <2>1 DEF Remove
<1>5. CASE q.kind = "removeIf"
  <2>1. Outcome(q, s) = RemoveIf(q, s)
    BY <1>5 DEF Outcome
  <2> QED
    BY <2>1 DEF RemoveIf
<1>6. CASE q.kind = "compute"
  <2>1. Outcome(q, s) = Compute(q, s)
    BY <1>6 DEF Outcome
  <2> QED
    BY <2>1 DEF Compute
<1>7. CASE q.kind = "computeIfAbsent"
  <2>1. Outcome(q, s) = ComputeIfAbsent(q, s)
    BY <1>7 DEF Outcome
  <2> QED
    BY <2>1 DEF ComputeIfAbsent
<1>8. CASE q.kind = "computeIfPresent"
  <2>1. Outcome(q, s) = ComputeIfPresent(q, s)
    BY <1>8 DEF Outcome
  <2> QED
    BY <2>1 DEF ComputeIfPresent, Compute
<1>9. CASE q.kind = "merge"
  <2>1. Outcome(q, s) = Merge(q, s)
    BY <1>9 DEF Outcome
  <2> QED
    BY <2>1 DEF Merge, Compute
<1>10. CASE q.kind = "replace"
  <2>1. Outcome(q, s) = Replace(q, s)
    BY <1>10 DEF Outcome
  <2> QED
    BY <2>1 DEF Replace, Put
<1>11. CASE q.kind = "replaceIf"
  <2>1. Outcome(q, s) = ReplaceIf(q, s)
    BY <1>11 DEF Outcome
  <2> QED
    BY <2>1 DEF ReplaceIf
<1> QED
  BY <1>1, <1>2, <1>3, <1>4, <1>5, <1>6, <1>7, <1>8, <1>9, <1>10, <1>11
     DEF Points, Loading

LEMMA ChangedType ==
    ASSUME NEW q \in Requests, NEW s \in Contents
    PROVE  Changed(q, s) \subseteq Contents
<1>1. /\ q.val \in Values /\ q.key \in Keys
      /\ q.fn \in [Values \cup {none} -> Values \cup {none}]
  BY DEF Requests
<1>2. s[q.key] \in Values \cup {none}
  BY <1>1 DEF Contents
<1>3. q.fn[none] \in Values \cup {none} /\ q.fn[s[q.key]] \in Values \cup {none}
  BY <1>1, <1>2
<1>4. \A v \in {q.val, none, q.fn[none], q.fn[s[q.key]]} : [s EXCEPT ![q.key] = v] \in Contents
  BY <1>1, <1>3, PointUpdate
<1> QED
  BY <1>4 DEF Changed

LEMMA OutcomeType ==
    ASSUME NEW q \in Requests, q.kind \in Points, NEW s \in Contents
    PROVE  Outcome(q, s).s \in Contents
BY PointOutcome, ChangedType

LEMMA StoreType ==
    ASSUME NEW q \in Requests, NEW s \in Contents
    PROVE  Store(q, s).s = [s EXCEPT ![q.key] = q.val] /\ Store(q, s).s \in Contents
<1>1. q.val \in Values
  BY DEF Requests
<1>2. Store(q, s).s = [s EXCEPT ![q.key] = q.val]
  BY DoesFields DEF Store
<1>3. [s EXCEPT ![q.key] = q.val] \in Contents
  BY <1>1, PointUpdate
<1> QED
  BY <1>2, <1>3

LEMMA DecisionType ==
    ASSUME NEW q \in Requests, q.kind \in Loading, NEW v \in Values \cup {none}, NEW s \in Contents
    PROVE  Decision(q, v, s).s \in Contents
<1> DEFINE now == Outcome(q, [s EXCEPT ![q.key] = v])
<1>1. [s EXCEPT ![q.key] = v] \in Contents
  BY PointUpdate
<1>2. now.s \in Contents /\ Outcome(q, s).s \in Contents
  BY <1>1, OutcomeType DEF Points
<1> HIDE DEF now
<1>3. Decision(q, v, s) \in {Outcome(q, s), Does(now.s, <<>>), Does(now.s, <<1>>), Does(s, <<>>), now}
  BY DEF Decision, now
<1> QED
  BY <1>2, <1>3, DoesFields

-----------------------------------------------------------------------------
(* What a method has planned.                                              *)

\* The updates bulk methods are made of.
Chores == {q \in Requests : q.kind \in {"store", "remove"}}

LEMMA ChoreKinds == Chores \subseteq Requests /\ {"store", "remove"} \subseteq Kinds
BY DEF Chores, Kinds, Single

LEMMA RemovingType ==
    ASSUME NEW q \in Requests, NEW k \in Keys
    PROVE  /\ Removing(q, k) \in Chores /\ Removing(q, k).kind = "remove"
           /\ Removing(q, k).key = k
BY ChoreKinds, ZenonT(60) DEF Removing, Chores, Requests

LEMMA StoringType ==
    ASSUME NEW q \in Requests, NEW k \in Keys, NEW v \in Values
    PROVE  /\ Storing(q, k, v) \in Chores /\ Storing(q, k, v).kind = "store"
           /\ Storing(q, k, v).key = k /\ Storing(q, k, v).val = v
BY ChoreKinds, ZenonT(60) DEF Storing, Chores, Requests

LEMMA PutsType == ASSUME NEW q \in Requests PROVE Puts(q) \in Seq(Chores)
<1>1. q.puts \in Seq(Keys \X Values)
  BY DEF Requests
<1>2. Len(q.puts) \in Nat /\ q.puts \in [1 .. Len(q.puts) -> Keys \X Values]
  BY <1>1, LenProperties
<1>3. ASSUME NEW i \in DOMAIN q.puts
      PROVE  Storing(q, q.puts[i][1], q.puts[i][2]) \in Chores
  <2>1. q.puts[i] \in Keys \X Values
    BY <1>2, <1>3
  <2>2. q.puts[i][1] \in Keys /\ q.puts[i][2] \in Values
    BY <2>1
  <2> QED
    BY <2>2, StoringType, Zenon
<1>4. Puts(q) \in [1 .. Len(q.puts) -> Chores]
  BY <1>2, <1>3 DEF Puts
<1> QED
  BY <1>2, <1>4, SeqDef

LEMMA PlansType ==
    ASSUME NEW q \in Requests, NEW l \in Plans(q)
    PROVE  l \in Seq(Chores) /\ (q.kind = "removeFunc" => l = <<>>)
<1>1. CASE q.kind \in {"putSeq", "replaceEntries"}
  BY <1>1, PutsType DEF Plans
<1>2. CASE q.kind = "removeAll"
  <2>1. PICK s \in Seqs!SetToSeqs(q.keys) : l = [i \in DOMAIN s |-> Removing(q, s[i])]
    BY <1>2 DEF Plans
  <2>2. q.keys \in SUBSET Keys
    BY DEF Requests
  <2>3. Cardinality(q.keys) \in Nat
    BY <2>2, FS_Subset, FS_CardinalityType
  <2>4. s \in [1 .. Cardinality(q.keys) -> q.keys]
    <3>1. Seqs!Cardinality(q.keys) = Cardinality(q.keys)
      BY DEF Seqs!Cardinality, Cardinality, Seqs!IsFiniteSet, IsFiniteSet
    <3> QED
      BY <3>1 DEF Seqs!SetToSeqs
  <2>5. l \in [1 .. Cardinality(q.keys) -> Chores]
    BY <2>1, <2>2, <2>4, RemovingType
  <2> QED
    BY <1>2, <2>3, <2>5, SeqDef
<1>3. CASE q.kind \notin {"putSeq", "replaceEntries", "removeAll"}
  <2>1. l = <<>>
    BY <1>3 DEF Plans
  <2> QED
    BY <2>1, EmptySeq
<1> QED
  BY <1>1, <1>2, <1>3

-----------------------------------------------------------------------------
(* The inductive invariant: what is under way where, and that a walk is in *)
(* front of what it cannot miss.                                           *)

Telling == {"scan", "removeFunc", "replaceAll"}

Types ==
    /\ m \in Contents
    /\ pc \in [Procs -> {"idle", "act", "load", "decide", "size", "walk", "told", "next", "done"}]
    /\ call \in [Procs -> Requests \cup {none}]
    /\ sub \in [Procs -> Requests \cup {none}]
    /\ todo \in [Procs -> SUBSET Requests]
    /\ plan \in [Procs -> Seq(Chores)]
    /\ got \in [Procs -> Values \cup {none}]
    /\ walk \in [Procs -> Walks(Keys)]
    /\ seen \in [Procs -> Seq(Keys \X Values)]
    /\ DOMAIN ret = Procs

AheadOfWalk == \A p \in Procs : walk[p].due \subseteq {k \in Stored(m) : k > walk[p].pos}

\* What the goroutine is doing, by where it is.
Place(p) ==
    /\ pc[p] # "idle" => call[p] \in Requests /\ sub[p] \in Requests
    /\ pc[p] \in {"load", "decide", "size", "walk", "told", "next"} =>
         sub[p] = call[p] \/ (pc[p] = "walk" /\ call[p].kind \in Popping)
    /\ pc[p] \in {"load", "decide"} => call[p].kind \in Loading
    /\ pc[p] = "size" => call[p].kind = "removeFunc"
    /\ pc[p] = "walk" => call[p].kind \in Walking
    /\ pc[p] = "told" => call[p].kind \in Telling /\ seen[p] # <<>>
    /\ pc[p] = "next" => call[p].kind \in Listed \cup {"removeFunc", "replaceEntries"}
    /\ pc[p] \in {"act", "done"} =>
         \/ call[p].kind \in Single /\ sub[p] = call[p]
         \/ call[p].kind \in Popping /\ (pc[p] = "act" => sub[p].kind = "remove")
         \/ call[p].kind \in Writing /\ sub[p].kind \in {"store", "remove"}
         \/ pc[p] = "done" /\ sub[p] = call[p]

IInv == Types /\ AheadOfWalk /\ \A p \in Procs : Place(p)

LEMMA InitInvariant == Init => IInv
<1> SUFFICES ASSUME Init PROVE IInv
  OBVIOUS
<1>1. Types
  <2>1. plan \in [Procs -> Seq(Chores)] /\ seen \in [Procs -> Seq(Keys \X Values)]
    BY EmptySeq DEF Init
  <2>2. walk \in [Procs -> Walks(Keys)]
    BY DEF Init, Begun, Walks
  <2> QED
    BY <2>1, <2>2 DEF Init, Types
<1>2. AheadOfWalk
  BY DEF Init, AheadOfWalk, Begun
<1>3. \A p \in Procs : Place(p)
  BY DEF Init, Place
<1> QED
  BY <1>1, <1>2, <1>3 DEF IInv

-----------------------------------------------------------------------------
(* The steps that choose, for the parts of the invariant.                  *)

\* What a call does, its request q and its plan l.
Called(p, q, l) ==
    /\ pc[p] = "idle" /\ q \in Requests /\ l \in Seq(Chores)
    /\ q.kind = "removeFunc" => l = <<>>
    /\ todo' = [todo EXCEPT ![p] = @ \ {q}]
    /\ call' = [call EXCEPT ![p] = q]
    /\ sub' = [sub EXCEPT ![p] = q]
    /\ plan' = [plan EXCEPT ![p] = l]
    /\ walk' = [walk EXCEPT ![p] = Begun(Stored(m))]
    /\ UNCHANGED <<m, got, seen, ret>>
    /\ \/ q.kind \in Single /\ pc' = [pc EXCEPT ![p] = "act"]
       \/ q.kind \in Loading /\ pc' = [pc EXCEPT ![p] = "load"]
       \/ q.kind = "removeFunc" /\ pc' = [pc EXCEPT ![p] = "size"]
       \/ q.kind \in Walking \ {"removeFunc"} /\ pc' = [pc EXCEPT ![p] = "walk"]
       \/ q.kind \in Listed /\ pc' = [pc EXCEPT ![p] = "next"]

LEMMA CallIs ==
    ASSUME Types, NEW p \in Procs, Call(p)
    PROVE  \E q, l : Called(p, q, l)
<1> DEFINE To(q) == CASE q.kind \in Single -> "act" [] q.kind \in Loading -> "load"
                      [] q.kind = "removeFunc" -> "size"
                      [] q.kind \in Walking \ {"removeFunc"} -> "walk" [] OTHER -> "next"
<1>1. PICK q \in todo[p] :
        /\ todo' = [todo EXCEPT ![p] = @ \ {q}]
        /\ call' = [call EXCEPT ![p] = q]
        /\ sub' = [sub EXCEPT ![p] = q]
        /\ \E l \in Plans(q) : plan' = [plan EXCEPT ![p] = l]
        /\ Goto(p, To(q))
  BY DEF Call
<1>2. PICK l \in Plans(q) : plan' = [plan EXCEPT ![p] = l]
  BY <1>1
<1>3. q \in Requests
  BY DEF Types
<1>4. l \in Seq(Chores) /\ (q.kind = "removeFunc" => l = <<>>)
  BY <1>3, PlansType
<1>5. q.kind \in Single \cup Loading \cup Walking \cup Listed
  BY <1>3 DEF Requests, Kinds
<1>d. /\ Single \cap Loading = {} /\ Single \cap Walking = {} /\ Single \cap Listed = {}
      /\ Loading \cap Walking = {} /\ Loading \cap Listed = {} /\ Walking \cap Listed = {}
      /\ "removeFunc" \in Walking /\ "removeFunc" \notin Single \cup Loading
  BY DEF Single, Loading, Walking, Listed, Navigations, Popping
<1>6. \/ q.kind \in Single /\ To(q) = "act"
      \/ q.kind \in Loading /\ To(q) = "load"
      \/ q.kind = "removeFunc" /\ To(q) = "size"
      \/ q.kind \in Walking \ {"removeFunc"} /\ To(q) = "walk"
      \/ q.kind \in Listed /\ To(q) = "next"
  <2>1. q.kind \in Single => To(q) = "act"
    BY <1>d
  <2>2. q.kind \in Loading => To(q) = "load"
    BY <1>d
  <2>3. q.kind = "removeFunc" => To(q) = "size"
    BY <1>d
  <2>4. q.kind \in Walking /\ q.kind # "removeFunc" => To(q) = "walk"
    BY <1>d
  <2>5. q.kind \in Listed => To(q) = "next"
    BY <1>d
  <2> HIDE DEF To
  <2> QED
    BY <1>5, <2>1, <2>2, <2>3, <2>4, <2>5
<1> HIDE DEF To
<1>7. pc' = [pc EXCEPT ![p] = To(q)]
  BY <1>1 DEF Goto
<1>8. pc[p] = "idle" /\ walk' = [walk EXCEPT ![p] = Begun(Stored(m))] /\ UNCHANGED <<m, got, seen, ret>>
  BY DEF Call
<1>9. Called(p, q, l)
  BY <1>1, <1>2, <1>3, <1>4, <1>6, <1>7, <1>8 DEF Called
<1> QED
  BY <1>9

\* The end of a walk that told of the entries s.
Concluded(p, s) ==
    \/ /\ call[p].kind \in Popping /\ s # <<>>
       /\ sub' = [sub EXCEPT ![p] = Removing(call[p], Rest(s)[1])]
       /\ pc' = [pc EXCEPT ![p] = "act"]
       /\ UNCHANGED <<plan, ret>>
    \/ /\ call[p].kind \in {"removeFunc", "replaceEntries"}
       /\ pc' = [pc EXCEPT ![p] = "next"]
       /\ UNCHANGED <<sub, plan, ret>>
    \/ /\ call[p].kind \notin {"removeFunc", "replaceEntries"}
       /\ call[p].kind \in Popping => s = <<>>
       /\ ret' = [ret EXCEPT ![p] = Answer(call[p], s)]
       /\ pc' = [pc EXCEPT ![p] = "done"]
       /\ UNCHANGED <<sub, plan>>

LEMMA ConcludeIs ==
    ASSUME NEW p \in Procs, NEW s, Conclude(p, s)
    PROVE  Concluded(p, s)
<1>1. {"removeFunc", "replaceEntries"} \cap Popping = {}
  BY DEF Popping
<1>2. CASE call[p].kind \in Popping /\ s # <<>>
  BY <1>2 DEF Conclude, Concluded, Goto
<1>3. CASE call[p].kind \in {"removeFunc", "replaceEntries"}
  BY <1>1, <1>3 DEF Conclude, Concluded, Goto
<1>4. CASE ~(call[p].kind \in Popping /\ s # <<>>) /\ call[p].kind \notin {"removeFunc", "replaceEntries"}
  BY <1>4 DEF Conclude, Concluded, Goto
<1> QED
  BY <1>2, <1>3, <1>4

\* The walk of p reaches key k.
Visited(p, k) ==
    LET told == Append(seen[p], <<k, m[k]>>)
        q == call[p]
    IN  /\ pc[p] = "walk" /\ k \in Keys /\ m[k] \in Values /\ k > walk[p].pos
        /\ \A d \in walk[p].due : k <= d
        /\ walk' = [walk EXCEPT ![p] = Moved(@, k)]
        /\ seen' = [seen EXCEPT ![p] = told]
        /\ UNCHANGED <<m, call, todo, got>>
        /\ \/ Halts(q, k, m[k]) /\ Concluded(p, told)
           \/ /\ ~Halts(q, k, m[k]) /\ q.kind \in {"clear", "replaceEntries"}
              /\ sub' = [sub EXCEPT ![p] = Removing(q, k)]
              /\ pc' = [pc EXCEPT ![p] = "act"]
              /\ UNCHANGED <<plan, ret>>
           \/ /\ ~Halts(q, k, m[k]) /\ q.kind \in Telling
              /\ pc' = [pc EXCEPT ![p] = "told"]
              /\ UNCHANGED <<sub, plan, ret>>
           \/ /\ ~Halts(q, k, m[k]) /\ q.kind \notin Telling \cup {"clear", "replaceEntries"}
              /\ UNCHANGED <<pc, sub, plan, ret>>

LEMMA StoredType ==
    ASSUME NEW s \in Contents, NEW k
    PROVE  k \in Stored(s) <=> k \in Keys /\ s[k] \in Values
BY DEF Stored, Contents

LEMMA VisitIs ==
    ASSUME Types, NEW p \in Procs, Visit(p)
    PROVE  \E k \in Keys : Visited(p, k)
<1>1. PICK k \in Reached(walk[p], Stored(m)) :
        LET told == Append(seen[p], <<k, m[k]>>)
            q == call[p]
        IN  /\ pc[p] = "walk"
            /\ walk' = [walk EXCEPT ![p] = Moved(@, k)]
            /\ seen' = [seen EXCEPT ![p] = told]
            /\ CASE Halts(q, k, m[k]) -> Conclude(p, told)
                 [] q.kind \in {"clear", "replaceEntries"} ->
                      /\ sub' = [sub EXCEPT ![p] = Removing(q, k)]
                      /\ Goto(p, "act")
                      /\ UNCHANGED <<plan, ret>>
                 [] q.kind \in {"scan", "removeFunc", "replaceAll"} ->
                      Goto(p, "told") /\ UNCHANGED <<sub, plan, ret>>
                 [] OTHER -> UNCHANGED <<pc, sub, plan, ret>>
            /\ UNCHANGED <<m, call, todo, got>>
  BY DEF Visit
<1> DEFINE told == Append(seen[p], <<k, m[k]>>)
           q == call[p]
<1>2. k \in Keys /\ m[k] \in Values /\ k > walk[p].pos /\ \A d \in walk[p].due : k <= d
  BY StoredType DEF Reached, Types
<1>3. {"clear", "replaceEntries"} \cap Telling = {}
  BY DEF Telling
<1>4. \A n \in {"clear", "replaceEntries"} \cup Telling : q.kind = n => ~Halts(q, k, m[k])
  BY DEF Halts, Telling, Navigations
<1>5. \/ Halts(q, k, m[k]) /\ Conclude(p, told)
      \/ /\ ~Halts(q, k, m[k]) /\ q.kind \in {"clear", "replaceEntries"}
         /\ sub' = [sub EXCEPT ![p] = Removing(q, k)]
         /\ Goto(p, "act")
         /\ UNCHANGED <<plan, ret>>
      \/ ~Halts(q, k, m[k]) /\ q.kind \in Telling /\ Goto(p, "told") /\ UNCHANGED <<sub, plan, ret>>
      \/ ~Halts(q, k, m[k]) /\ q.kind \notin Telling \cup {"clear", "replaceEntries"} /\ UNCHANGED <<pc, sub, plan, ret>>
  <2>1. CASE Halts(q, k, m[k])
    BY <1>1, <1>4, <2>1 DEF Telling
  <2>2. CASE ~Halts(q, k, m[k]) /\ q.kind \in {"clear", "replaceEntries"}
    BY <1>1, <1>3, <2>2 DEF Telling
  <2>3. CASE ~Halts(q, k, m[k]) /\ q.kind \in Telling
    BY <1>1, <1>3, <2>3 DEF Telling
  <2>4. CASE ~Halts(q, k, m[k]) /\ q.kind \notin Telling \cup {"clear", "replaceEntries"}
    BY <1>1, <2>4 DEF Telling
  <2> QED
    BY <2>1, <2>2, <2>3, <2>4
<1>6. Visited(p, k)
  BY <1>1, <1>2, <1>5, ConcludeIs DEF Visited, Goto
<1> QED
  BY <1>2, <1>6

-----------------------------------------------------------------------------
(* Types, and the walks.                                                   *)

\* A write, and what it leaves of everybody's walks.
LEMMA WriteIs ==
    ASSUME Types, AheadOfWalk, NEW s \in Contents, Write(s)
    PROVE  /\ m' = s /\ walk' \in [Procs -> Walks(Keys)] /\ AheadOfWalk'
           /\ \A q \in Procs : /\ walk'[q].pos = walk[q].pos
                               /\ walk'[q].due = walk[q].due \cap Stored(s)
<1>1. m' = s /\ walk' = [q \in Procs |-> Without(walk[q], Stored(s))]
  BY DEF Write
<1>2. \A q \in Procs : /\ Without(walk[q], Stored(s)).pos = walk[q].pos
                       /\ Without(walk[q], Stored(s)).due = walk[q].due \cap Stored(s)
                       /\ Without(walk[q], Stored(s)) \in Walks(Keys)
  <2>1. \A w \in Walks(Keys) : \A S :
           /\ Without(w, S).pos = w.pos /\ Without(w, S).due = w.due \cap S
           /\ Without(w, S) \in Walks(Keys)
    BY DEF Walks, Without
  <2> QED
    BY <2>1 DEF Types
<1>3. walk' \in [Procs -> Walks(Keys)]
  BY <1>1, <1>2
<1>4. \A q \in Procs : walk'[q].pos = walk[q].pos /\ walk'[q].due = walk[q].due \cap Stored(s)
  BY <1>1, <1>2
<1>5. AheadOfWalk'
  BY <1>1, <1>4 DEF AheadOfWalk
<1> QED
  BY <1>1, <1>3, <1>4, <1>5

LEMMA BegunType ==
    ASSUME Types
    PROVE  /\ Begun(Stored(m)) \in Walks(Keys) /\ Begun({}) \in Walks(Keys)
           /\ Begun(Stored(m)).pos = 0 /\ Begun(Stored(m)).due = Stored(m) /\ Begun({}).due = {}
           /\ \A k \in Stored(m) : k > 0
<1>1. Stored(m) \subseteq Keys
  BY StoredType DEF Types
<1>2. ASSUME NEW S \in SUBSET Keys
      PROVE  Begun(S) \in Walks(Keys) /\ Begun(S).pos = 0 /\ Begun(S).due = S
  <2>1. Begun(S) \in [pos : Keys \cup {0}, due : SUBSET Keys]
    BY Zenon DEF Begun
  <2> QED
    BY <2>1 DEF Begun, Walks
<1>3. \A k \in Stored(m) : k > 0
  <2> TAKE k \in Stored(m)
  <2>1. k \in Keys
    BY <1>1
  <2>2. k \in Nat \ {0}
    BY <2>1
  <2> QED
    BY <2>2
<1> QED
  BY <1>1, <1>2, <1>3

LEMMA MovedType ==
    ASSUME NEW w \in Walks(Keys), NEW k \in Keys
    PROVE  Moved(w, k) \in Walks(Keys) /\ Moved(w, k).pos = k /\ Moved(w, k).due = w.due \ {k}
BY DEF Moved, Walks

\* What the writing steps write.
LEMMA WritesContents ==
    ASSUME IInv, NEW p \in Procs
    PROVE  /\ Act(p) => /\ sub[p].kind = "store" => Store(sub[p], m).s \in Contents
                        /\ sub[p].kind # "store" => Outcome(sub[p], m).s \in Contents
                        /\ sub[p].kind \in Single
           /\ Decide(p) => Decision(sub[p], got[p], m).s \in Contents /\ sub[p].kind \in Loading
           /\ Pop(p) => [m EXCEPT ![sub[p].key] = none] \in Contents
           /\ Act(p) \/ Decide(p) \/ Pop(p) => sub[p] \in Requests
<1>t. Types /\ Place(p)
  BY DEF IInv
<1>m. m \in Contents
  BY <1>t DEF Types
<1>1. ASSUME Act(p)
      PROVE  /\ sub[p].kind = "store" => Store(sub[p], m).s \in Contents
             /\ sub[p].kind # "store" => Outcome(sub[p], m).s \in Contents
             /\ sub[p].kind \in Single /\ sub[p] \in Requests
  <2>1. sub[p] \in Requests /\ sub[p].kind \in Single
    BY <1>1, <1>t DEF Act, Place, Single
  <2>2. sub[p].kind # "store" => sub[p].kind \in Points
    BY <2>1 DEF Single, Points
  <2> QED
    BY <1>m, <2>1, <2>2, StoreType, OutcomeType
<1>2. ASSUME Decide(p)
      PROVE  Decision(sub[p], got[p], m).s \in Contents /\ sub[p].kind \in Loading /\ sub[p] \in Requests
  <2>1. sub[p] \in Requests /\ sub[p].kind \in Loading /\ got[p] \in Values \cup {none}
    BY <1>2, <1>t DEF Decide, Place, Types
  <2> QED
    BY <1>m, <2>1, DecisionType
<1>3. ASSUME Pop(p) PROVE [m EXCEPT ![sub[p].key] = none] \in Contents /\ sub[p] \in Requests
  <2>1. sub[p] \in Requests
    BY <1>3, <1>t DEF Pop, Place
  <2> QED
    BY <1>m, <2>1, PointUpdate
<1> QED
  BY <1>1, <1>2, <1>3

LEMMA WritersWrite ==
    ASSUME IInv, NEW p \in Procs, Act(p) \/ Decide(p) \/ Pop(p)
    PROVE  /\ m' \in Contents /\ Write(m')
           /\ \E l : ret' = [ret EXCEPT ![p] = l]
           /\ pc' = [pc EXCEPT ![p] = "done"]
           /\ UNCHANGED <<call, sub, todo, plan, got, seen>>
<1>1. CASE Act(p)
  <2>1. PICK s : s \in Contents /\ Write(s)
    BY <1>1, WritesContents DEF Act
  <2> QED
    BY <1>1, <2>1 DEF Act, Goto, Write
<1>2. CASE Decide(p)
  <2>1. PICK s : s \in Contents /\ Write(s)
    BY <1>2, WritesContents DEF Decide
  <2> QED
    BY <1>2, <2>1 DEF Decide, Goto, Write
<1>3. CASE Pop(p)
  <2>1. PICK s : s \in Contents /\ Write(s)
    BY <1>3, WritesContents DEF Pop
  <2> QED
    BY <1>3, <2>1 DEF Pop, Goto, Write
<1> QED
  BY <1>1, <1>2, <1>3

-----------------------------------------------------------------------------
(* A step of one goroutine, seen by the others.                            *)

Moves(p) == Call(p) \/ Step(p) \/ Panic(p)

OthersKeep(p) ==
    \A q \in Procs \ {p} :
       /\ pc'[q] = pc[q] /\ call'[q] = call[q] /\ sub'[q] = sub[q] /\ ret'[q] = ret[q]
       /\ plan'[q] = plan[q] /\ got'[q] = got[q] /\ seen'[q] = seen[q]

\* The walks of the others lose the keys that are gone.
OthersWalkOn(p) ==
    \A q \in Procs \ {p} :
       walk'[q].pos = walk[q].pos /\ walk'[q].due = walk[q].due \cap Stored(m')

LEMMA DueIsStored ==
    ASSUME IInv, NEW q \in Procs
    PROVE  walk[q].due \cap Stored(m) = walk[q].due
BY SMTT(60) DEF IInv, AheadOfWalk

\* The steps that write nothing.
LEMMA ReadersRead ==
    ASSUME NEW p \in Procs, Moves(p), ~(Act(p) \/ Decide(p) \/ Pop(p))
    PROVE  m' = m
BY DEF Moves, Step, Call, Load, Visit, WalkEnds, Continue, PopRetries, RemovesNothing,
       Collects, Proceed, Resume, Return, Panic

LEMMA StepIsLocal ==
    ASSUME IInv, NEW p \in Procs, Moves(p)
    PROVE  OthersKeep(p) /\ OthersWalkOn(p)
<1> USE DEF OthersKeep, Goto, local
<1>t. Types
  BY DEF IInv
<1>f. /\ DOMAIN pc = Procs /\ DOMAIN call = Procs /\ DOMAIN sub = Procs /\ DOMAIN ret = Procs
      /\ DOMAIN plan = Procs /\ DOMAIN got = Procs /\ DOMAIN seen = Procs /\ DOMAIN walk = Procs
  BY <1>t DEF Types
<1>w. ASSUME m' = m, \A q \in Procs \ {p} : walk'[q] = walk[q] PROVE OthersWalkOn(p)
  BY <1>w, DueIsStored DEF OthersWalkOn
<1> USE <1>f
<1>1. CASE Call(p)
  <2>1. PICK q, l : Called(p, q, l)
    BY <1>1, <1>t, CallIs
  <2>2. m' = m /\ \A q1 \in Procs \ {p} : walk'[q1] = walk[q1]
    BY <2>1 DEF Called
  <2> QED
    BY <1>w, <2>1, <2>2 DEF Called
<1>2. CASE Act(p) \/ Decide(p) \/ Pop(p)
  <2>1. OthersWalkOn(p)
    BY <1>2, <1>t, WritersWrite, WriteIs DEF OthersWalkOn, IInv
  <2> QED
    BY <1>2, <2>1, WritersWrite
<1>3. CASE Visit(p)
  <2>1. PICK k \in Keys : Visited(p, k)
    BY <1>3, <1>t, VisitIs
  <2>2. m' = m /\ \A q1 \in Procs \ {p} : walk'[q1] = walk[q1]
    BY <2>1 DEF Visited
  <2>3. OthersKeep(p)
    BY <2>1 DEF Visited, Concluded
  <2> QED
    BY <1>w, <2>2, <2>3
<1>4. CASE WalkEnds(p)
  <2>1. Concluded(p, seen[p]) /\ UNCHANGED <<m, call, todo, got, walk, seen>>
    BY <1>4, ConcludeIs DEF WalkEnds
  <2> QED
    BY <1>w, <2>1 DEF Concluded
<1>5. CASE Load(p) \/ Continue(p) \/ PopRetries(p) \/ RemovesNothing(p) \/ Panic(p)
  <2>1. m' = m /\ \A q1 \in Procs \ {p} : walk'[q1] = walk[q1]
    BY <1>5 DEF Load, Continue, PopRetries, RemovesNothing, Panic
  <2>2. OthersKeep(p)
    BY <1>5 DEF Load, Continue, PopRetries, RemovesNothing, Panic
  <2> QED
    BY <1>w, <2>1, <2>2
<1>6. CASE Collects(p) \/ Proceed(p) \/ Resume(p) \/ Return(p)
  <2>1. m' = m /\ \A q1 \in Procs \ {p} : walk'[q1] = walk[q1]
    BY <1>6 DEF Collects, Proceed, Resume, Return
  <2>2. OthersKeep(p)
    BY <1>6 DEF Collects, Proceed, Resume, Return
  <2> QED
    BY <1>w, <2>1, <2>2
<1> QED
  BY <1>1, <1>2, <1>3, <1>4, <1>5, <1>6 DEF Moves, Step

-----------------------------------------------------------------------------
(* Every step keeps the invariant.                                         *)

LEMMA ConcludedTypes ==
    ASSUME Types, NEW p \in Procs, call[p] \in Requests, NEW s \in Seq(Keys \X Values), Concluded(p, s),
           UNCHANGED <<m, call, todo, got>>, walk' \in [Procs -> Walks(Keys)],
           seen' \in [Procs -> Seq(Keys \X Values)]
    PROVE  Types'
<1> USE DEF Types
<1>1. CASE call[p].kind \in Popping /\ s # <<>> /\ sub' = [sub EXCEPT ![p] = Removing(call[p], Rest(s)[1])]
           /\ pc' = [pc EXCEPT ![p] = "act"] /\ UNCHANGED <<plan, ret>>
  <2>1. Rest(s) \in Keys \X Values
    <3>1. Len(s) \in DOMAIN s
      BY <1>1, LenProperties, EmptySeq
    <3> QED
      BY <3>1, ElementOfSeq, LenProperties DEF Rest
  <2>2. Removing(call[p], Rest(s)[1]) \in Requests
    BY <2>1, RemovingType, ChoreKinds
  <2> QED
    BY <1>1, <2>2
<1>2. CASE UNCHANGED <<sub, plan, ret>> /\ pc' = [pc EXCEPT ![p] = "next"]
  BY <1>2
<1>3. CASE UNCHANGED <<sub, plan>> /\ pc' = [pc EXCEPT ![p] = "done"] /\ ret' = [ret EXCEPT ![p] = Answer(call[p], s)]
  BY <1>3
<1> QED
  BY <1>1, <1>2, <1>3 DEF Concluded

LEMMA StepTypes == IInv /\ [Next]_vars => Types'
<1> SUFFICES ASSUME IInv, [Next]_vars PROVE Types'
  OBVIOUS
<1> USE DEF Types
<1>t. Types /\ \A p \in Procs : Place(p)
  BY DEF IInv
<1>1. CASE UNCHANGED vars \/ Terminated
  BY <1>1, <1>t DEF vars, local, Terminated
<1>2. ASSUME NEW p \in Procs, Call(p) PROVE Types'
  <2>1. PICK q, l : Called(p, q, l)
    BY <1>2, <1>t, CallIs
  <2>2. Begun(Stored(m)) \in Walks(Keys)
    BY <1>t, BegunType
  <2> QED
    BY <1>t, <2>1, <2>2 DEF Called
<1>3. ASSUME NEW p \in Procs, Act(p) \/ Decide(p) \/ Pop(p) PROVE Types'
  <2>1. m' \in Contents /\ walk' \in [Procs -> Walks(Keys)]
    BY <1>3, WritersWrite, WriteIs DEF IInv
  <2> QED
    BY <1>3, <1>t, <2>1, WritersWrite, ZenonT(60)
<1>4. ASSUME NEW p \in Procs, Visit(p) PROVE Types'
  <2>1. PICK k \in Keys : Visited(p, k)
    BY <1>4, <1>t, VisitIs
  <2>2. call[p] \in Requests
    BY <1>t, <2>1 DEF Visited, Place
  <2>3. Append(seen[p], <<k, m[k]>>) \in Seq(Keys \X Values) /\ Moved(walk[p], k) \in Walks(Keys)
    BY <1>t, <2>1, AppendProperties, MovedType DEF Visited
  <2>4. /\ seen' \in [Procs -> Seq(Keys \X Values)] /\ walk' \in [Procs -> Walks(Keys)]
        /\ UNCHANGED <<m, call, todo, got>>
    BY <1>t, <2>1, <2>3 DEF Visited
  <2>5. CASE Concluded(p, Append(seen[p], <<k, m[k]>>))
    BY <1>t, <2>2, <2>3, <2>4, <2>5, ConcludedTypes
  <2>6. CASE sub' = [sub EXCEPT ![p] = Removing(call[p], k)] /\ pc' = [pc EXCEPT ![p] = "act"] /\ UNCHANGED <<plan, ret>>
    <3>1. Removing(call[p], k) \in Requests
      BY <2>2, RemovingType, ChoreKinds
    <3> QED
      BY <1>t, <2>4, <2>6, <3>1
  <2>7. CASE pc' \in {pc, [pc EXCEPT ![p] = "told"]} /\ UNCHANGED <<sub, plan, ret>>
    BY <1>t, <2>4, <2>7
  <2> QED
    BY <2>1, <2>5, <2>6, <2>7 DEF Visited
<1>5. ASSUME NEW p \in Procs, WalkEnds(p) PROVE Types'
  <2>1. Concluded(p, seen[p]) /\ UNCHANGED <<m, call, todo, got, walk, seen>>
    BY <1>5, ConcludeIs DEF WalkEnds
  <2>2. call[p] \in Requests
    BY <1>5, <1>t DEF WalkEnds, Place
  <2> QED
    BY <1>t, <2>1, <2>2, ConcludedTypes
<1>6. ASSUME NEW p \in Procs, Load(p) PROVE Types'
  <2>1. sub[p] \in Requests
    BY <1>6, <1>t DEF Load, Place
  <2>2. m[sub[p].key] \in Values \cup {none}
    BY <1>t, <2>1 DEF Contents, Requests
  <2> QED
    BY <1>6, <1>t, <2>2, ZenonT(60) DEF Load, Goto
<1>7. ASSUME NEW p \in Procs, Continue(p) PROVE Types'
  <2> DEFINE e == Rest(seen[p])
  <2>1. call[p] \in Requests /\ seen[p] # <<>> /\ call[p].kind \in Telling
    BY <1>7, <1>t DEF Continue, Place
  <2>2. e \in Keys \X Values
    <3>1. Len(seen[p]) \in DOMAIN seen[p]
      BY <1>t, <2>1, LenProperties, EmptySeq
    <3> QED
      BY <1>t, <3>1, ElementOfSeq, LenProperties DEF Rest
  <2> HIDE DEF e
  <2>3. ASSUME call[p].kind = "replaceAll"
        PROVE  Storing(call[p], e[1], call[p].fn[e[2]]) \in Requests
    <3>1. call[p].fn[e[2]] \in Values
      BY <2>1, <2>2, <2>3 DEF Requests
    <3> QED
      BY <2>1, <2>2, <3>1, StoringType, ChoreKinds
  <2>4. plan[p] \o Noted(call[p], e) \in Seq(Chores)
    <3>1. Noted(call[p], e) \in Seq(Chores)
      <4>1. Removing(call[p], e[1]) \in Chores
        BY <2>1, <2>2, RemovingType
      <4>2. <<Removing(call[p], e[1])>> \in Seq(Chores) /\ <<>> \in Seq(Chores)
        BY <4>1, EmptySeq
      <4> QED
        BY <4>2 DEF Noted
    <3> QED
      BY <1>t, <3>1, ConcatProperties
  <2>5. /\ UNCHANGED <<m, call, todo, got, walk, seen, ret>>
        /\ plan' = [plan EXCEPT ![p] = plan[p] \o Noted(call[p], e)]
    BY <1>7 DEF Continue, e
  <2>6. \/ call[p].kind = "replaceAll" /\ pc' = [pc EXCEPT ![p] = "act"]
           /\ sub' = [sub EXCEPT ![p] = Storing(call[p], e[1], call[p].fn[e[2]])]
        \/ pc' = [pc EXCEPT ![p] = "walk"] /\ sub' = sub
    BY <1>7 DEF Continue, Goto, e
  <2>7. plan' \in [Procs -> Seq(Chores)]
    <3> DEFINE l == plan[p] \o Noted(call[p], e)
    <3>1. plan' = [plan EXCEPT ![p] = l] /\ l \in Seq(Chores)
      BY <2>4, <2>5
    <3> HIDE DEF l
    <3> QED
      BY <1>t, <3>1
  <2>8. sub' \in [Procs -> Requests \cup {none}]
    <3> DEFINE x == Storing(call[p], e[1], call[p].fn[e[2]])
    <3>1. \/ sub' = [sub EXCEPT ![p] = x] /\ x \in Requests
          \/ sub' = sub
      BY <2>3, <2>6
    <3> HIDE DEF x
    <3> QED
      BY <1>t, <3>1, ZenonT(60)
  <2>9. pc' \in [Procs -> {"idle", "act", "load", "decide", "size", "walk", "told", "next", "done"}]
    BY <1>t, <2>6
  <2>10. m' = m /\ call' = call /\ todo' = todo /\ got' = got /\ walk' = walk /\ seen' = seen /\ ret' = ret
    BY <2>5
  <2> QED
    BY <1>t, <2>10, <2>7, <2>8, <2>9
<1>8. ASSUME NEW p \in Procs, PopRetries(p) \/ Collects(p) PROVE Types'
  <2>1. Begun(Stored(m)) \in Walks(Keys) /\ <<>> \in Seq(Keys \X Values)
    BY <1>t, BegunType, EmptySeq
  <2>2. /\ walk' = [walk EXCEPT ![p] = Begun(Stored(m))] /\ pc' = [pc EXCEPT ![p] = "walk"]
        /\ seen' = seen \/ seen' = [seen EXCEPT ![p] = <<>>]
        /\ UNCHANGED <<m, call, sub, todo, plan, got, ret>>
    BY <1>8 DEF PopRetries, Collects, Goto
  <2>3. seen' \in [Procs -> Seq(Keys \X Values)] /\ walk' \in [Procs -> Walks(Keys)]
    <3>1. seen' = seen \/ seen' = [seen EXCEPT ![p] = <<>>]
      BY <2>2
    <3>2. seen' \in [Procs -> Seq(Keys \X Values)]
      BY <1>t, <2>1, <3>1, ZenonT(60)
    <3> QED
      BY <1>t, <2>1, <2>2, <3>2
  <2>4. pc' \in [Procs -> {"idle", "act", "load", "decide", "size", "walk", "told", "next", "done"}]
    BY <1>t, <2>2
  <2>5. m' = m /\ call' = call /\ sub' = sub /\ todo' = todo /\ got' = got /\ plan' = plan /\ ret' = ret
    BY <2>2
  <2> QED
    BY <1>t, <2>3, <2>4, <2>5
<1>9. ASSUME NEW p \in Procs, RemovesNothing(p) \/ Panic(p) PROVE Types'
  BY <1>9, <1>t DEF RemovesNothing, Panic, Goto, local
<1>10. ASSUME NEW p \in Procs, Proceed(p) PROVE Types'
  <2>1. plan[p] \in Seq(Chores) /\ plan[p] # <<>>
    BY <1>10, <1>t DEF Proceed
  <2>2. Head(plan[p]) \in Requests /\ Tail(plan[p]) \in Seq(Chores)
    BY <2>1, HeadTailProperties, ChoreKinds
  <2> QED
    BY <1>10, <1>t, <2>2 DEF Proceed, Goto
<1>11. ASSUME NEW p \in Procs, Resume(p) PROVE Types'
  <2>1. call[p] \in Requests
    BY <1>11, <1>t DEF Resume, Place
  <2> QED
    BY <1>11, <1>t, <2>1 DEF Resume, Goto, local
<1>12. ASSUME NEW p \in Procs, Return(p) PROVE Types'
  <2>1. Begun({}) \in Walks(Keys)
    BY <1>t, BegunType
  <2> QED
    BY <1>12, <1>t, <2>1, EmptySeq DEF Return, Goto
<1> QED
  BY <1>1, <1>2, <1>3, <1>4, <1>5, <1>6, <1>7, <1>8, <1>9, <1>10, <1>11, <1>12 DEF Next, Step

LEMMA StepWalk == IInv /\ [Next]_vars => AheadOfWalk'
<1> SUFFICES ASSUME IInv, [Next]_vars PROVE AheadOfWalk'
  OBVIOUS
<1>t. Types /\ AheadOfWalk
  BY DEF IInv
<1>1. CASE UNCHANGED vars \/ Terminated
  BY <1>1, <1>t DEF vars, local, Terminated, AheadOfWalk
<1>2. ASSUME NEW p \in Procs, Moves(p) PROVE AheadOfWalk'
  <2>o. OthersWalkOn(p)
    BY <1>2, StepIsLocal
  <2>h. ASSUME walk'[p].due \subseteq {k \in Stored(m') : k > walk'[p].pos} PROVE AheadOfWalk'
    <3> SUFFICES ASSUME NEW q \in Procs
                 PROVE  walk'[q].due \subseteq {k \in Stored(m') : k > walk'[q].pos}
      BY DEF AheadOfWalk
    <3>1. CASE q = p
      BY <2>h, <3>1
    <3>2. CASE q # p
      BY <1>t, <2>o, <3>2 DEF OthersWalkOn, AheadOfWalk
    <3> QED
      BY <3>1, <3>2
  <2>1. CASE Act(p) \/ Decide(p) \/ Pop(p)
    BY <1>t, <2>1, WritersWrite, WriteIs
  <2>2. CASE m' = m /\ walk'[p] \in {Begun(Stored(m)), Begun({})}
    BY <1>t, <2>2, <2>h, BegunType
  <2>3. CASE m' = m /\ walk'[p] = walk[p]
    BY <1>t, <2>3, <2>h DEF AheadOfWalk
  <2>4. CASE Visit(p)
    <3>1. PICK k \in Keys : Visited(p, k)
      BY <1>t, <2>4, VisitIs
    <3>2. m' = m /\ walk'[p] = Moved(walk[p], k) /\ \A d \in walk[p].due : k <= d
      BY <1>t, <3>1 DEF Visited, Types
    <3>3. walk'[p].pos = k /\ walk'[p].due = walk[p].due \ {k}
      BY <1>t, <3>2, MovedType DEF Types
    <3>4. \A d \in walk[p].due : d \in Stored(m) /\ d \in Nat
      BY <1>t, StoredType DEF AheadOfWalk, Types
    <3>5. \A d \in walk'[p].due : d \in Stored(m') /\ d > k
      <4> TAKE d \in walk'[p].due
      <4>1. d \in walk[p].due /\ d # k
        BY <3>3
      <4>2. d \in Stored(m) /\ d \in Nat /\ k <= d /\ k \in Nat
        BY <3>2, <3>4, <4>1
      <4> QED
        BY <3>2, <4>1, <4>2
    <3> QED
      BY <2>h, <3>3, <3>5
  <2>5. CASE Call(p) \/ PopRetries(p) \/ Collects(p) \/ Return(p)
    <3>1. m' = m /\ walk'[p] \in {Begun(Stored(m)), Begun({})}
      BY <1>t, <2>5 DEF Call, PopRetries, Collects, Return, Types
    <3> QED
      BY <2>2, <3>1
  <2>6. CASE Load(p) \/ WalkEnds(p) \/ Continue(p) \/ RemovesNothing(p) \/ Proceed(p) \/ Resume(p) \/ Panic(p)
    <3>1. m' = m /\ walk'[p] = walk[p]
      BY <2>6 DEF Load, WalkEnds, Continue, RemovesNothing, Proceed, Resume, Panic, local
    <3> QED
      BY <2>3, <3>1
  <2> QED
    BY <1>2, <2>1, <2>4, <2>5, <2>6 DEF Moves, Step
<1> QED
  BY <1>1, <1>2 DEF Next, Moves

\* Where a method may be, for its kind.
LEMMA KindsApart ==
    /\ "removeFunc" \in Walking /\ "clear" \in Walking /\ "replaceEntries" \in Walking
    /\ Telling \subseteq Walking /\ Popping \subseteq Walking
    /\ Single \cap Loading = {} /\ Single \cap Popping = {} /\ Single \cap Writing = {}
    /\ Loading \cap Popping = {} /\ Loading \cap Writing = {} /\ Popping \cap Writing = {}
    /\ Telling \cap Popping = {} /\ Listed \subseteq Writing /\ Single \cap Walking = {}
    /\ Loading \cap Walking = {}
    /\ {"removeFunc", "replaceEntries", "clear", "replaceAll"} \subseteq Writing
    /\ {"store", "remove"} \cap (Writing \cup Popping \cup Loading \cup Walking) = {}
    /\ "scan" \notin Writing \cup Popping \cup Single \cup Loading
BY DEF Walking, Telling, Popping, Single, Loading, Writing, Listed, Navigations

LEMMA ConcludedPlace ==
    ASSUME IInv, NEW p \in Procs, pc[p] = "walk", NEW s \in Seq(Keys \X Values),
           Concluded(p, s), call' = call
    PROVE  Place(p)'
<1>t. Types /\ Place(p)
  BY DEF IInv
<1>c. /\ call[p] \in Requests /\ sub[p] \in Requests /\ call[p].kind \in Walking
      /\ sub[p] = call[p] \/ call[p].kind \in Popping
  BY <1>t DEF Place
<1>1. CASE /\ call[p].kind \in Popping /\ s # <<>>
           /\ sub' = [sub EXCEPT ![p] = Removing(call[p], Rest(s)[1])]
           /\ pc' = [pc EXCEPT ![p] = "act"]
  <2>1. Len(s) \in DOMAIN s
    BY <1>1, LenProperties, EmptySeq
  <2>2. Rest(s) \in Keys \X Values
    BY <2>1, ElementOfSeq, LenProperties DEF Rest
  <2>3. Removing(call[p], Rest(s)[1]) \in Requests /\ Removing(call[p], Rest(s)[1]).kind = "remove"
    BY <1>c, <2>2, RemovingType, ChoreKinds
  <2>4. sub'[p] \in Requests /\ sub'[p].kind = "remove" /\ pc'[p] = "act" /\ call'[p] = call[p]
    BY <1>1, <1>t, <2>3 DEF Types
  <2> QED
    BY <1>1, <1>c, <2>4 DEF Place
<1>2. CASE /\ call[p].kind \in {"removeFunc", "replaceEntries"} /\ sub' = sub
           /\ pc' = [pc EXCEPT ![p] = "next"]
  <2>1. pc'[p] = "next" /\ sub'[p] = sub[p] /\ call'[p] = call[p]
    BY <1>2, <1>t DEF Types
  <2>2. sub[p] = call[p]
    BY <1>2, <1>c, KindsApart
  <2> QED
    BY <1>2, <1>c, <2>1, <2>2 DEF Place
<1>3. CASE sub' = sub /\ pc' = [pc EXCEPT ![p] = "done"]
  <2>1. pc'[p] = "done" /\ sub'[p] = sub[p] /\ call'[p] = call[p]
    BY <1>3, <1>t DEF Types
  <2> QED
    BY <1>c, <2>1 DEF Place
<1> QED
  BY <1>1, <1>2, <1>3 DEF Concluded

LEMMA StepPlace == IInv /\ [Next]_vars => \A p \in Procs : Place(p)'
<1> SUFFICES ASSUME IInv, [Next]_vars PROVE \A p \in Procs : Place(p)'
  OBVIOUS
<1>t. Types /\ \A p \in Procs : Place(p)
  BY DEF IInv
<1>f. /\ DOMAIN pc = Procs /\ DOMAIN call = Procs /\ DOMAIN sub = Procs
      /\ DOMAIN seen = Procs
  BY <1>t DEF Types
<1>1. CASE UNCHANGED vars \/ Terminated
  BY <1>1, <1>t DEF vars, local, Terminated, Place
<1>2. ASSUME NEW p \in Procs, Moves(p) PROVE \A q \in Procs : Place(q)'
  <2>o. \A q \in Procs \ {p} : Place(q)'
    BY <1>2, <1>t, StepIsLocal DEF OthersKeep, Place
  <2>p. Place(p)
    BY <1>t
  <2>1. CASE Call(p)
    <3>1. PICK q, l : Called(p, q, l)
      BY <1>t, <2>1, CallIs
    <3>2. q \in Requests /\ call'[p] = q /\ sub'[p] = q
      BY <1>f, <3>1 DEF Called
    <3>3. \/ q.kind \in Single /\ pc'[p] = "act"
          \/ q.kind \in Loading /\ pc'[p] = "load"
          \/ q.kind = "removeFunc" /\ pc'[p] = "size"
          \/ q.kind \in Walking /\ pc'[p] = "walk"
          \/ q.kind \in Listed /\ pc'[p] = "next"
      BY <1>f, <3>1 DEF Called
    <3>4. Place(p)'
      BY <3>2, <3>3 DEF Place
    <3> QED
      BY <2>o, <3>4
  <2>2. CASE Act(p) \/ Decide(p) \/ Pop(p)
    <3>1. pc'[p] = "done" /\ call'[p] = call[p] /\ sub'[p] = sub[p] /\ pc[p] \in {"act", "decide"}
      BY <1>f, <2>2, WritersWrite DEF Act, Decide, Pop
    <3>2. Place(p)'
      BY <2>p, <3>1 DEF Place
    <3> QED
      BY <2>o, <3>2
  <2>3. CASE Visit(p)
    <3>1. PICK k \in Keys : Visited(p, k)
      BY <1>t, <2>3, VisitIs
    <3> DEFINE told == Append(seen[p], <<k, m[k]>>)
    <3>2. told \in Seq(Keys \X Values) /\ told # <<>>
      BY <1>t, <3>1, AppendProperties DEF Visited, Types
    <3>3. pc[p] = "walk" /\ call'[p] = call[p] /\ call' = call /\ seen'[p] = told
      BY <1>f, <3>1 DEF Visited
    <3> HIDE DEF told
    <3>4. \/ Concluded(p, told)
          \/ /\ call[p].kind \in {"clear", "replaceEntries"}
             /\ sub' = [sub EXCEPT ![p] = Removing(call[p], k)] /\ pc' = [pc EXCEPT ![p] = "act"]
          \/ call[p].kind \in Telling /\ pc' = [pc EXCEPT ![p] = "told"] /\ sub' = sub
          \/ pc' = pc /\ sub' = sub
      BY <3>1 DEF Visited, told
    <3>5. call[p] \in Requests
      BY <2>p, <3>3 DEF Place
    <3>6. CASE Concluded(p, told)
      BY <2>o, <3>2, <3>3, <3>6, ConcludedPlace
    <3>7. CASE /\ call[p].kind \in {"clear", "replaceEntries"}
               /\ sub' = [sub EXCEPT ![p] = Removing(call[p], k)] /\ pc' = [pc EXCEPT ![p] = "act"]
      <4>1. Removing(call[p], k) \in Requests /\ Removing(call[p], k).kind = "remove"
        BY <3>5, RemovingType, ChoreKinds
      <4>2. sub'[p] \in Requests /\ sub'[p].kind = "remove" /\ pc'[p] = "act"
        BY <1>f, <3>7, <4>1
      <4>3. Place(p)'
        BY <3>3, <3>5, <3>7, <4>2, KindsApart DEF Place
      <4> QED
        BY <2>o, <4>3
    <3>8. CASE call[p].kind \in Telling /\ pc' = [pc EXCEPT ![p] = "told"] /\ sub' = sub
      <4>1. pc'[p] = "told" /\ sub'[p] = sub[p] /\ call[p].kind \notin Popping
        BY <1>f, <3>8, KindsApart
      <4>2. Place(p)'
        BY <2>p, <3>2, <3>3, <3>8, <4>1 DEF Place
      <4> QED
        BY <2>o, <4>2
    <3>9. CASE pc' = pc /\ sub' = sub
      <4>1. Place(p)'
        BY <2>p, <3>3, <3>9 DEF Place
      <4> QED
        BY <2>o, <4>1
    <3> QED
      BY <3>4, <3>6, <3>7, <3>8, <3>9
  <2>4. CASE WalkEnds(p)
    <3>1. Concluded(p, seen[p]) /\ call' = call /\ pc[p] = "walk"
      BY <2>4, ConcludeIs DEF WalkEnds
    <3>2. Place(p)'
      BY <1>t, <3>1, ConcludedPlace DEF Types
    <3> QED
      BY <2>o, <3>2
  <2>5. CASE Load(p)
    <3>1. pc[p] = "load" /\ pc'[p] \in {"decide", "done"} /\ sub'[p] = sub[p] /\ call'[p] = call[p]
      BY <1>f, <2>5 DEF Load, Goto
    <3>2. Place(p)'
      BY <2>p, <3>1 DEF Place
    <3> QED
      BY <2>o, <3>2
  <2>6. CASE Continue(p)
    <3> DEFINE e == Rest(seen[p])
               x == Storing(call[p], e[1], call[p].fn[e[2]])
    <3>1. pc[p] = "told" /\ call'[p] = call[p] /\ seen'[p] = seen[p]
      BY <1>f, <2>6 DEF Continue
    <3>2. \/ call[p].kind = "replaceAll" /\ pc'[p] = "act" /\ sub'[p] = x
          \/ pc'[p] = "walk" /\ sub'[p] = sub[p]
      BY <1>f, <2>6 DEF Continue, Goto
    <3>3. /\ call[p] \in Requests /\ sub[p] = call[p] /\ call[p].kind \in Telling
          /\ seen[p] # <<>>
      BY <2>p, <3>1 DEF Place
    <3>4. CASE call[p].kind = "replaceAll" /\ pc'[p] = "act" /\ sub'[p] = x
      <4>1. Types'
        BY <1>2, StepTypes DEF Next, Moves
      <4>2. x.kind = "store"
        BY <3>3 DEF Storing, Requests
      <4>3. sub'[p] \in Requests
        <5>1. e \in Keys \X Values
          <6>1. Len(seen[p]) \in DOMAIN seen[p]
            BY <1>t, <3>3, LenProperties, EmptySeq DEF Types
          <6> QED
            BY <1>t, <6>1, ElementOfSeq, LenProperties DEF Rest, Types
        <5> HIDE DEF e
        <5>2. call[p].fn[e[2]] \in Values
          BY <3>3, <3>4, <5>1 DEF Requests
        <5>3. Storing(call[p], e[1], call[p].fn[e[2]]) \in Chores /\ Chores \subseteq Requests
          BY <3>3, <5>1, <5>2, StoringType, ChoreKinds
        <5>4. x \in Requests
          BY <5>3
        <5> HIDE DEF x
        <5> QED
          BY <3>4, <5>4
      <4>4. call[p].kind \in Writing
        BY <3>4, KindsApart
      <4> HIDE DEF x
      <4>5. Place(p)'
        BY <3>1, <3>3, <3>4, <4>2, <4>3, <4>4 DEF Place
      <4> QED
        BY <2>o, <4>5
    <3>5. CASE pc'[p] = "walk" /\ sub'[p] = sub[p]
      <4>1. Place(p)'
        BY <3>1, <3>3, <3>5, KindsApart DEF Place
      <4> QED
        BY <2>o, <4>1
    <3> QED
      BY <3>2, <3>4, <3>5
  <2>7. CASE PopRetries(p) \/ Collects(p)
    <3>1. /\ pc'[p] = "walk" /\ sub'[p] = sub[p] /\ call'[p] = call[p]
          /\ (pc[p] = "act" /\ call[p].kind \in Popping) \/ pc[p] = "size"
      BY <1>f, <2>7 DEF PopRetries, Collects, Goto
    <3>2. Place(p)'
      BY <2>p, <3>1, KindsApart DEF Place
    <3> QED
      BY <2>o, <3>2
  <2>8. CASE RemovesNothing(p) \/ Panic(p)
    <3>1. pc'[p] = "done" /\ sub'[p] = sub[p] /\ call'[p] = call[p] /\ pc[p] \in {"size", "told", "decide"}
      BY <1>f, <2>8 DEF RemovesNothing, Panic, InUserCode, Goto
    <3>2. Place(p)'
      BY <2>p, <3>1 DEF Place
    <3> QED
      BY <2>o, <3>2
  <2>9. CASE Proceed(p)
    <3>1. /\ pc[p] = "next" /\ pc'[p] = "act" /\ sub'[p] = Head(plan[p]) /\ call'[p] = call[p]
          /\ plan[p] # <<>>
      BY <1>f, <2>9 DEF Proceed, Goto
    <3>2. Head(plan[p]) \in Chores
      BY <1>t, <3>1, HeadTailProperties DEF Types
    <3>3. call[p] \in Requests /\ call[p].kind \in Writing
      BY <2>p, <3>1, KindsApart DEF Place
    <3>4. Place(p)'
      BY <3>1, <3>2, <3>3 DEF Place, Chores
    <3> QED
      BY <2>o, <3>4
  <2>10. CASE Resume(p)
    <3>1. /\ pc[p] = "done" /\ call[p].kind \in Writing /\ call'[p] = call[p] /\ sub'[p] = call[p]
          /\ \/ pc'[p] = "walk" /\ call[p].kind \in {"clear", "replaceAll", "replaceEntries"}
             \/ pc'[p] = "next" /\ call[p].kind \notin {"clear", "replaceAll"}
      BY <1>f, <2>10 DEF Resume, Goto
    <3>2. call[p] \in Requests
      BY <2>p, <3>1 DEF Place
    <3>3. CASE pc'[p] = "walk" /\ call[p].kind \in {"clear", "replaceAll", "replaceEntries"}
      <4>1. call[p].kind \in Walking
        BY <3>3, KindsApart DEF Telling
      <4>2. Place(p)'
        BY <3>1, <3>2, <3>3, <4>1 DEF Place
      <4> QED
        BY <2>o, <4>2
    <3>4. CASE pc'[p] = "next" /\ call[p].kind \notin {"clear", "replaceAll"}
      <4>1. call[p].kind \in Listed \cup {"removeFunc", "replaceEntries"}
        BY <3>1, <3>4 DEF Writing
      <4>2. Place(p)'
        BY <3>1, <3>2, <3>4, <4>1 DEF Place
      <4> QED
        BY <2>o, <4>2
    <3> QED
      BY <3>1, <3>3, <3>4
  <2>11. CASE Return(p)
    <3>1. pc'[p] = "idle"
      BY <1>f, <2>11 DEF Return, Goto
    <3>2. Place(p)'
      BY <3>1 DEF Place
    <3> QED
      BY <2>o, <3>2
  <2> QED
    BY <1>2, <2>1, <2>2, <2>3, <2>4, <2>5, <2>6, <2>7, <2>8, <2>9, <2>10, <2>11 DEF Moves, Step
<1> QED
  BY <1>1, <1>2 DEF Next, Moves

LEMMA Invariance == Spec => []IInv
<1>1. IInv /\ [Next]_vars => IInv'
  BY StepTypes, StepWalk, StepPlace DEF IInv
<1> QED
  BY InitInvariant, <1>1, PTL DEF Spec

(* Whatever other goroutines and callbacks write meanwhile, a walk only    *)
(* waits for keys that are there and in front of it, and every method is   *)
(* where its kind has something to do.                                     *)
THEOREM SkipMapTypes == Spec => []TypeOK
<1>1. IInv => TypeOK
  <2> SUFFICES ASSUME IInv PROVE TypeOK
    OBVIOUS
  <2>1. \A p \in Procs : plan[p] \in Seq(Requests)
    BY ChoreKinds, SeqMonotonic DEF IInv, Types
  <2>2. plan \in [Procs -> Seq(Requests)]
    BY <2>1 DEF IInv, Types
  <2> QED
    BY <2>2 DEF IInv, Types, AheadOfWalk, TypeOK
<1> QED
  BY <1>1, Invariance, PTL

-----------------------------------------------------------------------------
(* Best-effort updates nobody disturbs.                                    *)

LEMMA DecidedOnWhatIsThere ==
    ASSUME NEW q \in Requests, q.kind \in Loading, NEW s \in Contents
    PROVE  Decision(q, s[q.key], s) = Outcome(q, s)
<1> DEFINE v == s[q.key]
           now == Outcome(q, [s EXCEPT ![q.key] = v])
<1>1. q.key \in Keys /\ q.old \in Values /\ v \in Values \cup {none}
  BY DEF Requests, Contents
<1>2. [s EXCEPT ![q.key] = v] = s
  BY <1>1 DEF Contents
<1>3. now = Outcome(q, s)
  BY <1>2
<1>4. CASE q.kind = "computeIfAbsent"
  BY <1>4 DEF Decision
<1>5. CASE q.kind = "removeIf" /\ v = q.old
  <2>1. v # none
    BY <1>1, <1>5
  <2>2. Decision(q, v, s) = Does(now.s, <<1>>)
    BY <1>5, <2>1 DEF Decision
  <2>3. Outcome(q, s) = RemoveIf(q, s)
    BY <1>5 DEF Outcome
  <2>4. Outcome(q, s) = Does([s EXCEPT ![q.key] = none], <<1>>)
    BY <1>5, <2>1, <2>3 DEF RemoveIf
  <2> QED
    BY <1>3, <2>2, <2>4, DoesFields
<1>6. CASE q.kind \in {"removeIf", "replaceIf"} /\ v # q.old
  <2>1. Decision(q, v, s) = Does(s, <<>>)
    BY <1>6 DEF Decision
  <2>2. Outcome(q, s) \in {RemoveIf(q, s), ReplaceIf(q, s)}
    BY <1>6 DEF Outcome
  <2>3. Outcome(q, s) = Does(s, <<>>)
    BY <1>6, <2>2 DEF RemoveIf, ReplaceIf
  <2> QED
    BY <2>1, <2>3
<1>7. CASE q.kind = "compute" /\ v = none /\ q.fn[v] = none
  <2>1. Decision(q, v, s) = Does(s, <<>>)
    BY <1>7 DEF Decision
  <2>2. Outcome(q, s) = Compute(q, s)
    BY <1>7 DEF Outcome
  <2>3. Outcome(q, s) = Does(s, <<>>)
    BY <1>2, <1>7, <2>2 DEF Compute, Opt
  <2> QED
    BY <2>1, <2>3
<1>8. CASE /\ q.kind # "computeIfAbsent"
           /\ ~(q.kind = "removeIf" /\ v = q.old)
           /\ ~(q.kind \in {"removeIf", "replaceIf"} /\ v # q.old)
           /\ ~(q.kind = "compute" /\ v = none /\ q.fn[v] = none)
  <2>1. Decision(q, v, s) = now
    BY <1>8 DEF Decision
  <2> QED
    BY <1>3, <2>1
<1> QED
  BY <1>4, <1>5, <1>6, <1>7, <1>8

LEMMA StepIsExact ==
    ASSUME IInv, [Next]_vars, NEW p \in Procs, pc[p] = "decide", pc'[p] = "done",
           ret'[p] # <<none>>, m[sub[p].key] = got[p]
    PROVE  m' = Outcome(sub[p], m).s /\ ret'[p] = Outcome(sub[p], m).ret
<1>t. Types /\ Place(p) /\ m \in Contents /\ DOMAIN ret = Procs
  BY DEF IInv, Types
<1>1. PICK q \in Procs : Moves(q)
  BY DEF Next, Moves, vars, Terminated
<1>2. q = p
  BY <1>1, StepIsLocal, SMTT(60) DEF OthersKeep
<1>3. Decide(p) \/ Panic(p)
  BY <1>1, <1>2 DEF Moves, Step, Call, Act, Load, Visit, WalkEnds, Continue, Pop, PopRetries,
                    RemovesNothing, Collects, Proceed, Resume, Return
<1>4. ~Panic(p)
  BY <1>t DEF Panic
<1>5. sub[p] \in Requests /\ sub[p].kind \in Loading
  BY <1>t DEF Place
<1>6. m' = Decision(sub[p], got[p], m).s /\ ret'[p] = Decision(sub[p], got[p], m).ret
  BY <1>t, <1>3, <1>4 DEF Decide, Write
<1>7. Decision(sub[p], got[p], m) = Outcome(sub[p], m)
  BY <1>t, <1>5, DecidedOnWhatIsThere
<1> QED
  BY <1>6, <1>7

(* Compute, Merge, Put, Replace and the `If`s load a value, run user code  *)
(* and then write by key.  When the key has the loaded value at that       *)
(* moment, whatever happened in between, the update does and returns       *)
(* exactly what an atomic one would have.                                  *)
THEOREM SkipMapExactUnlessRaced == Spec => ExactUnlessRaced
<1> DEFINE Exact == \A p \in Procs :
             pc[p] = "decide" /\ pc'[p] = "done" /\ ret'[p] # <<none>> /\ m[sub[p].key] = got[p] =>
               m' = Outcome(sub[p], m).s /\ ret'[p] = Outcome(sub[p], m).ret
<1>1. IInv /\ [Next]_vars => [Exact]_vars
  BY StepIsExact
<1> QED
  BY <1>1, Invariance, PTL DEF Spec, ExactUnlessRaced

-----------------------------------------------------------------------------
(* Every step is a step of the object that keeps the promises, or none.    *)

Stage == [p \in Procs |-> Moment(p)]
Undertaken(p) == IF call[p].kind \in Popping THEN call[p] ELSE sub[p]
Asked == [p \in Procs |-> IF Moment(p) = "idle" THEN none
                          ELSE IF call[p].kind \in Popping THEN call[p] ELSE sub[p]]
Returned == [p \in Procs |-> IF Moment(p) = "closed" THEN ret[p] ELSE none]

LEMMA OthersUnmoved ==
    ASSUME NEW p \in Procs, OthersKeep(p)
    PROVE  \A q \in Procs \ {p} :
              Stage'[q] = Stage[q] /\ Asked'[q] = Asked[q] /\ Returned'[q] = Returned[q]
<1> TAKE q \in Procs \ {p}
<1>1. Moment(q)' = Moment(q)
  BY DEF OthersKeep, Moment
<1> QED
  BY <1>1 DEF OthersKeep, Stage, Asked, Returned

LEMMA Stutter ==
    ASSUME NEW p \in Procs, OthersKeep(p), m' = m, Moment(p)' = Moment(p),
           Moment(p) # "idle" => call'[p] = call[p] /\ Undertaken(p)' = Undertaken(p),
           Moment(p) = "closed" => ret'[p] = ret[p]
    PROVE  UNCHANGED Atomic!vars
<1>1. Stage'[p] = Stage[p] /\ Asked'[p] = Asked[p] /\ Returned'[p] = Returned[p]
  BY DEF Stage, Asked, Returned, Undertaken
<1>2. \A q \in Procs : Stage'[q] = Stage[q] /\ Asked'[q] = Asked[q] /\ Returned'[q] = Returned[q]
  BY <1>1, OthersUnmoved
<1>3. Stage' = Stage /\ Asked' = Asked /\ Returned' = Returned
  BY <1>2 DEF Stage, Asked, Returned
<1> QED
  BY <1>3 DEF Atomic!vars, Stage, Asked, Returned

LEMMA Invoked ==
    ASSUME NEW p \in Procs, OthersKeep(p), m' = m,
           Moment(p) = "idle", Moment(p)' = "open", Undertaken(p)' \in Requests
    PROVE  Atomic!Invoke(p)
<1>1. Stage[p] = "idle" /\ Stage'[p] = "open" /\ Asked'[p] = Undertaken(p)' /\ Returned'[p] = Returned[p]
  BY DEF Stage, Asked, Returned, Undertaken
<1>2. Stage' = [Stage EXCEPT ![p] = "open"]
  BY <1>1, OthersUnmoved DEF Stage
<1>3. Asked' = [Asked EXCEPT ![p] = Asked'[p]]
  BY <1>1, OthersUnmoved DEF Asked
<1>4. Returned' = Returned
  BY <1>1, OthersUnmoved DEF Returned
<1> QED
  BY <1>1, <1>2, <1>3, <1>4 DEF Atomic!Invoke, Stage, Asked, Returned

LEMMA Effected ==
    ASSUME NEW p \in Procs, OthersKeep(p),
           Moment(p) = "open", Moment(p)' = "closed", Undertaken(p)' = Undertaken(p),
           NEW e \in Promised(Undertaken(p), m), m' = e.s, ret'[p] = e.ret
    PROVE  Atomic!TakeEffect(p)
<1>1. /\ Stage[p] = "open" /\ Stage'[p] = "closed" /\ Asked'[p] = Asked[p]
      /\ Asked[p] = Undertaken(p) /\ Returned'[p] = e.ret
  BY DEF Stage, Asked, Returned, Undertaken
<1>2. Stage' = [Stage EXCEPT ![p] = "closed"]
  BY <1>1, OthersUnmoved DEF Stage
<1>3. Asked' = Asked
  BY <1>1, OthersUnmoved DEF Asked
<1>4. Returned' = [Returned EXCEPT ![p] = e.ret]
  BY <1>1, OthersUnmoved DEF Returned
<1>5. e \in Promised(Asked[p], m)
  BY <1>1
<1> QED
  BY <1>1, <1>2, <1>3, <1>4, <1>5 DEF Atomic!TakeEffect, Stage, Asked, Returned

LEMMA GoesHome ==
    ASSUME NEW p \in Procs, OthersKeep(p), m' = m,
           Moment(p) = "closed", Moment(p)' = "idle"
    PROVE  Atomic!Return(p)
<1>1. /\ Stage[p] = "closed" /\ Stage'[p] = "idle" /\ Asked'[p] = none /\ Returned'[p] = none
  BY DEF Stage, Asked, Returned
<1>2. Stage' = [Stage EXCEPT ![p] = "idle"]
  BY <1>1, OthersUnmoved DEF Stage
<1>3. Asked' = [Asked EXCEPT ![p] = none]
  BY <1>1, OthersUnmoved DEF Asked
<1>4. Returned' = [Returned EXCEPT ![p] = none]
  BY <1>1, OthersUnmoved DEF Returned
<1> QED
  BY <1>1, <1>2, <1>3, <1>4 DEF Atomic!Return, Stage, Asked, Returned

\* Methods that are one promise as a whole; the others make one per update.
OneEffect == Single \cup Loading \cup Popping

LEMMA MomentIs ==
    ASSUME NEW p \in Procs
    PROVE  /\ pc[p] = "idle" => Moment(p) = "idle"
           /\ pc[p] # "idle" /\ call[p].kind \in OneEffect =>
                Moment(p) = IF pc[p] = "done" THEN "closed" ELSE "open"
           /\ call[p].kind \notin OneEffect /\ sub[p] = call[p] => Moment(p) = "idle"
           /\ call[p].kind \notin OneEffect /\ sub[p] # call[p] =>
                /\ pc[p] = "act" => Moment(p) = "open"
                /\ pc[p] = "done" => Moment(p) = "closed"
BY DEF Moment, OneEffect

LEMMA MomentIsAfter ==
    ASSUME NEW p \in Procs
    PROVE  /\ pc'[p] = "idle" => Moment(p)' = "idle"
           /\ pc'[p] # "idle" /\ call'[p].kind \in OneEffect =>
                Moment(p)' = IF pc'[p] = "done" THEN "closed" ELSE "open"
           /\ call'[p].kind \notin OneEffect /\ sub'[p] = call'[p] => Moment(p)' = "idle"
           /\ call'[p].kind \notin OneEffect /\ sub'[p] # call'[p] =>
                /\ pc'[p] = "act" => Moment(p)' = "open"
                /\ pc'[p] = "done" => Moment(p)' = "closed"
BY DEF Moment, OneEffect

LEMMA BulkIsNotOne ==
    /\ OneEffect \cap Writing = {} /\ OneEffect \cap Telling = {}
    /\ "removeFunc" \notin OneEffect
    /\ OneEffect \cap (Walking \ Popping) = {} /\ OneEffect \cap Listed = {}
BY KindsApart DEF OneEffect, Walking, Single, Loading, Popping, Navigations, Writing, Listed, Telling

\* Bulk methods go through the updates of other kinds.
LEMMA ChoreIsNotCall ==
    ASSUME NEW q, NEW s, q.kind \in Writing, s.kind \in {"store", "remove"}
    PROVE  s # q
BY KindsApart

LEMMA SettledIsPromised ==
    ASSUME NEW q \in Requests, q.kind \in Loading, NEW s \in Contents, Settled(q, s[q.key])
    PROVE  Outcome(q, s) \in Promised(q, s) /\ Outcome(q, s).s = s
<1>1. s[q.key] \in Values \cup {none}
  BY DEF Requests, Contents
<1>2. CASE q.kind = "computeIfAbsent"
  <2>1. Promised(q, s) = {Outcome(q, s), Does(s, <<none>>)}
    BY <1>2 DEF Promised, Popping, Loading
  <2>2. Outcome(q, s) = ComputeIfAbsent(q, s)
    BY <1>2 DEF Outcome
  <2>3. s[q.key] # none
    BY <1>2 DEF Settled
  <2> QED
    BY <2>1, <2>2, <2>3, DoesFields DEF ComputeIfAbsent
<1>3. CASE q.kind # "computeIfAbsent"
  <2>1. q.kind \in {"replace", "replaceIf", "removeIf", "computeIfPresent"} /\ s[q.key] = none
    BY <1>3 DEF Settled
  <2>2. Promised(q, s) = {Decision(q, v, s) : v \in Values \cup {none}} \cup {Does(s, <<none>>)}
    BY <1>3, <2>1 DEF Promised, Popping, Loading
  <2>3. Decision(q, s[q.key], s) = Outcome(q, s)
    BY DecidedOnWhatIsThere
  <2>4. Outcome(q, s) \in {Replace(q, s), ReplaceIf(q, s), RemoveIf(q, s), ComputeIfPresent(q, s)}
    BY <2>1 DEF Outcome
  <2>5. Outcome(q, s) = Does(s, <<>>)
    BY <2>1, <2>4 DEF Replace, ReplaceIf, RemoveIf, ComputeIfPresent
  <2> QED
    BY <1>1, <2>2, <2>3, <2>5, DoesFields
<1> QED
  BY <1>2, <1>3

LEMMA DecisionIsPromised ==
    ASSUME NEW q \in Requests, q.kind \in Loading, NEW s, NEW v \in Values \cup {none}
    PROVE  Decision(q, v, s) \in Promised(q, s) /\ Does(s, <<none>>) \in Promised(q, s)
<1>1. CASE q.kind = "computeIfAbsent"
  <2>1. Promised(q, s) = {Outcome(q, s), Does(s, <<none>>)}
    BY <1>1 DEF Promised, Popping, Loading
  <2>2. Decision(q, v, s) = Outcome(q, s)
    BY <1>1 DEF Decision
  <2> QED
    BY <2>1, <2>2
<1>2. CASE q.kind # "computeIfAbsent"
  <2>1. Promised(q, s) = {Decision(q, w, s) : w \in Values \cup {none}} \cup {Does(s, <<none>>)}
    BY <1>2, KindsApart DEF Promised, Loading
  <2> QED
    BY <2>1
<1> QED
  BY <1>1, <1>2

LEMMA PopIsPromised ==
    ASSUME NEW q, q.kind \in Popping, NEW s
    PROVE  /\ Does(s, <<>>) \in Promised(q, s)
           /\ \A k \in Stored(s) : Does([s EXCEPT ![k] = none], <<k, s[k]>>) \in Promised(q, s)
<1>1. q.kind # "store"
  BY DEF Popping
<1> DEFINE Popped == {Does([s EXCEPT ![k] = none], <<k, s[k]>>) : k \in Stored(s)}
           Chosen(E) == CASE q.kind = "store" -> {Store(q, s)}
                          [] q.kind \in Popping -> E
                          [] q.kind \in Loading \ {"computeIfAbsent"} ->
                               {Decision(q, v, s) : v \in Values \cup {none}} \cup {Does(s, <<none>>)}
                          [] q.kind = "computeIfAbsent" -> {Outcome(q, s), Does(s, <<none>>)}
                          [] OTHER -> {Outcome(q, s)}
<1>c. \A E : Chosen(E) = E
  BY <1>1, KindsApart DEF Loading
<1>d. Promised(q, s) = Chosen(Popped \cup {Does(s, <<>>)})
  BY Zenon DEF Promised
<1>2. Promised(q, s) = Popped \cup {Does(s, <<>>)}
  <2> HIDE DEF Popped, Chosen
  <2> QED
    BY <1>c, <1>d
<1>3. \A k \in Stored(s) : Does([s EXCEPT ![k] = none], <<k, s[k]>>) \in Popped
  OBVIOUS
<1> HIDE DEF Popped
<1> QED
  BY <1>2, <1>3

LEMMA UpdateIsPromised ==
    ASSUME NEW q, q.kind \in Single, NEW s
    PROVE  (IF q.kind = "store" THEN Store(q, s) ELSE Outcome(q, s)) \in Promised(q, s)
<1>1. q.kind \notin Popping \cup Loading
  BY KindsApart
<1>2. CASE q.kind = "store"
  BY <1>1, <1>2 DEF Promised
<1>3. CASE q.kind # "store"
  <2>1. Promised(q, s) = {Outcome(q, s)}
    BY <1>1, <1>3 DEF Promised, Loading
  <2> QED
    BY <1>3, <2>1
<1> QED
  BY <1>2, <1>3

LEMMA StepIsPromised == IInv /\ [Next]_vars => [Atomic!Next]_Atomic!vars
<1> SUFFICES ASSUME IInv, [Next]_vars PROVE Atomic!Next \/ UNCHANGED Atomic!vars
  OBVIOUS
<1>t. Types /\ m \in Contents
  BY DEF IInv, Types
<1>f. DOMAIN pc = Procs /\ DOMAIN call = Procs /\ DOMAIN sub = Procs /\ DOMAIN ret = Procs
  BY <1>t DEF Types
<1>1. CASE UNCHANGED vars \/ Terminated
  BY <1>1 DEF vars, local, Terminated, Atomic!vars, Moment
<1>2. ASSUME NEW p \in Procs, Moves(p) PROVE Atomic!Next \/ UNCHANGED Atomic!vars
  <2>o. OthersKeep(p)
    BY <1>2, StepIsLocal
  <2>p. Place(p)
    BY DEF IInv
  <2>i. Place(p)'
    BY <1>2, StepPlace DEF Next, Moves
  <2>r. sub[p] = call[p] /\ sub'[p] = sub[p] /\ call'[p] = call[p] => Undertaken(p)' = Undertaken(p)
    BY DEF Undertaken
  \* A step of a bulk method between its updates.
  <2>s. ASSUME m' = m, call'[p] = call[p], call[p].kind \notin OneEffect, sub[p] = call[p], sub'[p] = sub[p]
        PROVE  UNCHANGED Atomic!vars
    BY <2>o, <2>s, MomentIs, MomentIsAfter, Stutter
  \* It begins an update.
  <2>b. ASSUME m' = m, call'[p] = call[p], call[p].kind \in Writing, sub[p] = call[p], pc'[p] = "act",
               sub'[p].kind \in {"store", "remove"}
        PROVE  Atomic!Invoke(p)
    <3>1. call[p].kind \notin OneEffect /\ call[p].kind \notin Popping
      BY <2>b, BulkIsNotOne, KindsApart
    <3>2. sub'[p] # call'[p]
      BY <2>b, ChoreIsNotCall
    <3>3. Moment(p) = "idle" /\ Moment(p)' = "open"
      BY <2>b, <3>1, <3>2, MomentIs, MomentIsAfter
    <3>4. Undertaken(p)' = sub'[p] /\ sub'[p] \in Requests
      BY <2>b, <2>i, <3>1 DEF Undertaken, Place
    <3> QED
      BY <2>o, <2>b, <3>3, <3>4, Invoked
  \* The update that ends here is one its method promised.
  <2>e. ASSUME pc[p] \notin {"idle", "done"}, pc'[p] = "done", call'[p] = call[p], sub'[p] = sub[p],
               call[p].kind \in OneEffect \/ (call[p].kind \in Writing /\ sub[p] # call[p] /\ pc[p] = "act"),
               NEW e \in Promised(Undertaken(p), m), m' = e.s, ret'[p] = e.ret
        PROVE  Atomic!TakeEffect(p)
    <3>1. Moment(p) = "open" /\ Moment(p)' = "closed"
      BY <2>e, BulkIsNotOne, MomentIs, MomentIsAfter
    <3>2. Undertaken(p)' = Undertaken(p)
      BY <2>e DEF Undertaken
    <3> QED
      BY <2>o, <2>e, <3>1, <3>2, Effected
  <2>1. CASE Call(p)
    <3>1. PICK q, l : Called(p, q, l)
      BY <1>t, <2>1, CallIs
    <3>2. q \in Requests /\ call'[p] = q /\ sub'[p] = q /\ m' = m /\ pc[p] = "idle"
      BY <1>f, <3>1 DEF Called
    <3>3. \/ q.kind \in OneEffect /\ pc'[p] \in {"act", "load", "walk"}
          \/ q.kind \notin OneEffect
      BY <1>f, <3>1, BulkIsNotOne DEF Called
    <3>4. CASE q.kind \in OneEffect /\ pc'[p] \in {"act", "load", "walk"}
      <4>1. Moment(p) = "idle" /\ Moment(p)' = "open"
        BY <3>2, <3>4, MomentIs, MomentIsAfter
      <4>2. Undertaken(p)' \in Requests
        BY <3>2 DEF Undertaken
      <4>3. Atomic!Invoke(p)
        BY <2>o, <3>2, <4>1, <4>2, Invoked
      <4> QED
        BY <4>3 DEF Atomic!Next
    <3>5. CASE q.kind \notin OneEffect
      <4>1. Moment(p) = "idle" /\ Moment(p)' = "idle"
        BY <3>2, <3>5, MomentIs, MomentIsAfter
      <4> QED
        BY <2>o, <3>2, <4>1, Stutter
    <3> QED
      BY <3>3, <3>4, <3>5
  <2>2. CASE Act(p)
    <3> DEFINE e == IF sub[p].kind = "store" THEN Store(sub[p], m) ELSE Outcome(sub[p], m)
    <3>1. /\ pc[p] = "act" /\ call[p].kind \notin Popping /\ m' = e.s /\ ret'[p] = e.ret
          /\ pc'[p] = "done" /\ call'[p] = call[p] /\ sub'[p] = sub[p]
      BY <1>f, <2>2 DEF Act, Write, Goto
    <3>2. sub[p].kind \in Single
      BY <2>2, WritesContents
    <3>3. e \in Promised(sub[p], m)
      BY <3>2, UpdateIsPromised
    <3> HIDE DEF e
    <3>4. Undertaken(p) = sub[p]
      BY <3>1 DEF Undertaken
    <3>5. call[p].kind \in OneEffect \/ (call[p].kind \in Writing /\ sub[p] # call[p])
      BY <2>p, <3>1, ChoreIsNotCall DEF Place, OneEffect
    <3>6. Atomic!TakeEffect(p)
      BY <2>e, <3>1, <3>3, <3>4, <3>5
    <3> QED
      BY <3>6 DEF Atomic!Next
  <2>3. CASE Decide(p)
    <3> DEFINE e == Decision(sub[p], got[p], m)
    <3>1. /\ pc[p] = "decide" /\ m' = e.s /\ ret'[p] = e.ret
          /\ pc'[p] = "done" /\ call'[p] = call[p] /\ sub'[p] = sub[p]
      BY <1>f, <2>3 DEF Decide, Write, Goto
    <3>2. sub[p] \in Requests /\ sub[p] = call[p] /\ call[p].kind \in Loading /\ got[p] \in Values \cup {none}
      BY <1>t, <2>p, <3>1 DEF Place, Types
    <3>3. e \in Promised(sub[p], m)
      BY <3>2, DecisionIsPromised
    <3> HIDE DEF e
    <3>4. Undertaken(p) = sub[p] /\ call[p].kind \in OneEffect
      BY <3>2 DEF Undertaken, OneEffect
    <3>5. Atomic!TakeEffect(p)
      BY <2>e, <3>1, <3>3, <3>4
    <3> QED
      BY <3>5 DEF Atomic!Next
  <2>4. CASE Pop(p)
    <3> DEFINE k == sub[p].key
               e == Does([m EXCEPT ![k] = none], <<k, m[k]>>)
    <3>1. /\ pc[p] = "act" /\ call[p].kind \in Popping /\ m[k] # none
          /\ m' = [m EXCEPT ![k] = none] /\ ret'[p] = <<k, m[k]>>
          /\ pc'[p] = "done" /\ call'[p] = call[p] /\ sub'[p] = sub[p]
      BY <1>f, <2>4 DEF Pop, Write, Goto
    <3>2. sub[p] \in Requests
      BY <2>p, <3>1 DEF Place
    <3>3. k \in Stored(m)
      BY <1>t, <3>1, <3>2 DEF Stored, Contents, Requests
    <3>4. Undertaken(p) = call[p] /\ call[p].kind \in OneEffect
      BY <3>1 DEF Undertaken, OneEffect
    <3>5. e \in Promised(Undertaken(p), m)
      BY <3>1, <3>3, <3>4, PopIsPromised
    <3>6. m' = e.s /\ ret'[p] = e.ret
      BY <3>1, DoesFields
    <3> HIDE DEF e, k
    <3>7. Atomic!TakeEffect(p)
      BY <2>e, <3>1, <3>4, <3>5, <3>6
    <3> QED
      BY <3>7 DEF Atomic!Next
  <2>5. CASE Load(p)
    <3>1. /\ pc[p] = "load" /\ m' = m /\ call'[p] = call[p] /\ sub'[p] = sub[p]
          /\ \/ /\ Settled(sub[p], m[sub[p].key]) /\ pc'[p] = "done"
                /\ ret'[p] = Outcome(sub[p], m).ret
             \/ pc'[p] = "decide" /\ ret' = ret
      BY <1>f, <2>5 DEF Load, Goto
    <3>2. sub[p] \in Requests /\ sub[p] = call[p] /\ call[p].kind \in Loading
      BY <2>p, <3>1 DEF Place
    <3>3. Undertaken(p) = sub[p] /\ call[p].kind \in OneEffect
      BY <3>2 DEF Undertaken, OneEffect
    <3>4. CASE Settled(sub[p], m[sub[p].key]) /\ pc'[p] = "done" /\ ret'[p] = Outcome(sub[p], m).ret
      <4> DEFINE e == Outcome(sub[p], m)
      <4>1. e \in Promised(sub[p], m) /\ m' = e.s /\ ret'[p] = e.ret
        BY <1>t, <3>1, <3>2, <3>4, SettledIsPromised
      <4> HIDE DEF e
      <4>2. Atomic!TakeEffect(p)
        BY <2>e, <3>1, <3>3, <3>4, <4>1
      <4> QED
        BY <4>2 DEF Atomic!Next
    <3>5. CASE pc'[p] = "decide" /\ ret' = ret
      <4>1. Moment(p) = "open" /\ Moment(p)' = "open"
        BY <3>1, <3>3, <3>5, MomentIs, MomentIsAfter
      <4> QED
        BY <2>o, <2>r, <3>1, <3>2, <4>1, Stutter
    <3> QED
      BY <3>1, <3>4, <3>5
  \* The end of a walk, for pops and for the others.
  <2>w. ASSUME NEW s, Concluded(p, s), m' = m, call' = call, pc[p] = "walk"
        PROVE  Atomic!Next \/ UNCHANGED Atomic!vars
    <3>1. call'[p] = call[p] /\ call[p].kind \in Walking
      BY <2>p, <2>w DEF Place
    <3>2. CASE call[p].kind \in Popping /\ pc'[p] = "act"
      <4>1. Moment(p) = "open" /\ Moment(p)' = "open"
        BY <2>w, <3>1, <3>2, MomentIs, MomentIsAfter DEF OneEffect
      <4>2. Undertaken(p)' = Undertaken(p)
        BY <3>1, <3>2 DEF Undertaken
      <4> QED
        BY <2>o, <2>w, <3>1, <4>1, <4>2, Stutter
    <3>3. CASE call[p].kind \in Popping /\ s = <<>> /\ pc'[p] = "done" /\ sub'[p] = sub[p] /\ ret'[p] = Answer(call[p], s)
      <4>1. Answer(call[p], s) = <<>>
        BY <3>3 DEF Answer, Popping, Navigations
      <4> DEFINE e == Does(m, <<>>)
      <4>2. e \in Promised(call[p], m) /\ m' = e.s /\ ret'[p] = e.ret
        BY <2>w, <3>3, <4>1, PopIsPromised, DoesFields
      <4> HIDE DEF e
      <4>3. Undertaken(p) = call[p] /\ call[p].kind \in OneEffect
        BY <3>3 DEF Undertaken, OneEffect
      <4>4. Atomic!TakeEffect(p)
        BY <2>e, <2>w, <3>1, <3>3, <4>2, <4>3
      <4> QED
        BY <4>4 DEF Atomic!Next
    <3>4. CASE call[p].kind \notin Popping /\ sub'[p] = sub[p]
      <4>1. sub[p] = call[p]
        BY <2>p, <2>w, <3>4 DEF Place
      <4>2. call[p].kind \notin OneEffect
        BY <3>1, <3>4, BulkIsNotOne
      <4> QED
        BY <2>s, <2>w, <3>1, <3>4, <4>1, <4>2
    <3> QED
      BY <1>f, <2>w, <3>2, <3>3, <3>4, KindsApart DEF Concluded
  <2>6. CASE Visit(p)
    <3>1. PICK k \in Keys : Visited(p, k)
      BY <1>t, <2>6, VisitIs
    <3> DEFINE told == Append(seen[p], <<k, m[k]>>)
    <3>2. pc[p] = "walk" /\ call' = call /\ m' = m /\ call[p].kind \in Walking
      BY <2>p, <3>1 DEF Visited, Place
    <3>3. CASE Concluded(p, told)
      BY <2>w, <3>2, <3>3
    <3>4. CASE /\ call[p].kind \in {"clear", "replaceEntries"}
               /\ sub' = [sub EXCEPT ![p] = Removing(call[p], k)] /\ pc' = [pc EXCEPT ![p] = "act"]
      <4>1. pc'[p] = "act" /\ sub'[p] = Removing(call[p], k) /\ call[p].kind \in Writing
        BY <1>f, <3>4, KindsApart
      <4>2. call[p] \in Requests /\ sub[p] = call[p]
        BY <2>p, <3>2, <4>1, KindsApart DEF Place
      <4>3. sub'[p].kind = "remove"
        BY <4>1, <4>2, RemovingType
      <4>4. Atomic!Invoke(p)
        BY <2>b, <3>2, <4>1, <4>2, <4>3
      <4> QED
        BY <4>4 DEF Atomic!Next
    <3>5. CASE sub' = sub /\ UNCHANGED ret /\ pc'[p] # "done"
      <4>1. CASE call[p].kind \in Popping
        <5>1. pc'[p] \notin {"idle", "done"}
          BY <1>f, <3>1, <3>2, <3>5 DEF Visited, Concluded
        <5>2. Moment(p) = "open" /\ Moment(p)' = "open"
          BY <3>2, <4>1, <5>1, MomentIs, MomentIsAfter DEF OneEffect
        <5>3. Undertaken(p)' = Undertaken(p)
          BY <3>2, <4>1 DEF Undertaken
        <5> QED
          BY <2>o, <3>2, <5>2, <5>3, Stutter
      <4>2. CASE call[p].kind \notin Popping
        <5>1. sub[p] = call[p] /\ call[p].kind \notin OneEffect
          BY <2>p, <3>2, <4>2, BulkIsNotOne DEF Place
        <5> QED
          BY <2>s, <3>2, <3>5, <5>1
      <4> QED
        BY <4>1, <4>2
    <3>6. \/ Concluded(p, told)
          \/ /\ call[p].kind \in {"clear", "replaceEntries"}
             /\ sub' = [sub EXCEPT ![p] = Removing(call[p], k)] /\ pc' = [pc EXCEPT ![p] = "act"]
          \/ sub' = sub /\ UNCHANGED ret /\ pc' \in {pc, [pc EXCEPT ![p] = "told"]}
      BY <3>1 DEF Visited
    <3>7. pc' \in {pc, [pc EXCEPT ![p] = "told"]} => pc'[p] # "done"
      BY <1>f, <3>2
    <3> QED
      BY <3>3, <3>4, <3>5, <3>6, <3>7
  <2>7. CASE WalkEnds(p)
    <3>1. Concluded(p, seen[p]) /\ m' = m /\ call' = call /\ pc[p] = "walk"
      BY <2>7, ConcludeIs DEF WalkEnds
    <3> QED
      BY <2>w, <3>1
  <2>8. CASE Continue(p)
    <3>1. pc[p] = "told" /\ m' = m /\ call'[p] = call[p]
      BY <2>8 DEF Continue
    <3>2. call[p] \in Requests /\ sub[p] = call[p] /\ call[p].kind \in Telling
      BY <2>p, <3>1 DEF Place
    <3>3. CASE sub' = sub
      BY <2>s, <3>1, <3>2, <3>3, BulkIsNotOne
    <3>4. CASE sub' # sub
      <4>1. call[p].kind = "replaceAll" /\ pc'[p] = "act" /\ sub'[p].kind = "store"
        <5>1. /\ call[p].kind = "replaceAll" /\ pc' = [pc EXCEPT ![p] = "act"]
              /\ \E k, v : sub' = [sub EXCEPT ![p] = Storing(call[p], k, v)]
          BY <2>8, <3>4 DEF Continue, Goto
        <5>2. \A k, v : Storing(call[p], k, v).kind = "store"
          BY <3>2 DEF Storing, Requests
        <5> QED
          BY <1>f, <5>1, <5>2
      <4>2. Atomic!Invoke(p)
        BY <2>b, <3>1, <3>2, <4>1, KindsApart
      <4> QED
        BY <4>2 DEF Atomic!Next
    <3> QED
      BY <3>3, <3>4
  <2>9. CASE PopRetries(p)
    <3>1. /\ pc[p] = "act" /\ call[p].kind \in Popping /\ pc'[p] = "walk" /\ m' = m
          /\ call'[p] = call[p] /\ sub'[p] = sub[p]
      BY <1>f, <2>9 DEF PopRetries, Goto
    <3>2. Moment(p) = "open" /\ Moment(p)' = "open"
      BY <3>1, MomentIs, MomentIsAfter DEF OneEffect
    <3>3. Undertaken(p)' = Undertaken(p)
      BY <3>1 DEF Undertaken
    <3> QED
      BY <2>o, <3>1, <3>2, <3>3, Stutter
  <2>10. CASE RemovesNothing(p) \/ Collects(p)
    <3>1. pc[p] = "size" /\ m' = m /\ call'[p] = call[p] /\ sub'[p] = sub[p]
      BY <2>10 DEF RemovesNothing, Collects
    <3>2. sub[p] = call[p] /\ call[p].kind \notin OneEffect
      BY <2>p, <3>1, BulkIsNotOne DEF Place
    <3> QED
      BY <2>s, <3>1, <3>2
  <2>11. CASE Panic(p)
    <3>1. /\ pc[p] \in {"told", "decide"} /\ pc'[p] = "done" /\ ret'[p] = <<none>>
          /\ m' = m /\ call'[p] = call[p] /\ sub'[p] = sub[p]
      BY <1>f, <2>11 DEF Panic, InUserCode, Goto
    <3>2. CASE pc[p] = "told"
      <4>1. sub[p] = call[p] /\ call[p].kind \notin OneEffect
        BY <2>p, <3>2, BulkIsNotOne DEF Place
      <4> QED
        BY <2>s, <3>1, <4>1
    <3>3. CASE pc[p] = "decide"
      <4> DEFINE e == Does(m, <<none>>)
      <4>1. sub[p] \in Requests /\ sub[p] = call[p] /\ call[p].kind \in Loading
        BY <2>p, <3>3 DEF Place
      <4>2. e \in Promised(sub[p], m) /\ m' = e.s /\ ret'[p] = e.ret
        <5>1. m' = e.s /\ ret'[p] = e.ret
          BY <3>1, DoesFields, ZenonT(60)
        <5> QED
          BY <4>1, <5>1, DecisionIsPromised, Zenon
      <4> HIDE DEF e
      <4>3. Undertaken(p) = sub[p] /\ call[p].kind \in OneEffect
        BY <4>1 DEF Undertaken, OneEffect
      <4>4. Atomic!TakeEffect(p)
        BY <2>e, <3>1, <3>3, <4>2, <4>3
      <4> QED
        BY <4>4 DEF Atomic!Next
    <3> QED
      BY <3>1, <3>2, <3>3
  <2>12. CASE Proceed(p)
    <3>1. /\ pc[p] = "next" /\ pc'[p] = "act" /\ sub'[p] = Head(plan[p]) /\ call'[p] = call[p]
          /\ plan[p] # <<>> /\ m' = m
      BY <1>f, <2>12 DEF Proceed, Goto
    <3>2. Head(plan[p]) \in Chores
      BY <1>t, <3>1, HeadTailProperties DEF Types
    <3>3. sub[p] = call[p] /\ call[p].kind \in Writing
      BY <2>p, <3>1, KindsApart DEF Place
    <3>4. Atomic!Invoke(p)
      BY <2>b, <3>1, <3>2, <3>3 DEF Chores
    <3> QED
      BY <3>4 DEF Atomic!Next
  <2>13. CASE Resume(p)
    <3>1. /\ pc[p] = "done" /\ call[p].kind \in Writing /\ sub[p] # call[p] /\ sub'[p] = call[p]
          /\ call'[p] = call[p] /\ m' = m
      BY <1>f, <2>13 DEF Resume, local
    <3>2. Moment(p) = "closed" /\ Moment(p)' = "idle"
      BY <3>1, BulkIsNotOne, MomentIs, MomentIsAfter
    <3>3. Atomic!Return(p)
      BY <2>o, <3>1, <3>2, GoesHome
    <3> QED
      BY <3>3 DEF Atomic!Next
  <2>14. CASE Return(p)
    <3>1. /\ pc'[p] = "idle" /\ m' = m
          /\ \/ pc[p] = "done" /\ (call[p].kind \notin Writing \/ sub[p] = call[p])
             \/ pc[p] = "next"
      BY <1>f, <2>14 DEF Return, Goto
    <3>2. Moment(p)' = "idle"
      BY <3>1, MomentIsAfter
    <3>3. CASE pc[p] = "done" /\ call[p].kind \in OneEffect
      <4>1. Moment(p) = "closed"
        BY <3>3, MomentIs
      <4>2. Atomic!Return(p)
        BY <2>o, <3>1, <3>2, <4>1, GoesHome
      <4> QED
        BY <4>2 DEF Atomic!Next
    <3>4. CASE ~(pc[p] = "done" /\ call[p].kind \in OneEffect)
      <4>1. sub[p] = call[p]
        BY <2>p, <3>1, <3>4 DEF Place, OneEffect
      <4>2. call[p].kind \notin OneEffect
        BY <2>p, <3>1, <3>4, BulkIsNotOne, KindsApart DEF Place
      <4>3. Moment(p) = "idle"
        BY <4>1, <4>2, MomentIs
      <4> QED
        BY <2>o, <3>1, <3>2, <4>3, Stutter
    <3> QED
      BY <3>3, <3>4
  <2> QED
    BY <1>2, <2>1, <2>2, <2>3, <2>4, <2>5, <2>6, <2>7, <2>8, <2>9, <2>10, <2>11, <2>12, <2>13, <2>14
       DEF Moves, Step
<1> QED
  BY <1>1, <1>2 DEF Next, Moves

(* Get, Remove, PutIfAbsent and GetOrCompute, and every update a bulk      *)
(* method makes, take effect in one instant and return what they found     *)
(* then; Compute and the `If`s make one write or none; a pop removes       *)
(* exactly the entry it returns, however often it had to look again.       *)
THEOREM SkipMapKeepsItsPromises == Spec => EveryCallKeepsItsPromise
<1>1. Init => Atomic!Init
  <2> SUFFICES ASSUME Init PROVE Atomic!Init
    OBVIOUS
  <2>1. \A p \in Procs : Moment(p) = "idle"
    BY DEF Init, Moment
  <2> QED
    BY <2>1 DEF Init, Atomic!Init
<1>2. IInv /\ [Next]_vars => [Atomic!Next]_Atomic!vars
  BY StepIsPromised
<1> QED
  BY <1>1, <1>2, Invariance, PTL DEF Spec, EveryCallKeepsItsPromise, Atomic!Spec

-----------------------------------------------------------------------------
(* What the walks answer.  A walk has told of every key that stayed and is *)
(* not in front of it, and what stays in front of it is due.               *)

Told(p) == {seen[p][i] : i \in DOMAIN seen[p]}
HaltsAt(p, i) == Halts(call[p], seen[p][i][1], seen[p][i][2])

\* What stayed is there, and what is there was there.
Remembers(p) ==
    IF pc[p] = "idle" THEN kept[p] = {} /\ had[p] = {} /\ stayed[p] = {}
    ELSE /\ kept[p] \subseteq EntriesIn(m) /\ EntriesIn(m) \subseteq had[p]
         /\ had[p] \subseteq Keys \X Values
         /\ stayed[p] \subseteq Stored(m) /\ \A e \in kept[p] : e[1] \in stayed[p]

\* What the walk has told of, up to where it is.
TellsInOrder(p) ==
    /\ pc[p] \in {"idle", "size"} => seen[p] = <<>>
    /\ pc[p] # "idle" =>
         /\ walk[p].pos = IF seen[p] = <<>> THEN 0 ELSE Rest(seen[p])[1]
         /\ \A i, j \in DOMAIN seen[p] : i < j => seen[p][i][1] < seen[p][j][1]
         /\ \A i \in DOMAIN seen[p] : HaltsAt(p, i) => i = Len(seen[p]) /\ pc[p] \in {"act", "done"}

MissesNothing(p) ==
    pc[p] # "idle" =>
      /\ Told(p) \subseteq had[p]
      /\ \A k \in stayed[p] : IF k > walk[p].pos THEN k \in walk[p].due
                                                 ELSE \E e \in Told(p) : e[1] = k
      /\ \A e \in kept[p] : e[1] <= walk[p].pos => e \in Told(p)

\* The walk is over.
Finished(p) == walk[p].due = {} \/ (seen[p] # <<>> /\ HaltsAt(p, Len(seen[p])))
Concludes(p) ==
    /\ Answered(p) /\ call[p].kind \in Walking \ (Popping \cup {"removeFunc"}) =>
         Finished(p) /\ ret[p] = Answer(call[p], seen[p])
    /\ /\ pc[p] \in {"next", "act"} \/ (pc[p] = "done" /\ sub[p] # call[p])
       /\ call[p].kind = "removeFunc"
       => Finished(p)

\* No better key stayed than the one a pop is about to delete.
Picks(q, k, S) == \A j \in S : IF q.kind = "popFirst" THEN k <= j ELSE k >= j
PicksWell(p) ==
    pc[p] # "idle" /\ call[p].kind \in Popping =>
      /\ pc[p] = "act" => Picks(call[p], sub[p].key, stayed[p])
      /\ pc[p] = "done" => IF ret[p] = <<>> THEN stayed[p] = {} ELSE Picks(call[p], ret[p][1], stayed[p])

\* What a bulk method has told of and has still to do.
ClearsWell(p) ==
    pc[p] # "idle" /\ call[p].kind = "clear" =>
      /\ pc[p] = "act" => sub[p].kind = "remove"
      /\ \A e \in Told(p) : e[1] \in stayed[p] => pc[p] = "act" /\ sub[p].key = e[1]

ReplacesWell(p) ==
    pc[p] # "idle" /\ call[p].kind = "replaceAll" =>
      \A e \in Told(p) \cap kept[p] :
         \/ call[p].fn[e[2]] = e[2]
         \/ pc[p] = "told" /\ e = Rest(seen[p])
         \/ pc[p] = "act" /\ sub[p] = Storing(call[p], e[1], call[p].fn[e[2]])
         \/ pc[p] = "done" /\ ret[p] = <<none>> /\ sub[p] = call[p]

RemovesWell(p) ==
    pc[p] # "idle" /\ call[p].kind = "removeFunc" =>
      \A e \in Told(p) \cap kept[p] :
         \/ e[2] # call[p].old
         \/ pc[p] = "told" /\ e = Rest(seen[p])
         \/ \E i \in DOMAIN plan[p] : plan[p][i] = Removing(call[p], e[1])
         \/ pc[p] = "act" /\ sub[p] = Removing(call[p], e[1])
         \/ pc[p] = "done" /\ sub[p] = call[p]

Justified(p) ==
    /\ Remembers(p) /\ TellsInOrder(p) /\ MissesNothing(p) /\ Concludes(p)
    /\ PicksWell(p) /\ ClearsWell(p) /\ ReplacesWell(p) /\ RemovesWell(p)

SInv == \A p \in Procs : Justified(p)
-----------------------------------------------------------------------------
(* Facts about histories and walks.                                        *)

LEMMA EntriesType ==
    ASSUME NEW s \in Contents
    PROVE  /\ EntriesIn(s) \subseteq Keys \X Values
           /\ \A e \in EntriesIn(s) : e[1] \in Stored(s) /\ e[2] = s[e[1]] /\ e = <<e[1], s[e[1]]>>
           /\ \A k \in Stored(s) : <<k, s[k]>> \in EntriesIn(s)
BY StoredType DEF EntriesIn

\* What a method has seen happen, by where it was and is.
LEMMA History ==
    ASSUME ScanNext, NEW p \in Procs
    PROVE  /\ pc'[p] = "idle" => kept'[p] = {} /\ had'[p] = {} /\ stayed'[p] = {}
           /\ pc'[p] # "idle" /\ pc[p] = "idle" =>
                kept'[p] = EntriesIn(m') /\ had'[p] = EntriesIn(m') /\ stayed'[p] = Stored(m')
           /\ pc'[p] # "idle" /\ pc[p] # "idle" =>
                /\ kept'[p] = kept[p] \cap EntriesIn(m') /\ had'[p] = had[p] \cup EntriesIn(m')
                /\ stayed'[p] = stayed[p] \cap Stored(m')
BY DEF ScanNext, Since

LEMMA EverybodyRemembers ==
    ASSUME IInv, SInv, ScanNext, NEW p \in Procs
    PROVE  Remembers(p)'
<1>1. m' \in Contents
  BY StepTypes DEF ScanNext, Types
<1>2. Remembers(p)
  BY DEF SInv, Justified
<1> QED
  BY <1>1, <1>2, EntriesType, History DEF Remembers

\* Where a method is not idle its history only shrinks and grows.
LEMMA HistoryNarrows ==
    ASSUME ScanNext, NEW p \in Procs, pc[p] # "idle", pc'[p] # "idle"
    PROVE  /\ kept'[p] \subseteq kept[p] /\ had[p] \subseteq had'[p] /\ stayed'[p] \subseteq stayed[p]
           /\ kept'[p] \subseteq EntriesIn(m') /\ EntriesIn(m') \subseteq had'[p] /\ stayed'[p] \subseteq Stored(m')
BY History

\* What a walk has told of lies behind it.
LEMMA ToldIsBehind ==
    ASSUME IInv, SInv, NEW p \in Procs, pc[p] # "idle"
    PROVE  /\ DOMAIN seen[p] = 1 .. Len(seen[p]) /\ Len(seen[p]) \in Nat
           /\ \A i \in DOMAIN seen[p] : seen[p][i] \in Keys \X Values /\ seen[p][i][1] <= walk[p].pos
           /\ Told(p) \subseteq Keys \X Values
           /\ seen[p] # <<>> => Len(seen[p]) \in DOMAIN seen[p] /\ Rest(seen[p]) = seen[p][Len(seen[p])]
                                /\ Rest(seen[p]) \in Keys \X Values
           /\ walk[p].pos \in Nat
<1>t. seen[p] \in Seq(Keys \X Values) /\ walk[p] \in Walks(Keys) /\ TellsInOrder(p)
  BY DEF IInv, Types, SInv, Justified
<1>1. DOMAIN seen[p] = 1 .. Len(seen[p]) /\ Len(seen[p]) \in Nat
  BY <1>t, LenProperties
<1>2. \A i \in DOMAIN seen[p] : seen[p][i] \in Keys \X Values
  BY <1>t, <1>1, ElementOfSeq
<1>3. seen[p] # <<>> => Len(seen[p]) \in DOMAIN seen[p]
  BY <1>t, <1>1, EmptySeq
<1>4. \A i \in DOMAIN seen[p] : seen[p][i][1] <= walk[p].pos
  <2> SUFFICES ASSUME NEW i \in DOMAIN seen[p] PROVE seen[p][i][1] <= walk[p].pos
    OBVIOUS
  <2>1. seen[p] # <<>> /\ walk[p].pos = seen[p][Len(seen[p])][1]
    BY <1>t, <1>1 DEF TellsInOrder, Rest
  <2>2. seen[p][i][1] \in Nat /\ i <= Len(seen[p])
    <3>1. seen[p][i][1] \in Keys
      BY <1>2
    <3>2. seen[p][i][1] \in Nat
      BY <3>1
    <3> QED
      BY <1>1, <3>2
  <2>3. i < Len(seen[p]) => seen[p][i][1] < seen[p][Len(seen[p])][1]
    BY <1>t, <1>3, <2>1 DEF TellsInOrder
  <2>4. seen[p][Len(seen[p])][1] \in Nat
    <3>1. seen[p][Len(seen[p])][1] \in Keys
      BY <1>2, <1>3, <2>1
    <3> QED
      BY <3>1
  <2>5. i = Len(seen[p]) \/ i < Len(seen[p])
    BY <1>1, <2>2
  <2> QED
    BY <2>1, <2>2, <2>3, <2>4, <2>5
<1>5. walk[p].pos \in Nat
  <2>1. walk[p].pos \in Keys \cup {0}
    BY <1>t DEF Walks
  <2>2. CASE walk[p].pos \in Keys
    <3>1. walk[p].pos \in Nat \ {0}
      BY <2>2
    <3> QED
      BY <3>1
  <2>3. CASE walk[p].pos = 0
    BY <2>3
  <2> QED
    BY <2>1, <2>2, <2>3
<1>6. Told(p) \subseteq Keys \X Values
  BY <1>2 DEF Told
<1>7. seen[p] # <<>> => Len(seen[p]) \in DOMAIN seen[p] /\ Rest(seen[p]) = seen[p][Len(seen[p])]
                        /\ Rest(seen[p]) \in Keys \X Values
  BY <1>2, <1>3 DEF Rest
<1> QED
  BY <1>1, <1>2, <1>4, <1>5, <1>6, <1>7

\* Methods that write, and scans, walk on whatever they are told.
LEMMA WritersNeverHalt ==
    ASSUME NEW q, q.kind \in Writing \cup {"scan", "popLast"}, NEW k, NEW v
    PROVE  ~Halts(q, k, v)
BY DEF Halts, Writing, Listed, Navigations

\* A walk nobody moves.
LEMMA WalkRests ==
    ASSUME IInv, SInv, ScanNext, NEW p \in Procs, pc[p] # "idle", pc'[p] # "idle",
           pc'[p] = "size" => seen[p] = <<>>, call'[p] = call[p], seen'[p] = seen[p],
           walk'[p].pos = walk[p].pos, walk'[p].due = walk[p].due \cap Stored(m'),
           pc[p] \in {"act", "done"} => pc'[p] \in {"act", "done"} \/ call[p].kind \in Writing
    PROVE  TellsInOrder(p)' /\ MissesNothing(p)' /\ (Finished(p) => Finished(p)')
<1>t. TellsInOrder(p) /\ MissesNothing(p)
  BY DEF SInv, Justified
<1>1. TellsInOrder(p)'
  <2>1. \A i \in DOMAIN seen'[p] : HaltsAt(p, i)' => i = Len(seen'[p]) /\ pc'[p] \in {"act", "done"}
    BY <1>t, WritersNeverHalt DEF TellsInOrder, HaltsAt
  <2> QED
    BY <1>t, <2>1 DEF TellsInOrder
<1>2. MissesNothing(p)'
  <2>1. Told(p)' = Told(p)
    BY DEF Told
  <2> QED
    BY <1>t, <2>1, HistoryNarrows DEF MissesNothing
<1>3. Finished(p) => Finished(p)'
  BY DEF Finished, HaltsAt
<1> QED
  BY <1>1, <1>2, <1>3

\* A step of another goroutine, or none.
LEMMA BystanderStaysJustified ==
    ASSUME IInv, SInv, ScanNext, NEW p \in Procs,
           pc'[p] = pc[p], call'[p] = call[p], sub'[p] = sub[p], ret'[p] = ret[p],
           plan'[p] = plan[p], seen'[p] = seen[p], walk'[p].pos = walk[p].pos,
           walk'[p].due = walk[p].due \cap Stored(m')
    PROVE  Justified(p)'
<1>t. Justified(p)
  BY DEF SInv
<1>r. Remembers(p)'
  BY EverybodyRemembers
<1>1. CASE pc[p] = "idle"
  BY <1>1, <1>r, <1>t DEF Justified, TellsInOrder, MissesNothing, Concludes, Answered,
       PicksWell, ClearsWell, ReplacesWell, RemovesWell, HaltsAt
<1>2. CASE pc[p] # "idle"
  <2>1. TellsInOrder(p)' /\ MissesNothing(p)' /\ (Finished(p) => Finished(p)')
    <3>1. pc[p] = "size" => seen[p] = <<>>
      BY <1>t DEF Justified, TellsInOrder
    <3> QED
      BY <1>2, <3>1, WalkRests
  <2>2. kept'[p] \subseteq kept[p] /\ stayed'[p] \subseteq stayed[p] /\ Told(p)' = Told(p)
    BY <1>2, HistoryNarrows DEF Told
  <2>3. Concludes(p)'
    BY <1>t, <2>1 DEF Justified, Concludes, Answered
  <2>4. PicksWell(p)'
    BY <1>t, <2>2 DEF Justified, PicksWell, Picks
  <2>5. ClearsWell(p)'
    BY <1>t, <2>2 DEF Justified, ClearsWell
  <2>6. ReplacesWell(p)'
    BY <1>t, <2>2 DEF Justified, ReplacesWell
  <2>7. RemovesWell(p)'
    BY <1>t, <2>2 DEF Justified, RemovesWell
  <2> QED
    BY <1>r, <2>1, <2>3, <2>4, <2>5, <2>6, <2>7 DEF Justified
<1> QED
  BY <1>1, <1>2

-----------------------------------------------------------------------------
(* The steps of the goroutine itself.                                      *)

LEMMA OwnBeginsOrEnds ==
    ASSUME IInv, SInv, ScanNext, NEW p \in Procs, Call(p) \/ Return(p)
    PROVE  Justified(p)'
<1>t. Types /\ Justified(p) /\ Types'
  BY StepTypes DEF IInv, SInv, ScanNext
<1>r. Remembers(p)'
  BY EverybodyRemembers
<1>1. CASE Return(p)
  <2>1. pc'[p] = "idle" /\ seen'[p] = <<>>
    BY <1>t, <1>1 DEF Return, Goto, Types
  <2> QED
    BY <1>r, <2>1 DEF Justified, TellsInOrder, MissesNothing, Concludes, Answered,
         PicksWell, ClearsWell, ReplacesWell, RemovesWell
<1>2. CASE Call(p)
  <2>1. PICK q, l : Called(p, q, l)
    BY <1>t, <1>2, CallIs
  <2>2. /\ m' = m /\ call'[p] = q /\ seen'[p] = seen[p] /\ pc[p] = "idle"
        /\ walk'[p] = Begun(Stored(m))
        /\ \/ q.kind \in Single /\ pc'[p] = "act"
           \/ q.kind \in Loading /\ pc'[p] = "load"
           \/ q.kind = "removeFunc" /\ pc'[p] = "size"
           \/ q.kind \in Walking \ {"removeFunc"} /\ pc'[p] = "walk"
           \/ q.kind \in Listed /\ pc'[p] = "next"
    BY <1>t, <2>1 DEF Called, Types
  <2>3. seen'[p] = <<>> /\ walk'[p].pos = 0 /\ walk'[p].due = Stored(m') /\ \A k \in Stored(m) : k > 0
    BY <1>t, <2>2, BegunType DEF Justified, TellsInOrder
  <2>4. pc'[p] \notin {"idle", "done"} /\ Told(p)' = {}
    BY <2>2, <2>3 DEF Told
  <2>5. stayed'[p] = Stored(m') /\ \A e \in kept'[p] : e[1] > 0
    BY <1>r, <2>2, <2>3, <2>4, History DEF Remembers
  <2>6. TellsInOrder(p)'
    BY <2>3, <2>4 DEF TellsInOrder
  <2>7. MissesNothing(p)'
    <3>1. \A k \in stayed'[p] : k > walk'[p].pos /\ k \in walk'[p].due
      BY <2>2, <2>3, <2>5
    <3>2. \A e \in kept'[p] : ~(e[1] <= walk'[p].pos)
      <4> SUFFICES ASSUME NEW e \in kept'[p] PROVE ~(e[1] <= 0)
        BY <2>3
      <4>1. e[1] \in stayed'[p] /\ stayed'[p] \subseteq Keys
        BY <1>r, <1>t, <2>4, StoredType DEF Remembers, Types
      <4>2. e[1] \in Keys
        BY <4>1
      <4>3. e[1] \in Nat /\ e[1] > 0
        BY <2>5, <4>2
      <4> QED
        BY <4>3
    <3> QED
      BY <2>4, <3>1, <3>2 DEF MissesNothing
  <2>8. pc'[p] = "act" => q.kind \in Single
    BY <2>2
  <2>9. pc'[p] = "next" => q.kind \in Listed
    BY <2>2
  <2>10. Concludes(p)'
    BY <2>2, <2>4, <2>8, <2>9 DEF Concludes, Answered, Single, Listed
  <2>11. PicksWell(p)' /\ ClearsWell(p)'
    BY <2>2, <2>4, <2>8, KindsApart DEF PicksWell, ClearsWell
  <2>12. ReplacesWell(p)' /\ RemovesWell(p)'
    BY <2>4 DEF ReplacesWell, RemovesWell
  <2> QED
    BY <1>r, <2>6, <2>7, <2>10, <2>11, <2>12 DEF Justified
<1> QED
  BY <1>1, <1>2

\* Methods that are one update, and those that have one after the other
\* planned from the start, walk nowhere.
LEMMA OthersNeedNothing ==
    ASSUME NEW p \in Procs, call'[p].kind \in Single \cup Loading \cup Listed
    PROVE  Concludes(p)' /\ PicksWell(p)' /\ ClearsWell(p)' /\ ReplacesWell(p)' /\ RemovesWell(p)'
<1>1. /\ call'[p].kind \notin Walking \cup Popping
      /\ call'[p].kind \notin {"removeFunc", "clear", "replaceAll"}
  BY DEF Single, Loading, Listed, Walking, Popping, Navigations
<1> QED
  BY <1>1 DEF Concludes, PicksWell, ClearsWell, ReplacesWell, RemovesWell

LEMMA OwnLoadsAndDecides ==
    ASSUME IInv, SInv, ScanNext, NEW p \in Procs,
           Load(p) \/ Decide(p) \/ (Panic(p) /\ pc[p] = "decide")
    PROVE  Justified(p)'
<1>t. Types /\ Justified(p) /\ Place(p) /\ AheadOfWalk
  BY DEF IInv, SInv
<1>1. /\ pc[p] \in {"load", "decide"} /\ pc'[p] \in {"decide", "done"} /\ call'[p] = call[p]
      /\ seen'[p] = seen[p]
  BY <1>t DEF Load, Decide, Panic, Goto, local, Types
<1>2. walk'[p].pos = walk[p].pos /\ walk'[p].due = walk[p].due \cap Stored(m')
  <2>1. CASE Decide(p)
    BY <1>t, <2>1, WritersWrite, WriteIs
  <2>2. CASE Load(p) \/ Panic(p)
    <3>1. m' = m /\ walk' = walk
      BY <2>2 DEF Load, Panic, local
    <3> QED
      BY <3>1, DueIsStored
  <2> QED
    BY <2>1, <2>2
<1>3. TellsInOrder(p)' /\ MissesNothing(p)'
  BY <1>1, <1>2, WalkRests
<1>4. call'[p].kind \in Loading
  BY <1>t, <1>1 DEF Place
<1> QED
  BY <1>3, <1>4, EverybodyRemembers, OthersNeedNothing DEF Justified

\* A store or a deletion settles its entry.
LEMMA SettledBy ==
    ASSUME IInv, NEW p \in Procs, Act(p), NEW e
    PROVE  /\ sub[p].kind = "remove" => sub[p].key \notin Stored(m')
           /\ sub[p] = Removing(call[p], e[1]) => e \notin EntriesIn(m')
           /\ /\ sub[p] = Storing(call[p], e[1], call[p].fn[e[2]]) /\ call[p].kind = "replaceAll"
              /\ e \in EntriesIn(m')
              => call[p].fn[e[2]] = e[2]
<1>t. m \in Contents /\ m' \in Contents /\ Place(p)
  BY WritersWrite DEF IInv, Types
<1>1. sub[p] \in Requests /\ call[p] \in Requests /\ pc[p] = "act"
  BY <1>t DEF Act, Place
<1>2. m' = IF sub[p].kind = "store" THEN Store(sub[p], m).s ELSE Outcome(sub[p], m).s
  BY DEF Act, Write
<1>3. sub[p].kind = "remove" => m' = [m EXCEPT ![sub[p].key] = none]
  <2> SUFFICES ASSUME sub[p].kind = "remove" PROVE m' = [m EXCEPT ![sub[p].key] = none]
    OBVIOUS
  <2>1. Outcome(sub[p], m) = Remove(sub[p], m)
    BY DEF Outcome
  <2> QED
    BY <1>2, <2>1, DoesFields DEF Remove
<1>4. sub[p].kind = "remove" => sub[p].key \notin Stored(m')
  BY <1>3 DEF Stored
<1>5. ASSUME sub[p] = Removing(call[p], e[1]) PROVE e \notin EntriesIn(m')
  <2> SUFFICES ASSUME e \in EntriesIn(m') PROVE FALSE
    OBVIOUS
  <2>1. e[1] \in Stored(m')
    BY <1>t, EntriesType
  <2>2. sub[p].kind = "remove" /\ sub[p].key = e[1]
    <3>1. e[1] \in Keys
      BY <1>t, <2>1, StoredType
    <3>2. /\ Removing(call[p], e[1]).kind = "remove"
          /\ Removing(call[p], e[1]).key = e[1]
      BY <1>1, <3>1, RemovingType
    <3> QED
      BY <1>5, <3>2
  <2> QED
    BY <1>4, <2>1, <2>2
<1>6. ASSUME sub[p] = Storing(call[p], e[1], call[p].fn[e[2]]), call[p].kind = "replaceAll", e \in EntriesIn(m')
      PROVE  call[p].fn[e[2]] = e[2]
  <2>1. e[1] \in Stored(m') /\ e[1] \in Keys /\ e[2] = m'[e[1]] /\ e[2] \in Values
    BY <1>t, <1>6, EntriesType, StoredType, SMTT(60)
  <2>2. call[p].fn[e[2]] \in Values
    BY <1>1, <1>6, <2>1 DEF Requests
  <2>3. sub[p].kind = "store" /\ sub[p].key = e[1] /\ sub[p].val = call[p].fn[e[2]]
    <3> DEFINE q == call[p]
               v == call[p].fn[e[2]]
    <3>1. q \in Requests /\ v \in Values /\ e[1] \in Keys /\ sub[p] = Storing(q, e[1], v)
      BY <1>1, <1>6, <2>1, <2>2
    <3> HIDE DEF q, v
    <3>2. sub[p].kind = "store" /\ sub[p].key = e[1] /\ sub[p].val = v
      BY <3>1, StoringType
    <3> QED
      BY <3>2 DEF v
  <2>4. m' = [m EXCEPT ![e[1]] = call[p].fn[e[2]]]
    BY <1>1, <1>2, <1>t, <2>3, StoreType
  <2> QED
    BY <1>t, <2>1, <2>4 DEF Contents
<1> QED
  BY <1>4, <1>5, <1>6

LEMMA OwnActs ==
    ASSUME IInv, SInv, ScanNext, NEW p \in Procs, Act(p)
    PROVE  Justified(p)'
<1>t. Types /\ Justified(p) /\ Place(p) /\ AheadOfWalk
  BY DEF IInv, SInv
<1>1. /\ pc[p] = "act" /\ pc'[p] = "done" /\ call'[p] = call[p] /\ sub'[p] = sub[p]
      /\ seen'[p] = seen[p] /\ plan'[p] = plan[p] /\ call[p].kind \notin Popping
      /\ call[p] \in Requests
  BY <1>t DEF Act, Goto, Types, Place
<1>2. walk'[p].pos = walk[p].pos /\ walk'[p].due = walk[p].due \cap Stored(m')
  BY <1>t, WritersWrite, WriteIs
<1>3. TellsInOrder(p)' /\ MissesNothing(p)' /\ (Finished(p) => Finished(p)')
  BY <1>1, <1>2, WalkRests
<1>4. CASE call[p].kind \in Single
  BY <1>1, <1>3, <1>4, EverybodyRemembers, OthersNeedNothing DEF Justified
<1>5. CASE call[p].kind \in Writing /\ sub[p].kind \in {"store", "remove"}
  <2>1. sub[p] # call[p]
    BY <1>5, ChoreIsNotCall
  <2>2. kept'[p] \subseteq kept[p] /\ stayed'[p] \subseteq stayed[p] /\ Told(p)' = Told(p)
        /\ kept'[p] \subseteq EntriesIn(m') /\ stayed'[p] \subseteq Stored(m')
    BY <1>1, HistoryNarrows DEF Told
  <2>3. Concludes(p)'
    BY <1>t, <1>1, <1>3, <2>1 DEF Concludes, Answered, Justified
  <2>4. PicksWell(p)'
    BY <1>1 DEF PicksWell
  <2>5. ClearsWell(p)'
    BY <1>t, <1>1, <2>2, SettledBy DEF ClearsWell, Justified
  <2>6. ReplacesWell(p)'
    BY <1>t, <1>1, <2>2, SettledBy DEF ReplacesWell, Justified
  <2>7. RemovesWell(p)'
    BY <1>t, <1>1, <2>2, SettledBy DEF RemovesWell, Justified
  <2> QED
    BY <1>3, <2>3, <2>4, <2>5, <2>6, <2>7, EverybodyRemembers DEF Justified
<1> QED
  BY <1>t, <1>1, <1>4, <1>5 DEF Place

\* A step that changes neither the entries nor the walk.
LEMMA WalkWaits ==
    ASSUME IInv, SInv, ScanNext, NEW p \in Procs, pc[p] # "idle", pc'[p] # "idle", m' = m,
           pc'[p] # "size", call'[p] = call[p], seen'[p] = seen[p], walk'[p] = walk[p],
           pc[p] \in {"act", "done"} => pc'[p] \in {"act", "done"} \/ call[p].kind \in Writing
    PROVE  /\ Remembers(p)' /\ TellsInOrder(p)' /\ MissesNothing(p)' /\ (Finished(p) => Finished(p)')
           /\ kept'[p] \subseteq kept[p] /\ stayed'[p] \subseteq stayed[p] /\ Told(p)' = Told(p)
<1>1. walk'[p].pos = walk[p].pos /\ walk'[p].due = walk[p].due \cap Stored(m')
  BY DueIsStored
<1>2. TellsInOrder(p)' /\ MissesNothing(p)' /\ (Finished(p) => Finished(p)')
  BY <1>1, WalkRests
<1>3. kept'[p] \subseteq kept[p] /\ stayed'[p] \subseteq stayed[p] /\ Told(p)' = Told(p)
  BY HistoryNarrows DEF Told
<1> QED
  BY <1>2, <1>3, EverybodyRemembers

\* A walk that begins anew.
LEMMA WalkBeginsAnew ==
    ASSUME IInv, SInv, ScanNext, NEW p \in Procs, pc'[p] = "walk", m' = m,
           seen'[p] = <<>>, walk'[p] = Begun(Stored(m))
    PROVE  TellsInOrder(p)' /\ MissesNothing(p)' /\ Told(p)' = {}
<1>t. Types /\ Remembers(p)'
  BY EverybodyRemembers DEF IInv
<1>1. walk'[p].pos = 0 /\ walk'[p].due = Stored(m) /\ \A k \in Stored(m) : k > 0
  BY <1>t, BegunType
<1>2. Told(p)' = {}
  BY DEF Told
<1>3. stayed'[p] \subseteq Stored(m) /\ \A e \in kept'[p] : e[1] \in stayed'[p]
  BY <1>t DEF Remembers
<1>4. TellsInOrder(p)'
  BY <1>1 DEF TellsInOrder
<1>5. \A k \in stayed'[p] : k > walk'[p].pos /\ k \in walk'[p].due
  BY <1>1, <1>3
<1>6. \A e \in kept'[p] : ~(e[1] <= walk'[p].pos)
  <2> SUFFICES ASSUME NEW e \in kept'[p] PROVE ~(e[1] <= 0)
    BY <1>1
  <2>1. e[1] \in Keys /\ e[1] > 0
    BY <1>t, <1>1, <1>3, StoredType DEF Types
  <2>2. e[1] \in Nat /\ e[1] > 0
    BY <2>1
  <2> QED
    BY <2>2
<1>7. MissesNothing(p)'
  BY <1>2, <1>5, <1>6 DEF MissesNothing
<1> QED
  BY <1>2, <1>4, <1>7

LEMMA OwnPops ==
    ASSUME IInv, SInv, ScanNext, NEW p \in Procs, Pop(p)
    PROVE  Justified(p)'
<1>t. Types /\ Justified(p) /\ Place(p) /\ AheadOfWalk
  BY DEF IInv, SInv
<1>1. /\ pc[p] = "act" /\ pc'[p] = "done" /\ call'[p] = call[p] /\ seen'[p] = seen[p]
      /\ call[p].kind \in Popping /\ ret'[p] = <<sub[p].key, m[sub[p].key]>>
  BY <1>t DEF Pop, Goto, Types
<1>2. walk'[p].pos = walk[p].pos /\ walk'[p].due = walk[p].due \cap Stored(m')
  BY <1>t, WritersWrite, WriteIs
<1>3. TellsInOrder(p)' /\ MissesNothing(p)'
  BY <1>1, <1>2, WalkRests
<1>4. stayed'[p] \subseteq stayed[p]
  BY <1>1, HistoryNarrows
<1>5. PicksWell(p)'
  BY <1>t, <1>1, <1>4 DEF PicksWell, Picks, Justified
<1>6. Concludes(p)' /\ ClearsWell(p)' /\ ReplacesWell(p)' /\ RemovesWell(p)'
  BY <1>1 DEF Concludes, ClearsWell, ReplacesWell, RemovesWell, Popping
<1> QED
  BY <1>3, <1>5, <1>6, EverybodyRemembers DEF Justified

LEMMA OwnWalkBegins ==
    ASSUME IInv, SInv, ScanNext, NEW p \in Procs, PopRetries(p) \/ Collects(p)
    PROVE  Justified(p)'
<1>t. Types /\ Justified(p) /\ Place(p)
  BY DEF IInv, SInv
<1>1. /\ pc[p] \in {"act", "size"} /\ pc'[p] = "walk" /\ m' = m /\ walk'[p] = Begun(Stored(m))
  BY <1>t DEF PopRetries, Collects, Goto, Types
<1>2. seen'[p] = <<>>
  BY <1>t DEF PopRetries, Collects, Types, Justified, TellsInOrder
<1>3. TellsInOrder(p)' /\ MissesNothing(p)' /\ Told(p)' = {}
  BY <1>1, <1>2, WalkBeginsAnew
<1>4. Concludes(p)' /\ PicksWell(p)'
  BY <1>1 DEF Concludes, Answered, PicksWell
<1>5. ClearsWell(p)' /\ ReplacesWell(p)' /\ RemovesWell(p)'
  BY <1>1, <1>3 DEF ClearsWell, ReplacesWell, RemovesWell
<1> QED
  BY <1>3, <1>4, <1>5, EverybodyRemembers DEF Justified

LEMMA OwnRemovesNothing ==
    ASSUME IInv, SInv, ScanNext, NEW p \in Procs, RemovesNothing(p)
    PROVE  Justified(p)'
<1>t. Types /\ Justified(p) /\ Place(p)
  BY DEF IInv, SInv
<1>1. /\ pc[p] = "size" /\ pc'[p] = "done" /\ m' = m /\ call'[p] = call[p] /\ sub'[p] = sub[p]
      /\ walk'[p] = walk[p] /\ seen'[p] = seen[p] /\ sub[p] = call[p] /\ call[p].kind = "removeFunc"
  BY <1>t DEF RemovesNothing, Goto, local, Types, Place
<1>2. Remembers(p)' /\ TellsInOrder(p)' /\ MissesNothing(p)'
  BY <1>1, WalkWaits
<1>3. Concludes(p)' /\ PicksWell(p)' /\ ClearsWell(p)' /\ ReplacesWell(p)' /\ RemovesWell(p)'
  BY <1>1 DEF Concludes, PicksWell, ClearsWell, ReplacesWell, RemovesWell, Popping
<1> QED
  BY <1>2, <1>3 DEF Justified

LEMMA OwnProceeds ==
    ASSUME IInv, SInv, ScanNext, NEW p \in Procs, Proceed(p)
    PROVE  Justified(p)'
<1>t. Types /\ Justified(p) /\ Place(p)
  BY DEF IInv, SInv
<1>1. /\ pc[p] = "next" /\ pc'[p] = "act" /\ m' = m /\ call'[p] = call[p] /\ sub'[p] = Head(plan[p])
      /\ plan[p] # <<>> /\ plan'[p] = Tail(plan[p]) /\ walk'[p] = walk[p] /\ seen'[p] = seen[p]
      /\ call[p].kind \in Listed \cup {"removeFunc", "replaceEntries"} /\ plan[p] \in Seq(Chores)
  BY <1>t DEF Proceed, Goto, Types, Place
<1>2. /\ Remembers(p)' /\ TellsInOrder(p)' /\ MissesNothing(p)' /\ (Finished(p) => Finished(p)')
      /\ kept'[p] \subseteq kept[p] /\ Told(p)' = Told(p)
  BY <1>1, WalkWaits
<1>3. Concludes(p)'
  BY <1>t, <1>1, <1>2 DEF Concludes, Answered, Justified
<1>4. PicksWell(p)' /\ ClearsWell(p)' /\ ReplacesWell(p)'
  BY <1>1 DEF PicksWell, ClearsWell, ReplacesWell, Popping, Listed
<1>5. RemovesWell(p)'
  <2> SUFFICES ASSUME call[p].kind = "removeFunc", NEW e \in Told(p) \cap kept[p],
                      NEW i \in DOMAIN plan[p], plan[p][i] = Removing(call[p], e[1])
               PROVE  \/ \E j \in DOMAIN plan'[p] : plan'[p][j] = Removing(call[p], e[1])
                      \/ sub'[p] = Removing(call[p], e[1])
    BY <1>t, <1>1, <1>2 DEF RemovesWell, Justified
  <2>1. DOMAIN plan[p] = 1 .. Len(plan[p]) /\ Len(plan[p]) \in Nat
    BY <1>1, LenProperties
  <2>2. CASE i = 1
    BY <1>1, <2>2
  <2>3. CASE i > 1
    <3>1. i - 1 \in DOMAIN plan'[p] /\ plan'[p][i - 1] = plan[p][i]
      BY <1>1, <2>1, <2>3, SMTT(60)
    <3> QED
      BY <3>1
  <2> QED
    BY <2>1, <2>2, <2>3
<1> QED
  BY <1>2, <1>3, <1>4, <1>5 DEF Justified

LEMMA OwnResumes ==
    ASSUME IInv, SInv, ScanNext, NEW p \in Procs, Resume(p)
    PROVE  Justified(p)'
<1>t. Types /\ Justified(p) /\ Place(p)
  BY DEF IInv, SInv
<1>1. /\ pc[p] = "done" /\ pc'[p] \in {"walk", "next"} /\ m' = m /\ call'[p] = call[p]
      /\ sub[p] # call[p] /\ plan'[p] = plan[p] /\ walk'[p] = walk[p] /\ seen'[p] = seen[p]
      /\ call[p].kind \in Writing
  BY <1>t DEF Resume, Goto, local, Types
<1>2. /\ Remembers(p)' /\ TellsInOrder(p)' /\ MissesNothing(p)' /\ (Finished(p) => Finished(p)')
      /\ kept'[p] \subseteq kept[p] /\ stayed'[p] \subseteq stayed[p] /\ Told(p)' = Told(p)
  BY <1>1, WalkWaits
<1>3. Concludes(p)'
  BY <1>t, <1>1, <1>2 DEF Concludes, Answered, Justified
<1>4. PicksWell(p)' /\ ClearsWell(p)'
  BY <1>t, <1>1, <1>2 DEF PicksWell, ClearsWell, Justified
<1>5. ReplacesWell(p)' /\ RemovesWell(p)'
  BY <1>t, <1>1, <1>2 DEF ReplacesWell, RemovesWell, Justified
<1> QED
  BY <1>2, <1>3, <1>4, <1>5 DEF Justified

LEMMA OwnPanics ==
    ASSUME IInv, SInv, ScanNext, NEW p \in Procs, Panic(p), pc[p] = "told"
    PROVE  Justified(p)'
<1>t. Types /\ Justified(p) /\ Place(p)
  BY DEF IInv, SInv
<1>1. /\ pc'[p] = "done" /\ m' = m /\ call'[p] = call[p] /\ sub'[p] = sub[p] /\ ret'[p] = <<none>>
      /\ walk'[p] = walk[p] /\ seen'[p] = seen[p] /\ sub[p] = call[p] /\ call[p].kind \in Telling
  BY <1>t DEF Panic, Goto, local, Types, Place
<1>2. Remembers(p)' /\ TellsInOrder(p)' /\ MissesNothing(p)'
  BY <1>1, WalkWaits
<1>3. Concludes(p)' /\ ReplacesWell(p)' /\ RemovesWell(p)'
  BY <1>1 DEF Concludes, Answered, ReplacesWell, RemovesWell
<1>4. PicksWell(p)' /\ ClearsWell(p)'
  BY <1>1 DEF PicksWell, ClearsWell, Telling, Popping
<1> QED
  BY <1>2, <1>3, <1>4 DEF Justified

LEMMA OwnContinues ==
    ASSUME IInv, SInv, ScanNext, NEW p \in Procs, Continue(p)
    PROVE  Justified(p)'
<1> DEFINE r == Rest(seen[p])
           chore == Storing(call[p], r[1], call[p].fn[r[2]])
           noted == Noted(call[p], r)
<1>t. Types /\ Justified(p) /\ Place(p)
  BY DEF IInv, SInv
<1>0. Goto(p, "act") <=> pc' = [pc EXCEPT ![p] = "act"]
  BY DEF Goto
<1>1. /\ pc[p] = "told" /\ m' = m /\ call'[p] = call[p] /\ plan'[p] = plan[p] \o noted
      /\ walk'[p] = walk[p] /\ seen'[p] = seen[p] /\ plan[p] \in Seq(Chores)
      /\ sub[p] = call[p] /\ call[p].kind \in Telling /\ call[p] \in Requests /\ seen[p] # <<>>
  BY <1>t DEF Continue, Types, Place
<1>2. /\ call[p].kind = "replaceAll" => pc'[p] = "act" /\ sub'[p] = chore
      /\ call[p].kind # "replaceAll" => pc'[p] = "walk"
  BY <1>t DEF Continue, Types, Goto
<1> HIDE DEF chore, noted
<1>3. /\ Remembers(p)' /\ TellsInOrder(p)' /\ MissesNothing(p)'
      /\ kept'[p] \subseteq kept[p] /\ Told(p)' = Told(p)
  BY <1>1, <1>2, WalkWaits
<1>4. Concludes(p)' /\ PicksWell(p)' /\ ClearsWell(p)'
  BY <1>1, <1>2 DEF Concludes, Answered, PicksWell, ClearsWell, Telling, Popping
<1>5. ReplacesWell(p)'
  <2> SUFFICES ASSUME call[p].kind = "replaceAll", NEW e \in Told(p) \cap kept[p], e = r
               PROVE  sub'[p] = Storing(call[p], e[1], call[p].fn[e[2]])
    BY <1>t, <1>1, <1>2, <1>3 DEF ReplacesWell, Justified
  <2> QED
    BY <1>2 DEF chore
<1>6. RemovesWell(p)'
  <2> SUFFICES ASSUME call[p].kind = "removeFunc", NEW e \in Told(p) \cap kept[p], e[2] = call[p].old,
                      e = r \/ \E i \in DOMAIN plan[p] : plan[p][i] = Removing(call[p], e[1])
               PROVE  \E i \in DOMAIN plan'[p] : plan'[p][i] = Removing(call[p], e[1])
    BY <1>t, <1>1, <1>3 DEF RemovesWell, Justified
  <2> DEFINE o == Removing(call[p], e[1])
  <2>0. noted = <<>> \/ (noted = <<Removing(call[p], r[1])>>)
    BY DEF noted, Noted
  <2>1. e = r => noted = <<o>>
    BY DEF noted, Noted
  <2>2. noted \in Seq(Chores)
    <3>1. r[1] \in Keys
      BY <1>1, ToldIsBehind
    <3>2. Removing(call[p], r[1]) \in Chores
      BY <1>1, <3>1, RemovingType
    <3>3. <<>> \in Seq(Chores) /\ \A x \in Chores : <<x>> \in Seq(Chores)
      OBVIOUS
    <3> HIDE DEF noted
    <3> QED
      BY <2>0, <3>2, <3>3, Zenon
  <2> DEFINE both == plan[p] \o noted
  <2>5. /\ both \in Seq(Chores) /\ Len(both) = Len(plan[p]) + Len(noted)
        /\ \A i \in 1 .. Len(plan[p]) + Len(noted) :
             both[i] = IF i <= Len(plan[p]) THEN plan[p][i] ELSE noted[i - Len(plan[p])]
    BY <1>1, <2>2, ConcatProperties
  <2>6. plan'[p] = both
    BY <1>1
  <2>7. /\ DOMAIN both = 1 .. Len(both) /\ DOMAIN plan[p] = 1 .. Len(plan[p])
        /\ Len(plan[p]) \in Nat /\ Len(noted) \in Nat
    BY <1>1, <2>2, <2>5, LenProperties
  <2> HIDE DEF o, both
  <2>3. CASE e = r
    <3> DEFINE n == Len(plan[p]) + 1
    <3>1. noted = <<o>> /\ Len(noted) = 1 /\ noted[1] = o
      BY <2>1, <2>3
    <3>2. n \in DOMAIN both /\ ~(n <= Len(plan[p])) /\ n - Len(plan[p]) = 1
      BY <2>5, <2>7, <3>1
    <3>3. both[n] = o
      BY <2>5, <2>7, <3>1, <3>2
    <3> QED
      BY <2>6, <3>2, <3>3 DEF o
  <2>4. ASSUME NEW i \in DOMAIN plan[p] PROVE i \in DOMAIN plan'[p] /\ plan'[p][i] = plan[p][i]
    BY <2>5, <2>6, <2>7
  <2> QED
    BY <2>3, <2>4
<1> QED
  BY <1>3, <1>4, <1>5, <1>6 DEF Justified

\* The walk moves to the key k and tells of its entry.
LEMMA WalkTells ==
    ASSUME IInv, SInv, ScanNext, NEW p \in Procs, NEW k \in Keys, Visited(p, k)
    PROVE  /\ pc[p] = "walk" /\ pc'[p] # "idle" /\ call'[p] = call[p] /\ m' = m
           /\ walk'[p].pos = k /\ walk'[p].due = walk[p].due \ {k}
           /\ Len(seen'[p]) = Len(seen[p]) + 1 /\ seen'[p][Len(seen[p]) + 1] = <<k, m[k]>>
           /\ DOMAIN seen'[p] = DOMAIN seen[p] \cup {Len(seen[p]) + 1}
           /\ \A i \in DOMAIN seen[p] : seen'[p][i] = seen[p][i] /\ i < Len(seen[p]) + 1
           /\ seen'[p] # <<>> /\ Rest(seen'[p]) = <<k, m[k]>>
           /\ Told(p)' = Told(p) \cup {<<k, m[k]>>}
           /\ <<k, m[k]>> \in had'[p]
<1>t. Types /\ Remembers(p)' /\ seen[p] \in Seq(Keys \X Values) /\ walk[p] \in Walks(Keys)
  BY EverybodyRemembers DEF IInv, Types
<1>1. /\ pc[p] = "walk" /\ call'[p] = call[p] /\ m' = m /\ m[k] \in Values
      /\ walk'[p] = Moved(walk[p], k) /\ seen'[p] = Append(seen[p], <<k, m[k]>>)
  BY <1>t DEF Visited, Types
<1>2. pc'[p] # "idle"
  BY <1>t, <1>1 DEF Visited, Concluded, Types
<1>3. walk'[p].pos = k /\ walk'[p].due = walk[p].due \ {k}
  BY <1>t, <1>1, MovedType
<1>4. <<k, m[k]>> \in Keys \X Values
  BY <1>1
<1> DEFINE e == <<k, m[k]>>
<1>5. Len(seen[p]) \in Nat /\ DOMAIN seen[p] = 1 .. Len(seen[p])
  BY <1>t, LenProperties
<1> HIDE DEF e
<1>6. /\ Len(seen'[p]) = Len(seen[p]) + 1 /\ seen'[p][Len(seen[p]) + 1] = e
      /\ \A i \in 1 .. Len(seen[p]) : seen'[p][i] = seen[p][i]
      /\ seen'[p] \in Seq(Keys \X Values)
  BY <1>t, <1>1, <1>4, AppendProperties DEF e
<1>7. DOMAIN seen'[p] = DOMAIN seen[p] \cup {Len(seen[p]) + 1}
  <2>1. DOMAIN seen'[p] = 1 .. Len(seen'[p])
    BY <1>6, LenProperties
  <2> QED
    BY <1>5, <1>6, <2>1
<1>8. \A i \in DOMAIN seen[p] : seen'[p][i] = seen[p][i] /\ i < Len(seen[p]) + 1
  BY <1>5, <1>6, SMTT(60)
<1>9. Told(p)' = Told(p) \cup {e}
  BY <1>6, <1>7, <1>8 DEF Told
<1>10. e \in had'[p]
  <2>1. k \in Stored(m) /\ m \in Contents
    BY <1>t, <1>1, StoredType DEF Types
  <2>2. e \in EntriesIn(m)
    BY <2>1, EntriesType DEF e
  <2>3. EntriesIn(m') \subseteq had'[p]
    BY <1>t, <1>2 DEF Remembers
  <2> QED
    BY <1>1, <2>2, <2>3
<1>11. seen'[p] # <<>> /\ Rest(seen'[p]) = e
  <2>1. Len(seen'[p]) > 0
    BY <1>5, <1>6
  <2> QED
    BY <1>6, <2>1 DEF Rest
<1> QED
  BY <1>1, <1>2, <1>3, <1>6, <1>7, <1>8, <1>9, <1>10, <1>11 DEF e

\* It passed no key that stayed.
LEMMA WalkPassesNoKey ==
    ASSUME IInv, SInv, ScanNext, NEW p \in Procs, NEW k \in Keys, Visited(p, k)
    PROVE  \A j \in stayed'[p] : /\ j \in stayed[p] /\ j \in Nat /\ k \in Nat
                                 /\ j > k => j \in walk[p].due \ {k}
                                 /\ j < k => j <= walk[p].pos
<1>t. Types /\ MissesNothing(p) /\ Remembers(p) /\ pc[p] = "walk" /\ pc'[p] # "idle"
  BY WalkTells DEF IInv, SInv, Justified
<1>1. walk[p].pos \in Nat /\ walk[p].due \subseteq Keys
  BY <1>t, ToldIsBehind DEF Types, Walks
<1>2. k > walk[p].pos /\ \A d \in walk[p].due : k <= d
  BY DEF Visited
<1> SUFFICES ASSUME NEW j \in stayed'[p]
             PROVE  /\ j \in stayed[p] /\ j \in Nat /\ k \in Nat
                    /\ j > k => j \in walk[p].due \ {k}
                    /\ j < k => j <= walk[p].pos
  OBVIOUS
<1>3. j \in stayed[p] /\ j \in Keys
  BY <1>t, HistoryNarrows, StoredType DEF Remembers, Types
<1>4. j \in Nat /\ k \in Nat
  BY <1>3
<1>5. j > walk[p].pos => j \in walk[p].due
  BY <1>t, <1>3 DEF MissesNothing
<1>6. j > k => j \in walk[p].due \ {k}
  BY <1>1, <1>2, <1>4, <1>5
<1>7. j < k => j <= walk[p].pos
  <2> SUFFICES ASSUME j < k, ~(j <= walk[p].pos) PROVE FALSE
    OBVIOUS
  <2>1. k <= j
    BY <1>1, <1>2, <1>4, <1>5
  <2> QED
    BY <1>4, <2>1
<1> QED
  BY <1>3, <1>4, <1>6, <1>7

LEMMA VisitMissesNothing ==
    ASSUME IInv, SInv, ScanNext, NEW p \in Procs, NEW k \in Keys, Visited(p, k)
    PROVE  MissesNothing(p)'
<1>t. Types /\ MissesNothing(p) /\ Remembers(p)' /\ pc[p] = "walk" /\ pc'[p] # "idle" /\ m' = m
  BY WalkTells, EverybodyRemembers DEF IInv, SInv, Justified
<1>1. Told(p)' = Told(p) \cup {<<k, m[k]>>} /\ <<k, m[k]>> \in had'[p]
  BY WalkTells
<1>2. Told(p)' \subseteq had'[p]
  BY <1>t, <1>1, HistoryNarrows DEF MissesNothing
<1>3. walk'[p].pos = k /\ walk'[p].due = walk[p].due \ {k}
  BY WalkTells
<1>4. ASSUME NEW j \in stayed'[p], ~(j > k) PROVE \E e \in Told(p)' : e[1] = j
  <2>1. j = k \/ j < k
    BY <1>4, WalkPassesNoKey
  <2>2. CASE j = k
    BY <1>1, <2>2
  <2>3. CASE j < k
    <3>1. j \in stayed[p] /\ j <= walk[p].pos /\ j \in Nat /\ walk[p].pos \in Nat
      BY <1>t, <2>3, WalkPassesNoKey, ToldIsBehind
    <3>2. \E e \in Told(p) : e[1] = j
      BY <1>t, <3>1 DEF MissesNothing
    <3> QED
      BY <1>1, <3>2
  <2> QED
    BY <2>1, <2>2, <2>3
<1>5. ASSUME NEW e \in kept'[p], e[1] <= k PROVE e \in Told(p)'
  <2>1. e[1] \in stayed'[p] /\ e \in EntriesIn(m) /\ e \in kept[p]
    BY <1>t, HistoryNarrows DEF Remembers
  <2>2. e = <<e[1], m[e[1]]>>
    BY <1>t, <2>1, EntriesType DEF Types
  <2>3. e[1] = k \/ e[1] < k
    BY <1>5, <2>1, WalkPassesNoKey
  <2>4. CASE e[1] = k
    BY <1>1, <2>2, <2>4
  <2>5. CASE e[1] < k
    <3>1. e[1] <= walk[p].pos
      BY <2>1, <2>5, WalkPassesNoKey
    <3>2. e \in Told(p)
      BY <1>t, <2>1, <3>1 DEF MissesNothing
    <3> QED
      BY <1>1, <3>2
  <2> QED
    BY <2>3, <2>4, <2>5
<1>6. \A j \in stayed'[p] : j > k => j \in walk'[p].due
  BY <1>3, WalkPassesNoKey
<1> QED
  BY <1>2, <1>3, <1>4, <1>5, <1>6 DEF MissesNothing

\* Where a visit leaves the method.
LEMMA VisitLeads ==
    ASSUME IInv, SInv, ScanNext, NEW p \in Procs, NEW k \in Keys, Visited(p, k)
    PROVE  LET q == call[p] IN
           \/ /\ Halts(q, k, m[k]) /\ q.kind \in Popping /\ pc'[p] = "act"
              /\ sub'[p] = Removing(q, k)
           \/ /\ Halts(q, k, m[k]) /\ q.kind \notin Writing \cup Popping /\ pc'[p] = "done"
              /\ ret'[p] = Answer(q, seen'[p])
           \/ /\ ~Halts(q, k, m[k]) /\ q.kind \in {"clear", "replaceEntries"} /\ pc'[p] = "act"
              /\ sub'[p] = Removing(q, k) /\ plan'[p] = plan[p]
           \/ /\ ~Halts(q, k, m[k]) /\ q.kind \in Telling /\ pc'[p] = "told" /\ plan'[p] = plan[p]
           \/ /\ ~Halts(q, k, m[k]) /\ q.kind \notin Telling \cup {"clear", "replaceEntries"}
              /\ pc'[p] = "walk"
<1>t. Types /\ seen[p] \in Seq(Keys \X Values)
  BY DEF IInv, Types
<1>1. pc[p] = "walk" /\ seen'[p] = Append(seen[p], <<k, m[k]>>)
  BY <1>t DEF Visited, Types
<1>2. seen'[p] # <<>> /\ Rest(seen'[p]) = <<k, m[k]>>
  BY WalkTells
<1>3. Rest(seen'[p])[1] = k
  BY <1>2
<1>4. CASE Halts(call[p], k, m[k]) /\ Concluded(p, seen'[p])
  <2>1. call[p].kind \notin Writing
    BY <1>4, WritersNeverHalt
  <2> QED
    BY <1>t, <1>2, <1>3, <1>4, <2>1 DEF Concluded, Types, Writing
<1>5. CASE ~Halts(call[p], k, m[k])
  BY <1>t, <1>1, <1>5 DEF Visited, Types
<1> QED
  BY <1>1, <1>4, <1>5 DEF Visited

LEMMA VisitTellsInOrder ==
    ASSUME IInv, SInv, ScanNext, NEW p \in Procs, NEW k \in Keys, Visited(p, k)
    PROVE  TellsInOrder(p)'
<1> DEFINE n == Len(seen[p]) + 1
<1>t. TellsInOrder(p) /\ pc[p] = "walk" /\ call'[p] = call[p] /\ pc'[p] # "idle"
  BY WalkTells DEF SInv, Justified
<1>1. /\ DOMAIN seen'[p] = DOMAIN seen[p] \cup {n} /\ Len(seen'[p]) = n /\ seen'[p][n] = <<k, m[k]>>
      /\ \A i \in DOMAIN seen[p] : seen'[p][i] = seen[p][i] /\ i < n
  BY WalkTells
<1>2. walk'[p].pos = k /\ seen'[p] # <<>> /\ Rest(seen'[p]) = <<k, m[k]>> /\ m' = m
  BY WalkTells
<1>3. /\ \A i \in DOMAIN seen[p] : seen[p][i][1] \in Keys /\ seen[p][i][1] <= walk[p].pos
      /\ walk[p].pos \in Nat /\ k > walk[p].pos /\ k \in Nat
  <2>1. k \in Nat \ {0} /\ k > walk[p].pos
    BY DEF Visited
  <2> QED
    BY <1>t, <2>1, ToldIsBehind
<1>n. n \in Nat /\ DOMAIN seen[p] = 1 .. Len(seen[p]) /\ Len(seen[p]) \in Nat
  BY <1>t, ToldIsBehind
<1> HIDE DEF n
<1>4. \A i \in DOMAIN seen[p] : seen[p][i][1] < k
  <2> SUFFICES ASSUME NEW i \in DOMAIN seen[p] PROVE seen[p][i][1] < k
    OBVIOUS
  <2>1. seen[p][i][1] \in Keys
    BY <1>3
  <2>2. seen[p][i][1] \in Nat
    BY <2>1
  <2> QED
    BY <1>3, <2>2
<1>5. ASSUME NEW i \in DOMAIN seen'[p], NEW j \in DOMAIN seen'[p], i < j
      PROVE  seen'[p][i][1] < seen'[p][j][1]
  <2>1. i \in DOMAIN seen[p]
    BY <1>1, <1>5, <1>n
  <2>2. CASE j = n
    BY <1>1, <1>4, <2>1, <2>2
  <2>3. CASE j \in DOMAIN seen[p]
    BY <1>t, <1>1, <1>5, <2>1, <2>3 DEF TellsInOrder
  <2> QED
    BY <1>1, <2>2, <2>3
<1>6. ASSUME NEW i \in DOMAIN seen'[p], HaltsAt(p, i)'
      PROVE  i = Len(seen'[p]) /\ pc'[p] \in {"act", "done"}
  <2>1. CASE i \in DOMAIN seen[p]
    <3>1. HaltsAt(p, i)
      BY <1>t, <1>1, <1>6, <2>1 DEF HaltsAt
    <3> QED
      BY <1>t, <2>1, <3>1 DEF TellsInOrder
  <2>2. CASE i = n
    <3>1. Halts(call[p], k, m[k])
      BY <1>t, <1>1, <1>6, <2>2 DEF HaltsAt
    <3> QED
      BY <1>1, <2>2, <3>1, VisitLeads
  <2> QED
    BY <1>1, <2>1, <2>2
<1>7. pc'[p] \notin {"idle", "size"}
  BY <1>t, VisitLeads
<1>8. walk'[p].pos = IF seen'[p] = <<>> THEN 0 ELSE Rest(seen'[p])[1]
  BY <1>2
<1> QED
  BY <1>5, <1>6, <1>7, <1>8 DEF TellsInOrder

\* A pop that takes the first key it is told of, or the last one.
LEMMA VisitPicksWell ==
    ASSUME IInv, SInv, ScanNext, NEW p \in Procs, NEW k \in Keys, Visited(p, k)
    PROVE  PicksWell(p)'
<1>t. TellsInOrder(p) /\ pc[p] = "walk" /\ call'[p] = call[p] /\ call[p] \in Requests /\ MissesNothing(p)
      /\ Types
  BY WalkTells DEF SInv, Justified, IInv, Place
<1> SUFFICES ASSUME call[p].kind \in Popping, pc'[p] \in {"act", "done"}
             PROVE  pc'[p] = "act" /\ Picks(call[p], sub'[p].key, stayed'[p])
  BY <1>t DEF PicksWell
<1>1. Halts(call[p], k, m[k]) /\ pc'[p] = "act" /\ sub'[p] = Removing(call[p], k)
  BY VisitLeads DEF Popping, Telling
<1>2. call[p].kind = "popFirst"
  BY <1>1, WritersNeverHalt DEF Popping
<1>3. sub'[p].key = k
  <2>1. Removing(call[p], k).key = k
    BY <1>t, RemovingType
  <2> QED
    BY <1>1, <2>1
<1>4. seen[p] = <<>>
  <2> SUFFICES ASSUME seen[p] # <<>> PROVE FALSE
    OBVIOUS
  <2>1. Len(seen[p]) \in DOMAIN seen[p]
    BY <1>t, ToldIsBehind
  <2>2. HaltsAt(p, Len(seen[p]))
    BY <1>2 DEF HaltsAt, Halts, Navigations
  <2> QED
    BY <1>t, <2>1, <2>2 DEF TellsInOrder
<1>5. walk[p].pos = 0
  BY <1>t, <1>4 DEF TellsInOrder
<1>6. ASSUME NEW j \in stayed'[p] PROVE k <= j
  <2>1. j \in stayed[p] /\ j \in Nat /\ k \in Nat
    BY WalkPassesNoKey
  <2>2. j > 0
    <3>1. j \in Keys
      <4>1. Remembers(p)
        BY DEF SInv, Justified
      <4> QED
        BY <1>t, <2>1, <4>1, StoredType DEF Remembers, Types
    <3> QED
      BY <3>1
  <2>3. j \in walk[p].due
    BY <1>t, <1>5, <2>1, <2>2 DEF MissesNothing
  <2> QED
    BY <2>3 DEF Visited
<1> QED
  BY <1>1, <1>2, <1>3, <1>6 DEF Picks

LEMMA OwnVisits ==
    ASSUME IInv, SInv, ScanNext, NEW p \in Procs, Visit(p)
    PROVE  Justified(p)'
<1>t. Types /\ Justified(p) /\ Place(p)
  BY DEF IInv, SInv
<1> PICK k \in Keys : Visited(p, k)
  BY <1>t, VisitIs
<1>1. /\ pc[p] = "walk" /\ call'[p] = call[p] /\ call[p] \in Requests /\ Rest(seen'[p]) = <<k, m[k]>>
      /\ Told(p)' = Told(p) \cup {<<k, m[k]>>} /\ seen'[p] # <<>> /\ m' = m /\ pc'[p] # "idle"
      /\ Len(seen'[p]) = Len(seen[p]) + 1 /\ seen'[p][Len(seen[p]) + 1] = <<k, m[k]>>
  BY <1>t, WalkTells, ZenonT(60) DEF Place
<1>2. kept'[p] \subseteq kept[p] /\ stayed'[p] \subseteq stayed[p]
  BY <1>1, HistoryNarrows
<1>3. Halts(call[p], k, m[k]) => Finished(p)'
  <2>1. HaltsAt(p, Len(seen[p]))' <=> Halts(call[p], k, m[k])
    BY <1>1 DEF HaltsAt
  <2> QED
    BY <1>1, <2>1 DEF Finished
<1>4. Concludes(p)'
  <2>1. pc'[p] # "next"
    BY <1>1, VisitLeads
  <2>2. pc'[p] = "act" => call[p].kind # "removeFunc"
    BY VisitLeads DEF Popping
  <2>3. pc'[p] = "done" => /\ Halts(call[p], k, m[k]) /\ call[p].kind # "removeFunc"
                           /\ ret'[p] = Answer(call[p], seen'[p])
    BY <1>1, VisitLeads DEF Writing
  <2> QED
    BY <1>1, <1>3, <2>1, <2>2, <2>3 DEF Concludes, Answered
<1>5. ClearsWell(p)'
  <2> SUFFICES ASSUME call[p].kind = "clear"
               PROVE  /\ pc'[p] = "act" /\ sub'[p].kind = "remove"
                      /\ \A e \in Told(p)' : e[1] \in stayed'[p] => sub'[p].key = e[1]
    BY <1>1 DEF ClearsWell
  <2>1. pc'[p] = "act" /\ sub'[p] = Removing(call[p], k)
    BY VisitLeads, WritersNeverHalt DEF Writing, Telling
  <2>2. sub'[p].kind = "remove" /\ sub'[p].key = k
    <3>1. Removing(call[p], k).kind = "remove" /\ Removing(call[p], k).key = k
      BY <1>1, RemovingType, ZenonT(60)
    <3> QED
      BY <2>1, <3>1
  <2>3. \A e \in Told(p) : e[1] \notin stayed[p]
    BY <1>t, <1>1 DEF Justified, ClearsWell
  <2> QED
    BY <1>1, <1>2, <2>1, <2>2, <2>3
<1>6. ReplacesWell(p)'
  <2> SUFFICES ASSUME call[p].kind = "replaceAll"
               PROVE  /\ pc'[p] = "told"
                      /\ \A e \in Told(p) \cap kept[p] : call[p].fn[e[2]] = e[2]
    BY <1>1, <1>2 DEF ReplacesWell
  <2>1. pc'[p] = "told"
    BY VisitLeads, WritersNeverHalt DEF Writing, Telling
  <2> QED
    BY <1>t, <1>1, <2>1 DEF Justified, ReplacesWell
<1>7. RemovesWell(p)'
  <2> SUFFICES ASSUME call[p].kind = "removeFunc"
               PROVE  /\ pc'[p] = "told" /\ plan'[p] = plan[p]
                      /\ \A e \in Told(p) \cap kept[p] :
                            \/ e[2] # call[p].old
                            \/ \E i \in DOMAIN plan[p] : plan[p][i] = Removing(call[p], e[1])
    BY <1>1, <1>2 DEF RemovesWell
  <2>1. pc'[p] = "told" /\ plan'[p] = plan[p]
    BY VisitLeads, WritersNeverHalt DEF Writing, Telling
  <2> QED
    BY <1>t, <1>1, <2>1 DEF Justified, RemovesWell
<1> QED
  BY <1>4, <1>5, <1>6, <1>7, EverybodyRemembers, VisitTellsInOrder, VisitMissesNothing, VisitPicksWell
  DEF Justified

LEMMA OwnWalkEnds ==
    ASSUME IInv, SInv, ScanNext, NEW p \in Procs, WalkEnds(p)
    PROVE  Justified(p)'
<1>t. Types /\ Justified(p) /\ Place(p)
  BY DEF IInv, SInv
<1>c. Concluded(p, seen[p])
  BY ConcludeIs DEF WalkEnds
<1>1. /\ pc[p] = "walk" /\ m' = m /\ call'[p] = call[p] /\ walk'[p] = walk[p] /\ seen'[p] = seen[p]
      /\ walk[p].due = {} /\ call[p] \in Requests
  BY <1>t DEF WalkEnds, AtEnd, Place
<1>2. LET q == call[p] IN
      \/ q.kind \in Popping /\ seen[p] # <<>> /\ pc'[p] = "act" /\ sub'[p] = Removing(q, Rest(seen[p])[1])
      \/ q.kind \in {"removeFunc", "replaceEntries"} /\ pc'[p] = "next" /\ plan'[p] = plan[p]
      \/ /\ q.kind \notin {"removeFunc", "replaceEntries"} /\ pc'[p] = "done"
         /\ ret'[p] = Answer(q, seen[p]) /\ (q.kind \in Popping => seen[p] = <<>>)
  BY <1>t, <1>c DEF Concluded, Types
<1>3. /\ Remembers(p)' /\ TellsInOrder(p)' /\ MissesNothing(p)'
      /\ kept'[p] \subseteq kept[p] /\ stayed'[p] \subseteq stayed[p] /\ Told(p)' = Told(p)
  BY <1>1, <1>2, WalkWaits
<1>4. Finished(p)'
  BY <1>1 DEF Finished
<1>5. Concludes(p)'
  BY <1>1, <1>2, <1>4 DEF Concludes, Answered, Popping
<1>6. PicksWell(p)'
  <2> SUFFICES ASSUME call[p].kind \in Popping
               PROVE  /\ pc'[p] = "act" => Picks(call[p], sub'[p].key, stayed'[p])
                      /\ pc'[p] = "done" => ret'[p] = <<>> /\ stayed'[p] = {}
    BY <1>1 DEF PicksWell
  <2>1. ASSUME NEW j \in stayed'[p] PROVE j \in Keys /\ j \in Nat /\ j > 0 /\ j <= walk[p].pos
    <3>1. j \in Keys /\ j \in stayed[p]
      BY <1>t, <1>1, <1>3, <2>1, StoredType DEF Remembers, Justified, Types
    <3>2. j \in Nat \ {0}
      BY <3>1
    <3>3. ~(j > walk[p].pos)
      BY <1>t, <1>1, <3>1 DEF Justified, MissesNothing
    <3>4. walk[p].pos \in Nat
      BY <1>1, ToldIsBehind
    <3> QED
      BY <3>1, <3>2, <3>3, <3>4
  <2>2. CASE seen[p] = <<>>
    <3>1. walk[p].pos = 0
      BY <1>t, <1>1, <2>2 DEF Justified, TellsInOrder
    <3>2. stayed'[p] = {}
      BY <2>1, <3>1
    <3>3. Answer(call[p], <<>>) = <<>>
      BY DEF Answer, Popping, Navigations
    <3> QED
      BY <1>2, <2>2, <3>2, <3>3 DEF Popping
  <2>3. CASE seen[p] # <<>>
    <3>1. pc'[p] = "act" /\ sub'[p] = Removing(call[p], Rest(seen[p])[1])
      BY <1>2, <2>3 DEF Popping
    <3>2. Rest(seen[p])[1] = walk[p].pos /\ Rest(seen[p])[1] \in Keys /\ Len(seen[p]) \in DOMAIN seen[p]
      BY <1>t, <1>1, <2>3, ToldIsBehind DEF Justified, TellsInOrder
    <3>3. sub'[p].key = walk[p].pos
      BY <1>1, <3>1, <3>2, RemovingType
    <3>4. call[p].kind # "popFirst"
      <4> SUFFICES ASSUME call[p].kind = "popFirst" PROVE FALSE
        OBVIOUS
      <4>1. HaltsAt(p, Len(seen[p]))
        BY DEF HaltsAt, Halts, Navigations
      <4> QED
        BY <1>t, <1>1, <3>2, <4>1 DEF Justified, TellsInOrder
    <3>5. walk[p].pos \in Nat
      BY <1>1, ToldIsBehind
    <3> QED
      BY <2>1, <3>1, <3>3, <3>4, <3>5 DEF Picks
  <2> QED
    BY <2>2, <2>3
<1>7. ClearsWell(p)'
  BY <1>t, <1>1, <1>2, <1>3 DEF Justified, ClearsWell, Popping
<1>8. ReplacesWell(p)'
  BY <1>t, <1>1, <1>2, <1>3 DEF Justified, ReplacesWell
<1>9. RemovesWell(p)'
  BY <1>t, <1>1, <1>2, <1>3 DEF Justified, RemovesWell, Popping
<1> QED
  BY <1>3, <1>5, <1>6, <1>7, <1>8, <1>9 DEF Justified

-----------------------------------------------------------------------------
(* The answers.                                                            *)

LEMMA OwnStepJustified ==
    ASSUME IInv, SInv, ScanNext, NEW p \in Procs, Moves(p)
    PROVE  Justified(p)'
<1>1. CASE Call(p) \/ Return(p)
  BY <1>1, OwnBeginsOrEnds
<1>2. CASE Load(p) \/ Decide(p)
  BY <1>2, OwnLoadsAndDecides
<1>3. CASE Panic(p)
  <2>1. pc[p] \in {"told", "decide"}
    BY <1>3 DEF Panic, InUserCode
  <2> QED
    BY <1>3, <2>1, OwnPanics, OwnLoadsAndDecides
<1>4. CASE Act(p) \/ Pop(p)
  BY <1>4, OwnActs, OwnPops
<1>5. CASE PopRetries(p) \/ Collects(p) \/ RemovesNothing(p)
  BY <1>5, OwnWalkBegins, OwnRemovesNothing
<1>6. CASE Visit(p) \/ WalkEnds(p) \/ Continue(p)
  BY <1>6, OwnVisits, OwnWalkEnds, OwnContinues
<1>7. CASE Proceed(p) \/ Resume(p)
  BY <1>7, OwnProceeds, OwnResumes
<1> QED
  BY <1>1, <1>2, <1>3, <1>4, <1>5, <1>6, <1>7 DEF Moves, Step

LEMMA StepJustified == IInv /\ SInv /\ [ScanNext]_<<vars, kept, had, stayed>> => SInv'
<1> SUFFICES ASSUME IInv, SInv, [ScanNext]_<<vars, kept, had, stayed>>, NEW p \in Procs
             PROVE  Justified(p)'
  BY DEF SInv
<1>1. CASE UNCHANGED <<vars, kept, had, stayed>>
  <2>1. Justified(p)
    BY DEF SInv
  <2>2. /\ m' = m /\ pc' = pc /\ call' = call /\ sub' = sub /\ plan' = plan /\ walk' = walk
        /\ seen' = seen /\ ret' = ret /\ kept' = kept /\ had' = had /\ stayed' = stayed
    BY <1>1 DEF vars, local
  <2>3. Remembers(p)' /\ TellsInOrder(p)' /\ MissesNothing(p)'
    BY <2>1, <2>2 DEF Justified, Remembers, TellsInOrder, MissesNothing, HaltsAt, Told
  <2>4. Concludes(p)'
    BY <2>1, <2>2 DEF Justified, Concludes, Finished, Answered, HaltsAt
  <2>5. PicksWell(p)' /\ ClearsWell(p)'
    BY <2>1, <2>2 DEF Justified, PicksWell, ClearsWell, Told
  <2>6. ReplacesWell(p)' /\ RemovesWell(p)'
    BY <2>1, <2>2 DEF Justified, ReplacesWell, RemovesWell, Told
  <2> QED
    BY <2>3, <2>4, <2>5, <2>6 DEF Justified
<1>2. CASE ScanNext /\ Terminated
  <2>1. /\ pc'[p] = pc[p] /\ call'[p] = call[p] /\ sub'[p] = sub[p] /\ ret'[p] = ret[p]
        /\ plan'[p] = plan[p] /\ seen'[p] = seen[p] /\ walk'[p] = walk[p] /\ m' = m
    BY <1>2 DEF Terminated, vars, local
  <2>2. walk'[p].pos = walk[p].pos /\ walk'[p].due = walk[p].due \cap Stored(m')
    BY <2>1, DueIsStored
  <2> QED
    BY <1>2, <2>1, <2>2, BystanderStaysJustified
<1>3. ASSUME ScanNext, NEW o \in Procs, Moves(o), o # p PROVE Justified(p)'
  <2>1. OthersKeep(o) /\ OthersWalkOn(o)
    BY <1>3, StepIsLocal
  <2> QED
    BY <1>3, <2>1, BystanderStaysJustified DEF OthersKeep, OthersWalkOn
<1>4. CASE ScanNext /\ Moves(p)
  BY <1>4, OwnStepJustified
<1> QED
  BY <1>1, <1>2, <1>3, <1>4 DEF ScanNext, Next, Moves

LEMMA ScanInvariance == ScanSpec => [](IInv /\ SInv)
<1>1. ScanInit => IInv /\ SInv
  <2> SUFFICES ASSUME ScanInit PROVE IInv /\ SInv
    OBVIOUS
  <2>1. IInv
    BY InitInvariant DEF ScanInit
  <2>2. ASSUME NEW p \in Procs PROVE Justified(p)
    <3>1. pc[p] = "idle" /\ seen[p] = <<>> /\ kept[p] = {} /\ had[p] = {} /\ stayed[p] = {}
      BY DEF ScanInit, Init
    <3> QED
      BY <3>1 DEF Justified, Remembers, TellsInOrder, MissesNothing, Concludes, Answered,
         PicksWell, ClearsWell, ReplacesWell, RemovesWell
  <2> QED
    BY <2>1, <2>2 DEF SInv
<1>2. IInv /\ SInv /\ [ScanNext]_<<vars, kept, had, stayed>> => IInv' /\ SInv'
  <2>1. [ScanNext]_<<vars, kept, had, stayed>> => [Next]_vars
    BY DEF ScanNext
  <2> QED
    BY <2>1, StepTypes, StepWalk, StepPlace, StepJustified DEF IInv
<1> QED
  BY <1>1, <1>2, PTL DEF ScanSpec

\* A walk that is over, and was not cut short, told of all that stayed.
LEMMA ToldOrDue ==
    ASSUME IInv, SInv, NEW p \in Procs, pc[p] # "idle"
    PROVE  /\ \A j \in stayed[p] :
                 /\ j \in Keys /\ j \in Nat
                 /\ \/ \E i \in DOMAIN seen[p] : seen[p][i][1] = j
                    \/ j > walk[p].pos /\ j \in walk[p].due
           /\ Told(p) \subseteq had[p]
           /\ walk[p].due = {} => kept[p] \subseteq Told(p)
<1>t. Remembers(p) /\ MissesNothing(p) /\ Types /\ walk[p].pos \in Nat
  BY ToldIsBehind DEF SInv, Justified, IInv
<1>1. \A j \in stayed[p] : j \in Keys
  BY <1>t, StoredType DEF Remembers, Types
<1>2. ASSUME NEW j \in stayed[p]
      PROVE  /\ j \in Keys /\ j \in Nat
             /\ \/ \E i \in DOMAIN seen[p] : seen[p][i][1] = j
                \/ j > walk[p].pos /\ j \in walk[p].due
  <2>1. j \in Keys
    BY <1>1, <1>2
  <2>2. j \in Nat
    BY <2>1
  <2>3. \/ \E e \in Told(p) : e[1] = j
        \/ j > walk[p].pos /\ j \in walk[p].due
    BY <1>t, <1>2 DEF MissesNothing
  <2> QED
    BY <2>1, <2>2, <2>3 DEF Told
<1>3. ASSUME walk[p].due = {}, NEW e \in kept[p] PROVE e \in Told(p)
  <2>1. e[1] \in stayed[p]
    BY <1>t, <1>3 DEF Remembers
  <2>2. ~(e[1] > walk[p].pos) /\ e[1] \in Nat
    BY <1>t, <1>2, <1>3, <2>1 DEF MissesNothing
  <2>3. e[1] <= walk[p].pos
    BY <1>t, <2>2
  <2> QED
    BY <1>t, <1>3, <2>3 DEF MissesNothing
<1>4. Told(p) \subseteq had[p]
  BY <1>t DEF MissesNothing
<1> QED
  BY <1>2, <1>3, <1>4

\* Where a walk was cut short, it was at the entry it told of last.
LEMMA CutShort ==
    ASSUME IInv, SInv, NEW p \in Procs, pc[p] # "idle"
    PROVE  /\ \A i \in DOMAIN seen[p] : HaltsAt(p, i) => i = Len(seen[p])
           /\ \A i, j \in DOMAIN seen[p] : i < j => seen[p][i][1] < seen[p][j][1]
           /\ Finished(p) /\ walk[p].due # {} => /\ seen[p] # <<>> /\ HaltsAt(p, Len(seen[p]))
                                                 /\ Len(seen[p]) \in DOMAIN seen[p]
                                                 /\ walk[p].pos = seen[p][Len(seen[p])][1]
<1>1. TellsInOrder(p)
  BY DEF SInv, Justified
<1>2. seen[p] # <<>> => Len(seen[p]) \in DOMAIN seen[p] /\ Rest(seen[p]) = seen[p][Len(seen[p])]
  BY ToldIsBehind
<1> QED
  BY <1>1, <1>2 DEF TellsInOrder, Finished

\* The last entry that qualifies.
LEMMA FittestIs ==
    ASSUME NEW S, NEW i \in S, \A j \in S : j <= i, S \subseteq Nat
    PROVE  (CHOOSE n \in S : \A j \in S : j <= n) = i
<1> DEFINE c == CHOOSE n \in S : \A j \in S : j <= n
<1>1. c \in S /\ \A j \in S : j <= c
  OBVIOUS
<1>2. c <= i /\ i <= c /\ c \in Nat /\ i \in Nat
  BY <1>1
<1> QED
  BY <1>2

LEMMA DownwardHalts ==
    ASSUME NEW q, q.kind \in Navigations, q.key \in Nat, NEW k \in Nat, NEW v
    PROVE  /\ q.kind \in Upward => (Halts(q, k, v) <=> Qualifies(q.kind, q.key, k))
           /\ q.kind \notin Upward => (Halts(q, k, v) <=> ~Qualifies(q.kind, q.key, k))
           /\ q.kind \notin Upward => \A j \in Nat :
                 j > k /\ Qualifies(q.kind, q.key, j) => Qualifies(q.kind, q.key, k)
<1> DEFINE nav == q.kind
           x == q.key
<1>0. Halts(q, k, v) <=> Stops(nav, x, k)
  BY DEF Halts, Navigations, Stops, Qualifies
<1>1. Stops(nav, x, k) <=> \/ nav = "first"
                           \/ nav = "ceiling" /\ k >= x
                           \/ nav = "higher" /\ k > x
                           \/ nav = "floor" /\ ~(k <= x)
                           \/ nav = "lower" /\ ~(k < x)
  BY DEF Stops, Qualifies, Navigations
<1>2. ASSUME NEW j \in Nat
      PROVE  Qualifies(nav, x, j) <=> \/ nav \in {"first", "last"}
                                      \/ nav = "ceiling" /\ j >= x
                                      \/ nav = "higher" /\ j > x
                                      \/ nav = "floor" /\ j <= x
                                      \/ nav = "lower" /\ j < x
  BY DEF Qualifies, Navigations
<1>3. nav \in {"first", "last", "floor", "ceiling", "lower", "higher"} /\ x \in Nat
  BY DEF Navigations
<1> HIDE DEF nav, x
<1>4. nav \in Upward => (Stops(nav, x, k) <=> Qualifies(nav, x, k))
  BY <1>1, <1>2 DEF Upward
<1>5. nav \notin Upward => (Stops(nav, x, k) <=> ~Qualifies(nav, x, k))
  BY <1>1, <1>2, <1>3 DEF Upward
<1>6. nav \notin Upward => \A j \in Nat : j > k /\ Qualifies(nav, x, j) => Qualifies(nav, x, k)
  BY <1>2, <1>3 DEF Upward
<1> QED
  BY <1>0, <1>4, <1>5, <1>6 DEF nav, x

LEMMA NavigationAnswers ==
    ASSUME NEW q, q.kind \in Navigations, NEW s
    PROVE  LET fit == {i \in DOMAIN s : Qualifies(q.kind, q.key, s[i][1])}
           IN  Answer(q, s) = IF fit = {} THEN <<>> ELSE s[CHOOSE i \in fit : \A j \in fit : j <= i]
<1> DEFINE fit == {i \in DOMAIN s : Qualifies(q.kind, q.key, s[i][1])}
           hit == s # <<>> /\ Halts(q, Rest(s)[1], Rest(s)[2])
           best == IF fit = {} THEN <<>> ELSE s[CHOOSE i \in fit : \A j \in fit : j <= i]
           Chosen(E) == CASE q.kind \in Navigations -> E
                          [] q.kind = "containsValue" -> IF hit THEN <<1>> ELSE <<>>
                          [] q.kind = "rank" -> IF hit THEN <<Len(s) - 1>> ELSE <<>>
                          [] OTHER -> s
<1>1. \A E : Chosen(E) = E
  BY DEF Navigations
<1>2. Answer(q, s) = Chosen(best)
  BY Zenon DEF Answer
<1> HIDE DEF Chosen, best
<1>3. Answer(q, s) = best
  BY <1>1, <1>2
<1> QED
  BY <1>3 DEF best

LEMMA NavigationsAreJustified ==
    ASSUME IInv, SInv, NEW p \in Procs, Answered(p), call[p].kind \in Navigations
    PROVE  LET q == call[p]  r == ret[p]
               fits == {k \in stayed[p] : Qualifies(q.kind, q.key, k)}
           IN  IF r = <<>> THEN fits = {}
               ELSE /\ r \in had[p] /\ Qualifies(q.kind, q.key, r[1])
                    /\ \A k \in fits : IF q.kind \in Upward THEN r[1] <= k ELSE r[1] >= k
<1> DEFINE q == call[p]
           s == seen[p]
           Good(k) == Qualifies(q.kind, q.key, k)
           fit == {i \in DOMAIN s : Qualifies(q.kind, q.key, s[i][1])}
           fits == {k \in stayed[p] : Qualifies(q.kind, q.key, k)}
<1>0. pc[p] = "done" /\ pc[p] # "idle" /\ Justified(p) /\ Types /\ Place(p)
  BY DEF Answered, SInv, IInv
<1>1. Finished(p) /\ ret[p] = Answer(q, s)
  <2>1. call[p].kind \in Walking \ (Popping \cup {"removeFunc"})
    BY DEF Walking, Popping, Navigations
  <2> QED
    BY <1>0, <2>1 DEF Justified, Concludes
<1>2. ret[p] = IF fit = {} THEN <<>> ELSE s[CHOOSE i \in fit : \A j \in fit : j <= i]
  BY <1>1, NavigationAnswers, ZenonT(60)
<1>3. /\ DOMAIN s = 1 .. Len(s) /\ Len(s) \in Nat /\ walk[p].pos \in Nat
      /\ \A i \in DOMAIN s : s[i] \in Keys \X Values
  BY <1>0, ToldIsBehind
<1>4. q.key \in Nat
  <2>1. q.key \in Keys
    BY <1>0 DEF Place, Requests
  <2> QED
    BY <2>1
<1>5. ASSUME NEW i \in DOMAIN s PROVE s[i][1] \in Nat /\ s[i][1] \in Keys /\ s[i] # <<>>
  <2>1. s[i][1] \in Keys /\ s[i] # <<>>
    BY <1>3, <1>5
  <2> QED
    BY <2>1
<1>6. ASSUME NEW i \in DOMAIN s
      PROVE  /\ q.kind \in Upward /\ Good(s[i][1]) => i = Len(s)
             /\ q.kind \notin Upward /\ ~Good(s[i][1]) => i = Len(s)
  <2>1. HaltsAt(p, i) => i = Len(s)
    BY <1>0, <1>6, CutShort
  <2>2. HaltsAt(p, i) <=> Halts(q, s[i][1], s[i][2])
    BY DEF HaltsAt
  <2>3. s[i][1] \in Nat
    BY <1>5, <1>6
  <2> QED
    BY <1>4, <2>1, <2>2, <2>3, DownwardHalts
\* Nothing that qualifies is still in front of the walk.
<1>7. ASSUME NEW j \in fits, \A i \in DOMAIN s : s[i][1] # j
      PROVE  /\ q.kind \in Upward /\ Len(s) \in fit /\ j > s[Len(s)][1]
  <2>1. j \in stayed[p] /\ Good(j)
    BY <1>7
  <2>2. j > walk[p].pos /\ j \in walk[p].due /\ j \in Nat
    BY <1>0, <1>7, <2>1, ToldOrDue
  <2>3. s # <<>> /\ HaltsAt(p, Len(s)) /\ Len(s) \in DOMAIN s /\ walk[p].pos = s[Len(s)][1]
    BY <1>0, <1>1, <2>2, CutShort
  <2>4. Halts(q, s[Len(s)][1], s[Len(s)][2])
    BY <2>3 DEF HaltsAt
  <2> HIDE DEF q
  <2> QED
    BY <1>3, <1>4, <2>1, <2>2, <2>3, <2>4, DownwardHalts DEF q
<1>8. CASE fit = {}
  <2>1. ASSUME NEW j \in fits PROVE FALSE
    <3>1. PICK i \in DOMAIN s : s[i][1] = j
      BY <1>7, <1>8, <2>1
    <3>2. i \in fit
      BY <2>1, <3>1
    <3> QED
      BY <1>8, <3>2
  <2> QED
    BY <1>2, <1>8, <2>1
<1>9. CASE fit # {}
  <2>1. \E n \in fit : \A j \in fit : j <= n
    <3>1. CASE Len(s) \in fit
      BY <1>3, <3>1
    <3>2. CASE Len(s) \notin fit
      <4>1. PICK i \in fit : i \in DOMAIN s /\ Good(s[i][1])
        BY <1>9
      <4>2. i < Len(s)
        BY <1>3, <3>2, <4>1
      <4>3. Len(s) - 1 \in DOMAIN s /\ Len(s) - 1 # Len(s)
        BY <1>3, <4>1, <4>2
      <4>4. q.kind \notin Upward
        BY <1>3, <1>6, <4>1, <4>2
      <4>5. Good(s[Len(s) - 1][1])
        BY <1>6, <4>3, <4>4
      <4>6. Len(s) - 1 \in fit
        BY <4>3, <4>5
      <4>7. \A j \in fit : j <= Len(s) - 1
        BY <1>3, <3>2
      <4> QED
        BY <4>6, <4>7
    <3> QED
      BY <3>1, <3>2
  <2>2. PICK n \in fit : \A j \in fit : j <= n
    BY <2>1
  <2>3. fit \subseteq Nat
    BY <1>3
  <2>4. n \in DOMAIN s /\ Good(s[n][1])
    BY <2>2
  <2>5. ret[p] = s[n]
    <3> HIDE DEF fit
    <3> QED
      BY <1>2, <1>9, <2>2, <2>3, FittestIs
  <2>6. s[n] \in Told(p) /\ Told(p) \subseteq had[p]
    BY <1>0, <2>4, ToldOrDue DEF Told
  <2>7. ASSUME NEW k \in fits PROVE IF q.kind \in Upward THEN s[n][1] <= k ELSE s[n][1] >= k
    <3>0. k \in stayed[p] /\ Good(k) /\ k \in Nat /\ s[n][1] \in Nat
      BY <1>0, <1>5, <2>4, <2>7, ToldOrDue
    <3>1. CASE \A i \in DOMAIN s : s[i][1] # k
      <4>1. q.kind \in Upward /\ k > s[Len(s)][1]
        BY <1>7, <2>7, <3>1
      <4>2. n = Len(s)
        BY <1>6, <2>4, <4>1
      <4> QED
        BY <3>0, <4>1, <4>2
    <3>2. CASE \E i \in DOMAIN s : s[i][1] = k
      <4>1. PICK i \in DOMAIN s : s[i][1] = k
        BY <3>2
      <4>2. i \in fit
        BY <3>0, <4>1
      <4>3. CASE q.kind \in Upward
        <5>1. i = Len(s) /\ n = Len(s)
          BY <1>6, <2>4, <3>0, <4>1, <4>3
        <5> QED
          BY <3>0, <4>1, <4>3, <5>1
      <4>4. CASE q.kind \notin Upward
        <5>1. i = n \/ i < n
          BY <1>3, <2>2, <2>3, <4>2
        <5>2. i < n => s[i][1] < s[n][1]
          BY <1>0, <2>4, <4>1, CutShort
        <5> QED
          BY <3>0, <4>1, <4>4, <5>1, <5>2
      <4> QED
        BY <4>3, <4>4
    <3> QED
      BY <3>1, <3>2
  <2>8. ret[p] # <<>>
    BY <1>5, <2>4, <2>5
  <2> QED
    BY <2>4, <2>5, <2>6, <2>7, <2>8
<1> QED
  BY <1>8, <1>9

LEMMA OtherAnswers ==
    ASSUME NEW q, NEW s
    PROVE  LET hit == s # <<>> /\ Halts(q, Rest(s)[1], Rest(s)[2])
           IN  /\ q.kind = "containsValue" => Answer(q, s) = IF hit THEN <<1>> ELSE <<>>
               /\ q.kind = "rank" => Answer(q, s) = IF hit THEN <<Len(s) - 1>> ELSE <<>>
<1> DEFINE fit == {i \in DOMAIN s : Qualifies(q.kind, q.key, s[i][1])}
           best == IF fit = {} THEN <<>> ELSE s[CHOOSE i \in fit : \A j \in fit : j <= i]
           hit == s # <<>> /\ Halts(q, Rest(s)[1], Rest(s)[2])
           Chosen(E, F, G) == CASE q.kind \in Navigations -> E
                                [] q.kind = "containsValue" -> F
                                [] q.kind = "rank" -> G
                                [] OTHER -> s
<1>1. \A E, F, G : /\ q.kind = "containsValue" => Chosen(E, F, G) = F
                   /\ q.kind = "rank" => Chosen(E, F, G) = G
  BY DEF Navigations
<1>2. Answer(q, s) = Chosen(best, IF hit THEN <<1>> ELSE <<>>, IF hit THEN <<Len(s) - 1>> ELSE <<>>)
  BY Zenon DEF Answer
<1> HIDE DEF Chosen, best
<1> QED
  BY <1>1, <1>2

\* Where containsValue and rank ended, and what they answered.
LEMMA FoundOrNot ==
    ASSUME IInv, SInv, NEW p \in Procs, Answered(p), call[p].kind \in {"containsValue", "rank"}
    PROVE  LET n == Len(seen[p]) IN
           \/ /\ ret[p] = <<>> /\ walk[p].due = {}
              /\ \A i \in DOMAIN seen[p] : ~HaltsAt(p, i)
           \/ /\ n \in DOMAIN seen[p] /\ HaltsAt(p, n)
              /\ call[p].kind = "containsValue" => ret[p] = <<1>>
              /\ call[p].kind = "rank" => ret[p] = <<n - 1>>
<1>0. pc[p] = "done" /\ pc[p] # "idle" /\ Justified(p)
  BY DEF Answered, SInv
<1>1. Finished(p) /\ ret[p] = Answer(call[p], seen[p])
  <2>1. call[p].kind \in Walking \ (Popping \cup {"removeFunc"})
    BY DEF Walking, Popping
  <2> QED
    BY <1>0, <2>1 DEF Justified, Concludes
<1>2. seen[p] # <<>> => Len(seen[p]) \in DOMAIN seen[p] /\ Rest(seen[p]) = seen[p][Len(seen[p])]
  BY <1>0, ToldIsBehind
<1>3. CASE seen[p] # <<>> /\ Halts(call[p], Rest(seen[p])[1], Rest(seen[p])[2])
  BY <1>1, <1>2, <1>3, OtherAnswers DEF HaltsAt
<1>4. CASE ~(seen[p] # <<>> /\ Halts(call[p], Rest(seen[p])[1], Rest(seen[p])[2]))
  <2>1. ret[p] = <<>>
    BY <1>1, <1>4, OtherAnswers
  <2>2. \A i \in DOMAIN seen[p] : ~HaltsAt(p, i)
    <3> SUFFICES ASSUME NEW i \in DOMAIN seen[p], HaltsAt(p, i) PROVE FALSE
      OBVIOUS
    <3>1. i = Len(seen[p])
      BY <1>0, CutShort
    <3>2. seen[p] # <<>>
      OBVIOUS
    <3> QED
      BY <1>2, <1>4, <3>1, <3>2 DEF HaltsAt
  <2>3. walk[p].due = {}
    BY <1>1, <1>2, <2>2 DEF Finished
  <2> QED
    BY <2>1, <2>2, <2>3
<1> QED
  BY <1>3, <1>4

LEMMA ContainsValueIsJustified ==
    ASSUME IInv, SInv, NEW p \in Procs, Answered(p), call[p].kind = "containsValue"
    PROVE  IF ret[p] = <<>> THEN \A e \in kept[p] : e[2] # call[p].old
                            ELSE \E e \in had[p] : e[2] = call[p].old
<1>0. pc[p] # "idle"
  BY DEF Answered
<1>1. \A i \in DOMAIN seen[p] : HaltsAt(p, i) <=> seen[p][i][2] = call[p].old
  BY DEF HaltsAt, Halts, Navigations
<1>2. /\ Told(p) \subseteq had[p]
      /\ walk[p].due = {} => kept[p] \subseteq Told(p)
  BY <1>0, ToldOrDue
<1>3. CASE ret[p] = <<>> /\ walk[p].due = {} /\ \A i \in DOMAIN seen[p] : ~HaltsAt(p, i)
  BY <1>1, <1>2, <1>3 DEF Told
<1>4. CASE ret[p] = <<1>> /\ Len(seen[p]) \in DOMAIN seen[p] /\ HaltsAt(p, Len(seen[p]))
  <2>1. seen[p][Len(seen[p])] \in had[p] /\ seen[p][Len(seen[p])][2] = call[p].old
    BY <1>1, <1>2, <1>4 DEF Told
  <2>2. ret[p] # <<>>
    BY <1>4
  <2> QED
    BY <2>1, <2>2
<1> QED
  BY <1>3, <1>4, FoundOrNot

LEMMA RankIsJustified ==
    ASSUME IInv, SInv, NEW p \in Procs, Answered(p), call[p].kind = "rank"
    PROVE  LET q == call[p]  r == ret[p] IN
           IF r = <<>> THEN q.key \notin stayed[p]
           ELSE /\ Cardinality({k \in stayed[p] : k < q.key}) <= r[1]
                /\ r[1] <= Cardinality({k \in HadKeys(p) : k < q.key})
<1> DEFINE s == seen[p]
           n == Len(seen[p])
           x == call[p].key
<1>0. pc[p] # "idle" /\ Types /\ Remembers(p) /\ TellsInOrder(p)
  BY DEF Answered, IInv, SInv, Justified
<1>1. \A i \in DOMAIN s : HaltsAt(p, i) <=> s[i][1] = x
  BY DEF HaltsAt, Halts, Navigations
<1>2. CASE ret[p] = <<>> /\ walk[p].due = {} /\ \A i \in DOMAIN s : ~HaltsAt(p, i)
  <2>1. x \notin stayed[p]
    BY <1>0, <1>1, <1>2, ToldOrDue
  <2> QED
    BY <1>2, <2>1
<1>3. CASE ret[p] = <<n - 1>> /\ n \in DOMAIN s /\ HaltsAt(p, n)
  <2> DEFINE T == {s[i][1] : i \in 1 .. n - 1}
             Stay == {k \in stayed[p] : k < x}
             Had == {k \in HadKeys(p) : k < x}
             f == [i \in 1 .. n - 1 |-> s[i][1]]
  <2>1. /\ DOMAIN s = 1 .. n /\ n \in Nat /\ Told(p) \subseteq Keys \X Values /\ Told(p) \subseteq had[p]
        /\ \A i \in DOMAIN s : s[i] \in Keys \X Values
        /\ \A i, j \in DOMAIN s : i < j => s[i][1] < s[j][1]
    BY <1>0, ToldIsBehind, ToldOrDue, CutShort
  <2>2. s[n][1] = x /\ walk[p].pos = x /\ n \in 1 .. n
    BY <1>0, <1>1, <1>3, <2>1, ToldIsBehind DEF TellsInOrder
  <2>3. \A i \in 1 .. n - 1 : i \in DOMAIN s /\ i < n /\ s[i][1] < x
    BY <2>1, <2>2
  <2>4. HadKeys(p) \subseteq Keys /\ \A i \in DOMAIN s : s[i][1] \in HadKeys(p)
    BY <1>0, <2>1 DEF HadKeys, Remembers, Told
  <2>5. T \subseteq Had
    BY <2>3, <2>4
  <2>6. Stay \subseteq T
    <3> SUFFICES ASSUME NEW k \in stayed[p], k < x PROVE k \in T
      OBVIOUS
    <3>1. PICK i \in DOMAIN s : s[i][1] = k
      <4>1. x \in Nat /\ k \in Nat /\ ~(k > walk[p].pos)
        BY <1>0, <2>2, ToldOrDue, ToldIsBehind
      <4> QED
        BY <1>0, <4>1, ToldOrDue
    <3>2. i # n /\ i \in 1 .. n - 1
      <4>1. k \in Nat /\ x \in Nat
        BY <1>0, <2>2, ToldOrDue, ToldIsBehind
      <4> QED
        BY <2>1, <2>2, <3>1, <4>1
    <3> QED
      BY <3>1, <3>2
  <2>7. IsFiniteSet(Had) /\ IsFiniteSet(T) /\ Cardinality(T) \in Nat /\ Cardinality(Had) \in Nat
    <3>1. IsFiniteSet(Had)
      BY <2>4, FS_Subset
    <3>2. IsFiniteSet(T)
      BY <2>5, <3>1, FS_Subset
    <3> QED
      BY <3>1, <3>2, FS_CardinalityType
  <2>8. Cardinality(Stay) <= Cardinality(T) /\ Cardinality(T) <= Cardinality(Had)
    <3> HIDE DEF Stay, T, Had
    <3> QED
      BY <2>5, <2>6, <2>7, FS_Subset
  <2>9. Cardinality(T) = n - 1
    <3>1. f \in Surjection(1 .. n - 1, T)
      BY DEF Surjection
    <3>2. f \in Injection(1 .. n - 1, T)
      <4>1. ASSUME NEW i \in 1 .. n - 1, NEW j \in 1 .. n - 1, i # j PROVE f[i] # f[j]
        <5>1. f[i] = s[i][1] /\ f[j] = s[j][1] /\ i \in DOMAIN s /\ j \in DOMAIN s
          BY <2>3, <4>1
        <5>2. s[i][1] \in Nat /\ s[j][1] \in Nat
          <6>1. s[i][1] \in Keys /\ s[j][1] \in Keys
            BY <2>1, <5>1
          <6> QED
            BY <6>1
        <5>3. i < j \/ j < i
          BY <2>1, <4>1
        <5> QED
          BY <2>1, <5>1, <5>2, <5>3
      <4>2. f \in [1 .. n - 1 -> T]
        OBVIOUS
      <4> HIDE DEF f
      <4> QED
        BY <4>1, <4>2 DEF Injection, IsInjective
    <3>3. IsFiniteSet(1 .. n - 1) /\ Cardinality(1 .. n - 1) = n - 1
      <4>1. 1 \in Int /\ n - 1 \in Int /\ n - 1 >= 0
        BY <2>1, <2>2
      <4>2. /\ IsFiniteSet(1 .. n - 1)
            /\ Cardinality(1 .. n - 1) = IF 1 > n - 1 THEN 0 ELSE (n - 1) - 1 + 1
        BY <4>1, FS_Interval
      <4> QED
        BY <4>1, <4>2
    <3> HIDE DEF f, T
    <3>4. Cardinality(T) = Cardinality(1 .. n - 1)
      BY <3>1, <3>2, <3>3, FS_Surjection
    <3> QED
      BY <3>3, <3>4
  <2>10. ret[p] # <<>> /\ ret[p][1] = n - 1
    BY <1>3
  <2> QED
    BY <2>8, <2>9, <2>10
<1> QED
  BY <1>2, <1>3, FoundOrNot

LEMMA JustifiedAnswers == IInv /\ SInv => AnswersAreJustified
<1> SUFFICES ASSUME IInv, SInv PROVE AnswersAreJustified
  OBVIOUS
<1>1. QueriesAreJustified
  BY NavigationsAreJustified, ContainsValueIsJustified, RankIsJustified DEF QueriesAreJustified
<1>2. PopsAreJustified
  BY DEF PopsAreJustified, SInv, Justified, PicksWell, Picks
<1>3. ASSUME NEW p \in Procs, Answered(p), call[p].kind \in {"scan", "clear", "replaceAll"}
      PROVE  /\ Justified(p) /\ pc[p] = "done" /\ walk[p].due = {} /\ ret[p] # <<none>>
             /\ kept[p] \subseteq Told(p) /\ Told(p) \subseteq had[p]
             /\ \A j \in stayed[p] : \E i \in DOMAIN seen[p] : seen[p][i][1] = j
  <2>1. Justified(p) /\ pc[p] = "done" /\ pc[p] # "idle" /\ ret[p] # <<none>>
    BY <1>3 DEF SInv, Answered
  <2>2. Finished(p)
    <3>1. call[p].kind \in Walking \ (Popping \cup {"removeFunc"})
      BY <1>3 DEF Walking, Popping
    <3> QED
      BY <1>3, <2>1, <3>1 DEF Justified, Concludes
  <2>3. walk[p].due = {}
    BY <1>3, <2>2, WritersNeverHalt DEF Finished, HaltsAt, Writing
  <2> QED
    BY <2>1, <2>3, ToldOrDue
<1>4. ScanIsComplete
  BY <1>3 DEF ScanIsComplete, Told, Justified, TellsInOrder
<1>5. ASSUME NEW p \in Procs, Answered(p), call[p].kind = "clear" PROVE stayed[p] = {}
  BY <1>3, <1>5 DEF Justified, ClearsWell, Told
<1>6. ASSUME NEW p \in Procs, Answered(p), call[p].kind = "replaceAll"
      PROVE  \A e \in kept[p] : call[p].fn[e[2]] = e[2]
  BY <1>3, <1>6 DEF Justified, ReplacesWell
<1>7. ASSUME NEW p \in Procs, pc[p] = "next", plan[p] = <<>>, call[p].kind = "removeFunc"
      PROVE  \A e \in kept[p] : e[2] # call[p].old
  <2>1. Justified(p) /\ Finished(p)
    BY <1>7 DEF SInv, Justified, Concludes
  <2>2. walk[p].due = {}
    BY <1>7, <2>1, WritersNeverHalt DEF Finished, HaltsAt, Writing
  <2>3. kept[p] \subseteq Told(p)
    BY <1>7, <2>2, ToldOrDue
  <2>4. DOMAIN plan[p] = {}
    BY <1>7
  <2> QED
    BY <1>7, <2>1, <2>3, <2>4 DEF Justified, RemovesWell
<1>8. BulkIsThorough
  BY <1>5, <1>6, <1>7 DEF BulkIsThorough
<1> QED
  BY <1>1, <1>2, <1>4, <1>8 DEF AnswersAreJustified

(* Whatever other goroutines insert and delete meanwhile: a query, a rank, *)
(* an iteration, a pop, Clear, ReplaceAll and RemoveFunc miss nothing that *)
(* was there all along, and tell of nothing that never was.                *)
THEOREM SkipMapAnswersAreJustified == ScanSpec => []AnswersAreJustified
BY ScanInvariance, JustifiedAnswers, PTL
=============================================================================
