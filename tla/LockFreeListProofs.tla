------------------------- MODULE LockFreeListProofs -------------------------
(***************************************************************************)
(* The proof that lockFreeList hands no element out twice, that a Clear    *)
(* swallows no later insertion, that the chain stays sound, and that every *)
(* step is a step of ListContract or none, for any goroutines, calls and   *)
(* number of allocations; and that no walk overlooks or repeats a node     *)
(* that stayed in the list.                                                *)
(*                                                                         *)
(* The inductive invariant IInv (LockFreeList.tla) says who owns a node: a *)
(* node is private to one goroutine until the CAS that links it, and       *)
(* published for ever after.  Published nodes lead to published nodes that *)
(* were detached by the same Clear or are attached both; cursors only      *)
(* stand on published nodes.  Types, control and cursors come first, each  *)
(* with one lemma over all actions; then the actions that write shared     *)
(* memory, one lemma each; QuietStep is all the others.                    *)
(***************************************************************************)
EXTENDS LockFreeListReads, FiniteSetTheorems, WellFoundedInduction, TLAPS

USE SentinelAssumption, SizeAssumption, ValueAssumption DEF Labels

\* A sequence that is not empty has a first element.
LEMMA NonEmptySeq ==
    ASSUME NEW S, NEW s \in Seq(S), s # <<>>
    PROVE  Len(s) \in Nat /\ 1 \in DOMAIN s /\ s[1] \in S
OBVIOUS

\* Restarting a walk keeps the types of what it resets.
LEMMA RewindTypes ==
    ASSUME TypeOK, NEW p \in Procs, Rewind(p)
    PROVE  /\ at' \in [Procs -> Nodes]
           /\ cnt' \in [Procs -> Nat]
           /\ last' \in [Procs -> Cells \cup {nil}]
<1>1. at \in [Procs -> Nodes] /\ cnt \in [Procs -> Nat] /\ last \in [Procs -> Cells \cup {nil}]
  BY DEF TypeOK
<1>2. at' \in [Procs -> Nodes]
  BY <1>1 DEF Rewind, Nodes
<1>3. cnt' \in [Procs -> Nat]
  BY <1>1 DEF Rewind
<1>4. last' \in [Procs -> Cells \cup {nil}]
  BY <1>1 DEF Rewind
<1> QED
  BY <1>2, <1>3, <1>4

\* Every step of every goroutine keeps the types.
LEMMA TypeStep ==
    ASSUME IInv, NEW p \in Procs, Step(p)
    PROVE  TypeOK'
<1>1. TypeOK /\ Control(p) /\ Cursor(p)
  BY DEF IInv
<1>2. /\ call[p] \in Calls \cup {nil}
      /\ call[p] \in Calls => call[p].kind \in Kinds /\ call[p].elems \in Seq(Values)
  BY <1>1 DEF TypeOK, Calls
<1>3. pc[p] \in {"visit", "take", "swap", "reload"} => at[p] \in Cells /\ state[at[p]] \in Cells \cup {nil}
  BY <1>1 DEF TypeOK, Cursor
<1>4. /\ pc[p] \in {"take", "swap"} => exp[p] \in Cells
      /\ pc[p] \in {"link", "swap", "swing"} => cells[p] # <<>>
  BY <1>1 DEF Control, Finished
<1>5. cells[p] # <<>> => cells[p][1] \in Cells
  BY <1>1 DEF TypeOK
<1> USE DEF Goto, heap, local, work, ghost, Finished
<1>11. CASE Call(p)
  <2>1. PICK q \in todo[p] : /\ todo' = [todo EXCEPT ![p] = @ \ {q}]
                             /\ call' = [call EXCEPT ![p] = q]
                             /\ rest' = [rest EXCEPT ![p] = q.elems]
                             /\ pc' = [pc EXCEPT ![p] = FirstStep(q)]
    BY <1>11 DEF Call
  <2>2. q \in Calls
    BY <1>1, <2>1 DEF TypeOK
  <2>3. q.elems \in Seq(Values)
    BY <2>2 DEF Calls
  <2>4. FirstStep(q) \in {"ok", "fail", "new", "clear", "walk"}
    BY DEF FirstStep
  <2>5. todo' \in [Procs -> SUBSET Calls]
    BY <1>1, <2>1 DEF TypeOK
  <2>6. call' \in [Procs -> Calls \cup {nil}]
    BY <1>1, <2>1, <2>2 DEF TypeOK
  <2>7. rest' \in [Procs -> Seq(Values)]
    BY <1>1, <2>1, <2>3 DEF TypeOK
  <2>8. pc' \in [Procs -> {"idle", "ok", "fail", "walk", "visit", "take", "swap", "reload", "new",
                           "link", "swing", "clear", "cut"}]
    BY <1>1, <2>1, <2>4 DEF TypeOK
  <2>9. /\ at' \in [Procs -> Nodes] /\ cnt' \in [Procs -> Nat]
        /\ last' \in [Procs -> Cells \cup {nil}]
    BY <1>1, <1>11, RewindTypes DEF Call
  <2>11. seen' \in [Procs -> Seq([node : Cells, cell : Cells])]
    <3>1. seen \in [Procs -> Seq([node : Cells, cell : Cells])]
      BY <1>1 DEF TypeOK
    <3>2. seen' = [seen EXCEPT ![p] = <<>>]
      BY <1>11 DEF Call
    <3> DEFINE S == Seq([node : Cells, cell : Cells])
    <3>3. <<>> \in S
      OBVIOUS
    <3> HIDE DEF S
    <3> QED
      BY <3>1, <3>2, <3>3 DEF S
  <2>12. cells' \in [Procs -> Seq(Cells)]
    BY <1>1, <1>11 DEF TypeOK, Call
  <2>10. UNCHANGED <<heap, exp, ghost>>
    BY <1>11 DEF Call
  <2> QED
    BY <1>1, <2>5, <2>6, <2>7, <2>8, <2>9, <2>10, <2>11, <2>12, ZenonT(60) DEF TypeOK
<1>12. CASE New(p)
  <2> PICK vs \in Batch(p) :
         /\ used + Len(vs) <= MaxCells
         /\ used' = used + Len(vs)
         /\ value' = [x \in Cells |-> IF x \in used + 1 .. used + Len(vs) THEN vs[x - used] ELSE value[x]]
         /\ state' = [x \in Cells |-> IF x \in used + 1 .. used + Len(vs) THEN x ELSE state[x]]
         /\ next' = [n \in Nodes |-> IF n \notin used + 1 .. used + Len(vs) THEN next[n]
                                     ELSE IF n < used + Len(vs) THEN n + 1
                                     ELSE IF call[p].kind \in {"insert", "set"} THEN nil
                                     ELSE tail]
         /\ cells' = [cells EXCEPT ![p] = [i \in DOMAIN vs |-> used + i]]
         /\ born' = [x \in Cells |-> IF x \in used + 1 .. used + Len(vs) THEN epoch ELSE born[x]]
    BY <1>12 DEF New
  <2>1. vs \in Seq(Values)
    <3>1. rest[p] \in Seq(Values) /\ seen[p] \in Seq([node : Cells, cell : Cells])
      BY <1>1 DEF TypeOK
    <3>2. CASE call[p].kind = "insert"
      <4>1. rest[p] # <<>>
        BY <1>1, <1>12, <3>2 DEF New, Control, ToAdd
      <4>2. vs = <<rest[p][Len(rest[p])]>>
        BY <3>2 DEF Batch
      <4>3. Len(rest[p]) \in 1 .. Len(rest[p])
        BY <3>1, <4>1
      <4> QED
        BY <3>1, <4>2, <4>3
    <3>3. CASE call[p].kind = "sort"
      BY <3>1, <3>3 DEF Batch, Sorted
    <3> QED
      BY <3>1, <3>2, <3>3 DEF Batch
  <2>2. used \in Nat /\ Len(vs) \in Nat /\ DOMAIN vs = 1 .. Len(vs)
    BY <1>1, <2>1 DEF TypeOK
  <2>3. used' \in 0 .. MaxCells
    BY <2>2
  <2>4. value' \in [Cells -> Values \cup {nil}]
    <3>1. value \in [Cells -> Values \cup {nil}]
      BY <1>1 DEF TypeOK
    <3>2. \A x \in used + 1 .. used + Len(vs) : x - used \in 1 .. Len(vs)
      BY <2>2
    <3>3. \A x \in used + 1 .. used + Len(vs) : vs[x - used] \in Values
      BY <2>1, <2>2, <3>2
    <3> QED
      BY <3>1, <3>3
  <2>5. state' \in [Cells -> Cells \cup {nil}] /\ born' \in [Cells -> Nat]
    BY <1>1 DEF TypeOK
  <2>6. next' \in [Nodes -> Cells \cup {tail, nil}]
    <3>1. next \in [Nodes -> Cells \cup {tail, nil}]
      BY <1>1 DEF TypeOK
    <3>2. \A n \in used + 1 .. used + Len(vs) : n < used + Len(vs) => n + 1 \in Cells
      BY <1>1, <2>2, SMTT(60) DEF TypeOK, Cells
    <3>3. \A n \in Nodes : next'[n] \in Cells \cup {tail, nil}
      <4> TAKE n \in Nodes
      <4>1. CASE n \notin used + 1 .. used + Len(vs)
        BY <3>1, <4>1
      <4>2. CASE n \in used + 1 .. used + Len(vs)
        BY <3>2, <4>2
      <4> QED
        BY <4>1, <4>2
    <3> QED
      BY <3>3
  <2>7. [i \in DOMAIN vs |-> used + i] \in Seq(Cells)
    BY <2>2 DEF Cells
  <2>8. cells' \in [Procs -> Seq(Cells)]
    BY <1>1, <2>7 DEF TypeOK
  <2>9. rest' \in [Procs -> Seq(Values)]
    <3>1. rest[p] \in Seq(Values)
      BY <1>1 DEF TypeOK
    <3>2. CASE call[p].kind = "insert"
      <4>1. rest[p] # <<>>
        BY <1>1, <1>12, <3>2 DEF New, Control, ToAdd
      <4>2. SubSeq(rest[p], 1, Len(rest[p]) - 1) \in Seq(Values)
        BY <3>1, <4>1
      <4> QED
        BY <1>1, <1>12, <3>2, <4>2 DEF New, TypeOK
    <3>3. CASE call[p].kind # "insert"
      BY <1>1, <1>12, <3>3 DEF New, TypeOK
    <3> QED
      BY <3>2, <3>3
  <2>10. /\ at' \in [Procs -> Nodes] /\ cnt' \in [Procs -> Nat]
         /\ last' \in [Procs -> Cells \cup {nil}]
    BY <1>1, <1>12, RewindTypes DEF New
  <2>11. \E l \in {"walk", "link"} : pc' = [pc EXCEPT ![p] = l]
    BY <1>12 DEF New
  <2>12. UNCHANGED <<exp, seen, work, published, cutAt, epoch, out>>
    BY <1>12 DEF New
  <2>13. pc' \in [Procs -> Labels]
    BY <1>1, <2>11 DEF TypeOK
  <2>14. /\ call' \in [Procs -> Calls \cup {nil}] /\ todo' \in [Procs -> SUBSET Calls]
         /\ exp' \in [Procs -> Cells \cup {tail, nil}]
         /\ seen' \in [Procs -> Seq([node : Cells, cell : Cells])]
    BY <1>1, <2>12, Zenon DEF TypeOK
  <2>15. published' \subseteq Cells /\ cutAt' \in [Nodes -> Nat] /\ epoch' \in Nat /\ out' \in [Cells -> Nat]
    BY <1>1, <2>12, Zenon DEF TypeOK
  <2> HIDE DEF Labels
  <2> QED
    BY <2>3, <2>4, <2>5, <2>6, <2>8, <2>9, <2>10, <2>13, <2>14, <2>15, Zenon DEF TypeOK
<1>13. CASE Advance(p)
  BY <1>1, <1>13 DEF Advance, TypeOK, Nodes
<1>14. CASE NotFound(p)
  BY <1>1, <1>14 DEF NotFound, TypeOK
<1>15. CASE SweptAll(p)
  BY <1>1, <1>15 DEF SweptAll, TypeOK
<1>16. CASE PickLast(p)
  BY <1>1, <1>16 DEF PickLast, TypeOK, Nodes
<1>17. CASE AtEnd(p)
  BY <1>1, <1>17 DEF AtEnd, TypeOK
<1>18. CASE SkipDeleted(p)
  BY <1>1, <1>18 DEF SkipDeleted, TypeOK
<1>19. CASE Pass(p)
  <2>1. at[p] \in Cells /\ state[at[p]] \in Cells
    BY <1>3, <1>19 DEF Pass
  <2>2. seen[p] \in Seq([node : Cells, cell : Cells]) /\ cnt[p] \in Nat
    BY <1>1 DEF TypeOK
  <2>3. Append(seen[p], [node |-> at[p], cell |-> state[at[p]]]) \in Seq([node : Cells, cell : Cells])
    BY <2>1, <2>2
  <2>4. cnt' \in [Procs -> Nat] /\ seen' \in [Procs -> Seq([node : Cells, cell : Cells])]
    <3>1. /\ cnt \in [Procs -> Nat]
          /\ seen \in [Procs -> Seq([node : Cells, cell : Cells])]
      BY <1>1 DEF TypeOK
    <3>2. cnt' \in [Procs -> Nat]
      BY <3>1, <1>19 DEF Pass
    <3> DEFINE S == Seq([node : Cells, cell : Cells])
    <3>3. \E s \in S : seen' = [seen EXCEPT ![p] = s]
      BY <3>1, <1>19, <2>2, <2>3 DEF Pass
    <3> HIDE DEF S
    <3>4. seen' \in [Procs -> S]
      BY <3>1, <3>3 DEF S
    <3> QED
      BY <3>2, <3>4 DEF S
  <2>5. last' \in [Procs -> Cells \cup {nil}] /\ exp' \in [Procs -> Cells \cup {tail, nil}]
    BY <1>1, <1>19, <2>1, ZenonT(60) DEF Pass, TypeOK
  <2> QED
    BY <1>1, <1>19, <2>4, <2>5 DEF Pass, TypeOK
<1>20. CASE Select(p)
  <2>1. state[at[p]] \in Cells
    BY <1>3, <1>20 DEF Select
  <2>2. exp' \in [Procs -> Cells \cup {tail, nil}]
    BY <1>1, <1>20, <2>1 DEF Select, TypeOK
  <2>3. \E l \in {"ok", "swap", "link", "take"} : pc' = [pc EXCEPT ![p] = l]
    BY <1>20 DEF Select
  <2>4. UNCHANGED <<heap, work, at, last, cnt, seen, cells, rest, ghost>>
    BY <1>20 DEF Select
  <2> QED
    BY <1>1, <2>2, <2>3, <2>4, ZenonT(60) DEF TypeOK
<1>21. CASE Take(p)
  <2>1. state' \in [Cells -> Cells \cup {nil}] /\ out' \in [Cells -> Nat]
    BY <1>1, <1>3, <1>4, <1>21, SMTT(60) DEF Take, TypeOK
  <2> QED
    BY <1>1, <1>21, <2>1 DEF Take, TypeOK
<1>22. CASE TakeFails(p)
  BY <1>1, <1>22 DEF TakeFails, TypeOK
<1>32. CASE TakeRestarts(p)
  <2>1. at' \in [Procs -> Nodes] /\ cnt' \in [Procs -> Nat] /\ last' \in [Procs -> Cells \cup {nil}]
    BY <1>1, <1>32, RewindTypes DEF TakeRestarts
  <2> QED
    BY <1>1, <1>32, <2>1 DEF TakeRestarts, TypeOK
<1>23. CASE Swap(p)
  <2>1. state' \in [Cells -> Cells \cup {nil}] /\ out' \in [Cells -> Nat]
    <3>1. /\ state' = [state EXCEPT ![at[p]] = cells[p][1]] /\ out' = [out EXCEPT ![exp[p]] = @ + 1]
          /\ cells[p][1] \in Cells /\ at[p] \in Cells /\ exp[p] \in Cells
      BY <1>3, <1>4, <1>5, <1>23 DEF Swap
    <3>2. state \in [Cells -> Cells \cup {nil}] /\ out \in [Cells -> Nat]
      BY <1>1 DEF TypeOK
    <3> QED
      BY <3>1, <3>2
  <2>2. cells' \in [Procs -> Seq(Cells)]
    BY <1>1, <1>23 DEF Swap, TypeOK
  <2> QED
    BY <1>1, <1>23, <2>1, <2>2 DEF Swap, TypeOK
<1>24. CASE SwapFails(p)
  BY <1>1, <1>24 DEF SwapFails, TypeOK
<1>25. CASE Reload(p)
  BY <1>1, <1>3, <1>25 DEF Reload, TypeOK
<1>33. CASE SetRestarts(p)
  <2>1. at' \in [Procs -> Nodes] /\ cnt' \in [Procs -> Nat] /\ last' \in [Procs -> Cells \cup {nil}]
    BY <1>1, <1>33, RewindTypes DEF SetRestarts
  <2> QED
    BY <1>1, <1>33, <2>1 DEF SetRestarts, TypeOK
<1>26. CASE Link(p)
  BY <1>1, <1>4, <1>5, <1>26 DEF Link, TypeOK, Nodes
<1>27. CASE Swing(p)
  <2>1. next' \in [Nodes -> Cells \cup {tail, nil}] /\ cells' \in [Procs -> Seq(Cells)]
    BY <1>1, <1>4, <1>5, <1>27 DEF Swing, TypeOK
  <2>2. published' \subseteq Cells /\ cutAt' \in [Nodes -> Nat]
    BY <1>1, <1>27, SMTT(60) DEF Swing, TypeOK, Members
  <2> QED
    BY <1>1, <1>27, <2>1, <2>2 DEF Swing, TypeOK
<1>28. CASE SwingFails(p)
  <2>1. at' \in [Procs -> Nodes] /\ cnt' \in [Procs -> Nat] /\ last' \in [Procs -> Cells \cup {nil}]
    BY <1>1, <1>28, RewindTypes DEF SwingFails
  <2> QED
    BY <1>1, <1>28, <2>1 DEF SwingFails, TypeOK
<1>29. CASE ClearLoad(p)
  BY <1>1, <1>29 DEF ClearLoad, TypeOK, Nodes
<1>30. CASE Cut(p)
  <2>1. epoch' \in Nat /\ cutAt' \in [Nodes -> Nat]
    BY <1>1, <1>30 DEF Cut, TypeOK
  <2>2. next' \in [Nodes -> Cells \cup {tail, nil}]
    BY <1>1, <1>30 DEF Cut, TypeOK, Nodes
  <2> QED
    BY <1>1, <1>30, <2>1, <2>2 DEF Cut, TypeOK
<1>31. CASE CutFails(p)
  BY <1>1, <1>31 DEF CutFails, TypeOK
<1> QED
  BY <1>11, <1>12, <1>13, <1>14, <1>15, <1>16, <1>17, <1>18, <1>19, <1>20, <1>21, <1>22,
     <1>23, <1>24, <1>25, <1>26, <1>27, <1>28, <1>29, <1>30, <1>31, <1>32, <1>33 DEF Step

-----------------------------------------------------------------------------
\* A step of one goroutine leaves the locals of the others alone.
LEMMA OthersKeep ==
    ASSUME TypeOK, NEW p \in Procs, Step(p), NEW q \in Procs, q # p
    PROVE  /\ pc'[q] = pc[q] /\ call'[q] = call[q] /\ todo'[q] = todo[q]
           /\ at'[q] = at[q] /\ last'[q] = last[q] /\ exp'[q] = exp[q]
           /\ cnt'[q] = cnt[q] /\ seen'[q] = seen[q]
           /\ cells'[q] = cells[q] /\ rest'[q] = rest[q]
<1> USE DEF Goto, Rewind, heap, local, work
<1>1. CASE Call(p)
  BY <1>1 DEF Call
<1>2. CASE New(p)
  BY <1>2 DEF New
<1>3. CASE Advance(p)
  BY <1>3 DEF Advance
<1>4. CASE NotFound(p)
  BY <1>4 DEF NotFound
<1>5. CASE SweptAll(p)
  BY <1>5 DEF SweptAll
<1>6. CASE PickLast(p)
  BY <1>6 DEF PickLast
<1>7. CASE AtEnd(p)
  BY <1>7 DEF AtEnd
<1>8. CASE SkipDeleted(p)
  BY <1>8 DEF SkipDeleted
<1>9. CASE Pass(p)
  <2>1. last'[q] = last[q] /\ exp'[q] = exp[q]
    <3>1. CASE call[p].kind = "removeLast"
      BY <1>9, <3>1 DEF Pass, TypeOK
    <3>2. CASE call[p].kind # "removeLast"
      BY <1>9, <3>2 DEF Pass, TypeOK
    <3> QED
      BY <3>1, <3>2
  <2> QED
    BY <1>9, <2>1 DEF Pass, TypeOK
<1>10. CASE Select(p)
  BY <1>10 DEF Select
<1>11. CASE Take(p)
  BY <1>11 DEF Take
<1>12. CASE TakeFails(p)
  BY <1>12 DEF TakeFails
<1>13. CASE Swap(p)
  BY <1>13 DEF Swap
<1>14. CASE SwapFails(p)
  BY <1>14 DEF SwapFails
<1>15. CASE Reload(p)
  BY <1>15 DEF Reload
<1>16. CASE Link(p)
  BY <1>16 DEF Link
<1>17. CASE Swing(p)
  BY <1>17 DEF Swing
<1>18. CASE SwingFails(p)
  BY <1>18 DEF SwingFails
<1>19. CASE ClearLoad(p)
  BY <1>19 DEF ClearLoad
<1>20. CASE Cut(p)
  BY <1>20 DEF Cut
<1>21. CASE CutFails(p)
  BY <1>21 DEF CutFails
<1>22. CASE TakeRestarts(p)
  BY <1>22 DEF TakeRestarts
<1>23. CASE SetRestarts(p)
  BY <1>23 DEF SetRestarts
<1> QED
  BY <1>1, <1>2, <1>3, <1>4, <1>5, <1>6, <1>7, <1>8, <1>9, <1>10, <1>11,
     <1>12, <1>13, <1>14, <1>15, <1>16, <1>17, <1>18, <1>19, <1>20, <1>21, <1>22, <1>23 DEF Step

\* Every step keeps what Control says of the goroutine that takes it.
LEMMA ControlStep ==
    ASSUME IInv, NEW p \in Procs, Step(p)
    PROVE  \A q \in Procs : Control(q)'
<1>1. TypeOK /\ Control(p) /\ Cursor(p) /\ TypeOK'
  BY TypeStep DEF IInv
<1>2. \A q \in Procs : q # p => Control(q)'
  BY <1>1, OthersKeep DEF IInv, Control, ToAdd
<1>3. pc[p] \in {"visit", "take", "swap", "reload"} => state[at[p]] \in Cells \cup {nil}
  BY <1>1 DEF TypeOK, Cursor
<1>4. call'[p] \in Calls \cup {nil}
  BY <1>1 DEF TypeOK
<1> SUFFICES Control(p)'
  BY <1>2
<1> USE DEF Goto, Rewind, heap, local, work, Finished, Adders
<1>11. CASE Call(p)
  <2>1. PICK q \in todo[p] : /\ call'[p] = q /\ rest'[p] = q.elems
                             /\ pc'[p] = FirstStep(q)
    BY <1>1, <1>11 DEF Call, TypeOK
  <2>2. q \in Calls
    BY <1>1, <2>1 DEF TypeOK
  <2>3. cells'[p] = <<>> /\ last'[p] = nil
    BY <1>1, <1>11 DEF Call, TypeOK
  <2>4. /\ pc'[p] \in {"ok", "fail", "new", "clear", "walk"}
        /\ pc'[p] = "clear" => q.kind = "clear"
    BY <2>1 DEF FirstStep
  <2>5. pc'[p] = "new" => q.kind \in {"set", "insert", "append"} /\ q.elems # <<>>
    <3>1. q.kind = "set" => q.elems # <<>>
      BY <2>2, SMTT(60) DEF Calls
    <3> QED
      BY <2>1, <3>1 DEF FirstStep
  <2>6. pc'[p] = "walk" => q.kind \notin {"set", "insert"}
    BY <2>1, <2>2 DEF FirstStep, Calls
  <2> QED
    BY <2>1, <2>2, <2>3, <2>4, <2>5, <2>6 DEF Control, ToAdd
<1>12. CASE New(p)
  <2>1. /\ call[p] \in Calls /\ call'[p] = call[p]
        /\ call[p].kind \in Adders /\ ToAdd(p) # <<>>
        /\ call[p].kind # "insert" => rest'[p] = <<>>
        /\ last'[p] = nil
        /\ pc'[p] = IF call[p].kind = "insert" /\ call[p].idx = 0 THEN "link" ELSE "walk"
    BY <1>1, <1>12, SMTT(60) DEF New, Control, TypeOK
  <2>2. PICK vs \in Batch(p) : cells' = [cells EXCEPT ![p] = [i \in DOMAIN vs |-> used + i]]
    BY <1>12 DEF New
  <2>3. DOMAIN vs # {}
    <3>1. rest[p] \in Seq(Values) /\ seen[p] \in Seq([node : Cells, cell : Cells])
      BY <1>1 DEF TypeOK
    <3>2. ToAdd(p) # <<>> => DOMAIN ToAdd(p) # {}
      BY <3>1, NonEmptySeq DEF ToAdd
    <3>3. CASE call[p].kind = "insert"
      BY <2>2, <3>3 DEF Batch
    <3>4. CASE call[p].kind = "sort"
      BY <2>1, <2>2, <3>2, <3>4 DEF Batch, ToAdd, Sorted
    <3> QED
      BY <2>1, <2>2, <3>2, <3>3, <3>4 DEF Batch, ToAdd
  <2>4. cells'[p] # <<>>
    BY <1>1, <2>2, <2>3 DEF TypeOK
  <2>5. call[p].kind = "insert" => Len(cells'[p]) <= 1
    BY <1>1, <2>2 DEF TypeOK, Batch
  <2> QED
    BY <2>1, <2>4, <2>5 DEF Control
<1>13. CASE Advance(p)
  BY <1>1, <1>3, <1>4, <1>13 DEF Advance, Control, TypeOK, ToAdd
<1>14. CASE NotFound(p)
  BY <1>1, <1>3, <1>4, <1>14 DEF NotFound, Control, TypeOK, ToAdd
<1>15. CASE SweptAll(p)
  BY <1>1, <1>3, <1>4, <1>15 DEF SweptAll, Exhausted, Appending, Control, TypeOK, ToAdd
<1>16. CASE PickLast(p)
  BY <1>1, <1>3, <1>4, <1>16, ZenonT(60) DEF PickLast, Exhausted, Appending, Control, TypeOK, ToAdd
<1>17. CASE AtEnd(p)
  BY <1>1, <1>3, <1>4, <1>17, ZenonT(60) DEF AtEnd, Exhausted, Appending, Control, TypeOK, ToAdd
<1>18. CASE SkipDeleted(p)
  BY <1>1, <1>3, <1>4, <1>18 DEF SkipDeleted, Control, TypeOK, ToAdd
<1>19. CASE Pass(p)
  BY <1>1, <1>3, <1>4, <1>19 DEF Pass, Control, TypeOK, ToAdd
<1>20. CASE Select(p)
  BY <1>1, <1>3, <1>4, <1>20, ZenonT(60) DEF Select, Selects, Control, TypeOK, ToAdd
<1>21. CASE Take(p)
  BY <1>1, <1>3, <1>4, <1>21 DEF Take, Control, TypeOK, ToAdd
<1>22. CASE TakeFails(p)
  BY <1>1, <1>3, <1>4, <1>22 DEF TakeFails, Control, TypeOK, ToAdd
<1>23. CASE Swap(p)
  BY <1>1, <1>3, <1>4, <1>23 DEF Swap, Control, TypeOK, ToAdd
<1>24. CASE SwapFails(p)
  BY <1>1, <1>3, <1>4, <1>24 DEF SwapFails, Control, TypeOK, ToAdd
<1>25. CASE Reload(p)
  BY <1>1, <1>3, <1>4, <1>25 DEF Reload, Control, TypeOK, ToAdd
<1>26. CASE Link(p)
  BY <1>1, <1>3, <1>4, <1>26, SMTT(60) DEF Link, Control, TypeOK, ToAdd
<1>27. CASE Swing(p)
  BY <1>1, <1>3, <1>4, <1>27, SMTT(60) DEF Swing, Control, TypeOK, ToAdd
<1>28. CASE SwingFails(p)
  BY <1>1, <1>3, <1>4, <1>28 DEF SwingFails, Control, TypeOK, ToAdd
<1>29. CASE ClearLoad(p)
  BY <1>1, <1>3, <1>4, <1>29 DEF ClearLoad, Control, TypeOK, ToAdd
<1>30. CASE Cut(p)
  BY <1>1, <1>3, <1>4, <1>30, SMTT(60) DEF Cut, Control, TypeOK, ToAdd
<1>31. CASE CutFails(p)
  BY <1>1, <1>3, <1>4, <1>31 DEF CutFails, Control, TypeOK, ToAdd
<1>32. CASE TakeRestarts(p)
  BY <1>1, <1>32, ZenonT(60) DEF TakeRestarts, Control, TypeOK, ToAdd
<1>33. CASE SetRestarts(p)
  BY <1>1, <1>33 DEF SetRestarts, Control, TypeOK, ToAdd
<1> QED
  BY <1>11, <1>12, <1>13, <1>14, <1>15, <1>16, <1>17, <1>18, <1>19, <1>20, <1>21,
     <1>22, <1>23, <1>24, <1>25, <1>26, <1>27, <1>28, <1>29, <1>30, <1>31, <1>32, <1>33 DEF Step

-----------------------------------------------------------------------------
\* Six actions write shared memory, the others only read it.
LEMMA Writers ==
    ASSUME NEW p \in Procs, Step(p)
    PROVE  \/ New(p) \/ Take(p) \/ Swap(p) \/ Link(p) \/ Swing(p) \/ Cut(p)
           \/ UNCHANGED <<heap, ghost>>
<1>1. Call(p) => UNCHANGED <<heap, ghost>>
  BY DEF Call
<1>2. Advance(p) => UNCHANGED <<heap, ghost>>
  BY DEF Advance
<1>3. NotFound(p) => UNCHANGED <<heap, ghost>>
  BY DEF NotFound
<1>4. SweptAll(p) => UNCHANGED <<heap, ghost>>
  BY DEF SweptAll
<1>5. PickLast(p) => UNCHANGED <<heap, ghost>>
  BY DEF PickLast
<1>6. AtEnd(p) => UNCHANGED <<heap, ghost>>
  BY DEF AtEnd
<1>7. SkipDeleted(p) => UNCHANGED <<heap, ghost>>
  BY DEF SkipDeleted
<1>8. Pass(p) => UNCHANGED <<heap, ghost>>
  BY DEF Pass
<1>9. Select(p) => UNCHANGED <<heap, ghost>>
  BY DEF Select
<1>10. TakeFails(p) => UNCHANGED <<heap, ghost>>
  BY DEF TakeFails
<1>11. TakeRestarts(p) => UNCHANGED <<heap, ghost>>
  BY DEF TakeRestarts
<1>12. SwapFails(p) => UNCHANGED <<heap, ghost>>
  BY DEF SwapFails
<1>13. Reload(p) => UNCHANGED <<heap, ghost>>
  BY DEF Reload
<1>14. SetRestarts(p) => UNCHANGED <<heap, ghost>>
  BY DEF SetRestarts
<1>15. SwingFails(p) => UNCHANGED <<heap, ghost>>
  BY DEF SwingFails
<1>16. ClearLoad(p) => UNCHANGED <<heap, ghost>>
  BY DEF ClearLoad
<1>17. CutFails(p) => UNCHANGED <<heap, ghost>>
  BY DEF CutFails
<1> QED
  BY <1>1, <1>2, <1>3, <1>4, <1>5, <1>6, <1>7, <1>8, <1>9, <1>10, <1>11, <1>12, <1>13, <1>14, <1>15, <1>16, <1>17 DEF Step

\* What IInv says, unfolded once for the lemmas below.
LEMMA Facts ==
    ASSUME IInv
    PROVE  /\ TypeOK
           /\ published \subseteq 1 .. used /\ published \subseteq Cells
           /\ used \in Nat /\ 1 .. used \subseteq Cells
           /\ Held \subseteq 1 .. used
           /\ \A n \in published : state[n] # nil => state[n] \in Held
           /\ \A p \in Procs : Control(p) /\ Cursor(p) /\ Owned(p)
           /\ \A p \in Procs : Private(p) \subseteq 1 .. used
<1>1. TypeOK /\ Links /\ \A p \in Procs : Control(p) /\ Cursor(p) /\ Owned(p)
  BY DEF IInv
<1>2. used \in Nat /\ 1 .. used \subseteq Cells /\ published \subseteq Cells
  BY <1>1 DEF TypeOK, Cells
<1>3. Held \subseteq Cells
  BY <1>1, <1>2 DEF Held, TypeOK
<1>4. published \subseteq 1 .. used /\ Held \subseteq 1 .. used
  BY <1>1, <1>2, <1>3 DEF Links, Cells
<1> QED
  BY <1>1, <1>2, <1>4 DEF Held, Owned

\* The published nodes only grow.
LEMMA Grows ==
    ASSUME NEW p \in Procs, Step(p)
    PROVE  published \subseteq published'
<1>1. CASE Swing(p)
  BY <1>1 DEF Swing
<1>2. CASE published' = published
  BY <1>2
<1> QED
  BY <1>1, <1>2, Writers DEF New, Take, Swap, Link, Cut, ghost

\* A goroutine's cursor and candidate stay on published nodes whatever it or
\* another goroutine does: nodes are never taken back out of `published`.
LEMMA CursorStep ==
    ASSUME IInv, NEW p \in Procs, Step(p)
    PROVE  \A q \in Procs : Cursor(q)'
<1>1. TypeOK /\ Links /\ Control(p) /\ Cursor(p) /\ published \subseteq Cells
  BY Facts DEF IInv
<1>2. published \subseteq published'
  BY Grows
<1>3. ASSUME NEW q \in Procs, q # p PROVE Cursor(q)'
  BY <1>1, <1>2, <1>3, OthersKeep DEF IInv, Cursor
<1> SUFFICES Cursor(p)'
  BY <1>3
<1> USE DEF Goto, Rewind, heap, local, work, Finished
<1>11. CASE Call(p)
  BY <1>1, <1>2, <1>11 DEF Call, Cursor, TypeOK, FirstStep
<1>12. CASE New(p)
  BY <1>1, <1>2, <1>12 DEF New, Cursor, TypeOK
<1>13. CASE Advance(p)
  BY <1>1, <1>2, <1>13 DEF Advance, Cursor, TypeOK, Links
<1>14. CASE NotFound(p)
  BY <1>1, <1>2, <1>14 DEF NotFound, Cursor, TypeOK
<1>15. CASE SweptAll(p)
  BY <1>1, <1>2, <1>15 DEF SweptAll, Cursor, TypeOK
<1>16. CASE PickLast(p)
  BY <1>1, <1>2, <1>16 DEF PickLast, Cursor, TypeOK, Exhausted
<1>17. CASE AtEnd(p)
  BY <1>1, <1>2, <1>17 DEF AtEnd, Cursor, TypeOK
<1>18. CASE SkipDeleted(p)
  BY <1>1, <1>2, <1>18 DEF SkipDeleted, Cursor, TypeOK
<1>19. CASE Pass(p)
  BY <1>1, <1>2, <1>19, SMTT(60) DEF Pass, Cursor, TypeOK
<1>20. CASE Select(p)
  BY <1>1, <1>2, <1>20 DEF Select, Cursor, TypeOK
<1>21. CASE Take(p)
  BY <1>1, <1>2, <1>21 DEF Take, Cursor, TypeOK
<1>22. CASE TakeFails(p)
  BY <1>1, <1>2, <1>22 DEF TakeFails, Cursor, TypeOK
<1>23. CASE TakeRestarts(p)
  BY <1>1, <1>2, <1>23 DEF TakeRestarts, Cursor, TypeOK
<1>24. CASE Swap(p)
  BY <1>1, <1>2, <1>24 DEF Swap, Cursor, TypeOK
<1>25. CASE SwapFails(p)
  BY <1>1, <1>2, <1>25 DEF SwapFails, Cursor, TypeOK
<1>26. CASE Reload(p)
  BY <1>1, <1>2, <1>26 DEF Reload, Cursor, TypeOK
<1>27. CASE SetRestarts(p)
  BY <1>1, <1>2, <1>27 DEF SetRestarts, Cursor, TypeOK
<1>28. CASE Link(p)
  BY <1>1, <1>2, <1>28 DEF Link, Cursor, TypeOK
<1>29. CASE Swing(p)
  BY <1>1, <1>2, <1>29 DEF Swing, Cursor, TypeOK
<1>30. CASE SwingFails(p)
  BY <1>1, <1>2, <1>30 DEF SwingFails, Cursor, TypeOK
<1>31. CASE ClearLoad(p)
  BY <1>1, <1>2, <1>31 DEF ClearLoad, Cursor, TypeOK
<1>32. CASE Cut(p)
  BY <1>1, <1>2, <1>32 DEF Cut, Cursor, TypeOK
<1>33. CASE CutFails(p)
  BY <1>1, <1>2, <1>33 DEF CutFails, Cursor, TypeOK
<1> QED
  BY <1>11, <1>12, <1>13, <1>14, <1>15, <1>16, <1>17, <1>18, <1>19, <1>20, <1>21,
     <1>22, <1>23, <1>24, <1>25, <1>26, <1>27, <1>28, <1>29, <1>30, <1>31, <1>32, <1>33 DEF Step

\* The elements New allocates for are a sequence.
LEMMA BatchIsSeq ==
    ASSUME TypeOK, NEW p \in Procs, NEW vs \in Batch(p)
    PROVE  \E S : vs \in Seq(S)
<1>1. rest[p] \in Seq(Values) /\ seen[p] \in Seq([node : Cells, cell : Cells])
  BY DEF TypeOK
<1>2. CASE call[p].kind = "insert"
  <2>1. vs = <<rest[p][Len(rest[p])]>>
    BY <1>2 DEF Batch
  <2>2. vs \in Seq({rest[p][Len(rest[p])]})
    BY <2>1
  <2> QED
    BY <2>2
<1>3. CASE call[p].kind = "sort"
  <2>1. vs \in [DOMAIN seen[p] -> Values]
    BY <1>3 DEF Batch, Sorted
  <2>2. vs \in Seq(Values)
    BY <1>1, <2>1
  <2> QED
    BY <2>2
<1>4. CASE call[p].kind \notin {"insert", "sort"}
  <2>1. vs = rest[p]
    BY <1>4 DEF Batch
  <2> QED
    BY <1>1, <2>1
<1> QED
  BY <1>2, <1>3, <1>4

\* What New does to the heap, with the fresh cells named.
LEMMA NewFacts ==
    ASSUME IInv, NEW p \in Procs, New(p)
    PROVE  \E k \in Nat :
             /\ used' = used + k
             /\ \A x \in 1 .. used : state'[x] = state[x] /\ born'[x] = born[x] /\ next'[x] = next[x]
             /\ next'[head] = next[head]
             /\ Private(p)' = used + 1 .. used + k
             /\ \A x \in used + 1 .. used + k :
                  /\ x \in Cells /\ state'[x] = x /\ born'[x] = epoch
                  /\ next'[x] \in (used + 1 .. used + k) \cup {tail, nil}
             /\ \A x \in Cells : born'[x] \in {born[x], epoch}
             /\ UNCHANGED <<published, cutAt, epoch, out>>
<1>1. TypeOK /\ used \in Nat /\ 1 .. used \subseteq Cells
  BY Facts
<1>2. PICK vs \in Batch(p) :
        /\ used + Len(vs) <= MaxCells
        /\ used' = used + Len(vs)
        /\ state' = [x \in Cells |-> IF x \in used + 1 .. used + Len(vs) THEN x ELSE state[x]]
        /\ next' = [n \in Nodes |-> IF n \notin used + 1 .. used + Len(vs) THEN next[n]
                                    ELSE IF n < used + Len(vs) THEN n + 1
                                    ELSE IF call[p].kind \in {"insert", "set"} THEN nil
                                    ELSE tail]
        /\ cells' = [cells EXCEPT ![p] = [i \in DOMAIN vs |-> used + i]]
        /\ born' = [x \in Cells |-> IF x \in used + 1 .. used + Len(vs) THEN epoch ELSE born[x]]
  BY DEF New
<1>3. \E S : vs \in Seq(S)
  BY <1>1, BatchIsSeq
<1>4. Len(vs) \in Nat /\ DOMAIN vs = 1 .. Len(vs)
  BY <1>3
<1>5. used + 1 .. used + Len(vs) \subseteq Cells
  BY <1>1, <1>2, <1>4 DEF Cells
<1>6. cells'[p] = [i \in 1 .. Len(vs) |-> used + i]
  BY <1>1, <1>2, <1>4 DEF TypeOK
<1>7. Private(p)' = used + 1 .. used + Len(vs)
  <2>1. Private(p)' = {used + i : i \in 1 .. Len(vs)}
    BY <1>6 DEF Private, Members
  <2>2. \A x \in used + 1 .. used + Len(vs) : x - used \in 1 .. Len(vs) /\ x = used + (x - used)
    BY <1>1, <1>4
  <2>3. \A i \in 1 .. Len(vs) : used + i \in used + 1 .. used + Len(vs)
    BY <1>1, <1>4
  <2> QED
    BY <2>1, <2>2, <2>3, ZenonT(60)
<1>8. \A x \in 1 .. used : state'[x] = state[x] /\ born'[x] = born[x] /\ next'[x] = next[x]
  BY <1>1, <1>2, <1>4 DEF Nodes
<1>9. next'[head] = next[head]
  BY <1>2, <1>5 DEF Nodes
<1>10. \A x \in used + 1 .. used + Len(vs) :
          /\ x \in Cells /\ state'[x] = x /\ born'[x] = epoch
          /\ next'[x] \in (used + 1 .. used + Len(vs)) \cup {tail, nil}
  BY <1>1, <1>2, <1>4, <1>5 DEF Nodes
<1>11. \A x \in Cells : born'[x] \in {born[x], epoch}
  BY <1>2
<1>12. UNCHANGED <<published, cutAt, epoch, out>>
  BY DEF New
<1> QED
  BY <1>2, <1>4, <1>7, <1>8, <1>9, <1>10, <1>11, <1>12

\* The four parts of the invariant that speak of shared memory.
Shared == Links /\ HandedOutOnce /\ ClearSwallowsOnlyOverlapping /\ \A q \in Procs : Owned(q)

\* The CAS of a removal: the element leaves its node exactly when it is
\* counted as returned.
LEMMA TakeStep ==
    ASSUME IInv, NEW p \in Procs, Take(p)
    PROVE  Shared'
<1> DEFINE n == at[p]  v == exp[p]
<1>1. /\ n \in published /\ n \in Cells /\ v \in Cells /\ v = state[n]
      /\ v \in Held /\ n # head /\ v # nil
  BY Facts DEF Take, Control, Cursor, Finished, Held
<1>2. /\ state' = [state EXCEPT ![n] = nil] /\ out' = [out EXCEPT ![v] = @ + 1]
      /\ UNCHANGED <<next, used, at, exp, call, cells, published, cutAt, epoch, born>>
      /\ pc' = [pc EXCEPT ![p] = IF call[p].kind = "removeFunc" THEN "walk" ELSE "ok"]
  BY DEF Take, Goto, local, work
<1>3. TypeOK /\ published \subseteq Cells /\ Held \subseteq 1 .. used /\ used \in Nat
  BY Facts
<1>4. state \in [Cells -> Cells \cup {nil}] /\ out \in [Cells -> Nat] /\ pc \in [Procs -> Labels]
      /\ pc[p] = "take"
  BY <1>3 DEF TypeOK, Take, Finished
<1>5. HandedOutOnce /\ Links /\ \A q \in Procs : Owned(q)
  BY DEF IInv
<1> HIDE DEF n, v
<1>6. \A m \in published : m # n => state'[m] = state[m] /\ state[m] # v
  BY <1>1, <1>2, <1>3, <1>4, <1>5 DEF HandedOutOnce
<1>7. state'[n] = nil
  BY <1>1, <1>2, <1>4
<1>8. Held' = Held \ {v}
  BY <1>1, <1>2, <1>6, <1>7 DEF Held
<1>9. out'[v] = 1 /\ \A x \in Cells : x # v => out'[x] = out[x]
  BY <1>1, <1>2, <1>4, <1>5 DEF HandedOutOnce
<1>10. Links'
  BY <1>1, <1>2, <1>3, <1>5, <1>8, <1>9 DEF Links
<1>11. HandedOutOnce'
  BY <1>1, <1>2, <1>3, <1>5, <1>6, <1>7, <1>8, <1>9 DEF HandedOutOnce
<1>12. ClearSwallowsOnlyOverlapping'
  BY <1>2 DEF IInv, ClearSwallowsOnlyOverlapping
<1>13. ASSUME NEW q \in Procs PROVE Owned(q)'
  <2>1. Private(q)' = Private(q)
    BY <1>2 DEF Private
  <2>2. \A x \in Private(q) : x \in Cells /\ x # n /\ x # v /\ state'[x] = x /\ out'[x] = 0
    BY <1>1, <1>2, <1>3, <1>4, <1>5, <1>9, Facts DEF Owned
  <2>3. pc'[q] = "swing" => pc[q] = "swing"
    BY <1>2, <1>4
  <2>4. pc'[q] \notin Finished => pc[q] \notin Finished
    BY <1>2, <1>4 DEF Finished
  <2>5. \A r \in Procs : Private(r)' = Private(r)
    BY <1>2 DEF Private
  <2> QED
    BY <1>2, <1>5, <1>8, <2>1, <2>2, <2>3, <2>4, <2>5 DEF Owned
<1> QED
  BY <1>10, <1>11, <1>12, <1>13 DEF Shared

\* The CAS of Set: the old element is returned, the new one takes its place
\* and stops being private in the same step.
LEMMA SwapStep ==
    ASSUME IInv, NEW p \in Procs, Swap(p)
    PROVE  Shared'
<1> DEFINE n == at[p]  v == exp[p]  w == cells[p][1]
<1>1. /\ n \in published /\ n \in Cells /\ v \in Cells /\ v = state[n]
      /\ v \in Held /\ n # head /\ v # nil
  BY Facts DEF Swap, Control, Cursor, Finished, Held
<1>2. /\ state' = [state EXCEPT ![n] = w] /\ out' = [out EXCEPT ![v] = @ + 1]
      /\ UNCHANGED <<next, used, at, exp, call, published, cutAt, epoch, born>>
      /\ pc' = [pc EXCEPT ![p] = "ok"] /\ cells' = [cells EXCEPT ![p] = <<>>]
  BY DEF Swap, Goto, local, work
<1>3. TypeOK /\ published \subseteq Cells /\ Held \subseteq 1 .. used /\ used \in Nat
  BY Facts
<1>4. state \in [Cells -> Cells \cup {nil}] /\ out \in [Cells -> Nat] /\ pc \in [Procs -> Labels]
      /\ cells \in [Procs -> Seq(Cells)] /\ pc[p] = "swap"
  BY <1>3 DEF TypeOK, Swap, Finished
<1>5. HandedOutOnce /\ Links /\ \A q \in Procs : Owned(q)
  BY DEF IInv
<1>50. w \in Private(p)
  <2>1. cells[p] # <<>>
    BY <1>4, Facts DEF Control, Finished
  <2> QED
    BY <1>4, <2>1, NonEmptySeq DEF Private, Members
<1>51. w \in Cells /\ w # nil /\ w \in 1 .. used /\ w \notin published /\ w \notin Held /\ out[w] = 0
  BY <1>5, <1>50, Facts DEF Owned
<1> HIDE DEF n, v, w
<1>6. \A m \in published : m # n => state'[m] = state[m] /\ state[m] # v /\ state[m] # w
  BY <1>1, <1>2, <1>3, <1>4, <1>5, <1>51 DEF HandedOutOnce, Held
<1>7. state'[n] = w
  BY <1>1, <1>2, <1>4
<1>8. Held' = (Held \ {v}) \cup {w}
  BY <1>1, <1>2, <1>6, <1>7, <1>51 DEF Held
<1>9. out'[v] = 1 /\ \A x \in Cells : x # v => out'[x] = out[x]
  BY <1>1, <1>2, <1>4, <1>5 DEF HandedOutOnce
<1>90. v # w
  BY <1>1, <1>51
<1>10. Links'
  BY <1>1, <1>2, <1>3, <1>5, <1>51, <1>8, <1>9 DEF Links
<1>11. HandedOutOnce'
  BY <1>1, <1>2, <1>3, <1>5, <1>6, <1>7, <1>8, <1>9, <1>51, <1>90 DEF HandedOutOnce
<1>12. ClearSwallowsOnlyOverlapping'
  BY <1>2 DEF IInv, ClearSwallowsOnlyOverlapping
<1>120. Private(p)' = {}
  BY <1>2, <1>4 DEF Private, Members
<1>121. \A q \in Procs : q # p => Private(q)' = Private(q)
  BY <1>2, <1>4 DEF Private
<1>13. ASSUME NEW q \in Procs PROVE Owned(q)'
  <2>1. CASE q = p
    BY <1>120, <2>1 DEF Owned
  <2>2. CASE q # p
    <3>1. \A x \in Private(q) : /\ x \in Cells /\ x # n /\ x # v /\ x # w
                                /\ state'[x] = x /\ out'[x] = 0
      BY <1>1, <1>2, <1>3, <1>4, <1>5, <1>50, <1>9, <2>2, Facts, SMTT(60) DEF Owned
    <3>2. pc'[q] = pc[q]
      BY <1>2, <1>4, <2>2
    <3>3. \A r \in Procs : Private(r)' \subseteq Private(r)
      BY <1>120, <1>121
    <3> QED
      BY <1>2, <1>5, <1>8, <1>121, <2>2, <3>1, <3>2, <3>3 DEF Owned
  <2> QED
    BY <2>1, <2>2
<1> QED
  BY <1>10, <1>11, <1>12, <1>13 DEF Shared

\* Reading steps move only the reader's own cursor and expectation: it stays
\* on nodes of its own epoch.
LEMMA QuietOwned ==
    ASSUME IInv, NEW p \in Procs, Step(p),
           ~(New(p) \/ Take(p) \/ Swap(p) \/ Link(p) \/ Swing(p) \/ Cut(p))
    PROVE  \/ Private(p)' = {}
           \/ /\ Private(p)' = Private(p)
              /\ cutAt[at'[p]] \in {0, cutAt[at[p]]}
              /\ pc[p] \notin Finished
              /\ call'[p] = call[p]
              /\ pc'[p] = "swing" => call[p].kind # "insert" \/ (pc[p] = "swing" /\ exp'[p] = exp[p])
<1>1. TypeOK /\ Links /\ Control(p) /\ Cursor(p)
  BY DEF IInv
<1>2. cutAt[head] = 0
  BY <1>1 DEF Links
<1> USE DEF Private, Members, Goto, local, work, Finished
<1>3. CASE Call(p)
  BY <1>1, <1>3 DEF Call, TypeOK
<1>4. CASE Advance(p)
  <2>1. /\ pc[p] = "walk" /\ next[at[p]] \notin {tail, nil}
        /\ at' = [at EXCEPT ![p] = next[at[p]]]
        /\ \E l \in {"walk", "visit"} : pc' = [pc EXCEPT ![p] = l]
        /\ cells' = cells /\ call' = call /\ cutAt' = cutAt
    BY <1>4 DEF Advance, heap, ghost
  <2>2. /\ at[p] \in published \cup {head} /\ published \subseteq Cells
        /\ next \in [Nodes -> Cells \cup {tail, nil}]
        /\ pc \in [Procs -> Labels] /\ at \in [Procs -> Nodes]
    BY <1>1 DEF TypeOK, Cursor
  <2>3. next[at[p]] \in Cells
    BY <2>1, <2>2
  <2>4. cutAt[next[at[p]]] = cutAt[at[p]]
    BY <1>1, <2>2, <2>3 DEF Links
  <2>5. at'[p] = next[at[p]] /\ pc'[p] \in {"walk", "visit"}
    BY <2>1, <2>2
  <2> QED
    BY <2>1, <2>4, <2>5
<1>5. CASE PickLast(p)
  BY <1>1, <1>5 DEF PickLast, Exhausted, TypeOK, Control, Adders
<1>6. CASE AtEnd(p)
  BY <1>1, <1>6, SMTT(60) DEF AtEnd, Exhausted, Appending, TypeOK
<1>7. CASE TakeRestarts(p) \/ SetRestarts(p) \/ SwingFails(p)
  BY <1>1, <1>2, <1>7, SMTT(60) DEF TakeRestarts, SetRestarts, SwingFails, Rewind, TypeOK
<1>8. CASE NotFound(p) \/ SweptAll(p) \/ SkipDeleted(p) \/ Pass(p) \/ Select(p)
  <2>1. CASE NotFound(p) \/ SweptAll(p)
    BY <1>1, <2>1, SMTT(60) DEF NotFound, SweptAll, Exhausted, TypeOK
  <2>2. CASE SkipDeleted(p) \/ Pass(p)
    BY <1>1, <2>2, SMTT(60) DEF SkipDeleted, Pass, TypeOK
  <2>3. CASE Select(p)
    BY <1>1, <2>3 DEF Select, TypeOK
  <2> QED
    BY <1>8, <2>1, <2>2, <2>3
<1>9. CASE TakeFails(p) \/ SwapFails(p) \/ Reload(p) \/ ClearLoad(p) \/ CutFails(p)
  <2>1. CASE TakeFails(p) \/ SwapFails(p)
    BY <1>1, <2>1, SMTT(60) DEF TakeFails, SwapFails, TypeOK
  <2>2. CASE Reload(p) \/ ClearLoad(p) \/ CutFails(p)
    BY <1>1, <2>2, SMTT(60) DEF Reload, ClearLoad, CutFails, TypeOK
  <2> QED
    BY <1>9, <2>1, <2>2
<1> QED
  BY <1>3, <1>4, <1>5, <1>6, <1>7, <1>8, <1>9 DEF Step

\* A step that writes no shared memory keeps the shared part of the invariant.
LEMMA QuietStep ==
    ASSUME IInv, NEW p \in Procs, Step(p),
           ~(New(p) \/ Take(p) \/ Swap(p) \/ Link(p) \/ Swing(p) \/ Cut(p))
    PROVE  Shared'
<1>1. UNCHANGED <<heap, ghost>>
  BY Writers
<1>2. TypeOK /\ Links /\ HandedOutOnce /\ ClearSwallowsOnlyOverlapping /\ \A q \in Procs : Owned(q)
  BY DEF IInv
<1>3. Held' = Held
  BY <1>1 DEF Held, heap, ghost
<1>4. Links' /\ HandedOutOnce' /\ ClearSwallowsOnlyOverlapping'
  BY <1>1, <1>2, <1>3 DEF Links, HandedOutOnce, ClearSwallowsOnlyOverlapping, heap, ghost
<1>5. \A q \in Procs : q # p => Private(q)' = Private(q)
  BY <1>2, OthersKeep DEF Private
<1>6. \A q \in Procs : Private(q)' \subseteq Private(q)
  BY <1>5, QuietOwned
<1>7. ASSUME NEW q \in Procs PROVE Owned(q)'
  <2>1. CASE Private(q)' = {}
    BY <2>1 DEF Owned
  <2>2. CASE q # p
    BY <1>1, <1>2, <1>3, <1>5, <1>6, <2>2, OthersKeep DEF Owned, heap, ghost
  <2>3. CASE q = p /\ Private(q)' # {}
    BY <1>1, <1>2, <1>3, <1>6, <2>3, QuietOwned DEF Owned, heap, ghost
  <2> QED
    BY <2>1, <2>2, <2>3
<1> QED
  BY <1>4, <1>7 DEF Shared

\* Allocation: the fresh cells belong to nobody and to no node yet.
LEMMA NewStep ==
    ASSUME IInv, NEW p \in Procs, New(p)
    PROVE  Shared'
<1>1. PICK k \in Nat :
        /\ used' = used + k
        /\ \A x \in 1 .. used : state'[x] = state[x] /\ born'[x] = born[x] /\ next'[x] = next[x]
        /\ next'[head] = next[head]
        /\ Private(p)' = used + 1 .. used + k
        /\ \A x \in used + 1 .. used + k :
             /\ x \in Cells /\ state'[x] = x /\ born'[x] = epoch
             /\ next'[x] \in (used + 1 .. used + k) \cup {tail, nil}
        /\ \A x \in Cells : born'[x] \in {born[x], epoch}
        /\ UNCHANGED <<published, cutAt, epoch, out>>
  BY NewFacts
<1>2. /\ TypeOK /\ Links /\ HandedOutOnce /\ ClearSwallowsOnlyOverlapping
      /\ \A q \in Procs : Owned(q)
      /\ published \subseteq 1 .. used /\ published \subseteq Cells /\ used \in Nat
      /\ Held \subseteq 1 .. used
      /\ \A q \in Procs : Private(q) \subseteq 1 .. used
      /\ 1 .. used \subseteq Cells /\ epoch \in Nat
  BY Facts DEF IInv, TypeOK
<1>3. Step(p)
  BY DEF Step
<1>4. \A n \in published : state'[n] = state[n] /\ next'[n] = next[n] /\ born'[n] = born[n]
  BY <1>1, <1>2
<1>5. Held' = Held
  BY <1>1, <1>4 DEF Held
<1>6. Links'
  BY <1>1, <1>2, <1>4, <1>5, SMTT(60) DEF Links
<1>7. HandedOutOnce'
  BY <1>1, <1>2, <1>4, <1>5 DEF HandedOutOnce
<1>8. ClearSwallowsOnlyOverlapping'
  BY <1>1, <1>2, <1>4 DEF ClearSwallowsOnlyOverlapping
<1>9. at'[p] = head /\ pc'[p] \in {"walk", "link"}
  BY <1>2 DEF New, Rewind, Goto, TypeOK
<1>10. ASSUME NEW q \in Procs, q # p PROVE Private(q)' = Private(q)
  BY <1>2, <1>3, <1>10, OthersKeep DEF Private
<1>11. ASSUME NEW q \in Procs PROVE Owned(q)'
  <2>1. CASE q = p
    <3>1. ASSUME NEW x \in Private(p)'
          PROVE  /\ x \in 1 .. used' /\ x \notin published' /\ x \notin Held' /\ out'[x] = 0
                 /\ state'[x] = x /\ next'[x] \in Private(p)' \cup {tail, nil}
                 /\ cutAt'[at'[p]] = 0
      BY <1>1, <1>2, <1>5, <1>9, <3>1 DEF Links
    <3>2. \A r \in Procs : r # p => Private(p)' \cap Private(r)' = {}
      BY <1>1, <1>2, <1>10
    <3> QED
      BY <2>1, <3>1, <3>2 DEF Owned
  <2>2. CASE q # p
    <3>1. \A r \in Procs : r # q => Private(q)' \cap Private(r)' = {}
      <4>1. Private(q) \cap Private(p)' = {}
        BY <1>1, <1>2
      <4> QED
        BY <1>2, <1>10, <2>2, <4>1 DEF Owned
    <3>2. ASSUME NEW x \in Private(q)
          PROVE  /\ x \in 1 .. used' /\ x \notin published' /\ x \notin Held' /\ out'[x] = 0
                 /\ state'[x] = x /\ next'[x] = next[x] /\ born'[x] = born[x]
      BY <1>1, <1>2, <1>5 DEF Owned
    <3>3. /\ pc'[q] = pc[q] /\ call'[q] = call[q] /\ exp'[q] = exp[q] /\ at'[q] = at[q]
      BY <1>2, <1>3, <2>2, OthersKeep
    <3> QED
      BY <1>1, <1>2, <1>10, <2>2, <3>1, <3>2, <3>3 DEF Owned
  <2> QED
    BY <2>1, <2>2
<1> QED
  BY <1>6, <1>7, <1>8, <1>11 DEF Shared

\* Insert points its private node at its predecessor's successor: the node
\* stays private, and so does all it leads to until the CAS.
LEMMA LinkStep ==
    ASSUME IInv, NEW p \in Procs, Link(p)
    PROVE  Shared'
<1> DEFINE w == cells[p][1]
<1>1. /\ TypeOK /\ Links /\ HandedOutOnce /\ ClearSwallowsOnlyOverlapping
      /\ \A q \in Procs : Owned(q)
      /\ published \subseteq Cells /\ Control(p) /\ Cursor(p)
  BY Facts DEF IInv
<1>2. Step(p)
  BY DEF Step
<1>3. /\ next' = [next EXCEPT ![w] = next[at[p]]] /\ exp' = [exp EXCEPT ![p] = next[at[p]]]
      /\ pc' = [pc EXCEPT ![p] = "swing"]
      /\ UNCHANGED <<state, used, cells, at, call, ghost>>
      /\ pc[p] = "link"
  BY DEF Link, Goto, work
<1>4. call[p].kind = "insert" /\ cells[p] # <<>> /\ Len(cells[p]) <= 1
  BY <1>1, <1>3 DEF Control, Finished
<1>5. cells[p] \in Seq(Cells) /\ pc \in [Procs -> Labels] /\ next \in [Nodes -> Cells \cup {tail, nil}]
      /\ exp \in [Procs -> Cells \cup {tail, nil}]
  BY <1>1 DEF TypeOK
<1>6. Private(p) = {w}
  BY <1>4, <1>5 DEF Private, Members
<1>7. w \in Cells /\ w \notin published /\ w # head
  BY <1>1, <1>6, Facts DEF Owned
<1> HIDE DEF w
<1>8. next[at[p]] \in published \cup {tail, nil}
  BY <1>1, <1>5 DEF Links, Cursor, Nodes
<1>9. /\ next'[w] = next[at[p]] /\ exp'[p] = next[at[p]]
      /\ \A n \in Nodes : n # w => next'[n] = next[n]
  BY <1>1, <1>3, <1>5, <1>7 DEF Nodes, TypeOK
<1>10. Held' = Held /\ \A q \in Procs : Private(q)' = Private(q)
  BY <1>3 DEF Held, Private, ghost
<1>11. Links'
  BY <1>1, <1>3, <1>7, <1>9, <1>10 DEF Links, ghost, Nodes
<1>12. HandedOutOnce' /\ ClearSwallowsOnlyOverlapping'
  BY <1>1, <1>3, <1>10 DEF HandedOutOnce, ClearSwallowsOnlyOverlapping, ghost
<1>13. ASSUME NEW q \in Procs PROVE Owned(q)'
  <2>1. CASE q = p
    BY <1>1, <1>3, <1>4, <1>6, <1>8, <1>9, <1>10, <2>1 DEF Owned, ghost
  <2>2. CASE q # p
    <3>1. \A x \in Private(q) : x \in Cells /\ x # w
      BY <1>1, <1>6, <2>2, Facts DEF Owned
    <3>2. \A x \in Private(q) : next'[x] = next[x]
      BY <1>9, <3>1 DEF Nodes
    <3>3. pc'[q] = pc[q] /\ exp'[q] = exp[q]
      BY <1>1, <1>2, <2>2, OthersKeep
    <3> QED
      BY <1>1, <1>3, <1>10, <3>2, <3>3 DEF Owned, ghost
  <2> QED
    BY <2>1, <2>2
<1> QED
  BY <1>11, <1>12, <1>13 DEF Shared

\* The linking CAS of Insert and appendChain: the private chain becomes
\* published in the epoch of the node it is linked behind.
LEMMA SwingStep ==
    ASSUME IInv, NEW p \in Procs, Swing(p)
    PROVE  Shared'
<1> DEFINE w == cells[p][1]  n == at[p]
<1>1. /\ TypeOK /\ Links /\ HandedOutOnce /\ ClearSwallowsOnlyOverlapping
      /\ \A q \in Procs : Owned(q) /\ Cursor(q)
      /\ published \subseteq Cells /\ Control(p) /\ published \subseteq 1 .. used
      /\ Held \subseteq 1 .. used
      /\ Private(p) \subseteq 1 .. used /\ 1 .. used \subseteq Cells
  BY Facts DEF IInv
<1>2. Step(p)
  BY DEF Step
<1>3. /\ next[n] = exp[p] /\ next' = [next EXCEPT ![n] = w]
      /\ published' = published \cup Private(p)
      /\ cutAt' = [m \in Nodes |-> IF m \in Private(p) THEN cutAt[n] ELSE cutAt[m]]
      /\ cells' = [cells EXCEPT ![p] = <<>>]
      /\ UNCHANGED <<state, used, at, exp, call, epoch, born, out>>
      /\ pc[p] = "swing"
  BY DEF Swing, Private, local, work
<1>4. cells \in [Procs -> Seq(Cells)] /\ next \in [Nodes -> Cells \cup {tail, nil}]
      /\ cells[p] # <<>> /\ epoch \in Nat /\ cutAt \in [Nodes -> Nat] /\ born \in [Cells -> Nat]
  BY <1>1, <1>3 DEF TypeOK, Control, Finished
<1>5. w \in Private(p)
  BY <1>4, NonEmptySeq DEF Private, Members
<1>6. n \in published \cup {head} /\ n \in Nodes /\ n \notin Private(p)
  <2>1. n \in published \cup {head}
    BY <1>1 DEF Cursor
  <2>2. \A x \in Private(p) : x \in Cells /\ x \notin published
    BY <1>1 DEF Owned
  <2> QED
    BY <1>1, <2>1, <2>2 DEF Nodes
<1> HIDE DEF w, n
<1>7. Private(p)' = {} /\ \A q \in Procs : q # p => Private(q)' = Private(q)
  BY <1>3, <1>4 DEF Private, Members
<1>8. \A x \in Private(p) : /\ x \in Cells /\ x \in Nodes /\ x # nil /\ x # head
                            /\ x \notin published /\ x \notin Held
                            /\ out[x] = 0 /\ state[x] = x
  BY <1>1 DEF Owned, Nodes
<1>9. \A x \in Private(p) : next[x] \in Cells => next[x] \in Private(p) \cup {next[n]}
  BY <1>1, <1>3 DEF Owned
<1>10. /\ \A x \in Private(p) : cutAt'[x] = cutAt[n]
       /\ \A m \in published \cup {head} : cutAt'[m] = cutAt[m]
  BY <1>1, <1>3, <1>8 DEF Nodes
<1>11. next'[n] = w /\ \A m \in Nodes : m # n => next'[m] = next[m]
  BY <1>3, <1>4, <1>6
<1>12. Held' = Held \cup Private(p)
  BY <1>3, <1>8 DEF Held
<1>13. Links'
  <2>1. ASSUME NEW m \in published' \cup {head}, next'[m] \in Cells
        PROVE  next'[m] \in published' /\ cutAt'[next'[m]] = cutAt'[m]
    <3>1. CASE m = n
      BY <1>3, <1>5, <1>6, <1>10, <1>11, <3>1
    <3>2. CASE m \in Private(p)
      <4>1. next'[m] = next[m] /\ next[m] \in Private(p) \cup {next[n]}
        BY <1>6, <1>8, <1>9, <1>11, <2>1, <3>2
      <4>2. CASE next[m] \in Private(p)
        BY <1>3, <1>10, <3>2, <4>1, <4>2
      <4>3. CASE next[m] = next[n]
        <5>1. next[n] \in published /\ cutAt[next[n]] = cutAt[n]
          BY <1>1, <1>6, <2>1, <4>1, <4>3 DEF Links
        <5> QED
          BY <1>3, <1>10, <3>2, <4>1, <4>3, <5>1
      <4> QED
        BY <4>1, <4>2, <4>3
    <3>3. CASE m # n /\ m \in published \cup {head}
      <4>1. next'[m] = next[m]
        BY <1>1, <1>11, <3>3 DEF Nodes
      <4>2. next[m] \in published /\ cutAt[next[m]] = cutAt[m]
        BY <1>1, <2>1, <3>3, <4>1 DEF Links
      <4> QED
        BY <1>3, <1>10, <3>3, <4>1, <4>2
    <3> QED
      BY <1>3, <3>1, <3>2, <3>3
  <2>2. cutAt'[head] = 0 /\ \A m \in published' : cutAt'[m] <= epoch'
    <3>1. cutAt[n] <= epoch
      BY <1>1, <1>4, <1>6 DEF Links
    <3>2. cutAt[head] = 0 /\ \A m \in published : cutAt[m] <= epoch
      BY <1>1 DEF Links
    <3> QED
      BY <1>3, <1>10, <3>1, <3>2
  <2>3. \A x \in Cells : born'[x] <= epoch'
    BY <1>1, <1>3 DEF Links
  <2>4. \A x \in Cells : x > used' => x \notin published' /\ x \notin Held' /\ out'[x] = 0
    BY <1>1, <1>3, <1>12, SMTT(60) DEF Links, TypeOK, Cells
  <2> QED
    BY <2>1, <2>2, <2>3, <2>4 DEF Links
<1>14. HandedOutOnce'
  <2>1. \A x \in Held' : out'[x] = 0
    BY <1>1, <1>3, <1>8, <1>12 DEF HandedOutOnce
  <2>2. \A x \in published' : x \in Held' \/ out'[x] = 1
    BY <1>1, <1>3, <1>12 DEF HandedOutOnce
  <2>3. \A m, k \in published' : state'[m] = state'[k] /\ m # k => state'[m] = nil
    <3>1. \A m \in published : state[m] # nil => state[m] \in Held
      BY DEF Held
    <3> QED
      BY <1>1, <1>3, <1>8, <3>1 DEF HandedOutOnce
  <2> QED
    BY <1>1, <1>3, <2>1, <2>2, <2>3 DEF HandedOutOnce
<1>15. ClearSwallowsOnlyOverlapping'
  <2>1. \A x \in Private(p) : cutAt[n] > 0 => cutAt[n] > born[x]
    BY <1>1 DEF Owned, n
  <2> QED
    BY <1>1, <1>3, <1>10, <2>1 DEF ClearSwallowsOnlyOverlapping
<1>16. ASSUME NEW q \in Procs PROVE Owned(q)'
  <2>1. CASE q = p
    BY <1>7, <2>1 DEF Owned
  <2>2. CASE q # p
    <3>1. Private(q) \cap Private(p) = {} /\ Private(q)' = Private(q)
      BY <1>1, <1>7, <2>2 DEF Owned
    <3>2. \A r \in Procs : r # q => Private(q)' \cap Private(r)' = {}
      BY <1>1, <1>7, <3>1 DEF Owned
    <3>3. pc'[q] = pc[q]
      BY <1>1, <1>2, <2>2, OthersKeep
    <3>4. at[q] \in published \cup {head} /\ cutAt'[at'[q]] = cutAt[at[q]]
      BY <1>1, <1>3, <1>10 DEF Cursor
    <3>5. ASSUME NEW x \in Private(q)
          PROVE  /\ x \notin published' /\ x \notin Held' /\ next'[x] = next[x]
      BY <1>1, <1>3, <1>6, <1>11, <1>12, <3>1, Facts DEF Owned, Nodes
    <3> QED
      BY <1>1, <1>3, <3>1, <3>2, <3>3, <3>4, <3>5 DEF Owned
  <2> QED
    BY <2>1, <2>2
<1> QED
  BY <1>13, <1>14, <1>15, <1>16 DEF Shared

\* The CAS of Clear: everything attached moves to the new epoch as a whole, so
\* links still lead from each node to one of the same epoch.
LEMMA CutStep ==
    ASSUME IInv, NEW p \in Procs, Cut(p)
    PROVE  Shared'
<1>1. /\ TypeOK /\ Links /\ HandedOutOnce /\ ClearSwallowsOnlyOverlapping
      /\ \A q \in Procs : Owned(q) /\ Cursor(q)
      /\ published \subseteq Cells
  BY Facts DEF IInv
<1>2. Step(p)
  BY DEF Step
<1>3. /\ next' = [next EXCEPT ![head] = tail] /\ epoch' = epoch + 1
      /\ cutAt' = [m \in Nodes |-> IF m \in Chain THEN epoch + 1 ELSE cutAt[m]]
      /\ UNCHANGED <<state, used, cells, at, exp, call, published, born, out>>
      /\ pc[p] = "cut" /\ pc'[p] \in {"ok", "new"}
  BY <1>1 DEF Cut, local, work, Goto, TypeOK
<1>4. epoch \in Nat /\ cutAt \in [Nodes -> Nat] /\ born \in [Cells -> Nat]
      /\ next \in [Nodes -> Cells \cup {tail, nil}]
  BY <1>1 DEF TypeOK
<1>5. \A m \in published : cutAt'[m] = IF cutAt[m] = 0 THEN epoch + 1 ELSE cutAt[m]
  BY <1>1, <1>3 DEF Chain, Nodes
<1>6. cutAt'[head] = 0
  BY <1>1, <1>3 DEF Links, Chain, Nodes
<1>7. next'[head] = tail /\ \A m \in Cells : next'[m] = next[m]
  BY <1>3, <1>4 DEF Nodes
<1>8. Held' = Held /\ \A q \in Procs : Private(q)' = Private(q)
  BY <1>3 DEF Held, Private
<1>9. Links'
  <2>1. ASSUME NEW n \in published \cup {head}, next'[n] \in Cells
        PROVE  next'[n] \in published /\ cutAt'[next'[n]] = cutAt'[n]
    <3>1. n # head /\ n \in published /\ next'[n] = next[n]
      BY <1>1, <1>7, <2>1
    <3>2. next[n] \in published /\ cutAt[next[n]] = cutAt[n]
      BY <1>1, <2>1, <3>1 DEF Links
    <3> QED
      BY <1>5, <3>1, <3>2
  <2>2. \A n \in published : cutAt'[n] <= epoch'
    BY <1>1, <1>3, <1>4, <1>5 DEF Links, Nodes
  <2>3. \A x \in Cells : born'[x] <= epoch'
    BY <1>1, <1>3, <1>4 DEF Links
  <2>4. \A x \in Cells : x > used' => x \notin published' /\ x \notin Held' /\ out'[x] = 0
    BY <1>1, <1>3, <1>8 DEF Links
  <2> QED
    BY <1>3, <1>6, <2>1, <2>2, <2>3, <2>4 DEF Links
<1>10. HandedOutOnce'
  BY <1>1, <1>3, <1>8 DEF HandedOutOnce
<1>11. ClearSwallowsOnlyOverlapping'
  BY <1>1, <1>3, <1>4, <1>5 DEF ClearSwallowsOnlyOverlapping, Links
<1>12. ASSUME NEW q \in Procs PROVE Owned(q)'
  <2>1. \A x \in Private(q) : next'[x] = next[x] /\ x \in Cells
    BY <1>1, <1>7, Facts
  <2>2. \A x \in Private(q) : cutAt'[at[q]] > 0 => cutAt'[at[q]] > born[x]
    <3>1. CASE at[q] = head
      BY <1>4, <1>6, <3>1
    <3>2. CASE at[q] \in published
      BY <1>1, <1>4, <1>5, <2>1, <3>2 DEF Owned, Links
    <3> QED
      BY <1>1, <3>1, <3>2 DEF Cursor
  <2>3. CASE q = p
    BY <1>1, <1>3, <1>8, <2>1, <2>2, <2>3, SMTT(60) DEF Owned, Finished
  <2>4. CASE q # p
    <3>1. pc'[q] = pc[q]
      BY <1>1, <1>2, <2>4, OthersKeep
    <3> QED
      BY <1>1, <1>3, <1>8, <2>1, <2>2, <3>1, SMTT(60) DEF Owned
  <2> QED
    BY <2>3, <2>4
<1> QED
  BY <1>9, <1>10, <1>11, <1>12 DEF Shared

-----------------------------------------------------------------------------
\* NewLockFreeListFrom establishes the invariant.
LEMMA InitIInv == Init => IInv
<1> SUFFICES ASSUME Init PROVE IInv
  OBVIOUS
<1> DEFINE N == Len(Initial)
<1>1. N \in Nat /\ N <= MaxCells /\ Initial \in Seq(Values) /\ 1 .. N \subseteq Cells
  BY InitialAssumption DEF Cells
<1>2. TypeOK
  <2> USE DEF Init, Finished
  <2>1. next \in [Nodes -> Cells \cup {tail, nil}]
    <3>1. Initial # <<>> => 1 \in Cells
      BY <1>1, NonEmptySeq DEF Cells
    <3>2. \A k \in Cells : k < N => k + 1 \in Cells
      BY <1>1 DEF Cells
    <3> QED
      BY <3>1, <3>2 DEF Nodes
  <2>2. state \in [Cells -> Cells \cup {nil}]
    OBVIOUS
  <2>3. value \in [Cells -> Values \cup {nil}]
    <3>1. \A k \in Cells : k <= N => Initial[k] \in Values
      BY <1>1 DEF Cells
    <3> QED
      BY <3>1
  <2>4. todo \in [Procs -> SUBSET Calls]
    BY MenuAssumption
  <2>5. seen \in [Procs -> Seq([node : Cells, cell : Cells])]
    <3> DEFINE S == Seq([node : Cells, cell : Cells])
    <3>1. <<>> \in S
      OBVIOUS
    <3> HIDE DEF S
    <3>2. seen \in [Procs -> S]
      BY <3>1
    <3> QED
      BY <3>2 DEF S
  <2>6. /\ used \in 0 .. MaxCells /\ pc \in [Procs -> Labels] /\ call \in [Procs -> Calls \cup {nil}]
        /\ at \in [Procs -> Nodes] /\ last \in [Procs -> Cells \cup {nil}]
        /\ exp \in [Procs -> Cells \cup {tail, nil}] /\ cnt \in [Procs -> Nat]
        /\ cells \in [Procs -> Seq(Cells)] /\ rest \in [Procs -> Seq(Values)]
    BY <1>1 DEF Nodes
  <2>7. /\ published \subseteq Cells /\ cutAt \in [Nodes -> Nat] /\ epoch \in Nat
        /\ born \in [Cells -> Nat] /\ out \in [Cells -> Nat]
    BY <1>1
  <2> QED
    <3> HIDE DEF Init, Finished, Labels
    <3> QED
      BY <2>1, <2>2, <2>3, <2>4, <2>5, <2>6, <2>7, Zenon DEF TypeOK
<1>3. Held = 1 .. N /\ \A k \in published : state[k] = k
  BY <1>1, SMTT(30) DEF Init, Held
<1>4. Links
  <2>1. ASSUME NEW k \in published \cup {head}, next[k] \in Cells
        PROVE  next[k] \in published /\ cutAt[next[k]] = cutAt[k]
    <3>1. next[k] \in 1 .. N
      <4>1. CASE k = head
        BY <1>1, <2>1, <4>1, NonEmptySeq DEF Init, Nodes
      <4>2. CASE k \in 1 .. N
        BY <1>1, <2>1, <4>2 DEF Init, Nodes
      <4> QED
        BY <2>1, <4>1, <4>2 DEF Init
    <3> QED
      BY <1>1, <3>1 DEF Init, Nodes
  <2> QED
    BY <1>1, <1>3, <2>1 DEF Links, Init, Nodes, Cells
<1>5. \A p \in Procs : Control(p) /\ Cursor(p) /\ Owned(p)
  <2>1. \A p \in Procs : Private(p) = {}
    BY DEF Init, Private, Members
  <2> QED
    BY <2>1 DEF Init, Control, Cursor, Owned, Finished
<1>6. HandedOutOnce /\ ClearSwallowsOnlyOverlapping
  <2>1. /\ published = 1 .. N /\ \A x \in Cells : out[x] = 0
        /\ \A m \in published : cutAt[m] = 0
    BY <1>1 DEF Init, Nodes
  <2> QED
    BY <1>1, <1>3, <2>1 DEF HandedOutOnce, ClearSwallowsOnlyOverlapping
<1> QED
  BY <1>2, <1>4, <1>5, <1>6 DEF IInv

\* Every step of every goroutine keeps the invariant.
LEMMA StepIInv ==
    ASSUME IInv, NEW p \in Procs, Step(p)
    PROVE  IInv'
<1>1. Shared'
  BY TakeStep, SwapStep, NewStep, LinkStep, SwingStep, CutStep, QuietStep
<1> QED
  BY <1>1, TypeStep, ControlStep, CursorStep DEF IInv, Shared

\* The invariant is inductive.
LEMMA NextIInv == IInv /\ [Next]_vars => IInv'
<1> SUFFICES ASSUME IInv, [Next]_vars PROVE IInv'
  OBVIOUS
<1>1. CASE \E p \in Procs : Step(p)
  BY <1>1, StepIInv
<1>2. CASE UNCHANGED vars
  <2> USE <1>2 DEF vars, heap, local, work, ghost
  <2>1. TypeOK'
    BY DEF IInv, TypeOK
  <2>2. Held' = Held /\ \A p \in Procs : Private(p)' = Private(p) /\ ToAdd(p)' = ToAdd(p)
    BY DEF Held, Private, ToAdd
  <2>3. Links'
    BY <2>2 DEF IInv, Links
  <2>4. \A p \in Procs : Control(p)'
    BY <2>2 DEF IInv, Control
  <2>5. \A p \in Procs : Cursor(p)' /\ Owned(p)'
    BY <2>2 DEF IInv, Cursor, Owned
  <2>6. HandedOutOnce' /\ ClearSwallowsOnlyOverlapping'
    BY <2>2 DEF IInv, HandedOutOnce, ClearSwallowsOnlyOverlapping
  <2> QED
    BY <2>1, <2>3, <2>4, <2>5, <2>6 DEF IInv
<1> QED
  BY <1>1, <1>2 DEF Next, Terminated

\* The inductive invariant holds in every behaviour, for any number of
\* goroutines, any calls and any number of cells.
THEOREM Invariant == Spec => []IInv
<1>1. Init => IInv
  BY InitIInv
<1>2. IInv /\ [Next]_vars => IInv'
  BY NextIInv
<1> QED
  BY <1>1, <1>2, PTL DEF Spec

\* The types of the variables, in every behaviour of lockFreeList.
THEOREM TypeCorrect == Spec => []TypeOK
<1>1. IInv => TypeOK
  BY DEF IInv
<1> QED
  BY <1>1, Invariant, PTL

\* Two removals, or a removal and a Set, that race on one element never both
\* return it, and no element leaves the list without being returned, unless a
\* Clear detached it.
THEOREM NoElementTwice == Spec => []HandedOutOnce
<1>1. IInv => HandedOutOnce
  BY DEF IInv
<1> QED
  BY <1>1, Invariant, PTL

\* A Clear removes elements of insertions that began before it, or of
\* insertions it overlaps, and no later one's.
THEOREM NoLaterElementSwallowed == Spec => []ClearSwallowsOnlyOverlapping
<1>1. IInv => ClearSwallowsOnlyOverlapping
  BY DEF IInv
<1> QED
  BY <1>1, Invariant, PTL

-----------------------------------------------------------------------------
(***************************************************************************)
(* ChainSound: the chain as a sequence.  A linking CAS splices a strung    *)
(* private chain into it, or works on detached nodes; a Clear empties it;  *)
(* nothing else changes it.                                                *)
(***************************************************************************)
\* No step of p rewrites the pointer of a cell another goroutine owns.
LEMMA NextOfOthers ==
    ASSUME IInv, NEW p \in Procs, Step(p), NEW q \in Procs, q # p, NEW x \in Private(q)
    PROVE  next'[x] = next[x]
<1>1. /\ TypeOK /\ x \in 1 .. used /\ x \in Cells /\ x \in Nodes /\ x # head /\ x \notin published
      /\ x \notin Private(p) /\ at[p] \in published \cup {head}
  BY Facts DEF Owned, Cursor, Nodes
<1>2. next \in [Nodes -> Cells \cup {tail, nil}] /\ cells \in [Procs -> Seq(Cells)]
  BY <1>1 DEF TypeOK
<1>3. CASE New(p)
  BY <1>1, <1>3, NewFacts
<1>4. CASE Take(p)
  BY <1>4 DEF Take
<1>5. CASE Swap(p)
  BY <1>5 DEF Swap
<1>6. CASE Link(p)
  <2>1. cells[p] # <<>>
    BY <1>6, Facts DEF Link, Control, Finished
  <2>2. x # cells[p][1]
    BY <1>1, <1>2, <2>1, NonEmptySeq DEF Private, Members
  <2> QED
    BY <1>1, <1>2, <1>6, <2>2 DEF Link
<1>7. CASE Swing(p)
  BY <1>1, <1>2, <1>7 DEF Swing
<1>8. CASE Cut(p)
  BY <1>1, <1>2, <1>8 DEF Cut
<1>9. CASE UNCHANGED <<heap, ghost>>
  BY <1>9 DEF heap
<1> QED
  BY <1>3, <1>4, <1>5, <1>6, <1>7, <1>8, <1>9, Writers

\* The actions that touch no pointer and no private chain, AtEnd apart.
Idling(p) ==
    /\ UNCHANGED <<next, cells, call>>
    /\ pc[p] \notin Finished /\ pc'[p] # "swing"

\* Every action is one of these or idles.
LEMMA IdlingSteps ==
    ASSUME TypeOK, NEW p \in Procs, Step(p)
    PROVE  \/ Call(p) \/ New(p) \/ AtEnd(p) \/ Swap(p) \/ Link(p) \/ Swing(p) \/ Cut(p)
           \/ Idling(p)
<1> USE DEF Goto, Finished, heap, work, Idling, TypeOK
<1>1. Advance(p) => Idling(p)
  BY DEF Advance
<1>2. NotFound(p) => Idling(p)
  BY DEF NotFound, Exhausted
<1>3. SweptAll(p) => Idling(p)
  BY DEF SweptAll, Exhausted
<1>4. PickLast(p) => Idling(p)
  BY DEF PickLast, Exhausted
<1>5. SkipDeleted(p) => Idling(p)
  BY DEF SkipDeleted
<1>6. Pass(p) => Idling(p)
  BY DEF Pass
<1>7. Select(p) => Idling(p)
  BY DEF Select
<1>8. Take(p) => Idling(p)
  BY DEF Take
<1>9. TakeFails(p) => Idling(p)
  BY DEF TakeFails
<1>10. TakeRestarts(p) => Idling(p)
  BY DEF TakeRestarts
<1>11. SwapFails(p) => Idling(p)
  BY DEF SwapFails
<1>12. Reload(p) => Idling(p)
  BY DEF Reload
<1>13. SetRestarts(p) => Idling(p)
  BY DEF SetRestarts
<1>14. SwingFails(p) => Idling(p)
  BY DEF SwingFails
<1>15. ClearLoad(p) => Idling(p)
  BY DEF ClearLoad
<1>16. CutFails(p) => Idling(p)
  BY DEF CutFails
<1> QED
  BY <1>1, <1>2, <1>3, <1>4, <1>5, <1>6, <1>7, <1>8, <1>9, <1>10, <1>11, <1>12, <1>13,
     <1>14, <1>15, <1>16 DEF Step

\* New strings its cells in the order it numbers them.
LEMMA NewIsStrung ==
    ASSUME IInv, NEW p \in Procs, New(p)
    PROVE  Strung(p)'
<1>1. TypeOK /\ used \in Nat /\ 1 .. used \subseteq Cells
  BY Facts
<1>2. PICK vs \in Batch(p) :
        /\ used + Len(vs) <= MaxCells
        /\ next' = [n \in Nodes |-> IF n \notin used + 1 .. used + Len(vs) THEN next[n]
                                    ELSE IF n < used + Len(vs) THEN n + 1
                                    ELSE IF call[p].kind \in {"insert", "set"} THEN nil
                                    ELSE tail]
        /\ cells' = [cells EXCEPT ![p] = [i \in DOMAIN vs |-> used + i]]
  BY DEF New
<1>3. \E S : vs \in Seq(S)
  BY <1>1, <1>2, BatchIsSeq
<1>4. Len(vs) \in Nat /\ DOMAIN vs = 1 .. Len(vs)
  BY <1>3
<1>5. cells'[p] = [i \in 1 .. Len(vs) |-> used + i]
  BY <1>1, <1>2, <1>4 DEF TypeOK
<1>6. Len(cells'[p]) = Len(vs) /\ DOMAIN cells'[p] = 1 .. Len(vs)
  BY <1>4, <1>5
<1>7. /\ pc'[p] \in {"link", "walk"} /\ call'[p] = call[p]
      /\ call[p].kind \in Adders
  <2>1. pc[p] = "new" /\ call' = call
    BY DEF New, work
  <2>2. pc'[p] \in {"link", "walk"}
    BY <1>1 DEF New, Goto, TypeOK
  <2>3. Control(p)
    BY DEF IInv
  <2> QED
    BY <2>1, <2>2, <2>3 DEF Control, Finished
<1>8. \A i \in 1 .. Len(vs) : /\ cells'[p][i] = used + i
                              /\ used + i \in Nodes /\ used + i \in used + 1 .. used + Len(vs)
  BY <1>1, <1>2, <1>4, <1>5 DEF Nodes, Cells
<1>9. \A i, j \in 1 .. Len(vs) : cells'[p][i] = cells'[p][j] => i = j
  BY <1>1, <1>4, <1>8
<1>10. \A i \in 1 .. Len(vs) : i < Len(vs) => next'[cells'[p][i]] = cells'[p][i + 1]
  BY <1>1, <1>2, <1>4, <1>8
<1>11. Appending(p)' => next'[cells'[p][Len(vs)]] = tail
  <2>1. SUFFICES ASSUME Appending(p)' PROVE next'[cells'[p][Len(vs)]] = tail
    OBVIOUS
  <2>2. Len(vs) \in 1 .. Len(vs) /\ call[p].kind \notin {"insert", "set"}
    BY <1>4, <1>5, <1>7, <2>1 DEF Appending
  <2>3. cells'[p][Len(vs)] = used + Len(vs) /\ ~(used + Len(vs) < used + Len(vs))
    BY <1>1, <1>4, <1>8, <2>2
  <2> QED
    BY <1>1, <1>2, <1>4, <1>8, <2>2, <2>3
<1> QED
  BY <1>6, <1>7, <1>9, <1>10, <1>11 DEF Strung

\* Private chains stay strung.
LEMMA StrungStep ==
    ASSUME IInv, \A q \in Procs : Strung(q), NEW p \in Procs, Step(p)
    PROVE  \A q \in Procs : Strung(q)'
<1>1. /\ TypeOK /\ Control(p) /\ Cursor(p) /\ Owned(p)
      /\ cells \in [Procs -> Seq(Cells)] /\ next \in [Nodes -> Cells \cup {tail, nil}]
      /\ exp \in [Procs -> Cells \cup {tail, nil}]
  BY Facts DEF TypeOK
<1>2. ASSUME NEW q \in Procs, q # p PROVE Strung(q)'
  <2>1. /\ cells'[q] = cells[q] /\ pc'[q] = pc[q] /\ exp'[q] = exp[q] /\ call'[q] = call[q]
    BY <1>1, <1>2, OthersKeep
  <2>2. cells[q] \in Seq(Cells) /\ DOMAIN cells[q] = 1 .. Len(cells[q]) /\ Len(cells[q]) \in Nat
    BY <1>1
  <2>3. \A i \in DOMAIN cells[q] : next'[cells[q][i]] = next[cells[q][i]]
    BY <1>2, NextOfOthers DEF Private, Members
  <2>4. cells[q] # <<>> => Len(cells[q]) \in DOMAIN cells[q]
    BY <2>2
  <2>5. pc[q] = "swing" => cells[q] # <<>>
    BY Facts DEF Control, Finished
  <2>6. pc[q] \notin Finished /\ Appending(q) => cells[q] # <<>>
    BY DEF Appending
  <2> QED
    BY <2>1, <2>3, <2>4, <2>5, <2>6 DEF Strung, Appending
<1> SUFFICES Strung(p)'
  BY <1>2
<1>3. CASE Call(p)
  <2>1. cells'[p] = <<>> /\ pc'[p] # "swing"
    BY <1>1, <1>3 DEF Call, Goto, FirstStep, TypeOK
  <2> QED
    BY <2>1 DEF Strung, Appending
<1>4. CASE New(p)
  BY <1>4, NewIsStrung
<1>5. CASE AtEnd(p)
  <2>1. /\ UNCHANGED <<next, cells, call>> /\ exp'[p] = tail /\ Appending(p) /\ pc[p] \notin Finished
    BY <1>1, <1>5 DEF AtEnd, heap, work, Exhausted, Finished
  <2> QED
    BY <2>1 DEF Strung, Appending
<1>6. CASE Swap(p) \/ Swing(p)
  <2>1. cells'[p] = <<>> /\ pc'[p] # "swing"
    BY <1>1, <1>6 DEF Swap, Swing, Goto, TypeOK
  <2> QED
    BY <2>1 DEF Strung, Appending
<1>7. CASE Link(p)
  <2>1. /\ call[p].kind = "insert" /\ Len(cells[p]) <= 1 /\ cells[p] # <<>>
        /\ cells'[p] = cells[p] /\ call'[p] = call[p] /\ exp'[p] = next[at[p]]
        /\ next' = [next EXCEPT ![cells[p][1]] = next[at[p]]]
    BY <1>1, <1>7 DEF Link, Control, Finished, work
  <2>2. Len(cells[p]) = 1 /\ DOMAIN cells[p] = {1} /\ cells[p][1] \in Nodes
    <3>1. Len(cells[p]) \in Nat /\ 1 \in DOMAIN cells[p] /\ cells[p][1] \in Cells
      BY <1>1, <2>1, NonEmptySeq
    <3>2. DOMAIN cells[p] = 1 .. Len(cells[p])
      BY <1>1
    <3> DEFINE len == Len(cells[p])
    <3>3. len \in Nat /\ len <= 1 /\ 1 \in 1 .. len
      BY <2>1, <3>1, <3>2
    <3> HIDE DEF len
    <3>4. len = 1
      BY <3>3
    <3> USE DEF len
    <3> QED
      BY <3>1, <3>2, <3>4 DEF Nodes
  <2>3. next'[cells[p][1]] = exp'[p]
    BY <1>1, <2>1, <2>2
  <2> QED
    BY <2>1, <2>2, <2>3 DEF Strung, Appending
<1>8. CASE Cut(p)
  <2>1. /\ cells' = cells /\ call' = call /\ pc'[p] # "swing" /\ pc[p] \notin Finished
        /\ next' = [next EXCEPT ![head] = tail]
    BY <1>1, <1>8 DEF Cut, Goto, TypeOK, work, Finished
  <2>2. \A i \in DOMAIN cells[p] : next'[cells[p][i]] = next[cells[p][i]]
    BY <1>1, <2>1 DEF Nodes
  <2>3. cells[p] # <<>> => Len(cells[p]) \in DOMAIN cells[p]
    BY <1>1
  <2> QED
    BY <2>1, <2>2, <2>3 DEF Strung, Appending
<1>9. CASE Idling(p)
  BY <1>9 DEF Idling, Strung, Appending
<1> QED
  BY <1>1, <1>3, <1>4, <1>5, <1>6, <1>7, <1>8, <1>9, IdlingSteps

-----------------------------------------------------------------------------
\* Splicing a sequence into another behind its first j elements.
Splice(s, j, c) ==
    [i \in 1 .. Len(s) + Len(c) |->
        IF i <= j THEN s[i] ELSE IF i <= j + Len(c) THEN c[i - j] ELSE s[i - Len(c)]]

\* Splicing without repetition: what the new sequence holds, and who follows whom.
LEMMA SpliceFacts ==
    ASSUME NEW S, NEW s \in Seq(S), NEW c \in Seq(S), NEW j \in 0 .. Len(s), c # <<>>,
           \A i, k \in DOMAIN s : s[i] = s[k] => i = k,
           \A i, k \in DOMAIN c : c[i] = c[k] => i = k,
           Members(s) \cap Members(c) = {}
    PROVE  LET t == Splice(s, j, c) IN
           /\ t \in Seq(S) /\ Len(t) = Len(s) + Len(c) /\ DOMAIN t = 1 .. Len(s) + Len(c)
           /\ Members(t) = Members(s) \cup Members(c)
           /\ \A i, k \in DOMAIN t : t[i] = t[k] => i = k
           /\ \A i \in 0 .. Len(t) : Follows(t, i) = IF i < j THEN Follows(s, i)
                                                   ELSE IF i < j + Len(c) THEN c[i - j + 1]
                                                   ELSE Follows(s, i - Len(c))
           /\ \A i \in 1 .. j : t[i] = s[i]
           /\ \A i \in 1 .. Len(c) : t[j + i] = c[i]
           /\ \A i \in j + 1 .. Len(s) : t[i + Len(c)] = s[i]
<1> DEFINE t == Splice(s, j, c)
<1>1. /\ Len(s) \in Nat /\ DOMAIN s = 1 .. Len(s) /\ Len(c) \in Nat /\ DOMAIN c = 1 .. Len(c)
      /\ Len(c) > 0 /\ j \in Nat /\ j <= Len(s)
  OBVIOUS
<1>2. t \in Seq(S) /\ Len(t) = Len(s) + Len(c) /\ DOMAIN t = 1 .. Len(s) + Len(c)
  <2>1. \A i \in 1 .. Len(s) + Len(c) : t[i] \in S
    BY <1>1 DEF Splice
  <2> QED
    BY <1>1, <2>1 DEF Splice
<1>3. \A i \in 1 .. j : t[i] = s[i]
  BY <1>1 DEF Splice
<1>4. \A i \in 1 .. Len(c) : t[j + i] = c[i]
  BY <1>1 DEF Splice
<1>5. \A i \in j + 1 .. Len(s) : t[i + Len(c)] = s[i]
  BY <1>1 DEF Splice
<1>6. \A i \in DOMAIN t : /\ i <= j => t[i] = s[i] /\ i \in DOMAIN s
                          /\ i > j /\ i <= j + Len(c) => t[i] = c[i - j] /\ i - j \in DOMAIN c
                          /\ i > j + Len(c) => t[i] = s[i - Len(c)] /\ i - Len(c) \in DOMAIN s
  BY <1>1 DEF Splice
<1>7. DOMAIN t \subseteq Nat
  BY <1>1, <1>2
<1> HIDE DEF t
<1>8. Members(t) = Members(s) \cup Members(c)
  <2>1. ASSUME NEW i \in DOMAIN t PROVE t[i] \in Members(s) \cup Members(c)
    BY <1>1, <1>6, <1>7 DEF Members
  <2>2. ASSUME NEW i \in DOMAIN s PROVE s[i] \in Members(t)
    <3>1. CASE i <= j
      BY <1>1, <1>2, <1>3, <3>1 DEF Members
    <3>2. CASE i > j
      <4>1. i \in j + 1 .. Len(s) /\ i + Len(c) \in DOMAIN t
        BY <1>1, <1>2, <3>2
      <4> QED
        BY <1>5, <4>1 DEF Members
    <3> QED
      BY <1>1, <3>1, <3>2
  <2>3. ASSUME NEW i \in DOMAIN c PROVE c[i] \in Members(t)
    <3>1. j + i \in DOMAIN t /\ t[j + i] = c[i]
      BY <1>1, <1>2, <1>4
    <3> QED
      BY <3>1 DEF Members
  <2> QED
    BY <2>1, <2>2, <2>3 DEF Members
<1>9. ASSUME NEW i \in DOMAIN t, NEW k \in DOMAIN t, t[i] = t[k] PROVE i = k
  <2> DEFINE InC(x) == x > j /\ x <= j + Len(c)
             Place(x) == IF x <= j THEN x ELSE x - Len(c)
  <2>1. i \in Nat /\ k \in Nat
    BY <1>7
  <2>2. \A x \in DOMAIN t : ~InC(x) => t[x] = s[Place(x)] /\ Place(x) \in DOMAIN s
    BY <1>1, <1>6, <1>7
  <2>3. \A x \in DOMAIN t : InC(x) => t[x] \in Members(c)
    BY <1>6, <1>7 DEF Members
  <2>4. \A x \in DOMAIN t : ~InC(x) => t[x] \in Members(s)
    BY <2>2 DEF Members
  <2>5. InC(i) <=> InC(k)
    BY <1>9, <2>3, <2>4
  <2>6. CASE InC(i)
    <3>1. i - j \in DOMAIN c /\ k - j \in DOMAIN c /\ c[i - j] = c[k - j]
      BY <1>6, <1>9, <2>5, <2>6
    <3>2. i - j = k - j
      BY <3>1
    <3> QED
      BY <1>1, <2>1, <3>2
  <2>7. CASE ~InC(i)
    <3>1. Place(i) \in DOMAIN s /\ Place(k) \in DOMAIN s /\ s[Place(i)] = s[Place(k)]
      BY <1>9, <2>2, <2>5, <2>7
    <3>2. Place(i) = Place(k)
      BY <3>1
    <3> QED
      BY <1>1, <2>1, <2>5, <2>7, <3>2
  <2> QED
    BY <2>6, <2>7
<1>10. ASSUME NEW i \in 0 .. Len(t)
       PROVE  Follows(t, i) = IF i < j THEN Follows(s, i)
                              ELSE IF i < j + Len(c) THEN c[i - j + 1]
                              ELSE Follows(s, i - Len(c))
  <2>1. i \in Nat /\ i <= Len(t)
    BY <1>1, <1>2
  <2>2. CASE i < j
    <3>1. i + 1 \in 1 .. j
      BY <1>1, <2>1, <2>2
    <3> QED
      BY <1>1, <1>2, <1>3, <2>1, <2>2, <3>1 DEF Follows
  <2>3. CASE ~(i < j) /\ i < j + Len(c)
    <3>1. i - j + 1 \in 1 .. Len(c) /\ j + (i - j + 1) = i + 1
      BY <1>1, <2>1, <2>3
    <3>2. t[i + 1] = c[i - j + 1]
      BY <1>4, <3>1
    <3> QED
      BY <1>1, <1>2, <2>1, <2>3, <3>2 DEF Follows
  <2>4. CASE ~(i < j + Len(c))
    <3>1. CASE i = Len(t)
      BY <1>1, <1>2, <2>1, <2>4, <3>1 DEF Follows
    <3>2. CASE i # Len(t)
      <4>1. /\ (i + 1) - Len(c) \in j + 1 .. Len(s) /\ ((i + 1) - Len(c)) + Len(c) = i + 1
            /\ (i + 1) - Len(c) = (i - Len(c)) + 1
        <5> DEFINE m == Len(c)  l == Len(s)  k == Len(t)
        <5>1. k = l + m /\ i # k
          BY <1>2, <3>2
        <5>2. m \in Nat /\ l \in Nat /\ i <= k /\ ~(i < j + m) /\ j \in Nat /\ i \in Nat
          BY <1>1, <2>1, <2>4
        <5> HIDE DEF m, l, k
        <5>3. (i + 1) - m \in j + 1 .. l /\ ((i + 1) - m) + m = i + 1 /\ (i + 1) - m = (i - m) + 1
          BY <5>1, <5>2
        <5> QED
          BY <5>3 DEF m, l
      <4>2. t[i + 1] = s[(i + 1) - Len(c)]
        BY <1>5, <4>1
      <4> QED
        BY <1>1, <1>2, <2>1, <2>4, <3>2, <4>1, <4>2 DEF Follows
    <3> QED
      BY <3>1, <3>2
  <2> QED
    BY <1>1, <2>1, <2>2, <2>3, <2>4
<1> QED
  BY <1>2, <1>3, <1>4, <1>5, <1>8, <1>9, <1>10 DEF t

\* The linking CAS splices the private chain into the list behind the cursor,
\* or leaves the list alone when a Clear has detached the cursor's node.
LEMMA SwingOrders ==
    ASSUME IInv, NEW s \in Seq(Cells), Lists(s), NEW p \in Procs, Strung(p), Swing(p)
    PROVE  IF cutAt[at[p]] # 0
           THEN Lists(s)'
           ELSE \E j \in 0 .. Len(s), t \in Seq(Cells) :
                  /\ t = Splice(s, j, cells[p])
                  /\ exp[p] = Follows(s, j)
                  /\ Lists(t)'
<1> DEFINE c == cells[p]  n == at[p]
<1>1. /\ TypeOK /\ Links /\ Control(p) /\ Cursor(p) /\ Owned(p)
      /\ published \subseteq Cells
  BY Facts DEF IInv
<1>2. /\ next[n] = exp[p] /\ next' = [next EXCEPT ![n] = c[1]]
      /\ published' = published \cup Members(c)
      /\ cutAt' = [m \in Nodes |-> IF m \in Members(c) THEN cutAt[n] ELSE cutAt[m]]
      /\ pc[p] = "swing"
  BY DEF Swing
<1>3. c \in Seq(Cells) /\ next \in [Nodes -> Cells \cup {tail, nil}] /\ c # <<>>
      /\ cutAt \in [Nodes -> Nat]
  BY <1>1, <1>2 DEF TypeOK, Control, Finished
<1>4. n \in published \cup {head} /\ n \in Nodes /\ head \in Nodes /\ head \notin Cells
  BY <1>1 DEF Cursor, Nodes
<1>5. \A x \in Members(c) : x \in Cells /\ x \in Nodes /\ x \notin published /\ x # head
  BY <1>1, Facts DEF Owned, Private, Nodes
<1>6. /\ \A i, j \in DOMAIN c : c[i] = c[j] => i = j
      /\ \A i \in DOMAIN c : i < Len(c) => next[c[i]] = c[i + 1]
      /\ next[c[Len(c)]] = exp[p]
  BY <1>2 DEF Strung
<1>7. /\ Len(s) \in Nat /\ DOMAIN s = 1 .. Len(s) /\ Len(c) \in Nat /\ DOMAIN c = 1 .. Len(c)
      /\ Len(c) > 0
  BY <1>3
<1> HIDE DEF c, n
<1>8. /\ Members(s) = Chain /\ next[head] = Follows(s, 0)
      /\ \A i, j \in DOMAIN s : s[i] = s[j] => i = j
      /\ \A i \in DOMAIN s : next[s[i]] = Follows(s, i)
  BY DEF Lists
<1>9. \A i \in DOMAIN s : s[i] \in published /\ s[i] \in Nodes /\ s[i] # head /\ cutAt[s[i]] = 0
  BY <1>1, <1>4, <1>8 DEF Members, Chain, Nodes
<1>10. \A i \in DOMAIN c : c[i] \in Members(c)
  BY DEF Members
<1>11. next'[n] = c[1] /\ \A m \in Nodes : m # n => next'[m] = next[m]
  BY <1>2, <1>3, <1>4
<1>12. \A m \in published : cutAt'[m] = cutAt[m]
  BY <1>1, <1>2, <1>5 DEF Nodes
<1>13. CASE cutAt[n] # 0
  <2>1. Chain' = Chain
    BY <1>2, <1>5, <1>12, <1>13 DEF Chain
  <2>2. n # head /\ \A i \in DOMAIN s : s[i] # n
    BY <1>1, <1>9, <1>13 DEF Links
  <2>3. next'[head] = next[head] /\ \A i \in DOMAIN s : next'[s[i]] = next[s[i]]
    BY <1>4, <1>9, <1>11, <2>2
  <2>4. Lists(s)'
    BY <1>8, <2>1, <2>3 DEF Lists, Follows
  <2> QED
    BY <1>13, <2>4 DEF n
<1>14. CASE cutAt[n] = 0
  <2>1. PICK j \in 0 .. Len(s) : n = IF j = 0 THEN head ELSE s[j]
    <3>1. CASE n = head
      BY <1>7, <3>1
    <3>2. CASE n # head
      <4>1. PICK j \in DOMAIN s : n = s[j]
        BY <1>4, <1>8, <1>14, <3>2 DEF Chain, Members
      <4>2. j \in 0 .. Len(s) /\ j # 0
        BY <1>7
      <4> QED
        BY <4>1, <4>2
    <3> QED
      BY <3>1, <3>2
  <2>2. Members(s) \cap Members(c) = {}
    BY <1>5, <1>8 DEF Chain
  <2>9. Splice(s, j, c) \in Seq(Cells)
    BY <1>3, <1>6, <1>8, <2>2, SpliceFacts, SMTT(30)
  <2> PICK t \in Seq(Cells) : t = Splice(s, j, c)
    BY <2>9
  <2>3. /\ t \in Seq(Cells) /\ Len(t) = Len(s) + Len(c) /\ DOMAIN t = 1 .. Len(s) + Len(c)
        /\ Members(t) = Members(s) \cup Members(c)
        /\ \A i, k \in DOMAIN t : t[i] = t[k] => i = k
        /\ \A i \in 0 .. Len(t) : Follows(t, i) = IF i < j THEN Follows(s, i)
                                                ELSE IF i < j + Len(c) THEN c[i - j + 1]
                                                ELSE Follows(s, i - Len(c))
        /\ \A i \in 1 .. j : t[i] = s[i]
        /\ \A i \in 1 .. Len(c) : t[j + i] = c[i]
        /\ \A i \in j + 1 .. Len(s) : t[i + Len(c)] = s[i]
    BY <1>3, <1>6, <1>8, <2>2, SpliceFacts, SMTT(30)
  <2>4. Members(t) = Chain'
    <3>1. Chain' = Chain \cup Members(c)
      BY <1>2, <1>5, <1>8, <1>12, <1>14 DEF Chain
    <3> QED
      BY <1>8, <2>3, <3>1 DEF Lists
  <2>5. exp[p] = Follows(s, j)
    BY <1>2, <1>7, <1>8, <2>1
  <2>6. next'[head] = Follows(t, 0)
    <3>1. 0 \in 0 .. Len(t) /\ Len(t) \in Nat
      BY <1>7, <2>3
    <3>2. CASE j = 0
      <4>1. Follows(t, 0) = c[1]
        BY <1>7, <2>3, <3>1, <3>2
      <4> QED
        BY <1>11, <2>1, <3>2, <4>1
    <3>3. CASE j # 0
      <4>1. Follows(t, 0) = Follows(s, 0)
        BY <1>7, <2>1, <2>3, <3>1, <3>3
      <4>2. n # head
        BY <1>7, <1>9, <2>1, <3>3
      <4> QED
        BY <1>4, <1>8, <1>11, <4>1, <4>2
    <3> QED
      BY <3>2, <3>3
  <2>7. ASSUME NEW i \in DOMAIN t PROVE next'[t[i]] = Follows(t, i)
    <3>1. i \in Nat /\ i >= 1 /\ i <= Len(s) + Len(c) /\ i \in 0 .. Len(t)
      BY <1>7, <2>3
    <3>2. CASE i < j
      <4>1. i \in DOMAIN s /\ i \in 1 .. j /\ j \in DOMAIN s /\ i # j
        BY <1>7, <3>1, <3>2
      <4>2. t[i] = s[i] /\ s[i] # n /\ s[i] \in Nodes
        BY <1>8, <1>9, <2>1, <2>3, <4>1
      <4> QED
        BY <1>8, <1>11, <2>3, <3>1, <3>2, <4>1, <4>2
    <3>3. CASE i = j
      <4>1. j # 0 /\ i \in 1 .. j /\ i < j + Len(c) /\ i - j + 1 = 1
        BY <1>7, <3>1, <3>3
      <4>2. t[i] = n /\ Follows(t, i) = c[1]
        <5>1. ~(i < j)
          BY <3>1, <3>3
        <5>2. Follows(t, i) = c[i - j + 1]
          BY <2>3, <3>1, <4>1, <5>1
        <5> QED
          BY <2>1, <2>3, <3>3, <4>1, <5>2
      <4> QED
        BY <1>11, <4>2
    <3>4. CASE j < i /\ i <= j + Len(c)
      <4>1. i - j \in 1 .. Len(c) /\ j + (i - j) = i
        BY <1>7, <3>1, <3>4
      <4>2. t[i] = c[i - j]
        BY <2>3, <4>1
      <4>3. c[i - j] \in Nodes /\ c[i - j] # n
        BY <1>4, <1>5, <1>7, <1>10, <4>1
      <4>4. next'[t[i]] = next[c[i - j]]
        BY <1>11, <4>2, <4>3
      <4>5. CASE i < j + Len(c)
        <5>1. i - j < Len(c) /\ ~(i < j)
          BY <1>7, <3>1, <3>4, <4>5
        <5>2. next[c[i - j]] = c[(i - j) + 1]
          BY <1>6, <1>7, <4>1, <5>1
        <5> QED
          BY <2>3, <3>1, <4>4, <4>5, <5>1, <5>2
      <4>6. CASE i = j + Len(c)
        <5>1. i - j = Len(c) /\ i - Len(c) = j /\ ~(i < j) /\ ~(i < j + Len(c))
          BY <1>7, <3>1, <3>4, <4>6
        <5> QED
          <6>1. Follows(t, i) = Follows(s, j)
            BY <2>3, <3>1, <5>1
          <6>2. next'[t[i]] = exp[p]
            BY <1>6, <4>4, <5>1
          <6> QED
            BY <2>5, <6>1, <6>2
      <4> QED
        BY <1>7, <3>1, <3>4, <4>5, <4>6
    <3>5. CASE i > j + Len(c)
      <4>1. /\ i - Len(c) \in j + 1 .. Len(s) /\ (i - Len(c)) + Len(c) = i
            /\ i - Len(c) \in DOMAIN s /\ i - Len(c) # j /\ ~(i < j) /\ ~(i < j + Len(c))
        BY <1>7, <3>1, <3>5
      <4>2. t[i] = s[i - Len(c)] /\ Follows(t, i) = Follows(s, i - Len(c))
        BY <2>3, <3>1, <4>1
      <4>3. s[i - Len(c)] # n
        <5>1. CASE j = 0
          BY <1>9, <2>1, <4>1, <5>1
        <5>2. CASE j # 0
          BY <1>7, <1>8, <2>1, <4>1, <5>2, SMTT(60)
        <5> QED
          BY <5>1, <5>2
      <4> QED
        BY <1>8, <1>9, <1>11, <4>1, <4>2, <4>3, SMTT(60)
    <3> QED
      BY <1>7, <3>1, <3>2, <3>3, <3>4, <3>5
  <2>8. Lists(t)'
    BY <2>3, <2>4, <2>6, <2>7 DEF Lists, Follows
  <2> QED
    BY <1>14, <2>3, <2>5, <2>8 DEF c, n
<1> QED
  BY <1>13, <1>14

\* Init lists the initial elements in their order.
LEMMA InitOrdered == Init => Ordered
<1> SUFFICES ASSUME Init PROVE Ordered
  OBVIOUS
<1> DEFINE N == Len(Initial)
<1>1. N \in Nat /\ N <= MaxCells /\ Initial \in Seq(Values) /\ 1 .. N \subseteq Cells
      /\ (Initial = <<>> <=> N = 0)
  BY InitialAssumption DEF Cells
<1>2. ASSUME NEW p \in Procs PROVE Strung(p)
  <2>1. cells[p] = <<>> /\ pc[p] = "idle"
    BY DEF Init
  <2> QED
    BY <2>1 DEF Strung, Appending
<1>10. [i \in 1 .. N |-> i] \in Seq(Cells)
  BY <1>1
<1>3. PICK s \in Seq(Cells) : s = [i \in 1 .. N |-> i]
  BY <1>10
<1>4. /\ published = 1 .. N /\ \A n \in Nodes : cutAt[n] = 0
      /\ next = [n \in Nodes |-> IF n = head THEN IF Initial = <<>> THEN tail ELSE 1
                                 ELSE IF n < N THEN n + 1
                                 ELSE IF n = N THEN tail ELSE nil]
  BY DEF Init
<1> HIDE DEF N
<1>5. DOMAIN s = 1 .. N /\ Len(s) = N /\ \A i \in 1 .. N : s[i] = i /\ i \in Nodes /\ i # head
  BY <1>1, <1>3 DEF Nodes
<1>6. Members(s) = Chain
  BY <1>4, <1>5 DEF Members, Chain
<1>7. next[head] = Follows(s, 0)
  BY <1>1, <1>4, <1>5 DEF Follows, Nodes
<1>8. \A i \in DOMAIN s : next[s[i]] = Follows(s, i)
  BY <1>1, <1>4, <1>5 DEF Follows
<1>9. Lists(s)
  BY <1>5, <1>6, <1>7, <1>8 DEF Lists
<1> QED
  BY <1>2, <1>9 DEF Ordered

\* The pointers of published nodes, and which of these are attached, change in
\* Swing and Cut only.
LEMMA ChainKept ==
    ASSUME IInv, NEW p \in Procs, Step(p), ~Swing(p), ~Cut(p)
    PROVE  Chain' = Chain /\ \A n \in published \cup {head} : next'[n] = next[n]
<1>1. /\ TypeOK /\ published \subseteq 1 .. used /\ 1 .. used \subseteq Cells
      /\ next \in [Nodes -> Cells \cup {tail, nil}] /\ cells \in [Procs -> Seq(Cells)]
  BY Facts DEF TypeOK
<1>2. CASE New(p)
  <2>1. \A n \in published \cup {head} : next'[n] = next[n]
    BY <1>1, <1>2, NewFacts
  <2> QED
    BY <1>2, <2>1 DEF New, Chain
<1>3. CASE Take(p)
  BY <1>3 DEF Take, Chain
<1>4. CASE Swap(p)
  BY <1>4 DEF Swap, Chain
<1>5. CASE Link(p)
  <2>1. cells[p] # <<>>
    BY <1>5, Facts DEF Link, Control, Finished
  <2>2. cells[p][1] \in Private(p)
    BY <1>1, <2>1, NonEmptySeq DEF Private, Members
  <2>3. cells[p][1] \notin published \cup {head}
    BY <1>1, <2>2, Facts DEF Owned
  <2> QED
    BY <1>1, <1>5, <2>3 DEF Link, ghost, Chain, Nodes
<1>6. CASE UNCHANGED <<heap, ghost>>
  BY <1>6 DEF heap, ghost, Chain
<1> QED
  BY <1>2, <1>3, <1>4, <1>5, <1>6, Writers

\* Other steps than the linking CAS and Clear's leave the chain as it was.
LEMMA SameOrder ==
    ASSUME IInv, NEW s \in Seq(Cells), Lists(s), NEW p \in Procs, Step(p), ~Swing(p), ~Cut(p)
    PROVE  Lists(s)'
<1>1. Chain' = Chain /\ \A n \in published \cup {head} : next'[n] = next[n]
  BY ChainKept
<1>2. \A i \in DOMAIN s : s[i] \in published
  BY DEF Lists, Members, Chain
<1> QED
  BY <1>1, <1>2 DEF Lists, Follows

\* Every step keeps the chain in order.
LEMMA OrderStep ==
    ASSUME IInv, Ordered, NEW p \in Procs, Step(p)
    PROVE  Ordered'
<1>1. \A q \in Procs : Strung(q)'
  BY StrungStep DEF Ordered
<1>2. PICK s \in Seq(Cells) : Lists(s)
  BY DEF Ordered
<1>3. \E t \in Seq(Cells) : Lists(t)'
  <2>1. CASE Swing(p)
    BY <1>2, <2>1, SwingOrders DEF Ordered
  <2>2. CASE Cut(p)
    <3>1. /\ Chain' = {} /\ next'[head] = tail
      BY <2>2, Facts, SMTT(60) DEF Cut, Chain, Nodes, TypeOK
    <3>4. <<>> \in Seq(Cells)
      OBVIOUS
    <3>2. PICK t \in Seq(Cells) : t = <<>>
      BY <3>4
    <3>3. Lists(t)'
      BY <3>1, <3>2 DEF Lists, Follows, Members
    <3> QED
      BY <3>3
  <2>3. CASE ~Swing(p) /\ ~Cut(p)
    BY <1>2, <2>3, SameOrder
  <2> QED
    BY <2>1, <2>2, <2>3
<1> QED
  BY <1>1, <1>3 DEF Ordered

-----------------------------------------------------------------------------
\* Counting the attached nodes counts the entries of the sequence.
LEMMA ChainCount ==
    ASSUME TypeOK, NEW s \in Seq(Cells), Lists(s)
    PROVE  Cardinality(Chain) = Len(s) /\ Len(s) \in 0 .. MaxCells
<1>1. Len(s) \in Nat /\ DOMAIN s = 1 .. Len(s)
  OBVIOUS
<1>2. IsFiniteSet(1 .. Len(s)) /\ Cardinality(1 .. Len(s)) = Len(s)
  BY <1>1, FS_Interval, SMTT(60)
<1>3. s \in Bijection(1 .. Len(s), Chain)
  BY <1>1 DEF Lists, Members, Bijection, Injection, Surjection, IsInjective
<1>4. IsFiniteSet(Chain) /\ Cardinality(Chain) = Len(s)
  BY <1>2, <1>3, FS_Bijection DEF ExistsBijection
<1>5. IsFiniteSet(Cells) /\ Cardinality(Cells) = MaxCells
  BY FS_Interval DEF Cells
<1>6. Chain \subseteq Cells
  BY DEF TypeOK, Chain
<1> QED
  BY <1>1, <1>4, <1>5, <1>6, FS_Subset

\* A set of numbers that is not empty has a least one.
LEMMA LeastNumber ==
    ASSUME NEW T \in SUBSET Nat, T # {}
    PROVE  \E n \in T : \A k \in T : n <= k
<1> DEFINE R == {ss \in Nat \X Nat : ss[1] < ss[2]}
<1>1. IsWellFoundedOn(R, Nat)
  BY NatLessThanWellFounded DEF OpToRel
<1> HIDE DEF R
<1>2. PICK x \in T : \A y \in T : ~ (<<y, x>> \in R)
  BY <1>1, WFMin
<1>3. ASSUME NEW y \in T PROVE x <= y
  <2>1. x \in Nat /\ y \in Nat
    OBVIOUS
  <2>2. ~(y < x)
    BY <1>2, <2>1 DEF R
  <2> QED
    BY <2>1, <2>2
<1> QED
  BY <1>3

\* Walk is the sequence between the two sentinels.
LEMMA WalkIs ==
    ASSUME TypeOK, NEW s \in Seq(Cells), Lists(s), Len(s) <= MaxCells
    PROVE  \A k \in 0 .. MaxCells + 1 :
             Walk[k] = IF k = 0 THEN head ELSE IF k <= Len(s) THEN s[k]
                       ELSE IF k = Len(s) + 1 THEN tail ELSE nil
<1> DEFINE D == 0 .. MaxCells + 1
           g == [k \in D |-> IF k = 0 THEN head ELSE IF k <= Len(s) THEN s[k]
                             ELSE IF k = Len(s) + 1 THEN tail ELSE nil]
           Obeys(f) == f = [k \in D |-> IF k = 0 THEN head
                                        ELSE IF f[k - 1] \in Nodes THEN next[f[k - 1]] ELSE nil]
<1>1. Len(s) \in Nat /\ DOMAIN s = 1 .. Len(s) /\ \A k \in 1 .. Len(s) : s[k] \in Cells
  OBVIOUS
<1>2. tail \notin Nodes /\ nil \notin Nodes /\ head \in Nodes /\ Cells \subseteq Nodes
  BY DEF Nodes
<1>3. \A k \in D : k # 0 => k - 1 \in D /\ k \in Nat
  OBVIOUS
<1>4. ASSUME NEW k \in D, k # 0
      PROVE  g[k] = IF g[k - 1] \in Nodes THEN next[g[k - 1]] ELSE nil
  <2>1. k \in Nat /\ k - 1 \in D
    BY <1>3, <1>4
  <2>2. CASE k = 1
    <3>1. g[k - 1] = head
      BY <2>1, <2>2
    <3>2. next[head] = g[k]
      BY <1>1, <2>1, <2>2 DEF Lists, Follows
    <3> QED
      BY <1>2, <3>1, <3>2
  <2>3. CASE k # 1 /\ k - 1 <= Len(s)
    <3>1. k - 1 \in DOMAIN s /\ k - 1 # 0
      BY <1>1, <1>4, <2>1, <2>3
    <3>2. g[k - 1] = s[k - 1] /\ s[k - 1] \in Nodes
      BY <1>1, <1>2, <2>1, <2>3, <3>1
    <3>3. next[s[k - 1]] = Follows(s, k - 1)
      BY <3>1 DEF Lists
    <3>4. Follows(s, k - 1) = g[k]
      BY <1>1, <1>4, <2>1, <2>3 DEF Follows
    <3> QED
      BY <3>2, <3>3, <3>4
  <2>4. CASE k - 1 > Len(s)
    <3>1. g[k - 1] \in {tail, nil} /\ g[k] = nil
      BY <1>1, <1>4, <2>1, <2>4
    <3> QED
      BY <1>2, <3>1
  <2> QED
    BY <1>1, <1>4, <2>1, <2>2, <2>3, <2>4
<1>5. g[0] = head
  OBVIOUS
<1>6. g = [k \in D |-> g[k]]
  OBVIOUS
<1> HIDE DEF g
<1>7. Obeys(g)
  BY <1>4, <1>5, <1>6
<1>8. Walk = CHOOSE f : Obeys(f)
  BY DEF Walk
<1> HIDE DEF Obeys
<1>9. Obeys(Walk)
  BY <1>7, <1>8
<1>10. SUFFICES \A k \in D : Walk[k] = g[k]
  BY DEF g
<1>11. SUFFICES ASSUME NEW m \in D, Walk[m] # g[m] PROVE FALSE
  OBVIOUS
<1> DEFINE T == {k \in D : Walk[k] # g[k]}
<1>12. T \in SUBSET Nat /\ T # {}
  BY <1>3, <1>11, SMTT(60)
<1> HIDE DEF T
<1>13. PICK n \in T : \A k \in T : n <= k
  BY <1>12, LeastNumber
<1>14. n \in D /\ Walk[n] # g[n]
  BY <1>13 DEF T
<1>15. Walk[n] = IF n = 0 THEN head ELSE IF Walk[n - 1] \in Nodes THEN next[Walk[n - 1]] ELSE nil
  BY <1>9, <1>14 DEF Obeys
<1>16. n # 0 /\ n - 1 \in D /\ n \in Nat
  BY <1>3, <1>5, <1>14, <1>15
<1>17. Walk[n - 1] = g[n - 1]
  <2>1. n - 1 \notin T
    BY <1>13, <1>16
  <2> QED
    BY <1>16, <2>1 DEF T
<1> QED
  BY <1>4, <1>14, <1>15, <1>16, <1>17

\* An ordered chain is what ChainSound says a walk meets.
LEMMA OrderedIsSound ==
    ASSUME TypeOK, Ordered
    PROVE  ChainSound
<1>1. PICK s \in Seq(Cells) : Lists(s)
  BY DEF Ordered
<1>2. Cardinality(Chain) = Len(s) /\ Len(s) \in 0 .. MaxCells
  BY <1>1, ChainCount
<1>3. \A k \in 0 .. MaxCells + 1 :
        Walk[k] = IF k = 0 THEN head ELSE IF k <= Len(s) THEN s[k]
                  ELSE IF k = Len(s) + 1 THEN tail ELSE nil
  BY <1>1, <1>2, WalkIs
<1>4. Walk[Len(s) + 1] = tail
  BY <1>2, <1>3
<1>5. \A k \in 1 .. Len(s) : Walk[k] = s[k]
  BY <1>2, <1>3
<1>6. DOMAIN s = 1 .. Len(s) /\ Members(s) = Chain
  BY <1>1 DEF Lists
<1>7. Members(Attached) = Chain
  BY <1>2, <1>5, <1>6 DEF Attached, Members
<1> QED
  BY <1>2, <1>4, <1>7 DEF ChainSound

\* Both invariants are inductive together.
LEMMA NextOrdered ==
    ASSUME IInv, Ordered, [Next]_vars
    PROVE  IInv' /\ Ordered'
<1>1. IInv'
  BY NextIInv
<1>2. ASSUME NEW p \in Procs, Step(p) PROVE Ordered'
  BY <1>2, OrderStep
<1>3. CASE UNCHANGED vars
  <2>1. UNCHANGED <<next, pc, call, exp, cells, published, cutAt>>
    BY <1>3 DEF vars, heap, local, work, ghost
  <2>2. \A q \in Procs : Strung(q) => Strung(q)'
    BY <2>1 DEF Strung, Appending
  <2>3. \A s \in Seq(Cells) : Lists(s) => Lists(s)'
    BY <2>1 DEF Lists, Follows, Chain
  <2> QED
    BY <1>1, <2>2, <2>3 DEF Ordered
<1> QED
  BY <1>1, <1>2, <1>3 DEF Next, Terminated

(* ChainSound, for any goroutines and calls: the CASes of Insert,          *)
(* appendChain and Clear, in any interleaving, keep every attached node on *)
(* the walk from the head sentinel to the tail.                            *)
THEOREM ChainStaysSound == Spec => []ChainSound
<1>1. Init => IInv /\ Ordered
  BY InitIInv, InitOrdered
<1>2. IInv /\ Ordered /\ [Next]_vars => IInv' /\ Ordered'
  BY NextOrdered
<1>3. IInv /\ Ordered => ChainSound
  BY OrderedIsSound DEF IInv
<1> QED
  BY <1>1, <1>2, <1>3, PTL DEF Spec

-----------------------------------------------------------------------------
(***************************************************************************)
(* Sequences of states, sifted: what Sift returns, for one state more, for *)
(* two sequences one after the other, for one state changed and for a      *)
(* sequence spliced in.                                                    *)
(***************************************************************************)
\* A set that has <<>> and every one-element extension has every sequence.
LEMMA AllSequences ==
    ASSUME NEW T, NEW G, <<>> \in G,
           \A s \in Seq(T), x \in T : s \in G => Append(s, x) \in G
    PROVE  Seq(T) \subseteq G
<1> SUFFICES ASSUME NEW w \in Seq(T), w \notin G PROVE FALSE
  OBVIOUS
<1> DEFINE L == {n \in Nat : \E s \in Seq(T) : s \notin G /\ Len(s) = n}
<1>1. L \in SUBSET Nat /\ Len(w) \in L
  OBVIOUS
<1> HIDE DEF L
<1>2. PICK n \in L : \A k \in L : n <= k
  BY <1>1, LeastNumber
<1>3. PICK s \in Seq(T) : s \notin G /\ Len(s) = n
  BY <1>2 DEF L
<1>4. s # <<>> /\ n \in Nat /\ n > 0
  BY <1>3
<1> DEFINE r == SubSeq(s, 1, n - 1)
<1>5. r \in Seq(T) /\ Len(r) = n - 1 /\ s = Append(r, s[n]) /\ s[n] \in T
  BY <1>3, <1>4
<1> HIDE DEF r
<1>6. r \notin G
  BY <1>3, <1>5
<1>7. n - 1 \in L
  BY <1>4, <1>5, <1>6 DEF L
<1> QED
  BY <1>2, <1>4, <1>7

\* The states a chain may have.
States == Cells \cup {nil}

\* f[k] is what the first k states hold.
UpTo(f, s) == f = [k \in 0 .. Len(s) |-> IF k = 0 THEN <<>>
                                         ELSE IF s[k] = nil THEN f[k - 1]
                                         ELSE Append(f[k - 1], s[k])]

\* One function at most says what the prefixes of s hold.
LEMMA UpToUnique ==
    ASSUME NEW s \in Seq(States), NEW f, NEW g, UpTo(f, s), UpTo(g, s)
    PROVE  f = g
<1> DEFINE D == 0 .. Len(s)
           T == {k \in D : f[k] # g[k]}
<1>1. D \subseteq Nat /\ \A k \in D : k # 0 => k - 1 \in D
  OBVIOUS
<1>2. f = [k \in D |-> f[k]] /\ g = [k \in D |-> g[k]]
  BY DEF UpTo
<1>3. SUFFICES ASSUME T # {} PROVE FALSE
  BY <1>2
<1>4. T \in SUBSET Nat
  BY <1>1
<1> HIDE DEF T
<1>5. PICK n \in T : \A k \in T : n <= k
  BY <1>3, <1>4, LeastNumber
<1>6. n \in D /\ n \in Nat /\ f[n] # g[n]
  BY <1>1, <1>5 DEF T
<1>7. f[n] = IF n = 0 THEN <<>> ELSE IF s[n] = nil THEN f[n - 1] ELSE Append(f[n - 1], s[n])
  BY <1>6 DEF UpTo
<1>8. g[n] = IF n = 0 THEN <<>> ELSE IF s[n] = nil THEN g[n - 1] ELSE Append(g[n - 1], s[n])
  BY <1>6 DEF UpTo
<1>9. n # 0 /\ n - 1 \in D /\ n - 1 \notin T
  BY <1>1, <1>5, <1>6, <1>7, <1>8
<1> QED
  BY <1>6, <1>7, <1>8, <1>9 DEF T

\* It is extended when s is.
LEMMA UpToAppend ==
    ASSUME NEW s \in Seq(States), NEW x \in States, NEW f, UpTo(f, s)
    PROVE  LET g == [k \in 0 .. Len(s) + 1 |->
                        IF k <= Len(s) THEN f[k]
                        ELSE IF x = nil THEN f[Len(s)] ELSE Append(f[Len(s)], x)]
           IN  UpTo(g, Append(s, x))
<1> DEFINE n == Len(s)
           a == Append(s, x)
           g == [k \in 0 .. n + 1 |->
                    IF k <= n THEN f[k] ELSE IF x = nil THEN f[n] ELSE Append(f[n], x)]
<1>1. n \in Nat /\ Len(a) = n + 1 /\ a[n + 1] = x /\ \A k \in 1 .. n : a[k] = s[k]
  OBVIOUS
<1> HIDE DEF a
<1>2. \A k \in 0 .. n : f[k] = IF k = 0 THEN <<>> ELSE IF s[k] = nil THEN f[k - 1]
                               ELSE Append(f[k - 1], s[k])
  BY DEF UpTo
<1> HIDE DEF n
<1>3. ASSUME NEW k \in 0 .. n + 1
      PROVE  g[k] = IF k = 0 THEN <<>> ELSE IF a[k] = nil THEN g[k - 1]
                    ELSE Append(g[k - 1], a[k])
  <2>1. CASE k = 0
    BY <1>1, <1>2, <2>1
  <2>2. CASE k \in 1 .. n
    <3>1. k \in 0 .. n /\ k - 1 \in 0 .. n + 1 /\ k - 1 <= n /\ k <= n /\ k # 0
      BY <1>1, <2>2
    <3> QED
      BY <1>1, <1>2, <2>2, <3>1
  <2>3. CASE k = n + 1
    <3>1. k - 1 = n /\ k # 0 /\ ~(k <= n) /\ n \in 0 .. n + 1
      BY <1>1, <2>3
    <3> QED
      BY <1>1, <2>3, <3>1
  <2> QED
    BY <1>1, <2>1, <2>2, <2>3
<1>4. g = [k \in 0 .. Len(a) |-> g[k]]
  BY <1>1
<1> HIDE DEF g
<1>5. UpTo(g, a)
  BY <1>1, <1>3, <1>4 DEF UpTo
<1> QED
  BY <1>5 DEF g, a, n

\* There is one, for every s.
LEMMA UpToExists == \A s \in Seq(States) : \E f : UpTo(f, s)
<1> DEFINE G == {s \in Seq(States) : \E f : UpTo(f, s)}
<1>1. <<>> \in G
  <2>1. UpTo([k \in {0} |-> <<>>], <<>>)
    BY DEF UpTo
  <2> QED
    BY <2>1
<1>2. ASSUME NEW s \in Seq(States), NEW x \in States, s \in G
      PROVE  Append(s, x) \in G
  <2>1. PICK f : UpTo(f, s)
    BY <1>2
  <2>2. \E g : UpTo(g, Append(s, x))
    BY <2>1, UpToAppend
  <2>3. Append(s, x) \in Seq(States)
    OBVIOUS
  <2> QED
    BY <2>2, <2>3
<1> HIDE DEF G
<1>3. Seq(States) \subseteq G
  BY <1>1, <1>2, AllSequences
<1> QED
  BY <1>3 DEF G

\* Sift, state by state.
LEMMA SiftAppend ==
    /\ Sift(<<>>) = <<>>
    /\ \A s \in Seq(States), x \in States :
         Sift(Append(s, x)) = IF x = nil THEN Sift(s) ELSE Append(Sift(s), x)
<1>1. \A s \in Seq(States) : Sift(s) = (CHOOSE f : UpTo(f, s))[Len(s)]
  BY DEF Sift, UpTo
<1>2. ASSUME NEW s \in Seq(States), NEW f, UpTo(f, s)
      PROVE  Sift(s) = f[Len(s)]
  <2>1. UpTo(CHOOSE h : UpTo(h, s), s)
    BY <1>2
  <2>2. f = (CHOOSE h : UpTo(h, s))
    BY <1>2, <2>1, UpToUnique
  <2> QED
    BY <1>1, <2>2
<1>3. Sift(<<>>) = <<>>
  <2>1. UpTo([k \in {0} |-> <<>>], <<>>)
    BY DEF UpTo
  <2>2. <<>> \in Seq(States) /\ Len(<<>>) = 0
    OBVIOUS
  <2> QED
    BY <1>2, <2>1, <2>2
<1>4. ASSUME NEW s \in Seq(States), NEW x \in States
      PROVE  Sift(Append(s, x)) = IF x = nil THEN Sift(s) ELSE Append(Sift(s), x)
  <2>1. PICK f : UpTo(f, s)
    BY UpToExists
  <2> DEFINE g == [k \in 0 .. Len(s) + 1 |->
                     IF k <= Len(s) THEN f[k]
                     ELSE IF x = nil THEN f[Len(s)] ELSE Append(f[Len(s)], x)]
  <2>2. UpTo(g, Append(s, x))
    BY <2>1, UpToAppend
  <2>3. Len(s) \in Nat /\ Append(s, x) \in Seq(States) /\ Len(Append(s, x)) = Len(s) + 1
    OBVIOUS
  <2>4. g[Len(s) + 1] = IF x = nil THEN f[Len(s)] ELSE Append(f[Len(s)], x)
    BY <2>3
  <2> HIDE DEF g
  <2>5. Sift(s) = f[Len(s)]
    BY <1>2, <2>1
  <2>6. Sift(Append(s, x)) = g[Len(s) + 1]
    BY <1>2, <2>2, <2>3
  <2> QED
    BY <2>4, <2>5, <2>6
<1> QED
  BY <1>3, <1>4

\* What Sift keeps.
LEMMA SiftFacts ==
    \A s \in Seq(States) :
      /\ Sift(s) \in Seq(Cells)
      /\ Members(Sift(s)) = Members(s) \ {nil}
      /\ nil \notin Members(s) => Sift(s) = s
      /\ (\A i, j \in DOMAIN s : s[i] = s[j] /\ i # j => s[i] = nil)
           => \A i, j \in DOMAIN Sift(s) : Sift(s)[i] = Sift(s)[j] => i = j
<1> DEFINE Fine(s) == \A i, j \in DOMAIN s : s[i] = s[j] /\ i # j => s[i] = nil
           Inj(u) == \A i, j \in DOMAIN u : u[i] = u[j] => i = j
           Good(s) == /\ Sift(s) \in Seq(Cells)
                      /\ Members(Sift(s)) = Members(s) \ {nil}
                      /\ nil \notin Members(s) => Sift(s) = s
                      /\ Fine(s) => Inj(Sift(s))
           G == {s \in Seq(States) : Good(s)}
<1>1. <<>> \in G
  <2>1. Sift(<<>>) = <<>> /\ <<>> \in Seq(States) /\ <<>> \in Seq(Cells) /\ DOMAIN <<>> = {}
    BY SiftAppend
  <2>2. Members(<<>>) = {}
    BY DEF Members
  <2> QED
    BY <2>1, <2>2
<1>2. ASSUME NEW s \in Seq(States), NEW x \in States, s \in G
      PROVE  Append(s, x) \in G
  <2> DEFINE a == Append(s, x)  n == Len(s)  u == Sift(s)  v == Sift(a)
  <2>1. /\ a \in Seq(States) /\ DOMAIN a = 1 .. n + 1 /\ DOMAIN s = 1 .. n /\ n \in Nat
        /\ a[n + 1] = x /\ \A i \in 1 .. n : a[i] = s[i]
    OBVIOUS
  <2>2. u \in Seq(Cells) /\ Members(u) = Members(s) \ {nil}
        /\ (nil \notin Members(s) => u = s) /\ (Fine(s) => Inj(u))
    BY <1>2
  <2>3. v = IF x = nil THEN u ELSE Append(u, x)
    BY SiftAppend
  <2>4. /\ DOMAIN u = 1 .. Len(u) /\ Len(u) \in Nat
        /\ DOMAIN Append(u, x) = 1 .. Len(u) + 1
        /\ Append(u, x)[Len(u) + 1] = x /\ \A i \in 1 .. Len(u) : Append(u, x)[i] = u[i]
    BY <2>2
  <2> HIDE DEF a, u, v, n
  <2>5. Members(a) = Members(s) \cup {x}
    <3>1. \A i \in 1 .. n + 1 : i \in 1 .. n \/ i = n + 1
      BY <2>1
    <3>2. n + 1 \in 1 .. n + 1 /\ 1 .. n \subseteq 1 .. n + 1
      BY <2>1
    <3> QED
      BY <2>1, <3>1, <3>2 DEF Members
  <2>6. Members(Append(u, x)) = Members(u) \cup {x}
    <3>1. \A i \in 1 .. Len(u) + 1 : i \in 1 .. Len(u) \/ i = Len(u) + 1
      BY <2>4
    <3>2. Len(u) + 1 \in 1 .. Len(u) + 1 /\ 1 .. Len(u) \subseteq 1 .. Len(u) + 1
      BY <2>4
    <3> QED
      BY <2>4, <3>1, <3>2 DEF Members
  <2>7. v \in Seq(Cells)
    <3>1. x # nil => Append(u, x) \in Seq(Cells)
      BY <2>2 DEF States
    <3> QED
      BY <2>2, <2>3, <3>1
  <2>8. Members(v) = Members(a) \ {nil}
    BY <2>2, <2>3, <2>5, <2>6
  <2>9. nil \notin Members(a) => v = a
    BY <2>2, <2>3, <2>5 DEF a
  <2>10. ASSUME Fine(a) PROVE Inj(v)
    <3>1. Fine(s)
      BY <2>1, <2>10
    <3>2. CASE x = nil
      BY <2>2, <2>3, <3>1, <3>2
    <3>3. CASE x # nil
      <4>1. x \notin Members(s)
        <5> SUFFICES ASSUME NEW i \in 1 .. n, s[i] = x PROVE FALSE
          BY <2>1 DEF Members
        <5>1. a[i] = a[n + 1] /\ i # n + 1 /\ i \in DOMAIN a /\ n + 1 \in DOMAIN a
          BY <2>1
        <5> QED
          BY <2>1, <2>10, <3>3, <5>1
      <4>2. \A i \in 1 .. Len(u) : u[i] # x
        <5>1. \A i \in DOMAIN u : u[i] \in Members(u)
          BY DEF Members
        <5> QED
          BY <2>2, <2>4, <4>1, <5>1
      <4>3. Inj(u)
        BY <2>2, <3>1
      <4>4. ASSUME NEW i \in 1 .. Len(u) + 1, NEW j \in 1 .. Len(u) + 1,
                   Append(u, x)[i] = Append(u, x)[j]
            PROVE  i = j
        <5>1. (i \in 1 .. Len(u) \/ i = Len(u) + 1) /\ (j \in 1 .. Len(u) \/ j = Len(u) + 1)
          BY <2>4
        <5> QED
          BY <2>4, <4>2, <4>3, <4>4, <5>1
      <4> QED
        BY <2>3, <2>4, <3>3, <4>4
    <3> QED
      BY <3>2, <3>3
  <2> QED
    BY <2>1, <2>7, <2>8, <2>9, <2>10 DEF a, v
<1> HIDE DEF G
<1>3. Seq(States) \subseteq G
  BY <1>1, <1>2, AllSequences
<1> QED
  BY <1>3 DEF G

\* Append and concatenation, in either order.
LEMMA AppendConcat ==
    \A a \in Seq(Cells), b \in Seq(Cells), x \in Cells :
      Append(a \o b, x) = a \o Append(b, x)
OBVIOUS

\* Sifting two parts one after the other.
LEMMA SiftConcat ==
    \A a \in Seq(States), b \in Seq(States) : Sift(a \o b) = Sift(a) \o Sift(b)
<1> SUFFICES ASSUME NEW a \in Seq(States)
             PROVE  \A b \in Seq(States) : Sift(a \o b) = Sift(a) \o Sift(b)
  OBVIOUS
<1> DEFINE G == {b \in Seq(States) : Sift(a \o b) = Sift(a) \o Sift(b)}
<1>1. <<>> \in G
  <2>1. a \o <<>> = a /\ Sift(<<>>) = <<>> /\ Sift(a) \in Seq(Cells) /\ <<>> \in Seq(States)
    BY SiftAppend, SiftFacts
  <2>2. Sift(a) \o <<>> = Sift(a)
    BY <2>1
  <2> QED
    BY <2>1, <2>2
<1>2. ASSUME NEW b \in Seq(States), NEW x \in States, b \in G
      PROVE  Append(b, x) \in G
  <2>1. a \o Append(b, x) = Append(a \o b, x) /\ a \o b \in Seq(States) /\ Append(b, x) \in Seq(States)
    OBVIOUS
  <2>2. Sift(a \o Append(b, x)) = IF x = nil THEN Sift(a \o b) ELSE Append(Sift(a \o b), x)
    BY <2>1, SiftAppend, ZenonT(60)
  <2>3. Sift(Append(b, x)) = IF x = nil THEN Sift(b) ELSE Append(Sift(b), x)
    BY SiftAppend
  <2>4. Sift(a \o b) = Sift(a) \o Sift(b)
    BY <1>2
  <2>5. Sift(a) \in Seq(Cells) /\ Sift(b) \in Seq(Cells)
    BY SiftFacts
  <2>6. x # nil => Append(Sift(a) \o Sift(b), x) = Sift(a) \o Append(Sift(b), x)
    <3>1. x # nil => x \in Cells
      BY DEF States
    <3> QED
      BY <2>5, <3>1, AppendConcat, Zenon
  <2> QED
    BY <2>1, <2>2, <2>3, <2>4, <2>6
<1> HIDE DEF G
<1>3. Seq(States) \subseteq G
  BY <1>1, <1>2, AllSequences
<1> QED
  BY <1>3 DEF G

\* Concatenation, entry by entry.
LEMMA ConcatFacts ==
    \A a \in Seq(States), b \in Seq(States) :
      /\ a \o b \in Seq(States) /\ Len(a \o b) = Len(a) + Len(b)
      /\ DOMAIN (a \o b) = 1 .. Len(a) + Len(b)
      /\ \A i \in 1 .. Len(a) : (a \o b)[i] = a[i]
      /\ \A i \in Len(a) + 1 .. Len(a) + Len(b) : (a \o b)[i] = b[i - Len(a)]
OBVIOUS

\* Sequences that agree entry by entry are equal.
LEMMA SameSequence ==
    ASSUME NEW T, NEW a \in Seq(T), NEW b \in Seq(T), Len(a) = Len(b),
           \A i \in 1 .. Len(a) : a[i] = b[i]
    PROVE  a = b
OBVIOUS

\* Splitting, changing and splicing a sifted sequence.
LEMMA SplitAt ==
    \A g \in Seq(States) : \A j \in 0 .. Len(g) :
      LET a == SubSeq(g, 1, j)
          b == SubSeq(g, j + 1, Len(g))
      IN  a \in Seq(States) /\ Len(a) = j /\ b \in Seq(States) /\ Len(b) = Len(g) - j /\ g = a \o b
<1> SUFFICES ASSUME NEW g \in Seq(States), NEW j \in 0 .. Len(g)
             PROVE  LET a == SubSeq(g, 1, j)
                        b == SubSeq(g, j + 1, Len(g))
                    IN  a \in Seq(States) /\ Len(a) = j /\ b \in Seq(States) /\ Len(b) = Len(g) - j /\ g = a \o b
  OBVIOUS
<1> DEFINE a == SubSeq(g, 1, j)
           b == SubSeq(g, j + 1, Len(g))
<1>1. a \in Seq(States) /\ Len(a) = j /\ \A i \in 1 .. j : a[i] = g[i]
  OBVIOUS
<1>2. b \in Seq(States) /\ Len(b) = Len(g) - j /\ \A i \in 1 .. Len(b) : b[i] = g[j + i]
  OBVIOUS
<1> HIDE DEF a, b
<1> DEFINE n == Len(g)  r == a \o b
<1>3. n \in Nat /\ j \in Nat /\ j <= n /\ g \in Seq(States)
  OBVIOUS
<1>4. /\ r \in Seq(States) /\ Len(r) = Len(a) + Len(b)
      /\ \A i \in 1 .. Len(a) : r[i] = a[i]
      /\ \A i \in Len(a) + 1 .. Len(a) + Len(b) : r[i] = b[i - Len(a)]
  BY <1>1, <1>2, ConcatFacts, Zenon
<1>5. Len(a) = j /\ Len(b) = n - j
  BY <1>1, <1>2
<1> HIDE DEF n, r
<1>6. Len(r) = n
  BY <1>3, <1>4, <1>5
<1>7. ASSUME NEW i \in 1 .. n PROVE r[i] = g[i]
  <2>1. CASE i <= j
    BY <1>1, <1>3, <1>4, <1>5, <2>1
  <2>2. CASE i > j
    <3>1. i \in j + 1 .. j + (n - j) /\ i - j \in 1 .. n - j /\ j + (i - j) = i
      BY <1>3, <2>2
    <3> QED
      BY <1>2, <1>4, <1>5, <3>1
  <2> QED
    BY <1>3, <2>1, <2>2
<1>8. g = r
  BY <1>3, <1>4, <1>6, <1>7, SameSequence DEF n
<1> QED
  BY <1>1, <1>2, <1>8 DEF a, b, r

\* A splice is a prefix, what is spliced in, and the suffix.
LEMMA SpliceIs ==
    \A g \in Seq(States), c \in Seq(States) : \A j \in 0 .. Len(g) :
      Splice(g, j, c) = (SubSeq(g, 1, j) \o c) \o SubSeq(g, j + 1, Len(g))
<1> SUFFICES ASSUME NEW g \in Seq(States), NEW c \in Seq(States), NEW j \in 0 .. Len(g)
             PROVE  Splice(g, j, c) = (SubSeq(g, 1, j) \o c) \o SubSeq(g, j + 1, Len(g))
  OBVIOUS
<1> DEFINE a == SubSeq(g, 1, j)
           b == SubSeq(g, j + 1, Len(g))
           r == (a \o c) \o b
<1>1. a \in Seq(States) /\ Len(a) = j /\ \A i \in 1 .. j : a[i] = g[i]
  OBVIOUS
<1>2. b \in Seq(States) /\ Len(b) = Len(g) - j /\ \A i \in 1 .. Len(b) : b[i] = g[j + i]
  OBVIOUS
<1>3. Len(c) \in Nat /\ Len(g) \in Nat /\ j \in Nat /\ j <= Len(g)
  OBVIOUS
<1> HIDE DEF a, b
<1> DEFINE q == a \o c  l == Len(c)  n == Len(g)
<1>4. /\ q \in Seq(States) /\ Len(q) = Len(a) + Len(c)
      /\ \A i \in 1 .. Len(a) : q[i] = a[i]
      /\ \A i \in Len(a) + 1 .. Len(a) + Len(c) : q[i] = c[i - Len(a)]
  BY <1>1, ConcatFacts, Zenon
<1> HIDE DEF q
<1>5. /\ r \in Seq(States) /\ Len(r) = Len(q) + Len(b) /\ DOMAIN r = 1 .. Len(q) + Len(b)
      /\ \A i \in 1 .. Len(q) : r[i] = q[i]
      /\ \A i \in Len(q) + 1 .. Len(q) + Len(b) : r[i] = b[i - Len(q)]
  BY <1>2, <1>4, ConcatFacts, ZenonT(60) DEF q
<1>6. /\ l \in Nat /\ n \in Nat /\ Len(a) = j /\ Len(q) = j + l /\ Len(b) = n - j
      /\ Len(q) + Len(b) = n + l
  BY <1>1, <1>2, <1>3, <1>4
<1> HIDE DEF r, l, n
<1>7. ASSUME NEW i \in 1 .. n + l
      PROVE  r[i] = IF i <= j THEN g[i] ELSE IF i <= j + l THEN c[i - j] ELSE g[i - l]
  <2>1. CASE i <= j
    <3>1. i \in 1 .. j /\ i \in 1 .. j + l
      BY <1>3, <1>6, <2>1
    <3> QED
      BY <1>1, <1>4, <1>5, <1>6, <2>1, <3>1
  <2>2. CASE ~(i <= j) /\ i <= j + l
    <3>1. i \in j + 1 .. j + l /\ i \in 1 .. j + l
      BY <1>3, <1>6, <2>2
    <3>2. q[i] = c[i - j]
      BY <1>4, <1>6, <3>1 DEF l
    <3> QED
      BY <1>5, <1>6, <2>2, <3>1, <3>2
  <2>3. CASE ~(i <= j) /\ ~(i <= j + l)
    <3>1. /\ i \in (j + l) + 1 .. n + l /\ i - (j + l) \in 1 .. n - j
          /\ j + (i - (j + l)) = i - l
      BY <1>3, <1>6, <2>3 DEF n
    <3>2. r[i] = b[i - (j + l)]
      BY <1>5, <1>6, <3>1
    <3>3. b[i - (j + l)] = g[j + (i - (j + l))]
      BY <1>2, <1>6, <3>1
    <3> QED
      BY <2>3, <3>1, <3>2, <3>3
  <2>4. (i <= j /\ i <= j + l) \/ ~(i <= j)
    BY <1>3, <1>6
  <2> QED
    BY <2>1, <2>2, <2>3, <2>4
<1>8. r = [i \in 1 .. n + l |-> r[i]]
  BY <1>5, <1>6
<1>9. r = Splice(g, j, c)
  BY <1>7, <1>8 DEF Splice, n, l
<1> QED
  BY <1>9 DEF r, a, b

\* What is spliced in stands between what the two parts hold.
LEMMA SiftSplice ==
    \A g \in Seq(States), c \in Seq(Cells) : \A j \in 0 .. Len(g) :
      \E A \in Seq(Cells), B \in Seq(Cells) :
        /\ Sift(g) = A \o B
        /\ Sift(Splice(g, j, c)) = (A \o c) \o B
        /\ j = Len(g) => B = <<>>
<1> SUFFICES ASSUME NEW g \in Seq(States), NEW c \in Seq(Cells), NEW j \in 0 .. Len(g)
             PROVE  \E A \in Seq(Cells), B \in Seq(Cells) :
                      /\ Sift(g) = A \o B
                      /\ Sift(Splice(g, j, c)) = (A \o c) \o B
                      /\ j = Len(g) => B = <<>>
  OBVIOUS
<1> DEFINE a == SubSeq(g, 1, j)
           b == SubSeq(g, j + 1, Len(g))
<1>1. a \in Seq(States) /\ b \in Seq(States) /\ g = a \o b /\ Len(b) = Len(g) - j
  BY SplitAt
<1>2. c \in Seq(States)
  BY DEF States
<1>3. Splice(g, j, c) = (a \o c) \o b
  BY <1>2, SpliceIs
<1> HIDE DEF a, b
<1>4. Sift(a) \in Seq(Cells) /\ Sift(b) \in Seq(Cells)
  BY <1>1, SiftFacts
<1>5. Sift(g) = Sift(a) \o Sift(b)
  BY <1>1, SiftConcat
<1>6. a \o c \in Seq(States)
  BY <1>1, <1>2
<1>7. Sift((a \o c) \o b) = (Sift(a) \o Sift(c)) \o Sift(b)
  <2>1. Sift(a \o c) = Sift(a) \o Sift(c)
    BY <1>1, <1>2, SiftConcat
  <2>2. Sift((a \o c) \o b) = Sift(a \o c) \o Sift(b)
    BY <1>1, <1>6, SiftConcat
  <2> QED
    BY <2>1, <2>2
<1>8. Sift(c) = c
  <2>1. nil \notin Members(c)
    BY DEF Members
  <2> QED
    BY <1>2, <2>1, SiftFacts
<1>9. j = Len(g) => Sift(b) = <<>>
  <2>1. j = Len(g) => b = <<>>
    BY <1>1
  <2> QED
    BY <2>1, SiftAppend
<1> QED
  BY <1>3, <1>4, <1>5, <1>7, <1>8, <1>9

\* Changing the state of one node changes one element.
\* What comes after position j.
LEMMA TailFacts ==
    \A s \in Seq(States) : \A j \in 0 .. Len(s) :
      LET b == SubSeq(s, j + 1, Len(s))
      IN  b \in Seq(States) /\ Len(b) = Len(s) - j /\ \A i \in 1 .. Len(b) : b[i] = s[j + i]
OBVIOUS

LEMMA SiftOne ==
    \A g \in Seq(States), w \in States : \A j \in DOMAIN g : g[j] # nil =>
      \E A \in Seq(Cells), B \in Seq(Cells) :
        /\ Sift(g) = (A \o <<g[j]>>) \o B
        /\ Sift([g EXCEPT ![j] = w]) = IF w = nil THEN A \o B ELSE (A \o <<w>>) \o B
<1> SUFFICES ASSUME NEW g \in Seq(States), NEW w \in States, NEW j \in DOMAIN g, g[j] # nil
             PROVE  \E A \in Seq(Cells), B \in Seq(Cells) :
                      /\ Sift(g) = (A \o <<g[j]>>) \o B
                      /\ Sift([g EXCEPT ![j] = w]) = IF w = nil THEN A \o B ELSE (A \o <<w>>) \o B
  BY Zenon
<1> DEFINE h == [g EXCEPT ![j] = w]
           k == j - 1
           n == Len(g)
           a == SubSeq(g, 1, k)
           b == SubSeq(g, j + 1, n)
<1>1. n \in Nat /\ DOMAIN g = 1 .. n /\ j \in 1 .. n /\ k \in 0 .. n /\ j \in 0 .. n /\ j = k + 1
      /\ g[j] \in Cells
  BY DEF States
<1>2. a \in Seq(States) /\ b \in Seq(States)
  BY <1>1
<1>3. ASSUME NEW f \in Seq(States), Len(f) = n, \A i \in 1 .. n : i # j => f[i] = g[i]
      PROVE  f = (a \o <<f[j]>>) \o b
  <2>1. a \in Seq(States) /\ Len(a) = k /\ \A i \in 1 .. k : a[i] = g[i]
    BY <1>1
  <2>2. b \in Seq(States) /\ Len(b) = n - j /\ \A i \in 1 .. Len(b) : b[i] = g[j + i]
    BY <1>1, TailFacts, ZenonT(30)
  <2>3. f[j] \in States /\ DOMAIN f = 1 .. n
    BY <1>1, <1>3
  <2> HIDE DEF a, b, n, k
  <2> DEFINE q == a \o <<f[j]>>  r == q \o b
  <2>4. /\ q \in Seq(States) /\ Len(q) = Len(a) + 1
        /\ \A i \in 1 .. Len(a) : q[i] = a[i]
        /\ q[Len(a) + 1] = f[j]
    <3>1. <<f[j]>> \in Seq(States) /\ Len(<<f[j]>>) = 1 /\ <<f[j]>>[1] = f[j]
      BY <2>3
    <3> DEFINE x == <<f[j]>>
    <3> HIDE DEF x
    <3>2. /\ a \o x \in Seq(States) /\ Len(a \o x) = Len(a) + Len(x)
          /\ \A i \in 1 .. Len(a) : (a \o x)[i] = a[i]
          /\ \A i \in Len(a) + 1 .. Len(a) + Len(x) : (a \o x)[i] = x[i - Len(a)]
      BY <2>1, <3>1, ConcatFacts, ZenonT(60) DEF x
    <3>3. Len(a) \in Nat /\ Len(x) = 1 /\ x[1] = f[j]
      BY <2>1, <3>1 DEF x
    <3>4. (a \o x)[Len(a) + 1] = x[(Len(a) + 1) - Len(a)] /\ (Len(a) + 1) - Len(a) = 1
      BY <3>2, <3>3
    <3> QED
      BY <3>2, <3>3, <3>4 DEF x
  <2> HIDE DEF q
  <2>5. /\ r \in Seq(States) /\ Len(r) = Len(q) + Len(b)
        /\ \A i \in 1 .. Len(q) : r[i] = q[i]
        /\ \A i \in Len(q) + 1 .. Len(q) + Len(b) : r[i] = b[i - Len(q)]
    BY <2>2, <2>4, ConcatFacts, ZenonT(60)
  <2> HIDE DEF r
  <2>6. Len(a) = k /\ Len(q) = j /\ Len(b) = n - j /\ Len(r) = n
    BY <1>1, <2>1, <2>2, <2>4, <2>5
  <2>7. ASSUME NEW i \in 1 .. n PROVE f[i] = r[i]
    <3>1. CASE i < j
      <4>1. i \in 1 .. k /\ i \in 1 .. j /\ i # j
        BY <1>1, <3>1
      <4> QED
        BY <1>3, <2>1, <2>4, <2>5, <2>6, <4>1, ZenonT(60)
    <3>2. CASE i = j
      <4>1. i \in 1 .. j /\ k + 1 = j
        BY <1>1, <3>2
      <4> QED
        BY <2>4, <2>5, <2>6, <3>2, <4>1
    <3>3. CASE i > j
      <4>1. i \in j + 1 .. j + (n - j) /\ i - j \in 1 .. n - j /\ j + (i - j) = i /\ i # j
        BY <1>1, <3>3
      <4>2. r[i] = b[i - j]
        BY <2>5, <2>6, <4>1
      <4>3. b[i - j] = g[j + (i - j)]
        BY <2>2, <2>6, <4>1
      <4> QED
        BY <1>3, <4>1, <4>2, <4>3
    <3>4. i < j \/ i = j \/ i > j
      BY <1>1
    <3> QED
      BY <3>1, <3>2, <3>3, <3>4
  <2>8. f = r
    BY <1>3, <2>5, <2>6, <2>7, SameSequence, ZenonT(60)
  <2> QED
    BY <2>8 DEF q, r
<1> HIDE DEF a, b
<1>4. g = (a \o <<g[j]>>) \o b
  BY <1>1, <1>3
<1>5. h = (a \o <<w>>) \o b
  <2>1. h \in Seq(States) /\ Len(h) = n /\ h[j] = w /\ \A i \in 1 .. n : i # j => h[i] = g[i]
    BY <1>1
  <2> QED
    BY <1>3, <2>1
<1>6. Sift(a) \in Seq(Cells) /\ Sift(b) \in Seq(Cells)
  BY <1>2, SiftFacts
<1>7. ASSUME NEW x \in States
      PROVE  Sift((a \o <<x>>) \o b) = IF x = nil THEN Sift(a) \o Sift(b)
                                       ELSE (Sift(a) \o <<x>>) \o Sift(b)
  <2>1. a \o <<x>> = Append(a, x) /\ Append(a, x) \in Seq(States)
    BY <1>2
  <2>2. Sift(Append(a, x)) = IF x = nil THEN Sift(a) ELSE Append(Sift(a), x)
    BY <1>2, SiftAppend
  <2>3. Sift(Append(a, x) \o b) = Sift(Append(a, x)) \o Sift(b)
    BY <1>2, <2>1, SiftConcat
  <2>4. Append(Sift(a), x) = Sift(a) \o <<x>>
    BY <1>6
  <2> QED
    BY <2>1, <2>2, <2>3, <2>4
<1>8. Sift(g) = (Sift(a) \o <<g[j]>>) \o Sift(b)
  BY <1>1, <1>4, <1>7 DEF States
<1>9. Sift(h) = IF w = nil THEN Sift(a) \o Sift(b) ELSE (Sift(a) \o <<w>>) \o Sift(b)
  BY <1>5, <1>7
<1> QED
  BY <1>6, <1>8, <1>9

\* The two halves of a concatenation.
LEMMA Halves ==
    \A a \in Seq(States), b \in Seq(States) :
      /\ SubSeq(a \o b, 1, Len(a)) = a
      /\ SubSeq(a \o b, Len(a) + 1, Len(a \o b)) = b
<1> SUFFICES ASSUME NEW a \in Seq(States), NEW b \in Seq(States)
             PROVE  /\ SubSeq(a \o b, 1, Len(a)) = a
                    /\ SubSeq(a \o b, Len(a) + 1, Len(a \o b)) = b
  OBVIOUS
<1> DEFINE r == a \o b  n == Len(a)  m == Len(b)
<1>1. /\ r \in Seq(States) /\ Len(r) = n + m
      /\ \A i \in 1 .. n : r[i] = a[i]
      /\ \A i \in n + 1 .. n + m : r[i] = b[i - n]
  BY ConcatFacts, Zenon
<1>2. n \in Nat /\ m \in Nat /\ Len(a) = n /\ Len(b) = m
  OBVIOUS
<1> HIDE DEF r, n, m
<1> DEFINE x == SubSeq(r, 1, n)  y == SubSeq(r, n + 1, n + m)
<1>3. x \in Seq(States) /\ Len(x) = n /\ \A i \in 1 .. n : x[i] = r[i]
  BY <1>1, <1>2
<1>4. y \in Seq(States) /\ Len(y) = m /\ \A i \in 1 .. m : y[i] = r[n + i]
  BY <1>1, <1>2
<1> HIDE DEF x, y
<1>5. x = a
  BY <1>1, <1>2, <1>3, SameSequence
<1>6. \A i \in 1 .. m : y[i] = b[i]
  <2> TAKE i \in 1 .. m
  <2>1. n + i \in n + 1 .. n + m /\ (n + i) - n = i
    BY <1>2
  <2> QED
    BY <1>1, <1>4, <2>1
<1>7. y = b
  BY <1>2, <1>4, <1>6, SameSequence
<1> QED
  BY <1>1, <1>5, <1>7 DEF r, n, x, y

\* What the contract's operations do at the place between two parts.
LEMMA ContractOps ==
    \A A \in Seq(Cells), B \in Seq(Cells), v \in Cells, w \in Cells :
      LET u == (A \o <<v>>) \o B
          i == Len(A) + 1
      IN  /\ i \in DOMAIN u /\ u[i] = v
          /\ Contract!RemoveAt(u, i) = A \o B
          /\ Contract!ReplaceAt(u, i, w) = (A \o <<w>>) \o B
          /\ i \in 1 .. Len(A \o B) + 1
          /\ Contract!InsertAt(A \o B, i, v) = u
<1> SUFFICES ASSUME NEW A \in Seq(Cells), NEW B \in Seq(Cells), NEW v \in Cells, NEW w \in Cells
             PROVE  LET u == (A \o <<v>>) \o B
                        i == Len(A) + 1
                    IN  /\ i \in DOMAIN u /\ u[i] = v
                        /\ Contract!RemoveAt(u, i) = A \o B
                        /\ Contract!ReplaceAt(u, i, w) = (A \o <<w>>) \o B
                        /\ i \in 1 .. Len(A \o B) + 1
                        /\ Contract!InsertAt(A \o B, i, v) = u
  BY Zenon
<1> DEFINE n == Len(A)
           i == n + 1
           V == A \o <<v>>
           W == A \o <<w>>
           u == V \o B
           z == W \o B
<1>1. /\ A \in Seq(States) /\ B \in Seq(States) /\ <<v>> \in Seq(States) /\ <<w>> \in Seq(States)
      /\ n \in Nat /\ Len(B) \in Nat
  BY DEF States
<1>2. /\ V \in Seq(States) /\ Len(V) = i /\ V[i] = v /\ \A k \in 1 .. n : V[k] = A[k]
      /\ W \in Seq(States) /\ Len(W) = i /\ W[i] = w /\ \A k \in 1 .. n : W[k] = A[k]
  BY <1>1
<1>3. /\ SubSeq(V, 1, n) = A /\ SubSeq(A \o B, 1, n) = A
      /\ SubSeq(A \o B, n + 1, Len(A \o B)) = B
  BY <1>1, Halves, Zenon
<1> HIDE DEF V, W, n
<1>4. /\ u \in Seq(States) /\ Len(u) = i + Len(B) /\ DOMAIN u = 1 .. i + Len(B)
      /\ \A k \in 1 .. i : u[k] = V[k]
      /\ \A k \in i + 1 .. i + Len(B) : u[k] = B[k - i]
  <2>1. /\ u \in Seq(States) /\ Len(u) = Len(V) + Len(B) /\ DOMAIN u = 1 .. Len(V) + Len(B)
        /\ \A k \in 1 .. Len(V) : u[k] = V[k]
        /\ \A k \in Len(V) + 1 .. Len(V) + Len(B) : u[k] = B[k - Len(V)]
    BY <1>1, <1>2, ConcatFacts, ZenonT(60)
  <2> QED
    BY <1>2, <2>1
<1>5. /\ z \in Seq(States) /\ Len(z) = i + Len(B)
      /\ \A k \in 1 .. i : z[k] = W[k]
      /\ \A k \in i + 1 .. i + Len(B) : z[k] = B[k - i]
  <2>1. /\ z \in Seq(States) /\ Len(z) = Len(W) + Len(B)
        /\ \A k \in 1 .. Len(W) : z[k] = W[k]
        /\ \A k \in Len(W) + 1 .. Len(W) + Len(B) : z[k] = B[k - Len(W)]
    BY <1>1, <1>2, ConcatFacts, ZenonT(60)
  <2> QED
    BY <1>2, <2>1
<1>6. SubSeq(u, i + 1, Len(u)) = B
  <2>1. SubSeq(u, Len(V) + 1, Len(u)) = B
    BY <1>1, <1>2, Halves, Zenon
  <2> QED
    BY <1>2, <2>1
<1> HIDE DEF u, z
<1>7. i \in DOMAIN u /\ u[i] = v
  BY <1>1, <1>2, <1>4
<1>8. SubSeq(u, 1, n) = A
  <2> DEFINE x == SubSeq(u, 1, n)
  <2>1. x \in Seq(States) /\ Len(x) = n /\ \A k \in 1 .. n : x[k] = u[k]
    BY <1>1, <1>4
  <2> HIDE DEF x
  <2>2. \A k \in 1 .. n : x[k] = A[k]
    BY <1>1, <1>2, <1>4, <2>1, SMTT(60)
  <2>3. x = A
    BY <1>1, <2>1, <2>2, SameSequence DEF n
  <2> QED
    BY <2>3 DEF x
<1>9. i - 1 = n
  BY <1>1
<1>10. Contract!RemoveAt(u, i) = A \o B
  BY <1>6, <1>8, <1>9 DEF Contract!RemoveAt
<1>11. Contract!ReplaceAt(u, i, w) = z
  <2> DEFINE x == [u EXCEPT ![i] = w]
  <2>1. x \in Seq(States) /\ Len(x) = i + Len(B) /\ x[i] = w
        /\ \A k \in 1 .. i + Len(B) : k # i => x[k] = u[k]
    BY <1>4, <1>7 DEF States
  <2> HIDE DEF x
  <2>2. ASSUME NEW k \in 1 .. i + Len(B) PROVE x[k] = z[k]
    <3>1. CASE k \in 1 .. n
      <4>1. k \in 1 .. i /\ k # i
        BY <1>1, <3>1
      <4> QED
        BY <1>2, <1>4, <1>5, <2>1, <3>1, <4>1
    <3>2. CASE k = i
      <4>1. i \in 1 .. i
        BY <1>1
      <4> QED
        BY <1>2, <1>5, <2>1, <3>2, <4>1
    <3>3. CASE k \in i + 1 .. i + Len(B)
      BY <1>1, <1>4, <1>5, <2>1, <3>3
    <3> QED
      BY <1>1, <3>1, <3>2, <3>3
  <2>3. x = z
    BY <1>5, <2>1, <2>2, SameSequence
  <2> QED
    BY <2>3 DEF x, Contract!ReplaceAt
<1>12. i \in 1 .. Len(A \o B) + 1
  <2>1. Len(A \o B) = n + Len(B)
    BY <1>1, ConcatFacts, ZenonT(60) DEF n
  <2> QED
    BY <1>1, <2>1
<1>13. Contract!InsertAt(A \o B, i, v) = u
  BY <1>3, <1>9 DEF Contract!InsertAt, u, V
<1> QED
  BY <1>7, <1>10, <1>11, <1>12, <1>13 DEF n, u, z, V, W

\* The contract's replacement, by itself.
LEMMA ReplaceMiddle ==
    \A A \in Seq(Cells), B \in Seq(Cells), v \in Cells, w \in Cells :
      Contract!ReplaceAt((A \o <<v>>) \o B, Len(A) + 1, w) = (A \o <<w>>) \o B
BY ONLY ContractOps, ZenonT(60)

-----------------------------------------------------------------------------
\* The states of the nodes a sequence lists.
StatesOf(s) == [k \in DOMAIN s |-> state[s[k]]]

\* Content, from the sequence of attached nodes.
ContentListed == TypeOK => \A s \in Seq(Cells) : Lists(s) => Content = Sift(StatesOf(s))

\* Content is that of any sequence that lists the attached nodes.
LEMMA ContentIs == ContentListed
<1> SUFFICES ASSUME TypeOK, NEW s \in Seq(Cells), Lists(s)
             PROVE  Content = Sift(StatesOf(s))
  BY DEF ContentListed
<1>1. Cardinality(Chain) = Len(s) /\ Len(s) \in 0 .. MaxCells
  BY ChainCount
<1>2. \A k \in 0 .. MaxCells + 1 :
        Walk[k] = IF k = 0 THEN head ELSE IF k <= Len(s) THEN s[k]
                  ELSE IF k = Len(s) + 1 THEN tail ELSE nil
  BY <1>1, WalkIs
<1>3. \A k \in 1 .. Len(s) : Walk[k] = s[k] /\ s[k] \in Cells
  BY <1>1, <1>2
<1>4. DOMAIN Attached = 1 .. Len(s) /\ \A k \in 1 .. Len(s) : Attached[k] = s[k]
  BY <1>1, <1>3 DEF Attached
<1>5. DOMAIN s = 1 .. Len(s)
  OBVIOUS
<1>6. [k \in DOMAIN Attached |-> IF Attached[k] \in Cells THEN state[Attached[k]] ELSE nil] = StatesOf(s)
  BY <1>3, <1>4, <1>5 DEF StatesOf
<1> QED
  BY <1>6 DEF Content

\* What the list holds, attached and detached.
LEMMA ContentFacts ==
    ASSUME IInv, NEW s \in Seq(Cells), Lists(s)
    PROVE  /\ StatesOf(s) \in Seq(States) /\ Len(StatesOf(s)) = Len(s)
           /\ DOMAIN StatesOf(s) = DOMAIN s /\ DOMAIN s = 1 .. Len(s)
           /\ Content = Sift(StatesOf(s)) /\ Content \in Seq(Cells)
           /\ Contract!ToSet(Content) = {state[n] : n \in Chain} \ {nil}
           /\ Contract!IsInjective(Content)
           /\ Held = Contract!ToSet(Content) \cup Swept
           /\ \A n \in Chain : n \in published /\ state[n] \notin Swept
<1> DEFINE g == StatesOf(s)
<1>1. TypeOK /\ HandedOutOnce /\ published \subseteq Cells
  BY Facts DEF IInv
<1>2. /\ DOMAIN s = 1 .. Len(s) /\ Len(s) \in Nat /\ Members(s) = Chain
      /\ \A i, j \in DOMAIN s : s[i] = s[j] => i = j
  BY DEF Lists
<1>3. \A i \in DOMAIN s : s[i] \in Chain /\ s[i] \in published /\ state[s[i]] \in States
  BY <1>1, <1>2 DEF Members, Chain, TypeOK, States
<1>4. g \in Seq(States) /\ Len(g) = Len(s) /\ DOMAIN g = DOMAIN s
  BY <1>2, <1>3 DEF StatesOf
<1>5. Content = Sift(g)
  BY <1>1, ContentIs DEF ContentListed
<1>6. Members(g) = {state[n] : n \in Chain}
  BY <1>2 DEF StatesOf, Members
<1>7. \A i, j \in DOMAIN g : g[i] = g[j] /\ i # j => g[i] = nil
  BY <1>1, <1>2, <1>3 DEF StatesOf, HandedOutOnce
<1>8. /\ Sift(g) \in Seq(Cells) /\ Members(Sift(g)) = Members(g) \ {nil}
      /\ \A i, j \in DOMAIN Sift(g) : Sift(g)[i] = Sift(g)[j] => i = j
  BY <1>4, <1>7, SiftFacts
<1>9. Contract!ToSet(Content) = {state[n] : n \in Chain} \ {nil}
  BY <1>5, <1>6, <1>8, ZenonT(60) DEF Members, Contract!ToSet
<1>10. Contract!IsInjective(Content)
  BY <1>5, <1>8 DEF Contract!IsInjective
<1>11. Held = Contract!ToSet(Content) \cup Swept
  BY <1>9 DEF Held, Swept, Chain
<1>12. \A n \in Chain : n \in published /\ state[n] \notin Swept
  BY <1>1 DEF Chain, Swept, HandedOutOnce
<1> QED
  BY <1>2, <1>4, <1>5, <1>8, <1>9, <1>10, <1>11, <1>12

-----------------------------------------------------------------------------
(***************************************************************************)
(* The contract, step by step: what a step does to the content of the list *)
(* and to the elements Clears swept away.                                  *)
(***************************************************************************)
\* The same, one step later.
LEMMA ContentNext ==
    ASSUME TypeOK', NEW s \in Seq(Cells), Lists(s)'
    PROVE  Content' = Sift(StatesOf(s)')
<1>1. ContentListed'
  BY ContentIs, PTL
<1> QED
  BY <1>1 DEF ContentListed

Gone == {c \in Cells : out[c] > 0}

\* An element that is private to a goroutine is new to the contract.
LEMMA PrivateIsNew ==
    ASSUME IInv, NEW s \in Seq(Cells), Lists(s), NEW p \in Procs, NEW x \in Private(p)
    PROVE  x \in Cells /\ Contract!New(x) /\ state[x] = x
<1>1. x \in Cells /\ x \notin Held /\ out[x] = 0 /\ state[x] = x
  BY Facts DEF Owned
<1>2. Held = Contract!ToSet(Content) \cup Swept
  BY ContentFacts
<1> QED
  BY <1>1, <1>2 DEF Contract!New, Contract!Known

\* Steps that neither link, detach, take nor replace are invisible.
LEMMA QuietContract ==
    ASSUME IInv, Ordered, NEW p \in Procs, Step(p), ~Take(p), ~Swap(p), ~Swing(p), ~Cut(p)
    PROVE  Content' = Content /\ Swept' = Swept /\ Gone' = Gone /\ epoch' = epoch
<1>1. TypeOK /\ TypeOK' /\ published \subseteq 1 .. used /\ published \subseteq Cells
  BY Facts, TypeStep
<1>2. PICK s \in Seq(Cells) : Lists(s)
  BY DEF Ordered
<1>3. Lists(s)'
  BY <1>2, SameOrder
<1>4. /\ \A n \in published : state'[n] = state[n]
      /\ UNCHANGED <<published, cutAt, out, epoch>>
  <2>1. CASE New(p)
    BY <1>1, <2>1, NewFacts
  <2>2. CASE Link(p)
    BY <2>2 DEF Link, ghost
  <2>3. CASE UNCHANGED <<heap, ghost>>
    BY <2>3 DEF heap, ghost
  <2> QED
    BY <2>1, <2>2, <2>3, Writers
<1>5. \A i \in DOMAIN s : s[i] \in published
  BY <1>2 DEF Lists, Members, Chain
<1>6. StatesOf(s)' = StatesOf(s)
  BY <1>4, <1>5 DEF StatesOf
<1>7. Content' = Content
  BY <1>1, <1>2, <1>3, <1>6, ContentNext, ContentIs DEF ContentListed
<1>8. Swept' = Swept
  BY <1>4 DEF Swept, Chain
<1> QED
  BY <1>4, <1>7, <1>8 DEF Gone

\* What a CAS on a state pointer does to the contract's state: v leaves node n,
\* w, a fresh element or nil, takes its place.
LEMMA StateContract ==
    ASSUME IInv, TypeOK', NEW s \in Seq(Cells), Lists(s), Lists(s)',
           NEW n \in published, NEW v \in Cells, state[n] = v, NEW w \in States,
           w # nil => Contract!New(w),
           state' = [state EXCEPT ![n] = w], out' = [out EXCEPT ![v] = @ + 1],
           UNCHANGED <<published, cutAt, epoch>>
    PROVE  Contract!Next
<1>1. /\ StatesOf(s) \in Seq(States) /\ DOMAIN StatesOf(s) = DOMAIN s
      /\ Content = Sift(StatesOf(s)) /\ Content \in Seq(Cells)
      /\ \A m \in Chain : state[m] \notin Swept
  BY ContentFacts
<1>2. TypeOK /\ Links /\ HandedOutOnce /\ published \subseteq Cells
  BY Facts DEF IInv
<1>3. Gone' = Gone \cup {v}
  BY <1>2 DEF Gone, TypeOK
<1>4. Content' = Sift(StatesOf(s)')
  BY ContentNext
<1>5. Chain' = Chain /\ Chain \subseteq published
  BY DEF Chain
<1>6. /\ \A m \in published : m # n => state'[m] = state[m] /\ state[m] # v
      /\ state'[n] = w
  BY <1>2 DEF HandedOutOnce, TypeOK
<1>7. v # nil /\ (epoch' > 0 <=> epoch > 0)
  OBVIOUS
<1>8. CASE n \in Chain
  <2>1. PICK j \in DOMAIN s : s[j] = n
    BY <1>8 DEF Lists, Members
  <2>2. StatesOf(s)[j] = v
    BY <2>1 DEF StatesOf
  <2>3. StatesOf(s)' = [StatesOf(s) EXCEPT ![j] = w]
    <3>1. ASSUME NEW i \in DOMAIN s PROVE state'[s[i]] = IF i = j THEN w ELSE state[s[i]]
      <4>1. s[i] \in published /\ (s[i] = n => i = j)
        BY <1>5, <2>1 DEF Lists, Members
      <4> QED
        BY <1>6, <2>1, <4>1
    <3> QED
      BY <3>1 DEF StatesOf
  <2>4. PICK A \in Seq(Cells), B \in Seq(Cells) :
          /\ Content = (A \o <<v>>) \o B
          /\ Content' = IF w = nil THEN A \o B ELSE (A \o <<w>>) \o B
    <3>1. \E A \in Seq(Cells), B \in Seq(Cells) :
            /\ Sift(StatesOf(s)) = (A \o <<StatesOf(s)[j]>>) \o B
            /\ Sift([StatesOf(s) EXCEPT ![j] = w]) = IF w = nil THEN A \o B ELSE (A \o <<w>>) \o B
      <4>1. StatesOf(s)[j] # nil /\ j \in DOMAIN StatesOf(s)
        BY <1>1, <1>7, <2>2
      <4>2. StatesOf(s) \in Seq(States)
        BY <1>1
      <4> QED
        BY <4>1, <4>2, SiftOne, ZenonT(60)
    <3> QED
      BY <1>1, <1>4, <2>2, <2>3, <3>1, Zenon
  <2>5. Swept' = Swept
    <3>1. \A m \in published \ Chain : state'[m] = state[m]
      BY <1>6, <1>8
    <3> QED
      BY <1>5, <3>1 DEF Swept
  <2> DEFINE i == Len(A) + 1
  <2>6. /\ i \in DOMAIN Content /\ Content[i] = v
        /\ Contract!RemoveAt(Content, i) = A \o B
        /\ w # nil => Contract!ReplaceAt(Content, i, w) = (A \o <<w>>) \o B
    <3>1. w # nil => w \in Cells
      BY DEF States
    <3>2. /\ i \in DOMAIN Content /\ Content[i] = v
          /\ Contract!RemoveAt(Content, i) = A \o B
      BY <2>4, ContractOps, ZenonT(60)
    <3>3. ASSUME w # nil PROVE Contract!ReplaceAt(Content, i, w) = (A \o <<w>>) \o B
      <4>1. w \in Cells
        BY <3>1, <3>3
      <4>2. Contract!ReplaceAt((A \o <<v>>) \o B, Len(A) + 1, w) = (A \o <<w>>) \o B
        BY <4>1, ReplaceMiddle, ZenonT(60)
      <4> QED
        BY <2>4, <4>2, Zenon
    <3> QED
      BY <3>2, <3>3
  <2> HIDE DEF i
  <2>7. CASE w = nil
    <3>1. Contract!Take(i)
      BY <1>3, <1>7, <2>4, <2>5, <2>6, <2>7 DEF Contract!Take, Gone
    <3> QED
      BY <2>6, <3>1 DEF Contract!Next
  <2>8. CASE w # nil
    <3>1. Contract!Replace(i, w)
      BY <1>3, <1>7, <2>4, <2>5, <2>6, <2>8 DEF Contract!Replace, Gone
    <3>2. w \in Cells
      BY <2>8 DEF States
    <3> QED
      BY <2>6, <3>1, <3>2 DEF Contract!Next
  <2> QED
    BY <2>7, <2>8
<1>9. CASE n \notin Chain
  <2>1. StatesOf(s)' = StatesOf(s)
    <3>1. ASSUME NEW i \in DOMAIN s PROVE state'[s[i]] = state[s[i]]
      <4>1. s[i] \in Chain
        BY DEF Lists, Members
      <4> QED
        BY <1>5, <1>6, <1>9, <4>1
    <3> QED
      BY <3>1 DEF StatesOf
  <2>2. Content' = Content
    BY <1>1, <1>4, <2>1
  <2>3. v \in Swept /\ n \in published \ Chain
    BY <1>7, <1>9 DEF Swept
  <2>4. Swept' = (Swept \ {v}) \cup ({w} \ {nil})
    <3>1. Swept' = {state'[m] : m \in published \ Chain} \ {nil}
      BY <1>5 DEF Swept
    <3>2. \A m \in published \ Chain : m # n => state'[m] = state[m] /\ state[m] # v
      BY <1>6
    <3>3. {state'[m] : m \in published \ Chain} = {state[m] : m \in (published \ Chain) \ {n}} \cup {w}
      BY <1>6, <2>3, <3>2
    <3>4. {state[m] : m \in (published \ Chain) \ {n}} = {state[m] : m \in published \ Chain} \ {v}
      BY <2>3, <3>2
    <3> QED
      BY <3>1, <3>3, <3>4 DEF Swept
  <2>5. epoch > 0
    <3>1. cutAt[n] \in Nat /\ cutAt[n] # 0 /\ cutAt[n] <= epoch /\ epoch \in Nat
      BY <1>2, <1>9 DEF Links, TypeOK, Chain, Nodes
    <3> QED
      BY <3>1
  <2>6. Contract!Late
    <3>1. CASE w = nil
      <4>1. Swept' = Swept \ {v}
        BY <2>4, <3>1
      <4> QED
        BY <1>3, <1>7, <2>2, <2>3, <2>5, <4>1 DEF Contract!Late, Gone
    <3>2. CASE w # nil
      <4>1. Swept' = (Swept \ {v}) \cup {w} /\ w \in Cells /\ Contract!New(w)
        BY <2>4, <3>2 DEF States
      <4> QED
        BY <1>3, <1>7, <2>2, <2>3, <2>5, <4>1 DEF Contract!Late, Gone
    <3> QED
      BY <3>1, <3>2
  <2> QED
    BY <2>6 DEF Contract!Next
<1> QED
  BY <1>8, <1>9

\* Take and Swap are the contract's removal and replacement, or late ones.
LEMMA TakeContract ==
    ASSUME IInv, Ordered, NEW p \in Procs, Take(p) \/ Swap(p)
    PROVE  Contract!Next
<1>1. /\ TypeOK /\ Cursor(p) /\ Control(p) /\ Owned(p) /\ published \subseteq Cells
      /\ cells \in [Procs -> Seq(Cells)]
  BY Facts DEF TypeOK
<1>2. Step(p)
  BY DEF Step
<1>3. TypeOK'
  BY <1>2, TypeStep
<1>4. PICK s \in Seq(Cells) : Lists(s)
  BY DEF Ordered
<1>5. Lists(s)'
  <2>1. pc[p] \in {"take", "swap"}
    BY DEF Take, Swap
  <2>2. ~Swing(p) /\ ~Cut(p)
    BY <2>1 DEF Swing, Cut
  <2> QED
    BY <1>2, <1>4, <2>2, SameOrder
<1>6. at[p] \in published /\ exp[p] \in Cells /\ state[at[p]] = exp[p]
  BY <1>1 DEF Take, Swap, Cursor, Control, Finished
<1>7. CASE Take(p)
  <2>1. /\ state' = [state EXCEPT ![at[p]] = nil] /\ out' = [out EXCEPT ![exp[p]] = @ + 1]
        /\ UNCHANGED <<published, cutAt, epoch>>
    BY <1>7 DEF Take
  <2>2. nil \in States
    BY DEF States
  <2> QED
    BY <1>3, <1>4, <1>5, <1>6, <2>1, <2>2, StateContract
<1>8. CASE Swap(p)
  <2>1. cells[p] # <<>>
    BY <1>1, <1>8 DEF Swap, Control, Finished
  <2>2. cells[p][1] \in Private(p) /\ cells[p][1] \in Cells
    BY <1>1, <2>1, NonEmptySeq DEF Private, Members
  <2>3. PICK w \in States : w = cells[p][1]
    BY <2>2 DEF States
  <2>4. /\ state' = [state EXCEPT ![at[p]] = w] /\ out' = [out EXCEPT ![exp[p]] = @ + 1]
        /\ UNCHANGED <<published, cutAt, epoch>>
    BY <1>8, <2>3 DEF Swap
  <2>5. Contract!New(w)
    BY <1>4, <2>2, <2>3, PrivateIsNew
  <2> QED
    BY <1>3, <1>4, <1>5, <1>6, <2>4, <2>5, StateContract
<1> QED
  BY <1>7, <1>8

\* What the linking CAS does to the content.
LEMMA SwingContent ==
    ASSUME IInv, Ordered, NEW p \in Procs, Swing(p)
    PROVE  IF cutAt[at[p]] # 0
           THEN Content' = Content /\ Swept' = Swept \cup Private(p) /\ epoch > 0
           ELSE /\ Swept' = Swept
                /\ \E A \in Seq(Cells), B \in Seq(Cells) :
                     /\ Content = A \o B /\ Content' = (A \o cells[p]) \o B
                     /\ exp[p] = tail => B = <<>>
<1> DEFINE c == cells[p]
<1>1. /\ TypeOK /\ Links /\ Control(p) /\ Cursor(p) /\ Owned(p)
      /\ published \subseteq Cells
  BY Facts DEF IInv
<1>2. TypeOK'
  BY TypeStep DEF Step
<1>3. /\ published' = published \cup Private(p)
      /\ cutAt' = [m \in Nodes |-> IF m \in Private(p) THEN cutAt[at[p]] ELSE cutAt[m]]
      /\ UNCHANGED <<state, epoch>> /\ pc[p] = "swing"
  BY DEF Swing, Private
<1>4. c \in Seq(Cells) /\ c # <<>> /\ cutAt \in [Nodes -> Nat] /\ epoch \in Nat
  BY <1>1, <1>3 DEF TypeOK, Control, Finished
<1>5. \A x \in Private(p) : /\ x \in Cells /\ x \in Nodes /\ x \notin published
                            /\ state[x] = x /\ x # nil
  BY <1>1, Facts DEF Owned, Nodes
<1>6. \A m \in published : cutAt'[m] = cutAt[m]
  BY <1>1, <1>3, <1>5 DEF Nodes
<1>7. \A x \in Private(p) : cutAt'[x] = cutAt[at[p]]
  BY <1>3, <1>5
<1>8. PICK s \in Seq(Cells) : Lists(s)
  BY DEF Ordered
<1>9. /\ StatesOf(s) \in Seq(States) /\ Len(StatesOf(s)) = Len(s)
      /\ DOMAIN StatesOf(s) = DOMAIN s /\ DOMAIN s = 1 .. Len(s)
      /\ Content = Sift(StatesOf(s))
  BY <1>8, ContentFacts
<1>10. IF cutAt[at[p]] # 0
       THEN Lists(s)'
       ELSE \E j \in 0 .. Len(s), t \in Seq(Cells) :
              /\ t = Splice(s, j, cells[p])
              /\ exp[p] = Follows(s, j)
              /\ Lists(t)'
  BY <1>8, SwingOrders DEF Ordered
<1>11. CASE cutAt[at[p]] # 0
  <2>1. Chain' = Chain
    BY <1>3, <1>6, <1>7, <1>11 DEF Chain
  <2>2. StatesOf(s)' = StatesOf(s)
    BY <1>3 DEF StatesOf
  <2>3. Content' = Content
    BY <1>2, <1>9, <1>10, <1>11, <2>2, ContentNext
  <2>4. Swept' = Swept \cup Private(p)
    <3>1. published' \ Chain' = (published \ Chain) \cup Private(p)
      BY <1>3, <1>5, <2>1 DEF Chain
    <3> QED
      BY <1>3, <1>5, <3>1 DEF Swept
  <2>5. epoch > 0
    <3>1. at[p] \in published \cup {head} /\ at[p] \in Nodes
      BY <1>1 DEF Cursor, Nodes
    <3>2. cutAt[at[p]] \in Nat /\ cutAt[at[p]] <= epoch
      BY <1>1, <1>4, <3>1 DEF Links
    <3> QED
      BY <1>4, <1>11, <3>2
  <2> QED
    BY <1>11, <2>3, <2>4, <2>5
<1>12. CASE cutAt[at[p]] = 0
  <2>1. PICK j \in 0 .. Len(s), t \in Seq(Cells) :
          t = Splice(s, j, c) /\ exp[p] = Follows(s, j) /\ Lists(t)'
    BY <1>10, <1>12
  <2>2. Swept' = Swept
    <3>1. published' \ Chain' = published \ Chain
      BY <1>3, <1>6, <1>7, <1>12 DEF Chain
    <3> QED
      BY <1>3, <3>1 DEF Swept
  <2>3. \A i \in DOMAIN c : c[i] \in Private(p) /\ state[c[i]] = c[i]
    BY <1>5 DEF Private, Members
  <2>4. StatesOf(t)' = Splice(StatesOf(s), j, c)
    <3>1. /\ Len(s) \in Nat /\ Len(c) \in Nat /\ DOMAIN c = 1 .. Len(c) /\ j \in Nat /\ j <= Len(s)
          /\ DOMAIN s = 1 .. Len(s)
      BY <1>4
    <3>2. t = [i \in 1 .. Len(s) + Len(c) |->
                 IF i <= j THEN s[i] ELSE IF i <= j + Len(c) THEN c[i - j] ELSE s[i - Len(c)]]
      BY <2>1 DEF Splice
    <3>3. StatesOf(t)' = [i \in 1 .. Len(s) + Len(c) |-> state[t[i]]]
      BY <1>3, <3>2 DEF StatesOf
    <3> HIDE DEF c
    <3>4. ASSUME NEW i \in 1 .. Len(s) + Len(c)
          PROVE  state[t[i]] = IF i <= j THEN StatesOf(s)[i]
                               ELSE IF i <= j + Len(c) THEN c[i - j] ELSE StatesOf(s)[i - Len(c)]
      <4>1. CASE i <= j
        <5>1. i \in DOMAIN s /\ t[i] = s[i]
          BY <3>1, <3>2, <4>1
        <5> QED
          BY <4>1, <5>1 DEF StatesOf
      <4>2. CASE ~(i <= j) /\ i <= j + Len(c)
        <5>1. i - j \in DOMAIN c /\ t[i] = c[i - j]
          BY <3>1, <3>2, <4>2
        <5> QED
          BY <2>3, <4>2, <5>1
      <4>3. CASE ~(i <= j) /\ ~(i <= j + Len(c))
        <5>1. i - Len(c) \in DOMAIN s /\ t[i] = s[i - Len(c)]
          BY <3>1, <3>2, <4>3
        <5> QED
          BY <4>3, <5>1 DEF StatesOf
      <4>4. (i <= j /\ i <= j + Len(c)) \/ ~(i <= j)
        BY <3>1
      <4> QED
        BY <4>1, <4>2, <4>3, <4>4
    <3> QED
      BY <1>9, <3>3, <3>4 DEF Splice
  <2>5. Content' = Sift(Splice(StatesOf(s), j, c))
    BY <1>2, <2>1, <2>4, ContentNext
  <2>6. PICK A \in Seq(Cells), B \in Seq(Cells) :
          /\ Content = A \o B /\ Content' = (A \o c) \o B
          /\ j = Len(s) => B = <<>>
    <3>1. j \in 0 .. Len(StatesOf(s))
      BY <1>9
    <3>2. \E A \in Seq(Cells), B \in Seq(Cells) :
            /\ Sift(StatesOf(s)) = A \o B
            /\ Sift(Splice(StatesOf(s), j, c)) = (A \o c) \o B
            /\ j = Len(StatesOf(s)) => B = <<>>
      BY <1>4, <1>9, <3>1, SiftSplice, ZenonT(60)
    <3> QED
      BY <1>9, <2>5, <3>2, Zenon
  <2>7. exp[p] = tail => j = Len(s)
    <3> SUFFICES ASSUME j < Len(s), exp[p] = tail PROVE FALSE
      OBVIOUS
    <3>1. j + 1 \in 1 .. Len(s)
      OBVIOUS
    <3>2. s[j + 1] \in Cells
      BY <3>1
    <3> QED
      BY <2>1, <3>2 DEF Follows
  <2> QED
    BY <1>12, <2>2, <2>6, <2>7
<1> QED
  BY <1>11, <1>12

\* The content never holds an element twice.
ContentDistinct == IInv /\ Ordered => Content \in Seq(Cells) /\ Contract!IsInjective(Content)

\* Each element of the content stands in one place.
LEMMA ContentIsDistinct == ContentDistinct
BY ContentFacts DEF ContentDistinct, Ordered

\* A sequence of at most one element that is not empty.
LEMMA OneInSeq ==
    ASSUME NEW S, NEW u \in Seq(S), u # <<>>, Len(u) <= 1
    PROVE  u = <<u[1]>>
<1>0. Len(u) \in Nat /\ 1 \in DOMAIN u
  BY NonEmptySeq
<1>1. Len(u) = 1
  <2> DEFINE n == Len(u)
  <2>1. 1 \in 1 .. n /\ n \in Nat /\ n <= 1
    BY <1>0
  <2> HIDE DEF n
  <2>2. n = 1
    BY <2>1
  <2> QED
    BY <2>2, Zenon DEF n
<1> QED
  BY <1>1, SMTT(30)

\* An append links behind the last attached node.
LEMMA AppendsAtTail ==
    ASSUME IInv, Ordered, NEW p \in Procs, Swing(p), Appending(p)
    PROVE  exp[p] = tail
BY DEF Ordered, Strung, Swing, Finished

\* A batch put at the end of the content is the contract's AddAll.
LEMMA AppendIsAddAll ==
    ASSUME NEW u \in Seq(Cells), NEW c \in Seq(Cells), c # <<>>
    PROVE  /\ Contract!IsStrictPrefix(u, u \o c)
           /\ \A i \in Len(u) + 1 .. Len(u \o c) : (u \o c)[i] \in Members(c)
<1>1. u \in Seq(States) /\ c \in Seq(States)
  BY DEF States
<1> DEFINE r == u \o c  n == Len(u)  m == Len(c)
<1>2. /\ r \in Seq(States) /\ Len(r) = n + m
      /\ \A i \in n + 1 .. n + m : r[i] = c[i - n]
      /\ SubSeq(r, 1, n) = u
  BY <1>1, ConcatFacts, Halves, Zenon
<1>3. n \in Nat /\ m \in Nat /\ m > 0 /\ DOMAIN c = 1 .. m /\ SubSeq(u, 1, n) = u /\ Len(u) = n
  OBVIOUS
<1> HIDE DEF r, n, m
<1>4. n <= Len(r) /\ r # u
  BY <1>2, <1>3
<1>5. Contract!IsStrictPrefix(u, r)
  BY <1>2, <1>3, <1>4 DEF Contract!IsStrictPrefix, Contract!IsPrefix
<1>6. ASSUME NEW i \in n + 1 .. Len(r) PROVE r[i] \in Members(c)
  <2>1. i - n \in DOMAIN c /\ i \in n + 1 .. n + m
    BY <1>2, <1>3
  <2> QED
    BY <1>2, <2>1 DEF Members
<1> QED
  BY <1>5, <1>6 DEF r, n

\* The linking CAS adds an element or a batch to the list, or to what a Clear
\* has detached.
LEMMA SwingContract ==
    ASSUME IInv, Ordered, NEW p \in Procs, Swing(p)
    PROVE  Contract!Next
<1> DEFINE c == cells[p]
<1>1. /\ Control(p) /\ c \in Seq(Cells) /\ c # <<>> /\ pc[p] = "swing"
      /\ call[p].kind \in {"insert", "append", "clear", "sort"}
      /\ UNCHANGED <<out, epoch>>
  BY Facts, ZenonT(60) DEF TypeOK, Swing, Control, Finished, Adders
<1>2. Gone' = Gone /\ (epoch' > 0 <=> epoch > 0)
  BY <1>1 DEF Gone
<1>3. \A x \in Private(p) : x \in Cells /\ Contract!New(x)
  BY PrivateIsNew DEF Ordered
<1>4. IF cutAt[at[p]] # 0
      THEN Content' = Content /\ Swept' = Swept \cup Private(p) /\ epoch > 0
      ELSE /\ Swept' = Swept
           /\ \E A \in Seq(Cells), B \in Seq(Cells) :
                /\ Content = A \o B /\ Content' = (A \o c) \o B
                /\ exp[p] = tail => B = <<>>
  BY SwingContent
<1>5. CASE cutAt[at[p]] # 0
  <2>1. Swept \subseteq Swept' /\ \A x \in Swept' \ Swept : Contract!New(x)
    BY <1>3, <1>4, <1>5
  <2>2. Contract!Late
    BY <1>2, <1>4, <1>5, <2>1 DEF Contract!Late, Gone
  <2> QED
    BY <2>2 DEF Contract!Next
<1>6. CASE cutAt[at[p]] = 0
  <2>1. PICK A \in Seq(Cells), B \in Seq(Cells) :
          /\ Content = A \o B /\ Content' = (A \o c) \o B
          /\ exp[p] = tail => B = <<>>
    BY <1>4, <1>6
  <2>2. CASE call[p].kind = "insert"
    <3>1. c = <<c[1]>> /\ c[1] \in Private(p) /\ c[1] \in Cells
      <4>1. Len(c) <= 1
        BY <1>1, <2>2 DEF Control, Finished
      <4>2. c[1] \in Private(p) /\ c[1] \in Cells
        BY <1>1, NonEmptySeq DEF Private, Members
      <4> HIDE DEF c
      <4>3. c = <<c[1]>>
        BY <1>1, <4>1, OneInSeq
      <4> QED
        BY <4>2, <4>3 DEF c
    <3>2. PICK x \in Cells : x = c[1]
      BY <3>1
    <3>3. Content' = (A \o <<x>>) \o B /\ Contract!New(x)
      BY <1>3, <2>1, <3>1, <3>2
    <3> DEFINE i == Len(A) + 1
    <3>4. i \in 1 .. Len(A \o B) + 1 /\ Contract!InsertAt(A \o B, i, x) = (A \o <<x>>) \o B
      BY ContractOps, ZenonT(60)
    <3> HIDE DEF i
    <3>5. Contract!Insert(i, x)
      BY <1>2, <1>4, <1>6, <2>1, <3>3, <3>4 DEF Contract!Insert, Gone
    <3>6. i \in 1 .. Len(Content) + 1
      BY <2>1, <3>4
    <3> QED
      BY <3>5, <3>6 DEF Contract!Next
  <2>3. CASE call[p].kind # "insert"
    <3>1. Appending(p)
      BY <1>1, <2>3 DEF Appending
    <3>2. B = <<>>
      BY <2>1, <3>1, AppendsAtTail
    <3>3. Content' = Content \o c
      <4>1. A \o B = A /\ (A \o c) \o B = A \o c
        BY <1>1, <3>2
      <4> QED
        BY <2>1, <4>1
    <3>4. Content \in Seq(Cells)
      BY ContentIsDistinct DEF ContentDistinct
    <3>5. /\ Contract!IsStrictPrefix(Content, Content')
          /\ \A i \in Len(Content) + 1 .. Len(Content') : Contract!New(Content'[i])
      <4> HIDE DEF c
      <4>1. /\ Contract!IsStrictPrefix(Content, Content \o c)
            /\ \A i \in Len(Content) + 1 .. Len(Content \o c) : (Content \o c)[i] \in Members(c)
        BY <1>1, <3>4, AppendIsAddAll
      <4>2. Members(c) = Private(p)
        BY DEF c, Private
      <4> QED
        BY <1>3, <3>3, <4>1, <4>2
    <3>6. Contract!IsInjective(Content')
      <4>1. IInv' /\ Ordered'
        BY StepIInv, OrderStep DEF Step
      <4>2. ContentDistinct'
        BY ContentIsDistinct, PTL
      <4> QED
        BY <4>1, <4>2 DEF ContentDistinct
    <3>7. Contract!AddAll
      BY <1>2, <1>4, <1>6, <3>5, <3>6 DEF Contract!AddAll, Gone
    <3> QED
      BY <3>7 DEF Contract!Next
  <2> QED
    BY <2>2, <2>3
<1> QED
  BY <1>5, <1>6

\* Cut is the contract's Clear.
LEMMA CutContract ==
    ASSUME IInv, Ordered, NEW p \in Procs, Cut(p)
    PROVE  Contract!Next
<1>1. /\ TypeOK /\ TypeOK' /\ Links /\ published \subseteq Cells /\ epoch \in Nat
      /\ cutAt \in [Nodes -> Nat]
  BY Facts, TypeStep DEF IInv, TypeOK, Step
<1>2. PICK s \in Seq(Cells) : Lists(s)
  BY DEF Ordered
<1>3. /\ next' = [next EXCEPT ![head] = tail]
      /\ cutAt' = [n \in Nodes |-> IF n \in Chain THEN epoch + 1 ELSE cutAt[n]]
      /\ epoch' = epoch + 1 /\ UNCHANGED <<state, published, out>>
  BY DEF Cut
<1>4. Chain' = {}
  BY <1>1, <1>3 DEF Chain, Nodes
<1>5. PICK e \in Seq(Cells) : e = <<>>
  <2>1. <<>> \in Seq(Cells)
    OBVIOUS
  <2> QED
    BY <2>1, Zenon
<1>6. Lists(e)'
  BY <1>1, <1>3, <1>4, <1>5 DEF Lists, Follows, Members, Nodes, TypeOK
<1>7. Content' = <<>>
  <2>1. Content' = Sift(StatesOf(e)')
    BY <1>1, <1>6, ContentNext
  <2>2. StatesOf(e)' = <<>>
    BY <1>5 DEF StatesOf
  <2> QED
    BY <2>1, <2>2, SiftAppend
<1>8. Swept' = Swept \cup Contract!ToSet(Content)
  <2>1. Contract!ToSet(Content) = {state[n] : n \in Chain} \ {nil}
    BY <1>2, ContentFacts
  <2>2. Swept' = {state[n] : n \in published} \ {nil}
    BY <1>3, <1>4 DEF Swept
  <2> QED
    BY <2>1, <2>2 DEF Swept, Chain
<1>9. Contract!Clear
  <2>1. epoch' > 0 /\ Gone' = Gone
    BY <1>1, <1>3 DEF Gone
  <2> QED
    BY <1>7, <1>8, <2>1 DEF Contract!Clear, Gone
<1> QED
  BY <1>9 DEF Contract!Next

\* Every step of every goroutine is a step of the contract, or none.
LEMMA StepContract ==
    ASSUME IInv, Ordered, NEW p \in Procs, Step(p)
    PROVE  [Contract!Next]_Contract!listVars
<1>1. CASE Take(p) \/ Swap(p)
  BY <1>1, TakeContract
<1>2. CASE Swing(p)
  BY <1>2, SwingContract
<1>3. CASE Cut(p)
  BY <1>3, CutContract
<1>4. CASE ~Take(p) /\ ~Swap(p) /\ ~Swing(p) /\ ~Cut(p)
  <2>1. Content' = Content /\ Swept' = Swept /\ Gone' = Gone /\ epoch' = epoch
    BY <1>4, QuietContract
  <2> QED
    BY <2>1 DEF Contract!listVars, Gone
<1> QED
  BY <1>1, <1>2, <1>3, <1>4

\* The constructor's list is one the contract may begin with.
LEMMA InitContract == Init => Contract!Init
<1> SUFFICES ASSUME Init PROVE Contract!Init
  OBVIOUS
<1>1. IInv /\ Ordered
  BY InitIInv, InitOrdered
<1>2. Content \in Seq(Cells)
  BY <1>1, ContentIsDistinct DEF ContentDistinct
<1>3. Content \in [1 .. Len(Content) -> Cells]
  BY <1>2
<1>4. Swept = {}
  <2>1. published \subseteq Nodes
    BY <1>1, Facts DEF Nodes
  <2> QED
    BY <2>1 DEF Init, Swept, Chain
<1>5. {c \in Cells : out[c] > 0} = {} /\ ~(epoch > 0)
  BY DEF Init
<1> QED
  BY <1>3, <1>4, <1>5 DEF Contract!Init

\* A step that changes no variable changes nothing the contract sees.
LEMMA StutterContract ==
    ASSUME IInv, Ordered, UNCHANGED vars
    PROVE  UNCHANGED Contract!listVars
<1>1. UNCHANGED <<next, state, published, cutAt, out, epoch>>
  BY DEF vars, heap, ghost
<1>2. PICK s \in Seq(Cells) : Lists(s)
  BY DEF Ordered
<1>3. Lists(s)' /\ StatesOf(s)' = StatesOf(s)
  BY <1>1, <1>2 DEF Lists, Follows, Chain, StatesOf
<1>4. TypeOK /\ TypeOK'
  BY NextIInv DEF IInv
<1>5. Content' = Content
  BY <1>2, <1>3, <1>4, ContentNext, ContentIs DEF ContentListed
<1> QED
  BY <1>1, <1>5 DEF Contract!listVars, Swept, Chain

(* lockFreeList implements the contract: for the elements the list holds,  *)
(* each step of each goroutine - a load, a CAS that succeeds or fails, a   *)
(* retry - is one whole Add, Insert, removal, Set or Clear of a list that  *)
(* changes atomically, a late call on what a Clear swept, or nothing.      *)
THEOREM KeepsTheContract == Spec => ImplementsContract
<1>1. Init => IInv /\ Ordered /\ Contract!Init
  BY InitIInv, InitOrdered, InitContract
<1>2. IInv /\ Ordered /\ [Next]_vars => IInv' /\ Ordered' /\ [Contract!Next]_Contract!listVars
  <2> SUFFICES ASSUME IInv, Ordered, [Next]_vars
               PROVE  IInv' /\ Ordered' /\ [Contract!Next]_Contract!listVars
    OBVIOUS
  <2>1. CASE \E p \in Procs : Step(p)
    BY <2>1, NextOrdered, StepContract
  <2>2. CASE UNCHANGED vars
    BY <2>2, NextOrdered, StutterContract
  <2> QED
    BY <2>1, <2>2 DEF Next, Terminated
<1> QED
  BY <1>1, <1>2, PTL DEF Spec, ImplementsContract, Contract!Spec

\* Only the linking CAS takes a chain away from a goroutine that is about to
\* link it.
LEMMA OnlySwingLinks ==
    ASSUME IInv, NEW p \in Procs, pc[p] = "swing", cells[p] # <<>>, cells'[p] = <<>>, [Next]_vars
    PROVE  Swing(p)
<1>1. cells \in [Procs -> Seq(Cells)]
  BY DEF IInv, TypeOK
<1>2. PICK q \in Procs : Step(q)
  <2>1. cells' # cells
    OBVIOUS
  <2> QED
    BY <2>1 DEF Next, Terminated, vars
<1>3. q = p
  BY <1>2, OthersKeep DEF IInv
<1>4. SwingFails(p) => cells' = cells
  BY SMTT(60) DEF SwingFails
<1>5. CASE ~Swing(p)
  BY <1>1, <1>2, <1>3, <1>4, <1>5 DEF Step, Call, New, Advance, Exhausted, NotFound, SweptAll,
     PickLast, AtEnd, SkipDeleted, Pass, Select, Take, TakeFails, TakeRestarts, Swap, SwapFails,
     Reload, SetRestarts, Link, ClearLoad, Cut, CutFails, Finished
<1> QED
  BY <1>5

(* BatchGoesLast, for any goroutines and calls: a batch lands in one piece *)
(* behind everything the list holds, or a Clear has swept it whole.        *)
THEOREM BatchesGoLast == Spec => BatchGoesLast
<1> DEFINE A == \A p \in Procs :
                  pc[p] = "swing" /\ Appending(p) /\ cells'[p] = <<>>
                    => \/ Content' = Content \o cells[p]
                       \/ Content' = Content /\ Members(cells[p]) \subseteq Swept'
<1>1. Init => IInv /\ Ordered
  BY InitIInv, InitOrdered
<1>2. IInv /\ Ordered /\ [Next]_vars => IInv' /\ Ordered'
  BY NextOrdered
<1>3. IInv /\ Ordered /\ [Next]_vars => A
  <2> SUFFICES ASSUME IInv, Ordered, [Next]_vars, NEW p \in Procs,
                      pc[p] = "swing", Appending(p), cells'[p] = <<>>
               PROVE  \/ Content' = Content \o cells[p]
                      \/ Content' = Content /\ Members(cells[p]) \subseteq Swept'
    OBVIOUS
  <2>1. Swing(p)
    BY OnlySwingLinks DEF Appending
  <2>2. exp[p] = tail /\ cells[p] \in Seq(Cells)
    BY <2>1, AppendsAtTail DEF IInv, TypeOK
  <2>3. CASE cutAt[at[p]] # 0
    BY <2>1, <2>3, SwingContent DEF Private
  <2>4. CASE cutAt[at[p]] = 0
    <3>1. PICK L \in Seq(Cells) : Content = L \o <<>> /\ Content' = (L \o cells[p]) \o <<>>
      BY <2>1, <2>2, <2>4, SwingContent
    <3> QED
      BY <2>2, <3>1
  <2> QED
    BY <2>3, <2>4
<1> QED
  BY <1>1, <1>2, <1>3, PTL DEF Spec, BatchGoesLast

-----------------------------------------------------------------------------
(***************************************************************************)
(* What the calls answer.  Published nodes follow each other in an order   *)
(* that steps extend and never change: the part of it that a walk has left *)
(* behind only grows by nodes it has looked at, or that did not stay.      *)
(***************************************************************************)
\* The nodes NewLockFreeListFrom links are ordered as their names are.
LEMMA InitOrders ==
    ASSUME Init
    PROVE  \E R \in SUBSET (Cells \X Cells) : Orders(R)
<1> DEFINE N == Len(Initial)
           R == {e \in (1 .. N) \X (1 .. N) : e[1] < e[2]}
<1>1. /\ N \in Nat /\ N <= MaxCells /\ 1 .. N \subseteq Cells
      /\ (Initial = <<>> <=> N = 0)
  BY InitialAssumption DEF Cells
<1>2. /\ published = 1 .. N /\ next \in [Nodes -> Cells \cup {tail, nil}]
      /\ next[head] = IF N = 0 THEN tail ELSE 1
      /\ \A a \in 1 .. N : next[a] = IF a < N THEN a + 1 ELSE tail
  BY <1>1, InitIInv, Facts, SMTT(60) DEF Init, Nodes, TypeOK
<1>3. \A a, b \in 1 .. N : <<a, b>> \in R <=> a < b
  OBVIOUS
<1>4. R \subseteq (1 .. N) \X (1 .. N)
  OBVIOUS
<1>5. \A a \in 1 .. N : a \in Int /\ a >= 1 /\ a <= N
  BY <1>1
<1> HIDE DEF N, R
<1>6. \A a, b, c \in 1 .. N : <<a, b>> \in R /\ <<b, c>> \in R => <<a, c>> \in R
  BY <1>3, <1>5
<1>7. \A a \in 1 .. N : next[a] \in Cells => <<a, next[a]>> \in R
  BY <1>1, <1>2, <1>3
<1>8. \A a, n \in 1 .. N : <<a, n>> \in R => next[a] \in Cells /\ (n = next[a] \/ <<next[a], n>> \in R)
  BY <1>1, <1>2, <1>3
<1>9. \A n \in 1 .. N : next[head] \in Cells /\ (n = next[head] \/ <<next[head], n>> \in R)
  BY <1>1, <1>2, <1>3
<1>10. Orders(R)
  BY <1>2, <1>3, <1>4, <1>5, <1>6, <1>7, <1>8, <1>9 DEF Orders, Chain
<1> QED
  BY <1>1, <1>4, <1>10

\* Two sequences of distinct nodes: the order of the private chain.
InOrder(c) == {e \in Members(c) \X Members(c) : \E i, j \in DOMAIN c : i < j /\ e = <<c[i], c[j]>>}

\* The order within a private chain about to be linked.
LEMMA StrungOrder ==
    ASSUME TypeOK, NEW p \in Procs, Strung(p), pc[p] = "swing", cells[p] # <<>>
    PROVE  LET c == cells[p]
               P == Private(p)
               S == InOrder(c)
           IN  /\ S \subseteq P \X P
               /\ c[1] \in P
               /\ \A a \in P : <<a, a>> \notin S
               /\ \A a, b, d \in P : <<a, b>> \in S /\ <<b, d>> \in S => <<a, d>> \in S
               /\ \A a \in P : \/ next[a] = exp[p] /\ \A b \in P : <<a, b>> \notin S
                               \/ /\ next[a] \in P /\ <<a, next[a]>> \in S
                                  /\ \A b \in P : <<a, b>> \in S => b = next[a] \/ <<next[a], b>> \in S
               /\ \A a \in P : a = c[1] \/ <<c[1], a>> \in S
<1> DEFINE c == cells[p]  P == Private(p)  S == InOrder(c)  m == Len(c)
<1>1. /\ c \in Seq(Cells) /\ m \in Nat /\ m > 0 /\ DOMAIN c = 1 .. m
  BY DEF TypeOK
<1>2. /\ \A i, j \in 1 .. m : c[i] = c[j] => i = j
      /\ \A i \in 1 .. m : i < m => next[c[i]] = c[i + 1]
      /\ next[c[m]] = exp[p]
  BY <1>1 DEF Strung
<1>3. P = {c[i] : i \in 1 .. m}
  BY <1>1 DEF Private, Members
<1>4. \A i, j \in 1 .. m : <<c[i], c[j]>> \in S <=> i < j
  BY <1>1, <1>2, ZenonT(60) DEF InOrder, Members
<1>5. S \subseteq P \X P
  BY DEF InOrder, Private
<1> HIDE DEF c, P, S, m
<1>6. c[1] \in P
  BY <1>1, <1>3
<1>7. \A a \in P : <<a, a>> \notin S
  BY <1>1, <1>3, <1>4
<1>8. ASSUME NEW a \in P, NEW b \in P, NEW d \in P, <<a, b>> \in S, <<b, d>> \in S
      PROVE  <<a, d>> \in S
  <2>1. PICK i, j, k \in 1 .. m : a = c[i] /\ b = c[j] /\ d = c[k]
    BY <1>3
  <2> QED
    BY <1>4, <1>8, <2>1
<1>9. ASSUME NEW a \in P
      PROVE  \/ next[a] = exp[p] /\ \A b \in P : <<a, b>> \notin S
             \/ /\ next[a] \in P /\ <<a, next[a]>> \in S
                /\ \A b \in P : <<a, b>> \in S => b = next[a] \/ <<next[a], b>> \in S
  <2>1. PICK i \in 1 .. m : a = c[i]
    BY <1>3
  <2>2. CASE i = m
    <3>1. \A j \in 1 .. m : ~(m < j)
      BY <1>1
    <3> QED
      BY <1>2, <1>3, <1>4, <2>1, <2>2, <3>1
  <2>3. CASE i < m
    <3>1. i + 1 \in 1 .. m /\ next[a] = c[i + 1] /\ i < i + 1
      BY <1>1, <1>2, <2>1, <2>3
    <3>2. \A j \in 1 .. m : i < j => j = i + 1 \/ i + 1 < j
      OBVIOUS
    <3> QED
      BY <1>3, <1>4, <2>1, <3>1, <3>2
  <2> QED
    BY <1>1, <2>2, <2>3
<1>10. ASSUME NEW a \in P PROVE a = c[1] \/ <<c[1], a>> \in S
  <2>1. PICK i \in 1 .. m : a = c[i]
    BY <1>3
  <2> QED
    BY <1>1, <1>4, <2>1
<1> QED
  BY <1>5, <1>6, <1>7, <1>8, <1>9, <1>10 DEF c, P, S

\* The members of a pair.
LEMMA PairIn == \A A, B, a, b : <<a, b>> \in A \X B => a \in A /\ b \in B
OBVIOUS

\* The linking CAS keeps the nodes in an order, and those that were in one.
LEMMA SwingKeepsOrder ==
    ASSUME IInv, NEW R, Orders(R), NEW p \in Procs, Strung(p), Swing(p)
    PROVE  \E Q \in SUBSET (Cells \X Cells) : R \subseteq Q /\ Orders(Q)'
<1> DEFINE n == at[p]
           x == exp[p]
           P == Private(p)
           S == InOrder(cells[p])
           Up == {a \in published : a = n \/ <<a, n>> \in R}
           Down == {b \in published : b = x \/ <<x, b>> \in R}
           Q == ((R \cup (Up \X P)) \cup (P \X Down)) \cup S
<1> DEFINE f == cells[p][1]
<1>1. /\ TypeOK /\ Links /\ Control(p) /\ Cursor(p) /\ Owned(p) /\ published \subseteq Cells
      /\ next \in [Nodes -> Cells \cup {tail, nil}] /\ cells[p] # <<>> /\ pc[p] = "swing"
  BY Facts DEF IInv, TypeOK, Swing, Control, Finished
<1>2. /\ next[n] = x /\ next' = [next EXCEPT ![n] = f]
      /\ published' = published \cup P
      /\ cutAt' = [m \in Nodes |-> IF m \in P THEN cutAt[n] ELSE cutAt[m]]
  BY DEF Swing, Private
<1>3. /\ S \subseteq P \X P /\ f \in P
      /\ \A a \in P : <<a, a>> \notin S
      /\ \A a, b, d \in P : <<a, b>> \in S /\ <<b, d>> \in S => <<a, d>> \in S
      /\ \A a \in P : \/ next[a] = x /\ \A b \in P : <<a, b>> \notin S
                      \/ /\ next[a] \in P /\ <<a, next[a]>> \in S
                         /\ \A b \in P : <<a, b>> \in S => b = next[a] \/ <<next[a], b>> \in S
      /\ \A a \in P : a = f \/ <<f, a>> \in S
  BY <1>1, StrungOrder
<1>4. \A a \in P : a \in Cells /\ a \notin published
  BY <1>1, Facts DEF Owned
<1>5. n \in published \cup {head} /\ head \notin Cells /\ Cells \subseteq Nodes /\ head \in Nodes
  BY <1>1 DEF Cursor, Nodes
<1>6. /\ R \subseteq published \X published
      /\ \A a \in published : <<a, a>> \notin R
      /\ \A a, b, d \in published : <<a, b>> \in R /\ <<b, d>> \in R => <<a, d>> \in R
      /\ \A a \in published : next[a] \in Cells => <<a, next[a]>> \in R
      /\ \A a, m \in published :
           <<a, m>> \in R => next[a] \in Cells /\ (m = next[a] \/ <<next[a], m>> \in R)
      /\ \A m \in Chain : next[head] \in Cells /\ (m = next[head] \/ <<next[head], m>> \in R)
  BY DEF Orders
<1>7. /\ \A a \in published \cup {head} : next[a] \in Cells => next[a] \in published
      /\ \A a, b : <<a, b>> \in R => a \in published /\ b \in published
  BY <1>1, <1>6 DEF Links
<1>8. /\ \A a \in published \cup {head} : a # n => next'[a] = next[a]
      /\ next'[n] = f
      /\ \A a \in P : next'[a] = next[a]
  BY <1>1, <1>2, <1>4, <1>5
<1> HIDE DEF n, x, P, S, f
<1>10. \A a \in Up, b \in Down : <<a, b>> \in R
  <2> SUFFICES ASSUME NEW a \in published, a = n \/ <<a, n>> \in R,
                      NEW b \in published, b = x \/ <<x, b>> \in R
               PROVE  <<a, b>> \in R
    OBVIOUS
  <2>1. n \in published /\ x \in published
    BY <1>7
  <2>2. <<n, x>> \in R
    BY <1>1, <1>2, <1>6, <2>1
  <2>3. <<a, x>> \in R
    BY <1>6, <2>1, <2>2
  <2> QED
    BY <1>6, <2>1, <2>3
<1>11. /\ \A a \in published : \A b \in Up : <<a, b>> \in R => a \in Up
       /\ \A b \in published : \A a \in Down : <<a, b>> \in R => b \in Down
  BY <1>5, <1>6, <1>7
<1> DEFINE U == Up  D == Down
<1>12. /\ U \subseteq published /\ D \subseteq published
       /\ (n \in published => n \in U)
       /\ (x \in Cells => x \in D)
       /\ \A a \in U : a = n \/ <<a, n>> \in R
       /\ \A b \in D : b = x \/ <<x, b>> \in R
       /\ \A b \in published : b = x \/ <<x, b>> \in R => b \in D
       /\ \A b \in D : x \in Cells
  BY <1>1, <1>2, <1>5, <1>6, <1>7
<1>13. /\ \A a \in U, b \in D : <<a, b>> \in R
       /\ \A a \in published : \A b \in U : <<a, b>> \in R => a \in U
       /\ \A b \in published : \A a \in D : <<a, b>> \in R => b \in D
  BY <1>10, <1>11
<1> HIDE DEF Up, Down, U, D
<1>9. /\ Q = ((R \cup (U \X P)) \cup (P \X D)) \cup S
      /\ Q \subseteq (published \cup P) \X (published \cup P)
  BY <1>3, <1>6, <1>12 DEF U, D
<1>22. /\ R \subseteq Q /\ S \subseteq Q
       /\ \A a \in U, b \in P : <<a, b>> \in Q
       /\ \A a \in P, b \in D : <<a, b>> \in Q
  BY <1>9
<1>23. ASSUME NEW a, NEW b, <<a, b>> \in Q
       PROVE  \/ <<a, b>> \in R
              \/ a \in U /\ b \in P
              \/ a \in P /\ b \in D
              \/ <<a, b>> \in S
  <2> HIDE DEF Q
  <2>1. \/ <<a, b>> \in R \/ <<a, b>> \in U \X P
        \/ <<a, b>> \in P \X D \/ <<a, b>> \in S
    BY <1>9, <1>23, Zenon
  <2> QED
    BY <2>1, PairIn, Zenon
<1> HIDE DEF Q
<1>14. \A a, b : <<a, b>> \in S => a \in P /\ b \in P
  BY <1>3
<1>15. \A a \in published' : <<a, a>> \notin Q
  BY <1>2, <1>3, <1>4, <1>6, <1>7, <1>12, <1>13, <1>22, <1>23, <1>14
<1>16. ASSUME NEW a \in published', NEW b \in published', NEW d \in published',
              <<a, b>> \in Q, <<b, d>> \in Q
       PROVE  <<a, d>> \in Q
  <2>1. CASE b \in published
    <3>1. /\ <<a, b>> \in R \/ (a \in P /\ b \in D)
          /\ <<b, d>> \in R \/ (b \in U /\ d \in P)
      BY <1>4, <1>12, <1>13, <1>22, <1>23, <1>14, <1>16, <2>1
    <3> QED
      BY <1>6, <1>7, <1>12, <1>13, <1>22, <1>23, <2>1, <3>1, ZenonT(60)
  <2>2. CASE b \in P
    <3>1. (a \in U \/ <<a, b>> \in S) /\ (d \in D \/ <<b, d>> \in S)
      BY <1>4, <1>7, <1>12, <1>13, <1>22, <1>23, <1>14, <1>16, <2>2
    <3> QED
      BY <1>3, <1>13, <1>22, <1>23, <1>14, <2>2, <3>1
  <2> QED
    BY <1>2, <2>1, <2>2
<1>17. ASSUME NEW a \in published', next'[a] \in Cells PROVE <<a, next'[a]>> \in Q
  <2>1. CASE a \in published
    BY <1>3, <1>6, <1>8, <1>12, <1>13, <1>22, <1>23, <1>17, <2>1
  <2>2. CASE a \in P
    BY <1>3, <1>8, <1>12, <1>13, <1>22, <1>23, <1>17, <2>2
  <2> QED
    BY <1>2, <2>1, <2>2
<1>18. ASSUME NEW a \in published', NEW m \in published', <<a, m>> \in Q
       PROVE  next'[a] \in Cells /\ (m = next'[a] \/ <<next'[a], m>> \in Q)
  <2>1. CASE <<a, m>> \in R /\ a # n
    BY <1>6, <1>7, <1>8, <1>13, <1>22, <1>23, <2>1
  <2>2. CASE <<a, m>> \in R /\ a = n
    <3>1. a \in published /\ m \in published
      BY <1>7, <2>2
    <3>2. next[a] \in Cells /\ (m = next[a] \/ <<next[a], m>> \in R)
      BY <1>6, <2>2, <3>1
    <3>3. m \in D
      BY <1>2, <1>12, <2>2, <3>1, <3>2
    <3> QED
      BY <1>3, <1>4, <1>8, <1>22, <2>2, <3>3
  <2>3. CASE a \in U /\ m \in P /\ a = n
    BY <1>3, <1>4, <1>8, <1>22, <2>3
  <2>4. CASE a \in U /\ m \in P /\ a # n
    <3>1. <<a, n>> \in R /\ a \in published /\ n \in published
      BY <1>7, <1>12, <2>4
    <3>2. next[a] \in Cells /\ (n = next[a] \/ <<next[a], n>> \in R) /\ next[a] \in published
      BY <1>6, <1>7, <3>1
    <3>3. next[a] \in U
      BY <1>12, <1>13, <1>22, <1>23, <3>1, <3>2
    <3> QED
      BY <1>8, <1>13, <1>22, <1>23, <2>4, <3>1, <3>2, <3>3
  <2>5. CASE a \in P /\ m \in D
    BY <1>3, <1>4, <1>8, <1>12, <1>22, <2>5, ZenonT(60)
  <2>6. CASE <<a, m>> \in S
    <3>1. a \in P /\ m \in P /\ next'[a] = next[a]
      BY <1>8, <1>14, <2>6
    <3>2. next[a] \in P /\ (m = next[a] \/ <<next[a], m>> \in S)
      BY <1>3, <2>6, <3>1
    <3> QED
      BY <1>4, <1>22, <3>1, <3>2
  <2>7. <<a, m>> \in R \/ (a \in U /\ m \in P) \/ (a \in P /\ m \in D) \/ <<a, m>> \in S
    BY <1>18, <1>23, Zenon
  <2> QED
    BY <2>1, <2>2, <2>3, <2>4, <2>5, <2>6, <2>7, Zenon
<1>19. ASSUME NEW m \in Chain' PROVE next'[head] \in Cells /\ (m = next'[head] \/ <<next'[head], m>> \in Q)
  <2>1. m \in published \cup P /\ cutAt'[m] = 0 /\ head \notin published
    BY <1>1, <1>2, <1>5 DEF Chain
  <2>2. CASE m \in P
    <3>1. cutAt[n] = 0
      BY <1>2, <1>4, <1>5, <2>1, <2>2
    <3>2. CASE n = head
      BY <1>3, <1>4, <1>8, <1>13, <1>22, <1>23, <2>2, <3>2
    <3>3. CASE n # head
      <4>1. n \in Chain /\ n \in published
        BY <1>5, <3>1, <3>3 DEF Chain
      <4>2. next[head] \in Cells /\ (n = next[head] \/ <<next[head], n>> \in R)
        BY <1>6, <4>1
      <4>3. next[head] \in U
        BY <1>7, <1>12, <1>13, <1>22, <1>23, <4>1, <4>2
      <4> QED
        BY <1>8, <1>13, <1>22, <1>23, <2>2, <3>3, <4>2, <4>3
    <3> QED
      BY <3>2, <3>3
  <2>3. CASE m \in published
    <3>1. m \in Chain
      BY <1>1, <1>2, <1>4, <1>5, <2>1, <2>3 DEF Chain
    <3>2. next[head] \in Cells /\ (m = next[head] \/ <<next[head], m>> \in R)
      BY <1>6, <3>1
    <3>3. CASE n = head
      <4>1. m \in D
        BY <1>2, <1>12, <2>3, <3>2, <3>3
      <4> QED
        BY <1>3, <1>4, <1>8, <1>13, <1>22, <1>23, <3>3, <4>1
    <3>4. CASE n # head
      BY <1>8, <1>13, <1>22, <1>23, <3>2, <3>4
    <3> QED
      BY <3>3, <3>4
  <2> QED
    BY <2>1, <2>2, <2>3
<1>20. Q \in SUBSET (Cells \X Cells) /\ R \subseteq Q /\ Q \subseteq published' \X published'
  BY <1>1, <1>2, <1>4, <1>6, <1>7, <1>9, <1>22
<1>21. PICK q \in SUBSET (Cells \X Cells) : q = Q
  BY <1>20
<1>24. Orders(q)'
  BY <1>15, <1>16, <1>17, <1>18, <1>19, <1>20, <1>21 DEF Orders
<1> QED
  BY <1>20, <1>21, <1>24

\* No step takes two nodes out of their order.
LEMMA OrdersStep ==
    ASSUME IInv, Ordered, NEW R, Orders(R), NEW p \in Procs, Step(p)
    PROVE  \E Q \in SUBSET (Cells \X Cells) : R \subseteq Q /\ Orders(Q)'
<1>1. /\ TypeOK /\ published \subseteq Cells /\ cutAt \in [Nodes -> Nat] /\ epoch \in Nat
      /\ next \in [Nodes -> Cells \cup {tail, nil}]
  BY Facts DEF TypeOK
<1>2. CASE Swing(p)
  BY <1>2, SwingKeepsOrder DEF Ordered
<1>3. CASE ~Swing(p)
  <2>1. R \in SUBSET (Cells \X Cells)
    BY <1>1 DEF Orders
  <2>2. published' = published /\ \A n \in published : next'[n] = next[n]
    <3>1. CASE Cut(p)
      BY <1>1, <3>1 DEF Cut, Nodes
    <3>2. CASE ~Cut(p)
      <4>1. \A n \in published : next'[n] = next[n]
        BY <1>3, <3>2, ChainKept
      <4> QED
        BY <1>3, <3>2, <4>1, Writers DEF New, Take, Swap, Link, ghost
    <3> QED
      BY <3>1, <3>2
  <2>3. Chain' = {} \/ (Chain' = Chain /\ next'[head] = next[head])
    <3>1. CASE Cut(p)
      BY <1>1, <3>1 DEF Cut, Chain, Nodes
    <3>2. CASE ~Cut(p)
      BY <1>3, <3>2, ChainKept
    <3> QED
      BY <3>1, <3>2
  <2>4. PICK q \in SUBSET (Cells \X Cells) : q = R
    BY <2>1
  <2>5. Orders(q)'
    <3>1. \A n \in Chain' : next'[head] \in Cells /\ (n = next'[head] \/ <<next'[head], n>> \in q)
      BY <2>3, <2>4 DEF Orders
    <3> QED
      BY <2>2, <2>4, <3>1 DEF Orders
  <2> QED
    BY <2>4, <2>5
<1> QED
  BY <1>2, <1>3

\* An element that is held stands still until it is taken or replaced, and a
\* detached node stays detached.
LEMMA HeldStays ==
    ASSUME IInv, NEW p \in Procs, Step(p)
    PROVE  /\ \A n \in published' : state'[n] \in Held => n \in published /\ state'[n] = state[n]
           /\ \A n \in published : n \in Chain' => n \in Chain
           /\ \A c \in Held : value'[c] = value[c]
<1>1. /\ TypeOK /\ published \subseteq 1 .. used /\ 1 .. used \subseteq Cells /\ used \in Nat
      /\ published \subseteq Cells /\ Held \subseteq 1 .. used
      /\ Cursor(p) /\ Control(p) /\ Owned(p) /\ nil \notin Held /\ Cells \subseteq Nodes
      /\ state \in [Cells -> Cells \cup {nil}] /\ cutAt \in [Nodes -> Nat] /\ epoch \in Nat
      /\ cells \in [Procs -> Seq(Cells)]
  BY Facts DEF TypeOK, Held, Nodes
<1>2. CASE New(p)
  <2>1. \A n \in 1 .. used : state'[n] = state[n]
    BY <1>2, NewFacts
  <2>2. UNCHANGED <<published, cutAt>>
    BY <1>2 DEF New
  <2>3. \A c \in 1 .. used : value'[c] = value[c]
    <3>1. PICK m : value' = [c \in Cells |-> IF c \in used + 1 .. used + Len(m) THEN m[c - used] ELSE value[c]]
      BY <1>2 DEF New
    <3> QED
      BY <1>1, <3>1
  <2> QED
    BY <1>1, <2>1, <2>2, <2>3 DEF Chain
<1>3. CASE Take(p)
  <2>1. /\ state' = [state EXCEPT ![at[p]] = nil] /\ UNCHANGED <<published, cutAt, value>>
    BY <1>3 DEF Take
  <2> QED
    BY <1>1, <2>1 DEF Chain
<1>4. CASE Swap(p)
  <2>1. /\ state' = [state EXCEPT ![at[p]] = cells[p][1]] /\ UNCHANGED <<published, cutAt, value>>
    BY <1>4 DEF Swap
  <2>2. cells[p] # <<>>
    BY <1>1, <1>4 DEF Swap, Control, Finished
  <2>3. cells[p][1] \notin Held
    BY <1>1, <2>2, NonEmptySeq DEF Private, Members, Owned
  <2> QED
    BY <1>1, <2>1, <2>3 DEF Chain
<1>5. CASE Link(p)
  BY <1>5 DEF Link, ghost, Chain
<1>6. CASE Swing(p)
  <2>1. /\ published' = published \cup Private(p) /\ UNCHANGED <<state, value>>
        /\ cutAt' = [n \in Nodes |-> IF n \in Private(p) THEN cutAt[at[p]] ELSE cutAt[n]]
    BY <1>6 DEF Swing, Private
  <2>2. \A x \in Private(p) : x \notin published /\ state[x] = x /\ x \notin Held
    BY <1>1 DEF Owned
  <2> QED
    BY <1>1, <2>1, <2>2 DEF Chain
<1>7. CASE Cut(p)
  <2>1. /\ UNCHANGED <<published, state, value>>
        /\ cutAt' = [n \in Nodes |-> IF n \in Chain THEN epoch + 1 ELSE cutAt[n]]
    BY <1>7 DEF Cut
  <2> QED
    BY <1>1, <2>1 DEF Chain
<1>8. CASE UNCHANGED <<heap, ghost>>
  BY <1>8 DEF heap, ghost, Chain
<1> QED
  BY <1>2, <1>3, <1>4, <1>5, <1>6, <1>7, <1>8, Writers

\* A goroutine that is not in a call can only begin one.
LEMMA OnlyCallBegins ==
    ASSUME TypeOK, NEW p \in Procs, Step(p)
    PROVE  pc[p] \in Finished /\ todo'[p] # todo[p] <=> Call(p)
<1>1. CASE Call(p)
  <2>1. PICK q \in todo[p] : todo' = [todo EXCEPT ![p] = @ \ {q}]
    BY <1>1 DEF Call
  <2>2. todo'[p] # todo[p]
    BY <2>1 DEF TypeOK
  <2> QED
    BY <1>1, <2>2 DEF Call
<1>2. CASE ~Call(p)
  <2>1. pc[p] \notin Finished
    BY <1>2 DEF Step, New, Advance, Exhausted, NotFound, SweptAll,
       PickLast, AtEnd, SkipDeleted, Pass, Select, Take, TakeFails, TakeRestarts, Swap, SwapFails,
       Reload, SetRestarts, Link, Swing, SwingFails, ClearLoad, Cut, CutFails, Finished
  <2> QED
    BY <1>2, <2>1, SMTT(60)
<1> QED
  BY <1>1, <1>2

\* What a step leaves of what a goroutine in a call has been watching.
Keeps(q) ==
    /\ stayed'[q] \subseteq stayed[q] /\ stayed'[q] \subseteq LiveNodes'
    /\ kept'[q] \subseteq kept[q]
    /\ \A n \in published' :
         state'[n] \in kept'[q] => n \in published /\ state'[n] = state[n] /\ state[n] \in kept[q]

\* Every step keeps the watch.
LEMMA WatchStep ==
    ASSUME IInv, NEW p \in Procs, Step(p), Watch(p), NEW q \in Procs, Watched(q)
    PROVE  Watched(q)' /\ (q # p \/ ~Call(p) => Keeps(q))
<1>1. TypeOK /\ published \subseteq Cells /\ state \in [Cells -> Cells \cup {nil}]
  BY Facts DEF TypeOK
<1>2. kept[q] \subseteq Held
  BY DEF Watched, Accepted, LiveNodes, Held, Chain
<1>3. CASE q = p /\ Call(p)
  <2>1. stayed'[q] = LiveNodes' /\ kept'[q] = Accepted(q)'
    BY <1>1, <1>3, OnlyCallBegins DEF Watch
  <2>2. nil \notin kept'[q]
    <3>1. \A n \in LiveNodes' : state'[n] # nil
      BY DEF LiveNodes
    <3>2. Accepted(q)' \subseteq {state'[n] : n \in LiveNodes'}
      BY DEF Accepted
    <3> QED
      BY <2>1, <3>1, <3>2
  <2> QED
    BY <1>3, <2>1, <2>2 DEF Watched, LiveNodes
<1>4. CASE ~(q = p /\ Call(p))
  <2>1. /\ stayed'[q] = stayed[q] \cap LiveNodes'
        /\ kept'[q] = IF call[q] = nil THEN {} ELSE kept[q] \cap Accepted(q)'
    BY <1>1, <1>4, OnlyCallBegins DEF Watch
  <2>2. kept'[q] \subseteq kept[q] /\ (kept'[q] = {} \/ kept'[q] \subseteq Accepted(q)')
    BY <2>1
  <2>3. \A n \in published' :
          state'[n] \in kept'[q] => n \in published /\ state'[n] = state[n] /\ state[n] \in kept[q]
    BY <1>2, <2>2, HeldStays
  <2>4. ASSUME NEW n \in Chain', state'[n] \in kept'[q] PROVE n \in stayed'[q]
    <3>1. n \in published' /\ n \in published /\ state'[n] = state[n] /\ state[n] \in kept[q]
      BY <2>3, <2>4 DEF Chain
    <3>2. n \in Chain
      BY <3>1, <2>4, HeldStays
    <3>3. n \in stayed[q] /\ state'[n] # nil
      BY <1>2, <3>1, <3>2 DEF Watched, Held
    <3>4. n \in LiveNodes'
      BY <2>4, <3>3 DEF LiveNodes
    <3> QED
      BY <2>1, <3>3, <3>4
  <2> QED
    BY <2>1, <2>2, <2>3, <2>4 DEF Watched, Keeps
<1> QED
  BY <1>3, <1>4

-----------------------------------------------------------------------------
\* What p has walked past only grows by its own steps.
LEMMA PassedShrinks ==
    ASSUME IInv, NEW q \in Procs, Watched(q), Keeps(q), NEW R, NEW Q, R \subseteq Q,
           at'[q] = at[q], pc'[q] = "walk" => pc[q] = "walk"
    PROVE  /\ Passed(q, Q)' \subseteq Passed(q, R)
           /\ IsFiniteSet(Passed(q, R)) /\ IsFiniteSet(stayed[q])
           /\ Cardinality(Passed(q, R)) \in Nat /\ Cardinality(Passed(q, Q)') \in Nat
           /\ Cardinality(Passed(q, Q)') <= Cardinality(Passed(q, R))
           /\ Cardinality(stayed[q]) \in Nat /\ Cardinality(stayed'[q]) \in Nat
           /\ Cardinality(stayed'[q]) <= Cardinality(stayed[q])
<1>1. Passed(q, Q)' \subseteq Passed(q, R)
  BY DEF Passed, Keeps
<1>2. stayed[q] \subseteq Cells
  BY Facts DEF Watched, LiveNodes, Chain
<1>3. IsFiniteSet(stayed[q])
  <2>1. IsFiniteSet(Cells)
    BY FS_Interval DEF Cells
  <2> QED
    BY <1>2, <2>1, FS_Subset
<1>4. IsFiniteSet(Passed(q, R))
  BY <1>3, FS_Subset DEF Passed
<1>5. stayed'[q] \subseteq stayed[q]
  BY DEF Keeps
<1>6. /\ IsFiniteSet(Passed(q, Q)') /\ Cardinality(Passed(q, Q)') <= Cardinality(Passed(q, R))
      /\ IsFiniteSet(stayed'[q]) /\ Cardinality(stayed'[q]) <= Cardinality(stayed[q])
  BY <1>1, <1>3, <1>4, <1>5, FS_Subset
<1> QED
  BY <1>1, <1>3, <1>4, <1>6, FS_CardinalityType

\* The steps of another goroutine keep what q's walk has achieved.
LEMMA OthersProgress ==
    ASSUME IInv, NEW p \in Procs, Step(p), NEW q \in Procs, q # p, Watched(q), Keeps(q),
           Route(q), Answered(q), NEW R, NEW Q, R \subseteq Q, Progress(q, R)
    PROVE  Route(q)' /\ Answered(q)' /\ Progress(q, Q)'
<1>1. /\ TypeOK /\ Cursor(q) /\ published \subseteq Cells
      /\ pc'[q] = pc[q] /\ call'[q] = call[q] /\ at'[q] = at[q] /\ last'[q] = last[q]
      /\ exp'[q] = exp[q] /\ cnt'[q] = cnt[q] /\ seen'[q] = seen[q] /\ cells'[q] = cells[q]
  BY Facts, OthersKeep
<1>2. /\ Passed(q, Q)' \subseteq Passed(q, R)
      /\ Cardinality(Passed(q, R)) \in Nat /\ Cardinality(Passed(q, Q)') \in Nat
      /\ Cardinality(Passed(q, Q)') <= Cardinality(Passed(q, R))
      /\ Cardinality(stayed[q]) \in Nat /\ Cardinality(stayed'[q]) \in Nat
      /\ Cardinality(stayed'[q]) <= Cardinality(stayed[q])
  BY <1>1, PassedShrinks
<1>3. /\ SeenNodes(q)' = SeenNodes(q) /\ (NoneTwice(q)' <=> NoneTwice(q))
      /\ \A ks : Walks(q, ks)' <=> Walks(q, ks)
      /\ (Appending(q)' <=> Appending(q))
  BY <1>1 DEF SeenNodes, NoneTwice, Walks, Appending
<1>4. Route(q)'
  BY <1>1, <1>3 DEF Route
<1>5. Answered(q)'
  <2>1. kept'[q] \subseteq kept[q] /\ stayed'[q] \subseteq stayed[q]
    BY DEF Keeps
  <2>2. pc'[q] = "fail" /\ call'[q].kind \in Indexed /\ call'[q].idx >= 0 =>
           Cardinality(stayed'[q]) < IF call'[q].kind = "insert" THEN call'[q].idx ELSE call'[q].idx + 1
    <3> SUFFICES ASSUME pc[q] = "fail", call[q].kind \in Indexed, call[q].idx >= 0
                 PROVE  Cardinality(stayed'[q]) < IF call[q].kind = "insert" THEN call[q].idx ELSE call[q].idx + 1
      BY <1>1
    <3>1. call[q].idx \in Int
      BY DEF Route, Calls
    <3>2. Cardinality(stayed[q]) < IF call[q].kind = "insert" THEN call[q].idx ELSE call[q].idx + 1
      BY DEF Answered
    <3> QED
      BY <1>2, <3>1, <3>2
  <2> QED
    BY <1>1, <1>3, <2>1, <2>2 DEF Answered
<1>6. Progress(q, Q)'
  <2>1. /\ \A n \in Passed(q, Q)' : state'[n] \in kept'[q] => state[n] \in kept[q]
        /\ pc[q] = "take" /\ state'[at[q]] \in kept'[q] =>
             state'[at[q]] = state[at[q]] /\ state[at[q]] \in kept[q]
    <3>1. \A n \in Passed(q, Q)' : n \in published'
      BY DEF Passed, Keeps, LiveNodes, Chain
    <3>2. pc[q] = "take" => at[q] \in published'
      BY <1>1, Grows DEF Cursor
    <3> QED
      BY <3>1, <3>2 DEF Keeps
  <2>2. ASSUME pc'[q] \in {"walk", "visit", "take"}, call'[q].kind \in {"find", "remove", "removeFunc"}
        PROVE  \A n \in Passed(q, Q)' : state'[n] \notin kept'[q]
    BY <1>1, <1>2, <2>1, <2>2 DEF Progress
  <2>3. ASSUME pc'[q] = "take", call'[q].kind \in {"remove", "removeFunc"}, state'[at'[q]] \in kept'[q]
        PROVE  state'[at'[q]] = exp'[q]
    BY <1>1, <2>1, <2>3 DEF Progress
  <2>4. ASSUME Walks(q, {"removeLast"})', last'[q] = nil PROVE Passed(q, Q)' = {}
    BY <1>1, <1>2, <1>3, <2>4 DEF Progress
  <2>5. ASSUME Walks(q, Indexed)'
        PROVE  /\ Cardinality(Passed(q, Q)') <= cnt'[q]
               /\ cnt'[q] <= IF call'[q].kind = "insert" THEN call'[q].idx - 1 ELSE call'[q].idx
    <3>1. Walks(q, Indexed) /\ cnt[q] \in Nat
      BY <1>1, <1>3, <2>5 DEF TypeOK, Walks, Indexed
    <3>2. /\ Cardinality(Passed(q, R)) <= cnt[q]
          /\ cnt[q] <= IF call[q].kind = "insert" THEN call[q].idx - 1 ELSE call[q].idx
      BY <3>1 DEF Progress
    <3> QED
      BY <1>1, <1>2, <3>1, <3>2
  <2>6. ASSUME Walks(q, {"scan", "sort"})'
        PROVE  /\ Passed(q, Q)' \subseteq SeenNodes(q)'
               /\ NoneTwice(q)'
               /\ \A n \in SeenNodes(q)' : (pc'[q] = "walk" /\ n = at'[q]) \/ <<n, at'[q]>> \in Q
    BY <1>1, <1>2, <1>3, <2>6 DEF Progress
  <2> QED
    BY <2>2, <2>3, <2>4, <2>5, <2>6 DEF Progress
<1> QED
  BY <1>4, <1>5, <1>6

-----------------------------------------------------------------------------
(***************************************************************************)
(* The steps of p itself, one lemma for each thing they do to its walk:    *)
(* begin or restart it, leave it, advance, end it, and skip, pass, select  *)
(* or take a node.                                                         *)
(***************************************************************************)
\* A finite set grows by one element at most.
LEMMA OneMore ==
    ASSUME NEW S, NEW x, IsFiniteSet(S), Cardinality(S) \in Nat
    PROVE  Cardinality(S \cup {x}) <= Cardinality(S) + 1
<1> DEFINE m == Cardinality(S)  n == Cardinality(S \cup {x})
<1>1. n = IF x \in S THEN m ELSE m + 1
  BY FS_AddElement, Zenon
<1>2. m \in Nat
  OBVIOUS
<1> HIDE DEF m, n
<1>3. n <= m + 1
  BY <1>1, <1>2
<1> QED
  BY <1>3 DEF m, n

\* Sets of nodes are finite, and a smaller one counts no more.
LEMMA CountShrinks ==
    ASSUME NEW B \in SUBSET Cells, NEW A \in SUBSET B
    PROVE  /\ IsFiniteSet(A) /\ Cardinality(A) \in Nat /\ Cardinality(B) \in Nat
           /\ Cardinality(A) <= Cardinality(B)
<1>1. IsFiniteSet(Cells)
  BY FS_Interval DEF Cells
<1>2. IsFiniteSet(B)
  BY <1>1, FS_Subset
<1>3. IsFiniteSet(A) /\ Cardinality(A) <= Cardinality(B)
  BY <1>2, FS_Subset
<1> QED
  BY <1>2, <1>3, FS_CardinalityType

\* A goroutine that does not walk has nothing to show for a walk.
LEMMA NoWalk ==
    ASSUME NEW p \in Procs, NEW Q, pc'[p] \notin {"walk", "visit", "take"}
    PROVE  Progress(p, Q)'
BY DEF Progress, Walks

\* Nor does a walk that starts at the head.
LEMMA FreshWalk ==
    ASSUME NEW p \in Procs, NEW Q, pc'[p] = "walk", at'[p] = head, cnt'[p] = 0,
           Walks(p, Indexed)' => call'[p].idx \in Int /\ call'[p].idx >= 0,
           Walks(p, {"insert"})' => call'[p].idx > 0,
           Walks(p, {"scan", "sort"})' => seen'[p] = <<>>
    PROVE  Progress(p, Q)'
<1>1. Passed(p, Q)' = {} /\ Cardinality(Passed(p, Q)') = 0
  <2>1. Passed(p, Q)' = {}
    BY DEF Passed
  <2> QED
    BY <2>1, FS_EmptySet
<1>2. ASSUME Walks(p, Indexed)'
      PROVE  /\ Cardinality(Passed(p, Q)') <= cnt'[p]
             /\ cnt'[p] <= IF call'[p].kind = "insert" THEN call'[p].idx - 1 ELSE call'[p].idx
  <2>1. call'[p].kind = "insert" => call'[p].idx > 0
    BY <1>2 DEF Walks
  <2> QED
    BY <1>1, <1>2, <2>1
<1>3. ASSUME Walks(p, {"scan", "sort"})'
      PROVE  /\ Passed(p, Q)' \subseteq SeenNodes(p)'
             /\ NoneTwice(p)'
             /\ SeenNodes(p)' = {}
  BY <1>1, <1>3 DEF SeenNodes, NoneTwice
<1> QED
  BY <1>1, <1>2, <1>3 DEF Progress

\* What p has achieved when a step moves its cursor past nothing new.
LEMMA Carry ==
    ASSUME IInv, NEW p \in Procs, Watched(p), Keeps(p), NEW R, NEW Q, Progress(p, R),
           Passed(p, Q)' \subseteq Passed(p, R),
           call'[p] = call[p], cnt'[p] = cnt[p], last'[p] = last[p], seen'[p] = seen[p],
           cells'[p] = cells[p],
           pc'[p] \in {"walk", "visit"},
           \/ pc[p] \in {"walk", "visit"}
           \/ pc[p] = "take" /\ call[p].kind \in {"remove", "removeFunc"},
           Walks(p, {"scan", "sort"}) =>
             \A n \in SeenNodes(p) : (pc'[p] = "walk" /\ n = at'[p]) \/ <<n, at'[p]>> \in Q,
           Walks(p, Indexed) => call[p].idx \in Int
    PROVE  Progress(p, Q)'
<1>1. Appending(p)' <=> Appending(p)
  BY DEF Appending
<1>2. ASSUME NEW ks, Walks(p, ks)', call[p].kind \notin {"remove", "removeFunc"} PROVE Walks(p, ks)
  BY <1>1, <1>2 DEF Walks
<1>3. SeenNodes(p)' = SeenNodes(p) /\ (NoneTwice(p)' <=> NoneTwice(p))
  BY DEF SeenNodes, NoneTwice
<1>4. ASSUME call'[p].kind \in {"find", "remove", "removeFunc"}
      PROVE  \A n \in Passed(p, Q)' : state'[n] \notin kept'[p]
  <2>1. \A n \in Passed(p, Q)' : n \in published'
    BY DEF Passed, Keeps, LiveNodes, Chain
  <2>2. \A n \in Passed(p, R) : state[n] \notin kept[p]
    BY <1>4 DEF Progress
  <2> QED
    BY <2>1, <2>2 DEF Keeps
<1>5. ASSUME Walks(p, {"removeLast"})', last'[p] = nil PROVE Passed(p, Q)' = {}
  BY <1>2, <1>5 DEF Progress, Walks
<1>6. ASSUME Walks(p, Indexed)'
      PROVE  /\ Cardinality(Passed(p, Q)') <= cnt'[p]
             /\ cnt'[p] <= IF call'[p].kind = "insert" THEN call'[p].idx - 1 ELSE call'[p].idx
  <2>1. Walks(p, Indexed) /\ cnt[p] \in Nat /\ call[p].idx \in Int
    BY <1>2, <1>6, Facts DEF TypeOK, Walks, Indexed
  <2>2. /\ Cardinality(Passed(p, R)) <= cnt[p]
        /\ cnt[p] <= IF call[p].kind = "insert" THEN call[p].idx - 1 ELSE call[p].idx
    BY <2>1 DEF Progress
  <2>3. Passed(p, R) \in SUBSET Cells
    BY Facts DEF Passed, Watched, LiveNodes, Chain
  <2>4. /\ Cardinality(Passed(p, Q)') <= Cardinality(Passed(p, R))
        /\ Cardinality(Passed(p, Q)') \in Nat /\ Cardinality(Passed(p, R)) \in Nat
    BY <2>3, CountShrinks
  <2> QED
    BY <2>1, <2>2, <2>4
<1>7. ASSUME Walks(p, {"scan", "sort"})'
      PROVE  /\ Passed(p, Q)' \subseteq SeenNodes(p)'
             /\ NoneTwice(p)'
             /\ \A n \in SeenNodes(p)' : (pc'[p] = "walk" /\ n = at'[p]) \/ <<n, at'[p]>> \in Q
  <2>1. Walks(p, {"scan", "sort"})
    BY <1>2, <1>7 DEF Walks
  <2> QED
    BY <1>3, <2>1 DEF Progress
<1> QED
  BY <1>4, <1>5, <1>6, <1>7 DEF Progress

\* A walk that has come to the end has passed everything that stayed.
LEMMA AllPassed ==
    ASSUME IInv, NEW R, Orders(R), NEW p \in Procs, Watched(p), Exhausted(p)
    PROVE  stayed[p] \subseteq Passed(p, R)
<1>1. at[p] \in published \cup {head} /\ stayed[p] \subseteq Chain /\ Chain \subseteq published
  BY Facts DEF Cursor, Watched, LiveNodes, Chain
<1>2. next[at[p]] \notin Cells /\ pc[p] = "walk"
  BY DEF Exhausted
<1> QED
  BY <1>1, <1>2 DEF Passed, Orders

\* If p has passed every node that stayed, and none of them holds anything that
\* was kept, then nothing was.
LEMMA NothingKept ==
    ASSUME NEW p \in Procs, Watched(p), \A n \in stayed[p] : state[n] \notin kept[p]
    PROVE  kept[p] = {}
BY DEF Watched, Accepted, LiveNodes

-----------------------------------------------------------------------------
\* What p's own steps need, and what they keep.
Before(p, R) == Orders(R) /\ Watched(p) /\ Route(p) /\ Answered(p) /\ Progress(p, R)
After(p, Q) == Route(p)' /\ Answered(p)' /\ Progress(p, Q)'

\* A call begins at the head, with nothing seen.
LEMMA CallProgress ==
    ASSUME IInv, NEW p \in Procs, Call(p), NEW Q
    PROVE  After(p, Q)
<1>1. TypeOK
  BY Facts
<1>2. PICK q \in todo[p] : call' = [call EXCEPT ![p] = q] /\ Goto(p, FirstStep(q))
  BY DEF Call
<1>3. /\ call'[p] = q /\ pc'[p] = FirstStep(q) /\ q \in Calls
      /\ at'[p] = head /\ cnt'[p] = 0 /\ seen'[p] = <<>> /\ cells'[p] = <<>>
  BY <1>1, <1>2 DEF TypeOK, Goto, Call, Rewind
<1>4. q.idx \in Int /\ q.kind \in Kinds /\ (q.kind = "set" => q.elems # <<>>)
  BY <1>3, SMTT(60) DEF Calls
<1>5. /\ pc'[p] \in {"ok", "fail", "new", "clear", "walk"}
      /\ pc'[p] = "ok" => q.kind \in {"insert", "append"}
      /\ pc'[p] = "fail" => q.idx < 0 /\ q.kind \in Indexed
      /\ pc'[p] = "clear" => q.kind = "clear"
      /\ pc'[p] = "walk" => q.kind # "insert"
      /\ pc'[p] \in {"new", "walk"} /\ q.kind \in Indexed => ~(q.idx < 0)
  BY <1>3, <1>4 DEF FirstStep, Indexed
<1>6. Route(p)'
  BY <1>3, <1>4, <1>5 DEF Route, Walks, Finished, Indexed
<1>7. Answered(p)'
  BY <1>3, <1>4, <1>5 DEF Answered, Indexed
<1>8. Progress(p, Q)'
  <2>1. CASE pc'[p] = "walk"
    BY <1>3, <1>4, <1>5, <2>1, FreshWalk DEF Walks
  <2> QED
    BY <1>5, <2>1, NoWalk
<1> QED
  BY <1>6, <1>7, <1>8 DEF After

\* A walk that starts again has everything ahead of it.
LEMMA RestartProgress ==
    ASSUME IInv, NEW p \in Procs, NEW R, NEW Q, Before(p, R),
           New(p) \/ TakeRestarts(p) \/ SetRestarts(p) \/ SwingFails(p)
    PROVE  After(p, Q)
<1>1. /\ TypeOK /\ Control(p) /\ pc[p] \notin Finished /\ pc[p] # "idle"
      /\ Watched(p) /\ Route(p) /\ Answered(p) /\ Progress(p, R)
  BY Facts DEF Before, New, TakeRestarts, SetRestarts, SwingFails, Finished
<1>2. /\ call'[p] = call[p] /\ at'[p] = head /\ cnt'[p] = 0
      /\ pc'[p] \in {"walk", "link"}
      /\ pc'[p] = "walk" /\ call[p].kind = "insert" => call[p].idx # 0
  BY <1>1, SMTT(60) DEF TypeOK, Goto, Rewind, New, TakeRestarts, SetRestarts, SwingFails, work, Control, Finished
<1>3. call[p] \in Calls /\ call[p].idx \in Int
      /\ (call[p].kind \in Indexed => call[p].idx >= 0)
  BY <1>1 DEF Route, Calls
<1>4. call[p].kind \in {"scan", "sort"} => Appending(p)'
  <2> SUFFICES ASSUME call[p].kind \in {"scan", "sort"} PROVE Appending(p)'
    OBVIOUS
  <2>1. New(p) \/ SwingFails(p)
    BY <1>1 DEF TakeRestarts, SetRestarts, Control, Finished
  <2>2. call[p].kind = "sort"
    BY <1>1, <2>1 DEF New, SwingFails, Control, Finished, Adders
  <2>3. cells'[p] # <<>>
    <3>1. CASE New(p)
      <4>1. PICK vs \in Batch(p) : cells' = [cells EXCEPT ![p] = [i \in DOMAIN vs |-> used + i]]
        BY <3>1 DEF New
      <4>2. seen[p] # <<>>
        BY <1>1, <2>2, <3>1 DEF New, Control, ToAdd, Finished
      <4>3. DOMAIN vs = DOMAIN seen[p]
        BY <2>2 DEF Batch, Sorted
      <4>4. DOMAIN seen[p] # {}
        <5>1. seen[p] \in Seq([node : Cells, cell : Cells])
          BY <1>1 DEF TypeOK
        <5> QED
          BY <4>2, <5>1, NonEmptySeq
      <4>5. cells'[p] = [i \in DOMAIN vs |-> used + i]
        BY <1>1, <4>1 DEF TypeOK
      <4>6. DOMAIN cells'[p] # {}
        BY <4>3, <4>4, <4>5
      <4> QED
        BY <4>6
    <3>2. CASE SwingFails(p)
      BY <1>1, <3>2 DEF SwingFails, Control, Finished
    <3> QED
      BY <2>1, <3>1, <3>2
  <2> QED
    BY <1>2, <2>2, <2>3 DEF Appending
<1>5. Route(p)'
  BY <1>1, <1>2, <1>3 DEF Route, Walks, Indexed, Finished
<1>6. Answered(p)'
  BY <1>2 DEF Answered
<1>7. Progress(p, Q)'
  <2>1. CASE pc'[p] = "walk"
    <3>1. ~Walks(p, {"scan", "sort"})'
      BY <1>2, <1>4 DEF Walks
    <3>2. Walks(p, {"insert"})' => call'[p].idx > 0
      BY <1>2, <1>3, <2>1 DEF Walks, Indexed
    <3>3. Walks(p, Indexed)' => call'[p].idx \in Int /\ call'[p].idx >= 0
      BY <1>2, <1>3 DEF Walks
    <3> QED
      BY <1>2, <2>1, <3>1, <3>2, <3>3, FreshWalk
  <2> QED
    BY <1>2, <2>1, NoWalk
<1> QED
  BY <1>5, <1>6, <1>7 DEF After

\* Steps away from the list, or back into the call, claim nothing about a walk.
LEMMA SilentProgress ==
    ASSUME IInv, NEW p \in Procs, NEW R, NEW Q, Before(p, R), Keeps(p),
           \/ PickLast(p) \/ AtEnd(p) \/ Swap(p) \/ SwapFails(p) \/ Reload(p) \/ Link(p)
           \/ Swing(p) \/ ClearLoad(p) \/ Cut(p) \/ CutFails(p)
    PROVE  After(p, Q)
<1>1. /\ TypeOK /\ Control(p) /\ pc[p] \notin Finished /\ pc[p] # "idle"
      /\ Watched(p) /\ Route(p) /\ Answered(p) /\ Progress(p, R)
      /\ kept'[p] \subseteq kept[p] /\ stayed'[p] \subseteq stayed[p]
  BY Facts DEF Before, Keeps, PickLast, Exhausted, AtEnd, Swap, SwapFails, Reload, Link, Swing, ClearLoad,
     Cut, CutFails, Finished
<1>2. call'[p] = call[p] /\ seen'[p] = seen[p]
  BY DEF PickLast, AtEnd, Swap, SwapFails, Reload, Link, Swing, ClearLoad, Cut, CutFails, work, local
<1>3. /\ pc'[p] \in {"take", "swing", "ok", "reload", "swap", "new", "cut", "clear"}
      /\ pc'[p] = "take" => call[p].kind = "removeLast"
      /\ pc'[p] = "ok" => call[p].kind \in Adders
      /\ pc'[p] \in {"clear", "cut"} => pc[p] \in {"clear", "cut"}
  <2>0. pc \in [Procs -> Labels]
    BY <1>1 DEF TypeOK
  <2>1. CASE PickLast(p) \/ AtEnd(p)
    BY <1>1, <2>0, <2>1 DEF Goto, PickLast, Exhausted, AtEnd, Control, Finished, Adders
  <2>2. CASE Swap(p) \/ SwapFails(p) \/ Reload(p)
    BY <1>1, <2>0, <2>2 DEF Goto, Swap, SwapFails, Reload, Control, Finished, Adders
  <2>3. CASE Link(p) \/ Swing(p)
    BY <1>1, <2>0, <2>3 DEF Goto, Link, Swing, Control, Finished, Adders
  <2>4. CASE ClearLoad(p) \/ Cut(p) \/ CutFails(p)
    BY <1>1, <2>0, <2>4 DEF Goto, ClearLoad, Cut, CutFails, Control, Finished, Adders
  <2> QED
    BY <2>1, <2>2, <2>3, <2>4
<1>4. Route(p)'
  BY <1>1, <1>2, <1>3 DEF Route, Walks, Finished
<1>5. Answered(p)'
  <2>1. SeenNodes(p)' = SeenNodes(p) /\ (NoneTwice(p)' <=> NoneTwice(p))
    BY <1>2 DEF SeenNodes, NoneTwice
  <2> QED
    BY <1>1, <1>2, <1>3, <2>1 DEF Answered, Adders
<1>6. Progress(p, Q)'
  BY <1>2, <1>3 DEF Progress, Walks
<1> QED
  BY <1>4, <1>5, <1>6 DEF After

\* A sequence holds members of its set.
LEMMA ElementOf ==
    ASSUME NEW S, NEW s \in Seq(S), NEW i \in DOMAIN s
    PROVE  s[i] \in S
OBVIOUS

\* What a walk collected are nodes.
LEMMA SeenAreCells ==
    ASSUME TypeOK, NEW p \in Procs
    PROVE  SeenNodes(p) \subseteq Cells
<1> DEFINE T == [node : Cells, cell : Cells]
<1>1. seen[p] \in Seq(T)
  BY DEF TypeOK
<1>2. \A e \in T : e.node \in Cells
  OBVIOUS
<1> HIDE DEF T
<1>3. \A i \in DOMAIN seen[p] : seen[p][i] \in T
  BY <1>1, ElementOf
<1> QED
  BY <1>2, <1>3 DEF SeenNodes

\* Advance steps over nothing: what was ahead of the cursor is at it or ahead.
LEMMA AdvanceProgress ==
    ASSUME IInv, NEW p \in Procs, NEW R, NEW Q, R \subseteq Q, Before(p, R), Keeps(p), Advance(p)
    PROVE  After(p, Q)
<1> DEFINE a == at[p]  b == next[at[p]]
<1>1. /\ TypeOK /\ Links /\ Orders(R) /\ Watched(p) /\ Route(p) /\ Answered(p) /\ Progress(p, R)
      /\ a \in published \cup {head} /\ published \subseteq Cells
      /\ next \in [Nodes -> Cells \cup {tail, nil}] /\ pc[p] = "walk"
  BY Facts DEF IInv, Before, Cursor, TypeOK, Advance
<1>2. b \in Cells /\ b \in published /\ b # head
  <2>1. a \in Nodes
    BY <1>1 DEF Nodes
  <2>2. b \in Cells
    BY <1>1, <2>1 DEF Advance
  <2> QED
    BY <1>1, <2>2 DEF Links
<1>3. /\ call'[p] = call[p] /\ seen'[p] = seen[p] /\ cnt'[p] = cnt[p] /\ last'[p] = last[p]
      /\ cells'[p] = cells[p] /\ at'[p] = b
      /\ pc'[p] = IF Appending(p) THEN "walk" ELSE "visit"
      /\ UNCHANGED <<next, published>>
  BY <1>1 DEF Advance, TypeOK, Goto, work, heap, ghost
<1>4. Appending(p)' <=> Appending(p)
  BY <1>3 DEF Appending
<1>5. call[p].idx \in Int /\ call[p] \in Calls
  BY <1>1 DEF Route, Calls
<1>6. Route(p)'
  BY <1>1, <1>3, <1>4 DEF Route, Walks, Finished
<1>7. Answered(p)'
  BY <1>3 DEF Answered
<1>8. CASE Appending(p)
  <2>1. Progress(p, Q)'
    BY <1>3, <1>4, <1>8 DEF Progress, Walks, Appending, Indexed
  <2> QED
    BY <1>6, <1>7, <2>1 DEF After
<1>9. CASE ~Appending(p)
  <2>1. Passed(p, Q)' \subseteq Passed(p, R)
    <3> SUFFICES ASSUME NEW n \in Passed(p, Q)' PROVE n \in Passed(p, R)
      OBVIOUS
    <3>1. n \in stayed[p] /\ <<b, n>> \notin R /\ n # b /\ n \in Chain /\ n \in published
      <4>1. n \in stayed'[p] /\ at'[p] = b /\ pc'[p] = "visit" /\ <<b, n>> \notin Q /\ n # b
        BY <1>2, <1>3, <1>9 DEF Passed
      <4>2. n \in stayed[p] /\ n \in Chain /\ n \in published
        BY <1>1, <4>1 DEF Keeps, Watched, LiveNodes, Chain
      <4> QED
        BY <4>1, <4>2
    <3>2. a # head
      BY <3>1, <1>1 DEF Orders
    <3>3. <<a, n>> \notin R
      BY <1>1, <3>1, <3>2 DEF Orders
    <3> QED
      BY <1>1, <3>1, <3>2, <3>3 DEF Passed
  <2>2. ASSUME Walks(p, {"scan", "sort"}), NEW n \in SeenNodes(p)
        PROVE  <<n, b>> \in Q
    <3>1. n = a \/ <<n, a>> \in R
      BY <1>1, <2>2 DEF Progress
    <3>2. n \in Cells
      BY <1>1, <2>2, SeenAreCells
    <3>3. a \in published
      BY <1>1, <3>1, <3>2 DEF Orders
    <3>4. <<a, b>> \in R
      BY <1>1, <1>2, <3>3 DEF Orders
    <3>5. n = a \/ (n \in published /\ <<n, a>> \in R)
      BY <1>1, <3>1 DEF Orders
    <3>6. <<n, b>> \in R
      BY <1>1, <1>2, <3>3, <3>4, <3>5 DEF Orders
    <3> QED
      BY <3>6
  <2>3. Progress(p, Q)'
    BY <1>1, <1>3, <1>5, <1>9, <2>1, <2>2, Carry
  <2> QED
    BY <1>6, <1>7, <2>3 DEF After
<1> QED
  BY <1>8, <1>9

\* A walk that comes to the end without an answer has passed whatever stayed.
LEMMA EndProgress ==
    ASSUME IInv, NEW p \in Procs, NEW R, NEW Q, Before(p, R), Keeps(p),
           NotFound(p) \/ SweptAll(p)
    PROVE  After(p, Q)
<1>1. /\ TypeOK /\ Orders(R) /\ Watched(p) /\ Route(p) /\ Progress(p, R) /\ pc[p] = "walk"
      /\ Exhausted(p) /\ cnt[p] \in Nat
      /\ kept'[p] \subseteq kept[p] /\ stayed'[p] \subseteq stayed[p]
  BY Facts, ZenonT(60) DEF Before, Keeps, NotFound, SweptAll, Exhausted, TypeOK
<1>2. call'[p] = call[p] /\ seen'[p] = seen[p] /\ pc'[p] \in {"fail", "clear", "ok"}
      /\ (pc'[p] = "fail" <=> NotFound(p))
      /\ (pc'[p] = "clear" => call[p].kind = "sort")
      /\ (pc'[p] = "fail" /\ call[p].kind = "removeLast" => last[p] = nil)
  BY <1>1, SMTT(60) DEF NotFound, SweptAll, TypeOK, Goto, local, work, Indexed
<1>3. Passed(p, R) = stayed[p] /\ stayed[p] \in SUBSET Cells
  BY <1>1, AllPassed, Facts DEF Passed, Watched, LiveNodes, Chain
<1>4. ~Appending(p)
  BY DEF NotFound, SweptAll, Appending, Indexed
<1>5. call[p] \in Calls /\ call[p].idx \in Int
  BY <1>1 DEF Route, Calls
<1>6. Route(p)'
  BY <1>2, <1>5 DEF Route, Walks, Finished, Indexed
<1>7. ASSUME call[p].kind \in {"find", "remove", "removeFunc"} PROVE kept'[p] = {}
  <2>1. \A n \in stayed[p] : state[n] \notin kept[p]
    BY <1>1, <1>3, <1>7 DEF Progress
  <2> QED
    BY <1>1, <2>1, NothingKept
<1>8. ASSUME pc'[p] = "fail", call[p].kind = "removeLast" PROVE kept'[p] = {}
  <2>1. last[p] = nil
    BY <1>2, <1>8
  <2>2. stayed[p] = {}
    BY <1>1, <1>3, <1>4, <1>8, <2>1 DEF Progress, Walks
  <2> QED
    BY <1>1, <2>2, NothingKept
<1>9. ASSUME call[p].kind \in Indexed
      PROVE  Cardinality(stayed'[p]) < IF call[p].kind = "insert" THEN call[p].idx ELSE call[p].idx + 1
  <2>1. /\ Cardinality(stayed[p]) <= cnt[p]
        /\ cnt[p] <= IF call[p].kind = "insert" THEN call[p].idx - 1 ELSE call[p].idx
    BY <1>1, <1>3, <1>4, <1>9 DEF Progress, Walks
  <2>2. /\ Cardinality(stayed'[p]) <= Cardinality(stayed[p])
        /\ Cardinality(stayed'[p]) \in Nat /\ Cardinality(stayed[p]) \in Nat
    BY <1>1, <1>3, CountShrinks
  <2> QED
    BY <1>1, <1>5, <2>1, <2>2
<1>10. ASSUME call[p].kind \in {"scan", "sort"}
       PROVE  stayed'[p] \subseteq SeenNodes(p)' /\ NoneTwice(p)'
  <2>1. stayed[p] \subseteq SeenNodes(p) /\ NoneTwice(p)
    BY <1>1, <1>3, <1>4, <1>10 DEF Progress, Walks
  <2> QED
    BY <1>1, <1>2, <2>1 DEF SeenNodes, NoneTwice
<1>11. Answered(p)'
  BY <1>2, <1>7, <1>8, <1>9, <1>10 DEF Answered
<1> QED
  BY <1>2, <1>6, <1>11, NoWalk DEF After

\* What a walk passes when it goes on from the node it looks at.
LEMMA PassOne ==
    ASSUME IInv, NEW p \in Procs, NEW R, NEW Q, R \subseteq Q, Keeps(p), Watched(p),
           at'[p] = at[p], pc'[p] \in {"walk", "visit", "take"}, pc[p] \in {"visit", "take"}
    PROVE  /\ Passed(p, Q)' \subseteq Passed(p, R) \cup {at[p]}
           /\ pc'[p] # "walk" \/ at[p] \notin stayed'[p] => Passed(p, Q)' \subseteq Passed(p, R)
BY DEF Passed, Keeps

\* A deleted node did not stay.
LEMMA SkipProgress ==
    ASSUME IInv, NEW p \in Procs, NEW R, NEW Q, R \subseteq Q, Before(p, R), Keeps(p),
           SkipDeleted(p)
    PROVE  After(p, Q)
<1>1. /\ TypeOK /\ Watched(p) /\ Route(p) /\ Progress(p, R) /\ pc[p] = "visit"
  BY Facts DEF Before, SkipDeleted
<1>2. /\ call'[p] = call[p] /\ seen'[p] = seen[p] /\ cnt'[p] = cnt[p] /\ last'[p] = last[p]
      /\ cells'[p] = cells[p] /\ at'[p] = at[p] /\ pc'[p] = "walk" /\ state' = state
      /\ state[at[p]] = nil
  BY <1>1 DEF SkipDeleted, TypeOK, Goto, work, heap, local
<1>3. Passed(p, Q)' \subseteq Passed(p, R)
  <2>1. at[p] \notin stayed'[p]
    BY <1>2 DEF Keeps, LiveNodes
  <2> QED
    BY <1>1, <1>2, <2>1, PassOne
<1>4. call[p] \in Calls /\ call[p].idx \in Int
  BY <1>1 DEF Route, Calls
<1>5. Route(p)'
  BY <1>1, <1>2 DEF Route, Walks, Finished, Appending
<1>6. Walks(p, {"scan", "sort"}) => \A n \in SeenNodes(p) : <<n, at'[p]>> \in Q
  BY <1>1, <1>2 DEF Progress
<1>7. Progress(p, Q)'
  BY <1>1, <1>2, <1>3, <1>4, <1>6, Carry
<1> QED
  BY <1>2, <1>5, <1>7 DEF After, Answered

\* A node a walk passes holds nothing that was kept, if it held nothing before.
LEMMA StillNotKept ==
    ASSUME NEW p \in Procs, Keeps(p), NEW Q, NEW A, \A n \in A : state[n] \notin kept[p],
           Passed(p, Q)' \subseteq A
    PROVE  \A n \in Passed(p, Q)' : state'[n] \notin kept'[p]
<1>1. \A n \in Passed(p, Q)' : n \in published'
  BY DEF Passed, Keeps, LiveNodes, Chain
<1> QED
  BY <1>1 DEF Keeps

\* A walk that passes a node has counted, collected or refused it.
LEMMA PassProgress ==
    ASSUME IInv, NEW p \in Procs, NEW R, NEW Q, R \subseteq Q, Before(p, R), Keeps(p), Pass(p)
    PROVE  After(p, Q)
<1> DEFINE a == at[p]  k == call[p].kind  entry == [node |-> a, cell |-> state[a]]
<1>1. /\ TypeOK /\ Orders(R) /\ Watched(p) /\ Route(p) /\ Progress(p, R) /\ pc[p] = "visit"
      /\ cnt[p] \in Nat /\ a \in published /\ published \subseteq Cells /\ a # nil
  BY Facts, ZenonT(60) DEF IInv, Before, Cursor, TypeOK, Pass
<1>2. /\ call'[p] = call[p] /\ cells'[p] = cells[p] /\ at'[p] = a /\ pc'[p] = "walk"
      /\ state' = state /\ state[a] # nil /\ ~Selects(p, state[a])
      /\ cnt'[p] = IF k \in Indexed THEN cnt[p] + 1 ELSE cnt[p]
      /\ k = "removeLast" => last'[p] = a
      /\ Collecting(p) => seen'[p] = Append(seen[p], entry)
  BY <1>1, SMTT(60) DEF Pass, TypeOK, Goto, work, heap
<1>3. Passed(p, Q)' \subseteq Passed(p, R) \cup {a}
  BY <1>1, <1>2, PassOne
<1>4. call[p] \in Calls /\ call[p].idx \in Int /\ ~Appending(p)
  BY <1>1 DEF Route, Calls
<1>5. ~Appending(p)' /\ Route(p)'
  BY <1>1, <1>2, <1>4 DEF Route, Walks, Finished, Appending
<1>6. ASSUME k \in {"find", "remove", "removeFunc"}
      PROVE  \A n \in Passed(p, Q)' : state'[n] \notin kept'[p]
  <2>1. \A n \in Passed(p, R) : state[n] \notin kept[p]
    BY <1>1, <1>6 DEF Progress
  <2>2. value[state[a]] \notin call[p].want
    BY <1>2, <1>6 DEF Selects
  <2>3. state[a] \notin kept[p]
    BY <1>1, <2>2 DEF Watched, Accepted
  <2> QED
    BY <1>3, <2>1, <2>3, StillNotKept
<1>7. ASSUME k \in Indexed
      PROVE  /\ Cardinality(Passed(p, Q)') <= cnt'[p]
             /\ cnt'[p] <= IF k = "insert" THEN call[p].idx - 1 ELSE call[p].idx
  <2>1. /\ Cardinality(Passed(p, R)) <= cnt[p]
        /\ cnt[p] <= IF k = "insert" THEN call[p].idx - 1 ELSE call[p].idx
    BY <1>1, <1>4, <1>7 DEF Progress, Walks
  <2>2. cnt[p] # IF k = "insert" THEN call[p].idx - 1 ELSE call[p].idx
    BY <1>2, <1>7 DEF Selects, Indexed
  <2>3. Passed(p, R) \in SUBSET Cells
    BY <1>1 DEF Passed, Watched, LiveNodes, Chain
  <2>4. /\ IsFiniteSet(Passed(p, R)) /\ Cardinality(Passed(p, R)) \in Nat
    BY <2>3, CountShrinks
  <2>5. /\ Cardinality(Passed(p, R) \cup {a}) <= Cardinality(Passed(p, R)) + 1
    BY <2>4, OneMore, Zenon
  <2>6. Passed(p, R) \cup {a} \in SUBSET Cells
    BY <1>1, <2>3
  <2>7. /\ Cardinality(Passed(p, Q)') <= Cardinality(Passed(p, R) \cup {a})
        /\ Cardinality(Passed(p, Q)') \in Nat /\ Cardinality(Passed(p, R) \cup {a}) \in Nat
    BY <1>3, <2>6, CountShrinks
  <2>8. call[p].idx \in Int /\ cnt'[p] = cnt[p] + 1 /\ cnt[p] \in Nat
    BY <1>1, <1>2, <1>4, <1>7
  <2> QED
    BY <2>1, <2>2, <2>4, <2>5, <2>7, <2>8
<1>8. ASSUME k \in {"scan", "sort"}
      PROVE  /\ Passed(p, Q)' \subseteq SeenNodes(p)'
             /\ NoneTwice(p)'
             /\ \A n \in SeenNodes(p)' : n = a \/ <<n, a>> \in Q
  <2>1. /\ Passed(p, R) \subseteq SeenNodes(p) /\ NoneTwice(p)
        /\ \A n \in SeenNodes(p) : <<n, a>> \in R
    BY <1>1, <1>4, <1>8 DEF Progress, Walks
  <2> DEFINE T == [node : Cells, cell : Cells]  s == seen[p]
  <2>2. s \in Seq(T) /\ seen'[p] = Append(s, entry)
    BY <1>1, <1>2, <1>8 DEF TypeOK, Collecting
  <2>3. entry \in T /\ entry.node = a
    <3>1. state[a] \in Cells
      BY <1>1, <1>2 DEF TypeOK
    <3> QED
      BY <1>1, <3>1
  <2> HIDE DEF T, entry
  <2>4. /\ Len(s) \in Nat /\ DOMAIN s = 1 .. Len(s)
        /\ DOMAIN seen'[p] = 1 .. Len(s) + 1
        /\ seen'[p][Len(s) + 1] = entry
        /\ \A i \in 1 .. Len(s) : seen'[p][i] = s[i]
    BY <2>2, <2>3
  <2>5. \A i \in DOMAIN seen'[p] : i = Len(s) + 1 \/ i \in DOMAIN s
    BY <2>4
  <2>6. SeenNodes(p)' = SeenNodes(p) \cup {a}
    <3> DEFINE g == seen'[p]
    <3>1. SeenNodes(p)' = {g[i].node : i \in DOMAIN g} /\ SeenNodes(p) = {s[i].node : i \in DOMAIN s}
      BY Zenon DEF SeenNodes
    <3>2. /\ \A i \in DOMAIN g : g[i].node \in {s[m].node : m \in DOMAIN s} \cup {a}
          /\ \A i \in DOMAIN s : i \in DOMAIN g /\ g[i].node = s[i].node
          /\ \E i \in DOMAIN g : g[i].node = a
      BY <2>3, <2>4, <2>5, SMTT(60)
    <3> HIDE DEF g, s
    <3> QED
      BY <3>1, <3>2
  <2>7. a \notin SeenNodes(p)
    BY <1>1, <2>1 DEF Orders
  <2>8. NoneTwice(p)'
    <3> SUFFICES ASSUME NEW i \in DOMAIN seen'[p], NEW j \in DOMAIN seen'[p],
                        seen'[p][i].node = seen'[p][j].node
                 PROVE  i = j
      BY DEF NoneTwice
    <3>1. \A m \in DOMAIN s : s[m].node \in SeenNodes(p)
      BY DEF SeenNodes
    <3>2. CASE i \in DOMAIN s /\ j \in DOMAIN s
      BY <2>1, <2>4, <3>2 DEF NoneTwice
    <3>3. CASE i = Len(s) + 1 /\ j \in DOMAIN s
      BY <2>3, <2>4, <2>7, <3>1, <3>3
    <3>4. CASE j = Len(s) + 1 /\ i \in DOMAIN s
      BY <2>3, <2>4, <2>7, <3>1, <3>4
    <3> QED
      BY <2>5, <3>2, <3>3, <3>4
  <2> QED
    BY <1>3, <2>1, <2>6, <2>8
<1>9. ASSUME k = "removeLast" PROVE last'[p] # nil
  BY <1>1, <1>2, <1>9
<1>10. Progress(p, Q)'
  BY <1>2, <1>6, <1>7, <1>8, <1>9 DEF Progress, Walks
<1>11. Answered(p)'
  BY <1>2 DEF Answered
<1> QED
  BY <1>5, <1>10, <1>11 DEF After

\* A node that is selected is not passed yet.
LEMMA SelectProgress ==
    ASSUME IInv, NEW p \in Procs, NEW R, NEW Q, R \subseteq Q, Before(p, R), Keeps(p), Select(p)
    PROVE  After(p, Q)
<1>1. /\ TypeOK /\ Watched(p) /\ Route(p) /\ Progress(p, R) /\ pc[p] = "visit"
  BY Facts DEF Before, Select
<1>2. /\ call'[p] = call[p] /\ at'[p] = at[p] /\ state' = state
      /\ exp'[p] = state[at[p]]
      /\ pc'[p] = CASE call[p].kind \in {"find", "get"} -> "ok"
                    [] call[p].kind = "set" -> "swap"
                    [] call[p].kind = "insert" -> "link"
                    [] OTHER -> "take"
      /\ call[p].kind \in {"find", "remove", "removeFunc"} \cup Indexed
  BY <1>1 DEF Select, Selects, Indexed, TypeOK, Goto, work, heap
<1>3. Route(p)' /\ Answered(p)'
  BY <1>1, <1>2 DEF Route, Walks, Finished, Answered, Indexed
<1>4. CASE pc'[p] = "take"
  <2>1. Passed(p, Q)' \subseteq Passed(p, R)
    BY <1>1, <1>2, <1>4, PassOne
  <2>2. call[p].kind \in {"remove", "removeFunc"} => \A n \in Passed(p, R) : state[n] \notin kept[p]
    BY <1>1 DEF Progress
  <2>3. call[p].kind \in {"remove", "removeFunc"} => \A n \in Passed(p, Q)' : state'[n] \notin kept'[p]
    BY <2>1, <2>2, StillNotKept
  <2>4. call[p].kind # "find"
    BY <1>2, <1>4
  <2>5. ~Walks(p, Indexed)' /\ ~Walks(p, {"removeLast"})' /\ ~Walks(p, {"scan", "sort"})'
    BY <1>4 DEF Walks
  <2>6. state'[at'[p]] = exp'[p]
    BY <1>2
  <2>7. Progress(p, Q)'
    BY <1>2, <2>3, <2>4, <2>5, <2>6 DEF Progress
  <2> QED
    BY <1>3, <2>7 DEF After
<1>5. CASE pc'[p] # "take"
  <2>1. pc'[p] \in {"ok", "swap", "link"}
    BY <1>2, <1>5
  <2> QED
    BY <1>3, <2>1, NoWalk DEF After
<1> QED
  BY <1>4, <1>5

\* Whoever wins the race for a node, it holds nothing any more that was kept.
LEMMA TakeProgress ==
    ASSUME IInv, NEW p \in Procs, NEW R, NEW Q, R \subseteq Q, Before(p, R), Keeps(p),
           Take(p) \/ TakeFails(p)
    PROVE  After(p, Q)
<1>1. /\ TypeOK /\ Watched(p) /\ Route(p) /\ Progress(p, R) /\ pc[p] = "take"
      /\ at[p] \in published /\ published \subseteq Cells
      /\ call[p].kind \in {"remove", "removeFunc", "removeAt", "removeLast"}
  BY Facts DEF IInv, Before, Take, TakeFails, Control, Cursor, Finished
<1>2. /\ call'[p] = call[p] /\ at'[p] = at[p] /\ cnt'[p] = cnt[p] /\ last'[p] = last[p]
      /\ seen'[p] = seen[p] /\ cells'[p] = cells[p]
      /\ pc'[p] = IF call[p].kind = "removeFunc" THEN "walk"
                  ELSE IF Take(p) THEN "ok" ELSE "visit"
      /\ ~Take(p) => call[p].kind \in {"remove", "removeFunc"}
  BY <1>1 DEF Take, TakeFails, TypeOK, Goto, work, local
<1>3. call[p] \in Calls /\ call[p].idx \in Int
  BY <1>1 DEF Route, Calls
<1>4. Route(p)' /\ Answered(p)'
  BY <1>1, <1>2, <1>3 DEF Route, Walks, Finished, Answered, Appending, Indexed
<1>5. CASE pc'[p] = "ok"
  BY <1>4, <1>5, NoWalk DEF After
<1>6. CASE pc'[p] # "ok"
  <2>1. call[p].kind \in {"remove", "removeFunc"} /\ pc'[p] \in {"walk", "visit"}
    BY <1>2, <1>6
  <2>2. \A n \in Passed(p, R) : state[n] \notin kept[p]
    BY <1>1, <2>1 DEF Progress
  <2>3. Passed(p, Q)' \subseteq Passed(p, R) \cup {at[p]}
    BY <1>1, <1>2, <2>1, PassOne
  <2>4. CASE Take(p) \/ call[p].kind = "remove"
    <3>1. pc'[p] # "walk" \/ at[p] \notin stayed'[p]
      <4>1. CASE Take(p)
        <5>1. state'[at[p]] = nil
          BY <1>1, <4>1 DEF Take, TypeOK
        <5> QED
          BY <5>1 DEF Keeps, LiveNodes
      <4>2. CASE ~Take(p)
        BY <1>2, <2>4, <4>2
      <4> QED
        BY <4>1, <4>2
    <3>2. Passed(p, Q)' \subseteq Passed(p, R)
      BY <1>1, <1>2, <2>1, <3>1, PassOne
    <3> QED
      BY <2>2, <3>2, StillNotKept, <1>2, <1>4, <2>1 DEF Progress, Walks, After, Indexed
  <2>5. CASE TakeFails(p) /\ call[p].kind = "removeFunc"
    <3>1. state[at[p]] # exp[p]
      BY <2>5 DEF TakeFails
    <3>2. state[at[p]] \notin kept[p]
      BY <1>1, <2>5, <3>1 DEF Progress
    <3>3. \A n \in Passed(p, R) \cup {at[p]} : state[n] \notin kept[p]
      BY <2>2, <3>2
    <3>4. \A n \in Passed(p, Q)' : state'[n] \notin kept'[p]
      BY <2>3, <3>3, StillNotKept
    <3> QED
      BY <3>4, <1>2, <1>4, <2>1 DEF Progress, Walks, After, Indexed
  <2> QED
    BY <2>1, <2>4, <2>5
<1> QED
  BY <1>5, <1>6

\* Every step of p keeps what its own walk has to show.
LEMMA OwnProgress ==
    ASSUME IInv, NEW p \in Procs, NEW R, NEW Q, R \subseteq Q, Before(p, R),
           Step(p), ~Call(p) => Keeps(p)
    PROVE  After(p, Q)
<1>1. CASE Call(p)
  BY <1>1, CallProgress
<1>2. CASE New(p) \/ TakeRestarts(p) \/ SetRestarts(p) \/ SwingFails(p)
  BY <1>2, RestartProgress
<1>3. CASE ~Call(p)
  <2>1. Keeps(p)
    BY <1>3
  <2>2. CASE \/ PickLast(p) \/ AtEnd(p) \/ Swap(p) \/ SwapFails(p) \/ Reload(p) \/ Link(p)
             \/ Swing(p) \/ ClearLoad(p) \/ Cut(p) \/ CutFails(p)
    BY <2>1, <2>2, SilentProgress
  <2>3. CASE Advance(p)
    BY <2>1, <2>3, AdvanceProgress
  <2>4. CASE NotFound(p) \/ SweptAll(p)
    BY <2>1, <2>4, EndProgress
  <2>5. CASE SkipDeleted(p)
    BY <2>1, <2>5, SkipProgress
  <2>6. CASE Pass(p)
    BY <2>1, <2>6, PassProgress
  <2>7. CASE Select(p)
    BY <2>1, <2>7, SelectProgress
  <2>8. CASE Take(p) \/ TakeFails(p)
    BY <2>1, <2>8, TakeProgress
  <2> QED
    BY <1>2, <1>3, <2>2, <2>3, <2>4, <2>5, <2>6, <2>7, <2>8 DEF Step
<1> QED
  BY <1>1, <1>3

\* Before any call nothing is watched.
LEMMA InitWInv == WatchedInit => WInv
<1> SUFFICES ASSUME WatchedInit PROVE WInv
  OBVIOUS
<1>1. Init /\ \A p \in Procs : kept[p] = {} /\ stayed[p] = {} /\ pc[p] = "idle" /\ call[p] = nil
  BY DEF WatchedInit, Init
<1>2. PICK R \in SUBSET (Cells \X Cells) : Orders(R)
  BY <1>1, InitOrders
<1>5. ASSUME NEW p \in Procs
      PROVE  Watched(p) /\ Route(p) /\ Answered(p) /\ Progress(p, R)
  BY <1>1 DEF Watched, Route, Answered, Progress, Walks, Finished
<1> QED
  BY <1>2, <1>5 DEF WInv

\* Every step of every goroutine keeps the invariant.
LEMMA StepWInv ==
    ASSUME IInv, Ordered, WInv, NEW p \in Procs, Step(p), Watch(p)
    PROVE  WInv'
<1>1. PICK R \in SUBSET (Cells \X Cells) : Orders(R) /\ \A q \in Procs : Progress(q, R)
  BY DEF WInv
<1>2. PICK Q \in SUBSET (Cells \X Cells) : R \subseteq Q /\ Orders(Q)'
  BY <1>1, OrdersStep
<1>3. \A q \in Procs : Watched(q) /\ Route(q) /\ Answered(q)
  BY DEF WInv
<1>4. ASSUME NEW q \in Procs
      PROVE  Watched(q)' /\ After(q, Q)
  <2>1. Watched(q)' /\ (q # p \/ ~Call(p) => Keeps(q))
    BY <1>3, WatchStep
  <2>2. CASE q = p
    <3>1. Before(p, R)
      BY <1>1, <1>3 DEF Before
    <3> QED
      BY <1>2, <2>1, <2>2, <3>1, OwnProgress
  <2>3. CASE q # p
    BY <1>1, <1>2, <1>3, <2>1, <2>3, OthersProgress DEF After
  <2> QED
    BY <2>1, <2>2, <2>3
<1>5. \A q \in Procs : Watched(q)' /\ Route(q)' /\ Answered(q)' /\ Progress(q, Q)'
  BY <1>4 DEF After
<1> QED
  BY <1>2, <1>5 DEF WInv

\* So does a step that changes nothing.
LEMMA StutterWInv ==
    ASSUME WInv, UNCHANGED <<vars, kept, stayed>>
    PROVE  WInv'
<1>1. /\ UNCHANGED <<next, state, value, published, cutAt, pc, call, at, last, exp, cnt, seen, cells>>
      /\ UNCHANGED <<kept, stayed>>
  BY DEF vars, heap, local, work, ghost
<1>2. PICK R \in SUBSET (Cells \X Cells) : Orders(R) /\ \A p \in Procs : Progress(p, R)
  BY DEF WInv
<1>3. Chain' = Chain /\ Orders(R)'
  BY <1>1, <1>2 DEF Orders, Chain
<1>4. ASSUME NEW p \in Procs
      PROVE  Watched(p)' /\ Route(p)' /\ Answered(p)' /\ Progress(p, R)'
  <2>1. Watched(p) /\ Route(p) /\ Answered(p) /\ Progress(p, R)
    BY <1>2 DEF WInv
  <2>2. LiveNodes' = LiveNodes /\ Accepted(p)' = Accepted(p)
    BY <1>1, <1>3 DEF LiveNodes, Accepted
  <2>3. /\ Passed(p, R)' = Passed(p, R)
        /\ SeenNodes(p)' = SeenNodes(p)
        /\ (NoneTwice(p)' <=> NoneTwice(p))
        /\ (Appending(p)' <=> Appending(p))
        /\ \A ks : Walks(p, ks)' <=> Walks(p, ks)
    BY <1>1 DEF Passed, SeenNodes, NoneTwice, Appending, Walks
  <2>4. Watched(p)'
    BY <1>1, <1>3, <2>1, <2>2 DEF Watched
  <2>5. Route(p)'
    BY <1>1, <2>1, <2>3 DEF Route
  <2>6. Answered(p)'
    BY <1>1, <2>1, <2>3 DEF Answered
  <2>7. Progress(p, R)'
    BY <1>1, <2>1, <2>3 DEF Progress
  <2> QED
    BY <2>4, <2>5, <2>6, <2>7
<1> QED
  BY <1>2, <1>3, <1>4 DEF WInv

\* Whenever a call answers, its answer is justified by what its walk has shown.
LEMMA WInvJustifies == WInv => AnswersAreJustified
BY DEF WInv, Answered, AnswersAreJustified, NotFoundIsJustified, ScanIsComplete, SeenNodes, NoneTwice

\* A search or a removal that answers "none", an index out of range, a scan and
\* the snapshot of a Sort: whatever other goroutines inserted, removed, replaced
\* or cleared during the walk, it overlooked nothing that stayed in the list all
\* along, and repeated nothing.
THEOREM AnswersJustified == WatchedSpec => []AnswersAreJustified
<1>1. WatchedInit => IInv /\ Ordered /\ WInv
  BY InitIInv, InitOrdered, InitWInv DEF WatchedInit
<1>2. IInv /\ Ordered /\ WInv /\ [WatchedNext]_<<vars, kept, stayed>> => IInv' /\ Ordered' /\ WInv'
  <2> SUFFICES ASSUME IInv, Ordered, WInv, [WatchedNext]_<<vars, kept, stayed>>
               PROVE  IInv' /\ Ordered' /\ WInv'
    OBVIOUS
  <2>1. CASE \E p \in Procs : Step(p) /\ Watch(p)
    <3>1. [Next]_vars
      BY <2>1 DEF Next
    <3> QED
      BY <2>1, <3>1, NextOrdered, StepWInv
  <2>2. CASE UNCHANGED <<vars, kept, stayed>>
    <3>1. [Next]_vars
      BY <2>2
    <3> QED
      BY <2>2, <3>1, NextOrdered, StutterWInv
  <2> QED
    BY <2>1, <2>2 DEF WatchedNext, Terminated
<1>3. WInv => AnswersAreJustified
  BY WInvJustifies
<1> QED
  BY <1>1, <1>2, <1>3, PTL DEF WatchedSpec

=============================================================================
