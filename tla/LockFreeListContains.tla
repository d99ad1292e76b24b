------------------------ MODULE LockFreeListContains ------------------------
(***************************************************************************)
(* Is Contains of LockFreeList atomic, as README.md:778 has it?  A history *)
(* variable remembers every content the list had while a call runs.        *)
(***************************************************************************)
EXTENDS LockFreeList

VARIABLE contents   \* contents[p]: the contents since p's call began

ValuesOf(s) == [i \in DOMAIN s |-> value[s[i]]]

ContainsInit == Init /\ contents = [p \in Procs |-> {}]

ContainsNext ==
    \/ \E p \in Procs :
         /\ Step(p)
         /\ contents' = [q \in Procs |->
               (IF q = p /\ pc[p] \in Finished THEN {} ELSE contents[q])
                 \cup {ValuesOf(Content)'}]
    \/ Terminated /\ UNCHANGED contents

ContainsSpec == ContainsInit /\ [][ContainsNext]_<<vars, contents>>

(* README.md:778, "Get/Contains | ... | Atomic": when Contains answers     *)
(* false, the list was without the element at some moment of the call.     *)
ContainsIsAtomic ==
    \A p \in Procs : pc[p] = "fail" /\ call[p].kind = "find" =>
      \E s \in contents[p] : Members(s) \cap call[p].want = {}
=============================================================================
