------------------------------ MODULE RWMutex ------------------------------
(***************************************************************************)
(* Go's sync.RWMutex, from how the collections use it.  A lock is a record *)
(* of the goroutine that has called Lock and not yet Unlock, and the       *)
(* goroutines that hold it for reading.  Lock first announces itself,      *)
(* which keeps new readers out, and then waits for the readers inside:     *)
(* that is why taking the read lock twice may deadlock.                    *)
(***************************************************************************)
CONSTANT none    \* no goroutine

Unlocked == [writer |-> none, readers |-> {}]
Locks(P) == [writer : P \cup {none}, readers : SUBSET P]

MayRLock(k) == k.writer = none
RLocked(k, p) == [k EXCEPT !.readers = @ \cup {p}]
RUnlocked(k, p) == [k EXCEPT !.readers = @ \ {p}]

MayAnnounce(k) == k.writer = none
Announced(k, p) == [k EXCEPT !.writer = p]
Granted(k, p) == k.writer = p /\ k.readers = {}
Released(k) == [k EXCEPT !.writer = none]
=============================================================================
