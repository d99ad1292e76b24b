------------------------------ MODULE SkipWalk ------------------------------
(***************************************************************************)
(* Range of the lock-free skip lists (zhangyunhao116's skipmap and         *)
(* skipset), external, from what the code in src/ relies on: it calls back *)
(* in ascending key order, without any lock, with keys that are there when *)
(* they are reached.  Whatever the callback and other goroutines insert    *)
(* and delete meanwhile, it passes no key that is there from its beginning *)
(* on; a key that comes later may be told of or not.                       *)
(*                                                                         *)
(* A walk is the key it told of last and the keys it cannot miss.          *)
(***************************************************************************)
EXTENDS Naturals, FiniteSets

\* Keys are positive, so that a walk begins before all of them.
Walks(K) == [pos : K \cup {0}, due : SUBSET K]
Begun(S) == [pos |-> 0, due |-> S]

\* The keys the callback may be called with next, and the end of the walk.
Reached(w, S) == {k \in S : k > w.pos /\ \A d \in w.due : k <= d}
Moved(w, k) == [pos |-> k, due |-> w.due \ {k}]
AtEnd(w) == w.due = {}

\* Keys no longer in S may be missed even if they come back.
Without(w, S) == [w EXCEPT !.due = @ \cap S]

-----------------------------------------------------------------------------
(* The navigation queries are walks too: each remembers the last key that  *)
(* qualifies and stops at the first one past what it looks for.            *)

Navigations == {"first", "last", "floor", "ceiling", "lower", "higher"}

Qualifies(nav, x, k) ==
    CASE nav \in {"first", "last"} -> TRUE
      [] nav = "floor" -> k <= x
      [] nav = "lower" -> k < x
      [] nav = "ceiling" -> k >= x
      [] nav = "higher" -> k > x

\* Mutant of Stops: Floor and Lower stop where Ceiling would.
StopsLikeCeiling(nav, x, k) == nav # "last" /\ Qualifies(nav, x, k)

\* The callback returns false at k.
Stops(nav, x, k) ==
    CASE nav = "first" -> TRUE
      [] nav \in {"ceiling", "higher"} -> Qualifies(nav, x, k)
      [] nav \in {"floor", "lower"} -> ~Qualifies(nav, x, k)
      [] nav = "last" -> FALSE

\* What the query should answer of a set that does not change.
Upward == {"first", "ceiling", "higher"}
Wanted(nav, x, S) ==
    LET fit == {k \in S : Qualifies(nav, x, k)}
    IN  {k \in fit : \A j \in fit : IF nav \in Upward THEN k <= j ELSE k >= j}
=============================================================================
