---------------------------- MODULE HashMapScans ----------------------------
(***************************************************************************)
(* What the bulk methods of ConcurrentHashMap do as a whole, which is not  *)
(* atomic.  A history variable remembers every content the map had while a *)
(* call runs, from its beginning.                                          *)
(***************************************************************************)
EXTENDS ConcurrentHashMap

VARIABLES
    contents,   \* contents[p]: the contents since p's call began
    applied     \* applied[p][k]: how often p's ReplaceAll replaced k's value

ScanInit ==
    /\ Init
    /\ contents = [p \in Procs |-> {}]
    /\ applied = [p \in Procs |-> [k \in Keys |-> 0]]

ScanNext ==
    /\ Next
    /\ contents' = [p \in Procs |-> IF pc'[p] = "idle" THEN {} ELSE contents[p] \cup {m'}]
    /\ applied' = [p \in Procs |->
         IF pc[p] = "idle" THEN [k \in Keys |-> 0]
         ELSE IF pc[p] = "callback" /\ call[p].kind = "replaceAll" /\ ret'[p] # <<none>>
                 /\ pc'[p] = "done"
              THEN [applied[p] EXCEPT ![sub[p].key] = @ + 1] ELSE applied[p]]
ScanSpec == ScanInit /\ [][ScanNext]_<<vars, contents, applied>>
FairScanSpec == ScanSpec /\ Fairness

\* Entries the map held at every, at some moment of p's call; keys it always held.
Kept(p) == {e \in Keys \X Values : \A s \in contents[p] : s[e[1]] = e[2]}
Had(p)  == {e \in Keys \X Values : \E s \in contents[p] : s[e[1]] = e[2]}
Stayed(p) == {k \in Keys : \A s \in contents[p] : s[k] # none}

Over(p) == batch[p] = {} /\ left[p] = {} /\ pc[p] = "visit"

(***************************************************************************)
(* An iteration (Seq, Keys, Clone, Filter, the marshallers) is told of     *)
(* every entry that was there all along, of none that was not there        *)
(* meanwhile, and of no key twice, whatever the others and its own         *)
(* callbacks do to the map; ContainsValue finds a value that stayed.       *)
(***************************************************************************)
ScanIsComplete ==
    \A p \in Procs :
      /\ seen[p] \subseteq Had(p) \/ pc[p] = "idle"
      /\ \A e, f \in seen[p] : e[1] = f[1] => e = f
      /\ Over(p) => Kept(p) \subseteq seen[p] \/ Stops(p)

(***************************************************************************)
(* RemoveFunc leaves no entry its predicate accepts and that was there all *)
(* along; ReplaceAll applies its function to every key that stayed, and to *)
(* none twice, also when its own or other goroutines' Puts land between.   *)
(***************************************************************************)
BulkIsThorough ==
    \A p \in Procs :
      /\ pc[p] = "next" /\ plan[p] = <<>> /\ call[p].kind = "removeFunc" =>
           \A e \in Kept(p) : e[2] # call[p].old
      /\ call[p] # none /\ call[p].kind = "replaceAll" =>
           /\ \A k \in Keys : applied[p][k] <= 1
           /\ Over(p) => \A k \in Stayed(p) : applied[p][k] = 1

(* Bucket by bucket is good enough for everything a Range is used for.     *)
ScansAreThorough == ScanIsComplete /\ BulkIsThorough

(***************************************************************************)
(* ReplaceAll writes a function of the value it overwrites, never of the   *)
(* one Range copied before, and brings no removed key back ("The key can   *)
(* vanish between Range and Compute").                                     *)
(***************************************************************************)
ReplacesWhatIsThere ==
    [][\A p \in Procs :
         /\ call[p] # none /\ call[p].kind = "replaceAll"
         /\ pc[p] # "done" /\ pc'[p] = "done"
         => \A k \in Keys : m'[k] # m[k] => m[k] # none /\ m'[k] = call[p].fn[m[k]]]_vars

(***************************************************************************)
(* "Provides snapshot consistency" (MarshalJSON, lines 624-625): what the  *)
(* marshallers collect is a content the map had at one moment of the call. *)
(***************************************************************************)
MarshalIsSnapshot ==
    \A p \in Procs : Over(p) /\ call[p].kind = "scan" =>
      \E s \in contents[p] : seen[p] = {<<k, s[k]>> : k \in Stored(s)}
=============================================================================
