---------------------------- MODULE AtomicObject ----------------------------
(***************************************************************************)
(* What "every call is atomic" promises: between its invocation and its    *)
(* return each call takes effect in one instant, on the whole content, and *)
(* returns what it found at that instant (linearizability).                *)
(***************************************************************************)
CONSTANTS
    Procs,           \* the goroutines
    Requests,        \* the calls they may make
    Start,           \* the content to start from
    Effects(_, _),   \* Effects(q, s): what call q may do to content s
    none             \* no call, no result

VARIABLES content, stage, request, result
vars == <<content, stage, request, result>>

Init ==
    /\ content = Start
    /\ stage = [p \in Procs |-> "idle"]
    /\ request = [p \in Procs |-> none]
    /\ result = [p \in Procs |-> none]

Invoke(p) ==
    /\ stage[p] = "idle"
    /\ stage' = [stage EXCEPT ![p] = "open"]
    /\ request'[p] \in Requests
    /\ request' = [request EXCEPT ![p] = request'[p]]
    /\ UNCHANGED <<content, result>>

TakeEffect(p) ==
    /\ stage[p] = "open"
    /\ stage' = [stage EXCEPT ![p] = "closed"]
    /\ \E e \in Effects(request[p], content) :
         /\ content' = e.s
         /\ result' = [result EXCEPT ![p] = e.ret]
    /\ UNCHANGED request

Return(p) ==
    /\ stage[p] = "closed"
    /\ stage' = [stage EXCEPT ![p] = "idle"]
    /\ request' = [request EXCEPT ![p] = none]
    /\ result' = [result EXCEPT ![p] = none]
    /\ UNCHANGED content

Next == \E p \in Procs : Invoke(p) \/ TakeEffect(p) \/ Return(p)

Spec == Init /\ [][Next]_vars
=============================================================================
