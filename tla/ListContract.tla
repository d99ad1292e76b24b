---------------------------- MODULE ListContract ----------------------------
(***************************************************************************)
(* What a list shared by goroutines promises, whatever its implementation: *)
(* a sequence of distinct elements that every call changes in one step.  A *)
(* call that overlaps a Clear may still act on what the Clear swept away,  *)
(* and what it adds there is swept away too ("it linearizes before the     *)
(* Clear", lockfreelist.go:122); nothing swept or returned comes back.     *)
(***************************************************************************)
EXTENDS Integers, Sequences, SequencesExt

CONSTANT Elements

VARIABLES
    content,    \* the elements of the list, in order
    swept,      \* elements removed by a Clear and not returned by a call
    gone,       \* elements some call returned when it removed or replaced them
    cleared     \* has there been a Clear

listVars == <<content, swept, gone, cleared>>

Known == ToSet(content) \cup swept \cup gone
New(x) == x \in Elements \ Known

Init ==
    /\ content \in [1 .. Len(content) -> Elements]
    /\ swept = {} /\ gone = {} /\ cleared = FALSE

\* Add and AddAll: the whole batch, at the end.
AddAll ==
    /\ IsStrictPrefix(content, content')
    /\ \A i \in Len(content) + 1 .. Len(content') : New(content'[i])
    /\ IsInjective(content')
    /\ UNCHANGED <<swept, gone, cleared>>

\* Insert: one element, at a position best effort.
Insert(i, x) ==
    /\ New(x)
    /\ content' = InsertAt(content, i, x)
    /\ UNCHANGED <<swept, gone, cleared>>

\* Remove, RemoveAt, RemoveFirst, RemoveLast, RemoveFunc: one element, returned.
Take(i) ==
    /\ content' = RemoveAt(content, i)
    /\ gone' = gone \cup {content[i]}
    /\ UNCHANGED <<swept, cleared>>

\* Set: the old element is returned, the new one takes its place.
Replace(i, x) ==
    /\ New(x)
    /\ content' = ReplaceAt(content, i, x)
    /\ gone' = gone \cup {content[i]}
    /\ UNCHANGED <<swept, cleared>>

Clear ==
    /\ content' = <<>>
    /\ swept' = swept \cup ToSet(content)
    /\ cleared' = TRUE
    /\ UNCHANGED gone

\* A call that began before a Clear ends after it.
Late ==
    /\ cleared
    /\ \/ /\ swept \subseteq swept' /\ gone' = gone
          /\ \A x \in swept' \ swept : New(x)
       \/ \E x \in swept :
            /\ gone' = gone \cup {x}
            /\ \/ swept' = swept \ {x}
               \/ \E y \in Elements : New(y) /\ swept' = (swept \ {x}) \cup {y}
    /\ UNCHANGED <<content, cleared>>

Next ==
    \/ AddAll
    \/ \E i \in 1 .. Len(content) + 1, x \in Elements : Insert(i, x)
    \/ \E i \in DOMAIN content : Take(i)
    \/ \E i \in DOMAIN content, x \in Elements : Replace(i, x)
    \/ Clear
    \/ Late

Spec == Init /\ [][Next]_listVars
=============================================================================
