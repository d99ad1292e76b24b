---------------------------- MODULE DequeContract ----------------------------
(***************************************************************************)
(* What a Deque promises (collection.go): a sequence that grows and        *)
(* shrinks at both ends.  Pops and peeks answer (element, true), or        *)
(* (zero, false) when the deque is empty.                                  *)
(***************************************************************************)
EXTENDS Integers, Sequences

CONSTANTS Values, zero

VARIABLES
    content,    \* the elements, front to back
    op,         \* the last call: its name and the elements it brought
    answer      \* what the last pop or peek returned

dequeVars == <<content, op, answer>>

Op(name, elems) == [name |-> name, elems |-> elems]
Nothing == <<zero, FALSE>>
Found(v) == <<v, TRUE>>

Init == content \in Seq(Values) /\ op = Op("new", content) /\ answer = Nothing

PushFront(v) ==
    /\ content' = <<v>> \o content
    /\ op' = Op("pushFront", <<v>>) /\ UNCHANGED answer

PushBack(v) ==
    /\ content' = content \o <<v>>
    /\ op' = Op("pushBack", <<v>>) /\ UNCHANGED answer

PopFront ==
    /\ content # <<>>
    /\ content' = SubSeq(content, 2, Len(content))
    /\ op' = Op("popFront", <<>>) /\ answer' = Found(content[1])

PopBack ==
    /\ content # <<>>
    /\ content' = SubSeq(content, 1, Len(content) - 1)
    /\ op' = Op("popBack", <<>>) /\ answer' = Found(content[Len(content)])

PeekFront ==
    /\ content # <<>>
    /\ op' = Op("peekFront", <<>>) /\ answer' = Found(content[1])
    /\ UNCHANGED content

PeekBack ==
    /\ content # <<>>
    /\ op' = Op("peekBack", <<>>) /\ answer' = Found(content[Len(content)])
    /\ UNCHANGED content

\* A pop or a peek of the empty deque.
Empty ==
    /\ content = <<>>
    /\ \E name \in {"popFront", "popBack", "peekFront", "peekBack"} : op' = Op(name, <<>>)
    /\ answer' = Nothing /\ UNCHANGED content

\* Clear, and a decode into the deque.
Replace ==
    /\ content' = op'.elems
    /\ op' = Op("replace", content')
    /\ UNCHANGED answer

Next ==
    \/ \E v \in Values : PushFront(v) \/ PushBack(v)
    \/ PopFront \/ PopBack \/ PeekFront \/ PeekBack \/ Empty \/ Replace

Spec == Init /\ [][Next]_dequeVars
=============================================================================
