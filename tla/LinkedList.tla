----------------------------- MODULE LinkedList -----------------------------
(***************************************************************************)
(* linkedList (linkedlist.go): nodes linked both ways, with head, tail and *)
(* size kept beside them.  One action is one method call: the type is not  *)
(* safe for concurrent use.  A list is a record; node 0 is nil, and a node *)
(* that is no longer linked is forgotten.  What a node is called is up to  *)
(* the model: each call finds them numbered from the head on.              *)
(***************************************************************************)
EXTENDS Integers, Sequences, TLC

CONSTANTS
    Elements,     \* what the list holds, in the order of the comparator
    Slices,       \* the slices it is built from, is given and decodes
    LongestList   \* bound: no insertion beyond it

VARIABLES
    list,         \* head, tail, size and the nodes
    listCall,     \* the last call: a request as in ListOps
    listReturned  \* what it returned

listVars == <<list, listCall, listReturned>>

Ops == INSTANCE ListOps
Seqs == INSTANCE SequencesExt

nil == 0
Empty == [nodes |-> <<>>, head |-> nil, tail |-> nil, size |-> 0]
Fresh(l) == l.size + 1
Created(l, n, e, prev, next) ==
    [l EXCEPT !.nodes = (n :> [value |-> e, prev |-> prev, next |-> next]) @@ @, !.size = @ + 1]

\* n.next = x where n may be nil: then head = x.  prev and tail likewise.
SetNext(l, n, x) == IF n = nil THEN [l EXCEPT !.head = x] ELSE [l EXCEPT !.nodes[n].next = x]
SetPrev(l, n, x) == IF n = nil THEN [l EXCEPT !.tail = x] ELSE [l EXCEPT !.nodes[n].prev = x]

\* The nodes from head on and from tail back, as long as the links lead.
Forth(l) == LET f[k \in 1 .. l.size] == IF k = 1 THEN l.head
                ELSE IF f[k - 1] = nil THEN nil ELSE l.nodes[f[k - 1]].next IN f
Back(l) == LET f[k \in 1 .. l.size] == IF k = 1 THEN l.tail
                ELSE IF f[k - 1] = nil THEN nil ELSE l.nodes[f[k - 1]].prev IN f
Content(l) == [k \in 1 .. l.size |-> l.nodes[Forth(l)[k]].value]

\* The same list, its nodes numbered from the head on.
Numbered(l) ==
    LET name(n) == IF n = nil THEN nil ELSE CHOOSE k \in 1 .. l.size : Forth(l)[k] = n
        x(k) == l.nodes[Forth(l)[k]]
    IN  [l EXCEPT !.head = name(@), !.tail = name(@),
           !.nodes = [k \in 1 .. l.size |-> [x(k) EXCEPT !.prev = name(@), !.next = name(@)]]]

\* It starts from the closer end.
NodeAt(l, i) ==
    CASE i \notin 0 .. l.size - 1 -> nil
      [] i \in 0 .. (l.size \div 2) - 1 -> Forth(l)[i + 1]
      [] OTHER -> Back(l)[l.size - i]

-----------------------------------------------------------------------------
(* What the methods do to the list.                                        *)

Add(l, e) ==
    LET n == Fresh(l) IN [SetNext(Created(l, n, e, l.tail, nil), l.tail, n) EXCEPT !.tail = n]

AddFirst(l, e) ==
    LET n == Fresh(l) IN [SetPrev(Created(l, n, e, nil, l.head), l.head, n) EXCEPT !.head = n]

\* Mutant of Insert: behind the node at index instead of before it.
InsertBehind(l, i, e) ==
    LET n == Fresh(l)  target == NodeAt(l, i)  after == l.nodes[target].next
    IN  CASE i \notin 0 .. l.size -> l
          [] i = 0 -> AddFirst(l, e)
          [] i = l.size -> Add(l, e)
          [] OTHER -> SetPrev(SetNext(Created(l, n, e, target, after), target, n), after, n)

Insert(l, i, e) ==
    LET n == Fresh(l)  target == NodeAt(l, i)  before == l.nodes[target].prev
    IN  CASE i \notin 0 .. l.size -> l
          [] i = 0 -> AddFirst(l, e)
          [] i = l.size -> Add(l, e)
          [] OTHER -> SetPrev(SetNext(Created(l, n, e, before, target), before, n), target, n)

\* The elements are chained behind prev; then the chain is closed.
Chained(c, e) ==
    LET n == Fresh(c.l) IN [l |-> SetNext(Created(c.l, n, e, c.prev, nil), c.prev, n), prev |-> n]

\* Mutant of InsertAll: the node behind the splice keeps its prev.
InsertAllOneWay(l, i, elems) ==
    LET next == NodeAt(l, i)
        chain == Seqs!FoldLeft(Chained,
                   [l |-> l, prev |-> IF next = nil THEN l.tail ELSE l.nodes[next].prev], elems)
        closed == SetNext(chain.l, chain.prev, next)
    IN  IF i \notin 0 .. l.size \/ elems = <<>> THEN l
        ELSE IF next = nil THEN SetPrev(closed, next, chain.prev) ELSE closed

InsertAll(l, i, elems) ==
    LET next == NodeAt(l, i)
        chain == Seqs!FoldLeft(Chained,
                   [l |-> l, prev |-> IF next = nil THEN l.tail ELSE l.nodes[next].prev], elems)
    IN  IF i \notin 0 .. l.size \/ elems = <<>> THEN l
        ELSE SetPrev(SetNext(chain.l, chain.prev, next), next, chain.prev)

RemoveNode(l, n) ==
    LET x == l.nodes[n]  out == SetPrev(SetNext(l, x.prev, x.next), x.next, x.prev)
    IN  [out EXCEPT !.nodes = [m \in DOMAIN @ \ {n} |-> @[m]], !.size = @ - 1]

\* The first node with a value in S, or nil.
Match(l, S) ==
    LET hits == {k \in 1 .. l.size : l.nodes[Forth(l)[k]].value \in S}
    IN  IF hits = {} THEN nil ELSE Forth(l)[Ops!Least(hits)]

\* Nodes one by one, the next one looked up before one is removed.
RemoveFunc(l, S) ==
    Seqs!FoldLeft(LAMBDA r, n : IF r.nodes[n].value \in S THEN RemoveNode(r, n) ELSE r, l, Forth(l))

\* Mutant of Merge: the right half goes first among equals.
MergeRightFirst(l, a, b) ==
    LET f[i \in 0 .. Len(a), j \in 0 .. Len(b)] ==
          CASE i = Len(a) -> SubSeq(b, j + 1, Len(b))
            [] j = Len(b) -> SubSeq(a, i + 1, Len(a))
            [] l.nodes[a[i + 1]].value < l.nodes[b[j + 1]].value -> <<a[i + 1]>> \o f[i + 1, j]
            [] OTHER -> <<b[j + 1]>> \o f[i, j + 1]
    IN  f[0, 0]

\* merge, on the nodes of two chains.
Merge(l, a, b) ==
    LET f[i \in 0 .. Len(a), j \in 0 .. Len(b)] ==
          CASE i = Len(a) -> SubSeq(b, j + 1, Len(b))
            [] j = Len(b) -> SubSeq(a, i + 1, Len(a))
            [] l.nodes[a[i + 1]].value <= l.nodes[b[j + 1]].value -> <<a[i + 1]>> \o f[i + 1, j]
            [] OTHER -> <<b[j + 1]>> \o f[i, j + 1]
    IN  f[0, 0]

\* mergeSort of the chain from the i-th node of s on, n nodes long.
MergeSort(l, s) ==
    LET f[i \in 1 .. Len(s), n \in 1 .. Len(s)] ==
          LET left == (n + 1) \div 2
          IN  IF n = 1 THEN <<s[i]>> ELSE Merge(l, f[i, left], f[i + left, n - left])
    IN  f[1, Len(s)]

\* The links of s, in order: next by mergeSort, prev and tail rebuilt by Sort.
Relinked(l, s) ==
    LET At(k) == IF k \in DOMAIN s THEN s[k] ELSE nil
        pos(n) == CHOOSE k \in DOMAIN s : s[k] = n
    IN  [l EXCEPT !.head = At(1), !.tail = At(Len(s)),
                  !.nodes = [n \in DOMAIN @ |-> [@[n] EXCEPT !.prev = At(pos(n) - 1), !.next = At(pos(n) + 1)]]]
Sort(l) == IF l.size <= 1 THEN l ELSE Relinked(l, MergeSort(l, Forth(l)))

\* replaceFromSlice, NewLinkedListFrom.
From(s) == Seqs!FoldLeft(Add, Empty, s)

\* The value at a node, found or not.
Value(l, n) == IF n = nil THEN <<>> ELSE <<l.nodes[n].value>>

Result(q, l) ==
    LET n == NodeAt(l, q.idx)
        hit == Match(l, q.want)
        Out(to, r) == [l |-> to, ret |-> r]
        Drop(x) == Out(IF x = nil THEN l ELSE RemoveNode(l, x), Value(l, x))
    IN  CASE q.kind = "addAll" -> Out(Seqs!FoldLeft(Add, l, q.elems), <<>>)
          [] q.kind = "addFirst" -> Out(AddFirst(l, q.elems[1]), <<1>>)
          [] q.kind = "insert" -> Out(Insert(l, q.idx, q.elems[1]), IF q.idx \in 0 .. l.size THEN <<1>> ELSE <<>>)
          [] q.kind = "insertAll" ->
               Out(InsertAll(l, q.idx, q.elems), IF q.idx \in 0 .. l.size THEN <<1>> ELSE <<>>)
          [] q.kind = "set" ->
               Out(IF n = nil THEN l ELSE [l EXCEPT !.nodes[n].value = q.elems[1]], Value(l, n))
          [] q.kind = "get" -> Out(l, Value(l, n))
          [] q.kind = "last" -> Out(l, Value(l, l.tail))
          [] q.kind = "removeAt" -> Drop(n)
          [] q.kind = "remove" -> Out(Drop(hit).l, IF hit = nil THEN <<>> ELSE <<1>>)
          [] q.kind = "removeFirst" -> Drop(l.head)
          [] q.kind = "removeLast" -> Drop(l.tail)
          [] q.kind = "removeFunc" -> Out(RemoveFunc(l, q.want), <<l.size - RemoveFunc(l, q.want).size>>)
          [] q.kind = "lastIndexOf" ->
               Out(l, LET hits == {k \in 1 .. l.size : l.nodes[Back(l)[k]].value \in q.want}
                      IN  IF hits = {} THEN <<>> ELSE <<l.size - Ops!Least(hits)>>)
          [] q.kind = "subList" ->
               Out(l, IF q.idx < 0 \/ q.to > l.size \/ q.idx > q.to THEN <<>> ELSE SubSeq(Content(l), q.idx + 1, q.to))
          [] q.kind = "sort" -> Out(Sort(l), <<>>)
          [] q.kind = "clear" -> Out(Empty, <<>>)
          [] q.kind = "replace" -> Out(From(q.elems), <<>>)

-----------------------------------------------------------------------------
Growing == {"addAll", "addFirst", "insert", "insertAll"}
ListRequests ==
    LET R(kinds, idxs, wants, brought) ==
          {Ops!Request(k, i, 2, w, e) : k \in kinds, i \in idxs, w \in wants, e \in brought}
        one == {<<x>> : x \in Elements}
    IN  R({"addFirst"}, {0}, {{}}, one) \cup R({"addAll", "replace"}, {0}, {{}}, Slices)
        \cup R({"insert", "set"}, -1 .. list.size + 1, {{}}, one)
        \cup R({"insertAll"}, -1 .. list.size + 1, {{}}, Slices)
        \cup R({"get", "removeAt", "subList"}, -1 .. list.size + 1, {{}}, {<<>>})
        \cup R({"remove", "removeFunc", "lastIndexOf"}, {0}, {{x} : x \in Elements}, {<<>>})
        \cup R({"last", "removeFirst", "removeLast", "sort", "clear"}, {0}, {{}}, {<<>>})

ListInit ==
    /\ \E s \in Slices : list = From(s)
    /\ listCall = Ops!Request("replace", 0, 0, {}, Content(list))
    /\ listReturned = <<>>

ListNext ==
    \E q \in ListRequests :
      /\ q.kind \in Growing => list.size + Len(q.elems) <= LongestList
      /\ list' = Result(q, Numbered(list)).l
      /\ listCall' = q
      /\ listReturned' = Result(q, Numbered(list)).ret

-----------------------------------------------------------------------------
(* The two chains of links and the three fields agree.                     *)
LinksAgree ==
    /\ list.size = 0 => list.head = nil /\ list.tail = nil
    /\ \A k \in 1 .. list.size :
         Forth(list)[k] # nil /\ Forth(list)[k] = Back(list)[list.size + 1 - k]
    /\ list.size # 0 =>
         list.nodes[list.head].prev = nil /\ list.nodes[list.tail].next = nil

(* Every call does to the elements, and answers, what it does in the other *)
(* lists; InsertAll of nothing looks at the index first, as in arrayList.  *)
Asked(q) ==
    CASE q.kind = "addFirst" -> [q EXCEPT !.kind = "insertAll", !.idx = 0]
      [] q.kind = "insert" -> [q EXCEPT !.kind = "insertAll"]
      [] q.kind = "removeFirst" -> [q EXCEPT !.kind = "removeAt", !.idx = 0]
      [] OTHER -> q
Promises == Ops!Outcomes(Asked(listCall'), Content(list))
ActsLikeAList ==
    [][\E promise \in Promises :
         /\ Content(list') = promise.s
         /\ \/ listCall'.kind = "insertAll" /\ listCall'.elems = <<>>
            \/ listReturned' = promise.ret]_listVars

(* Sort (lines 419-477) relinks the nodes it found, none lost or made, and *)
(* equal elements keep their order.                                        *)
SortIsStable ==
    [][listCall'.kind = "sort" =>
         LET Place(l, n) == CHOOSE k \in 1 .. l.size : Forth(l)[k] = n
         IN  /\ DOMAIN list'.nodes = 1 .. list.size
             /\ \A m, n \in 1 .. list.size :
                  m < n /\ Content(list)[m] = Content(list)[n] => Place(list', m) < Place(list', n)]_listVars
=============================================================================
