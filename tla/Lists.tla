-------------------------------- MODULE Lists --------------------------------
(***************************************************************************)
(* The intrusive lists of src/include/util/list_ops.h.  A list is the head    *)
(* the caller keeps and the links in the nodes: singly linked, doubly linked  *)
(* and circular lists have the same representation.  A node is in one list at *)
(* most.                                                                     *)
(***************************************************************************)
EXTENDS Integers, FiniteSets, SequencesExt

CONSTANT Nil

Unlinked(nodes) == [head |-> Nil, next |-> [n \in nodes |-> Nil], prev |-> [n \in nodes |-> Nil]]

LOCAL Linked(l, a, b) == [l EXCEPT !.next[a] = b, !.prev[b] = a]

LOCAL Set(f, n, v) == IF n = Nil THEN f ELSE [f EXCEPT ![n] = v]

\* The nodes that are reached from one by the next links, up to the end or round to it.
From(l, first) ==
    LET add(s, i) == IF s = <<>> \/ Last(s) = Nil THEN s
                     ELSE IF l.next[Last(s)] \in {Nil, first} THEN s
                     ELSE Append(s, l.next[Last(s)])
    IN  IF first = Nil THEN <<>>
        ELSE FoldLeft(add, <<first>>, [i \in 1 .. Cardinality(DOMAIN l.next) |-> i])

Chain(l) == From(l, l.head)

----------------------------------------------------------------------------
(* Singly linked lists.                                                    *)
slist_push(l, n) == [l EXCEPT !.next[n] = l.head, !.head = n]

slist_pop(l) == IF l.head = Nil THEN l
                ELSE [l EXCEPT !.head = l.next[l.head], !.next[l.head] = Nil]

slist_find(l, n) == n \in Range(Chain(l))

\* The node whose next is the one given; Nil stands for none, as it does in the code.
slist_find_prev(l, n) ==
    LET before == {p \in Range(Chain(l)) : l.next[p] = n}
    IN  IF before = {} THEN Nil ELSE CHOOSE p \in before : TRUE

slist_remove_after(l, before) ==
    LET n == l.next[before]
    IN  IF n = Nil THEN l ELSE [l EXCEPT !.next = [@ EXCEPT ![before] = l.next[n], ![n] = Nil]]

slist_remove(l, n) ==
    IF n = l.head THEN slist_pop(l)
    ELSE IF slist_find_prev(l, n) = Nil THEN l ELSE slist_remove_after(l, slist_find_prev(l, n))

slist_add_after(l, before, n) ==
    IF before = Nil THEN slist_push(l, n)
    ELSE [l EXCEPT !.next = [@ EXCEPT ![n] = l.next[before], ![before] = n]]

slist_add_before(l, after, n) ==
    LET before == slist_find_prev(l, after)
    IN  IF l.head = Nil \/ after = l.head THEN slist_push(l, n)
        ELSE IF before = Nil THEN l
        ELSE [l EXCEPT !.next = [@ EXCEPT ![before] = n, ![n] = after]]

----------------------------------------------------------------------------
(* Doubly linked lists.                                                    *)
\* The node that was the head does not get a prev link.
list_push(l, n) == [l EXCEPT !.next[n] = l.head, !.prev[n] = Nil, !.head = n]

list_pop(l) ==
    IF l.head = Nil THEN l
    ELSE [l EXCEPT !.head = l.next[l.head], !.prev = Set(@, l.next[l.head], Nil),
                   !.next[l.head] = Nil]

list_find(l, n) == slist_find(l, n)

list_remove_after(l, before) ==
    LET n == l.next[before]
    IN  IF n = Nil THEN l
        ELSE [l EXCEPT !.next = [@ EXCEPT ![before] = l.next[n], ![n] = Nil],
                       !.prev = [Set(@, l.next[n], before) EXCEPT ![n] = Nil]]

\* Found by its prev link: without one it is taken not to be in the list.
list_remove(l, n) ==
    IF n = l.head THEN list_pop(l)
    ELSE IF l.prev[n] = Nil THEN l ELSE list_remove_after(l, l.prev[n])

list_add_after(l, before, n) ==
    IF before = Nil THEN list_push(l, n)
    ELSE [l EXCEPT !.next = [@ EXCEPT ![n] = l.next[before], ![before] = n],
                   !.prev = [Set(@, l.next[before], n) EXCEPT ![n] = before]]

list_add_before(l, after, n) ==
    IF l.head = Nil \/ after = l.head THEN list_push(l, n)
    ELSE IF l.prev[after] = Nil THEN l
    ELSE Linked(Linked(l, l.prev[after], n), n, after)

----------------------------------------------------------------------------
(* Circular lists.                                                         *)
clist_init(l, n) == Linked(l, n, n)

clist_remove(l, n) ==
    LET before == l.prev[n]
        head   == IF before = n THEN Nil ELSE IF l.head = n THEN l.next[n] ELSE l.head
    IN  [clist_init(Linked(l, before, l.next[n]), n) EXCEPT !.head = head]

clist_add_after(l, before, n) == Linked(Linked(l, n, l.next[before]), before, n)

clist_add_before(l, after, n) == Linked(Linked(l, l.prev[after], n), n, after)

clist_push(l, n) == [(IF l.head = Nil THEN l ELSE clist_add_before(l, l.head, n)) EXCEPT !.head = n]

\* The next node stays the head.
clist_pop(l) ==
    IF l.head = Nil THEN l ELSE clist_remove([l EXCEPT !.head = l.next[l.head]], l.head)

clist_push_back(l, n) == IF l.head = Nil THEN clist_push(l, n) ELSE clist_add_before(l, l.head, n)

clist_pop_back(l) ==
    IF l.head = Nil THEN l
    ELSE LET n == l.prev[l.head] IN clist_remove([l EXCEPT !.head = l.next[n]], n)

----------------------------------------------------------------------------
(* Properties: a call does to the list what it does to the sequence of nodes. *)
\* What a call means, with a place in the list and a node that is in none.
Meant(s, op, i, n) ==
    CASE op = "push" -> <<n>> \o s
      [] op = "push_back" -> Append(s, n)
      [] op = "pop" -> IF s = <<>> THEN s ELSE Tail(s)
      [] op = "pop_back" -> IF s = <<>> THEN s ELSE Front(s)
      [] op = "remove" -> RemoveAt(s, i)
      [] op = "remove_after" -> IF i = Len(s) THEN s ELSE RemoveAt(s, i + 1)
      [] op = "add_after" -> InsertAt(s, i + 1, n)
      [] op = "add_before" -> InsertAt(s, i, n)

\* What the functions of each kind of list do.
Slist(l, op, at, n) ==
    CASE op = "push" -> slist_push(l, n)
      [] op = "pop" -> slist_pop(l)
      [] op = "remove" -> slist_remove(l, at)
      [] op = "remove_after" -> slist_remove_after(l, at)
      [] op = "add_after" -> slist_add_after(l, at, n)
      [] op = "add_before" -> slist_add_before(l, at, n)

List(l, op, at, n) ==
    CASE op = "push" -> list_push(l, n)
      [] op = "pop" -> list_pop(l)
      [] op = "remove" -> list_remove(l, at)
      [] op = "remove_after" -> list_remove_after(l, at)
      [] op = "add_after" -> list_add_after(l, at, n)
      [] op = "add_before" -> list_add_before(l, at, n)

Clist(l, op, at, n) ==
    CASE op = "push" -> clist_push(l, n)
      [] op = "pop" -> clist_pop(l)
      [] op = "push_back" -> clist_push_back(l, n)
      [] op = "pop_back" -> clist_pop_back(l)
      [] op = "remove" -> clist_remove(l, at)
      [] op = "add_after" -> clist_add_after(l, at, n)
      [] op = "add_before" -> clist_add_before(l, at, n)

Placed == {"remove", "remove_after", "add_after", "add_before"}
Adding == {"push", "push_back", "add_after", "add_before"}

OpsOf(kind) == {"push", "pop", "remove", "add_after", "add_before"}
               \cup IF kind = "clist" THEN {"push_back", "pop_back"} ELSE {"remove_after"}

\* Over any calls the list is the sequence that was built, each prev link leads back along a
\* next link, and a node taken out is linked to nothing.  A push onto a doubly linked list
\* forgets the way back to it: places behind a lost link are left aside, and so is the place
\* before the head of a circular list, which is its end (list_ops.h).
ListsAgree(kind, nodes, calls) ==
    LET l0 == IF kind = "clist" THEN FoldSet(LAMBDA n, l : clist_init(l, n), Unlinked(nodes), nodes)
              ELSE Unlinked(nodes)
        legal(s, c) ==
            /\ c.op \in OpsOf(kind)
            /\ c.op \in Adding => Len(s.seq) < Cardinality(nodes)
            /\ c.op \in Placed => c.pos \in DOMAIN s.seq
            /\ kind = "list" /\ c.op \in {"remove", "add_before"} =>
                  c.pos = 1 \/ s.list.prev[s.seq[c.pos]] # Nil
            /\ kind = "clist" /\ c.op = "add_before" => c.pos > 1
        step(s, c) ==
            LET at == IF c.op \in Placed THEN s.seq[c.pos] ELSE Nil
                n  == IF c.op \in Adding THEN CHOOSE m \in nodes : m \notin Range(s.seq) ELSE Nil
            IN  IF ~legal(s, c) THEN s
                ELSE [seq  |-> Meant(s.seq, c.op, c.pos, n),
                      list |-> CASE kind = "slist" -> Slist(s.list, c.op, at, n)
                                 [] kind = "list"  -> List(s.list, c.op, at, n)
                                 [] kind = "clist" -> Clist(s.list, c.op, at, n)]
        done == FoldLeft(step, [seq |-> <<>>, list |-> l0], calls)
        l    == done.list
    IN  /\ Chain(l) = done.seq
        /\ \A n \in nodes : slist_find(l, n) <=> n \in Range(done.seq)
        /\ kind = "list" => \A n \in Range(done.seq) : l.prev[n] # Nil => l.next[l.prev[n]] = n
        /\ kind = "clist" => \A n \in nodes : l.prev[l.next[n]] = n
        /\ \A n \in nodes \ Range(done.seq) : l.next[n] = l0.next[n]

=============================================================================
