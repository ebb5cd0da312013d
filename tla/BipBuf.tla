------------------------------- MODULE BipBuf -------------------------------
(***************************************************************************)
(* The bipartite buffers of src/include/cstone/BipBuf.hpp (the C template     *)
(* src/template/cstone/bipbuf.c.m4 has the same fifo).  Data lies in region A *)
(* and, once that has no room behind it, in region B from the start of the    *)
(* buffer.  A result is a record of the buffer and what the call returns.     *)
(***************************************************************************)
EXTENDS Integers, Sequences, SequencesExt

BipInit(size) ==
    [buf |-> [i \in 0 .. size - 1 |-> 0], size |-> size, a_start |-> 0, a_end |-> 0, b_end |-> 0,
     r_start |-> 0, r_end |-> 0]

flush(q) == [q EXCEPT !.a_start = 0, !.a_end = 0, !.b_end = 0, !.r_start = 0, !.r_end = 0]

total_used_elems(q) == q.a_end - q.a_start + q.b_end
total_free_elems(q) == q.size - total_used_elems(q)
num_block_elems(q) == q.a_end - q.a_start
used_back_elems(q) == IF q.b_end > 0 THEN q.b_end ELSE q.a_end - q.a_start
is_empty(q) == q.a_start = q.a_end
is_full(q) == total_used_elems(q) = q.size
space_after_a(q) == q.size - q.a_end
space_after_b(q) == q.a_start - q.b_end

\* The gap between the regions, or the larger one before or after region A.
free_elems(q) ==
    IF q.b_end > 0 THEN space_after_b(q)
    ELSE IF q.a_start > space_after_a(q) THEN q.a_start ELSE space_after_a(q)

LOCAL Result(q, ok) == [q |-> q, ok |-> ok]

LOCAL Written(q, at, data) ==
    [q EXCEPT !.buf = [i \in DOMAIN @ |->
                         IF at <= i /\ i < at + Len(data) THEN data[i - at + 1] ELSE @[i]]]

LOCAL ReadFrom(q, at, n) == [i \in 1..n |-> q.buf[at + i - 1]]

\* What is taken from the front: region B becomes region A when that is used up.
LOCAL Fronted(q) ==
    IF is_empty(q) THEN [q EXCEPT !.a_start = 0, !.a_end = q.b_end, !.b_end = 0] ELSE q

UsesB(q) == q.b_end > 0 \/ space_after_a(q) < space_after_b(q)

----------------------------------------------------------------------------
(* BipDeque.                                                               *)
push_back(q, data) ==
    LET n == Len(data) IN
    CASE UsesB(q) /\ n <= space_after_b(q) ->
           Result([Written(q, q.b_end, data) EXCEPT !.b_end = @ + n], TRUE)
      [] ~UsesB(q) /\ n <= space_after_a(q) ->
           Result([Written(q, q.a_end, data) EXCEPT !.a_end = @ + n], TRUE)
      [] n > (IF UsesB(q) THEN space_after_b(q) ELSE space_after_a(q)) -> Result(q, FALSE)

\* Region A at the start becomes region B, and the data a new region A at the end.
push_front(q, data) ==
    LET n == Len(data) IN
    CASE q.a_start = 0 /\ n <= space_after_a(q) ->
           Result([Written(q, q.size - n, data) EXCEPT
                     !.b_end = q.a_end, !.a_start = q.size - n, !.a_end = q.size], TRUE)
      [] q.a_start > 0 /\ n <= space_after_b(q) ->
           Result([Written(q, q.a_start - n, data) EXCEPT !.a_start = @ - n], TRUE)
      [] n > (IF q.a_start = 0 THEN space_after_a(q) ELSE space_after_b(q)) -> Result(q, FALSE)

\* Only the end of the buffer limits what is taken, not that of region A.
pop_front(q, n) ==
    IF n = 0 \/ is_empty(q) \/ q.a_start + n > q.size THEN [q |-> q, got |-> <<>>]
    ELSE [q |-> Fronted([q EXCEPT !.a_start = @ + n]), got |-> ReadFrom(q, q.a_start, n)]

peek_front(q, n) ==
    IF n = 0 \/ is_empty(q) \/ q.a_start + n > q.size THEN <<>> ELSE ReadFrom(q, q.a_start, n)

pop_back(q, n) ==
    CASE n > used_back_elems(q) -> [q |-> q, ok |-> FALSE, got |-> <<>>]
      [] n <= used_back_elems(q) /\ q.b_end > 0 ->
           [q |-> [q EXCEPT !.b_end = @ - n], ok |-> TRUE, got |-> ReadFrom(q, q.b_end - n, n)]
      [] n <= used_back_elems(q) /\ q.b_end = 0 ->
           LET r == [q EXCEPT !.a_end = @ - n]
           IN  [q |-> IF is_empty(r) THEN [r EXCEPT !.a_start = 0, !.a_end = 0] ELSE r,
                ok |-> TRUE, got |-> ReadFrom(q, q.a_end - n, n)]

peek_back(q, n) ==
    IF n > used_back_elems(q) THEN <<>>
    ELSE ReadFrom(q, (IF q.b_end > 0 THEN q.b_end ELSE q.a_end) - n, n)

\* Popped until there is room: the loops, over at most as many turns as there are cells.
LOCAL Purged(q, n, Pop(_, _)) ==
    FoldLeft(LAMBDA s, i : IF is_empty(s) \/ free_elems(s) >= n THEN s ELSE Pop(s, n - free_elems(s)),
             q, [i \in 0 .. q.size |-> i])

purge_front(q, n) == Purged(q, n, LAMBDA s, k : pop_front(s, k).q)
purge_back(q, n) == Purged(q, n, LAMBDA s, k : pop_back(s, k).q)

----------------------------------------------------------------------------
(* BipFifo: space is reserved, filled in place and committed.              *)
reserved_elems(q) == q.r_end - q.r_start

\* The regions are moved as if the data had been pushed.
reserve(q, n) ==
    CASE reserved_elems(q) > 0 -> Result(q, FALSE)
      [] reserved_elems(q) = 0 /\ UsesB(q) /\ n <= space_after_b(q) ->
           Result([q EXCEPT !.r_start = q.b_end, !.r_end = q.b_end + n, !.b_end = @ + n], TRUE)
      [] reserved_elems(q) = 0 /\ ~UsesB(q) /\ n <= space_after_a(q) ->
           Result([q EXCEPT !.r_start = q.a_end, !.r_end = q.a_end + n, !.a_end = @ + n], TRUE)
      [] reserved_elems(q) = 0 /\ n > (IF UsesB(q) THEN space_after_b(q) ELSE space_after_a(q)) ->
           Result(q, FALSE)

\* The region keeps the whole reservation, whatever is committed of it.
CommitWhole(q, n) == [q EXCEPT !.r_start = 0, !.r_end = 0]

commit(q, n) ==
    LET kept == IF n > reserved_elems(q) THEN reserved_elems(q) ELSE n
        done == [q EXCEPT !.r_start = 0, !.r_end = 0]
    IN  IF reserved_elems(q) = 0 THEN q
        ELSE IF q.r_end = q.b_end THEN [done EXCEPT !.b_end = q.r_start + kept]
        ELSE [done EXCEPT !.a_end = q.r_start + kept]

push(q, data) ==
    LET r == reserve(q, Len(data))
    IN  IF r.ok THEN Result(commit(Written(r.q, r.q.r_start, data), Len(data)), TRUE) ELSE r

\* A pop stays clear of a reservation, wherever that is.
LOCAL Reaches(q, n) == reserved_elems(q) > 0 /\ q.a_start + n >= q.r_start

pop(q, n) == IF Reaches(q, n) THEN [q |-> q, got |-> <<>>] ELSE pop_front(q, n)

peek(q, n) == IF Reaches(q, n) THEN <<>> ELSE peek_front(q, n)

\* Chunks are named by where they start; NoChunk is the null pointer.
NoChunk == -1

next_chunk(q, cur) ==
    CASE cur = NoChunk -> [chunk |-> q.a_start, len |-> q.a_end - q.a_start]
      [] cur # NoChunk /\ q.b_end > 0 /\ cur = q.a_start -> [chunk |-> 0, len |-> q.b_end]
      [] cur # NoChunk /\ ~(q.b_end > 0 /\ cur = q.a_start) -> [chunk |-> NoChunk, len |-> 0]

prev_chunk(q, cur) ==
    CASE cur = NoChunk -> IF q.b_end > 0 THEN [chunk |-> 0, len |-> q.b_end]
                          ELSE [chunk |-> q.a_start, len |-> q.a_end - q.a_start]
      [] cur # NoChunk /\ q.b_end > 0 /\ cur = 0 -> [chunk |-> q.a_start, len |-> q.a_end - q.a_start]
      [] cur # NoChunk /\ ~(q.b_end > 0 /\ cur = 0) -> [chunk |-> NoChunk, len |-> 0]

----------------------------------------------------------------------------
(* Properties.                                                             *)
\* The data of a buffer in order: region A, then region B.
Content(q) == ReadFrom(q, q.a_start, q.a_end - q.a_start) \o ReadFrom(q, 0, q.b_end)

Sound(q) ==
    /\ 0 <= q.b_end /\ q.a_start <= q.a_end /\ q.a_end <= q.size
    /\ q.b_end > 0 => q.b_end <= q.a_start
    /\ total_used_elems(q) + total_free_elems(q) = q.size /\ (is_full(q) <=> total_free_elems(q) = 0)

\* Any mix of pushes and pops at both ends keeps the data of a double-ended queue: a push
\* at the back fails only for want of free_elems, one at the front never takes more, and a
\* pop within its region gets what is at that end.  A purge for one element more than there
\* is room for makes it; one for several pops past region A, as its pops are not limited.
DequeAgrees(size, ops) ==
    LET step(s, op) ==
          LET n    == op[2]
              data == [i \in 1..n |-> s.next + i]
              back == push_back(s.q, data)
              fore == push_front(s.q, data)
              head == pop_front(s.q, n)
              tail == pop_back(s.q, n)
              to(q, ref, ok) == [q |-> q, ref |-> ref, next |-> s.next + n,
                                 ok |-> s.ok /\ ok /\ Sound(q) /\ Content(q) = ref]
          IN  CASE op[1] = "push_back" -> to(back.q, IF back.ok THEN s.ref \o data ELSE s.ref,
                                             back.ok <=> n <= free_elems(s.q))
                [] op[1] = "push_front" -> to(fore.q, IF fore.ok THEN data \o s.ref ELSE s.ref,
                                              fore.ok => n <= free_elems(s.q))
                [] op[1] = "pop_front" /\ n > num_block_elems(s.q) -> s
                [] op[1] = "pop_front" /\ n <= num_block_elems(s.q) ->
                     to(head.q, SubSeq(s.ref, n + 1, Len(s.ref)),
                        head.got = SubSeq(s.ref, 1, n) /\ peek_front(s.q, n) = head.got)
                [] op[1] = "pop_back" -> to(tail.q, IF tail.ok THEN SubSeq(s.ref, 1, Len(s.ref) - n) ELSE s.ref,
                                            /\ tail.got = peek_back(s.q, n)
                                            /\ tail.ok => tail.got = SubSeq(s.ref, Len(s.ref) - n + 1, Len(s.ref)))
        last == FoldLeft(step, [q |-> BipInit(size), ref |-> <<>>, next |-> 0, ok |-> TRUE], ops)
        more == free_elems(last.q) + 1
        room(p) == Sound(p) /\ free_elems(p) >= more
    IN  /\ more <= size => room(purge_front(last.q, more)) /\ room(purge_back(last.q, more))
        /\ last.ok /\ flush(last.q) = [BipInit(size) EXCEPT !.buf = last.q.buf]

\* Reservations committed in part, and pops between, keep the order of a queue; a reservation
\* that is open is never popped, and the chunks are the data in order.
ReservationsAgree(size, ops) ==
    LET committed(q) == IF reserved_elems(q) = 0 THEN Content(q)
                        ELSE SubSeq(Content(q), 1, total_used_elems(q) - reserved_elems(q))
        first(q) == next_chunk(q, NoChunk)
        chunks(q) == LET a == first(q) b == next_chunk(q, a.chunk)
                     IN  ReadFrom(q, a.chunk, a.len) \o IF b.len > 0 THEN ReadFrom(q, b.chunk, b.len) ELSE <<>>
        step(s, op) ==
          LET n == op[2]
              r == reserve(s.q, n)
              data == [i \in 1..n |-> s.next + i]
              filled == [i \in 1..reserved_elems(s.q) |-> s.next + i]
              kept == IF n > Len(filled) THEN Len(filled) ELSE n
              p == pop(s.q, n)
              w == push(s.q, data)
              to(q, ref, ok) == [q |-> q, ref |-> ref, next |-> s.next + size,
                                 ok |-> s.ok /\ ok /\ Sound(q) /\ committed(q) = ref
                                        /\ (reserved_elems(q) = 0 => chunks(q) = ref)]
          IN  CASE op[1] = "reserve" -> to(r.q, s.ref, r.ok => n <= free_elems(s.q))
                [] op[1] = "commit" -> to(commit(Written(s.q, s.q.r_start, filled), n),
                                          s.ref \o SubSeq(filled, 1, kept), TRUE)
                [] op[1] = "push" -> to(w.q, IF w.ok THEN s.ref \o data ELSE s.ref, TRUE)
                [] op[1] = "pop" /\ n > num_block_elems(s.q) -> s
                [] op[1] = "pop" /\ n <= num_block_elems(s.q) ->
                     to(p.q, SubSeq(s.ref, Len(p.got) + 1, Len(s.ref)),
                        p.got = SubSeq(s.ref, 1, Len(p.got)) /\ peek(s.q, n) = p.got)
    IN  FoldLeft(step, [q |-> BipInit(size), ref |-> <<>>, next |-> 0, ok |-> TRUE], ops).ok

=============================================================================
