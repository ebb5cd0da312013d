-------------------------------- MODULE Fifo --------------------------------
(***************************************************************************)
(* What a bounded byte queue promises its two users: the abstract          *)
(* specification that the lock-free ring of isr_queue.c implements.        *)
(*                                                                         *)
(* The producer offers a block, and prefixes of what it still has to send  *)
(* move to the end of the queue until everything is accepted or the queue  *)
(* refuses the rest; the consumer takes elements from the front.  Nothing  *)
(* else may happen to the contents: no element is lost, duplicated,        *)
(* reordered, or refused while there is room.                              *)
(***************************************************************************)
EXTENDS Naturals, Sequences

CONSTANTS Values,    \* the data elements
          Capacity,  \* elements the queue can hold
          Lossy,     \* TRUE: a full queue drops its oldest element for a new one
          Flushable  \* TRUE: the queue may be emptied at once

VARIABLES queue,     \* the elements held, oldest first
          pending,   \* what the producer's current call has yet to send
          held       \* what the consumer has read and is about to remove

vars == <<queue, pending, held>>

Init == queue = <<>> /\ pending = <<>> /\ held = <<>>

\* A producer calls with a block.
Offer == /\ pending = <<>>
         /\ pending' \in Seq(Values) \ {<<>>}
         /\ UNCHANGED <<queue, held>>

\* A non-empty prefix of the block is accepted.
Accept == \E n \in 1..Len(pending) :
            /\ Len(queue) + n <= Capacity
            /\ queue' = queue \o SubSeq(pending, 1, n)
            /\ pending' = SubSeq(pending, n + 1, Len(pending))
            /\ UNCHANGED held

\* The rest of a block is refused, which only a full queue may do.
Refuse == /\ ~Lossy
          /\ pending # <<>>
          /\ Len(queue) = Capacity
          /\ pending' = <<>>
          /\ UNCHANGED <<queue, held>>

\* A full lossy queue takes one element in exchange for its oldest.
Replace == /\ Lossy
           /\ pending # <<>>
           /\ Len(queue) = Capacity
           /\ queue' = Append(Tail(queue), Head(pending))
           /\ pending' = Tail(pending)
           /\ UNCHANGED held

\* The consumer reads the oldest elements, which stay ...
Read == /\ held = <<>>
        /\ \E n \in 1..Len(queue) : held' = SubSeq(queue, 1, n)
        /\ UNCHANGED <<queue, pending>>

\* ... until it removes what it read, and nothing else.
Remove == /\ held # <<>>
          /\ held \o queue' = queue
          /\ held' = <<>>
          /\ UNCHANGED pending

\* Everything is thrown away.
Flush == /\ Flushable
         /\ queue' = <<>>
         /\ UNCHANGED <<pending, held>>

Next == Offer \/ Accept \/ Refuse \/ Replace \/ Read \/ Remove \/ Flush

Spec == Init /\ [][Next]_vars
=============================================================================
