------------------------------ MODULE IsrQueue ------------------------------
(***************************************************************************)
(* The lock-free ring of src/src/isr_queue.c: one producer and one         *)
(* consumer share head_ix, tail_ix and the slots, with no lock.  It sits   *)
(* between the serial interrupts and the tasks that use a console, so      *)
(* every atomic load, store and compare-exchange of either side is a step  *)
(* of its own, and each copy of a block to or from the slots is a step     *)
(* that the other side may precede or follow.                              *)
(*                                                                         *)
(* Loads of an index that only the loading side ever writes are merged     *)
(* with the next load of the same call.                                    *)
(***************************************************************************)
EXTENDS Integers, Sequences, FiniteSets

CONSTANTS N,        \* end_ix: slots of the ring, one of which stays unused
          Values,   \* the data elements
          Zero,     \* what isr_queue_init fills the slots with
          MaxLen,   \* bound: longest block in one push or pop
          Overwrite,\* q->overwrite
          Mode      \* who can preempt whom, see below

ASSUME NAssumption == N \in Nat /\ N > 1
ASSUME ValuesAssumption == Zero \notin Values
ASSUME MaxLenAssumption == MaxLen \in Nat \ {0}
ASSUME OverwriteAssumption == Overwrite \in BOOLEAN

(***************************************************************************)
(* "threads"      two tasks or cores: any interleaving of the two sides    *)
(* "isr_producer" the producer is an interrupt handler: once started, its  *)
(*                call runs to its end before the consumer's next step     *)
(* "isr_consumer" the consumer is an interrupt handler                     *)
(* "serial"       one task is both sides, as with a stdio console          *)
(***************************************************************************)
ASSUME ModeAssumption ==
  Mode \in {"threads", "isr_producer", "isr_consumer", "serial"}

VARIABLES head, tail,  \* head_ix and tail_ix
          buf,         \* the slots, q->queue
          ppc,         \* where the producer is in its call
          p_head, p_tail, p_copy, \* its locals: the loaded indices, copy_size
          p_todo,      \* elements it has not stored yet (its last "remaining")
          cpc,         \* where the consumer is in its call
          c_head, c_tail, c_chunk, \* its locals: loaded indices, chunk_size
          c_want,      \* elements_size, or discard_num: still to remove
          c_data       \* what it has copied out of, or looks at in, the slots

shared  == <<head, tail, buf>>
pvars   == <<ppc, p_head, p_tail, p_copy, p_todo>>
cvars   == <<cpc, c_head, c_tail, c_chunk, c_want, c_data>>
vars    == <<shared, pvars, cvars>>

Slots   == 0..(N - 1)
Blocks  == UNION {[1..n -> Values] : n \in 1..MaxLen}

-----------------------------------------------------------------------------
(* Index arithmetic. *)

\* Mutant: the wraparound test one too late.
IncLate(i) == IF i = N THEN 0 ELSE i + 1

\* INC_MODULO
Inc(i) == IF i + 1 = N THEN 0 ELSE i + 1

\* Mutant: the count includes the unused slot once the head has wrapped.
CountSentinel(t, h) == IF h >= t THEN h - t ELSE N - (t - h) + 1

\* isr_queue_count of loaded indices.
Count(t, h) == IF h >= t THEN h - t ELSE N - (t - h)

\* Mutant: a block is copied up to the end of the ring, wherever the tail is.
CopySizeToEnd(h, t, len) == IF len < N - h THEN len ELSE N - h

\* copy_size: contiguous slots a block push may fill in one go.
CopySize(h, t, len) ==
  LET room == IF h >= t THEN N - h ELSE t - 1 - h
  IN  IF len < room THEN len ELSE room

\* next, after copying k elements at h: head stays one behind a tail of 0.
NextHead(h, t, k) ==
  IF h + k >= N THEN (IF t # 0 THEN 0 ELSE N - 1) ELSE h + k

\* Mutant: copy_size-- is forgotten.
StoredAll(h, t, k) == k

\* copy_size after the same adjustment: elements of the block really stored.
Stored(h, t, k) == IF h + k >= N /\ t = 0 THEN k - 1 ELSE k

\* chunk_size: contiguous elements a block pop may take in one go.
ChunkSize(h, t, len) ==
  LET chunk == IF h >= t THEN h - t ELSE N - t
  IN  IF chunk > len THEN len ELSE chunk

\* next tail_ix after k elements at t.
NextTail(t, k) == IF t + k >= N THEN 0 ELSE t + k

\* The k slots from t on, none beyond the end of the ring, as memcpy reads them.
Elements(t, k) == [i \in 1..k |-> buf[t + i - 1]]

-----------------------------------------------------------------------------
Init == /\ head = 0 /\ tail = 0
        /\ buf = [s \in Slots |-> Zero]
        /\ ppc = "idle" /\ p_head = 0 /\ p_tail = 0 /\ p_copy = 0 /\ p_todo = <<>>
        /\ cpc = "idle" /\ c_head = 0 /\ c_tail = 0 /\ c_chunk = 0 /\ c_want = 0
        /\ c_data = <<>>

ProducerRuns == Mode \in {"isr_consumer", "serial"} => cpc = "idle"
ConsumerRuns == Mode \in {"isr_producer", "serial"} => ppc = "idle"

-----------------------------------------------------------------------------
(* The producer. *)

\* The locals of a call, or of one turn of its loop, are gone when it ends.
DropProducerLocals == p_head' = 0 /\ p_tail' = 0 /\ p_copy' = 0
PushReturn == ppc' = "idle" /\ p_todo' = <<>> /\ DropProducerLocals

PushOne(v) == /\ ppc = "idle"
              /\ ppc' = "one_load"
              /\ p_todo' = <<v>>
              /\ UNCHANGED <<shared, p_head, p_tail, p_copy, cvars>>

Push(block) == /\ ppc = "idle"
               /\ ppc' = "blk_load"
               /\ p_todo' = block
               /\ UNCHANGED <<shared, p_head, p_tail, p_copy, cvars>>

\* Mutant: the head is published before the element is copied.
OneLoadPublishes ==
  /\ ppc = "one_load"
  /\ IF Inc(head) # tail \/ Overwrite
     THEN /\ ppc' = "one_copy"
          /\ p_head' = head /\ p_tail' = tail /\ p_copy' = 1
          /\ head' = Inc(head)
          /\ UNCHANGED p_todo
     ELSE PushReturn /\ UNCHANGED head
  /\ UNCHANGED <<tail, buf, cvars>>

\* Both indices are loaded, and a queue that is full refuses the element
\* (or, overwriting, goes on all the same).
OneLoad ==
  /\ ppc = "one_load"
  /\ IF Inc(head) # tail \/ Overwrite
     THEN /\ ppc' = "one_copy"
          /\ p_head' = head /\ p_tail' = tail /\ p_copy' = 1
          /\ UNCHANGED p_todo
     ELSE PushReturn
  /\ UNCHANGED <<shared, cvars>>

OneCopy ==
  /\ ppc = "one_copy"
  /\ buf' = [buf EXCEPT ![p_head] = Head(p_todo)]
  /\ ppc' = "one_store"
  /\ UNCHANGED <<head, tail, p_head, p_tail, p_copy, p_todo, cvars>>

\* push_one returns 1: the call ends, or an overwriting push goes on.
AfterOne(todo) == IF todo = <<>> THEN "idle" ELSE "one_load"

OneStore ==
  /\ ppc = "one_store"
  /\ head' = Inc(p_head)
  /\ p_todo' = Tail(p_todo)
  /\ IF Inc(p_head) = p_tail
     THEN ppc' = "one_cas" /\ UNCHANGED <<p_head, p_tail, p_copy>>
     ELSE ppc' = AfterOne(Tail(p_todo)) /\ DropProducerLocals
  /\ UNCHANGED <<tail, buf, cvars>>

\* Mutant: the tail moves past the head, which drops one element too many.
OneCasPastHead ==
  /\ ppc = "one_cas"
  /\ tail' = Inc(Inc(head))
  /\ ppc' = AfterOne(p_todo)
  /\ DropProducerLocals
  /\ UNCHANGED <<head, buf, p_todo, cvars>>

\* The tail moves past the overwritten element unless the reader moved it.
OneCas ==
  /\ ppc = "one_cas"
  /\ tail' = IF tail = p_tail THEN Inc(p_tail) ELSE tail
  /\ ppc' = AfterOne(p_todo)
  /\ DropProducerLocals
  /\ UNCHANGED <<head, buf, p_todo, cvars>>

\* The head of isr_queue_push's loop: the call ends, or one copy starts.
BlkLoad ==
  /\ ppc = "blk_load"
  /\ LET size == CopySize(head, tail, Len(p_todo))
     IN  IF size > 0
         THEN /\ ppc' = "blk_copy"
              /\ p_head' = head /\ p_tail' = tail /\ p_copy' = size
              /\ UNCHANGED p_todo
         ELSE IF Overwrite /\ p_todo # <<>>
              THEN ppc' = "one_load" /\ UNCHANGED <<p_head, p_tail, p_copy, p_todo>>
              ELSE PushReturn
  /\ UNCHANGED <<shared, cvars>>

BlkCopy ==
  /\ ppc = "blk_copy"
  /\ buf' = [s \in Slots |-> IF s >= p_head /\ s < p_head + p_copy
                             THEN p_todo[s - p_head + 1] ELSE buf[s]]
  /\ ppc' = "blk_store"
  /\ UNCHANGED <<head, tail, p_head, p_tail, p_copy, p_todo, cvars>>

\* Mutant: "remaining" and "elements" are not advanced.
BlkStoreAgain ==
  /\ ppc = "blk_store"
  /\ head' = NextHead(p_head, p_tail, p_copy)
  /\ ppc' = "blk_load"
  /\ DropProducerLocals
  /\ UNCHANGED <<tail, buf, p_todo, cvars>>

BlkStore ==
  /\ ppc = "blk_store"
  /\ head' = NextHead(p_head, p_tail, p_copy)
  /\ p_todo' = SubSeq(p_todo, Stored(p_head, p_tail, p_copy) + 1, Len(p_todo))
  /\ ppc' = "blk_load"
  /\ DropProducerLocals
  /\ UNCHANGED <<tail, buf, cvars>>

ProducerStep == \/ OneLoad \/ OneCopy \/ OneStore \/ OneCas
                \/ BlkLoad \/ BlkCopy \/ BlkStore

-----------------------------------------------------------------------------
(* The consumer. *)

ConsumerReturn == /\ cpc' = "idle" /\ c_data' = <<>> /\ c_want' = 0
                  /\ c_head' = 0 /\ c_tail' = 0 /\ c_chunk' = 0

\* isr_queue_pop_one and isr_queue_peek_one load the tail, then the head.
PopOne(pc) == /\ cpc = "idle"
              /\ cpc' = pc
              /\ c_tail' = tail
              /\ UNCHANGED <<shared, pvars, c_head, c_chunk, c_want, c_data>>

OneHead ==
  /\ cpc \in {"pop1_head", "peek1_head"}
  /\ IF c_tail # head
     THEN /\ cpc' = IF cpc = "pop1_head" THEN "pop1_read" ELSE "peek1_read"
          /\ c_head' = head /\ c_chunk' = 1
          /\ UNCHANGED <<c_tail, c_want, c_data>>
     ELSE ConsumerReturn
  /\ UNCHANGED <<shared, pvars>>

PopOneRead ==
  /\ cpc = "pop1_read"
  /\ c_data' = <<buf[c_tail]>>
  /\ cpc' = "pop1_store"
  /\ UNCHANGED <<shared, pvars, c_head, c_tail, c_chunk, c_want>>

PeekOneRead ==
  /\ cpc = "peek1_read"
  /\ ConsumerReturn
  /\ UNCHANGED <<shared, pvars>>

OneTailStore ==
  /\ cpc = "pop1_store"
  /\ tail' = Inc(c_tail)
  /\ ConsumerReturn
  /\ UNCHANGED <<head, buf, pvars>>

\* isr_queue_pop(n): n elements, or the fewer that isr_queue_count finds.
Pop(n) == /\ cpc = "idle"
          /\ cpc' = "pop_count"
          /\ c_want' = n /\ c_head' = head
          /\ UNCHANGED <<shared, pvars, c_tail, c_chunk, c_data>>

\* isr_queue_count's second load, and the request cut down to the result.
CountTail ==
  /\ cpc \in {"pop_count", "drop_count"}
  /\ LET available == Count(tail, c_head)
     IN  c_want' = IF c_want > available THEN available ELSE c_want
  /\ cpc' = IF cpc = "pop_count" THEN "pop_head" ELSE "drop_head"
  /\ c_head' = 0
  /\ UNCHANGED <<shared, pvars, c_tail, c_chunk, c_data>>

\* The loops of isr_queue_pop and isr_queue_discard.
LoopHead ==
  /\ cpc \in {"pop_head", "drop_head"}
  /\ IF c_want > 0
     THEN /\ c_head' = head
          /\ cpc' = IF cpc = "pop_head" THEN "pop_tail" ELSE "drop_tail"
          /\ UNCHANGED <<c_tail, c_chunk, c_want, c_data>>
     ELSE ConsumerReturn
  /\ UNCHANGED <<shared, pvars>>

LoopTail ==
  /\ cpc \in {"pop_tail", "drop_tail"}
  /\ IF c_head # tail
     THEN /\ c_tail' = tail
          /\ c_chunk' = ChunkSize(c_head, tail, c_want)
          /\ cpc' = IF cpc = "pop_tail" THEN "pop_read" ELSE "drop_store"
          /\ UNCHANGED <<c_head, c_want, c_data>>
     ELSE ConsumerReturn
  /\ UNCHANGED <<shared, pvars>>

PopRead ==
  /\ cpc = "pop_read"
  /\ c_data' = Elements(c_tail, c_chunk)
  /\ cpc' = "pop_store"
  /\ UNCHANGED <<shared, pvars, c_head, c_tail, c_chunk, c_want>>

\* Mutant: elements_size is not reduced by what was taken.
ChunkStoreAgain ==
  /\ cpc \in {"pop_store", "drop_store"}
  /\ tail' = NextTail(c_tail, c_chunk)
  /\ c_data' = SubSeq(c_data, c_chunk + 1, Len(c_data))
  /\ c_head' = 0 /\ c_tail' = 0 /\ c_chunk' = 0
  /\ cpc' = IF cpc = "pop_store" THEN "pop_head" ELSE "drop_head"
  /\ UNCHANGED <<head, buf, pvars, c_want>>

ChunkStore ==
  /\ cpc \in {"pop_store", "drop_store"}
  /\ tail' = NextTail(c_tail, c_chunk)
  /\ c_data' = SubSeq(c_data, c_chunk + 1, Len(c_data))
  /\ c_want' = c_want - c_chunk
  /\ c_head' = 0 /\ c_tail' = 0 /\ c_chunk' = 0
  /\ cpc' = IF cpc = "pop_store" THEN "pop_head" ELSE "drop_head"
  /\ UNCHANGED <<head, buf, pvars>>

\* isr_queue_peek returns a pointer to the elements that precede a wraparound.
Peek == /\ cpc = "idle"
        /\ cpc' = "peek_tail"
        /\ c_head' = head
        /\ UNCHANGED <<shared, pvars, c_tail, c_chunk, c_want, c_data>>

PeekTail ==
  /\ cpc = "peek_tail"
  /\ IF c_head # tail
     THEN /\ cpc' = "peek_use"
          /\ c_tail' = tail
          /\ c_chunk' = IF tail < c_head THEN c_head - tail ELSE N - tail
          /\ UNCHANGED <<c_head, c_want, c_data>>
     ELSE ConsumerReturn
  /\ UNCHANGED <<shared, pvars>>

\* The caller writes the elements out in place, as stdio_send does ...
PeekUse ==
  /\ cpc = "peek_use"
  /\ c_data' = Elements(c_tail, c_chunk)
  /\ cpc' = "peeked"
  /\ c_want' = c_chunk /\ c_head' = 0 /\ c_tail' = 0 /\ c_chunk' = 0
  /\ UNCHANGED <<shared, pvars>>

\* ... and then discards as many: isr_queue_discard, up to its first load.
Discard ==
  /\ cpc = "peeked"
  /\ cpc' = "drop_count"
  /\ c_head' = head
  /\ UNCHANGED <<shared, pvars, c_tail, c_chunk, c_want, c_data>>

\* isr_queue_flush, by the one task that is both sides.
FlushTail ==
  /\ Mode = "serial" /\ cpc = "idle"
  /\ tail' = 0
  /\ cpc' = "flush_head"
  /\ UNCHANGED <<head, buf, pvars, c_head, c_tail, c_chunk, c_want, c_data>>

FlushHead ==
  /\ cpc = "flush_head"
  /\ head' = 0
  /\ cpc' = "idle"
  /\ UNCHANGED <<tail, buf, pvars, c_head, c_tail, c_chunk, c_want, c_data>>

ConsumerStep == \/ OneHead \/ PopOneRead \/ PeekOneRead \/ OneTailStore
                \/ CountTail \/ LoopHead \/ LoopTail \/ PopRead \/ ChunkStore
                \/ PeekTail \/ PeekUse \/ Discard \/ FlushHead

-----------------------------------------------------------------------------
Producer == /\ ProducerRuns
            /\ \/ \E v \in Values : PushOne(v)
               \/ \E block \in Blocks : Push(block)
               \/ ProducerStep

Consumer == /\ ConsumerRuns
            /\ \/ \E pc \in {"pop1_head", "peek1_head"} : PopOne(pc)
               \/ \E n \in 1..MaxLen : Pop(n)
               \/ Peek
               \/ FlushTail
               \/ ConsumerStep

Next == Producer \/ Consumer

Spec == Init /\ [][Next]_vars

\* A call that was started goes on, once whoever preempts it has returned.
FairSpec == /\ Spec
            /\ WF_vars(ProducerRuns /\ ProducerStep)
            /\ WF_vars(ConsumerRuns /\ ConsumerStep)

\* Moreover the consumer keeps looking: the transmit interrupt of a UART, or a
\* task that polls its console, takes whatever it finds.
DrainingSpec == /\ FairSpec
                /\ SF_vars(ConsumerRuns /\ PopOne("pop1_head"))

-----------------------------------------------------------------------------
(* Properties. *)

\* Every variable keeps to the values the code gives it; no index leaves the ring.
TypeOK ==
  /\ head \in Slots /\ tail \in Slots
  /\ buf \in [Slots -> Values \union {Zero}]
  /\ ppc \in {"idle", "one_load", "one_copy", "one_store", "one_cas",
              "blk_load", "blk_copy", "blk_store"}
  /\ p_head \in Slots /\ p_tail \in Slots /\ p_copy \in 0..N
  /\ p_todo \in Seq(Values)
  /\ cpc \in {"idle", "pop1_head", "pop1_read", "pop1_store", "peek1_head",
              "peek1_read", "pop_count", "pop_head", "pop_tail", "pop_read",
              "pop_store", "peek_tail", "peek_use", "peeked", "drop_count",
              "drop_head", "drop_tail", "drop_store", "flush_head"}
  /\ c_head \in Slots /\ c_tail \in Slots /\ c_chunk \in 0..N
  /\ c_want \in Nat
  /\ c_data \in Seq(Values \union {Zero})

\* The slots the producer is copying into, and those the consumer reads.
Writing == IF ppc \in {"one_copy", "blk_copy"} THEN p_head..(p_head + p_copy - 1) ELSE {}
Reading == IF cpc \in {"pop1_read", "peek1_read", "pop_read", "peek_use"}
           THEN c_tail..(c_tail + c_chunk - 1) ELSE {}

\* The producer never copies into a slot while the consumer may be reading it,
\* and both stay inside the ring: push and pop need no lock, and their copies
\* can be taken as single steps.
NoSlotRace == /\ Writing \intersect Reading = {}
              /\ Writing \union Reading \subseteq Slots

\* What the queue holds: from the tail up to the head, where a flush that is
\* under way, or an overwrite that has yet to move the tail, counts as done.
Contents ==
  IF cpc = "flush_head" THEN <<>>
  ELSE LET t == IF ppc = "one_cas" /\ tail = p_tail THEN Inc(tail) ELSE tail
       IN  [i \in 1..((head - t) % N) |-> buf[(t + i - 1) % N]]

\* A pop that found elements to take always gets as many as it found: with one
\* consumer the queue is never "empty prematurely" in isr_queue_pop's loop, and
\* isr_queue_discard removes all that was peeked.
CountIsKept ==
  cpc \in {"pop_head", "pop_tail", "drop_head", "drop_tail"} => c_want <= Len(Contents)

\* What isr_queue_peek handed out, or a pop has copied, is still the oldest part
\* of the queue when the tail is about to move past it.
ReadIsOldest ==
  cpc \in {"pop1_store", "pop_store", "peeked", "drop_count", "drop_store"}
    => /\ Len(c_data) <= Len(Contents)
       /\ c_data = SubSeq(Contents, 1, Len(c_data))

\* The ring is a FIFO of N - 1 elements: a push stores a prefix of its block in
\* order and refuses the rest only when the queue is full, a pop delivers the
\* oldest elements, and nothing is lost, repeated or reordered between them.
Held == IF cpc \in {"pop1_store", "pop_store", "drop_store"}
        THEN SubSeq(c_data, 1, c_chunk) ELSE <<>>
Abs == INSTANCE Fifo WITH Capacity <- N - 1, Lossy <- Overwrite,
                          Flushable <- Mode = "serial", queue <- Contents,
                          pending <- p_todo, held <- Held
ImplementsFifo == Abs!Spec

\* A pop takes at most one element away, whatever was pushed since it loaded the tail: of an
\* overwriting queue ("Overwrite old data when full") the oldest elements give way to a push,
\* and a pop that comes late must not throw away the newer ones that replaced them.
PopTakesOneAtMost ==
  [][OneTailStore => Len(Contents') >= Len(Contents) - 1]_vars

\* Each push comes back: what does not fit is dropped instead of waited for.
PushReturns == ppc # "idle" ~> ppc = "idle"

\* Each pop, peek and discard comes back, whatever the producer does meanwhile.
PopReturns == cpc # "idle" ~> cpc = "idle"
=============================================================================
