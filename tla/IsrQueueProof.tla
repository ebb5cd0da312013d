---------------------------- MODULE IsrQueueProof ----------------------------
(***************************************************************************)
(* For a ring of any size, blocks of any length and any interleaving of    *)
(* one producer and one consumer, a queue that does not overwrite keeps    *)
(* its indices in the ring, never lets the two sides touch a slot at the   *)
(* same time, and implements the queue of module Fifo; and so does one     *)
(* that overwrites, as long as one task is both sides.                     *)
(*                                                                         *)
(* None of this is inductive.  What makes it so is what each side knows of *)
(* the other from an index it loaded earlier: the other side can only have *)
(* made room for it since (ProducerInv, ConsumerInv); and, for what is in  *)
(* the queue, that the slots one side has copied to or from are those the  *)
(* other does not write (DataInv, FifoInv).                                *)
(***************************************************************************)
EXTENDS IsrQueue, SequenceTheorems, TLAPS

\* With two sides, an overwriting push and a pop both move the tail: the theorems are about
\* the other queues.
OneMovesTail == Overwrite => Mode = "serial"

\* A producer between its load of the tail and its store of the head: the head
\* is where it was, and the consumer has at most removed elements since.
Loaded == ppc \in {"one_copy", "one_store", "blk_copy", "blk_store"}
ProducerInv ==
  /\ ppc = "one_cas" => Overwrite /\ head = tail /\ p_tail = tail
  /\ ppc \in {"one_load", "one_copy", "one_store"} => p_todo # <<>>
  /\ Loaded => p_head = head /\ Count(tail, head) <= Count(p_tail, head) /\ (Overwrite => p_tail = tail)
  /\ ppc \in {"one_copy", "one_store"} => p_copy = 1 /\ (Inc(p_head) # p_tail \/ Overwrite)
  /\ ppc \in {"blk_copy", "blk_store"} =>
       p_copy = CopySize(p_head, p_tail, Len(p_todo)) /\ p_copy > 0

\* A consumer that has loaded the tail owns it, one that has loaded the head
\* finds at least as many elements later, one with both owns a chunk, and one
\* that has cut its request down to the count still finds as many.
HasTail == cpc \in {"pop1_head", "peek1_head", "pop1_read", "peek1_read", "pop1_store",
                    "pop_read", "pop_store", "drop_store", "peek_use"}
HasHead == cpc \in {"pop_count", "drop_count", "pop_tail", "drop_tail", "peek_tail"}
HasChunk == cpc \in {"pop1_read", "peek1_read", "pop1_store", "pop_read", "pop_store",
                     "drop_store", "peek_use"}
HasWant == cpc \in {"pop_head", "pop_tail", "pop_read", "pop_store",
                    "drop_head", "drop_tail", "drop_store"}
ConsumerInv ==
  /\ HasTail => c_tail = tail
  /\ HasHead => Count(tail, c_head) <= Count(tail, head)
  /\ HasChunk => 0 < c_chunk /\ c_chunk <= Count(tail, head) /\ c_tail + c_chunk <= N
  /\ cpc \in {"pop1_read", "pop1_store"} => c_chunk = 1
  /\ cpc \in {"pop_tail", "drop_tail"} => 0 < c_want
  /\ cpc \in {"pop_read", "pop_store", "drop_store"} => c_chunk <= c_want
  /\ HasWant => c_want <= Count(tail, head)

\* One task that is both sides never has two calls under way; only it flushes.
SerialInv == /\ Mode = "serial" => ppc = "idle" \/ cpc = "idle"
             /\ cpc = "flush_head" => Mode = "serial" /\ tail = 0

IInv == TypeOK /\ ProducerInv /\ ConsumerInv /\ SerialInv

-----------------------------------------------------------------------------
(* Index arithmetic. *)

\* INC_MODULO stays in the ring, and is a tail's move by one element.
LEMMA IncIsNextTail ==
  ASSUME NEW i \in Slots
  PROVE  Inc(i) \in Slots /\ Inc(i) = NextTail(i, 1)
BY NAssumption, SMT DEF Inc, NextTail, Slots

\* The count of two indices is below the size of the ring, and 0 means empty.
LEMMA CountRange ==
  ASSUME NEW t \in Slots, NEW h \in Slots
  PROVE  Count(t, h) \in 0..(N - 1) /\ (Count(t, h) = 0 <=> h = t)
BY NAssumption, SMT DEF Count, Slots

\* A block pop's chunk is not empty, is no more than asked for or available,
\* and does not cross the end of the ring.
LEMMA ChunkFits ==
  ASSUME NEW h \in Slots, NEW t \in Slots, h # t, NEW len \in Nat, len > 0
  PROVE  LET k == ChunkSize(h, t, len)
         IN  k \in 1..len /\ k <= Count(t, h) /\ t + k <= N
BY NAssumption, SMT DEF ChunkSize, Count, Slots

\* Moving the tail by k available elements leaves the others.
LEMMA TailMoves ==
  ASSUME NEW h \in Slots, NEW t \in Slots, NEW k \in 1..Count(t, h), t + k <= N
  PROVE  NextTail(t, k) \in Slots /\ Count(NextTail(t, k), h) = Count(t, h) - k
BY NAssumption, SMT DEF NextTail, Count, Slots

\* A push of one element at h, having seen room before the tail t, adds to what
\* the consumer sees at its tail u, and stays clear of every slot it may read.
LEMMA OneFits ==
  ASSUME NEW h \in Slots, NEW t \in Slots, NEW u \in Slots,
         Inc(h) # t, Count(u, h) <= Count(t, h)
  PROVE  /\ Count(u, Inc(h)) = Count(u, h) + 1
         /\ \A c \in 0..Count(u, h) : u + c <= N =>
              (h..h) \intersect (u..(u + c - 1)) = {}
BY NAssumption, SMT DEF Inc, Count, Slots

\* The same for a block of copy_size elements.
LEMMA BlockFits ==
  ASSUME NEW h \in Slots, NEW t \in Slots, NEW u \in Slots, NEW len \in Nat,
         NEW k, k = CopySize(h, t, len), k > 0, Count(u, h) <= Count(t, h)
  PROVE  /\ k \in 1..len /\ k <= N /\ h + k <= N
         /\ Stored(h, t, k) \in 0..len
         /\ NextHead(h, t, k) \in Slots
         /\ Count(u, NextHead(h, t, k)) = Count(u, h) + Stored(h, t, k)
         /\ \A c \in 0..Count(u, h) : u + c <= N =>
              (h..(h + k - 1)) \intersect (u..(u + c - 1)) = {}
<1>1. k \in 1..len /\ k <= N /\ h + k <= N /\ Stored(h, t, k) \in 0..len
  BY NAssumption, SMT DEF CopySize, Stored, Count, Slots
<1>2. NextHead(h, t, k) \in Slots
  BY <1>1, NAssumption, SMT DEF NextHead, CopySize, Slots
<1>3. Count(u, NextHead(h, t, k)) = Count(u, h) + Stored(h, t, k)
  BY <1>1, NAssumption, SMT DEF NextHead, Stored, CopySize, Count, Slots
<1>4. ASSUME NEW c \in 0..Count(u, h), u + c <= N, NEW s \in h..(h + k - 1),
             s \in u..(u + c - 1)
      PROVE  FALSE
  BY <1>1, <1>4, NAssumption, SMT DEF CopySize, Count, Slots
<1> QED BY <1>1, <1>2, <1>3, <1>4

\* What isr_queue_count computes is the distance of the indices round the ring.
LEMMA CountIsDistance ==
  ASSUME NEW t \in Slots, NEW h \in Slots
  PROVE  (h - t) % N = Count(t, h)
BY NAssumption, SMTT(30) DEF Count, Slots

\* A slot number is its own residue.
LEMMA SlotIsItself == ASSUME NEW s \in Slots PROVE s % N = s
BY NAssumption, SMTT(30) DEF Slots

-----------------------------------------------------------------------------
(* The invariant is inductive. *)

\* The ring that isr_queue_init sets up satisfies the invariant.
LEMMA InitInv == Init => IInv
<1> SUFFICES ASSUME Init PROVE IInv
  OBVIOUS
<1>1. TypeOK
  <2>1. 0 \in Slots
    BY NAssumption DEF Slots
  <2>2. <<>> \in Seq(Values) /\ <<>> \in Seq(Values \union {Zero})
    OBVIOUS
  <2> QED BY <2>1, <2>2, NAssumption DEF Init, TypeOK
<1>2. ProducerInv /\ ConsumerInv /\ SerialInv
  BY DEF Init, ProducerInv, Loaded, ConsumerInv, HasTail, HasHead, HasChunk, HasWant, SerialInv
<1> QED BY <1>1, <1>2 DEF IInv

\* Every step of a push keeps the invariant.
LEMMA ProducerKeepsInv ==
  ASSUME OneMovesTail, IInv, Producer
  PROVE  IInv'
<1> USE DEF IInv
<1>t. TypeOK /\ ProducerInv /\ ConsumerInv /\ SerialInv /\ ProducerRuns
  BY DEF Producer
<1>z. 0 \in Slots /\ 0 \in 0..N /\ 1 \in 0..N /\ <<>> \in Seq(Values)
  BY NAssumption DEF Slots
<1>s. SerialInv'
  <2>1. UNCHANGED cpc /\ cpc # "flush_head"
    BY <1>t DEF Producer, PushOne, Push, ProducerStep, OneLoad, OneCopy, OneStore, OneCas,
       BlkLoad, BlkCopy, BlkStore, cvars, shared, SerialInv, ProducerRuns
  <2> QED BY <1>t, <2>1 DEF SerialInv, ProducerRuns
\* While an overwriting queue is pushed to, nobody pops.
<1>o. Overwrite => cpc = "idle" /\ cpc' = "idle"
  <2>1. UNCHANGED cpc
    BY DEF Producer, PushOne, Push, ProducerStep, OneLoad, OneCopy, OneStore, OneCas,
       BlkLoad, BlkCopy, BlkStore, cvars
  <2> QED BY <1>t, <2>1 DEF OneMovesTail, ProducerRuns
<1>c. cpc' = "idle" => ConsumerInv'
  BY DEF ConsumerInv, HasTail, HasHead, HasChunk, HasWant
<1>1. CASE \E v \in Values : PushOne(v)
  <2> PICK v \in Values : PushOne(v)
    BY <1>1
  <2>1. p_todo' \in Seq(Values) /\ p_todo' # <<>>
    BY DEF PushOne
  <2> QED BY <1>t, <1>s, <2>1 DEF PushOne, TypeOK, ProducerInv, Loaded, ConsumerInv, HasTail,
          HasHead, HasChunk, HasWant, shared, cvars
<1>2. CASE \E block \in Blocks : Push(block)
  <2> PICK block \in Blocks : Push(block)
    BY <1>2
  <2>1. p_todo' \in Seq(Values)
    BY DEF Push, Blocks
  <2> QED BY <1>t, <1>s, <2>1 DEF Push, TypeOK, ProducerInv, Loaded, ConsumerInv, HasTail,
          HasHead, HasChunk, HasWant, shared, cvars
<1>3. CASE OneLoad
  <2>1. TypeOK'
    BY <1>3, <1>t, <1>z DEF OneLoad, PushReturn, DropProducerLocals, TypeOK, shared, cvars
  <2>2. Count(tail, head) \in Nat
    BY <1>t, CountRange DEF TypeOK
  <2>3. ProducerInv'
    BY <1>3, <1>t, <2>2 DEF OneLoad, PushReturn, DropProducerLocals, ProducerInv, Loaded, shared
  <2>4. ConsumerInv'
    BY <1>3, <1>t DEF OneLoad, ConsumerInv, HasTail, HasHead, HasChunk, HasWant, shared, cvars
  <2> QED BY <1>s, <2>1, <2>3, <2>4
<1>4. CASE OneCopy
  <2>1. Head(p_todo) \in Values
    BY <1>4, <1>t, HeadTailProperties DEF OneCopy, ProducerInv, TypeOK
  <2>2. TypeOK'
    BY <1>4, <1>t, <2>1 DEF OneCopy, TypeOK, cvars
  <2>3. ProducerInv' /\ ConsumerInv'
    BY <1>4, <1>t DEF OneCopy, ProducerInv, Loaded, ConsumerInv, HasTail, HasHead, HasChunk, HasWant, cvars
  <2> QED BY <1>s, <2>2, <2>3
<1>5. CASE OneStore
  <2>1. /\ p_head = head /\ p_copy = 1 /\ (Inc(head) # p_tail \/ Overwrite) /\ p_todo # <<>>
        /\ Count(tail, head) <= Count(p_tail, head) /\ (Overwrite => p_tail = tail)
    BY <1>5, <1>t DEF OneStore, ProducerInv, Loaded
  <2>2. Inc(head) \in Slots /\ Tail(p_todo) \in Seq(Values)
    BY <1>t, <2>1, IncIsNextTail, HeadTailProperties DEF TypeOK
  <2>3. TypeOK'
    BY <1>5, <1>t, <2>1, <2>2, NAssumption DEF OneStore, AfterOne, DropProducerLocals, TypeOK,
       Slots, cvars
  <2>4. ProducerInv'
    BY <1>5, <1>t, <2>1 DEF OneStore, AfterOne, DropProducerLocals, ProducerInv, Loaded
  <2>5. CASE Inc(head) # p_tail
    <3>1. Count(tail, head') = Count(tail, head) + 1
      BY <1>5, <1>t, <2>1, <2>5, OneFits DEF OneStore, TypeOK
    <3>2. Count(tail, head) \in Nat /\ Count(tail, c_head) \in Nat
      BY <1>t, CountRange DEF TypeOK
    <3>3. ConsumerInv'
      BY <1>5, <1>t, <3>1, <3>2 DEF OneStore, TypeOK, ConsumerInv, HasTail, HasHead, HasChunk, HasWant, cvars
    <3> QED BY <1>s, <2>3, <2>4, <3>3
  <2>6. CASE Overwrite
    BY <1>s, <1>o, <1>c, <2>3, <2>4, <2>6
  <2> QED BY <2>1, <2>5, <2>6
<1>6. CASE OneCas
  <2>1. Overwrite /\ p_tail = tail /\ Inc(p_tail) \in Slots
    BY <1>6, <1>t, IncIsNextTail DEF OneCas, ProducerInv, TypeOK
  <2>2. TypeOK'
    BY <1>6, <1>t, <1>z, <2>1 DEF OneCas, AfterOne, DropProducerLocals, TypeOK, cvars
  <2>3. ProducerInv'
    BY <1>6, <1>t DEF OneCas, AfterOne, DropProducerLocals, ProducerInv, Loaded
  <2> QED BY <1>s, <1>o, <1>c, <2>1, <2>2, <2>3
<1>7. CASE BlkLoad
  <2>1. CopySize(head, tail, Len(p_todo)) > 0 => CopySize(head, tail, Len(p_todo)) \in 0..N
    BY <1>t, NAssumption DEF TypeOK, CopySize, Slots
  <2>2. TypeOK'
    BY <1>7, <1>t, <1>z, <2>1 DEF BlkLoad, PushReturn, DropProducerLocals, TypeOK, shared, cvars
  <2>3. Count(tail, head) \in Nat
    BY <1>t, CountRange DEF TypeOK
  <2>4. ProducerInv'
    BY <1>7, <1>t, <2>3 DEF BlkLoad, PushReturn, DropProducerLocals, ProducerInv, Loaded, shared
  <2>5. ConsumerInv'
    BY <1>7, <1>t DEF BlkLoad, ConsumerInv, HasTail, HasHead, HasChunk, HasWant, shared, cvars
  <2> QED BY <1>s, <2>2, <2>4, <2>5
<1>8. CASE BlkCopy
  <2>1. p_copy = CopySize(p_head, p_tail, Len(p_todo)) /\ p_copy \in 1..Len(p_todo)
    BY <1>8, <1>t DEF BlkCopy, ProducerInv, TypeOK, CopySize, Slots
  <2>2. \A s \in Slots : s >= p_head /\ s < p_head + p_copy => p_todo[s - p_head + 1] \in Values
    BY <1>t, <2>1 DEF TypeOK, Slots
  <2>3. buf' \in [Slots -> Values \union {Zero}]
    BY <1>8, <1>t, <2>2 DEF BlkCopy, TypeOK
  <2>4. TypeOK'
    BY <1>8, <1>t, <2>3 DEF BlkCopy, TypeOK, cvars
  <2>5. ProducerInv' /\ ConsumerInv'
    BY <1>8, <1>t DEF BlkCopy, ProducerInv, Loaded, ConsumerInv, HasTail, HasHead, HasChunk, HasWant, cvars
  <2> QED BY <1>s, <2>4, <2>5
<1>9. CASE BlkStore
  <2> DEFINE k == Stored(p_head, p_tail, p_copy)
  <2>1. /\ p_head = head /\ Count(tail, head) <= Count(p_tail, head)
        /\ p_copy = CopySize(p_head, p_tail, Len(p_todo)) /\ p_copy > 0
    BY <1>9, <1>t DEF BlkStore, ProducerInv, Loaded
  <2>2. Len(p_todo) \in Nat
    BY <1>t DEF TypeOK
  <2>3. /\ k \in 0..Len(p_todo)
        /\ NextHead(p_head, p_tail, p_copy) \in Slots
        /\ Count(tail, NextHead(p_head, p_tail, p_copy)) = Count(tail, head) + k
    BY <1>t, <2>1, <2>2, BlockFits DEF TypeOK
  <2>4. SubSeq(p_todo, k + 1, Len(p_todo)) \in Seq(Values)
    <3>1. \A i \in (k + 1)..Len(p_todo) : p_todo[i] \in Values
      BY <1>t, <2>3 DEF TypeOK
    <3> HIDE DEF k
    <3> QED BY <2>2, <2>3, <3>1, SubSeqProperties
  <2>5. TypeOK'
    BY <1>9, <1>t, <2>3, <2>4, NAssumption DEF BlkStore, DropProducerLocals, TypeOK, Slots, cvars
  <2>6. ProducerInv'
    BY <1>9, <1>t DEF BlkStore, DropProducerLocals, ProducerInv, Loaded
  <2>7. Count(tail, head) \in Nat /\ Count(tail, c_head) \in Nat
    BY <1>t, CountRange DEF TypeOK
  <2>8. Count(tail, head') >= Count(tail, head)
    BY <1>9, <2>3, <2>7 DEF BlkStore
  <2>9. ConsumerInv'
    <3>1. UNCHANGED <<tail, cvars>> /\ head' \in Slots /\ Count(tail, head') \in Nat
      BY <1>9, <1>t, <2>5, CountRange DEF BlkStore, TypeOK
    <3> QED BY <1>t, <2>7, <2>8, <3>1 DEF TypeOK, ConsumerInv, HasTail, HasHead, HasChunk, HasWant, cvars
  <2> QED BY <1>s, <2>5, <2>6, <2>9
<1> QED BY <1>1, <1>2, <1>3, <1>4, <1>5, <1>6, <1>7, <1>8, <1>9 DEF Producer, ProducerStep

\* Every step of a pop, peek, discard or flush keeps the invariant.
LEMMA ConsumerKeepsInv ==
  ASSUME OneMovesTail, IInv, Consumer
  PROVE  IInv'
<1> USE DEF IInv
<1>t. TypeOK /\ ProducerInv /\ ConsumerInv /\ SerialInv /\ ConsumerRuns
  BY DEF Consumer
<1>z. 0 \in Slots /\ 0 \in 0..N /\ 1 \in 0..N /\ <<>> \in Seq(Values \union {Zero})
  BY NAssumption DEF Slots
<1>c. /\ Count(tail, head) \in 0..(N - 1) /\ Count(tail, c_head) \in 0..(N - 1)
      /\ Count(c_tail, head) \in 0..(N - 1) /\ Count(p_tail, head) \in 0..(N - 1)
  BY <1>t, CountRange DEF TypeOK
<1>s. Mode = "serial" => ppc' = "idle" \/ cpc' = "idle"
  BY <1>t DEF Consumer, PopOne, Pop, Peek, FlushTail, ConsumerStep, OneHead, PopOneRead,
     PeekOneRead, OneTailStore, CountTail, LoopHead, LoopTail, PopRead, ChunkStore, PeekTail,
     PeekUse, Discard, FlushHead, ConsumerRuns, pvars
\* Steps that leave the shared indices alone cannot disturb the producer.
<1>p. UNCHANGED <<head, tail, pvars>> => ProducerInv'
  BY <1>t DEF ProducerInv, Loaded, pvars
<1>o. Overwrite => ppc = "idle"
  BY <1>t DEF OneMovesTail, ConsumerRuns
<1>1. CASE \E pc \in {"pop1_head", "peek1_head"} : PopOne(pc)
  <2>1. TypeOK'
    BY <1>1, <1>t DEF PopOne, TypeOK, shared, pvars
  <2>2. ConsumerInv' /\ ProducerInv' /\ SerialInv'
    BY <1>1, <1>t, <1>p, <1>s DEF PopOne, ConsumerInv, HasTail, HasHead, HasChunk, HasWant, shared, SerialInv
  <2> QED BY <2>1, <2>2
<1>2. CASE \E n \in 1..MaxLen : Pop(n)
  <2>1. TypeOK'
    BY <1>2, <1>t, MaxLenAssumption DEF Pop, TypeOK, shared, pvars
  <2>2. ConsumerInv' /\ ProducerInv' /\ SerialInv'
    BY <1>2, <1>t, <1>c, <1>p, <1>s DEF Pop, ConsumerInv, HasTail, HasHead, HasChunk, HasWant, shared, SerialInv
  <2> QED BY <2>1, <2>2
<1>3. CASE Peek
  <2>1. TypeOK'
    BY <1>3, <1>t DEF Peek, TypeOK, shared, pvars
  <2>2. ConsumerInv' /\ ProducerInv' /\ SerialInv'
    BY <1>3, <1>t, <1>c, <1>p, <1>s DEF Peek, ConsumerInv, HasTail, HasHead, HasChunk, HasWant, shared, SerialInv
  <2> QED BY <2>1, <2>2
<1>4. CASE FlushTail
  <2>1. TypeOK'
    BY <1>4, <1>t, <1>z DEF FlushTail, TypeOK, pvars
  <2>2. ppc = "idle"
    BY <1>4, <1>t DEF FlushTail, ConsumerRuns
  <2>3. ConsumerInv' /\ ProducerInv' /\ SerialInv'
    BY <1>4, <1>t, <1>s, <2>2 DEF FlushTail, ProducerInv, Loaded, ConsumerInv, HasTail, HasHead,
       HasChunk, HasWant, SerialInv, pvars
  <2> QED BY <2>1, <2>3
<1>5. CASE OneHead
  <2>1. TypeOK'
    <3>1. CASE c_tail # head
      <4>1. cpc' \in {"pop1_read", "peek1_read"}
        BY <1>5, <3>1 DEF OneHead
      <4> QED BY <1>5, <1>t, <1>z, <3>1, <4>1 DEF OneHead, TypeOK, shared, pvars
    <3>2. CASE c_tail = head
      BY <1>5, <1>t, <1>z, <3>2 DEF OneHead, ConsumerReturn, TypeOK, shared, pvars
    <3> QED BY <3>1, <3>2
  <2>2. c_tail # head => 0 < Count(tail, head) /\ tail + 1 <= N
    <3>1. c_tail = tail
      BY <1>5, <1>t DEF OneHead, ConsumerInv, HasTail
    <3>2. tail + 1 <= N
      BY <1>t, NAssumption DEF TypeOK, Slots
    <3>3. head # tail => Count(tail, head) # 0
      BY <1>t, CountRange DEF TypeOK
    <3> QED BY <1>c, <3>1, <3>2, <3>3
  <2>3. ConsumerInv' /\ ProducerInv' /\ SerialInv'
    BY <1>5, <1>t, <1>c, <1>p, <1>s, <2>2 DEF OneHead, ConsumerReturn, ConsumerInv, HasTail, HasHead,
       HasChunk, HasWant, shared, SerialInv
  <2> QED BY <2>1, <2>3
<1>6. CASE PopOneRead
  <2>1. buf[c_tail] \in Values \union {Zero}
    BY <1>t DEF TypeOK
  <2>2. <<buf[c_tail]>> \in Seq(Values \union {Zero})
    BY <2>1
  <2>3. TypeOK'
    BY <1>6, <1>t, <2>2 DEF PopOneRead, TypeOK, shared, pvars
  <2>4. c_chunk = 1
    BY <1>6, <1>t DEF PopOneRead, ConsumerInv
  <2>5. ConsumerInv' /\ ProducerInv' /\ SerialInv'
    BY <1>6, <1>t, <1>p, <1>s, <2>4 DEF PopOneRead, ConsumerInv, HasTail, HasHead, HasChunk, HasWant, shared, SerialInv
  <2> QED BY <2>3, <2>5
<1>7. CASE PeekOneRead
  <2>1. TypeOK'
    BY <1>7, <1>t, <1>z DEF PeekOneRead, ConsumerReturn, TypeOK, shared, pvars
  <2>2. ConsumerInv' /\ ProducerInv' /\ SerialInv'
    BY <1>7, <1>t, <1>p, <1>s DEF PeekOneRead, ConsumerReturn, ConsumerInv, HasTail, HasHead,
       HasChunk, HasWant, shared, SerialInv
  <2> QED BY <2>1, <2>2
<1>8. CASE OneTailStore
  <2>1. c_tail = tail /\ 1 \in 1..Count(tail, head) /\ tail + 1 <= N
    BY <1>8, <1>t, <1>c DEF OneTailStore, ConsumerInv, HasTail, HasChunk, HasWant
  <2>2. tail' \in Slots /\ Count(tail', head) = Count(tail, head) - 1
    BY <1>8, <1>t, <2>1, IncIsNextTail, TailMoves DEF OneTailStore, TypeOK
  <2>3. TypeOK'
    BY <1>8, <1>t, <1>z, <2>2 DEF OneTailStore, ConsumerReturn, TypeOK, pvars
  <2>4. ProducerInv'
    BY <1>8, <1>t, <1>c, <1>o, <2>2 DEF OneTailStore, ProducerInv, Loaded, pvars
  <2>5. ConsumerInv' /\ SerialInv'
    BY <1>8, <1>t, <1>s DEF OneTailStore, ConsumerReturn, ConsumerInv, HasTail, HasHead, HasChunk, HasWant,
       SerialInv
  <2> QED BY <2>3, <2>4, <2>5
<1>9. CASE CountTail
  <2>1. TypeOK'
    BY <1>9, <1>t, <1>z, <1>c DEF CountTail, TypeOK, shared, pvars
  <2>2. c_want' <= Count(tail, head)
    BY <1>9, <1>t, <1>c DEF CountTail, ConsumerInv, HasHead, TypeOK
  <2>3. ConsumerInv' /\ ProducerInv' /\ SerialInv'
    BY <1>9, <1>t, <1>p, <1>s, <2>2 DEF CountTail, ConsumerInv, HasTail, HasHead, HasChunk, HasWant, shared, SerialInv
  <2> QED BY <2>1, <2>3
<1>10. CASE LoopHead
  <2>1. TypeOK'
    BY <1>10, <1>t, <1>z DEF LoopHead, ConsumerReturn, TypeOK, shared, pvars
  <2>2. ConsumerInv' /\ ProducerInv' /\ SerialInv'
    BY <1>10, <1>t, <1>c, <1>p, <1>s DEF LoopHead, ConsumerReturn, ConsumerInv, HasTail, HasHead,
       HasChunk, HasWant, shared, SerialInv
  <2> QED BY <2>1, <2>2
<1>11. CASE LoopTail
  <2> DEFINE k == ChunkSize(c_head, tail, c_want)
  <2>1. c_head # tail => k \in 1..c_want /\ k <= Count(tail, c_head) /\ tail + k <= N
    BY <1>11, <1>t, ChunkFits DEF LoopTail, ConsumerInv, TypeOK
  <2>2. Count(tail, c_head) <= Count(tail, head) /\ c_want \in Nat
    BY <1>11, <1>t DEF LoopTail, ConsumerInv, HasHead, TypeOK
  <2>3. c_head # tail => k \in 1..c_want /\ k <= Count(tail, head) /\ tail + k <= N /\ k \in 0..N
    BY <2>1, <2>2, <1>c, NAssumption
  <2> HIDE DEF k
  <2>4. TypeOK'
    BY SMTT(30), <1>11, <1>t, <1>z, <2>3 DEF LoopTail, ConsumerReturn, TypeOK, shared, pvars, k
  <2>5. ConsumerInv' /\ ProducerInv' /\ SerialInv'
    BY <1>11, <1>t, <1>p, <1>s, <2>2, <2>3 DEF LoopTail, ConsumerReturn, ConsumerInv, HasTail,
       HasHead, HasChunk, HasWant, shared, SerialInv, k
  <2> QED BY <2>4, <2>5
<1>12. ASSUME c_tail \in Slots, c_chunk \in 0..N, c_tail + c_chunk <= N
       PROVE  Elements(c_tail, c_chunk) \in Seq(Values \union {Zero})
  <2>1. \A i \in 1..c_chunk : c_tail + i - 1 \in Slots
    BY <1>12, NAssumption DEF Slots
  <2>2. \A i \in 1..c_chunk : buf[c_tail + i - 1] \in Values \union {Zero}
    BY <2>1, <1>t DEF TypeOK
  <2> QED BY <1>12, <2>2, NAssumption DEF Elements
<1>13. CASE PopRead
  <2>1. TypeOK'
    BY <1>13, <1>t, <1>12 DEF PopRead, TypeOK, ConsumerInv, HasTail, HasChunk, HasWant, shared, pvars
  <2>2. ConsumerInv' /\ ProducerInv' /\ SerialInv'
    BY <1>13, <1>t, <1>p, <1>s DEF PopRead, ConsumerInv, HasTail, HasHead, HasChunk, HasWant, shared, SerialInv
  <2> QED BY <2>1, <2>2
<1>14. CASE ChunkStore
  <2>1. /\ c_tail = tail /\ c_chunk \in 1..Count(tail, head) /\ tail + c_chunk <= N
        /\ c_chunk <= c_want
    BY <1>14, <1>t, <1>c DEF ChunkStore, ConsumerInv, HasTail, HasChunk, HasWant, TypeOK
  <2>2. tail' \in Slots /\ Count(tail', head) = Count(tail, head) - c_chunk
    BY <1>14, <1>t, <2>1, TailMoves DEF ChunkStore, TypeOK
  <2>3. c_want - c_chunk \in Nat
    BY <1>t, <1>c, <2>1 DEF TypeOK
  <2>4. SubSeq(c_data, c_chunk + 1, Len(c_data)) \in Seq(Values \union {Zero})
    <3>1. \A i \in (c_chunk + 1)..Len(c_data) : c_data[i] \in Values \union {Zero}
      BY <1>t DEF TypeOK
    <3>2. c_chunk + 1 \in Int /\ Len(c_data) \in Int
      BY <1>t DEF TypeOK
    <3> QED BY <3>1, <3>2, SubSeqProperties
  <2>5. TypeOK'
    BY <1>14, <1>t, <1>z, <2>2, <2>3, <2>4 DEF ChunkStore, TypeOK, pvars
  <2>6. ProducerInv'
    BY <1>14, <1>t, <1>c, <1>o, <2>1, <2>2 DEF ChunkStore, ProducerInv, Loaded, pvars
  <2>7. c_want' <= Count(tail', head)
    BY <1>14, <1>t, <1>c, <2>1, <2>2 DEF ChunkStore, ConsumerInv, HasWant, TypeOK
  <2>8. ConsumerInv' /\ SerialInv'
    BY <1>14, <1>t, <1>s, <2>7 DEF ChunkStore, ConsumerInv, HasTail, HasHead, HasChunk, HasWant, SerialInv
  <2> QED BY <2>5, <2>6, <2>8
<1>15. CASE PeekTail
  <2> DEFINE k == IF tail < c_head THEN c_head - tail ELSE N - tail
  <2>1. c_head # tail => k \in 1..Count(tail, c_head) /\ tail + k <= N
    BY <1>t, NAssumption DEF TypeOK, Count, Slots
  <2>2. Count(tail, c_head) <= Count(tail, head)
    BY <1>15, <1>t DEF PeekTail, ConsumerInv, HasHead
  <2>3. c_head # tail => 0 < k /\ k <= Count(tail, head) /\ tail + k <= N /\ k \in 0..N
    BY <2>1, <2>2, <1>c, NAssumption
  <2> HIDE DEF k
  <2>4. TypeOK'
    <3>1. CASE c_head # tail
      <4>1. c_chunk' = k /\ k \in 0..N
        BY <1>15, <2>3, <3>1 DEF PeekTail, k
      <4> QED BY <1>15, <1>t, <3>1, <4>1 DEF PeekTail, TypeOK, shared, pvars
    <3>2. CASE c_head = tail
      BY <1>15, <1>t, <1>z, <3>2 DEF PeekTail, ConsumerReturn, TypeOK, shared, pvars
    <3> QED BY <3>1, <3>2
  <2>5. ConsumerInv' /\ ProducerInv' /\ SerialInv'
    BY <1>15, <1>t, <1>p, <1>s, <2>3 DEF PeekTail, ConsumerReturn, ConsumerInv, HasTail, HasHead,
       HasChunk, HasWant, shared, SerialInv, k
  <2> QED BY <2>4, <2>5
<1>16. CASE PeekUse
  <2>1. TypeOK'
    BY <1>16, <1>t, <1>z, <1>12 DEF PeekUse, TypeOK, ConsumerInv, HasTail, HasChunk, HasWant, shared, pvars
  <2>2. ConsumerInv' /\ ProducerInv' /\ SerialInv'
    BY <1>16, <1>t, <1>p, <1>s DEF PeekUse, ConsumerInv, HasTail, HasHead, HasChunk, HasWant, shared, SerialInv
  <2> QED BY <2>1, <2>2
<1>17. CASE Discard
  <2>1. TypeOK'
    BY <1>17, <1>t DEF Discard, TypeOK, shared, pvars
  <2>2. ConsumerInv' /\ ProducerInv' /\ SerialInv'
    BY <1>17, <1>t, <1>c, <1>p, <1>s DEF Discard, ConsumerInv, HasTail, HasHead, HasChunk, HasWant, shared, SerialInv
  <2> QED BY <2>1, <2>2
<1>18. CASE FlushHead
  <2>1. TypeOK'
    BY <1>18, <1>t, <1>z DEF FlushHead, TypeOK, pvars
  <2>2. ppc = "idle"
    BY <1>18, <1>t DEF FlushHead, SerialInv
  <2>3. ConsumerInv' /\ ProducerInv' /\ SerialInv'
    BY <1>18, <1>t, <1>s, <2>2 DEF FlushHead, ProducerInv, Loaded, ConsumerInv, HasTail, HasHead,
       HasChunk, HasWant, SerialInv, pvars
  <2> QED BY <2>1, <2>3
<1> QED BY <1>1, <1>2, <1>3, <1>4, <1>5, <1>6, <1>7, <1>8, <1>9, <1>10, <1>11, <1>13, <1>14,
           <1>15, <1>16, <1>17, <1>18 DEF Consumer, ConsumerStep

\* A step that changes nothing keeps the invariant.
LEMMA StutterKeepsInv == IInv /\ UNCHANGED vars => IInv'
BY DEF IInv, TypeOK, ProducerInv, Loaded, ConsumerInv, HasTail, HasHead, HasChunk, HasWant, SerialInv,
   vars, shared, pvars, cvars

\* While the consumer is in a call, no push is about to move the tail.
LEMMA NotOverwriting ==
  ASSUME OneMovesTail, IInv, cpc # "idle"
  PROVE  ppc # "one_cas"
BY DEF OneMovesTail, IInv, ProducerInv, SerialInv

\* The two sides' copies are apart whenever both are under way.
LEMMA InvNoRace ==
  ASSUME OneMovesTail, IInv
  PROVE  NoSlotRace
<1>t. TypeOK /\ ProducerInv /\ ConsumerInv
  BY DEF IInv
<1>o. Overwrite /\ ppc = "one_copy" => Reading = {}
  BY DEF OneMovesTail, IInv, SerialInv, Reading
<1>1. Reading # {} => /\ c_tail = tail /\ c_chunk \in 0..Count(tail, head) /\ tail + c_chunk <= N
                      /\ Reading = tail..(tail + c_chunk - 1)
  <2>1. Reading # {} => HasTail /\ HasChunk /\ Reading = c_tail..(c_tail + c_chunk - 1)
    BY DEF Reading, HasTail, HasChunk, HasWant
  <2>2. Count(tail, head) \in Nat /\ c_chunk \in Nat
    BY <1>t, CountRange, NAssumption DEF TypeOK
  <2> QED BY <1>t, <2>1, <2>2 DEF ConsumerInv
<1>2. ASSUME ppc = "one_copy"
      PROVE  Writing = head..head /\ Writing \intersect Reading = {}
  <2>1. /\ Writing = head..head /\ (Inc(head) # p_tail \/ Overwrite)
        /\ Count(tail, head) <= Count(p_tail, head)
    BY <1>2, <1>t DEF Writing, ProducerInv, Loaded, TypeOK, Slots
  <2>2. CASE Inc(head) # p_tail
    BY <1>1, <2>1, <2>2, <1>t, OneFits DEF TypeOK
  <2> QED BY <1>2, <1>o, <2>1, <2>2
<1>3. ASSUME ppc = "blk_copy"
      PROVE  /\ Writing = head..(head + p_copy - 1) /\ head + p_copy <= N
             /\ Writing \intersect Reading = {}
  <2>1. /\ Writing = head..(head + p_copy - 1) /\ Count(tail, head) <= Count(p_tail, head)
        /\ p_copy = CopySize(head, p_tail, Len(p_todo)) /\ p_copy > 0 /\ Len(p_todo) \in Nat
    BY <1>3, <1>t DEF Writing, ProducerInv, Loaded, TypeOK
  <2>2. head + p_copy <= N
    BY <2>1, <1>t, BlockFits DEF TypeOK
  <2>3. \A c \in 0..Count(tail, head) : tail + c <= N =>
          (head..(head + p_copy - 1)) \intersect (tail..(tail + c - 1)) = {}
    BY <2>1, <1>t, BlockFits DEF TypeOK
  <2> QED BY <1>1, <2>1, <2>2, <2>3
<1>4. Writing # {} => ppc \in {"one_copy", "blk_copy"}
  BY DEF Writing
<1>5. Reading \subseteq Slots
  <2>1. tail \in Slots /\ Count(tail, head) \in Nat
    BY <1>t, CountRange, NAssumption DEF TypeOK
  <2> QED BY <1>1, <2>1, NAssumption DEF Slots
<1>6. Writing \subseteq Slots
  BY <1>2, <1>3, <1>4, <1>t, NAssumption DEF TypeOK, Slots
<1> QED BY <1>2, <1>3, <1>4, <1>5, <1>6 DEF NoSlotRace

-----------------------------------------------------------------------------
\* Every step keeps the invariant.
LEMMA InvSteps ==
  ASSUME OneMovesTail, IInv, [Next]_vars
  PROVE  IInv'
BY ProducerKeepsInv, ConsumerKeepsInv, StutterKeepsInv DEF Next

\* The queue keeps its invariant for ever.
THEOREM Invariance == ASSUME OneMovesTail PROVE Spec => []IInv
<1>1. IInv /\ [Next]_vars => IInv'
  BY InvSteps
<1> QED BY InitInv, <1>1, PTL DEF Spec

\* Whatever the size of the ring, head_ix and tail_ix never leave it.
THEOREM TypeCorrect == ASSUME OneMovesTail PROVE Spec => []TypeOK
<1>1. IInv => TypeOK
  BY DEF IInv
<1> QED BY Invariance, <1>1, PTL

\* Whatever the size of the ring and however an interrupt or another task cuts
\* in, isr_queue_push and isr_queue_pop never copy through the same slot at once.
THEOREM NoSlotRaces == ASSUME OneMovesTail PROVE Spec => []NoSlotRace
<1>1. IInv => NoSlotRace
  BY InvNoRace
<1> QED BY Invariance, <1>1, PTL

\* Whatever the size of the ring, the elements that isr_queue_count promised to
\* isr_queue_pop or isr_queue_discard are there until the call has removed them.
THEOREM CountsAreKept == ASSUME OneMovesTail PROVE Spec => []CountIsKept
<1>1. IInv => CountIsKept
  <2> SUFFICES ASSUME IInv, cpc \in {"pop_head", "pop_tail", "drop_head", "drop_tail"}
               PROVE  c_want <= Len(Contents)
    BY DEF CountIsKept
  <2>1. TypeOK /\ ppc # "one_cas" /\ c_want <= Count(tail, head)
    BY NotOverwriting DEF IInv, ConsumerInv, HasWant
  <2>2. (head - tail) % N = Count(tail, head) /\ Count(tail, head) \in Nat
    BY <2>1, CountIsDistance, CountRange, NAssumption DEF TypeOK
  <2>3. Contents = [i \in 1..((head - tail) % N) |-> buf[(tail + i - 1) % N]]
    BY <2>1 DEF Contents
  <2>4. Len(Contents) = Count(tail, head)
    BY <2>2, <2>3
  <2> QED BY <2>1, <2>4
<1> QED BY Invariance, <1>1, PTL

-----------------------------------------------------------------------------
(* What the consumer has read stays the oldest part of the queue. *)

\* From its copy, or from isr_queue_peek, to the store of the tail, what the
\* consumer has in hand is what the first slots from the tail on still hold.
HasData == cpc \in {"pop1_store", "pop_store", "peeked", "drop_count", "drop_head",
                    "drop_tail", "drop_store"}
DataInv ==
  /\ HasData =>
       /\ Len(c_data) <= Count(tail, head) /\ tail + Len(c_data) <= N
       /\ \A i \in 1..Len(c_data) : c_data[i] = buf[tail + i - 1]
  /\ ~HasData => c_data = <<>>
  /\ cpc = "pop1_store" => Len(c_data) = 1
  /\ cpc = "pop_store" => Len(c_data) = c_chunk

\* A push stores its elements behind everything the consumer has in hand.
LEMMA ProducerKeepsData ==
  ASSUME OneMovesTail, IInv, IInv', DataInv, Producer
  PROVE  DataInv'
<1>t. TypeOK /\ ProducerInv /\ ConsumerInv /\ TypeOK'
  BY DEF IInv
<1>v. UNCHANGED <<cpc, c_data, c_chunk>>
  BY DEF Producer, PushOne, Push, ProducerStep, OneLoad, OneCopy, OneStore, OneCas,
     BlkLoad, BlkCopy, BlkStore, cvars
<1>o. CASE Overwrite
  <2>1. cpc = "idle"
    BY <1>o DEF OneMovesTail, Producer, ProducerRuns
  <2> QED BY <1>v, <2>1 DEF DataInv, HasData
<1> SUFFICES ASSUME ~Overwrite PROVE DataInv'
  BY <1>o
<1>u. UNCHANGED <<cpc, tail, c_data, c_chunk>> /\ ppc # "one_cas"
  BY <1>t DEF Producer, PushOne, Push, ProducerStep, OneLoad, OneCopy, OneStore, OneCas,
     BlkLoad, BlkCopy, BlkStore, cvars, shared, ProducerInv
<1>n. Len(c_data) \in Nat /\ Count(tail, head) \in Nat
  BY <1>t, CountRange DEF TypeOK
<1>h. /\ head \in Int /\ buf \in [Slots -> Values \union {Zero}]
      /\ HasData => \A i \in 1..Len(c_data) :
                       /\ tail + i - 1 \in Slots
                       /\ tail + i - 1 \in tail..(tail + Len(c_data) - 1)
  <2>1. head \in Int /\ buf \in [Slots -> Values \union {Zero}] /\ tail \in Nat
    BY <1>t DEF TypeOK, Slots
  <2>2. ASSUME HasData, NEW i \in 1..Len(c_data)
        PROVE  tail + i - 1 \in Slots /\ tail + i - 1 \in tail..(tail + Len(c_data) - 1)
    BY <1>n, <2>1, <2>2, NAssumption DEF Slots, DataInv
  <2> QED BY <2>1, <2>2
<1>1. CASE UNCHANGED <<head, buf>>
  BY <1>1, <1>u DEF DataInv, HasData
<1>2. CASE OneCopy
  <2>1. (head..head) \intersect (tail..(tail + Len(c_data) - 1)) = {} \/ ~HasData
    <3>1. Inc(head) # p_tail /\ Count(tail, head) <= Count(p_tail, head)
      BY <1>2, <1>t DEF OneCopy, ProducerInv, Loaded
    <3> QED BY <1>t, <1>n, <3>1, OneFits DEF TypeOK, DataInv
  <2>2. p_head = head /\ buf' = [buf EXCEPT ![p_head] = Head(p_todo)] /\ head' = head
    BY <1>2, <1>t DEF OneCopy, ProducerInv, Loaded
  <2>3. HasData => \A i \in 1..Len(c_data) : buf'[tail + i - 1] = buf[tail + i - 1]
    BY <1>h, <2>1, <2>2
  <2> QED BY <1>u, <2>2, <2>3 DEF DataInv, HasData
<1>3. CASE BlkCopy
  <2>1. (head..(head + p_copy - 1)) \intersect (tail..(tail + Len(c_data) - 1)) = {} \/ ~HasData
    <3>1. /\ p_copy = CopySize(head, p_tail, Len(p_todo)) /\ p_copy > 0 /\ Len(p_todo) \in Nat
          /\ Count(tail, head) <= Count(p_tail, head)
      BY <1>3, <1>t DEF BlkCopy, ProducerInv, Loaded, TypeOK
    <3>2. \A c \in 0..Count(tail, head) : tail + c <= N =>
            (head..(head + p_copy - 1)) \intersect (tail..(tail + c - 1)) = {}
      <4>1. head \in Slots /\ tail \in Slots /\ p_tail \in Slots
        BY <1>t DEF TypeOK
      <4> QED BY <3>1, <4>1, BlockFits
    <3> QED BY <1>n, <3>2 DEF DataInv
  <2>2. /\ p_head = head /\ head' = head /\ p_copy \in Nat
        /\ buf' = [s \in Slots |-> IF s >= p_head /\ s < p_head + p_copy
                                   THEN p_todo[s - p_head + 1] ELSE buf[s]]
    BY <1>3, <1>t, NAssumption DEF BlkCopy, ProducerInv, Loaded, TypeOK
  <2>3. HasData => \A i \in 1..Len(c_data) : buf'[tail + i - 1] = buf[tail + i - 1]
    BY <1>h, <2>1, <2>2
  <2> QED BY <1>u, <2>2, <2>3 DEF DataInv, HasData
<1>4. CASE OneStore
  <2>1. Count(tail, head') = Count(tail, head) + 1 /\ buf' = buf
    <3>1. p_head = head /\ Inc(head) # p_tail /\ Count(tail, head) <= Count(p_tail, head)
      BY <1>4, <1>t DEF OneStore, ProducerInv, Loaded
    <3> QED BY <1>4, <1>t, <3>1, OneFits DEF OneStore, TypeOK
  <2> QED BY <1>u, <1>n, <2>1 DEF DataInv, HasData
<1>5. CASE BlkStore
  <2>1. Count(tail, head') >= Count(tail, head) /\ Count(tail, head') \in Nat /\ buf' = buf
    <3>1. /\ p_head = head /\ Count(tail, head) <= Count(p_tail, head) /\ Len(p_todo) \in Nat
          /\ p_copy = CopySize(head, p_tail, Len(p_todo)) /\ p_copy > 0
      BY <1>5, <1>t DEF BlkStore, ProducerInv, Loaded, TypeOK
    <3>2. /\ Stored(head, p_tail, p_copy) \in 0..Len(p_todo)
          /\ Count(tail, NextHead(head, p_tail, p_copy))
               = Count(tail, head) + Stored(head, p_tail, p_copy)
      <4>1. head \in Slots /\ tail \in Slots /\ p_tail \in Slots
        BY <1>t DEF TypeOK
      <4> QED BY <3>1, <4>1, BlockFits
    <3> QED BY <1>5, <1>n, <3>1, <3>2 DEF BlkStore
  <2> QED BY <1>u, <1>n, <2>1 DEF DataInv, HasData
<1> QED BY <1>1, <1>2, <1>3, <1>4, <1>5, <1>u DEF Producer, PushOne, Push, ProducerStep, OneLoad,
           OneCas, BlkLoad, shared

\* A pop, peek or discard reads from the tail on, and removes what it has read.
LEMMA ConsumerKeepsData ==
  ASSUME OneMovesTail, IInv, IInv', DataInv, Consumer
  PROVE  DataInv'
<1>t. TypeOK /\ ConsumerInv /\ TypeOK'
  BY DEF IInv
<1>n. /\ Len(c_data) \in Nat /\ Count(tail, head) \in Nat /\ Count(tail, head) <= N - 1
      /\ c_data \in Seq(Values \union {Zero})
  BY <1>t, CountRange, NAssumption DEF TypeOK
<1>1. CASE /\ UNCHANGED <<head, tail, buf, c_data>> /\ (HasData' <=> HasData)
           /\ cpc' \notin {"pop1_store", "pop_store"}
  BY <1>1 DEF DataInv
<1>2. CASE ~HasData' /\ c_data' = <<>>
  BY <1>2 DEF DataInv, HasData
<1>3. CASE PopOneRead
  <2>1. c_tail = tail /\ 1 <= Count(tail, head) /\ tail + 1 <= N
    BY <1>3, <1>t, <1>n DEF PopOneRead, ConsumerInv, HasTail, HasChunk
  <2>2. Len(c_data') = 1 /\ c_data'[1] = buf[tail] /\ UNCHANGED <<head, tail, buf>>
    BY <1>3, <2>1 DEF PopOneRead, shared
  <2>3. cpc' = "pop1_store"
    BY <1>3 DEF PopOneRead
  <2>4. \A i \in 1..1 : tail + i - 1 = tail /\ i = 1
    BY <1>t DEF TypeOK, Slots
  <2>5. tail + Len(c_data') <= N /\ Len(c_data') <= Count(tail, head)
    BY <2>1, <2>2
  <2>6. \A i \in 1..Len(c_data') : c_data'[i] = buf[tail + i - 1]
    BY <2>2, <2>4
  <2> QED BY <2>2, <2>3, <2>5, <2>6 DEF DataInv, HasData
<1>4. CASE PopRead \/ PeekUse
  <2>1. c_tail = tail /\ c_chunk \in Nat /\ c_chunk <= Count(tail, head) /\ tail + c_chunk <= N
    BY <1>4, <1>t DEF PopRead, PeekUse, ConsumerInv, HasTail, HasChunk, TypeOK
  <2>2. c_data' = [i \in 1..c_chunk |-> buf[tail + i - 1]] /\ UNCHANGED <<head, tail, buf>>
    BY <1>4, <2>1 DEF PopRead, PeekUse, Elements, shared
  <2>3. Len(c_data') = c_chunk /\ \A i \in 1..c_chunk : c_data'[i] = buf[tail + i - 1]
    BY <2>1, <2>2
  <2>4. cpc' \in {"pop_store", "peeked"} /\ (cpc' = "pop_store" => c_chunk' = c_chunk)
    BY <1>4 DEF PopRead, PeekUse
  <2> QED BY <2>1, <2>2, <2>3, <2>4 DEF DataInv, HasData
<1>5. CASE ChunkStore
  <2>1. /\ c_tail = tail /\ c_chunk \in 1..Count(tail, head) /\ tail + c_chunk <= N
        /\ cpc \in {"pop_store", "drop_store"} /\ HasData /\ tail \in Nat
    <3>1. cpc \in {"pop_store", "drop_store"}
      BY <1>5 DEF ChunkStore
    <3>2. c_tail = tail /\ c_chunk \in 1..Count(tail, head) /\ tail + c_chunk <= N
      <4>1. c_tail = tail /\ 0 < c_chunk /\ c_chunk <= Count(tail, head) /\ c_tail + c_chunk <= N
        BY <1>t, <3>1 DEF ConsumerInv, HasTail, HasChunk
      <4>2. c_chunk \in Nat
        BY <1>t DEF TypeOK
      <4> QED BY <1>n, <4>1, <4>2
    <3>3. tail \in Nat
      BY <1>t, NAssumption DEF TypeOK, Slots
    <3> QED BY <3>1, <3>2, <3>3 DEF HasData
  <2>2. Count(tail', head) = Count(tail, head) - c_chunk
    <3>1. tail \in Slots /\ head \in Slots /\ tail' = NextTail(tail, c_chunk)
      BY <1>5, <1>t, <2>1 DEF ChunkStore, TypeOK
    <3> QED BY <2>1, <3>1, TailMoves
  <2>3. c_data' = SubSeq(c_data, c_chunk + 1, Len(c_data)) /\ UNCHANGED <<head, buf>>
    BY <1>5 DEF ChunkStore
  <2>4. CASE c_chunk < Len(c_data)
    <3>1. tail' = tail + c_chunk /\ cpc' = "drop_head"
      BY <1>5, <1>n, <2>1, <2>4, NAssumption DEF ChunkStore, NextTail, DataInv
    <3>2. Len(c_data') = Len(c_data) - c_chunk
      BY <1>n, <2>1, <2>3, <2>4
    <3>3. \A i \in 1..Len(c_data') : c_data'[i] = c_data[c_chunk + i]
      BY <1>n, <2>1, <2>3, <2>4, <3>2
    <3>4. \A i \in 1..Len(c_data') : c_data'[i] = buf[tail' + i - 1]
      <4> TAKE i \in 1..Len(c_data')
      <4>1. c_chunk + i \in 1..Len(c_data) /\ tail + (c_chunk + i) - 1 = tail' + i - 1
        BY <1>n, <2>1, <2>4, <3>1, <3>2
      <4>2. c_data[c_chunk + i] = buf[tail + (c_chunk + i) - 1]
        BY <2>1, <4>1 DEF DataInv
      <4> QED BY <2>3, <3>3, <4>1, <4>2
    <3>5. Len(c_data') <= Count(tail', head) /\ tail' + Len(c_data') <= N
      BY <1>n, <2>1, <2>2, <3>1, <3>2, NAssumption DEF DataInv
    <3> QED BY <2>3, <3>1, <3>4, <3>5 DEF DataInv, HasData
  <2>5. CASE c_chunk >= Len(c_data)
    <3>1. c_data' = <<>> /\ cpc' \in {"pop_head", "drop_head"}
      BY <1>5, <1>n, <2>1, <2>3, <2>5 DEF ChunkStore
    <3>2. Len(c_data') = 0
      BY <3>1
    <3>3. Len(c_data') <= Count(tail', head) /\ tail' + Len(c_data') <= N
      <4>1. tail' = 0 \/ (tail' = tail + c_chunk /\ tail + c_chunk < N)
        BY <1>5, <2>1, <1>n, NAssumption DEF ChunkStore, NextTail
      <4>2. tail' \in Int /\ tail' <= N /\ tail' + Len(c_data') = tail'
        BY <1>n, <2>1, <3>2, <4>1, NAssumption
      <4>3. 0 <= Count(tail, head) - c_chunk
        BY <1>n, <2>1
      <4> QED BY <2>2, <3>2, <4>2, <4>3
    <3>4. \A i \in 1..Len(c_data') : FALSE
      BY <3>2
    <3> QED BY <2>3, <3>1, <3>2, <3>3, <3>4 DEF DataInv
  <2> QED BY <1>n, <2>1, <2>4, <2>5
<1>6. CASE \/ \E pc \in {"pop1_head", "peek1_head"} : PopOne(pc)
           \/ \E n \in 1..MaxLen : Pop(n)
           \/ Peek \/ FlushTail \/ OneHead \/ PeekOneRead \/ OneTailStore \/ PeekTail \/ FlushHead
  BY <1>2, <1>6 DEF PopOne, Pop, Peek, FlushTail, OneHead, PeekOneRead, OneTailStore, PeekTail,
     FlushHead, ConsumerReturn, DataInv, HasData
<1>7. CASE CountTail \/ LoopHead \/ LoopTail \/ Discard
  BY <1>1, <1>2, <1>7 DEF CountTail, LoopHead, LoopTail, Discard, ConsumerReturn, DataInv, HasData,
     shared
<1> QED BY <1>3, <1>4, <1>5, <1>6, <1>7 DEF Consumer, ConsumerStep

\* Whatever the size of the ring, what isr_queue_peek handed out, or a pop has
\* copied, is still the oldest part of the queue when the tail moves past it.
THEOREM ReadsAreOldest == ASSUME OneMovesTail PROVE Spec => []ReadIsOldest
<1>1. Init => DataInv
  BY DEF Init, DataInv, HasData
<1>2. IInv /\ IInv' /\ DataInv /\ [Next]_vars => DataInv'
  <2>1. UNCHANGED vars /\ DataInv => DataInv'
    BY DEF vars, shared, cvars, DataInv, HasData
  <2> QED BY <2>1, ProducerKeepsData, ConsumerKeepsData DEF Next
<1>3. IInv /\ DataInv => ReadIsOldest
  <2> SUFFICES ASSUME IInv, DataInv,
                      cpc \in {"pop1_store", "pop_store", "peeked", "drop_count", "drop_store"}
               PROVE  /\ Len(c_data) <= Len(Contents)
                      /\ c_data = SubSeq(Contents, 1, Len(c_data))
    BY DEF ReadIsOldest
  <2>1. /\ Len(c_data) <= Count(tail, head) /\ tail + Len(c_data) <= N
        /\ \A i \in 1..Len(c_data) : c_data[i] = buf[tail + i - 1]
    BY DEF DataInv, HasData
  <2>2. /\ head \in Slots /\ tail \in Slots /\ c_data \in Seq(Values \union {Zero})
        /\ ppc # "one_cas"
    BY NotOverwriting DEF IInv, TypeOK
  <2>3. Count(tail, head) \in Nat
    BY <2>2, CountRange, NAssumption
  <2>4. Contents = [i \in 1..Count(tail, head) |-> buf[(tail + i - 1) % N]]
    BY <2>2, CountIsDistance DEF Contents
  <2>5. \A i \in 1..Len(c_data) : (tail + i - 1) % N = tail + i - 1
    <3> TAKE i \in 1..Len(c_data)
    <3>1. tail + i - 1 \in Slots
      BY <2>1, <2>2, NAssumption DEF Slots
    <3> QED BY <3>1, SlotIsItself
  <2>6. Len(Contents) = Count(tail, head)
    BY <2>3, <2>4
  <2>7. \A i \in 1..Len(c_data) : Contents[i] = c_data[i]
    BY <2>1, <2>2, <2>3, <2>4, <2>5
  <2> QED BY <2>1, <2>2, <2>3, <2>6, <2>7
<1> QED BY Invariance, <1>1, <1>2, <1>3, PTL DEF Spec

-----------------------------------------------------------------------------
(* The ring implements a queue. *)

\* What the two sides know of the elements: a producer that has copied them finds them
\* behind the head, and a discard is for what was peeked.
Discards == cpc \in {"peeked", "drop_count", "drop_head", "drop_tail", "drop_store"}
FifoInv ==
  /\ ppc = "idle" => p_todo = <<>>
  /\ ppc = "one_store" => buf[p_head] = p_todo[1]
  /\ ppc = "blk_store" => \A i \in 1..p_copy : buf[p_head + i - 1] = p_todo[i]
  /\ Discards => c_want = Len(c_data)
  /\ cpc = "drop_count" => Len(c_data) <= Count(tail, c_head)

\* What the ring holds between two indices, with the slots as INC_MODULO finds them.
Data == Values \union {Zero}
Run(b, t, k) == [i \in 1..k |-> b[t + i - 1]]
Slot(t, i) == IF t + i - 1 >= N THEN t + i - 1 - N ELSE t + i - 1
View(b, t, h) == [i \in 1..Count(t, h) |-> b[Slot(t, i)]]

\* A slot is an index round the ring.
LEMMA SlotIsResidue ==
  ASSUME NEW t \in Slots, NEW i \in 1..N
  PROVE  Slot(t, i) \in Slots /\ (t + i - 1) % N = Slot(t, i)
<1>1. Slot(t, i) \in Slots
  BY NAssumption DEF Slot, Slots
<1>2. CASE t + i - 1 < N
  BY <1>2, NAssumption, SMTT(30) DEF Slot, Slots
<1>3. CASE t + i - 1 >= N
  BY <1>3, NAssumption, SMTT(30) DEF Slot, Slots
<1> QED BY <1>1, <1>2, <1>3, NAssumption DEF Slots

\* The queue holds what is between its indices.
LEMMA ContentsAreView ==
  ASSUME NEW b, NEW t \in Slots, NEW h \in Slots
  PROVE  [i \in 1..((h - t) % N) |-> b[(t + i - 1) % N]] = View(b, t, h)
<1>1. (h - t) % N = Count(t, h) /\ Count(t, h) \in 0..(N - 1)
  BY CountIsDistance, CountRange
<1>2. \A i \in 1..Count(t, h) : (t + i - 1) % N = Slot(t, i)
  BY <1>1, SlotIsResidue, NAssumption
<1> QED BY <1>1, <1>2 DEF View

\* It is a sequence of slots.
LEMMA ViewIsSeq ==
  ASSUME NEW b \in [Slots -> Data], NEW t \in Slots, NEW h \in Slots
  PROVE  /\ View(b, t, h) \in Seq(Data) /\ Len(View(b, t, h)) = Count(t, h)
         /\ \A i \in 1..Count(t, h) : View(b, t, h)[i] = b[Slot(t, i)]
<1>1. Count(t, h) \in 0..(N - 1)
  BY CountRange
<1>2. \A i \in 1..Count(t, h) : Slot(t, i) \in Slots
  BY <1>1, SlotIsResidue, NAssumption
<1>3. View(b, t, h) \in [1..Count(t, h) -> Data]
  BY <1>2 DEF View
<1> QED BY <1>1, <1>3, NAssumption DEF View

\* A sequence that starts like r and goes on like e is r followed by e.
LEMMA Joined ==
  ASSUME NEW S, NEW r \in Seq(S), NEW e \in Seq(S), NEW s \in Seq(S), Len(s) = Len(r) + Len(e),
         \A i \in 1..Len(r) : s[i] = r[i], \A i \in 1..Len(e) : s[Len(r) + i] = e[i]
  PROVE  s = r \o e
<1>1. /\ (r \o e) \in Seq(S) /\ Len(r \o e) = Len(r) + Len(e)
      /\ \A i \in 1..(Len(r) + Len(e)) : (r \o e)[i] = IF i <= Len(r) THEN r[i] ELSE e[i - Len(r)]
  BY ConcatProperties
<1>2. \A i \in 1..Len(s) : s[i] = (r \o e)[i]
  <2> TAKE i \in 1..Len(s)
  <2>1. CASE i <= Len(r)
    BY <1>1, <2>1
  <2>2. CASE i > Len(r)
    <3>1. i - Len(r) \in 1..Len(e) /\ Len(r) + (i - Len(r)) = i
      BY <2>2
    <3>2. s[Len(r) + (i - Len(r))] = e[i - Len(r)]
      BY <3>1
    <3> QED BY <1>1, <2>2, <3>1, <3>2
  <2> QED BY <2>1, <2>2
<1> QED BY <1>1, <1>2, SeqEqual

\* Slots that do not cross the end of the ring are a sequence.
LEMMA RunIsSeq ==
  ASSUME NEW b \in [Slots -> Data], NEW t \in Slots, NEW k \in Nat, t + k <= N
  PROVE  /\ Run(b, t, k) \in Seq(Data) /\ Len(Run(b, t, k)) = k
         /\ \A i \in 1..k : Run(b, t, k)[i] = b[t + i - 1]
<1>1. \A i \in 1..k : t + i - 1 \in Slots
  BY NAssumption DEF Slots
<1>2. Run(b, t, k) \in [1..k -> Data]
  BY <1>1 DEF Run
<1> QED BY <1>2 DEF Run

\* Moving the head over k filled slots adds them at the end.
LEMMA ViewGrows ==
  ASSUME NEW b \in [Slots -> Data], NEW t \in Slots, NEW h \in Slots, NEW g \in Slots, NEW k \in Nat,
         Count(t, g) = Count(t, h) + k, h + k <= N
  PROVE  View(b, t, g) = View(b, t, h) \o Run(b, h, k)
<1> DEFINE n == Count(t, h)
           e == Run(b, h, k)
<1>0. e \in Seq(Data) /\ Len(e) = k /\ \A i \in 1..k : e[i] = b[h + i - 1]
  BY RunIsSeq
<1> HIDE DEF e
<1>1. n \in 0..(N - 1) /\ n + k \in 0..(N - 1) /\ n \in Nat
  BY CountRange, NAssumption
<1>2. \A i \in 1..k : Slot(t, n + i) = h + i - 1
  BY NAssumption DEF Slot, Count, Slots
<1>3. /\ View(b, t, h) \in Seq(Data) /\ Len(View(b, t, h)) = n
      /\ \A i \in 1..n : View(b, t, h)[i] = b[Slot(t, i)]
  BY ViewIsSeq
<1>4. /\ View(b, t, g) \in Seq(Data) /\ Len(View(b, t, g)) = n + k
      /\ \A i \in 1..(n + k) : View(b, t, g)[i] = b[Slot(t, i)]
  <2>1. /\ View(b, t, g) \in Seq(Data) /\ Len(View(b, t, g)) = Count(t, g)
        /\ \A i \in 1..Count(t, g) : View(b, t, g)[i] = b[Slot(t, i)]
    BY ViewIsSeq
  <2> QED BY <2>1
<1> HIDE DEF n, View, Slot
<1>5. \A i \in 1..n : View(b, t, g)[i] = View(b, t, h)[i]
  BY <1>1, <1>3, <1>4
<1>6. \A i \in 1..k : View(b, t, g)[n + i] = e[i]
  <2> TAKE i \in 1..k
  <2>1. n + i \in 1..(n + k)
    BY <1>1
  <2> QED BY <1>0, <1>2, <1>4, <2>1
<1>7. View(b, t, g) = View(b, t, h) \o e
  BY <1>0, <1>3, <1>4, <1>5, <1>6, Joined
<1> QED BY <1>7 DEF e

\* Moving the tail over k slots takes them off the front.
LEMMA ViewShrinks ==
  ASSUME NEW b \in [Slots -> Data], NEW t \in Slots, NEW h \in Slots,
         NEW k \in 1..Count(t, h), t + k <= N
  PROVE  /\ Run(b, t, k) \o View(b, NextTail(t, k), h) = View(b, t, h)
         /\ Run(b, t, k) = SubSeq(View(b, t, h), 1, k)
<1> DEFINE u == NextTail(t, k)
           n == Count(t, h)
           e == Run(b, t, k)
<1>0. e \in Seq(Data) /\ Len(e) = k /\ \A i \in 1..k : e[i] = b[t + i - 1]
  BY RunIsSeq, CountRange, NAssumption
<1> HIDE DEF e
<1>1. n \in 0..(N - 1) /\ u \in Slots /\ Count(u, h) = n - k /\ k \in 1..n
        /\ n \in Nat /\ t \in Int
  BY CountRange, TailMoves, NAssumption DEF Slots
<1>2. \A i \in 1..k : Slot(t, i) = t + i - 1
  BY NAssumption DEF Slot, Slots
<1>3. \A i \in 1..(n - k) : Slot(u, i) = Slot(t, k + i)
  BY <1>1, NAssumption DEF Slot, Slots, NextTail
<1> HIDE DEF u
<1>4. /\ View(b, t, h) \in Seq(Data) /\ Len(View(b, t, h)) = n
      /\ \A i \in 1..n : View(b, t, h)[i] = b[Slot(t, i)]
  BY ViewIsSeq
<1>5. /\ View(b, u, h) \in Seq(Data) /\ Len(View(b, u, h)) = Count(u, h)
      /\ \A i \in 1..Count(u, h) : View(b, u, h)[i] = b[Slot(u, i)]
  <2>1. u \in Slots
    BY <1>1
  <2> HIDE DEF n
  <2> QED BY <2>1, ViewIsSeq
<1> HIDE DEF n, View, Slot
<1>6. \A i \in 1..k : View(b, t, h)[i] = e[i]
  <2> TAKE i \in 1..k
  <2>1. i \in 1..n
    BY <1>1
  <2> QED BY <1>0, <1>2, <1>4, <2>1
<1>7. \A i \in 1..(n - k) : View(b, t, h)[k + i] = View(b, u, h)[i]
  <2> TAKE i \in 1..(n - k)
  <2>1. k + i \in 1..n
    BY <1>1
  <2> QED BY <1>1, <1>3, <1>4, <1>5, <2>1
<1>8. View(b, t, h) = e \o View(b, u, h)
  <2>1. Len(View(b, t, h)) = Len(e) + Len(View(b, u, h)) /\ Len(View(b, u, h)) = n - k
    BY <1>0, <1>1, <1>4, <1>5
  <2>2. /\ \A i \in 1..Len(e) : View(b, t, h)[i] = e[i]
        /\ \A i \in 1..Len(View(b, u, h)) : View(b, t, h)[Len(e) + i] = View(b, u, h)[i]
    BY <1>0, <1>6, <1>7, <2>1
  <2>3. View(b, t, h) \in Seq(Data) /\ View(b, u, h) \in Seq(Data)
    BY <1>4, <1>5
  <2> QED BY <1>0, <2>1, <2>2, <2>3, Joined
<1>9. e = SubSeq(View(b, t, h), 1, k)
  <2>1. \A i \in 1..k : e[i] = View(b, t, h)[i]
    BY <1>6
  <2>2. /\ SubSeq(View(b, t, h), 1, k) \in Seq(Data) /\ Len(SubSeq(View(b, t, h), 1, k)) = k
        /\ \A i \in 1..k : SubSeq(View(b, t, h), 1, k)[i] = View(b, t, h)[i]
    BY <1>1, <1>4
  <2> QED BY <1>0, <2>1, <2>2, SeqEqual
<1> QED BY <1>8, <1>9 DEF u, e

\* What is written at the head, having seen room before the tail t, is not in the queue.
LEMMA WritesOutside ==
  ASSUME NEW h \in Slots, NEW t \in Slots, NEW u \in Slots, NEW k \in Nat,
         \/ k = 1
         \/ \E len \in Nat : k = CopySize(h, t, len) /\ Count(u, h) <= Count(t, h),
         NEW i \in 1..Count(u, h)
  PROVE  Slot(u, i) \notin h..(h + k - 1)
<1>1. CASE k = 1
  BY <1>1, NAssumption DEF Slot, Slots, Count
<1>2. CASE \E len \in Nat : k = CopySize(h, t, len) /\ Count(u, h) <= Count(t, h)
  <2>1. PICK len \in Nat : k = CopySize(h, t, len) /\ Count(u, h) <= Count(t, h)
    BY <1>2
  <2>2. CASE h >= t
    <3>1. h + k <= N
      BY <2>1, <2>2, NAssumption DEF CopySize, Slots
    <3>2. h >= u
      BY <2>1, <2>2, NAssumption DEF Count, Slots
    <3> QED BY <3>1, <3>2, NAssumption DEF Slot, Slots, Count
  <2>3. CASE h < t
    <3>1. h + k < t
      BY <2>1, <2>3, NAssumption DEF CopySize, Slots
    <3>2. h >= u \/ t <= u
      BY <2>1, <2>3, NAssumption DEF Count, Slots
    <3> QED BY <3>1, <3>2, <2>1, <2>3, NAssumption DEF Slot, Slots, Count
  <2> QED BY <2>2, <2>3 DEF Slots
<1> QED BY <1>1, <1>2

\* Writing next to the queue leaves it as it is.
LEMMA ViewStays ==
  ASSUME NEW b, NEW c, NEW t \in Slots, NEW h \in Slots,
         \A i \in 1..Count(t, h) : c[Slot(t, i)] = b[Slot(t, i)]
  PROVE  View(c, t, h) = View(b, t, h)
BY DEF View

\* Without its first element a sequence is what follows it.
LEMMA OneBefore ==
  ASSUME NEW S, NEW x \in Seq(S), Len(x) = 1, NEW v \in Seq(S), NEW s, s = x \o v
  PROVE  Tail(s) = v
<1>1. /\ s \in Seq(S) /\ Len(s) = Len(v) + 1
      /\ \A i \in 1..Len(v) : s[i + 1] = v[i]
  <2>1. /\ (x \o v) \in Seq(S) /\ Len(x \o v) = Len(x) + Len(v)
        /\ \A i \in 1..(Len(x) + Len(v)) : (x \o v)[i] = IF i <= Len(x) THEN x[i] ELSE v[i - Len(x)]
    BY ConcatProperties
  <2>2. \A i \in 1..Len(v) : s[i + 1] = v[(i + 1) - 1] /\ (i + 1) - 1 = i
    BY <2>1
  <2> QED BY <2>1, <2>2
<1>2. s # <<>> /\ Len(v) \in Nat
  BY <1>1
<1>3. /\ Tail(s) \in Seq(S) /\ Len(Tail(s)) = Len(v)
      /\ \A i \in 1..Len(v) : Tail(s)[i] = s[i + 1]
  BY <1>1, <1>2, HeadTailProperties
<1>4. \A i \in 1..Len(v) : Tail(s)[i] = v[i]
  BY <1>1, <1>3
<1> QED BY <1>3, <1>4, SeqEqual

\* A producer's step is a step of the queue, or none: first those that do not make an
\* overwritten element go.
LEMMA ProducerRefines ==
  ASSUME OneMovesTail, IInv, IInv', FifoInv, Producer, ppc # "one_cas", ppc' # "one_cas"
  PROVE  FifoInv' /\ [Abs!Next]_(Abs!vars)
<1>t. TypeOK /\ ProducerInv /\ SerialInv /\ ProducerRuns /\ TypeOK' /\ ppc' # "one_cas"
  BY DEF IInv, Producer
<1>u. UNCHANGED <<cvars, tail>>
  BY <1>t DEF Producer, PushOne, Push, ProducerStep, OneLoad, OneCopy, OneStore, OneCas,
     BlkLoad, BlkCopy, BlkStore, shared
<1>v. UNCHANGED <<cpc, c_head, c_tail, c_chunk, c_want, c_data>>
  BY <1>u DEF cvars
<1>d. /\ Discards' => c_want' = Len(c_data')
      /\ cpc' = "drop_count" => Len(c_data') <= Count(tail', c_head')
  BY <1>u, <1>v DEF Discards, FifoInv
<1>f. cpc # "flush_head" /\ Held' = Held
  BY <1>t, <1>v DEF SerialInv, ProducerRuns, Held
<1>s. /\ tail \in Slots /\ head \in Slots /\ head' \in Slots /\ p_tail \in Slots
      /\ buf \in [Slots -> Data] /\ buf' \in [Slots -> Data]
      /\ p_todo \in Seq(Values) /\ p_todo' \in Seq(Values)
      /\ Len(p_todo) \in Nat /\ Count(tail, head) \in 0..(N - 1) /\ Count(tail, head') \in 0..(N - 1)
  <2>1. /\ tail \in Slots /\ head \in Slots /\ head' \in Slots /\ p_tail \in Slots
        /\ buf \in [Slots -> Data] /\ buf' \in [Slots -> Data]
        /\ p_todo \in Seq(Values) /\ p_todo' \in Seq(Values)
    BY <1>t DEF TypeOK, Data
  <2> QED BY <2>1, CountRange
<1>q. Contents = View(buf, tail, head) /\ Len(Contents) = Count(tail, head)
  <2>2. Contents = [i \in 1..((head - tail) % N) |-> buf[(tail + i - 1) % N]]
    BY <1>f DEF Contents
  <2>3. Contents = View(buf, tail, head)
    BY <1>s, <2>2, ContentsAreView
  <2>4. Len(View(buf, tail, head)) = Count(tail, head)
    BY <1>s, ViewIsSeq
  <2> QED BY <2>3, <2>4
<1>r. Contents' = View(buf', tail, head')
  <2>1. Contents' = [i \in 1..((head' - tail') % N) |-> buf'[(tail' + i - 1) % N]]
    BY <1>f, <1>t, <1>v DEF Contents
  <2> QED BY <1>s, <1>u, <2>1, ContentsAreView
\* Steps that change neither the queue nor the block.
<1>w. (Contents' = Contents /\ p_todo' = p_todo) => [Abs!Next]_(Abs!vars)
  BY <1>f DEF Abs!vars
<1>x. (/\ ~Overwrite /\ p_todo # <<>> /\ p_todo' = <<>>
        /\ Contents' = Contents /\ Count(tail, head) = N - 1) => Abs!Refuse
  BY <1>f, <1>q DEF Abs!Refuse
<1>y. (p_todo = <<>> /\ p_todo' # <<>> /\ Contents' = Contents) => Abs!Offer
  BY <1>f, <1>s DEF Abs!Offer
<1>1. CASE \E v \in Values : PushOne(v)
  <2> PICK v \in Values : PushOne(v)
    BY <1>1
  <2>1. p_todo = <<>> /\ p_todo' # <<>> /\ Contents' = Contents /\ ppc' = "one_load"
    BY <1>q, <1>r DEF PushOne, FifoInv, shared
  <2> QED BY <1>d, <1>y, <2>1 DEF FifoInv, Abs!Next
<1>2. CASE \E block \in Blocks : Push(block)
  <2> PICK block \in Blocks : Push(block)
    BY <1>2
  <2>1. block # <<>>
    BY MaxLenAssumption DEF Blocks
  <2>2. p_todo = <<>> /\ p_todo' # <<>> /\ Contents' = Contents /\ ppc' = "blk_load"
    BY <1>q, <1>r, <2>1 DEF Push, FifoInv, shared
  <2> QED BY <1>d, <1>y, <2>2 DEF FifoInv, Abs!Next
<1>3. CASE OneLoad
  <2>1. UNCHANGED shared /\ Contents' = Contents /\ p_todo # <<>>
    BY <1>3, <1>q, <1>r, <1>t DEF OneLoad, shared, ProducerInv
  <2>2. CASE Inc(head) # tail \/ Overwrite
    BY <1>3, <1>d, <1>w, <2>1, <2>2 DEF OneLoad, FifoInv
  <2>3. CASE ~(Inc(head) # tail \/ Overwrite)
    <3>1. Count(tail, head) = N - 1
      BY <1>s, <2>3, NAssumption DEF Inc, Count, Slots
    <3>2. ppc' = "idle" /\ p_todo' = <<>>
      BY <1>3, <2>3 DEF OneLoad, PushReturn
    <3> QED BY <1>d, <1>x, <2>1, <2>3, <3>1, <3>2 DEF FifoInv, Abs!Next
  <2> QED BY <2>2, <2>3
<1>4. CASE OneCopy
  <2>1. p_head = head /\ p_todo # <<>>
    BY <1>4, <1>t DEF OneCopy, ProducerInv, Loaded
  <2>2. buf' = [buf EXCEPT ![head] = Head(p_todo)] /\ UNCHANGED <<head, p_head, p_todo>> /\ ppc' = "one_store"
    BY <1>4, <2>1 DEF OneCopy
  <2>3. \A i \in 1..Count(tail, head) : Slot(tail, i) \in Slots /\ Slot(tail, i) # head
    <3> TAKE i \in 1..Count(tail, head)
    <3>1. Slot(tail, i) \notin head..(head + 1 - 1)
      BY <1>s, WritesOutside
    <3>2. i \in 1..N
      BY <1>s, NAssumption
    <3> QED BY <1>s, <3>1, <3>2, SlotIsResidue, NAssumption DEF Slots
  <2>4. \A i \in 1..Count(tail, head) : buf'[Slot(tail, i)] = buf[Slot(tail, i)]
    BY <1>s, <2>2, <2>3
  <2>5. Contents' = Contents
    <3>1. View(buf', tail, head) = View(buf, tail, head)
      BY <1>s, <2>4, ViewStays, SMTT(30)
    <3> QED BY <1>q, <1>r, <2>2, <3>1
  <2>6. buf'[p_head'] = p_todo'[1]
    BY <1>s, <2>1, <2>2
  <2> QED BY <1>d, <1>w, <2>2, <2>5, <2>6 DEF FifoInv
<1>5. CASE OneStore
  <2>1. /\ p_head = head /\ Inc(head) # p_tail /\ p_todo # <<>> /\ buf[head] = p_todo[1]
        /\ Count(tail, head) <= Count(p_tail, head)
    BY <1>5, <1>t DEF OneStore, ProducerInv, Loaded, FifoInv
  <2>2. head' = Inc(head) /\ buf' = buf /\ p_todo' = Tail(p_todo)
    BY <1>5, <2>1 DEF OneStore
  <2>3. Count(tail, head') = Count(tail, head) + 1
    BY <1>s, <2>1, <2>2, OneFits
  <2> DEFINE e == SubSeq(p_todo, 1, 1)
  <2>4. e \in Seq(Data) /\ Len(e) = 1 /\ e[1] = p_todo[1] /\ Len(p_todo) >= 1
    BY <1>s, <2>1 DEF Data
  <2>5. p_todo' = SubSeq(p_todo, 1 + 1, Len(p_todo))
    BY <1>s, <2>1, <2>2
  <2> HIDE DEF e
  <2>6. \A i \in 1..1 : e[i] = buf[head + i - 1]
    BY <1>s, <2>1, <2>4 DEF Slots
  <2>7. head + 1 <= N
    BY <1>s, NAssumption DEF Slots
  <2>8. Contents' = Contents \o e
    <3>1. View(buf, tail, head') = View(buf, tail, head) \o e
      <4>1. View(buf, tail, head') = View(buf, tail, head) \o Run(buf, head, 1)
        BY SMTT(30), <1>s, <2>3, <2>7, ViewGrows
      <4>2. Run(buf, head, 1) = e
        BY <1>s, <2>4, <2>6, <2>7, RunIsSeq, SeqEqual
      <4> QED BY <4>1, <4>2
    <3> QED BY <1>q, <1>r, <2>2, <3>1
  <2>9. Abs!Accept
    <3>1. 1 \in 1..Len(p_todo) /\ Len(Contents) + 1 <= N - 1
      BY <1>q, <1>s, <2>3, <2>4, NAssumption
    <3> QED BY <1>f, <2>5, <2>8, <3>1 DEF Abs!Accept, e
  <2>10. ppc' \notin {"one_store", "blk_store"} /\ (ppc' = "idle" => p_todo' = <<>>)
    BY <1>5, <1>t, <2>1, <2>2 DEF OneStore, AfterOne
  <2> QED BY <1>d, <2>9, <2>10 DEF FifoInv, Abs!Next
<1>6. CASE OneCas
  BY <1>6 DEF OneCas
<1>7. CASE BlkLoad
  <2>1. UNCHANGED shared /\ Contents' = Contents
    BY <1>7, <1>q, <1>r DEF BlkLoad, shared
  <2>2. CASE CopySize(head, tail, Len(p_todo)) > 0
    BY <1>7, <1>d, <1>w, <2>1, <2>2 DEF BlkLoad, FifoInv
  <2>3. CASE ~(CopySize(head, tail, Len(p_todo)) > 0)
    <3>0. CASE Overwrite /\ p_todo # <<>>
      <4>1. p_todo' = p_todo /\ ppc' = "one_load"
        BY <1>7, <2>3, <3>0 DEF BlkLoad
      <4> QED BY <1>d, <1>w, <2>1, <4>1 DEF FifoInv
    <3>1. ~(Overwrite /\ p_todo # <<>>) => ppc' = "idle" /\ p_todo' = <<>>
      BY <1>7, <2>3 DEF BlkLoad, PushReturn
    <3>2. CASE p_todo = <<>>
      BY <1>d, <1>w, <2>1, <3>1, <3>2 DEF FifoInv
    <3>3. CASE p_todo # <<>> /\ ~Overwrite
      <4>1. Len(p_todo) > 0
        BY <1>s, <3>3
      <4>2. Count(tail, head) = N - 1
        BY <1>s, <2>3, <4>1, NAssumption DEF CopySize, Count, Slots
      <4> QED BY <1>d, <1>x, <2>1, <3>1, <3>3, <4>2 DEF FifoInv, Abs!Next
    <3> QED BY <3>0, <3>2, <3>3
  <2> QED BY <2>2, <2>3
<1>8. CASE BlkCopy
  <2>1. /\ p_head = head /\ p_copy = CopySize(head, p_tail, Len(p_todo)) /\ p_copy > 0
        /\ Count(tail, head) <= Count(p_tail, head)
    BY <1>8, <1>t DEF BlkCopy, ProducerInv, Loaded
  <2>2. /\ buf' = [s \in Slots |-> IF s >= head /\ s < head + p_copy
                                  THEN p_todo[s - head + 1] ELSE buf[s]]
        /\ UNCHANGED <<head, p_head, p_todo, p_copy>> /\ ppc' = "blk_store"
    BY <1>8, <2>1 DEF BlkCopy
  <2>3. p_copy \in 1..Len(p_todo) /\ head + p_copy <= N /\ p_copy \in Nat
    BY <1>s, <2>1, BlockFits
  <2>4. \A i \in 1..Count(tail, head) : Slot(tail, i) \in Slots /\ Slot(tail, i) \notin head..(head + p_copy - 1)
    <3> TAKE i \in 1..Count(tail, head)
    <3>1. Slot(tail, i) \notin head..(head + p_copy - 1)
      BY <1>s, <2>1, <2>3, WritesOutside
    <3>2. i \in 1..N
      BY <1>s, NAssumption
    <3> QED BY <1>s, <3>1, <3>2, SlotIsResidue
  <2>5. \A i \in 1..Count(tail, head) : buf'[Slot(tail, i)] = buf[Slot(tail, i)]
    <3> HIDE DEF Slot
    <3> QED BY <1>s, <2>2, <2>3, <2>4 DEF Slots
  <2>6. Contents' = Contents
    <3>1. View(buf', tail, head) = View(buf, tail, head)
      BY <1>s, <2>5, ViewStays, SMTT(30)
    <3> QED BY <1>q, <1>r, <2>2, <3>1
  <2>7. \A i \in 1..p_copy : buf'[head + i - 1] = p_todo[i]
    <3> TAKE i \in 1..p_copy
    <3>1. head + i - 1 \in Slots /\ head + i - 1 >= head /\ head + i - 1 < head + p_copy
          /\ (head + i - 1) - head + 1 = i
      BY <1>s, <2>3, NAssumption DEF Slots
    <3> QED BY <2>2, <3>1
  <2> QED BY <1>d, <1>w, <2>1, <2>2, <2>6, <2>7 DEF FifoInv
<1>9. CASE BlkStore
  <2> DEFINE k == Stored(head, p_tail, p_copy)
             e == SubSeq(p_todo, 1, k)
  <2>1. /\ p_head = head /\ p_copy = CopySize(head, p_tail, Len(p_todo)) /\ p_copy > 0
        /\ Count(tail, head) <= Count(p_tail, head)
        /\ \A i \in 1..p_copy : buf[head + i - 1] = p_todo[i]
    BY <1>9, <1>t DEF BlkStore, ProducerInv, Loaded, FifoInv
  <2>2. /\ head' = NextHead(head, p_tail, p_copy) /\ buf' = buf /\ ppc' = "blk_load"
        /\ p_todo' = SubSeq(p_todo, k + 1, Len(p_todo))
    BY <1>9, <2>1 DEF BlkStore
  <2>3. /\ p_copy \in 1..Len(p_todo) /\ head + p_copy <= N
        /\ k \in 0..Len(p_todo) /\ Count(tail, head') = Count(tail, head) + k
    BY <1>s, <2>1, <2>2, BlockFits
  <2>4. k <= p_copy /\ head + k <= N
    BY <1>s, <2>3, NAssumption DEF Stored, Slots
  <2> HIDE DEF k
  <2>5. e \in Seq(Values) /\ Len(e) = k /\ \A i \in 1..k : e[i] = p_todo[i]
    BY <1>s, <2>3
  <2>6. e \in Seq(Data)
    BY <2>5 DEF Data
  <2> HIDE DEF e
  <2>7. \A i \in 1..k : e[i] = buf[head + i - 1]
    <3> TAKE i \in 1..k
    <3>1. i \in 1..p_copy
      BY <2>3, <2>4
    <3>2. buf[head + i - 1] = p_todo[i]
      BY <2>1, <3>1
    <3> QED BY <2>5, <3>2
  <2>8. Contents' = Contents \o e
    <3>1. View(buf, tail, head') = View(buf, tail, head) \o e
      <4>1. k \in Nat
        BY <2>3
      <4>2. View(buf, tail, head') = View(buf, tail, head) \o Run(buf, head, k)
        BY <1>s, <2>3, <2>4, <4>1, ViewGrows
      <4>3. Run(buf, head, k) = e
        <5>1. /\ Run(buf, head, k) \in Seq(Data) /\ Len(Run(buf, head, k)) = k
              /\ \A i \in 1..k : Run(buf, head, k)[i] = buf[head + i - 1]
          BY <1>s, <2>4, <4>1, RunIsSeq
        <5> QED BY <2>5, <2>6, <2>7, <5>1, SeqEqual
      <4> QED BY <4>2, <4>3
    <3> QED BY <1>q, <1>r, <2>2, <3>1
  <2>9. CASE k > 0
    <3>1. k \in 1..Len(p_todo) /\ Len(Contents) + k <= N - 1
      BY <1>q, <1>s, <2>3, <2>9, NAssumption
    <3>2. Abs!Accept
      BY <1>f, <2>2, <2>8, <3>1 DEF Abs!Accept, e
    <3> QED BY <1>d, <2>2, <3>2 DEF FifoInv, Abs!Next
  <2>10. CASE k = 0
    <3>1. p_todo' = p_todo
      BY <1>s, <2>2, <2>10
    <3>2. head' = head
      BY <1>s, <2>1, <2>2, <2>3, <2>10, NAssumption DEF k, Stored, NextHead, Slots
    <3>3. Contents' = Contents
      BY <1>q, <1>r, <2>2, <3>2
    <3> QED BY <1>d, <1>w, <2>2, <3>1, <3>3 DEF FifoInv
  <2> QED BY <2>3, <2>9, <2>10
<1> QED BY <1>1, <1>2, <1>3, <1>4, <1>5, <1>6, <1>7, <1>8, <1>9 DEF Producer, ProducerStep

\* A full queue that overwrites gives up its oldest element as it stores the new one, and
\* moves the tail past it afterwards.
LEMMA OverwriteRefines ==
  ASSUME OneMovesTail, IInv, IInv', FifoInv, Producer, ppc = "one_cas" \/ ppc' = "one_cas"
  PROVE  FifoInv' /\ [Abs!Next]_(Abs!vars)
<1>t. TypeOK /\ ProducerInv /\ ProducerRuns /\ TypeOK' /\ ProducerInv'
  BY DEF IInv, Producer
<1>1. OneCas \/ OneStore
  BY DEF Producer, PushOne, Push, ProducerStep, OneLoad, PushReturn, OneCopy, BlkLoad, BlkCopy, BlkStore
<1>2. Overwrite /\ cpc = "idle" /\ UNCHANGED cvars
  <2>1. Overwrite
    BY <1>t DEF ProducerInv
  <2> QED BY <1>1, <1>t, <2>1 DEF OneMovesTail, ProducerRuns, OneCas, OneStore
<1>3. cpc' = "idle" /\ Held = <<>> /\ Held' = <<>> /\ ~Discards'
  BY <1>2 DEF cvars, Held, Discards
<1>s. /\ tail \in Slots /\ head \in Slots /\ buf \in [Slots -> Data] /\ p_todo \in Seq(Values)
      /\ Inc(tail) \in Slots /\ Inc(head) \in Slots
  BY <1>t, IncIsNextTail DEF TypeOK, Data
<1>4. CASE OneCas
  <2>1. tail = p_tail /\ tail' = Inc(tail) /\ UNCHANGED <<head, buf, p_todo>> /\ ppc' = AfterOne(p_todo)
    BY <1>4, <1>t DEF OneCas, ProducerInv
  <2>2. ppc = "one_cas" /\ ppc' \in {"idle", "one_load"} /\ (ppc' = "idle" => p_todo' = <<>>)
    BY <1>4, <2>1 DEF OneCas, AfterOne
  <2>3. Contents = [i \in 1..((head - Inc(tail)) % N) |-> buf[(Inc(tail) + i - 1) % N]]
    BY <1>2, <2>1, <2>2 DEF Contents
  <2>4. Contents' = [i \in 1..((head' - tail') % N) |-> buf'[(tail' + i - 1) % N]]
    BY <1>3, <2>2 DEF Contents
  <2>5. Contents' = Contents
    BY <2>1, <2>3, <2>4
  <2> QED BY <1>3, <2>1, <2>2, <2>5 DEF FifoInv, Discards, Abs!vars
<1>5. CASE OneStore
  <2>1. /\ p_head = head /\ p_tail = tail /\ p_todo # <<>> /\ buf[head] = p_todo[1]
    BY <1>2, <1>5, <1>t DEF OneStore, ProducerInv, Loaded, FifoInv
  <2>2. /\ ppc = "one_store" /\ ppc' = "one_cas" /\ UNCHANGED <<tail, buf>> /\ head' = Inc(head)
        /\ p_todo' = Tail(p_todo)
    BY <1>5, <2>1 DEF OneStore
  <2>3. Inc(head) = tail /\ p_tail' = p_tail
    BY <1>5, <2>1, <2>2 DEF OneStore, AfterOne
  <2> DEFINE t == Inc(tail)
  <2>4. /\ Count(tail, head) = N - 1 /\ Count(t, head) = N - 2 /\ Count(t, tail) = N - 1
        /\ head + 1 <= N /\ tail + 1 <= N /\ NextTail(tail, 1) = t /\ t \in Slots
    BY <1>s, <2>3, NAssumption, IncIsNextTail DEF Inc, Count, Slots
  <2>5. Contents = View(buf, tail, head)
    <3>1. Contents = [i \in 1..((head - tail) % N) |-> buf[(tail + i - 1) % N]]
      BY <1>2, <2>2 DEF Contents
    <3> QED BY <1>s, <3>1, ContentsAreView
  <2>6. Contents' = View(buf, t, tail)
    <3>1. Contents' = [i \in 1..((head' - t) % N) |-> buf'[(t + i - 1) % N]]
      BY <1>3, <2>1, <2>2, <2>3 DEF Contents
    <3>2. head' = tail
      BY <2>2, <2>3
    <3> HIDE DEF t
    <3>3. [i \in 1..((tail - t) % N) |-> buf[(t + i - 1) % N]] = View(buf, t, tail)
      BY <1>s, <2>4, ContentsAreView
    <3> QED BY <2>2, <3>1, <3>2, <3>3
  <2> HIDE DEF t
  <2> DEFINE v == View(buf, t, head)  x == Run(buf, tail, 1)  y == Run(buf, head, 1)
  <2>7. x \o v = View(buf, tail, head)
    <3>1. 1 \in 1..Count(tail, head)
      BY <2>4, NAssumption
    <3> QED BY <1>s, <2>4, <3>1, ViewShrinks
  <2>8. View(buf, t, tail) = v \o y
    <3>1. Count(t, tail) = Count(t, head) + 1
      BY <2>4, NAssumption
    <3>2. 1 \in Nat /\ head + 1 <= N /\ t \in Slots
      BY <2>4
    <3>3. View(buf, t, tail) = View(buf, t, head) \o Run(buf, head, 1)
      BY SMTT(30), <1>s, <3>1, <3>2, ViewGrows
    <3> QED BY <3>3
  <2>9. x \in Seq(Data) /\ Len(x) = 1 /\ y \in Seq(Data) /\ Len(y) = 1 /\ y[1] = buf[head + 1 - 1]
    <3>1. 1 \in Nat /\ 1 \in 1..1
      OBVIOUS
    <3>2. /\ Run(buf, tail, 1) \in Seq(Data) /\ Len(Run(buf, tail, 1)) = 1
      BY <1>s, <2>4, <3>1, RunIsSeq
    <3>3. /\ Run(buf, head, 1) \in Seq(Data) /\ Len(Run(buf, head, 1)) = 1
          /\ Run(buf, head, 1)[1] = buf[head + 1 - 1]
      BY <1>s, <2>4, <3>1, RunIsSeq
    <3> QED BY <3>2, <3>3
  <2>10. v \in Seq(Data) /\ Len(View(buf, tail, head)) = N - 1
    BY <1>s, <2>4, ViewIsSeq
  <2> HIDE DEF v, x, y
  <2>11. Tail(View(buf, tail, head)) = v
    BY <2>7, <2>9, <2>10, OneBefore
  <2>12. y = <<Head(p_todo)>>
    <3>1. head + 1 - 1 = head /\ Head(p_todo) = p_todo[1]
      BY <1>s, <2>1 DEF Slots
    <3> QED BY <2>1, <2>9, <3>1
  <2>13. Contents' = Append(Tail(Contents), Head(p_todo))
    <3>1. v \o <<Head(p_todo)>> = Append(v, Head(p_todo))
      BY <2>9, <2>10, <2>12
    <3> QED BY <2>5, <2>6, <2>8, <2>11, <2>12, <3>1
  <2>14. Abs!Replace
    BY <1>2, <1>3, <2>1, <2>2, <2>5, <2>10, <2>13 DEF Abs!Replace
  <2> QED BY <1>3, <2>2, <2>14 DEF FifoInv, Abs!Next
<1> QED BY <1>1, <1>4, <1>5


\* The front of what the consumer has copied is the front of the queue.
LEMMA FrontIsRun ==
  ASSUME NEW b \in [Slots -> Data], NEW t \in Slots, NEW d \in Seq(Data), NEW k \in Nat,
         k <= Len(d), t + Len(d) <= N, \A i \in 1..Len(d) : d[i] = b[t + i - 1]
  PROVE  SubSeq(d, 1, k) = Run(b, t, k)
<1>1. /\ SubSeq(d, 1, k) \in Seq(Data) /\ Len(SubSeq(d, 1, k)) = k
      /\ \A i \in 1..k : SubSeq(d, 1, k)[i] = d[i]
  OBVIOUS
<1>2. /\ Run(b, t, k) \in Seq(Data) /\ Len(Run(b, t, k)) = k
      /\ \A i \in 1..k : Run(b, t, k)[i] = b[t + i - 1]
  <2>1. t + k <= N
    BY NAssumption DEF Slots
  <2> QED BY <2>1, RunIsSeq
<1>3. ASSUME NEW i \in 1..k PROVE SubSeq(d, 1, k)[i] = Run(b, t, k)[i]
  <2>1. i \in 1..Len(d)
    OBVIOUS
  <2>2. d[i] = b[t + i - 1]
    BY <2>1
  <2>3. SubSeq(d, 1, k)[i] = d[i]
    BY <1>1
  <2>4. Run(b, t, k)[i] = b[t + i - 1]
    BY <1>2
  <2> QED BY <2>2, <2>3, <2>4
<1> QED BY <1>1, <1>2, <1>3, SeqEqual

\* From its copy to the store of the tail a consumer has the oldest elements in hand.
InHand == cpc \in {"pop1_store", "pop_store", "drop_store"}

\* A consumer's step is a step of the queue, or none.
LEMMA ConsumerRefines ==
  ASSUME OneMovesTail, IInv, IInv', DataInv, DataInv', FifoInv, Consumer
  PROVE  FifoInv' /\ [Abs!Next]_(Abs!vars)
<1>t. TypeOK /\ ConsumerInv /\ SerialInv /\ ConsumerRuns /\ TypeOK' /\ ConsumerInv'
  BY DEF IInv, Consumer
<1>u. UNCHANGED <<pvars, buf>> /\ (head' = head \/ FlushHead)
  BY DEF Consumer, PopOne, Pop, Peek, FlushTail, ConsumerStep, OneHead, PopOneRead,
     PeekOneRead, OneTailStore, CountTail, LoopHead, LoopTail, PopRead, ChunkStore, PeekTail,
     PeekUse, Discard, FlushHead, shared
<1>v. UNCHANGED <<buf, ppc, p_head, p_tail, p_copy, p_todo>>
  BY <1>u DEF pvars
<1>p. ppc # "one_cas" /\ ppc' # "one_cas"
  BY <1>t, <1>v DEF OneMovesTail, ConsumerRuns, IInv, ProducerInv
<1>d. /\ ppc' = "idle" => p_todo' = <<>>
      /\ ppc' = "one_store" => buf'[p_head'] = p_todo'[1]
      /\ ppc' = "blk_store" => \A i \in 1..p_copy' : buf'[p_head' + i - 1] = p_todo'[i]
  BY <1>v DEF FifoInv
<1>s. /\ tail \in Slots /\ head \in Slots /\ tail' \in Slots /\ head' \in Slots /\ c_head \in Slots
      /\ buf \in [Slots -> Data] /\ c_data \in Seq(Data) /\ c_data' \in Seq(Data)
      /\ Len(c_data) \in Nat /\ c_want \in Nat /\ c_chunk \in Nat /\ c_chunk' \in Nat
      /\ Count(tail, head) \in 0..(N - 1)
  <2>1. /\ tail \in Slots /\ head \in Slots /\ tail' \in Slots /\ head' \in Slots /\ c_head \in Slots
        /\ buf \in [Slots -> Data] /\ c_data \in Seq(Data) /\ c_data' \in Seq(Data)
        /\ Len(c_data) \in Nat /\ c_want \in Nat /\ c_chunk \in Nat /\ c_chunk' \in Nat
    BY <1>t, NAssumption DEF TypeOK, Data
  <2> QED BY <2>1, CountRange
<1>q. cpc # "flush_head" => Contents = View(buf, tail, head)
  <2>1. cpc # "flush_head" => Contents = [i \in 1..((head - tail) % N) |-> buf[(tail + i - 1) % N]]
    BY <1>p DEF Contents
  <2> QED BY <1>s, <2>1, ContentsAreView
<1>r. cpc' # "flush_head" => Contents' = View(buf, tail', head')
  <2>1. cpc' # "flush_head" => Contents' = [i \in 1..((head' - tail') % N) |-> buf'[(tail' + i - 1) % N]]
    BY <1>p DEF Contents
  <2> QED BY <1>s, <1>v, <2>1, ContentsAreView
<1>l. Len(View(buf, tail, head)) = Count(tail, head)
  BY <1>s, ViewIsSeq
<1>e. ~InHand => Held = <<>>
  BY DEF Held, InHand
<1>f. ~InHand' => Held' = <<>>
  BY DEF Held, InHand
\* Steps between two calls or loads.
<1>w. UNCHANGED <<tail, head>> /\ cpc # "flush_head" /\ cpc' # "flush_head" /\ ~InHand /\ ~InHand'
        => [Abs!Next]_(Abs!vars)
  BY <1>e, <1>f, <1>q, <1>r, <1>v DEF Abs!vars
\* A copy from the slots.
<1>x. ASSUME UNCHANGED <<tail, head>>, cpc # "flush_head", ~InHand, InHand', c_chunk' <= Len(c_data')
      PROVE  [Abs!Next]_(Abs!vars)
  <2>1. cpc' # "flush_head" /\ Contents = View(buf, tail, head) /\ Contents' = Contents
    BY <1>q, <1>r, <1>x DEF InHand
  <2>2. c_chunk' \in 1..Count(tail, head) /\ tail + c_chunk' <= N
    <3>1. HasTail' /\ HasChunk'
      BY <1>x DEF HasTail, HasChunk, InHand
    <3>2. c_tail' = tail' /\ 0 < c_chunk' /\ c_chunk' <= Count(tail', head') /\ c_tail' + c_chunk' <= N
      BY <1>t, <3>1 DEF ConsumerInv
    <3> QED BY <1>s, <1>x, <3>2
  <2>3. /\ tail + Len(c_data') <= N
        /\ \A i \in 1..Len(c_data') : c_data'[i] = buf[tail + i - 1]
    BY <1>v, <1>x DEF DataInv, HasData, InHand
  <2>4. Held' = SubSeq(c_data', 1, c_chunk')
    BY <1>x DEF Held, InHand
  <2>5. SubSeq(c_data', 1, c_chunk') = Run(buf, tail, c_chunk')
    BY <1>s, <1>x, <2>3, FrontIsRun
  <2>6. Run(buf, tail, c_chunk') = SubSeq(View(buf, tail, head), 1, c_chunk')
    BY <1>s, <2>2, ViewShrinks
  <2>7. c_chunk' \in 1..Len(Contents)
    BY <1>l, <2>1, <2>2
  <2>8. Abs!Read
    BY <1>e, <1>v, <1>x, <2>1, <2>4, <2>5, <2>6, <2>7 DEF Abs!Read
  <2> QED BY <2>8 DEF Abs!Next
\* A store of the tail.
<1>y. ASSUME InHand, ~InHand', cpc' # "flush_head", head' = head, tail' = NextTail(tail, c_chunk),
             c_chunk <= Len(c_data)
      PROVE  [Abs!Next]_(Abs!vars)
  <2>1. Contents = View(buf, tail, head) /\ Contents' = View(buf, NextTail(tail, c_chunk), head)
    BY <1>q, <1>r, <1>y DEF InHand
  <2>2. c_chunk \in 1..Count(tail, head) /\ tail + c_chunk <= N
    <3>1. HasTail /\ HasChunk
      BY <1>y DEF HasTail, HasChunk, InHand
    <3>2. c_tail = tail /\ 0 < c_chunk /\ c_chunk <= Count(tail, head) /\ c_tail + c_chunk <= N
      BY <1>t, <3>1 DEF ConsumerInv
    <3> QED BY <1>s, <3>2
  <2>3. /\ tail + Len(c_data) <= N
        /\ \A i \in 1..Len(c_data) : c_data[i] = buf[tail + i - 1]
    BY <1>y DEF DataInv, HasData, InHand
  <2>4. Held = SubSeq(c_data, 1, c_chunk)
    BY <1>y DEF Held, InHand
  <2>5. SubSeq(c_data, 1, c_chunk) = Run(buf, tail, c_chunk)
    BY <1>s, <1>y, <2>3, FrontIsRun
  <2>6. Run(buf, tail, c_chunk) \o View(buf, NextTail(tail, c_chunk), head) = View(buf, tail, head)
    BY <1>s, <2>2, ViewShrinks
  <2>7. Held # <<>>
    BY <1>s, <1>y, <2>2, <2>4
  <2>8. Held \o Contents' = Contents
    BY <2>1, <2>4, <2>5, <2>6
  <2>9. Abs!Remove
    BY <1>f, <1>v, <1>y, <2>7, <2>8 DEF Abs!Remove
  <2> QED BY <2>9 DEF Abs!Next
<1>1. CASE \/ \E pc \in {"pop1_head", "peek1_head"} : PopOne(pc)
           \/ \E n \in 1..MaxLen : Pop(n)
           \/ Peek \/ OneHead \/ PeekOneRead \/ PeekTail
  <2>1. /\ UNCHANGED <<tail, head>> /\ ~InHand /\ ~InHand' /\ cpc # "flush_head" /\ cpc' # "flush_head"
        /\ ~Discards'
    BY <1>1 DEF PopOne, Pop, Peek, OneHead, PeekOneRead, PeekTail, ConsumerReturn, shared, InHand, Discards
  <2> QED BY <1>d, <1>w, <2>1 DEF FifoInv, Discards
<1>2. CASE FlushTail
  <2>1. /\ cpc = "idle" /\ cpc' = "flush_head" /\ Mode = "serial"
    BY <1>2 DEF FlushTail
  <2>2. Contents' = <<>> /\ Held' = Held
    BY <1>e, <1>f, <2>1 DEF Contents, InHand
  <2>3. Abs!Flush
    BY <1>v, <2>1, <2>2 DEF Abs!Flush
  <2> QED BY <1>d, <2>1, <2>3 DEF FifoInv, Discards, Abs!Next
<1>3. CASE PopOneRead
  <2>1. /\ UNCHANGED <<tail, head, c_chunk>> /\ ~InHand /\ InHand' /\ cpc # "flush_head" /\ ~Discards'
        /\ cpc' = "pop1_store" /\ cpc = "pop1_read"
    BY <1>3 DEF PopOneRead, shared, InHand, Discards
  <2>2. c_chunk' = 1 /\ Len(c_data') = 1
    BY <1>t, <2>1 DEF ConsumerInv, DataInv
  <2> QED BY <1>d, <1>x, <2>1, <2>2 DEF FifoInv, Discards
<1>4. CASE OneTailStore
  <2>1. /\ cpc = "pop1_store" /\ cpc' = "idle" /\ tail' = Inc(c_tail) /\ head' = head
    BY <1>4 DEF OneTailStore, ConsumerReturn
  <2>2. c_tail = tail /\ c_chunk = 1 /\ Len(c_data) = 1
    BY <1>t, <2>1 DEF ConsumerInv, HasTail, DataInv
  <2>3. tail' = NextTail(tail, c_chunk)
    BY <1>s, <2>1, <2>2, IncIsNextTail
  <2> QED BY <1>d, <1>y, <2>1, <2>2, <2>3 DEF FifoInv, Discards, InHand
<1>5. CASE CountTail
  <2>1. /\ UNCHANGED <<tail, head, c_data>> /\ ~InHand /\ ~InHand' /\ cpc # "flush_head" /\ cpc' # "flush_head"
        /\ cpc' # "drop_count" /\ (Discards' => cpc = "drop_count")
        /\ c_want' = IF c_want > Count(tail, c_head) THEN Count(tail, c_head) ELSE c_want
    BY <1>5 DEF CountTail, shared, InHand, Discards
  <2>2. Count(tail, c_head) \in 0..(N - 1)
    BY <1>s, CountRange
  <2>3. cpc = "drop_count" => c_want = Len(c_data) /\ Len(c_data) <= Count(tail, c_head)
    BY DEF FifoInv, Discards
  <2>4. Discards' => c_want' = Len(c_data')
    BY <1>s, <2>1, <2>2, <2>3, NAssumption
  <2> QED BY <1>d, <1>w, <2>1, <2>4 DEF FifoInv
<1>6. CASE LoopHead
  <2>1. /\ UNCHANGED <<tail, head>> /\ ~InHand /\ ~InHand' /\ cpc # "flush_head" /\ cpc' # "flush_head"
        /\ cpc' # "drop_count" /\ (Discards' => Discards /\ UNCHANGED <<c_want, c_data>>)
    BY <1>6 DEF LoopHead, ConsumerReturn, shared, InHand, Discards
  <2> QED BY <1>d, <1>w, <2>1 DEF FifoInv
<1>7. CASE LoopTail
  <2>1. /\ UNCHANGED <<tail, head>> /\ ~InHand /\ cpc # "flush_head" /\ cpc' # "flush_head"
        /\ cpc' # "drop_count" /\ (Discards' => Discards /\ UNCHANGED <<c_want, c_data>>)
        /\ InHand' => Discards'
    BY <1>7 DEF LoopTail, ConsumerReturn, shared, InHand, Discards
  <2>2. Discards' => c_want' = Len(c_data')
    BY <2>1 DEF FifoInv
  <2>3. ASSUME InHand' PROVE c_chunk' <= Len(c_data')
    <3>1. cpc' = "drop_store"
      BY <1>7, <2>3 DEF LoopTail, ConsumerReturn, InHand
    <3>2. c_chunk' <= c_want'
      BY <1>t, <3>1 DEF ConsumerInv
    <3>3. c_want' = Len(c_data')
      BY <2>1, <2>2, <2>3
    <3> QED BY <3>2, <3>3
  <2> QED BY <1>d, <1>w, <1>x, <2>1, <2>2, <2>3 DEF FifoInv
<1>8. CASE PopRead
  <2>1. /\ UNCHANGED <<tail, head>> /\ ~InHand /\ InHand' /\ cpc # "flush_head" /\ ~Discards'
        /\ cpc' = "pop_store"
    BY <1>8 DEF PopRead, shared, InHand, Discards
  <2>2. c_chunk' <= Len(c_data')
    BY <1>s, <2>1 DEF DataInv
  <2> QED BY <1>d, <1>x, <2>1, <2>2 DEF FifoInv, Discards
<1>9. CASE ChunkStore
  <2>1. /\ InHand /\ ~InHand' /\ cpc' # "flush_head" /\ cpc' # "drop_count" /\ head' = head
        /\ tail' = NextTail(c_tail, c_chunk) /\ (Discards' => Discards)
        /\ c_data' = SubSeq(c_data, c_chunk + 1, Len(c_data)) /\ c_want' = c_want - c_chunk
        /\ cpc \in {"pop_store", "drop_store"}
    BY <1>9 DEF ChunkStore, InHand, Discards
  <2>2. c_tail = tail /\ c_chunk <= c_want /\ c_chunk \in Nat
    BY <1>s, <1>t, <2>1 DEF ConsumerInv, HasTail
  <2>3. c_chunk <= Len(c_data)
    BY <1>s, <2>1, <2>2 DEF DataInv, FifoInv, Discards
  <2>4. Len(c_data') = Len(c_data) - c_chunk
    BY <1>s, <2>1, <2>2, <2>3
  <2>5. Discards' => c_want' = Len(c_data')
    BY <2>1, <2>4 DEF FifoInv
  <2> QED BY <1>d, <1>y, <2>1, <2>2, <2>3, <2>5 DEF FifoInv
<1>10. CASE PeekUse
  <2>1. /\ UNCHANGED <<tail, head>> /\ ~InHand /\ ~InHand' /\ cpc # "flush_head" /\ cpc' = "peeked"
        /\ c_want' = c_chunk /\ c_data' = Elements(c_tail, c_chunk)
    BY <1>10 DEF PeekUse, shared, InHand
  <2>2. Len(c_data') = c_chunk
    BY <1>s, <2>1 DEF Elements
  <2> QED BY <1>d, <1>w, <2>1, <2>2 DEF FifoInv
<1>11. CASE Discard
  <2>1. /\ UNCHANGED <<tail, head, c_want, c_data>> /\ ~InHand /\ ~InHand' /\ cpc = "peeked" /\ cpc' = "drop_count"
        /\ c_head' = head
    BY <1>11 DEF Discard, shared, InHand
  <2>2. c_want = Len(c_data) /\ Len(c_data) <= Count(tail, head)
    BY <2>1 DEF FifoInv, Discards, DataInv, HasData
  <2> QED BY <1>d, <1>w, <2>1, <2>2 DEF FifoInv
<1>12. CASE FlushHead
  <2>1. cpc = "flush_head" /\ cpc' = "idle" /\ head' = 0 /\ tail' = tail /\ tail = 0
    BY <1>12, <1>t DEF FlushHead, SerialInv
  <2>2. Contents = <<>> /\ Contents' = View(buf, 0, 0)
    BY <1>r, <2>1 DEF Contents
  <2>3. Count(0, 0) = 0
    BY NAssumption DEF Count
  <2>4. View(buf, 0, 0) = <<>>
    <3>1. Len(View(buf, 0, 0)) = 0 /\ View(buf, 0, 0) \in Seq(Data)
      BY <1>s, <2>1, <2>3, ViewIsSeq
    <3> QED BY <3>1, EmptySeq
  <2>5. Held' = Held
    BY <1>e, <1>f, <2>1 DEF InHand
  <2>6. [Abs!Next]_(Abs!vars)
    BY <1>v, <2>2, <2>4, <2>5 DEF Abs!vars
  <2> QED BY <1>d, <2>1, <2>6 DEF FifoInv, Discards
<1> QED BY <1>1, <1>2, <1>3, <1>4, <1>5, <1>6, <1>7, <1>8, <1>9, <1>10, <1>11, <1>12 DEF Consumer, ConsumerStep

\* The empty ring is an empty queue.
LEMMA FifoStarts ==
  ASSUME Init
  PROVE  DataInv /\ FifoInv /\ Abs!Init
<1>1. DataInv /\ FifoInv
  BY DEF Init, DataInv, HasData, FifoInv, Discards
<1>2. 0 \in Slots /\ Count(0, 0) = 0 /\ buf \in [Slots -> Data] /\ ppc # "one_cas"
  BY NAssumption DEF Init, Slots, Count, Data
<1>3. Contents = [i \in 1..((head - tail) % N) |-> buf[(tail + i - 1) % N]]
  BY DEF Init, Contents
<1>4. [i \in 1..((0 - 0) % N) |-> buf[(0 + i - 1) % N]] = View(buf, 0, 0)
  BY <1>2, ContentsAreView
<1>5. Contents = View(buf, 0, 0)
  BY <1>3, <1>4 DEF Init
<1>6. Len(View(buf, 0, 0)) = 0 /\ View(buf, 0, 0) \in Seq(Data)
  BY <1>2, ViewIsSeq
<1>7. View(buf, 0, 0) = <<>>
  BY <1>6, EmptySeq
<1> QED BY <1>1, <1>5, <1>7 DEF Init, Abs!Init, Held

\* Every step is one of the queue, or none.
LEMMA FifoSteps ==
  ASSUME OneMovesTail, IInv, IInv', DataInv, FifoInv, [Next]_vars
  PROVE  DataInv' /\ FifoInv' /\ [Abs!Next]_(Abs!vars)
<1>1. CASE UNCHANGED vars
  <2>1. DataInv'
    BY <1>1 DEF vars, shared, cvars, DataInv, HasData
  <2>2. FifoInv'
    BY <1>1 DEF vars, shared, pvars, cvars, FifoInv, Discards
  <2>3. UNCHANGED Abs!vars
    BY <1>1 DEF vars, shared, pvars, cvars, Abs!vars, Contents, Held
  <2> QED BY <2>1, <2>2, <2>3
<1>2. CASE Producer
  BY <1>2, ProducerKeepsData, ProducerRefines, OverwriteRefines
<1>3. CASE Consumer
  <2>1. DataInv'
    BY <1>3, ConsumerKeepsData
  <2> QED BY <1>3, <2>1, ConsumerRefines
<1> QED BY <1>1, <1>2, <1>3 DEF Next

\* Whatever the size of the ring and the length of the blocks, however the two sides cut
\* in on each other: what isr_queue.c does to its ring is what a queue of N - 1 elements
\* does, nothing lost, repeated, reordered, or refused while there is room; and when one
\* task overwrites its own queue, only its oldest elements go.
THEOREM Implementation == ASSUME OneMovesTail PROVE Spec => ImplementsFifo
<1>1. Init => DataInv /\ FifoInv /\ Abs!Init
  BY FifoStarts
<1>2. IInv /\ IInv' /\ DataInv /\ FifoInv /\ [Next]_vars => DataInv' /\ FifoInv' /\ [Abs!Next]_(Abs!vars)
  BY FifoSteps
<1> QED BY Invariance, <1>1, <1>2, PTL DEF Spec, ImplementsFifo, Abs!Spec

\* A pop of such a queue takes one element, the one it returns: it needs overwriting pushes
\* on the other side for more to be lost.
THEOREM PopsTakeOne == ASSUME OneMovesTail PROVE Spec => PopTakesOneAtMost
<1>1. IInv /\ IInv' => (OneTailStore => Len(Contents') >= Len(Contents) - 1)
  <2> SUFFICES ASSUME IInv, IInv', OneTailStore
               PROVE  Len(Contents') >= Len(Contents) - 1
    OBVIOUS
  <2>1. /\ cpc = "pop1_store" /\ cpc' = "idle" /\ tail' = Inc(c_tail)
        /\ UNCHANGED <<head, buf, ppc>>
    BY DEF OneTailStore, ConsumerReturn, pvars
  <2>2. ppc # "one_cas" /\ c_tail = tail /\ c_chunk = 1 /\ tail \in Slots /\ head \in Slots
        /\ buf \in [Slots -> Data] /\ tail + c_chunk <= N /\ c_chunk <= Count(tail, head)
    BY <2>1, NotOverwriting DEF IInv, TypeOK, ConsumerInv, HasTail, HasChunk, Data
  <2>3. NextTail(tail, 1) \in Slots /\ Count(NextTail(tail, 1), head) = Count(tail, head) - 1
    <3>1. 1 \in 1..Count(tail, head)
      BY <2>2, CountRange, NAssumption
    <3> QED BY <2>2, <3>1, TailMoves
  <2>4. tail' = NextTail(tail, 1)
    BY <2>1, <2>2, IncIsNextTail
  <2>5. Contents = [i \in 1..((head - tail) % N) |-> buf[(tail + i - 1) % N]]
    BY <2>1, <2>2 DEF Contents
  <2>6. Contents' = [i \in 1..((head' - tail') % N) |-> buf'[(tail' + i - 1) % N]]
    BY <2>1, <2>2 DEF Contents
  <2>7. Contents = View(buf, tail, head) /\ Len(View(buf, tail, head)) = Count(tail, head)
    BY <2>2, <2>5, ContentsAreView, ViewIsSeq
  <2> DEFINE t == NextTail(tail, 1)
  <2>8. [i \in 1..((head - t) % N) |-> buf[(t + i - 1) % N]] = View(buf, t, head)
    BY <2>2, <2>3, ContentsAreView
  <2>9. Len(View(buf, t, head)) = Count(t, head)
    BY <2>2, <2>3, ViewIsSeq
  <2>10. Contents' = View(buf, t, head)
    BY <2>1, <2>4, <2>6, <2>8
  <2>11. Count(tail, head) \in Nat
    BY <2>2, CountRange, NAssumption
  <2> QED BY <2>3, <2>7, <2>9, <2>10, <2>11
<1> QED BY Invariance, <1>1, PTL DEF PopTakesOneAtMost
=============================================================================
