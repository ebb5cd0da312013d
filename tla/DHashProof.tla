------------------------------ MODULE DHashProof ------------------------------
(***************************************************************************)
(* The hash table is a map, for every set of keys, hash function, sequence *)
(* of sizes and probe limit: the properties that TLC checks of DHash on    *)
(* small tables, proved from one inductive invariant.                      *)
(*                                                                         *)
(* The invariant says of the buckets that each live entry sits on its      *)
(* probe sequence behind counts that let a search through, that keys       *)
(* differ, and that used_buckets counts the live entries; and of the loop  *)
(* under way that the bucket looked at is on the sequence of its key, that *)
(* this key is in none of the buckets passed, and that there is room.      *)
(* Counts only ever grow while the table keeps its size, even under a      *)
(* removal: so what can be reached stays so.                               *)
(***************************************************************************)
EXTENDS DHash, FiniteSetTheorems, TLAPS

\* A key with its value; the buckets that hold a key, or are to be copied with it.
Items == [key : Keys, val : Values]
Holds(i, k) == Live(bkt[i]) /\ bkt[i].key = k
Waits(j, k) == Live(old[j]) /\ old[j].key = k
LiveBuckets == {i \in Buckets : Live(bkt[i])}

\* The buckets, whatever loop is at work on them.
TableTypes == /\ level \in DOMAIN Sizes /\ bkt \in [Buckets -> Entries]
              /\ old \in Seq(Entries) /\ answer \in Values \union {None}
\* A live entry is a key with its value; any other bucket has no key.
EntriesAreItems ==
  /\ \A i \in Buckets : IF Live(bkt[i]) THEN bkt[i].key \in Keys /\ bkt[i].val \in Values
                        ELSE bkt[i].key = None
  /\ \A i \in Buckets : bkt[i].deleted => InUse(bkt[i])
  /\ \A j \in DOMAIN old : Live(old[j]) => old[j].key \in Keys /\ old[j].val \in Values
\* The Robin Hood order.
LiveAreReached ==
  \A i \in Buckets : Live(bkt[i]) => /\ i = Path(bkt[i].key, bkt[i].count)
                                     /\ ReachedAt(bkt[i].key, bkt[i].count)
KeysDiffer ==
  /\ \A i, j \in Buckets : Live(bkt[i]) /\ Holds(j, bkt[i].key) => i = j
  /\ \A i, j \in DOMAIN old : Live(old[i]) /\ Waits(j, old[i].key) => i = j
  /\ \A i \in Buckets : \A j \in DOMAIN old : Live(bkt[i]) => ~Waits(j, bkt[i].key)
UsedIsCounted == /\ used = Cardinality(LiveBuckets)
                 /\ used <= MaxLoad(Size)
                 /\ IsFiniteSet(Uncopied)
TableInv == TableTypes /\ EntriesAreItems /\ LiveAreReached /\ KeysDiffer /\ UsedIsCounted

\* The loop.
LoopTypes ==
  /\ pc \in {"idle", "find", "insert", "grow", "regrow"}
  /\ op \in {"none", "insert", "lookup", "remove"}
  /\ arg \in Pairs /\ hand \in Pairs
  /\ b \in Buckets /\ probes \in 0..MaxProbe /\ placed \in BOOLEAN
\* What a call has set up for its loop.
CallIsKept ==
  /\ pc = "idle" => op = "none" /\ arg = Nothing
  /\ pc = "find" => op \in {"lookup", "remove"} /\ arg.key \in Keys /\ arg.val = None
  /\ pc \in {"insert", "grow", "regrow"} => op = "insert" /\ arg \in Items
  /\ Inserting => hand \in Items
  /\ Inserting \/ pc = "find" => probes >= 1
  /\ pc = "regrow" => placed
  /\ placed => Inserting
  /\ pc = "insert" /\ ~placed => hand = arg
  /\ pc \notin {"grow", "regrow"} => old = <<>>
  /\ pc \in {"idle", "grow"} => b = 0
\* The bucket looked at is where a search for the key gets to.
OnPath == /\ pc \in {"insert", "regrow"} => b = Path(hand.key, probes) /\ ReachedAt(hand.key, probes)
          /\ pc = "find" => b = Path(arg.key, probes) /\ ReachedAt(arg.key, probes)
\* The key of the call is in none of the buckets passed; one that was evicted or is
\* being copied is nowhere.
Searching == pc \in {"insert", "find"} /\ ~placed
HandIsNew ==
  /\ placed => /\ \A i \in Buckets : ~Holds(i, hand.key)
               /\ \A j \in DOMAIN old : ~Waits(j, hand.key)
  /\ Searching => \A d \in 1..(probes - 1) : ~Holds(Path(arg.key, d), arg.key)
  /\ pc = "insert" /\ placed => arg \in Stored \union {hand}
\* The load check that let an insertion start, or dh__grow's larger array, holds good.
RoomIsLeft ==
  /\ pc = "insert" => used < MaxLoad(Size)
  /\ pc = "regrow" => used + Cardinality(Uncopied) + 1 < MaxLoad(Size)
  /\ pc = "grow" /\ old # <<>> => used + Cardinality(Uncopied) < MaxLoad(Size)
LoopInv == LoopTypes /\ CallIsKept /\ OnPath /\ HandIsNew /\ RoomIsLeft

IInv == TableInv /\ LoopInv

\* No entry has come as far as MAX_PROBE_COUNT buckets from where its search starts.
WithinReach == probes < MaxProbe /\ \A i \in Buckets : bkt[i].count < MaxProbe

-----------------------------------------------------------------------------
(* Arithmetic of the bucket numbers. *)

\* Division with remainder.
LEMMA DivMod ==
  ASSUME NEW n \in Nat \ {0}, NEW x \in Nat
  PROVE  x \div n \in Nat /\ x % n \in 0..(n - 1) /\ x = (n * (x \div n)) + (x % n)
BY SMT

\* Multiples of n are n apart.
LEMMA Multiples ==
  ASSUME NEW n \in Nat \ {0}, NEW p \in Int, NEW q \in Int, p < q
  PROVE  (n * p) + n <= n * q
<1>1. n * (q - p - 1) >= 0
  <2>1. q - p - 1 \in Nat
    OBVIOUS
  <2> QED BY <2>1, SMT
<1>2. n * (q - p - 1) = (n * q) - (n * p) - n
  BY SMT
<1>3. n * q \in Int /\ n * p \in Int
  BY SMT
<1> QED BY <1>1, <1>2, <1>3, SMT

\* Quotient and remainder are unique.
LEMMA Remainder ==
  ASSUME NEW n \in Nat \ {0}, NEW q \in Nat, NEW r \in 0..(n - 1)
  PROVE  ((n * q) + r) % n = r
<1> DEFINE x == (n * q) + r
<1>1. n * q \in Nat
  BY SMT
<1>2. SUFFICES ASSUME NEW p \in Nat, NEW s \in 0..(n - 1), (n * q) + r = (n * p) + s
               PROVE  r = s
  BY <1>1, DivMod
<1>3. n * p \in Nat
  BY SMT
<1>4. (p < q => (n * p) + n <= n * q) /\ (q < p => (n * q) + n <= n * p)
  BY Multiples
<1>5. p = q
  BY <1>1, <1>2, <1>3, <1>4, SMT
<1> QED BY <1>1, <1>2, <1>5

\* The remainder of the next number, as next_bucket computes it.
LEMMA NextRemainder ==
  ASSUME NEW n \in Nat \ {0}, NEW x \in Nat
  PROVE  (x + 1) % n = IF (x % n) + 1 >= n THEN (x % n) + 1 - n ELSE (x % n) + 1
<1> DEFINE q == x \div n
           r == x % n
<1>1. q \in Nat /\ r \in 0..(n - 1) /\ x = (n * q) + r
  BY DivMod
<1>2. n * q \in Nat /\ n * (q + 1) = (n * q) + n
  BY <1>1, SMT
<1>3. CASE r + 1 >= n
  <2>1. r + 1 = n
    BY <1>1, <1>3
  <2>2. ((n * (q + 1)) + 0) % n = 0
    BY <1>1, Remainder
  <2>3. x + 1 = (n * (q + 1)) + 0
    BY <1>1, <1>2, <2>1
  <2> QED BY <2>1, <2>2, <2>3
<1>4. CASE ~(r + 1 >= n)
  <2>1. r + 1 \in 0..(n - 1)
    BY <1>1, <1>4
  <2>2. ((n * q) + (r + 1)) % n = r + 1
    BY <1>1, <2>1, Remainder
  <2>3. x + 1 = (n * q) + (r + 1)
    BY <1>1, <1>2
  <2> QED BY <1>4, <2>2, <2>3
<1> QED BY <1>3, <1>4

\* A load limit is below the size.
LEMMA LoadRange == ASSUME NEW n \in Nat PROVE MaxLoad(n) \in 0..n
BY SMT DEF MaxLoad

\* Every table has buckets.
LEMMA SizeType == ASSUME level \in DOMAIN Sizes
                  PROVE  Size \in Nat \ {0} /\ MaxLoad(Size) \in 0..Size
BY SizesAssumption, LoadRange DEF Size

\* The probe sequence of a key stays in the table, starts where dh__initial_probe
\* says, and goes on as next_bucket does.
LEMMA PathSteps ==
  ASSUME level \in DOMAIN Sizes, NEW k \in Keys
  PROVE  /\ FirstProbe(k, Size) = Path(k, 1)
         /\ \A d \in Nat \ {0} : Path(k, d) \in Buckets /\ NextBucket(Path(k, d)) = Path(k, d + 1)
<1>1. Size \in Nat \ {0} /\ Hash[k] \in Nat
  BY SizeType, HashAssumption
<1>2. FirstProbe(k, Size) = Path(k, 1)
  BY <1>1 DEF FirstProbe, Path
<1>3. ASSUME NEW d \in Nat \ {0}
      PROVE  Path(k, d) \in Buckets /\ NextBucket(Path(k, d)) = Path(k, d + 1)
  <2> DEFINE x == Hash[k] + d - 1
  <2>1. x \in Nat /\ x + 1 = Hash[k] + (d + 1) - 1
    BY <1>1
  <2>2. Path(k, d) = x % Size /\ Path(k, d + 1) = (x + 1) % Size
    BY <2>1 DEF Path
  <2> HIDE DEF x
  <2>3. x % Size \in 0..(Size - 1)
    BY <1>1, <2>1, DivMod
  <2>4. (x + 1) % Size = IF (x % Size) + 1 >= Size THEN (x % Size) + 1 - Size ELSE (x % Size) + 1
    BY <1>1, <2>1, NextRemainder
  <2> QED BY <2>2, <2>3, <2>4 DEF NextBucket, Buckets
<1> QED BY <1>2, <1>3

\* As long as the table keeps its size, so do the probe sequences.
LEMMA SameSize == ASSUME level' = level
                  PROVE  /\ Size' = Size /\ Buckets' = Buckets
                         /\ \A k, d : Path(k, d)' = Path(k, d)
BY DEF Size, Buckets, Path

-----------------------------------------------------------------------------
(* What is written to a bucket. *)

\* The parts of an entry are what its type says.
LEMMA EntryFields ==
  ASSUME NEW e \in Entries
  PROVE  /\ e.key \in Keys \union {None} /\ e.val \in Values \union {None}
         /\ e.count \in 0..MaxProbe /\ e.count \in Nat /\ e.deleted \in BOOLEAN
BY ProbeAssumption DEF Entries

\* Reached entries stay reached while probe counts in the table only grow.
LEMMA ReachedStays ==
  ASSUME level \in DOMAIN Sizes, level' = level, bkt \in [Buckets -> Entries], bkt' \in [Buckets -> Entries],
         \A i \in Buckets : bkt'[i].count >= bkt[i].count,
         NEW k \in Keys, NEW c \in Nat, ReachedAt(k, c)
  PROVE  \A d \in 1..(c - 1) : bkt'[Path(k, d)].count >= d
<1> TAKE d \in 1..(c - 1)
<1>1. Path(k, d) \in Buckets
  BY PathSteps
<1>2. bkt[Path(k, d)].count >= d
  BY DEF ReachedAt
<1>3. bkt[Path(k, d)].count \in Nat /\ bkt'[Path(k, d)].count \in Nat
  BY <1>1, EntryFields
<1> QED BY <1>1, <1>2, <1>3

\* One probe further, past a bucket whose count does not end the search.
LEMMA ReachedNext ==
  ASSUME NEW k \in Keys, NEW c \in Nat \ {0}, ReachedAt(k, c), bkt[Path(k, c)].count >= c
  PROVE  ReachedAt(k, c + 1)
BY DEF ReachedAt

\* A bucket that is not live may become so, or stop being so, one at a time.
LEMMA FiniteBuckets == ASSUME level \in DOMAIN Sizes PROVE IsFiniteSet(Buckets) /\ IsFiniteSet(LiveBuckets)
<1>1. IsFiniteSet(Buckets)
  BY SizeType, FS_Interval DEF Buckets
<1> QED BY <1>1, FS_Subset DEF LiveBuckets

\* No more than the live buckets is stored in them.
LEMMA StoredIsFinite ==
  ASSUME level \in DOMAIN Sizes
  PROVE  IsFiniteSet(Stored) /\ Cardinality(Stored) <= Cardinality(LiveBuckets)
<1> DEFINE f == [i \in LiveBuckets |-> [key |-> bkt[i].key, val |-> bkt[i].val]]
<1>1. f \in Surjection(LiveBuckets, Stored)
  BY DEF Surjection, Stored, LiveBuckets
<1> QED BY <1>1, FiniteBuckets, FS_Surjection

-----------------------------------------------------------------------------
(* dh__insert_ex writes the item in hand to a bucket. *)

Pair(e) == [key |-> e.key, val |-> e.val]

\* What is in a bucket, and in the hand.
LEMMA InsertingFacts ==
  ASSUME IInv, Inserting
  PROVE  /\ level \in DOMAIN Sizes /\ bkt \in [Buckets -> Entries] /\ b \in Buckets
         /\ bkt[b] \in Entries
         /\ hand \in Items /\ hand.key \in Keys /\ hand.val \in Values /\ hand.key # None
         /\ probes \in 1..MaxProbe /\ probes \in Nat
         /\ b = Path(hand.key, probes) /\ ReachedAt(hand.key, probes)
         /\ \A j \in DOMAIN old : ~Waits(j, hand.key)
<1> USE DEF IInv, TableInv, LoopInv
<1>1. /\ level \in DOMAIN Sizes /\ bkt \in [Buckets -> Entries] /\ b \in Buckets
      /\ bkt[b] \in Entries
  BY DEF TableTypes, LoopTypes
<1>2. hand \in Items /\ probes \in 1..MaxProbe /\ probes \in Nat
  BY ProbeAssumption DEF CallIsKept, LoopTypes
<1>3. hand.key \in Keys /\ hand.val \in Values /\ hand.key # None
  BY <1>2, NoneAssumption DEF Items
<1>4. b = Path(hand.key, probes) /\ ReachedAt(hand.key, probes)
  BY DEF OnPath, Inserting
<1>5. \A j \in DOMAIN old : ~Waits(j, hand.key)
  <2>1. CASE placed
    BY <2>1 DEF HandIsNew
  <2>2. CASE ~placed
    <3>1. old = <<>>
      BY <2>2 DEF CallIsKept, Inserting
    <3> QED BY <3>1
  <2> QED BY <2>1, <2>2
<1> QED BY <1>1, <1>2, <1>3, <1>4, <1>5

\* At a bucket that is free, or whose entry came less far, the key in hand is
\* nowhere in the table: beyond, the search for it would have ended here.
LEMMA HandIsNowhere ==
  ASSUME IInv, Inserting, InUse(bkt[b]) => ~Match(bkt[b], hand.key) /\ bkt[b].count < probes
  PROVE  \A i \in Buckets : ~Holds(i, hand.key)
<1>1. SUFFICES ASSUME ~placed, NEW i \in Buckets, Holds(i, hand.key) PROVE FALSE
  BY DEF IInv, LoopInv, HandIsNew
<1> DEFINE k == hand.key
           c == bkt[i].count
<1>2. hand = arg /\ Searching
  BY <1>1 DEF IInv, LoopInv, CallIsKept, Inserting, Searching
<1>3. bkt[i] \in Entries /\ c \in Nat \ {0} /\ c \in 1..MaxProbe
  BY <1>1, InsertingFacts, EntryFields DEF Holds, Live, InUse
<1>4. i = Path(k, c) /\ ReachedAt(k, c)
  BY <1>1 DEF IInv, TableInv, LiveAreReached, Holds
<1>5. c >= probes
  <2>1. \A d \in 1..(probes - 1) : ~Holds(Path(k, d), k)
    BY <1>2 DEF IInv, LoopInv, HandIsNew
  <2> HIDE DEF c, k
  <2> QED BY <1>1, <1>3, <1>4, <2>1, InsertingFacts DEF k
<1>6. c # probes
  <2> SUFFICES ASSUME c = probes PROVE FALSE
    OBVIOUS
  <2>1. i = b
    BY <1>4, InsertingFacts
  <2> QED BY <1>1, <2>1 DEF Holds, Live, Match
<1>7. bkt[b].count >= probes
  <2>1. probes \in 1..(c - 1)
    BY <1>3, <1>5, <1>6, InsertingFacts
  <2> QED BY <1>4, <2>1, InsertingFacts DEF ReachedAt
<1>8. bkt[b].count \in Nat
  BY InsertingFacts, EntryFields
<1> QED BY <1>7, <1>8, InsertingFacts DEF InUse

\* The bucket where the item in hand is written, at the n-th place of its probe
\* sequence, where no other bucket holds its key.
WritesHand(n) == /\ bkt' = [bkt EXCEPT ![b] = HandIn(n, FALSE)]
                 /\ UNCHANGED <<level, old, answer>>

\* There, whether it replaces the key's own entry, evicts another, or takes a free
\* place, the bucket array stays a Robin Hood table with the item in it.
LEMMA HandWritten ==
  ASSUME IInv, Inserting, NEW n \in 1..MaxProbe, WritesHand(n), bkt[b].count <= n,
         b = Path(hand.key, n), ReachedAt(hand.key, n),
         \A i \in Buckets \ {b} : ~Holds(i, hand.key)
  PROVE  /\ TableTypes' /\ EntriesAreItems' /\ LiveAreReached' /\ KeysDiffer'
         /\ LiveBuckets' = LiveBuckets \union {b}
         /\ Stored' = (IF Live(bkt[b]) THEN Stored \ {Pair(bkt[b])} ELSE Stored) \union {hand}
         /\ \A i \in Buckets : bkt'[i].count >= bkt[i].count
<1> DEFINE e == HandIn(n, FALSE)
<1>0. n \in Nat \ {0} /\ n \in 0..MaxProbe
  BY ProbeAssumption
<1>1. e \in Entries /\ e.key = hand.key /\ e.val = hand.val /\ e.count = n /\ e.deleted = FALSE
  BY <1>0, InsertingFacts DEF HandIn, Entries, Items
<1>2. Live(e) /\ Pair(e) = hand
  BY <1>0, <1>1, InsertingFacts DEF Live, InUse, Pair, Items
<1> HIDE DEF e
<1>3. /\ Buckets' = Buckets /\ level' = level /\ old' = old
      /\ bkt' \in [Buckets -> Entries]
      /\ \A i \in Buckets : bkt'[i] = IF i = b THEN e ELSE bkt[i]
  BY <1>1, InsertingFacts, SameSize DEF WritesHand, e
<1>4. TableTypes'
  BY <1>3 DEF IInv, TableInv, TableTypes, WritesHand
<1>5. EntriesAreItems'
  BY <1>1, <1>2, <1>3, InsertingFacts DEF IInv, TableInv, EntriesAreItems, Live, InUse
<1>6. \A i \in Buckets : bkt'[i].count >= bkt[i].count
  <2> TAKE i \in Buckets
  <2>1. bkt[i] \in Entries /\ bkt[i].count \in Nat
    BY InsertingFacts, EntryFields
  <2> QED BY <1>0, <1>1, <1>3, <2>1
<1>7. LiveAreReached'
  <2> SUFFICES ASSUME NEW i \in Buckets, Live(bkt'[i])
               PROVE  /\ i = Path(bkt'[i].key, bkt'[i].count)
                      /\ \A d \in 1..(bkt'[i].count - 1) : bkt'[Path(bkt'[i].key, d)].count >= d
    BY <1>3 DEF LiveAreReached, ReachedAt, Path, Size, Live, InUse
  <2>1. CASE i = b
    <3>1. \A d \in 1..(n - 1) : bkt'[Path(hand.key, d)].count >= d
      BY <1>0, <1>3, <1>6, InsertingFacts, ReachedStays
    <3> QED BY <2>1, <1>1, <1>3, <3>1
  <2>2. CASE i # b
    <3>1. bkt'[i] = bkt[i] /\ Live(bkt[i])
      BY <2>2, <1>3
    <3>2. bkt[i].key \in Keys /\ bkt[i].count \in Nat
      BY <3>1, InsertingFacts, EntryFields DEF IInv, TableInv, EntriesAreItems
    <3>3. i = Path(bkt[i].key, bkt[i].count) /\ ReachedAt(bkt[i].key, bkt[i].count)
      BY <3>1 DEF IInv, TableInv, LiveAreReached
    <3>4. \A d \in 1..(bkt[i].count - 1) : bkt'[Path(bkt[i].key, d)].count >= d
      BY <1>3, <1>6, <3>2, <3>3, InsertingFacts, ReachedStays
    <3> QED BY <3>1, <3>3, <3>4
  <2> QED BY <2>1, <2>2
<1>8. KeysDiffer'
  <2>1. \A i, j \in Buckets : Live(bkt'[i]) /\ Live(bkt'[j]) /\ bkt'[j].key = bkt'[i].key => i = j
    BY <1>1, <1>3 DEF IInv, TableInv, KeysDiffer, Holds
  <2>2. \A i \in Buckets : \A j \in DOMAIN old : Live(bkt'[i]) => ~Waits(j, bkt'[i].key)
    BY <1>1, <1>3, InsertingFacts DEF IInv, TableInv, KeysDiffer
  <2> QED BY <1>3, <2>1, <2>2 DEF IInv, TableInv, KeysDiffer, Holds, Waits, Live, InUse
<1>9. LiveBuckets' = LiveBuckets \union {b}
  BY <1>2, <1>3, InsertingFacts DEF LiveBuckets, Live, InUse
<1>10. Stored' = (IF Live(bkt[b]) THEN Stored \ {Pair(bkt[b])} ELSE Stored) \union {hand}
  <2>1. Stored' = {Pair(bkt'[i]) : i \in {j \in Buckets : Live(bkt'[j])}}
    BY <1>3 DEF Stored, Live, InUse, Pair
  <2>2. Stored = {Pair(bkt[i]) : i \in {j \in Buckets : Live(bkt[j])}}
    BY DEF Stored, Pair
  <2>3. \A i \in Buckets : i # b /\ Live(bkt[i]) /\ Live(bkt[b]) => Pair(bkt[i]) # Pair(bkt[b])
    BY InsertingFacts DEF IInv, TableInv, KeysDiffer, Holds, Pair
  <2> QED BY <1>2, <1>3, <2>1, <2>2, <2>3, InsertingFacts
<1> QED BY <1>4, <1>5, <1>6, <1>7, <1>8, <1>9, <1>10

-----------------------------------------------------------------------------
(* How a loop starts, and how it ends. *)

\* What the values of a call are when there is none.
LEMMA NothingType ==
  ASSUME level \in DOMAIN Sizes
  PROVE  Nothing \in Pairs /\ Items \subseteq Pairs /\ 0 \in Buckets /\ 0 \in 0..MaxProbe /\ 1 \in 0..MaxProbe
BY SizeType, ProbeAssumption DEF Nothing, Pairs, Items, Buckets

\* A search or an insertion starts on the path of its key.
LEMMA PathStarts ==
  ASSUME level \in DOMAIN Sizes, NEW k \in Keys
  PROVE  /\ FirstProbe(k, Size) \in Buckets /\ FirstProbe(k, Size) = Path(k, 1) /\ ReachedAt(k, 1)
BY PathSteps DEF ReachedAt

\* Between calls there is nothing to keep but the table.
LEMMA ReturnKeeps ==
  ASSUME TableInv', Return, old' = <<>>
  PROVE  LoopInv'
<1>1. LoopTypes'
  <2>1. level' \in DOMAIN Sizes
    BY DEF TableInv, TableTypes
  <2>2. 0 \in Buckets' /\ Nothing \in Pairs /\ 0 \in 0..MaxProbe
    BY <2>1, SizesAssumption, ProbeAssumption DEF Nothing, Pairs, Buckets, Size
  <2> QED BY <2>2 DEF LoopTypes, Return
<1>2. CallIsKept' /\ OnPath' /\ HandIsNew' /\ RoomIsLeft'
  BY DEF CallIsKept, OnPath, HandIsNew, RoomIsLeft, Return, Inserting, Searching
<1> QED BY <1>1, <1>2 DEF LoopInv

\* The key that a call is to insert is looked for from the start of its path.
LEMMA PlaceKeeps ==
  ASSUME TableInv', level \in DOMAIN Sizes, level' = level, NEW item \in Items,
         op' = "insert", arg' = item, Place(item, Size, "insert"), old' = <<>>,
         used' < MaxLoad(Size)
  PROVE  LoopInv'
<1>1. item.key \in Keys
  BY DEF Items
<1>2. b' \in Buckets /\ b' = Path(item.key, 1) /\ hand' = item /\ probes' = 1
      /\ placed' = FALSE /\ pc' = "insert"
  BY <1>1, PathStarts DEF Place
<1>3. LoopTypes'
  BY <1>2, NothingType, SameSize DEF LoopTypes, Pairs
<1>4. CallIsKept'
  BY <1>2 DEF CallIsKept, Inserting
<1>5. OnPath'
  BY <1>2 DEF OnPath, ReachedAt, Path, Size
<1>6. HandIsNew' /\ RoomIsLeft'
  BY <1>2, SameSize DEF HandIsNew, RoomIsLeft, Searching
<1> QED BY <1>3, <1>4, <1>5, <1>6 DEF LoopInv

\* An item of the old array is placed in the new one.
LEMMA RegrowKeeps ==
  ASSUME TableInv', level \in DOMAIN Sizes, level' = level, NEW item \in Items,
         op' = "insert", arg' \in Items, Place(item, Size, "regrow"),
         \A i \in Buckets : ~Holds(i, item.key)', \A j \in DOMAIN old' : ~Waits(j, item.key)',
         used' + Cardinality(Uncopied') + 1 < MaxLoad(Size)
  PROVE  LoopInv'
<1>1. item.key \in Keys
  BY DEF Items
<1>2. b' \in Buckets /\ b' = Path(item.key, 1) /\ hand' = item /\ probes' = 1
      /\ placed' = TRUE /\ pc' = "regrow"
  BY <1>1, PathStarts DEF Place
<1>3. LoopTypes'
  BY <1>2, NothingType, SameSize DEF LoopTypes, Pairs, Items
<1>4. CallIsKept'
  BY <1>2 DEF CallIsKept, Inserting
<1>5. OnPath'
  BY <1>2 DEF OnPath, ReachedAt, Path, Size
<1>6. HandIsNew' /\ RoomIsLeft'
  BY <1>2, SameSize DEF HandIsNew, RoomIsLeft, Searching, Holds, Waits
<1> QED BY <1>3, <1>4, <1>5, <1>6 DEF LoopInv

\* dh__insert_ex is done with the item in hand.
LEMMA PlacedKeeps ==
  ASSUME IInv, Inserting, Placed, TableInv', UNCHANGED <<level, old>>,
         pc = "regrow" => used' + Cardinality(Uncopied) < MaxLoad(Size)
  PROVE  LoopInv'
<1>1. level \in DOMAIN Sizes /\ (pc = "insert" \/ pc = "regrow")
  BY DEF IInv, TableInv, TableTypes, Inserting
<1>2. CASE pc = "insert"
  BY <1>2, ReturnKeeps DEF Placed, IInv, LoopInv, CallIsKept
<1>3. op = "insert" /\ arg \in Items
  BY DEF IInv, LoopInv, CallIsKept, Inserting
<1>4. used' \in Nat /\ Cardinality(Uncopied) \in Nat /\ MaxLoad(Size) \in Nat
  <2>1. IsFiniteSet(Uncopied)
    BY DEF IInv, TableInv, UsedIsCounted
  <2>2. used' = Cardinality(LiveBuckets')
    BY DEF TableInv, UsedIsCounted
  <2>3. IsFiniteSet(LiveBuckets')
    <3>1. LiveBuckets' \subseteq Buckets
      BY SameSize DEF LiveBuckets
    <3> QED BY <1>1, <3>1, FiniteBuckets, FS_Subset
  <2> QED BY <1>1, <2>1, <2>2, <2>3, FS_CardinalityType, SizeType
<1>5. CASE pc = "regrow" /\ old = <<>>
  <2>1. Place(arg, Size, "insert") /\ op' = "insert" /\ arg' = arg
    BY <1>3, <1>5 DEF Placed, call
  <2>2. used' < MaxLoad(Size)
    BY <1>4, <1>5
  <2> QED BY <1>1, <1>3, <1>5, <2>1, <2>2, PlaceKeeps
<1>6. CASE pc = "regrow" /\ old # <<>>
  <2>1. pc' = "grow" /\ hand' = Nothing /\ b' = 0 /\ probes' = 0 /\ placed' = FALSE
        /\ op' = "insert" /\ arg' = arg
    BY <1>3, <1>6 DEF Placed, call
  <2>2. LoopTypes'
    BY <1>1, <1>3, <2>1, NothingType, SameSize DEF LoopTypes, Pairs, Nothing
  <2>3. Uncopied' = Uncopied
    BY DEF Uncopied, Live, InUse
  <2>4. CallIsKept' /\ OnPath' /\ HandIsNew' /\ RoomIsLeft'
    BY <1>3, <1>6, <2>1, <2>3, SameSize DEF CallIsKept, OnPath, HandIsNew, RoomIsLeft, Inserting, Searching
  <2> QED BY <2>2, <2>4 DEF LoopInv
<1> QED BY <1>1, <1>2, <1>5, <1>6

-----------------------------------------------------------------------------
(* The turns of dh__insert_ex. *)

\* The key that a cleared bucket compares equal to is not in use, so only a live
\* entry of the same key matches.
LEMMA MatchIsLive ==
  ASSUME ZeroKey \notin Keys, IInv, Inserting, InUse(bkt[b])
  PROVE  Match(bkt[b], hand.key) <=> Holds(b, hand.key)
<1>1. IF Live(bkt[b]) THEN bkt[b].key \in Keys ELSE bkt[b].key = None
  BY InsertingFacts DEF IInv, TableInv, EntriesAreItems
<1> QED BY <1>1, InsertingFacts DEF Match, Holds, Live

\* An item written where no live entry was is one more entry.
LEMMA CountsOneMore ==
  ASSUME IInv, Inserting, ~Live(bkt[b]), used' = used + 1, UNCHANGED <<level, old>>,
         LiveBuckets' = LiveBuckets \union {b}
  PROVE  /\ UsedIsCounted'
         /\ pc = "regrow" => used' + Cardinality(Uncopied) < MaxLoad(Size)
<1>1. /\ used = Cardinality(LiveBuckets) /\ used \in Nat /\ used < MaxLoad(Size)
      /\ IsFiniteSet(LiveBuckets) /\ IsFiniteSet(Uncopied) /\ Cardinality(Uncopied) \in Nat
      /\ MaxLoad(Size) \in Nat
  BY InsertingFacts, FiniteBuckets, SizeType, FS_CardinalityType
     DEF IInv, TableInv, UsedIsCounted, LoopInv, RoomIsLeft, Inserting
<1>2. used' = Cardinality(LiveBuckets')
  BY <1>1, FS_AddElement DEF LiveBuckets
<1>3. Uncopied' = Uncopied
  BY DEF Uncopied, Live, InUse
<1> QED BY <1>1, <1>2, <1>3, SameSize DEF UsedIsCounted, IInv, LoopInv, RoomIsLeft

\* An item written over a live entry leaves as many.
LEMMA CountsAsMany ==
  ASSUME IInv, Inserting, used' = used, UNCHANGED <<level, old>>, LiveBuckets' = LiveBuckets
  PROVE  /\ UsedIsCounted'
         /\ pc = "regrow" => used' + Cardinality(Uncopied) < MaxLoad(Size)
<1>1. used \in Nat /\ Cardinality(Uncopied) \in Nat /\ MaxLoad(Size) \in Nat
  BY InsertingFacts, FiniteBuckets, SizeType, FS_CardinalityType DEF IInv, TableInv, UsedIsCounted
<1>2. Uncopied' = Uncopied
  BY DEF Uncopied, Live, InUse
<1> QED BY <1>1, <1>2, SameSize DEF IInv, TableInv, UsedIsCounted, LoopInv, RoomIsLeft

\* dh__insert_ex takes a bucket never used before.
LEMMA FreshKeeps == ASSUME IInv, InsertFresh PROVE IInv'
<1>1. Inserting /\ bkt[b].deleted = FALSE /\ bkt[b].count = 0
  BY InsertingFacts, EntryFields DEF InsertFresh, IInv, TableInv, EntriesAreItems, InUse
<1>2. WritesHand(probes) /\ Placed /\ used' = used + 1
  BY <1>1 DEF InsertFresh, WritesHand
<1>3. \A i \in Buckets : ~Holds(i, hand.key)
  BY <1>1, HandIsNowhere DEF InUse
<1>4. /\ TableTypes' /\ EntriesAreItems' /\ LiveAreReached' /\ KeysDiffer'
      /\ LiveBuckets' = LiveBuckets \union {b}
  BY <1>1, <1>2, <1>3, InsertingFacts, HandWritten
<1>5. UsedIsCounted' /\ (pc = "regrow" => used' + Cardinality(Uncopied) < MaxLoad(Size))
  BY <1>1, <1>2, <1>4, CountsOneMore DEF WritesHand, Live, InUse
<1>6. TableInv'
  BY <1>4, <1>5 DEF TableInv
<1> QED BY <1>1, <1>2, <1>5, <1>6, PlacedKeeps DEF IInv, WritesHand

\* dh__insert_ex takes the place of a removed entry that came less far.
LEMMA TombstoneKeeps == ASSUME IInv, InsertTombstone PROVE IInv'
<1>1. Inserting /\ bkt[b].count < probes /\ ~Live(bkt[b])
  BY DEF InsertTombstone, Live
<1>2. WritesHand(probes) /\ Placed /\ used' = used + 1
  BY DEF InsertTombstone, WritesHand
<1>3. \A i \in Buckets : ~Holds(i, hand.key)
  BY <1>1, HandIsNowhere DEF InsertTombstone
<1>4. bkt[b].count <= probes
  BY <1>1, InsertingFacts, EntryFields
<1>5. /\ TableTypes' /\ EntriesAreItems' /\ LiveAreReached' /\ KeysDiffer'
      /\ LiveBuckets' = LiveBuckets \union {b}
  BY <1>1, <1>2, <1>3, <1>4, InsertingFacts, HandWritten
<1>6. UsedIsCounted' /\ (pc = "regrow" => used' + Cardinality(Uncopied) < MaxLoad(Size))
  BY <1>1, <1>2, <1>5, CountsOneMore DEF WritesHand
<1>7. TableInv'
  BY <1>5, <1>6 DEF TableInv
<1> QED BY <1>1, <1>2, <1>6, <1>7, PlacedKeeps DEF IInv, WritesHand

\* What a key's own entry is replaced by.
LEMMA ReplaceWrites ==
  ASSUME ZeroKey \notin Keys, IInv, InsertReplace
  PROVE  /\ Inserting /\ Placed /\ used' = used /\ Holds(b, hand.key)
         /\ WritesHand(bkt[b].count) /\ bkt[b].count \in 1..MaxProbe
         /\ b = Path(hand.key, bkt[b].count) /\ ReachedAt(hand.key, bkt[b].count)
         /\ \A i \in Buckets \ {b} : ~Holds(i, hand.key)
<1>1. Inserting /\ Placed /\ used' = used /\ Holds(b, hand.key)
  BY MatchIsLive DEF InsertReplace
<1>2. bkt[b].deleted = FALSE /\ bkt[b].count \in 1..MaxProbe
  BY <1>1, InsertingFacts, EntryFields DEF Holds, Live, InUse
<1>3. WritesHand(bkt[b].count)
  BY <1>2 DEF InsertReplace, WritesHand
<1>4. b = Path(hand.key, bkt[b].count) /\ ReachedAt(hand.key, bkt[b].count)
  BY <1>1, InsertingFacts DEF IInv, TableInv, LiveAreReached, Holds
<1>5. \A i \in Buckets \ {b} : ~Holds(i, hand.key)
  BY <1>1, InsertingFacts DEF IInv, TableInv, KeysDiffer, Holds
<1> QED BY <1>1, <1>2, <1>3, <1>4, <1>5

\* dh__insert_ex replaces the value of a key that is there.
LEMMA ReplaceKeeps == ASSUME ZeroKey \notin Keys, IInv, InsertReplace PROVE IInv'
<1>1. /\ TableTypes' /\ EntriesAreItems' /\ LiveAreReached' /\ KeysDiffer'
      /\ LiveBuckets' = LiveBuckets \union {b}
  BY ReplaceWrites, HandWritten
<1>2. LiveBuckets' = LiveBuckets
  BY <1>1, ReplaceWrites, InsertingFacts DEF LiveBuckets, Holds
<1>3. UsedIsCounted' /\ (pc = "regrow" => used' + Cardinality(Uncopied) < MaxLoad(Size))
  BY <1>2, ReplaceWrites, CountsAsMany DEF WritesHand
<1>4. TableInv'
  BY <1>1, <1>3 DEF TableInv
<1> QED BY <1>3, <1>4, ReplaceWrites, PlacedKeeps DEF IInv, WritesHand

\* The buckets are what they were.
LEMMA TableStays == ASSUME TableInv, UNCHANGED <<level, bkt, used, old>>,
                           answer' \in Values \union {None}
                    PROVE  TableInv' /\ LiveBuckets' = LiveBuckets /\ Stored' = Stored /\ Uncopied' = Uncopied
<1>1. LiveBuckets' = LiveBuckets /\ Stored' = Stored /\ Uncopied' = Uncopied
  BY SameSize DEF LiveBuckets, Stored, Uncopied, Live, InUse
<1>2. TableTypes' /\ EntriesAreItems' /\ KeysDiffer' /\ UsedIsCounted'
  BY <1>1, SameSize DEF TableInv, TableTypes, EntriesAreItems, KeysDiffer, UsedIsCounted, Holds, Waits, Live, InUse
<1>3. LiveAreReached'
  BY DEF TableInv, LiveAreReached, ReachedAt, Path, Size, Buckets, Live, InUse
<1> QED BY <1>1, <1>2, <1>3 DEF TableInv

\* dh__insert_ex leaves the value that replace_item wants to keep.
LEMMA RefusedKeeps == ASSUME IInv, InsertRefused PROVE IInv'
<1>1. Inserting /\ Placed /\ UNCHANGED <<level, bkt, used, old, answer>>
  BY DEF InsertRefused
<1>2. TableInv' /\ LiveBuckets' = LiveBuckets
  BY <1>1, TableStays DEF IInv, TableInv, TableTypes
<1>3. pc = "regrow" => used' + Cardinality(Uncopied) < MaxLoad(Size)
  BY <1>1, <1>2, CountsAsMany
<1> QED BY <1>1, <1>2, <1>3, PlacedKeeps DEF IInv

\* One bucket further with an item that the table, as it now is, has nowhere else.
LEMMA ProbeKeeps ==
  ASSUME IInv, Inserting, TableInv', UNCHANGED <<level, old, pc, call>>, used' = used,
         NEW item \in Items, NEW p \in Nat \ {0}, p < MaxProbe,
         hand' = item, b' = NextBucket(b), probes' = p + 1,
         b = Path(item.key, p), \A d \in 1..(p - 1) : bkt'[Path(item.key, d)].count >= d,
         bkt'[b].count >= p,
         placed' \in BOOLEAN, pc = "regrow" => placed', ~placed' => item = arg,
         HandIsNew'
  PROVE  LoopInv'
<1>1. level \in DOMAIN Sizes /\ item.key \in Keys
  BY InsertingFacts DEF Items
<1>2. b' \in Buckets /\ b' = Path(item.key, p + 1) /\ p + 1 \in 0..MaxProbe
  BY <1>1, PathSteps, ProbeAssumption
<1>3. LoopTypes'
  BY <1>1, <1>2, NothingType, SameSize DEF IInv, LoopInv, LoopTypes, call
<1>4. CallIsKept'
  BY DEF IInv, LoopInv, CallIsKept, Inserting, call
<1>5. OnPath'
  <2>1. \A d \in 1..p : bkt'[Path(item.key, d)].count >= d
    OBVIOUS
  <2>2. \A d \in 1..((p + 1) - 1) : bkt'[Path(item.key, d)].count >= d
    BY <2>1
  <2>3. pc' # "find"
    BY DEF Inserting
  <2> QED BY <1>2, <2>2, <2>3 DEF OnPath, ReachedAt, Path, Size
<1>6. RoomIsLeft'
  <2>1. Uncopied' = Uncopied
    BY DEF Uncopied, Live, InUse
  <2> QED BY <2>1, SameSize DEF IInv, LoopInv, RoomIsLeft
<1> QED BY <1>3, <1>4, <1>5, <1>6 DEF LoopInv

\* What an eviction does to the table.
LEMMA SwapWrites ==
  ASSUME IInv, InsertSwap
  PROVE  /\ Inserting /\ WritesHand(probes) /\ used' = used
         /\ Live(bkt[b]) /\ bkt[b].count \in 1..(probes - 1)
         /\ Pair(bkt[b]) \in Items /\ bkt[b].key # hand.key
         /\ ProbeOn(Pair(bkt[b]), bkt[b].count)
         /\ \A i \in Buckets : ~Holds(i, hand.key)
         /\ TableTypes' /\ EntriesAreItems' /\ LiveAreReached' /\ KeysDiffer'
         /\ LiveBuckets' = LiveBuckets
         /\ Stored' = (Stored \ {Pair(bkt[b])}) \union {hand}
         /\ \A i \in Buckets : bkt'[i].count >= bkt[i].count
<1>1. Inserting /\ Live(bkt[b]) /\ bkt[b].deleted = FALSE /\ bkt[b].count \in 1..(probes - 1)
      /\ bkt[b].count <= probes
  BY InsertingFacts, EntryFields DEF InsertSwap, Live, InUse
<1>2. WritesHand(probes) /\ used' = used /\ ProbeOn(Pair(bkt[b]), bkt[b].count)
  BY <1>1 DEF InsertSwap, WritesHand, Pair
<1>3. Pair(bkt[b]) \in Items
  BY <1>1, InsertingFacts DEF IInv, TableInv, EntriesAreItems, Pair, Items
<1>4. bkt[b].key # hand.key
  BY DEF InsertSwap, Match
<1>5. \A i \in Buckets : ~Holds(i, hand.key)
  BY <1>1, HandIsNowhere DEF InsertSwap
<1>6. /\ TableTypes' /\ EntriesAreItems' /\ LiveAreReached' /\ KeysDiffer'
      /\ LiveBuckets' = LiveBuckets \union {b}
      /\ Stored' = (Stored \ {Pair(bkt[b])}) \union {hand}
      /\ \A i \in Buckets : bkt'[i].count >= bkt[i].count
  BY <1>1, <1>2, <1>5, InsertingFacts, HandWritten
<1>7. LiveBuckets' = LiveBuckets
  BY <1>1, <1>6, InsertingFacts DEF LiveBuckets
<1> QED BY <1>1, <1>2, <1>3, <1>4, <1>5, <1>6, <1>7

\* dh__insert_ex evicts an entry that came less far and goes on with it.
LEMMA SwapKeeps == ASSUME IInv, InsertSwap PROVE IInv'
<1> DEFINE item == Pair(bkt[b])
           p == bkt[b].count
<1>1. UsedIsCounted' /\ (pc = "regrow" => used' + Cardinality(Uncopied) < MaxLoad(Size))
  BY SwapWrites, CountsAsMany DEF WritesHand
<1>2. TableInv'
  BY <1>1, SwapWrites DEF TableInv
<1>3. CASE p < MaxProbe
  <2>1. p \in Nat \ {0} /\ item \in Items /\ item.key = bkt[b].key /\ item.key \in Keys
    BY SwapWrites DEF Pair, Items
  <2>2. /\ hand' = item /\ b' = NextBucket(b) /\ probes' = p + 1 /\ UNCHANGED <<pc, call>>
        /\ placed' = TRUE
    <3>1. item # hand
      BY <2>1, SwapWrites
    <3> QED BY <1>3, <3>1, SwapWrites DEF ProbeOn
  <2>3. b = Path(item.key, p) /\ ReachedAt(item.key, p)
    BY <2>1, SwapWrites, InsertingFacts DEF IInv, TableInv, LiveAreReached
  <2>4. \A d \in 1..(p - 1) : bkt'[Path(item.key, d)].count >= d
    <3>1. bkt' \in [Buckets -> Entries]
      BY SwapWrites, SameSize DEF TableTypes, WritesHand
    <3> QED BY <2>1, <2>3, <3>1, SwapWrites, InsertingFacts, ReachedStays DEF WritesHand
  <2>5. bkt'[b] = HandIn(probes, FALSE) /\ bkt'[b].count = probes /\ bkt'[b].key = hand.key
        /\ \A i \in Buckets : i # b => bkt'[i] = bkt[i]
    <3>1. bkt'[b] = HandIn(probes, FALSE) /\ \A i \in Buckets : i # b => bkt'[i] = bkt[i]
      BY SwapWrites, InsertingFacts DEF WritesHand
    <3> QED BY <3>1 DEF HandIn
  <2>6. HandIsNew'
    <3>1. \A i \in Buckets : ~(Live(bkt'[i]) /\ bkt'[i].key = item.key)
      BY <2>1, <2>5, SwapWrites, InsertingFacts DEF IInv, TableInv, KeysDiffer, Holds
    <3>2. \A j \in DOMAIN old : ~Waits(j, item.key)
      BY <2>1, SwapWrites, InsertingFacts DEF IInv, TableInv, KeysDiffer
    <3>3. pc = "insert" => arg \in Stored' \union {item}
      <4>1. pc = "insert" => arg \in Stored \union {hand}
        BY DEF IInv, LoopInv, HandIsNew, CallIsKept
      <4> QED BY <4>1, SwapWrites
    <3> QED BY <2>2, <3>1, <3>2, <3>3, SwapWrites, SameSize
            DEF HandIsNew, Searching, Holds, Waits, WritesHand, call, Live, InUse
  <2>7. bkt'[b].count >= p
    BY <2>1, <2>5, SwapWrites, InsertingFacts
  <2> HIDE DEF item, p
  <2> QED BY <1>2, <1>3, <2>1, <2>2, <2>3, <2>4, <2>6, <2>7, SwapWrites, ProbeKeeps DEF IInv, WritesHand
<1>4. CASE ~(p < MaxProbe)
  <2>1. Placed
    BY <1>4, SwapWrites DEF ProbeOn
  <2> QED BY <1>1, <1>2, <2>1, SwapWrites, PlacedKeeps DEF IInv, WritesHand
<1> QED BY <1>3, <1>4

\* dh__insert_ex passes an entry that came as far as the one in hand.
LEMMA ProbesKeep == ASSUME IInv, InsertProbe PROVE IInv'
<1>1. Inserting /\ UNCHANGED <<level, bkt, used, old, answer>> /\ ~Match(bkt[b], hand.key)
      /\ bkt[b].count >= probes /\ ProbeOn(hand, probes)
  BY DEF InsertProbe
<1>2. TableInv' /\ LiveBuckets' = LiveBuckets /\ Stored' = Stored
  BY <1>1, TableStays DEF IInv, TableInv, TableTypes
<1>3. CASE probes < MaxProbe
  <2>1. /\ hand' = hand /\ b' = NextBucket(b) /\ probes' = probes + 1 /\ UNCHANGED <<pc, call>>
        /\ placed' = placed /\ placed \in BOOLEAN
    BY <1>1, <1>3 DEF ProbeOn, IInv, LoopInv, LoopTypes
  <2>2. \A d \in 1..(probes - 1) : bkt'[Path(hand.key, d)].count >= d
    BY <1>1, InsertingFacts DEF ReachedAt
  <2>3. HandIsNew'
    <3>1. placed => \A i \in Buckets : ~Holds(i, hand.key)
      BY DEF IInv, LoopInv, HandIsNew
    <3>2. ~placed /\ pc = "insert" => \A d \in 1..probes : ~Holds(Path(arg.key, d), arg.key)
      <4> SUFFICES ASSUME ~placed, pc = "insert", NEW d \in 1..probes PROVE ~Holds(Path(arg.key, d), arg.key)
        OBVIOUS
      <4>1. hand = arg
        BY DEF IInv, LoopInv, CallIsKept
      <4>2. CASE d = probes
        BY <1>1, <4>1, <4>2, InsertingFacts DEF Match, Holds
      <4>3. CASE d # probes
        <5>1. d \in 1..(probes - 1)
          BY <1>1, <4>3, InsertingFacts
        <5> QED BY <5>1 DEF IInv, LoopInv, HandIsNew, Searching
      <4> QED BY <4>2, <4>3
    <3>3. ~placed /\ pc = "insert" =>
            \A d \in 1..((probes + 1) - 1) : ~(Live(bkt'[Path(arg.key, d)]) /\ bkt'[Path(arg.key, d)].key = arg.key)
      BY <1>1, <3>2, InsertingFacts DEF Holds
    <3>4. ~placed => pc = "insert"
      BY <1>1 DEF IInv, LoopInv, CallIsKept, Inserting
    <3>5. placed => \A j \in DOMAIN old : ~Waits(j, hand.key)
      BY <1>1, InsertingFacts
    <3>6. pc = "insert" /\ placed => arg \in Stored \union {hand}
      BY DEF IInv, LoopInv, HandIsNew
    <3>7. (Searching => \A d \in 1..(probes - 1) : ~Holds(Path(arg.key, d), arg.key))'
      BY <1>1, <2>1, <3>3, <3>4 DEF Searching, Holds, Live, InUse, Path, Size, call
    <3> QED BY <1>1, <1>2, <2>1, <3>1, <3>5, <3>6, <3>7, SameSize
            DEF HandIsNew, Holds, Waits, Live, InUse, call
  <2>4. (pc = "regrow" => placed) /\ (~placed => hand = arg)
    BY <1>1 DEF IInv, LoopInv, CallIsKept, Inserting
  <2> QED BY <1>1, <1>2, <1>3, <2>1, <2>2, <2>3, <2>4, InsertingFacts, ProbeKeeps DEF IInv
<1>4. CASE ~(probes < MaxProbe)
  <2>1. Placed
    BY <1>1, <1>4 DEF ProbeOn
  <2>2. pc = "regrow" => used' + Cardinality(Uncopied) < MaxLoad(Size)
    BY <1>1, <1>2, CountsAsMany
  <2> QED BY <1>1, <1>2, <2>1, <2>2, PlacedKeeps DEF IInv
<1> QED BY <1>3, <1>4

-----------------------------------------------------------------------------
(* dh__find_bucket, dh_lookup and dh_remove. *)

\* What a search is about.
LEMMA FindingFacts ==
  ASSUME IInv, pc = "find"
  PROVE  /\ level \in DOMAIN Sizes /\ bkt \in [Buckets -> Entries] /\ b \in Buckets
         /\ bkt[b] \in Entries /\ old = <<>> /\ ~placed
         /\ op \in {"lookup", "remove"} /\ arg.key \in Keys /\ arg.val = None
         /\ probes \in 1..MaxProbe /\ probes \in Nat
         /\ b = Path(arg.key, probes) /\ ReachedAt(arg.key, probes)
         /\ \A d \in 1..(probes - 1) : ~Holds(Path(arg.key, d), arg.key)
<1> USE DEF IInv, TableInv, LoopInv
<1>1. /\ level \in DOMAIN Sizes /\ bkt \in [Buckets -> Entries] /\ b \in Buckets
      /\ bkt[b] \in Entries
  BY DEF TableTypes, LoopTypes
<1>2. probes \in 1..MaxProbe /\ probes \in Nat
  BY ProbeAssumption DEF CallIsKept, LoopTypes
<1>3. op \in {"lookup", "remove"} /\ arg.key \in Keys /\ arg.val = None /\ old = <<>> /\ ~placed
  BY DEF CallIsKept, Inserting
<1>4. b = Path(arg.key, probes) /\ ReachedAt(arg.key, probes)
  BY DEF OnPath
<1>5. \A d \in 1..(probes - 1) : ~Holds(Path(arg.key, d), arg.key)
  BY <1>3 DEF HandIsNew, Searching
<1> QED BY <1>1, <1>2, <1>3, <1>4, <1>5

\* A search ends at its key.
LEMMA HereIsHeld ==
  ASSUME ZeroKey \notin Keys, IInv, pc = "find", ~NotHere
  PROVE  Here <=> Holds(b, arg.key)
BY FindingFacts, NoneAssumption DEF Here, NotHere, Match, Holds, Live

\* A search ends without its key.
LEMMA FailKeeps == ASSUME IInv, FindFails PROVE IInv'
<1>1. UNCHANGED <<level, bkt, used, old>> /\ answer' \in Values \union {None} /\ Return /\ old' = <<>>
  BY FindingFacts DEF FindFails, IInv, TableInv, TableTypes
<1>2. TableInv'
  BY <1>1, TableStays DEF IInv
<1> QED BY <1>1, <1>2, ReturnKeeps DEF IInv

\* dh_lookup ends at its key.
LEMMA LookupKeeps == ASSUME IInv, LookupFinds PROVE IInv'
<1>1. UNCHANGED <<level, bkt, used, old>> /\ answer' \in Values \union {None} /\ Return /\ old' = <<>>
  BY FindingFacts, EntryFields DEF LookupFinds
<1>2. TableInv'
  BY <1>1, TableStays DEF IInv
<1> QED BY <1>1, <1>2, ReturnKeeps DEF IInv

\* A search passes a bucket: its key is not there.
LEMMA FindKeeps == ASSUME ZeroKey \notin Keys, IInv, FindProbes PROVE IInv'
<1>1. /\ pc = "find" /\ ~NotHere /\ ~Here /\ probes < MaxProbe
      /\ b' = NextBucket(b) /\ probes' = probes + 1
      /\ UNCHANGED <<level, bkt, used, pc, call, hand, placed, old, answer>>
  BY DEF FindProbes
<1>2. TableInv'
  BY <1>1, TableStays DEF IInv, TableInv, TableTypes
<1>3. b' \in Buckets /\ b' = Path(arg.key, probes + 1) /\ probes + 1 \in 0..MaxProbe
  <2>1. probes \in Nat \ {0} /\ probes + 1 \in Nat \ {0} /\ probes + 1 \in 0..MaxProbe
    BY <1>1, FindingFacts, ProbeAssumption
  <2>2. NextBucket(b) = Path(arg.key, probes + 1) /\ Path(arg.key, probes + 1) \in Buckets
    BY <1>1, <2>1, FindingFacts, PathSteps
  <2> QED BY <1>1, <2>1, <2>2
<1>4. LoopTypes' /\ CallIsKept'
  BY <1>1, <1>3, FindingFacts, SameSize DEF IInv, LoopInv, LoopTypes, CallIsKept, Inserting, call
<1>5. OnPath'
  <2>1. bkt[b].count >= probes
    BY <1>1, FindingFacts, EntryFields DEF NotHere
  <2>2. \A d \in 1..((probes + 1) - 1) : bkt'[Path(arg.key, d)].count >= d
    BY <1>1, <2>1, FindingFacts DEF ReachedAt
  <2> QED BY <1>1, <1>3, <2>2 DEF OnPath, ReachedAt, Path, Size, call
<1>6. HandIsNew'
  <2>1. ~Holds(b, arg.key)
    BY <1>1, HereIsHeld
  <2>2. \A d \in 1..((probes + 1) - 1) : ~(Live(bkt'[Path(arg.key, d)]) /\ bkt'[Path(arg.key, d)].key = arg.key)
    BY <1>1, <2>1, FindingFacts DEF Holds
  <2> QED BY <1>1, <2>2, FindingFacts DEF HandIsNew, Searching, Holds, Live, InUse, Path, Size, call
<1>7. RoomIsLeft'
  BY <1>1 DEF RoomIsLeft
<1> QED BY <1>2, <1>4, <1>5, <1>6, <1>7 DEF IInv, LoopInv

\* A removal writes a tombstone that keeps the probe count.
LEMMA RemoveWrites ==
  ASSUME ZeroKey \notin Keys, IInv, RemoveFinds
  PROVE  /\ pc = "find" /\ Holds(b, arg.key) /\ TableInv'
         /\ Stored' = Stored \ {Pair(bkt[b])}
<1> DEFINE e == Tombstone(bkt[b].count)
<1>1. pc = "find" /\ Holds(b, arg.key) /\ used' = used - 1 /\ UNCHANGED <<level, old, answer>>
      /\ bkt' = [bkt EXCEPT ![b] = e] /\ Live(bkt[b])
  BY HereIsHeld DEF RemoveFinds, Here, Holds
<1>2. e \in Entries /\ e.key = None /\ e.count = bkt[b].count /\ e.deleted = TRUE /\ ~Live(e) /\ InUse(e)
  BY <1>1, FindingFacts, EntryFields DEF Tombstone, Entries, Live, InUse
<1> HIDE DEF e
<1>3. /\ Buckets' = Buckets /\ level' = level /\ old' = old
      /\ bkt' \in [Buckets -> Entries]
      /\ \A i \in Buckets : bkt'[i] = IF i = b THEN e ELSE bkt[i]
  BY <1>1, <1>2, FindingFacts, SameSize
<1>4. TableTypes'
  BY <1>1, <1>3 DEF IInv, TableInv, TableTypes
<1>5. EntriesAreItems'
  BY <1>2, <1>3 DEF IInv, TableInv, EntriesAreItems, Live, InUse
<1>6. \A i \in Buckets : bkt'[i].count >= bkt[i].count
  <2> TAKE i \in Buckets
  <2>1. bkt[i].count \in Nat
    BY <1>1, FindingFacts, EntryFields
  <2> QED BY <1>2, <1>3, <2>1
<1>7. LiveAreReached'
  <2> SUFFICES ASSUME NEW i \in Buckets, Live(bkt'[i])
               PROVE  /\ i = Path(bkt'[i].key, bkt'[i].count)
                      /\ \A d \in 1..(bkt'[i].count - 1) : bkt'[Path(bkt'[i].key, d)].count >= d
    BY <1>3 DEF LiveAreReached, ReachedAt, Path, Size, Live, InUse
  <2>1. bkt'[i] = bkt[i] /\ Live(bkt[i])
    BY <1>2, <1>3
  <2>2. bkt[i].key \in Keys /\ bkt[i].count \in Nat
    BY <1>1, <2>1, FindingFacts, EntryFields DEF IInv, TableInv, EntriesAreItems
  <2>3. i = Path(bkt[i].key, bkt[i].count) /\ ReachedAt(bkt[i].key, bkt[i].count)
    BY <2>1 DEF IInv, TableInv, LiveAreReached
  <2>4. \A d \in 1..(bkt[i].count - 1) : bkt'[Path(bkt[i].key, d)].count >= d
    BY <1>1, <1>3, <1>6, <2>2, <2>3, FindingFacts, ReachedStays
  <2> QED BY <2>1, <2>3, <2>4
<1>8. KeysDiffer'
  BY <1>2, <1>3 DEF IInv, TableInv, KeysDiffer, Holds, Waits, Live, InUse
<1>9. UsedIsCounted'
  <2>1. LiveBuckets' = LiveBuckets \ {b}
    BY <1>2, <1>3 DEF LiveBuckets, Live, InUse
  <2>2. b \in LiveBuckets /\ IsFiniteSet(LiveBuckets) /\ used = Cardinality(LiveBuckets) /\ used \in Nat
    BY <1>1, FindingFacts, FiniteBuckets, FS_CardinalityType DEF LiveBuckets, IInv, TableInv, UsedIsCounted
  <2>3. used' = Cardinality(LiveBuckets')
    BY <1>1, <2>1, <2>2, FS_RemoveElement
  <2>4. Uncopied' = Uncopied
    BY <1>1 DEF Uncopied, Live, InUse
  <2>5. MaxLoad(Size) \in Nat
    BY <1>1, FindingFacts, SizeType
  <2> QED BY <1>1, <2>2, <2>3, <2>4, <2>5, SameSize DEF UsedIsCounted, IInv, TableInv
<1>10. Stored' = Stored \ {Pair(bkt[b])}
  <2>1. Stored' = {Pair(bkt'[i]) : i \in {j \in Buckets : Live(bkt'[j])}}
    BY <1>3 DEF Stored, Live, InUse, Pair
  <2>2. Stored = {Pair(bkt[i]) : i \in {j \in Buckets : Live(bkt[j])}}
    BY DEF Stored, Pair
  <2>3. \A i \in Buckets : i # b /\ Live(bkt[i]) => Pair(bkt[i]) # Pair(bkt[b])
    BY <1>1, FindingFacts DEF IInv, TableInv, KeysDiffer, Holds, Pair
  <2> QED BY <1>2, <1>3, <2>1, <2>2, <2>3
<1> QED BY <1>1, <1>4, <1>5, <1>7, <1>8, <1>9, <1>10 DEF TableInv

\* dh_remove ends at its key.
LEMMA RemoveKeeps == ASSUME ZeroKey \notin Keys, IInv, RemoveFinds PROVE IInv'
<1>1. Return /\ old' = <<>>
  BY FindingFacts DEF RemoveFinds
<1> QED BY <1>1, RemoveWrites, ReturnKeeps DEF IInv

\* dh_lookup or dh_remove starts.
LEMMA BeginFindKeeps ==
  ASSUME IInv, NEW k \in Keys, NEW what \in {"lookup", "remove"}, BeginFind(k, what)
  PROVE  IInv'
<1>1. /\ pc = "idle" /\ op' = what /\ arg'.key = k /\ arg'.val = None /\ arg' = [key |-> k, val |-> None]
      /\ pc' = "find" /\ b' = FirstProbe(k, Size) /\ probes' = 1
      /\ UNCHANGED <<level, bkt, used, hand, placed, old, answer>>
  BY DEF BeginFind
<1>2. level \in DOMAIN Sizes /\ old = <<>> /\ ~placed
  BY <1>1 DEF IInv, TableInv, TableTypes, LoopInv, CallIsKept, Inserting
<1>3. TableInv'
  BY <1>1, TableStays DEF IInv, TableInv, TableTypes
<1>4. b' \in Buckets /\ b' = Path(k, 1)
  BY <1>1, <1>2, PathStarts
<1>5. LoopTypes' /\ CallIsKept'
  BY <1>1, <1>2, <1>4, NothingType, SameSize DEF IInv, LoopInv, LoopTypes, CallIsKept, Inserting, Pairs
<1>6. OnPath'
  BY <1>1, <1>4 DEF OnPath, ReachedAt, Path, Size
<1>7. HandIsNew' /\ RoomIsLeft'
  BY <1>1, <1>2 DEF HandIsNew, RoomIsLeft, Searching
<1> QED BY <1>3, <1>5, <1>6, <1>7 DEF IInv, LoopInv

-----------------------------------------------------------------------------
(* dh_insert and dh__grow. *)

\* dh_insert starts, with room in the table or by making it grow.
LEMMA BeginInsertKeeps ==
  ASSUME IInv, NEW k \in Keys, NEW v \in Values, BeginInsert(k, v)
  PROVE  IInv'
<1> DEFINE item == [key |-> k, val |-> v]
<1>1. pc = "idle" /\ op' = "insert" /\ arg' = item /\ UNCHANGED <<level, bkt, used, old, answer>>
      /\ item \in Items
  BY DEF BeginInsert, Items
<1>2. level \in DOMAIN Sizes /\ old = <<>> /\ ~placed /\ used \in Nat /\ MaxLoad(Size) \in Nat
  BY <1>1, FiniteBuckets, FS_CardinalityType, SizeType
     DEF IInv, TableInv, TableTypes, UsedIsCounted, LoopInv, CallIsKept, Inserting
<1>3. TableInv'
  BY <1>1, TableStays DEF IInv, TableInv, TableTypes
<1>4. CASE used >= MaxLoad(Size)
  <2>1. pc' = "grow" /\ UNCHANGED <<hand, b, probes, placed>>
    BY <1>4 DEF BeginInsert
  <2>2. LoopTypes' /\ CallIsKept'
    BY <1>1, <1>2, <2>1, NothingType, SameSize DEF IInv, LoopInv, LoopTypes, CallIsKept, Inserting
  <2>3. OnPath' /\ HandIsNew' /\ RoomIsLeft'
    BY <1>1, <1>2, <2>1 DEF OnPath, HandIsNew, RoomIsLeft, Searching
  <2> QED BY <1>3, <2>2, <2>3 DEF IInv, LoopInv
<1>5. CASE ~(used >= MaxLoad(Size))
  <2>1. Place(item, Size, "insert")
    BY <1>5 DEF BeginInsert
  <2>2. used' < MaxLoad(Size)
    BY <1>1, <1>2, <1>5
  <2> HIDE DEF item
  <2> QED BY <1>1, <1>2, <1>3, <2>1, <2>2, PlaceKeeps DEF IInv
<1> QED BY <1>4, <1>5

\* dh_insert fails for want of a larger array.
LEMMA GrowFailsKeeps == ASSUME IInv, GrowFails PROVE IInv'
<1>1. UNCHANGED <<level, bkt, used, old>> /\ answer' \in Values \union {None} /\ Return /\ old' = <<>>
  BY DEF GrowFails, IInv, TableInv, TableTypes
<1>2. TableInv'
  BY <1>1, TableStays DEF IInv
<1> QED BY <1>1, <1>2, ReturnKeeps DEF IInv

\* The new array is empty, and what was stored is now to be copied.
LEMMA GrowWrites ==
  ASSUME IInv, GrowBegins
  PROVE  /\ TableInv' /\ Uncopied' = Stored /\ Stored' = {} /\ old' # <<>>
         /\ used' = 0 /\ Cardinality(Stored) < MaxLoad(Sizes[level + 1])
<1>1. /\ pc = "grow" /\ old = <<>> /\ level < Len(Sizes) /\ level' = level + 1
      /\ old' = [i \in 1..Size |-> bkt[i - 1]] /\ bkt' = NewTable(Sizes[level + 1]) /\ used' = 0
      /\ UNCHANGED <<call, loop, answer>>
  BY DEF GrowBegins
<1>2. /\ level \in DOMAIN Sizes /\ bkt \in [Buckets -> Entries] /\ Size \in Nat \ {0}
      /\ level' \in DOMAIN Sizes /\ level \in 1..(Len(Sizes) - 1)
  BY <1>1, SizeType, SizesAssumption DEF IInv, TableInv, TableTypes
<1>3. Sizes[level + 1] \in Nat \ {0} /\ Size' = Sizes[level + 1] /\ Buckets' = 0..(Size' - 1)
      /\ MaxLoad(Sizes[level + 1]) \in Nat
  <2>1. Sizes[level + 1] \in Nat \ {0}
    BY <1>1, <1>2, SizesAssumption
  <2>2. MaxLoad(Sizes[level + 1]) \in Nat
    BY <2>1, LoadRange
  <2> QED BY <1>1, <2>1, <2>2 DEF Size, Buckets
<1>4. \A i \in Buckets' : bkt'[i] = Empty /\ ~Live(bkt'[i])
  BY <1>1, <1>3 DEF NewTable, Empty, Live, InUse
<1>5. Empty \in Entries /\ Empty.key = None /\ Empty.deleted = FALSE
  BY ProbeAssumption DEF Empty, Entries
<1>6. \A i \in 1..Size : i - 1 \in Buckets /\ old'[i] = bkt[i - 1]
  BY <1>1, <1>2 DEF Buckets
<1>7. DOMAIN old' = 1..Size /\ old' \in Seq(Entries)
  BY <1>1, <1>2, <1>6
<1>8. TableTypes'
  <2>1. bkt' \in [Buckets' -> Entries]
    BY <1>1, <1>3, <1>5 DEF NewTable
  <2> QED BY <1>1, <1>2, <1>7, <2>1 DEF IInv, TableInv, TableTypes
<1>9. EntriesAreItems'
  <2>1. \A j \in DOMAIN old' : Live(old'[j]) => old'[j].key \in Keys /\ old'[j].val \in Values
    BY <1>6, <1>7 DEF IInv, TableInv, EntriesAreItems
  <2>2. \A i \in Buckets' : IF Live(bkt'[i]) THEN bkt'[i].key \in Keys /\ bkt'[i].val \in Values
                                            ELSE bkt'[i].key = None
    BY <1>4, <1>5
  <2>3. \A i \in Buckets' : bkt'[i].deleted => InUse(bkt'[i])
    BY <1>4, <1>5
  <2> QED BY <2>1, <2>2, <2>3 DEF EntriesAreItems, Live, InUse
<1>10. LiveAreReached'
  BY <1>4 DEF LiveAreReached, Live, InUse
<1>11. KeysDiffer'
  <2>1. \A i, j \in DOMAIN old' : Live(old'[i]) /\ Live(old'[j]) /\ old'[j].key = old'[i].key => i = j
    <3> SUFFICES ASSUME NEW i \in 1..Size, NEW j \in 1..Size, Live(old'[i]), Live(old'[j]),
                        old'[j].key = old'[i].key
                 PROVE  i = j
      BY <1>7
    <3>1. i - 1 = j - 1
      BY <1>6 DEF IInv, TableInv, KeysDiffer, Holds
    <3> QED BY <1>2, <3>1
  <2> QED BY <1>4, <2>1 DEF KeysDiffer, Holds, Waits, Live, InUse
<1>12. Uncopied' = Stored
  <2>1. Uncopied' = {Pair(old'[i]) : i \in {j \in DOMAIN old' : Live(old'[j])}}
    BY DEF Uncopied, Live, InUse, Pair
  <2>2. Stored = {Pair(bkt[i]) : i \in {j \in Buckets : Live(bkt[j])}}
    BY DEF Stored, Pair
  <2>3. \A i \in Buckets : i + 1 \in 1..Size /\ old'[i + 1] = bkt[i]
    BY <1>1, <1>2 DEF Buckets
  <2>4. Uncopied' \subseteq Stored
    BY <1>6, <1>7, <2>1, <2>2
  <2>5. Stored \subseteq Uncopied'
    BY <1>7, <2>1, <2>2, <2>3
  <2> QED BY <2>4, <2>5
<1>13. Stored' = {} /\ LiveBuckets' = {}
  BY <1>4 DEF Stored, LiveBuckets, Live, InUse
<1>14. IsFiniteSet(Stored) /\ Cardinality(Stored) \in Nat /\ Cardinality(Stored) <= used /\ used \in Nat
  BY <1>2, StoredIsFinite, FiniteBuckets, FS_CardinalityType DEF IInv, TableInv, UsedIsCounted
<1>15. UsedIsCounted'
  BY <1>1, <1>3, <1>12, <1>13, <1>14, FS_EmptySet DEF UsedIsCounted
<1>16. Cardinality(Stored) < MaxLoad(Sizes[level + 1])
  <2>1. MaxLoad(Size) < MaxLoad(Sizes[level + 1]) /\ MaxLoad(Size) \in Nat
    BY <1>2, GrowthAssumption, SizeType DEF Size
  <2> QED BY <1>3, <1>14, <2>1 DEF IInv, TableInv, UsedIsCounted
<1>17. old' # <<>>
  BY <1>2, <1>7
<1> QED BY <1>1, <1>8, <1>9, <1>10, <1>11, <1>12, <1>13, <1>15, <1>16, <1>17 DEF TableInv

\* dh__grow sets the old array aside.
LEMMA GrowKeeps == ASSUME IInv, GrowBegins PROVE IInv'
<1>1. pc = "grow" /\ level' = level + 1 /\ UNCHANGED <<call, loop, answer>>
  BY DEF GrowBegins
<1>2. LoopTypes'
  <2>1. b' \in Buckets'
    <3>1. level' \in DOMAIN Sizes
      BY GrowWrites DEF TableInv, TableTypes
    <3>2. 0 \in 0..(Sizes[level'] - 1)
      BY <3>1, SizesAssumption
    <3>3. b' = 0
      BY <1>1 DEF IInv, LoopInv, CallIsKept, loop
    <3> QED BY <3>2, <3>3 DEF Buckets, Size
  <2> QED BY <1>1, <2>1 DEF IInv, LoopInv, LoopTypes, call, loop
<1>3. CallIsKept' /\ OnPath' /\ HandIsNew'
  BY <1>1 DEF IInv, LoopInv, CallIsKept, OnPath, HandIsNew, Inserting, Searching, call, loop
<1>4. RoomIsLeft'
  <2>1. level \in DOMAIN Sizes
    BY DEF IInv, TableInv, TableTypes
  <2>2. Cardinality(Stored) \in Nat
    BY <2>1, StoredIsFinite, FS_CardinalityType
  <2>3. 0 + Cardinality(Stored) < MaxLoad(Sizes[level + 1])
    BY <2>2, GrowWrites
  <2> QED BY <1>1, <2>3, GrowWrites DEF RoomIsLeft, loop, Size
<1> QED BY <1>2, <1>3, <1>4, GrowWrites DEF IInv, LoopInv

\* One bucket of the old array less to copy.
LEMMA CopyTakes ==
  ASSUME IInv, GrowCopies
  PROVE  LET item == Head(old)
         IN  /\ item \in Entries /\ TableInv'
             /\ Uncopied' = IF Live(item) THEN Uncopied \ {Pair(item)} ELSE Uncopied
             /\ Live(item) => /\ Pair(item) \in Items /\ Pair(item) \in Uncopied
                              /\ \A i \in Buckets : ~Holds(i, item.key)
                              /\ \A j \in DOMAIN old' : ~(Live(old'[j]) /\ old'[j].key = item.key)
             /\ Stored' = Stored /\ LiveBuckets' = LiveBuckets
<1> DEFINE item == Head(old)
<1>1. pc = "grow" /\ old # <<>> /\ old' = Tail(old) /\ UNCHANGED <<level, bkt, used, call, answer>>
  BY DEF GrowCopies
<1>2. old \in Seq(Entries)
  BY DEF IInv, TableInv, TableTypes
<1>3. /\ item = old[1] /\ 1 \in DOMAIN old /\ item \in Entries /\ old' \in Seq(Entries)
      /\ \A j \in DOMAIN old' : j + 1 \in DOMAIN old /\ old'[j] = old[j + 1] /\ j + 1 # 1
      /\ \A j \in DOMAIN old : j # 1 => j - 1 \in DOMAIN old' /\ old'[j - 1] = old[j]
      /\ DOMAIN old \subseteq Nat /\ DOMAIN old' \subseteq Nat
  BY <1>1, <1>2
<1>4. LiveBuckets' = LiveBuckets /\ Stored' = Stored /\ Buckets' = Buckets
  BY <1>1, SameSize DEF LiveBuckets, Stored, Live, InUse
<1>5. Uncopied' = IF Live(item) THEN Uncopied \ {Pair(item)} ELSE Uncopied
  <2>1. Uncopied' = {Pair(old'[i]) : i \in {j \in DOMAIN old' : Live(old'[j])}}
    BY DEF Uncopied, Live, InUse, Pair
  <2>2. Uncopied = {Pair(old[i]) : i \in {j \in DOMAIN old : Live(old[j])}}
    BY DEF Uncopied, Pair
  <2>3. \A j \in DOMAIN old : j # 1 /\ Live(old[j]) /\ Live(item) => Pair(old[j]) # Pair(item)
    BY <1>3 DEF IInv, TableInv, KeysDiffer, Waits, Pair
  <2> HIDE DEF item
  <2>4. \A x \in Uncopied' : x \in Uncopied /\ (Live(item) => x # Pair(item))
    <3> SUFFICES ASSUME NEW j \in DOMAIN old', Live(old'[j])
                 PROVE  Pair(old'[j]) \in Uncopied /\ (Live(item) => Pair(old'[j]) # Pair(item))
      BY <2>1
    <3>1. j + 1 \in DOMAIN old /\ old'[j] = old[j + 1] /\ j + 1 # 1
      BY <1>3
    <3> QED BY <2>2, <2>3, <3>1
  <2>5. \A x \in Uncopied : (Live(item) => x # Pair(item)) => x \in Uncopied'
    <3> SUFFICES ASSUME NEW j \in DOMAIN old, Live(old[j]), Live(item) => Pair(old[j]) # Pair(item)
                 PROVE  Pair(old[j]) \in Uncopied'
      BY <2>2
    <3>1. j # 1
      BY <1>3
    <3>2. j - 1 \in DOMAIN old' /\ old'[j - 1] = old[j]
      BY <1>3, <3>1
    <3> QED BY <2>1, <3>2
  <2> QED BY <2>4, <2>5
<1>6. ASSUME Live(item)
      PROVE  /\ Pair(item) \in Items /\ Pair(item) \in Uncopied
             /\ \A i \in Buckets : ~Holds(i, item.key)
             /\ \A j \in DOMAIN old' : ~(Live(old'[j]) /\ old'[j].key = item.key)
  <2>1. Pair(item) \in Items
    BY <1>3, <1>6 DEF IInv, TableInv, EntriesAreItems, Pair, Items
  <2>2. Pair(item) \in Uncopied
    BY <1>3, <1>6 DEF Uncopied, Pair
  <2>3. \A i \in Buckets : ~Holds(i, item.key)
    BY <1>3, <1>6 DEF IInv, TableInv, KeysDiffer, Holds, Waits
  <2>4. \A j \in DOMAIN old' : ~(Live(old'[j]) /\ old'[j].key = item.key)
    BY <1>3, <1>6 DEF IInv, TableInv, KeysDiffer, Waits
  <2> QED BY <2>1, <2>2, <2>3, <2>4
<1>7. TableInv'
  <2>1. TableTypes'
    BY <1>1, <1>3, <1>4 DEF IInv, TableInv, TableTypes
  <2>2. EntriesAreItems'
    BY <1>1, <1>3, <1>4 DEF IInv, TableInv, EntriesAreItems, Live, InUse
  <2>3. LiveAreReached'
    BY <1>1 DEF IInv, TableInv, LiveAreReached, ReachedAt, Path, Size, Buckets, Live, InUse
  <2>4. KeysDiffer'
    <3>1. \A i, j \in Buckets : Live(bkt'[i]) /\ Live(bkt'[j]) /\ bkt'[j].key = bkt'[i].key => i = j
      BY <1>1 DEF IInv, TableInv, KeysDiffer, Holds
    <3>2. \A i, j \in DOMAIN old' : Live(old'[i]) /\ Live(old'[j]) /\ old'[j].key = old'[i].key => i = j
      <4> SUFFICES ASSUME NEW i \in DOMAIN old', NEW j \in DOMAIN old', Live(old'[i]), Live(old'[j]),
                          old'[j].key = old'[i].key
                   PROVE  i = j
        OBVIOUS
      <4>1. i + 1 = j + 1
        BY <1>3 DEF IInv, TableInv, KeysDiffer, Waits
      <4> QED BY <1>3, <4>1
    <3>3. \A i \in Buckets : \A j \in DOMAIN old' :
            Live(bkt'[i]) => ~(Live(old'[j]) /\ old'[j].key = bkt'[i].key)
      BY <1>1, <1>3 DEF IInv, TableInv, KeysDiffer, Waits
    <3> QED BY <1>4, <3>1, <3>2, <3>3 DEF KeysDiffer, Holds, Waits, Live, InUse
  <2>5. UsedIsCounted'
    <3>1. IsFiniteSet(Uncopied')
      BY <1>5, FS_RemoveElement DEF IInv, TableInv, UsedIsCounted
    <3> QED BY <1>1, <1>4, <3>1, SameSize DEF IInv, TableInv, UsedIsCounted
  <2> QED BY <2>1, <2>2, <2>3, <2>4, <2>5 DEF TableInv
<1> QED BY <1>3, <1>4, <1>5, <1>6, <1>7

\* dh__grow takes the next bucket of the old array.
LEMMA CopyKeeps == ASSUME IInv, GrowCopies PROVE IInv'
<1> DEFINE item == Head(old)
<1>1. /\ pc = "grow" /\ old # <<>> /\ old' = Tail(old) /\ UNCHANGED <<level, bkt, used, call, answer>>
      /\ InUse(item) /\ ~item.deleted <=> Live(item)
  BY DEF GrowCopies, Live
<1>2. /\ level \in DOMAIN Sizes /\ op' = "insert" /\ arg' = arg /\ arg \in Items /\ op = "insert"
      /\ ~placed
  BY <1>1 DEF IInv, TableInv, TableTypes, LoopInv, CallIsKept, Inserting, call
<1>3. /\ IsFiniteSet(Uncopied) /\ Cardinality(Uncopied) \in Nat /\ used \in Nat /\ MaxLoad(Size) \in Nat
      /\ used + Cardinality(Uncopied) < MaxLoad(Size)
  BY <1>1, <1>2, FiniteBuckets, FS_CardinalityType, SizeType
     DEF IInv, TableInv, UsedIsCounted, LoopInv, RoomIsLeft
<1>4. CASE Live(item)
  <2>1. Place(Pair(item), Size, "regrow")
    BY <1>1, <1>4 DEF GrowCopies, Pair
  <2>2. Pair(item) \in Items /\ Pair(item).key = item.key
    BY <1>4, CopyTakes DEF Pair
  <2>3. used' + Cardinality(Uncopied') + 1 < MaxLoad(Size)
    <3>1. Uncopied' = Uncopied \ {Pair(item)} /\ Pair(item) \in Uncopied
      BY <1>4, CopyTakes
    <3>2. Cardinality(Uncopied') = Cardinality(Uncopied) - 1
      BY <1>3, <3>1, FS_RemoveElement
    <3> QED BY <1>1, <1>3, <3>2
  <2>4. PICK k \in Items : k = Pair(item)
    BY <2>2
  <2>5. /\ \A i \in Buckets : ~Holds(i, k.key)'
        /\ \A j \in DOMAIN old' : ~Waits(j, k.key)'
    BY <1>1, <1>4, <2>2, <2>4, CopyTakes DEF Holds, Waits, Live, InUse
  <2> HIDE DEF item
  <2> QED BY <1>1, <1>2, <2>1, <2>3, <2>4, <2>5, CopyTakes, RegrowKeeps DEF IInv
<1>5. CASE ~Live(item) /\ Tail(old) = <<>>
  <2>1. Place(arg, Size, "insert") /\ old' = <<>>
    BY <1>1, <1>5 DEF GrowCopies
  <2>2. used' < MaxLoad(Size)
    BY <1>1, <1>3
  <2> QED BY <1>1, <1>2, <2>1, <2>2, CopyTakes, PlaceKeeps DEF IInv
<1>6. CASE ~Live(item) /\ Tail(old) # <<>>
  <2>1. UNCHANGED loop
    BY <1>1, <1>6 DEF GrowCopies
  <2>2. Uncopied' = Uncopied
    BY <1>6, CopyTakes
  <2>3. LoopTypes' /\ CallIsKept'
    BY <1>1, <2>1, SameSize DEF IInv, LoopInv, LoopTypes, CallIsKept, Inserting, call, loop
  <2>4. OnPath' /\ HandIsNew' /\ RoomIsLeft'
    BY <1>1, <1>2, <1>3, <2>1, <2>2, SameSize DEF OnPath, HandIsNew, RoomIsLeft, Searching, loop
  <2> QED BY <2>3, <2>4, CopyTakes DEF IInv, LoopInv
<1> QED BY <1>4, <1>5, <1>6

-----------------------------------------------------------------------------
(* The invariant is inductive, and implies those that the table is checked for. *)

\* The empty table satisfies the invariant.
LEMMA InitInv == Init => IInv
<1> SUFFICES ASSUME Init PROVE IInv
  OBVIOUS
<1>1. 1 \in DOMAIN Sizes /\ Sizes[1] \in Nat \ {0} /\ level = 1 /\ Size = Sizes[1]
  BY SizesAssumption DEF Init, Size
<1>2. Empty \in Entries /\ Empty.key = None /\ Empty.deleted = FALSE /\ ~Live(Empty) /\ ~InUse(Empty)
  BY ProbeAssumption DEF Empty, Entries, Live, InUse
<1>3. bkt \in [Buckets -> Entries] /\ \A i \in Buckets : bkt[i] = Empty
  BY <1>1, <1>2 DEF Init, NewTable, Buckets
<1>4. LiveBuckets = {} /\ Stored = {} /\ Uncopied = {} /\ used = 0 /\ old = <<>>
  BY <1>2, <1>3 DEF LiveBuckets, Stored, Uncopied, Init
<1>5. TableTypes /\ EntriesAreItems /\ LiveAreReached /\ KeysDiffer
  BY <1>1, <1>2, <1>3, <1>4 DEF Init, TableTypes, EntriesAreItems, LiveAreReached, KeysDiffer
<1>6. UsedIsCounted
  BY <1>1, <1>4, FS_EmptySet, SizeType DEF UsedIsCounted
<1>7. LoopInv
  BY <1>1, NothingType DEF Init, LoopInv, LoopTypes, CallIsKept, OnPath, HandIsNew, RoomIsLeft,
     Inserting, Searching
<1> QED BY <1>5, <1>6, <1>7 DEF IInv, TableInv

\* Every step keeps it.  Tombstones must match no key: dh_remove clears the key, and
\* a cleared key that equals one in use would be found where nothing is.
LEMMA StepKeepsInv == ASSUME ZeroKey \notin Keys, IInv, [Next]_vars PROVE IInv'
<1>1. CASE Begin
  BY <1>1, BeginInsertKeeps, BeginFindKeeps DEF Begin
<1>2. CASE Step
  BY <1>2, GrowFailsKeeps, GrowKeeps, CopyKeeps, FreshKeeps, ReplaceKeeps, RefusedKeeps,
     TombstoneKeeps, SwapKeeps, ProbesKeep, FailKeeps, FindKeeps, LookupKeeps, RemoveKeeps DEF Step
<1>3. CASE UNCHANGED vars
  <2>1. TableInv' /\ Stored' = Stored /\ Uncopied' = Uncopied
    BY <1>3, TableStays DEF vars, IInv, TableInv, TableTypes
  <2>2. LoopTypes' /\ CallIsKept'
    BY <1>3, SameSize DEF vars, call, loop, IInv, LoopInv, LoopTypes, CallIsKept, Inserting
  <2>3. OnPath'
    BY <1>3 DEF vars, call, loop, IInv, LoopInv, OnPath, ReachedAt, Path, Size
  <2>4. HandIsNew'
    BY <1>3, <2>1 DEF vars, call, loop, IInv, LoopInv, HandIsNew, Searching, Holds, Waits, Live, InUse,
       Path, Size, Buckets
  <2>5. RoomIsLeft'
    BY <1>3, <2>1, SameSize DEF vars, call, loop, IInv, LoopInv, RoomIsLeft
  <2> QED BY <2>1, <2>2, <2>3, <2>4, <2>5 DEF IInv, LoopInv
<1> QED BY <1>1, <1>2, <1>3 DEF Next

\* The inductive invariant holds of every table, whatever its keys, hash function,
\* sizes and probe limit: on it rest the properties below.
THEOREM Invariance == ASSUME ZeroKey \notin Keys PROVE Spec => []IInv
<1>1. IInv /\ [Next]_vars => IInv'
  BY StepKeepsInv
<1> QED BY InitInv, <1>1, PTL DEF Spec

\* Buckets, counters and the loop's variables keep their ranges: in particular the
\* bucket number of a probing loop stays in the array, whichever array that is.
THEOREM TypeCorrect == ASSUME ZeroKey \notin Keys PROVE Spec => []TypeOK
<1>1. IInv => TypeOK
  <2> SUFFICES ASSUME IInv PROVE TypeOK
    OBVIOUS
  <2>1. level \in DOMAIN Sizes
    BY DEF IInv, TableInv, TableTypes
  <2>2. used \in 0..Size
    BY <2>1, FiniteBuckets, FS_CardinalityType, SizeType DEF IInv, TableInv, UsedIsCounted
  <2> QED BY <2>2 DEF IInv, TableInv, TableTypes, LoopInv, LoopTypes, TypeOK
<1> QED BY Invariance, <1>1, PTL

\* The Robin Hood order of dh__insert_ex and dh_remove: every live entry can be
\* reached along its probe sequence, tombstones and evictions notwithstanding.
THEOREM EntriesAreReached == ASSUME ZeroKey \notin Keys PROVE Spec => []Reachable
<1>1. IInv => Reachable
  BY DEF IInv, TableInv, LiveAreReached, LoopInv, OnPath, Reachable
<1> QED BY Invariance, <1>1, PTL

\* No key is ever stored twice, not in the buckets, nor in hand, nor in the array that
\* dh__grow copies from.
THEOREM KeysAreStoredOnce == ASSUME ZeroKey \notin Keys PROVE Spec => []NoDuplicates
<1>1. IInv => NoDuplicates
  <2> SUFFICES ASSUME IInv PROVE NoDuplicates
    OBVIOUS
  <2>1. \A i, j \in Buckets : Live(bkt[i]) /\ Live(bkt[j]) /\ bkt[i].key = bkt[j].key => i = j
    BY DEF IInv, TableInv, KeysDiffer, Holds
  <2>2. \A x \in Evicted : x \notin Stored \union Uncopied
    BY DEF IInv, LoopInv, HandIsNew, Evicted, Stored, Uncopied, Holds, Waits
  <2>3. {x.key : x \in Stored} \intersect {x.key : x \in Uncopied} = {}
    <3> SUFFICES ASSUME NEW x \in Stored, NEW y \in Uncopied, x.key = y.key PROVE FALSE
      OBVIOUS
    <3>1. PICK i \in Buckets : Live(bkt[i]) /\ x.key = bkt[i].key
      BY DEF Stored
    <3>2. PICK j \in DOMAIN old : Live(old[j]) /\ y.key = old[j].key
      BY DEF Uncopied
    <3> QED BY <3>1, <3>2 DEF IInv, TableInv, KeysDiffer, Waits
  <2> QED BY <2>1, <2>2, <2>3 DEF NoDuplicates
<1> QED BY Invariance, <1>1, PTL

\* used_buckets is the number of live entries and stays within the load factor, so
\* that dh__insert_ex never probes a table without room.
THEOREM UsedBucketsAreLive == ASSUME ZeroKey \notin Keys PROVE Spec => []UsedIsLive
<1>1. IInv => UsedIsLive
  BY DEF IInv, TableInv, UsedIsCounted, LiveBuckets, LoopInv, RoomIsLeft, UsedIsLive
<1> QED BY Invariance, <1>1, PTL

-----------------------------------------------------------------------------
(* The table is a map. *)

\* Items of different keys.
IsMap(items) == /\ items \subseteq Items
                /\ \A x, y \in items : x.key = y.key => x = y

\* The map of a set of items has the value of each key, and of no other key.
LEMMA MapValues ==
  ASSUME NEW S, IsMap(S)
  PROVE  /\ \A x \in S : x.key \in Keys /\ MapOf(S)[x.key] = x.val
         /\ \A k \in Keys : (\A x \in S : x.key # k) => MapOf(S)[k] = None
         /\ \A k \in Keys : MapOf(S)[k] # None => \E x \in S : x.key = k
<1>1. \A k \in Keys : (\A x \in S : x.key # k) => MapOf(S)[k] = None
  BY DEF MapOf
<1>2. ASSUME NEW x \in S PROVE x.key \in Keys /\ MapOf(S)[x.key] = x.val
  <2>1. x.key \in Keys
    BY DEF IsMap, Items
  <2>2. {y \in S : y.key = x.key} = {x}
    BY DEF IsMap
  <2> QED BY <2>1, <2>2 DEF MapOf
<1> QED BY <1>1, <1>2

\* Putting an item in the place of its key's changes the map at that key.
LEMMA MapPut ==
  ASSUME NEW S, IsMap(S), NEW x \in Items, NEW T, T = {y \in S : y.key # x.key} \union {x}
  PROVE  MapOf(T) = [MapOf(S) EXCEPT ![x.key] = x.val]
<1>1. x.key \in Keys
  BY DEF Items
<1>2. IsMap(T)
  BY DEF IsMap
<1>3. ASSUME NEW k \in Keys PROVE MapOf(T)[k] = IF k = x.key THEN x.val ELSE MapOf(S)[k]
  <2>1. CASE k = x.key
    BY <1>2, <2>1, MapValues
  <2>2. CASE k # x.key
    <3>1. CASE \E y \in S : y.key = k
      <4>1. PICK y \in S : y.key = k
        BY <3>1
      <4>2. MapOf(S)[k] = y.val
        BY <4>1, MapValues
      <4>3. y \in T
        BY <2>2, <4>1
      <4>4. MapOf(T)[k] = y.val
        BY <1>2, <4>1, <4>3, MapValues
      <4> QED BY <2>2, <4>2, <4>4
    <3>2. CASE \A y \in S : y.key # k
      <4>1. MapOf(S)[k] = None
        BY <3>2, MapValues
      <4>2. \A y \in T : y.key # k
        BY <2>2, <3>2
      <4>3. MapOf(T)[k] = None
        BY <1>2, <4>2, MapValues
      <4> QED BY <2>2, <4>1, <4>3
    <3> QED BY <3>1, <3>2
  <2> QED BY <2>1, <2>2
<1>4. MapOf(T) = [k \in Keys |-> MapOf(T)[k]] /\ MapOf(S) = [k \in Keys |-> MapOf(S)[k]]
  BY DEF MapOf
<1> QED BY <1>1, <1>3, <1>4

\* Taking a key's item away leaves the other keys as they are.
LEMMA MapTake ==
  ASSUME NEW S, IsMap(S), NEW k \in Keys, NEW T, T = {y \in S : y.key # k}
  PROVE  MapOf(T) = [MapOf(S) EXCEPT ![k] = None]
<1>0. IsMap(T)
  BY DEF IsMap
<1>1. ASSUME NEW j \in Keys PROVE MapOf(T)[j] = IF j = k THEN None ELSE MapOf(S)[j]
  <2>1. CASE j = k
    <3>1. \A y \in T : y.key # j
      BY <2>1
    <3> QED BY <1>0, <2>1, <3>1, MapValues
  <2>2. CASE j # k /\ \E y \in S : y.key = j
    <3>1. PICK y \in S : y.key = j
      BY <2>2
    <3>2. MapOf(S)[j] = y.val
      BY <3>1, MapValues
    <3>3. y \in T
      BY <2>2, <3>1
    <3>4. MapOf(T)[j] = y.val
      BY <1>0, <3>1, <3>3, MapValues
    <3> QED BY <2>2, <3>2, <3>4
  <2>3. CASE j # k /\ \A y \in S : y.key # j
    <3>1. MapOf(S)[j] = None
      BY <2>3, MapValues
    <3>2. \A y \in T : y.key # j
      BY <2>3
    <3>3. MapOf(T)[j] = None
      BY <1>0, <3>2, MapValues
    <3> QED BY <2>3, <3>1, <3>3
  <2> QED BY <2>1, <2>2, <2>3
<1>2. MapOf(T) = [j \in Keys |-> MapOf(T)[j]] /\ MapOf(S) = [j \in Keys |-> MapOf(S)[j]]
  BY DEF MapOf
<1> QED BY <1>1, <1>2

\* What the table holds is a map.
LEMMA HeldIsMap == ASSUME IInv PROVE IsMap(Held)
<1>1. \A x \in Stored : \E i \in Buckets : Live(bkt[i]) /\ x = Pair(bkt[i])
  BY DEF Stored, Pair
<1>2. \A x \in Uncopied : \E j \in DOMAIN old : Live(old[j]) /\ x = Pair(old[j])
  BY DEF Uncopied, Pair
<1>3. placed => hand \in Items
  BY DEF IInv, LoopInv, CallIsKept
<1>4. Held \subseteq Items
  BY <1>1, <1>2, <1>3 DEF IInv, TableInv, EntriesAreItems, Held, Evicted, Pair, Items
<1>5. \A x, y \in Stored : x.key = y.key => x = y
  BY <1>1 DEF IInv, TableInv, KeysDiffer, Holds, Pair
<1>6. \A x, y \in Uncopied : x.key = y.key => x = y
  BY <1>2 DEF IInv, TableInv, KeysDiffer, Waits, Pair
<1>7. \A x \in Stored, y \in Uncopied : x.key # y.key
  BY <1>1, <1>2 DEF IInv, TableInv, KeysDiffer, Waits, Pair
<1>8. \A x \in Evicted : \A y \in Stored \union Uncopied : x.key # y.key
  BY <1>1, <1>2 DEF IInv, LoopInv, HandIsNew, Holds, Waits, Pair, Evicted
<1>9. \A x, y \in Held : x.key = y.key => x = y
  BY <1>5, <1>6, <1>7, <1>8 DEF Held, Evicted
<1> QED BY <1>4, <1>9 DEF IsMap

\* What is held by a bucket is in the map.
LEMMA HeldInBucket ==
  ASSUME IInv, NEW i \in Buckets, NEW k, Holds(i, k)
  PROVE  Pair(bkt[i]) \in Held /\ k \in Keys /\ Contents[k] = bkt[i].val /\ bkt[i].val \in Values
<1>1. Pair(bkt[i]) \in Held
  BY DEF Held, Stored, Pair, Holds
<1>2. Pair(bkt[i]).key = k /\ Pair(bkt[i]).val = bkt[i].val
  BY DEF Pair, Holds
<1>3. bkt[i].val \in Values
  BY DEF IInv, TableInv, EntriesAreItems, Holds
<1> QED BY <1>1, <1>2, <1>3, HeldIsMap, MapValues DEF Contents

\* A new key put in the table, at once or by an eviction that the loop goes on with.
LEMMA PutNew ==
  ASSUME IInv, hand \in Items, \A x \in Held : x.key # hand.key, Held' = Held \union {hand}
  PROVE  Contents' = [Contents EXCEPT ![hand.key] = hand.val]
<1>1. Held' = {y \in Held : y.key # hand.key} \union {hand}
  OBVIOUS
<1> QED BY <1>1, HeldIsMap, MapPut DEF Contents

\* A step of the map, or none.
MapStep == [Map!Next]_Map!vars

\* A step that moves nothing in or out of the table is none of the map.
LEMMA Stutters == ASSUME Held' = Held, UNCHANGED <<op, arg, answer>> PROVE MapStep
BY DEF MapStep, Contents, MapOf, Map!vars

\* What a new item is put next to.
LEMMA NewKey ==
  ASSUME IInv, pc = "insert", ~placed, \A i \in Buckets : ~Holds(i, hand.key)
  PROVE  hand = arg /\ hand \in Items /\ Uncopied = {} /\ Evicted = {} /\ \A x \in Held : x.key # hand.key
<1>1. hand = arg /\ hand \in Items /\ Uncopied = {} /\ Evicted = {}
  BY DEF IInv, LoopInv, CallIsKept, Uncopied, Evicted, Inserting
<1>2. \A x \in Stored : x.key # hand.key
  BY DEF Stored, Holds
<1> QED BY <1>1, <1>2 DEF Held

\* The item in hand gets a bucket that held none: that of a call is now in the map,
\* one evicted by it or copied was there before.
LEMMA HandPlaced ==
  ASSUME IInv, Inserting, ~Live(bkt[b]), WritesHand(probes), bkt[b].count <= probes,
         \A i \in Buckets : ~Holds(i, hand.key), Placed
  PROVE  /\ MapStep
         /\ pc = "insert" => Contents'[arg.key] = arg.val \/ Contents[arg.key] # None
<1>1. Stored' = Stored \union {hand}
  BY InsertingFacts, HandWritten
<1>2. Uncopied' = Uncopied
  BY DEF WritesHand, Uncopied, Live, InUse
<1>3. Evicted' = {}
  BY DEF Placed, Return, Place, Evicted
<1>4. Held' = Held \union {hand} /\ (placed => Held' = Held)
  BY <1>1, <1>2, <1>3 DEF Held, Evicted, IInv, LoopInv, LoopTypes
<1>5. CASE pc = "regrow"
  <2>1. placed /\ UNCHANGED <<op, arg, answer>>
    BY <1>5 DEF Placed, IInv, LoopInv, CallIsKept, WritesHand, call, Place
  <2> QED BY <1>4, <1>5, <2>1, Stutters
<1>6. CASE pc = "insert" /\ placed
  <2>0. Contents' = Contents
    <3>1. Held' = Held
      BY <1>4, <1>6
    <3> QED BY <3>1 DEF Contents, MapOf
  <2>1. op = "insert" /\ op' = "none" /\ arg' = Nothing /\ answer' = answer
    BY <1>6 DEF Placed, Return, IInv, LoopInv, CallIsKept, WritesHand
  <2>2. Map!InsertReturns
    BY <2>0, <2>1 DEF Map!InsertReturns, Map!Asked, Map!Idle, Nothing
  <2>3. Contents[arg.key] # None
    <3>1. arg \in Held
      BY <1>6 DEF IInv, LoopInv, HandIsNew, Held, Evicted
    <3>2. arg.val \in Values /\ Contents[arg.key] = arg.val
      BY <3>1, HeldIsMap, MapValues DEF Contents, IsMap, Items
    <3> QED BY <3>2, NoneAssumption
  <2> QED BY <2>2, <2>3 DEF MapStep, Map!Next
<1>7. CASE pc = "insert" /\ ~placed
  <2>1. op = "insert" /\ op' = "none" /\ arg' = Nothing /\ answer' = answer
    BY <1>7 DEF Placed, Return, IInv, LoopInv, CallIsKept, WritesHand
  <2>2. hand = arg /\ arg.key \in Keys /\ Contents' = [Contents EXCEPT ![arg.key] = arg.val]
    BY <1>4, <1>7, NewKey, PutNew, InsertingFacts
  <2>3. Map!Insert
    BY <2>1, <2>2 DEF Map!Insert, Map!Asked, Map!Idle, Nothing
  <2>4. Contents'[arg.key] = arg.val
    BY <2>2 DEF Contents, MapOf
  <2> QED BY <2>3, <2>4 DEF MapStep, Map!Next
<1> QED BY <1>5, <1>6, <1>7 DEF Inserting

\* A bucket never used takes the key.
LEMMA FreshIsPut == ASSUME IInv, InsertFresh
                    PROVE  /\ MapStep
                           /\ pc = "insert" => Contents'[arg.key] = arg.val \/ Contents[arg.key] # None
<1>1. Inserting /\ bkt[b].deleted = FALSE /\ bkt[b].count = 0
  BY InsertingFacts, EntryFields DEF InsertFresh, IInv, TableInv, EntriesAreItems, InUse
<1>2. WritesHand(probes) /\ Placed /\ ~Live(bkt[b])
  BY <1>1 DEF InsertFresh, WritesHand, Live
<1>3. \A i \in Buckets : ~Holds(i, hand.key)
  BY <1>1, HandIsNowhere DEF InUse
<1>4. bkt[b].count <= probes
  BY <1>1, InsertingFacts
<1> QED BY <1>1, <1>2, <1>3, <1>4, HandPlaced

\* The place of a removed entry takes the key.
LEMMA TombstoneIsPut == ASSUME IInv, InsertTombstone
                        PROVE  /\ MapStep
                               /\ pc = "insert" => Contents'[arg.key] = arg.val \/ Contents[arg.key] # None
<1>1. Inserting /\ ~Live(bkt[b]) /\ WritesHand(probes) /\ Placed
  BY DEF InsertTombstone, Live, WritesHand
<1>2. \A i \in Buckets : ~Holds(i, hand.key)
  BY <1>1, HandIsNowhere DEF InsertTombstone
<1>3. bkt[b].count <= probes
  BY <1>1, InsertingFacts, EntryFields DEF InsertTombstone
<1> QED BY <1>1, <1>2, <1>3, HandPlaced

\* A key that is in the table is that of the call, not one evicted or copied.
LEMMA OwnKey ==
  ASSUME IInv, Inserting, Holds(b, hand.key)
  PROVE  /\ pc = "insert" /\ ~placed /\ hand = arg /\ arg \in Items /\ arg.key \in Keys
         /\ op = "insert" /\ Uncopied = {} /\ Evicted = {} /\ Contents[arg.key] # None
<1>1. pc = "insert" /\ ~placed
  BY InsertingFacts DEF IInv, LoopInv, HandIsNew, CallIsKept, Inserting
<1>2. hand = arg /\ op = "insert" /\ arg \in Items /\ arg.key \in Keys /\ Uncopied = {} /\ Evicted = {}
  BY <1>1 DEF IInv, LoopInv, CallIsKept, Uncopied, Evicted, Items
<1>3. Contents[arg.key] # None
  BY <1>2, InsertingFacts, HeldInBucket, NoneAssumption
<1> QED BY <1>1, <1>2, <1>3

\* The key's value is replaced.
LEMMA ReplaceIsPut == ASSUME ZeroKey \notin Keys, IInv, InsertReplace
                      PROVE  MapStep /\ (pc = "insert" => Contents[arg.key] # None)
<1>1. /\ pc = "insert" /\ ~placed /\ hand = arg /\ arg \in Items /\ arg.key \in Keys
      /\ op = "insert" /\ Uncopied = {} /\ Evicted = {} /\ Contents[arg.key] # None
  BY ReplaceWrites, OwnKey
<1>2. op' = "none" /\ arg' = Nothing /\ answer' = answer /\ placed' = FALSE /\ old' = old
  BY <1>1, ReplaceWrites DEF Placed, Return, WritesHand
<1>3. Stored' = (Stored \ {Pair(bkt[b])}) \union {hand}
  BY ReplaceWrites, HandWritten, InsertingFacts DEF Holds
<1>4. Held' = {y \in Held : y.key # arg.key} \union {arg}
  <2>1. Uncopied' = {} /\ Evicted' = {}
    BY <1>1, <1>2 DEF Uncopied, Evicted, Live, InUse
  <2>2. Pair(bkt[b]) \in Stored /\ Pair(bkt[b]).key = arg.key
    BY <1>1, ReplaceWrites, InsertingFacts DEF Stored, Pair, Holds
  <2>3. Held = Stored /\ Held' = Stored'
    BY <1>1, <2>1 DEF Held
  <2>4. \A y \in Stored : y.key = arg.key <=> y = Pair(bkt[b])
    BY <2>2, <2>3, HeldIsMap DEF IsMap
  <2> QED BY <1>1, <1>3, <2>3, <2>4
<1>5. Contents' = [Contents EXCEPT ![arg.key] = arg.val]
  BY <1>1, <1>4, HeldIsMap, MapPut DEF Contents
<1>6. Map!Insert
  BY <1>1, <1>2, <1>5 DEF Map!Insert, Map!Asked, Map!Idle, Nothing
<1> QED BY <1>1, <1>6 DEF MapStep, Map!Next

\* The key keeps its value.
LEMMA RefusedIsMap == ASSUME ZeroKey \notin Keys, IInv, InsertRefused
                      PROVE  MapStep /\ (pc = "insert" => Contents[arg.key] # None)
<1>1. Inserting /\ Placed /\ UNCHANGED <<level, bkt, used, old, answer>> /\ Holds(b, hand.key)
  BY MatchIsLive DEF InsertRefused
<1>2. pc = "insert" /\ ~placed /\ op = "insert" /\ Evicted = {} /\ Contents[arg.key] # None
  BY <1>1, OwnKey
<1>3. op' = "none" /\ arg' = Nothing /\ placed' = FALSE
  BY <1>1, <1>2 DEF Placed, Return
<1>4. Stored' = Stored /\ Uncopied' = Uncopied /\ Evicted' = {}
  BY <1>1, <1>3, TableStays DEF IInv, TableInv, TableTypes, Evicted
<1>5. Contents' = Contents
  BY <1>2, <1>4 DEF Held, Contents, MapOf
<1>6. Map!InsertReturns
  BY <1>1, <1>2, <1>3, <1>5 DEF Map!InsertReturns, Map!Asked, Map!Idle, Nothing
<1> QED BY <1>2, <1>6 DEF MapStep, Map!Next

\* An eviction puts the item in hand in the table, and the evicted one in the hand.
LEMMA SwapIsMap == ASSUME IInv, WithinReach, InsertSwap PROVE MapStep /\ pc' = pc
<1>1. bkt[b].count < MaxProbe
  BY SwapWrites, InsertingFacts DEF WithinReach
<1>2. /\ hand' = Pair(bkt[b]) /\ placed' = TRUE /\ UNCHANGED <<pc, op, arg, answer, old>>
  <2>1. Pair(bkt[b]) # hand
    BY SwapWrites DEF Pair
  <2> QED BY <1>1, <2>1, SwapWrites DEF ProbeOn, call, WritesHand
<1>3. Held' = Held \union {hand}
  <2>1. Pair(bkt[b]) \in Stored
    BY SwapWrites, InsertingFacts DEF Stored, Pair
  <2>2. Uncopied' = Uncopied
    BY <1>2 DEF Uncopied, Live, InUse
  <2>3. Evicted' = {Pair(bkt[b])} /\ Evicted \subseteq {hand}
    BY <1>2 DEF Evicted
  <2> QED BY <2>1, <2>2, <2>3, SwapWrites DEF Held
<1>4. CASE placed
  <2>1. Held' = Held
    BY <1>3, <1>4 DEF Held, Evicted
  <2> QED BY <1>2, <2>1, Stutters
<1>5. CASE ~placed
  <2>1. pc = "insert" /\ op = "insert"
    BY <1>5, SwapWrites DEF IInv, LoopInv, CallIsKept, Inserting
  <2>2. hand = arg /\ arg.key \in Keys /\ Contents' = [Contents EXCEPT ![arg.key] = arg.val]
    BY <1>3, <1>5, <2>1, SwapWrites, NewKey, PutNew, InsertingFacts
  <2>3. Map!Insert
    BY <1>2, <2>1, <2>2 DEF Map!Insert, Map!Asked
  <2> QED BY <1>2, <2>3 DEF MapStep, Map!Next
<1> QED BY <1>4, <1>5

\* A bucket that is passed stays as it is.
LEMMA ProbeIsMap == ASSUME IInv, WithinReach, InsertProbe PROVE MapStep /\ pc' = pc
<1>1. /\ Inserting /\ UNCHANGED <<level, bkt, used, old, answer>>
      /\ UNCHANGED <<hand, pc, op, arg, placed>>
  BY DEF InsertProbe, ProbeOn, WithinReach, IInv, LoopInv, LoopTypes, call
<1>2. Stored' = Stored /\ Uncopied' = Uncopied /\ Evicted' = Evicted
  BY <1>1, TableStays DEF IInv, TableInv, TableTypes, Evicted
<1>3. Held' = Held
  BY <1>2 DEF Held
<1> QED BY <1>1, <1>3, Stutters

\* A search that fails has passed every bucket its key could be in.
LEMMA KeyIsNowhere ==
  ASSUME ZeroKey \notin Keys, IInv, FindFails
  PROVE  \A i \in Buckets : ~Holds(i, arg.key)
<1>1. pc = "find" /\ (NotHere \/ (~Here /\ probes >= MaxProbe))
  BY DEF FindFails
<1>2. SUFFICES ASSUME NEW i \in Buckets, Holds(i, arg.key) PROVE FALSE
  OBVIOUS
<1> DEFINE k == arg.key
           c == bkt[i].count
<1>3. bkt[i] \in Entries /\ c \in Nat \ {0} /\ c \in 1..MaxProbe
  BY <1>1, <1>2, FindingFacts, EntryFields DEF Holds, Live, InUse
<1>4. i = Path(k, c) /\ ReachedAt(k, c)
  BY <1>2 DEF IInv, TableInv, LiveAreReached, Holds
<1>5. c >= probes
  <2>1. \A d \in 1..(probes - 1) : ~Holds(Path(k, d), k)
    BY <1>1, FindingFacts
  <2> HIDE DEF c, k
  <2> QED BY <1>1, <1>2, <1>3, <1>4, <2>1, FindingFacts DEF k
<1>6. bkt[b].count \in Nat /\ b = Path(k, probes) /\ probes \in 1..MaxProbe
  BY <1>1, FindingFacts, EntryFields
<1>7. bkt[b].count >= probes
  <2>1. CASE c = probes
    BY <1>3, <1>4, <1>6, <2>1
  <2>2. CASE c # probes
    <3>1. probes \in 1..(c - 1)
      BY <1>3, <1>5, <1>6, <2>2
    <3> QED BY <1>4, <1>6, <3>1 DEF ReachedAt
  <2> QED BY <2>1, <2>2
<1>8. ~NotHere
  BY <1>6, <1>7 DEF NotHere, InUse
<1>9. c = probes
  BY <1>1, <1>3, <1>5, <1>6, <1>8, ProbeAssumption
<1>10. i = b
  BY <1>4, <1>6, <1>9
<1> QED BY <1>1, <1>2, <1>8, <1>10, HereIsHeld

\* While there is nothing in hand and nothing to copy, the table is all there is.
LEMMA TableIsAll ==
  ASSUME ~placed, old = <<>>
  PROVE  Held = Stored
BY DEF Held, Uncopied, Evicted

\* A search that fails answers that there is nothing, and there is not.
LEMMA FailIsMap == ASSUME ZeroKey \notin Keys, IInv, FindFails PROVE MapStep /\ pc # "insert"
<1>1. /\ pc = "find" /\ answer' = (IF op = "lookup" THEN None ELSE answer)
      /\ op' = "none" /\ arg' = Nothing /\ placed' = FALSE /\ UNCHANGED <<level, bkt, used, old>>
  BY DEF FindFails, Return
<1>2. Held = Stored /\ Held' = Stored' /\ Stored' = Stored
  <2>1. TableInv /\ answer' \in Values \union {None} /\ old' = <<>> /\ ~placed'
    BY <1>1, FindingFacts DEF IInv, TableInv, TableTypes
  <2>2. Held' = Stored' \union Uncopied' \union Evicted' /\ Uncopied' = {} /\ Evicted' = {}
    BY <2>1 DEF Held, Uncopied, Evicted
  <2> QED BY <1>1, <2>1, <2>2, FindingFacts, TableIsAll, TableStays
<1>3. Contents' = Contents
  BY <1>2 DEF Contents, MapOf
<1>4. arg.key \in Keys /\ Contents[arg.key] = None
  <2>1. \A x \in Stored : x.key # arg.key
    BY KeyIsNowhere DEF Stored, Holds
  <2> QED BY <1>1, <1>2, <2>1, FindingFacts, HeldIsMap, MapValues DEF Contents
<1>5. CASE op = "lookup"
  <2>1. Map!Lookup
    BY <1>1, <1>3, <1>4, <1>5 DEF Map!Lookup, Map!Asked, Map!Idle, Nothing
  <2> QED BY <1>1, <2>1 DEF MapStep, Map!Next
<1>6. CASE op = "remove"
  <2>1. [Contents EXCEPT ![arg.key] = None] = Contents
    BY <1>4 DEF Contents, MapOf
  <2>2. Map!Remove
    BY <1>1, <1>3, <1>6, <2>1 DEF Map!Remove, Map!Asked, Map!Idle, Nothing
  <2> QED BY <1>1, <2>2 DEF MapStep, Map!Next
<1> QED BY <1>1, <1>5, <1>6, FindingFacts

\* A lookup that ends at its key answers with its value.
LEMMA LookupIsMap == ASSUME ZeroKey \notin Keys, IInv, LookupFinds PROVE MapStep /\ pc # "insert"
<1>1. /\ pc = "find" /\ op = "lookup" /\ answer' = bkt[b].val /\ Here
      /\ op' = "none" /\ arg' = Nothing /\ placed' = FALSE /\ UNCHANGED <<level, bkt, used, old>>
  BY DEF LookupFinds, Return
<1>2. Holds(b, arg.key)
  BY <1>1, HereIsHeld DEF Here
<1>3. Held = Stored /\ Held' = Stored' /\ Stored' = Stored
  <2>1. TableInv /\ answer' \in Values \union {None} /\ old' = <<>> /\ ~placed'
    BY <1>1, FindingFacts, EntryFields DEF IInv
  <2>2. Held' = Stored' \union Uncopied' \union Evicted' /\ Uncopied' = {} /\ Evicted' = {}
    BY <2>1 DEF Held, Uncopied, Evicted
  <2> QED BY <1>1, <2>1, <2>2, FindingFacts, TableIsAll, TableStays
<1>4. Contents' = Contents
  BY <1>3 DEF Contents, MapOf
<1>5. Contents[arg.key] = bkt[b].val
  BY <1>1, <1>2, FindingFacts, HeldInBucket
<1>6. Map!Lookup
  BY <1>1, <1>4, <1>5 DEF Map!Lookup, Map!Asked, Map!Idle, Nothing
<1> QED BY <1>1, <1>6 DEF MapStep, Map!Next

\* A removal takes its key, and no other, out of the map.
LEMMA RemoveIsMap == ASSUME ZeroKey \notin Keys, IInv, RemoveFinds PROVE MapStep /\ pc # "insert"
<1>1. /\ pc = "find" /\ op = "remove" /\ answer' = answer
      /\ op' = "none" /\ arg' = Nothing /\ placed' = FALSE /\ old' = old
  BY DEF RemoveFinds, Return
<1>2. Held = Stored /\ Held' = Stored'
  <2>1. old' = <<>> /\ ~placed'
    BY <1>1, FindingFacts
  <2>2. Held' = Stored' \union Uncopied' \union Evicted' /\ Uncopied' = {} /\ Evicted' = {}
    BY <2>1 DEF Held, Uncopied, Evicted
  <2> QED BY <1>1, <2>1, <2>2, FindingFacts, TableIsAll
<1>3. Held' = {y \in Held : y.key # arg.key}
  <2>1. Pair(bkt[b]) \in Held /\ Pair(bkt[b]).key = arg.key
    BY <1>1, FindingFacts, RemoveWrites, HeldInBucket DEF Pair, Holds
  <2>2. \A y \in Held : y.key = arg.key <=> y = Pair(bkt[b])
    BY <2>1, HeldIsMap DEF IsMap
  <2> QED BY <1>2, <2>2, RemoveWrites
<1>4. Contents' = [Contents EXCEPT ![arg.key] = None]
  BY <1>1, <1>3, FindingFacts, HeldIsMap, MapTake DEF Contents
<1>5. Map!Remove
  BY <1>1, <1>4 DEF Map!Remove, Map!Asked, Map!Idle, Nothing
<1> QED BY <1>1, <1>5 DEF MapStep, Map!Next

\* A call asks the map for what it is to do.
LEMMA BeginIsMap == ASSUME IInv, Begin PROVE MapStep /\ pc # "insert"
<1>1. /\ pc = "idle" /\ UNCHANGED <<level, bkt, used, old, answer>>
      /\ \E k \in Keys : \/ \E v \in Values : op' = "insert" /\ arg' = [key |-> k, val |-> v]
                         \/ \E what \in {"lookup", "remove"} : op' = what /\ arg' = [key |-> k, val |-> None]
  BY DEF Begin, BeginInsert, BeginFind
<1>2. placed' = FALSE /\ ~placed /\ op = "none" /\ arg = Nothing /\ old = <<>>
  <2>1. placed = FALSE /\ op = "none" /\ arg = Nothing /\ old = <<>>
    BY <1>1 DEF IInv, LoopInv, LoopTypes, CallIsKept, Inserting
  <2>2. placed' = placed \/ placed' = FALSE
    BY DEF Begin, BeginInsert, BeginFind, Place
  <2> QED BY <2>1, <2>2
<1>3. Held' = Held
  <2>1. Stored' = Stored
    BY <1>1, TableStays DEF IInv, TableInv, TableTypes
  <2>2. Held' = Stored' \union Uncopied' \union Evicted' /\ Uncopied' = {} /\ Evicted' = {}
    BY <1>1, <1>2 DEF Held, Uncopied, Evicted
  <2> QED BY <1>2, <2>1, <2>2, TableIsAll
<1>4. Contents' = Contents
  BY <1>3 DEF Contents, MapOf
<1>5. Map!Call
  <2>1. <<op, arg.key, arg.val>> = Map!Idle
    BY <1>2 DEF Map!Idle, Nothing
  <2>2. \E k \in Keys : \/ \E v \in Values : <<op', arg'.key, arg'.val>> = <<"insert", k, v>>
                        \/ \E what \in {"lookup", "remove"} : <<op', arg'.key, arg'.val>> = <<what, k, None>>
    BY <1>1
  <2> QED BY <1>1, <1>4, <2>1, <2>2 DEF Map!Call
<1> QED BY <1>1, <1>5 DEF MapStep, Map!Next

\* An insertion for which the table cannot grow leaves the map as it is.
LEMMA GrowFailsIsMap == ASSUME IInv, GrowFails PROVE MapStep /\ pc # "insert"
<1>1. /\ pc = "grow" /\ old = <<>> /\ UNCHANGED <<level, bkt, used, old, answer>>
      /\ op' = "none" /\ arg' = Nothing /\ placed' = FALSE
  BY DEF GrowFails, Return
<1>2. op = "insert" /\ ~placed
  BY <1>1 DEF IInv, LoopInv, CallIsKept, Inserting
<1>3. Held' = Held
  <2>1. Stored' = Stored
    BY <1>1, TableStays DEF IInv, TableInv, TableTypes
  <2>2. Held' = Stored' \union Uncopied' \union Evicted' /\ Uncopied' = {} /\ Evicted' = {}
    BY <1>1 DEF Held, Uncopied, Evicted
  <2> QED BY <1>1, <1>2, <2>1, <2>2, TableIsAll
<1>4. Contents' = Contents
  BY <1>3 DEF Contents, MapOf
<1>5. Map!InsertReturns
  BY <1>1, <1>2, <1>4 DEF Map!InsertReturns, Map!Asked, Map!Idle, Nothing
<1> QED BY <1>1, <1>5 DEF MapStep, Map!Next

\* Growing is not seen in the map: what was stored is still held, to be copied.
LEMMA GrowIsMap == ASSUME IInv, GrowBegins PROVE MapStep /\ pc # "insert"
<1>1. pc = "grow" /\ old = <<>> /\ UNCHANGED <<op, arg, answer, placed, hand>>
  BY DEF GrowBegins, call, loop
<1>2. ~placed
  BY <1>1 DEF IInv, LoopInv, CallIsKept, Inserting
<1>3. Held' = Held
  <2>1. Held = Stored
    BY <1>1, <1>2, TableIsAll
  <2>2. Held' = Stored' \union Uncopied' \union Evicted' /\ Evicted' = {}
    BY <1>1, <1>2 DEF Held, Evicted
  <2> QED BY <2>1, <2>2, GrowWrites
<1> QED BY <1>1, <1>3, Stutters

\* Neither is copying: the item that leaves the old array is in hand.
LEMMA CopyIsMap == ASSUME IInv, GrowCopies PROVE MapStep /\ pc # "insert"
<1> DEFINE item == Head(old)
<1>1. /\ pc = "grow" /\ old # <<>> /\ UNCHANGED <<op, arg, answer>>
      /\ InUse(item) /\ ~item.deleted <=> Live(item)
  BY DEF GrowCopies, call, Live
<1>2. placed = FALSE /\ Evicted = {} /\ Held = Stored \union Uncopied
  BY <1>1 DEF IInv, LoopInv, LoopTypes, CallIsKept, Inserting, Evicted, Held
<1>3. Held' = Stored \union Uncopied' \union Evicted'
  BY CopyTakes DEF Held
<1>4. Held' = Held
  <2>1. CASE Live(item)
    <3>1. hand' = Pair(item) /\ placed' = TRUE
      BY <1>1, <2>1 DEF GrowCopies, Place, Pair
    <3>2. Evicted' = {Pair(item)}
      BY <3>1 DEF Evicted
    <3> QED BY <1>2, <1>3, <2>1, <3>2, CopyTakes
  <2>2. CASE ~Live(item)
    <3>1. placed' = FALSE
      BY <1>1, <1>2, <2>2 DEF GrowCopies, Place, loop
    <3>2. Evicted' = {}
      BY <3>1 DEF Evicted
    <3> QED BY <1>2, <1>3, <2>2, <3>2, CopyTakes
  <2> QED BY <2>1, <2>2
<1> QED BY <1>1, <1>4, Stutters

\* A search that goes on changes nothing.
LEMMA FindIsMap == ASSUME IInv, FindProbes PROVE MapStep /\ pc # "insert"
<1>1. pc = "find" /\ UNCHANGED <<level, bkt, used, op, arg, hand, placed, old, answer>>
  BY DEF FindProbes, call
<1>2. Stored' = Stored /\ Uncopied' = Uncopied /\ Evicted' = Evicted
  BY <1>1, TableStays DEF IInv, TableInv, TableTypes, Evicted
<1>3. Held' = Held
  BY <1>2 DEF Held
<1> QED BY <1>1, <1>3, Stutters

-----------------------------------------------------------------------------
\* What each step is to the map, and what an insertion that ends has done.
Put == pc = "insert" /\ pc' = "idle" =>
         Contents'[arg.key] = arg.val \/ Contents[arg.key] # None

\* Every step of the table is a step of the map or none, as long as no entry is dropped.
LEMMA StepIsMap ==
  ASSUME ZeroKey \notin Keys, IInv, WithinReach, [Next]_vars
  PROVE  MapStep /\ Put
<1>1. CASE Begin
  BY <1>1, BeginIsMap DEF Put
<1>2. CASE GrowFails \/ GrowBegins \/ GrowCopies
  BY <1>2, GrowFailsIsMap, GrowIsMap, CopyIsMap DEF Put
<1>3. CASE InsertFresh \/ InsertTombstone
  BY <1>3, FreshIsPut, TombstoneIsPut DEF Put
<1>4. CASE InsertReplace \/ InsertRefused
  BY <1>4, ReplaceIsPut, RefusedIsMap DEF Put
<1>5. CASE InsertSwap \/ InsertProbe
  BY <1>5, SwapIsMap, ProbeIsMap DEF Put
<1>6. CASE FindFails \/ FindProbes \/ LookupFinds \/ RemoveFinds
  BY <1>6, FailIsMap, FindIsMap, LookupIsMap, RemoveIsMap DEF Put
<1>7. CASE UNCHANGED vars
  <2>1. UNCHANGED <<level, bkt, used, op, arg, hand, placed, old, answer, pc>>
    BY <1>7 DEF vars, call, loop
  <2>2. Stored' = Stored /\ Uncopied' = Uncopied /\ Evicted' = Evicted
    BY <2>1, TableStays DEF IInv, TableInv, TableTypes, Evicted
  <2>3. Held' = Held
    BY <2>2 DEF Held
  <2> QED BY <2>1, <2>3, Stutters DEF Put
<1> QED BY <1>1, <1>2, <1>3, <1>4, <1>5, <1>6, <1>7 DEF Next, Step

\* The empty table is the empty map.
LEMMA InitIsMap == ASSUME Init PROVE Map!Init
<1>1. 1 \in DOMAIN Sizes /\ Sizes[1] \in Nat \ {0} /\ Buckets = 0..(Sizes[1] - 1)
  BY SizesAssumption DEF Init, Buckets, Size
<1>2. \A i \in Buckets : ~Live(bkt[i])
  BY <1>1 DEF Init, NewTable, Empty, Live, InUse
<1>3. Held = {}
  BY <1>2 DEF Init, Held, Stored, Uncopied, Evicted
<1>4. Contents = [k \in Keys |-> None]
  BY <1>3 DEF Contents, MapOf
<1> QED BY <1>4 DEF Init, Map!Init, Map!Idle, Nothing

\* The hash table implements the map of KeyMap for every set of keys, hash function,
\* sizes and values, as long as no entry comes MAX_PROBE_COUNT buckets far: there
\* dh__insert_ex drops the one in hand.
THEOREM Implementation ==
  ASSUME ZeroKey \notin Keys PROVE Spec /\ []WithinReach => ImplementsMap
<1>1. IInv /\ WithinReach /\ [Next]_vars => [Map!Next]_Map!vars
  BY StepIsMap DEF MapStep
<1>2. Init => Map!Init
  BY InitIsMap
<1> QED BY Invariance, <1>1, <1>2, PTL DEF Spec, ImplementsMap, Map!Spec

\* An insertion of a new key that ends has put it in the table: no eviction on the way
\* makes dh__insert_ex lose it.
THEOREM InsertionsSucceed ==
  ASSUME ZeroKey \notin Keys PROVE Spec /\ []WithinReach => PutSucceeds
<1>1. IInv /\ WithinReach /\ [Next]_vars =>
        [pc = "insert" /\ pc' = "idle" /\ Contents[arg.key] = None
           => Contents'[arg.key] = arg.val]_vars
  BY StepIsMap DEF Put
<1> QED BY Invariance, <1>1, PTL DEF Spec, PutSucceeds
=============================================================================
