-------------------------------- MODULE DHash --------------------------------
(***************************************************************************)
(* The Robin Hood hash table of src/src/util/dhash.c, which holds the      *)
(* property database, the property names and the log index.                *)
(*                                                                         *)
(* Open addressing with linear probing: each bucket remembers how many     *)
(* probes its entry took, an entry that came further evicts one that came  *)
(* less far, a removed entry leaves a tombstone that keeps its count, and  *)
(* a search gives up at the first bucket whose count is below its own.     *)
(* Whether a present key is always found again depends on all four.  One   *)
(* turn of a probing loop is one step.                                     *)
(***************************************************************************)
EXTENDS Integers, Sequences, FiniteSets

CONSTANTS Keys,       \* the keys in use
          ZeroKey,    \* the key that a cleared bucket compares equal to
          Values,
          None,       \* no key, no value
          Hash,       \* dh__hash of each key
          Sizes,      \* bucket counts the table may have: the first, then on growth
          MaxProbe,   \* MAX_PROBE_COUNT
          ProbeBound  \* bound: no insertion starts above this probe count

ASSUME SizesAssumption == Sizes \in Seq(Nat \ {0}) /\ Sizes # <<>>
ASSUME HashAssumption == Hash \in [Keys -> Nat]
ASSUME NoneAssumption == None \notin Keys /\ None \notin Values
ASSUME ProbeAssumption == MaxProbe \in Nat \ {0} /\ ProbeBound \in Nat

\* MAX_LOAD_FACTOR
MaxLoad(n) == (n * 15) \div 16

\* dh__grow goes to a larger prime: the table has room for more entries than before.
ASSUME GrowthAssumption ==
  \A i \in 1..(Len(Sizes) - 1) : MaxLoad(Sizes[i]) < MaxLoad(Sizes[i + 1])

VARIABLES
  level,    \* which of Sizes the table has
  bkt,      \* the bucket array
  used,     \* used_buckets
  pc,       \* the loop the call under way is in
  op, arg,  \* the call: "insert", "lookup" or "remove", and its key and value
  hand,     \* the key and value that dh__insert_ex is finding a place for
  b, probes,\* its bucket and probe count, or dh__find_bucket's
  placed,   \* history: the key being inserted has had a bucket of its own
  old,      \* dh__grow: buckets still to copy
  answer    \* what the last dh_lookup delivered

call == <<op, arg>>
loop == <<pc, hand, b, probes, placed>>
vars == <<level, bkt, used, call, loop, old, answer>>

Empty    == [key |-> None, val |-> None, count |-> 0, deleted |-> FALSE]
Tombstone(n) == [key |-> None, val |-> None, count |-> n, deleted |-> TRUE]
Nothing  == [key |-> None, val |-> None]
Size     == Sizes[level]
Buckets  == 0..(Size - 1)
NewTable(n) == [i \in 0..(n - 1) |-> Empty]

InUse(e) == e.count # 0

\* dh__initial_probe
FirstProbe(k, n) == Hash[k] % n

\* Mutant: no wraparound.
NextBucketUnwrapped(i) == i + 1

\* next_bucket
NextBucket(i) == IF i + 1 >= Size THEN i + 1 - Size ELSE i + 1

\* The hashes and then the keys are equal; removing an entry clears both.
Match(e, k) == e.key = k \/ (e.deleted /\ e.key = None /\ k = ZeroKey)

Pairs   == [key : Keys \union {None}, val : Values \union {None}]
Entries == [key : Keys \union {None}, val : Values \union {None},
            count : 0..MaxProbe, deleted : BOOLEAN]

TypeOK ==
  /\ level \in DOMAIN Sizes
  /\ bkt \in [Buckets -> Entries]
  /\ used \in 0..Size
  /\ pc \in {"idle", "find", "insert", "grow", "regrow"}
  /\ op \in {"none", "insert", "lookup", "remove"}
  /\ arg \in Pairs /\ hand \in Pairs
  /\ b \in Buckets
  /\ probes \in 0..MaxProbe /\ placed \in BOOLEAN
  /\ old \in Seq(Entries)
  /\ answer \in Values \union {None}

Init ==
  /\ level = 1 /\ bkt = NewTable(Sizes[1]) /\ used = 0
  /\ pc = "idle" /\ op = "none" /\ arg = Nothing /\ hand = Nothing
  /\ b = 0 /\ probes = 0 /\ placed = FALSE /\ old = <<>> /\ answer = None

-----------------------------------------------------------------------------
(* Calls start and end. *)

Return == /\ pc' = "idle" /\ op' = "none" /\ arg' = Nothing
          /\ hand' = Nothing /\ b' = 0 /\ probes' = 0 /\ placed' = FALSE

\* dh__insert_ex starts to place an item in a table of n buckets.
Place(item, n, where) == /\ pc' = where
                         /\ hand' = item
                         /\ b' = FirstProbe(item.key, n) /\ probes' = 1
                         /\ placed' = (where = "regrow")

BeginInsert(k, v) ==
  /\ pc = "idle"
  /\ \A i \in Buckets : bkt[i].count <= ProbeBound
  /\ op' = "insert" /\ arg' = [key |-> k, val |-> v]
  /\ IF used >= MaxLoad(Size)
     THEN pc' = "grow" /\ UNCHANGED <<hand, b, probes, placed>>
     ELSE Place([key |-> k, val |-> v], Size, "insert")
  /\ UNCHANGED <<level, bkt, used, old, answer>>

\* dh__grow gets no larger array, for want of memory or because the storage is
\* external: the insertion fails.
GrowFails ==
  /\ pc = "grow" /\ old = <<>>
  /\ Return
  /\ UNCHANGED <<level, bkt, used, old, answer>>

\* Mutants: the last bucket is not copied; used_buckets is not reset.
GrowBeginsShort ==
  /\ pc = "grow" /\ old = <<>> /\ level < Len(Sizes)
  /\ level' = level + 1
  /\ old' = [i \in 1..(Size - 1) |-> bkt[i - 1]]
  /\ bkt' = NewTable(Sizes[level + 1])
  /\ used' = 0
  /\ UNCHANGED <<call, loop, answer>>

GrowBeginsCounted ==
  /\ pc = "grow" /\ old = <<>> /\ level < Len(Sizes)
  /\ level' = level + 1
  /\ old' = [i \in 1..Size |-> bkt[i - 1]]
  /\ bkt' = NewTable(Sizes[level + 1])
  /\ UNCHANGED <<used, call, loop, answer>>

\* The old array is set aside to be copied bucket by bucket.
GrowBegins ==
  /\ pc = "grow" /\ old = <<>> /\ level < Len(Sizes)
  /\ level' = level + 1
  /\ old' = [i \in 1..Size |-> bkt[i - 1]]
  /\ bkt' = NewTable(Sizes[level + 1])
  /\ used' = 0
  /\ UNCHANGED <<call, loop, answer>>

\* The next live entry of the old array is inserted, or, at its end, the item
\* whose insertion made the table grow.
GrowCopies ==
  /\ pc = "grow" /\ old # <<>>
  /\ LET item == Head(old)
     IN  IF InUse(item) /\ ~item.deleted
         THEN Place([key |-> item.key, val |-> item.val], Size, "regrow")
         ELSE IF Tail(old) = <<>> THEN Place(arg, Size, "insert")
         ELSE UNCHANGED loop
  /\ old' = Tail(old)
  /\ UNCHANGED <<level, bkt, used, call, answer>>

\* dh__insert_ex is done with one item: so is dh_insert, or dh__grow goes on.
Placed == IF pc = "regrow"
          THEN IF old = <<>> THEN Place(arg, Size, "insert") /\ UNCHANGED call
               ELSE /\ pc' = "grow" /\ hand' = Nothing /\ b' = 0 /\ probes' = 0
                    /\ placed' = FALSE /\ UNCHANGED call
          ELSE Return

-----------------------------------------------------------------------------
(* dh__insert_ex: one turn of its loop. *)

Inserting == pc \in {"insert", "regrow"}
HandIn(n, removed) == [key |-> hand.key, val |-> hand.val, count |-> n, deleted |-> removed]

\* A bucket never used before.
InsertFresh ==
  /\ Inserting /\ ~InUse(bkt[b])
  /\ bkt' = [bkt EXCEPT ![b] = HandIn(probes, @.deleted)]
  /\ used' = used + 1
  /\ Placed
  /\ UNCHANGED <<level, old, answer>>

\* The key is there: its value is replaced.
InsertReplace ==
  /\ Inserting /\ InUse(bkt[b]) /\ Match(bkt[b], hand.key)
  /\ bkt' = [bkt EXCEPT ![b] = HandIn(@.count, @.deleted)]
  /\ Placed
  /\ UNCHANGED <<level, used, old, answer>>

\* The key is there, but the replace_item callback refuses.
InsertRefused ==
  /\ Inserting /\ InUse(bkt[b]) /\ Match(bkt[b], hand.key)
  /\ Placed
  /\ UNCHANGED <<level, bkt, used, old, answer>>

\* Mutants: any removed entry gives way; it gives way uncounted; its mark stays.
InsertTombstoneAny ==
  /\ Inserting /\ InUse(bkt[b]) /\ ~Match(bkt[b], hand.key)
  /\ bkt[b].deleted
  /\ bkt' = [bkt EXCEPT ![b] = HandIn(probes, FALSE)]
  /\ used' = used + 1
  /\ Placed
  /\ UNCHANGED <<level, old, answer>>

InsertTombstoneUncounted ==
  /\ Inserting /\ InUse(bkt[b]) /\ ~Match(bkt[b], hand.key)
  /\ bkt[b].count < probes /\ bkt[b].deleted
  /\ bkt' = [bkt EXCEPT ![b] = HandIn(probes, FALSE)]
  /\ Placed
  /\ UNCHANGED <<level, used, old, answer>>

InsertTombstoneMarked ==
  /\ Inserting /\ InUse(bkt[b]) /\ ~Match(bkt[b], hand.key)
  /\ bkt[b].count < probes /\ bkt[b].deleted
  /\ bkt' = [bkt EXCEPT ![b] = HandIn(probes, @.deleted)]
  /\ used' = used + 1
  /\ Placed
  /\ UNCHANGED <<level, old, answer>>

\* A removed entry that had probed less far gives way.
InsertTombstone ==
  /\ Inserting /\ InUse(bkt[b]) /\ ~Match(bkt[b], hand.key)
  /\ bkt[b].count < probes /\ bkt[b].deleted
  /\ bkt' = [bkt EXCEPT ![b] = HandIn(probes, FALSE)]
  /\ used' = used + 1
  /\ Placed
  /\ UNCHANGED <<level, old, answer>>

\* On to the next bucket with an item that has probed p buckets, unless that is
\* as far as can be counted: then the item in hand is dropped.
ProbeOn(item, p) ==
  IF p < MaxProbe
  THEN /\ hand' = item /\ b' = NextBucket(b) /\ probes' = p + 1
       /\ placed' = (placed \/ item # hand)
       /\ UNCHANGED <<pc, call>>
  ELSE Placed

\* Time to steal from the rich: an entry that had probed less far is evicted.
InsertSwap ==
  /\ Inserting /\ InUse(bkt[b]) /\ ~Match(bkt[b], hand.key)
  /\ bkt[b].count < probes /\ ~bkt[b].deleted
  /\ bkt' = [bkt EXCEPT ![b] = HandIn(probes, @.deleted)]
  /\ ProbeOn([key |-> bkt[b].key, val |-> bkt[b].val], bkt[b].count)
  /\ UNCHANGED <<level, used, old, answer>>

InsertProbe ==
  /\ Inserting /\ InUse(bkt[b]) /\ ~Match(bkt[b], hand.key)
  /\ bkt[b].count >= probes
  /\ ProbeOn(hand, probes)
  /\ UNCHANGED <<level, bkt, used, old, answer>>

-----------------------------------------------------------------------------
(* dh__find_bucket, with dh_lookup or dh_remove around it. *)

BeginFind(k, what) ==
  /\ pc = "idle"
  /\ op' = what /\ arg' = [key |-> k, val |-> None]
  /\ pc' = "find" /\ b' = FirstProbe(k, Size) /\ probes' = 1
  /\ UNCHANGED <<level, bkt, used, hand, placed, old, answer>>

\* Mutant: a search ends at an entry that has come as far as itself.
NotHereEarly == ~InUse(bkt[b]) \/ probes >= bkt[b].count

\* An entry that had probed less far than the search: the key cannot be beyond.
NotHere == ~InUse(bkt[b]) \/ probes > bkt[b].count
Here    == ~NotHere /\ ~bkt[b].deleted /\ Match(bkt[b], arg.key)

FindFails ==
  /\ pc = "find"
  /\ NotHere \/ (~Here /\ probes >= MaxProbe)
  /\ answer' = IF op = "lookup" THEN None ELSE answer
  /\ Return
  /\ UNCHANGED <<level, bkt, used, old>>

FindProbes ==
  /\ pc = "find" /\ ~NotHere /\ ~Here /\ probes < MaxProbe
  /\ b' = NextBucket(b) /\ probes' = probes + 1
  /\ UNCHANGED <<level, bkt, used, pc, call, hand, placed, old, answer>>

LookupFinds ==
  /\ pc = "find" /\ op = "lookup" /\ Here
  /\ answer' = bkt[b].val
  /\ Return
  /\ UNCHANGED <<level, bkt, used, old>>

\* Mutant: the bucket becomes as good as new.
RemoveFindsClears ==
  /\ pc = "find" /\ op = "remove" /\ Here
  /\ bkt' = [bkt EXCEPT ![b] = Empty]
  /\ used' = used - 1
  /\ Return
  /\ UNCHANGED <<level, old, answer>>

\* The bucket becomes a tombstone that keeps its probe count.
RemoveFinds ==
  /\ pc = "find" /\ op = "remove" /\ Here
  /\ bkt' = [bkt EXCEPT ![b] = Tombstone(@.count)]
  /\ used' = used - 1
  /\ Return
  /\ UNCHANGED <<level, old, answer>>

-----------------------------------------------------------------------------
Begin == \E k \in Keys : \/ \E v \in Values : BeginInsert(k, v)
                         \/ \E what \in {"lookup", "remove"} : BeginFind(k, what)

Step == \/ GrowFails \/ GrowBegins \/ GrowCopies
        \/ InsertFresh \/ InsertReplace \/ InsertRefused \/ InsertTombstone
        \/ InsertSwap \/ InsertProbe
        \/ FindFails \/ FindProbes \/ LookupFinds \/ RemoveFinds

Next == Begin \/ Step

Spec == Init /\ [][Next]_vars

-----------------------------------------------------------------------------
(* Properties. *)

Live(e) == InUse(e) /\ ~e.deleted

\* The map the table stands for: its live entries, those that dh__grow has yet
\* to copy, and the evicted entry that is in hand.
Stored == {[key |-> bkt[i].key, val |-> bkt[i].val] : i \in {j \in Buckets : Live(bkt[j])}}
Uncopied == {[key |-> old[i].key, val |-> old[i].val] :
               i \in {j \in DOMAIN old : Live(old[j])}}
Evicted == IF placed THEN {hand} ELSE {}
Held == Stored \union Uncopied \union Evicted
MapOf(items) ==
  [k \in Keys |-> LET there == {x \in items : x.key = k}
                  IN  IF there = {} THEN None ELSE (CHOOSE x \in there : TRUE).val]
Contents == MapOf(Held)

\* Whatever is evicted, buried, reused or copied on the way, the table is a map:
\* a lookup or removal finds exactly the keys put in and not removed since, and
\* an insertion disturbs no other key.
Map == INSTANCE KeyMap WITH map <- Contents, request <- <<op, arg.key, arg.val>>
ImplementsMap == Map!Spec

\* The Robin Hood order: an entry of count c sits on the c-th bucket of its probe
\* sequence, and no bucket before it has a count that would end a search early.
Path(k, d) == (Hash[k] + d - 1) % Size
ReachedAt(k, c) == \A d \in 1..(c - 1) : bkt[Path(k, d)].count >= d
Reachable ==
  /\ \A i \in Buckets : Live(bkt[i]) =>
       /\ i = Path(bkt[i].key, bkt[i].count)
       /\ ReachedAt(bkt[i].key, bkt[i].count)
  /\ pc \in {"insert", "regrow"} => b = Path(hand.key, probes) /\ ReachedAt(hand.key, probes)

\* No key is stored twice, not even across an eviction or a half-copied table.
NoDuplicates ==
  /\ \A i, j \in Buckets : Live(bkt[i]) /\ Live(bkt[j]) /\ bkt[i].key = bkt[j].key => i = j
  /\ \A x \in Evicted : x \notin Stored \union Uncopied
  /\ {x.key : x \in Stored} \intersect {x.key : x \in Uncopied} = {}

\* used_buckets counts the live entries, so dh_insert's load check always leaves
\* its probing loop a bucket to end on.
UsedIsLive ==
  /\ used = Cardinality({i \in Buckets : Live(bkt[i])})
  /\ used <= MaxLoad(Size)
  /\ pc = "insert" => used < MaxLoad(Size)

\* dh_insert of a new key, with room for it, succeeds: the key is there.
PutSucceeds ==
  [][pc = "insert" /\ pc' = "idle" /\ Contents[arg.key] = None
       => Contents'[arg.key] = arg.val]_vars
=============================================================================
