------------------------------- MODULE Chance -------------------------------
(***************************************************************************)
(* What src/src/util/random.c makes of the numbers of its generator, which     *)
(* are taken as they come.  A draw is W bits of one.                         *)
(***************************************************************************)
EXTENDS Integers, Sequences, FiniteSets, SequencesExt

CONSTANTS W,       \* bits of a draw: 32 in the code
          WordBytes     \* bytes of a number of the generator: 8 in the code

MaxDraw == 2^W - 1

Draws == 0..MaxDraw

LOCAL Signed(x) == IF x >= 2^(W - 1) THEN x - 2^W ELSE x

\* Draws at and above the limit are thrown away.
Limit(span) == MaxDraw - (MaxDraw % span)

\* The first draw that is kept decides; a range of all the numbers has a span of 0.
random_range32(draws, min, max) ==
    LET span == (max - min + 1) % 2^W
        kept == SelectSeq(draws, LAMBDA r : r < Limit(span))
    IN  IF max < min THEN min ELSE (Head(kept) % span) + min

random_weights_init(weights) ==
    [i \in DOMAIN weights |-> FoldLeft(LAMBDA a, b : (a + b) % 2^W, 0, SubSeq(weights, 1, i))]

\* A binary search for the first weight above the key, or the last one.
search_weights(key, cum_weights) ==
    LET search[low, high \in 0 .. Len(cum_weights) - 1] ==
          IF low >= high THEN low
          ELSE LET mid == low + ((high - low) \div 2)
               IN  IF cum_weights[mid + 1] <= key THEN search[mid + 1, high] ELSE search[low, mid]
    IN  search[0, Len(cum_weights) - 1]

random_weighted_choice(draws, cum_weights) ==
    search_weights(random_range32(draws, 0, Signed((Last(cum_weights) - 1) % 2^W)), cum_weights)

random_bool(draws, chance, out_of) ==
    LET most == IF chance > out_of THEN out_of ELSE chance
    IN  out_of >= 1 /\ random_weighted_choice(draws, <<out_of - most, out_of>>) = 1

\* The addresses written: bytes up to a word's boundary, whole words, and bytes.
random_bytes(dest, dest_size) ==
    LET apart == (WordBytes - (dest % WordBytes)) % WordBytes
        head  == IF apart < dest_size THEN apart ELSE dest_size
        words == (dest_size - head) \div WordBytes
        tail  == dest_size - head - WordBytes * words
    IN  [k \in 1..head |-> [at |-> dest + k - 1, size |-> 1]]
        \o [k \in 1..words |-> [at |-> dest + head + WordBytes * (k - 1), size |-> WordBytes]]
        \o [k \in 1..tail |-> [at |-> dest + head + WordBytes * words + k - 1, size |-> 1]]

----------------------------------------------------------------------------
\* Every value of a range that is not all numbers has the same number of draws, and more
\* than half of the draws are kept.
RangeIsEven(min, max) ==
    LET span    == max - min + 1
        kept    == {r \in Draws : r < Limit(span)}
        times(v) == Cardinality({r \in kept : random_range32(<<r>>, min, max) = v})
    IN  max >= min /\ span < 2^W =>
        /\ \A v \in min..max : times(v) * span = Cardinality(kept)
        /\ 2 * Cardinality(kept) >= MaxDraw

\* Choices have draws in the proportion of their weights, and so has a chance, as long as
\* all of the weights together are a positive number.
ChoicesAgree(weights) ==
    LET sum  == FoldLeft(LAMBDA a, b : a + b, 0, weights)
        cum  == random_weights_init(weights)
        kept == {r \in Draws : r < Limit(sum)}
        times(i) == Cardinality({r \in kept : random_weighted_choice(<<r>>, cum) = i - 1})
        hits == Cardinality({r \in kept : random_bool(<<r>>, weights[1], sum)})
    IN  sum \in 1 .. 2^(W - 1) =>
        /\ \A i \in DOMAIN weights : times(i) * sum = weights[i] * Cardinality(kept)
        /\ hits * sum = weights[1] * Cardinality(kept)

\* Every byte of the buffer is written once, none beside it, and a word on its boundary.
BytesAreFilled(dest, size) ==
    LET writes == random_bytes(dest, size)
    IN  /\ \A b \in dest - WordBytes .. dest + size + WordBytes :
              Cardinality({k \in DOMAIN writes : b \in writes[k].at .. writes[k].at + writes[k].size - 1})
              = IF b \in dest .. dest + size - 1 THEN 1 ELSE 0
        /\ \A k \in DOMAIN writes : writes[k].at % writes[k].size = 0

=============================================================================
