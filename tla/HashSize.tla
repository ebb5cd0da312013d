------------------------------ MODULE HashSize ------------------------------
(***************************************************************************)
(* How many buckets a table of src/src/util/dhash.c has, from its creation     *)
(* over its growth to what it has room for, and the loops over all of its     *)
(* buckets.  A bucket with its value has BucketBytes bytes; memory has a      *)
(* limit, as large as the allocator's largest block.                        *)
(***************************************************************************)
EXTENDS Integers, Sequences, SequencesExt

CONSTANTS Primes,          \* s_prime_modulus
          BucketBytes

----------------------------------------------------------------------------
(* src/src/util/search.c: binary searches of a sorted array, with a comparison  *)
(* that returns the distance from an item to the key.  Indices are those of C,  *)
(* from 0; a result below 0 stands for none.                                *)
LOCAL At(a, i) == a[i + 1]

\* compare_near of the usage example, for an array sorted upwards or downwards.
Delta(key, item, up) == IF up THEN key - item ELSE item - key

\* The loop all searches share: where it stops, and the bounds it stops with.
BinarySearch(key, a, up) ==
    LET go[b \in (-1 .. Len(a)) \X (-1 .. Len(a))] ==
          LET low  == b[1]
              high == b[2]
              mid  == low + (high - low) \div 2
              d    == Delta(key, At(a, mid), up)
          IN  CASE low > high -> [found |-> FALSE, low |-> low, high |-> high]
                [] low <= high /\ d < 0 -> go[<<low, mid - 1>>]
                [] low <= high /\ d > 0 -> go[<<mid + 1, high>>]
                [] low <= high /\ d = 0 -> [found |-> TRUE, low |-> mid, high |-> mid]
    IN  go[<<0, Len(a) - 1>>]

search_exact(key, a, up) ==
    LET r == BinarySearch(key, a, up) IN IF r.found THEN r.low ELSE -1

\* GEN_BSEARCH_FUNC: the address of the item, -1 for NULL.
GenBsearch(key, a, up) == search_exact(key, a, up)

\* The bounds check that follows the loop, left out.
NearestUnchecked(key, a, up) ==
    LET r == BinarySearch(key, a, up) IN IF r.found THEN r.low ELSE r.high

search_nearest(key, a, up) ==
    LET r == BinarySearch(key, a, up)
        above == Delta(At(a, r.low), key, up)
        below == Delta(key, At(a, r.high), up)
    IN  CASE r.found -> r.low
          [] ~r.found /\ r.low >= Len(a) -> Len(a) - 1
          [] ~r.found /\ r.low < Len(a) /\ r.high < 0 -> 0
          [] ~r.found /\ r.low < Len(a) /\ r.high >= 0 -> IF below < above THEN r.high ELSE r.low

search_nearest_above(key, a, up) ==
    LET ix == search_nearest(key, a, up)
    IN  IF ix < Len(a) - 1 /\ Delta(key, At(a, ix), up) > 0 THEN ix + 1 ELSE ix

search_nearest_below(key, a, up) ==
    LET ix == search_nearest(key, a, up)
    IN  IF ix > 0 /\ Delta(key, At(a, ix), up) < 0 THEN ix - 1 ELSE ix

LOCAL Indices(a) == 0 .. Len(a) - 1
LOCAL Abs(x) == IF x < 0 THEN -x ELSE x

\* An exact search finds the key where there is one.
ExactAgrees(key, a, up) ==
    LET ix == search_exact(key, a, up)
        has == {i \in Indices(a) : At(a, i) = key}
    IN  /\ IF has = {} THEN ix = -1 ELSE ix \in has
        /\ GenBsearch(key, a, up) = ix

\* The nearest search returns a valid index and no item is closer to the key; the
\* coerced ones step over the key whenever an item on that side exists, to the first.
NearestAgrees(key, a, up) ==
    LET ix == search_nearest(key, a, up)
        above == search_nearest_above(key, a, up)
        below == search_nearest_below(key, a, up)
        over  == {i \in Indices(a) : Delta(key, At(a, i), up) <= 0}
        under == {i \in Indices(a) : Delta(key, At(a, i), up) >= 0}
    IN  a # <<>> =>
          /\ {ix, above, below} \subseteq Indices(a)
          /\ \A i \in Indices(a) : Abs(key - At(a, ix)) <= Abs(key - At(a, i))
          /\ over # {} => above \in over
                          /\ \A i \in over : Abs(key - At(a, above)) <= Abs(key - At(a, i))
          /\ under # {} => below \in under
                          /\ \A i \in under : Abs(key - At(a, below)) <= Abs(key - At(a, i))

\* An empty array has no valid index: num - 1 wraps to the largest size.
EmptyHasNoIndex(key, up) == search_nearest(key, <<>>, up) = -1

----------------------------------------------------------------------------
(* Buckets.                                                                *)
MAX_LOAD_FACTOR(n) == (n * 15) \div 16

\* From the index of C; past the list it is the last one.
get_prime(prime_ix) == Primes[IF prime_ix >= Len(Primes) THEN Len(Primes) ELSE prime_ix + 1]

get_closest_prime_index(n) == search_nearest_above(n, Primes, TRUE)

get_closest_prime_index_below(n) == search_nearest_below(n, Primes, TRUE)

NoTable == [num_buckets |-> 0, used_buckets |-> 0, static |-> FALSE, max_storage |-> 0]

dh__alloc_buckets(n, memory) == (IF n < Primes[1] THEN Primes[1] ELSE n) * BucketBytes <= memory

\* A table of n buckets, or of the ext_n that storage from outside has room for, or the
\* old one as it was; the owner may refuse with its grow_hash.
LOCAL Sized(begun, hash, cfg, memory, new_hash, n, ext_n) ==
    LET most == cfg.max_storage \div BucketBytes
    IN  IF ~cfg.ext_storage /\ ((cfg.max_storage > 0 /\ n > most) \/ cfg.refuses) THEN [ok |-> FALSE, hash |-> hash]
        ELSE IF new_hash /\ cfg.ext_storage
             THEN [ok |-> TRUE, hash |-> [begun EXCEPT !.num_buckets = ext_n, !.static = TRUE]]
        ELSE IF hash.static \/ ~dh__alloc_buckets(n, memory) THEN [ok |-> FALSE, hash |-> begun]
        ELSE [ok |-> TRUE, hash |-> [begun EXCEPT !.num_buckets = n]]

dh__init(hash, cfg, memory, new_hash) ==
    Sized(IF new_hash THEN [NoTable EXCEPT !.max_storage = cfg.max_storage] ELSE hash, hash, cfg, memory, new_hash,
          get_prime(get_closest_prime_index(cfg.init_buckets)),
          get_prime(get_closest_prime_index_below(cfg.max_storage \div BucketBytes)))

dh_init(cfg, memory) == dh__init(NoTable, cfg, memory, TRUE)

\* The items are put in again, so there are as many as before.
dh__grow(hash, new_buckets, memory, refuses) ==
    IF hash.static THEN [ok |-> FALSE, hash |-> hash]
    ELSE dh__init(hash, [init_buckets |-> IF new_buckets <= hash.num_buckets THEN hash.num_buckets + 1 ELSE new_buckets,
                         max_storage |-> hash.max_storage, ext_storage |-> FALSE, refuses |-> refuses], memory, FALSE)

dh_num_items(hash) == hash.used_buckets

dh_cur_capacity(hash) == MAX_LOAD_FACTOR(hash.num_buckets)

LOCAL Counted(r) == [r EXCEPT !.hash.used_buckets = @ + (IF r.ok THEN 1 ELSE 0)]

\* A new key; the probing itself finds a bucket.
dh_insert(hash, memory, refuses) ==
    Counted(IF hash.used_buckets >= MAX_LOAD_FACTOR(hash.num_buckets) THEN dh__grow(hash, 0, memory, refuses)
            ELSE [ok |-> TRUE, hash |-> hash])

dh_load_factor(hash) ==
    IF hash.num_buckets = 0 THEN 0 ELSE (hash.used_buckets * 100 + 50) \div hash.num_buckets

dh_reserve_capacity(hash, add_capacity, memory, refuses) ==
    LET free == dh_cur_capacity(hash) - dh_num_items(hash)
        new_buckets == ((dh_cur_capacity(hash) + (add_capacity - free)) * 128) \div MAX_LOAD_FACTOR(128)
    IN  IF add_capacity <= free THEN [ok |-> TRUE, hash |-> hash]
        ELSE IF hash.static THEN [ok |-> FALSE, hash |-> hash]
        ELSE dh__grow(hash, new_buckets, memory, refuses)

----------------------------------------------------------------------------
(* The loops over all buckets: a bucket is a key, its probe count and a mark. *)
Live(e) == e.probe_count # 0 /\ ~e.deleted

\* The entries given to the visitor, which ends the loop when it has seen enough.
dh_foreach(buckets, enough) ==
    FoldLeft(LAMBDA seen, e : IF Live(e) /\ Len(seen) < enough THEN Append(seen, e.key) ELSE seen, <<>>, buckets)

dh_free(buckets) == [destroyed |-> dh_foreach(buckets, Len(buckets)), num_buckets |-> 0]

\* The bucket of the next entry, or the number of buckets behind the last.
dh_iter_init == -1

dh_iter_next(buckets, bucket) ==
    LET later == {b \in (bucket + 1) .. (Len(buckets) - 1) : Live(buckets[b + 1])}
    IN  IF later = {} THEN Len(buckets) ELSE CHOOSE b \in later : \A c \in later : b <= c

LOCAL Probes(buckets) == {<<b, buckets[b].probe_count>> : b \in {c \in DOMAIN buckets : Live(buckets[c])}}

dh_mean_probe_count(hash, buckets) ==
    LET total == FoldLeft(LAMBDA sum, e : IF Live(e) THEN sum + e.probe_count ELSE sum, 0, buckets)
    IN  IF hash.used_buckets > 0 THEN (total * 100 + 50) \div hash.used_buckets ELSE 0

dh_max_probe_count(buckets) ==
    FoldLeft(LAMBDA max, e : IF Live(e) /\ e.probe_count > max THEN e.probe_count ELSE max, 0, buckets)

----------------------------------------------------------------------------
\* A table has room for what it was made or reserved for and never more bytes than it may
\* use; what fails leaves it as it was, and what was reserved goes in without growth.
\* Except that a reservation is one bucket short where rounding hits a prime, and storage
\* from outside that is too small for the first prime is taken all the same.
SizesAgree(cfg, memory, reserved, refuses) ==
    \A made \in {dh_init(cfg, memory)} :
    LET limit == IF cfg.max_storage > 0 THEN cfg.max_storage ELSE memory
        fits(h) == h.num_buckets * BucketBytes <= limit
        tiny == cfg.ext_storage /\ cfg.max_storage < Primes[1] * BucketBytes
    IN  made.ok =>
        /\ made.hash.num_buckets \in Range(Primes)
        /\ ~tiny => fits(made.hash)
        /\ cfg.ext_storage \/ made.hash.num_buckets >= cfg.init_buckets \/ cfg.init_buckets > Last(Primes)
        /\ \A used \in 0 .. dh_cur_capacity(made.hash) :
           \A h \in {[made.hash EXCEPT !.used_buckets = used]} :
           \A r \in {dh_reserve_capacity(h, reserved, memory, refuses)} :
              /\ ~r.ok => r.hash = h
              /\ ~tiny => fits(r.hash)
              /\ r.ok /\ used + reserved < Last(Primes) => dh_cur_capacity(r.hash) >= used + reserved - 1
              /\ r.ok => LET in == FoldLeft(LAMBDA t, k : dh_insert(t.hash, memory, refuses), r,
                                            [k \in 1 .. reserved - 1 |-> k])
                         IN  used + reserved < Last(Primes) =>
                                in.ok /\ in.hash.num_buckets = r.hash.num_buckets /\ dh_load_factor(in.hash) <= 100
        /\ dh_load_factor(NoTable) = 0

\* Every entry is visited once and in the same order by each of the loops, a removed one
\* never, and the mean of the probe counts lies between the least and the most.
ItemsAreVisited(buckets, enough) ==
    LET live == SelectSeq(buckets, Live)
        keys == [i \in DOMAIN live |-> live[i].key]
        hash == [NoTable EXCEPT !.num_buckets = Len(buckets), !.used_buckets = Len(live)]
        step(st, k) == LET b == dh_iter_next(buckets, st.at)
                       IN  IF b = Len(buckets) THEN [st EXCEPT !.at = b] ELSE [at |-> b, seen |-> Append(st.seen, buckets[b + 1].key)]
        all  == FoldLeft(step, [at |-> dh_iter_init, seen |-> <<>>], [k \in 1 .. Len(buckets) + 1 |-> k])
        counts == {p[2] : p \in Probes(buckets)}
        most == dh_max_probe_count(buckets)
    IN  /\ all.seen = keys /\ all.at = Len(buckets)
        /\ dh_free(buckets).destroyed = keys
        /\ dh_foreach(buckets, enough) = SubSeq(keys, 1, IF enough < Len(keys) THEN enough ELSE Len(keys))
        /\ most = 0 <=> counts = {}
        /\ \A c \in counts : c <= most
        /\ counts # {} => most \in counts /\ (dh_mean_probe_count(hash, buckets) \div 100) <= most
        /\ \A c \in counts : (\A d \in counts : c <= d) => dh_mean_probe_count(hash, buckets) >= 100 * c

=============================================================================
