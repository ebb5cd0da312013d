------------------------------ MODULE MemPool -------------------------------
(***************************************************************************)
(* The memory pools of src/src/util/mempool.c: pools of equal elements, a  *)
(* set of pools kept in order of element size, and a free list threaded    *)
(* through the elements of each pool.  Addresses are byte addresses.  Each *)
(* call is one step: its changes are made under the lock of the pool set.  *)
(*                                                                         *)
(* Counted elements (mp_alloc_with_ref) are taken when Counted is TRUE;    *)
(* nothing under src/src takes one.                                        *)
(***************************************************************************)
EXTENDS Integers, FiniteSetsExt, SequencesExt

CONSTANTS Kinds,      \* pools that can be made: [at, len, size, align, static, elements]
          Requests,   \* sizes that are asked for
          Marks,      \* contents that clients write
          Header,     \* sizeof(mpPool)
          Chunk,      \* sizeof(mpPoolChunk)
          Counted,    \* whether clients take counted elements
          MaxRefs     \* bound: references to a counted element

Count == 4            \* sizeof(mpRefCount)
Spent == "spent"      \* what a chunk on the free list holds: next and sentinel

RoundUp(n, a) == ((n + a - 1) \div a) * a

\* The memory of each pool is its own, and has room for an element and for what mp_create_pool
\* asks for (mempool.c:316) or MP_STATIC_PADDING adds (332-334).
SizeAssumption ==
  /\ Header \in Nat /\ Chunk \in Nat \ {0} /\ Requests \subseteq Nat
  /\ \A p \in DOMAIN Kinds :
       LET k == Kinds[p]
           Needs(n) == Header + k.align - 1 + n * RoundUp(k.size, k.align)
       IN  /\ k.at \in Nat /\ k.len \in Nat /\ k.elements \in Nat /\ k.static \in BOOLEAN
           /\ k.size \in Nat \ {0} /\ k.align \in Nat \ {0}
           /\ IF k.static THEN RoundUp(k.at, 8) + Needs(1) <= k.at + k.len
                          ELSE k.elements > 0 /\ Needs(k.elements) <= k.len
  /\ \A p, q \in DOMAIN Kinds :
       p # q => Kinds[p].at + Kinds[p].len <= Kinds[q].at \/ Kinds[q].at + Kinds[q].len <= Kinds[p].at

VARIABLES set,        \* pool_set->pools, in list order
          pool,       \* the mpPool of each kind that was made
          mem,        \* what was last written at the start of an element
          counts,     \* the reference counts that were initialised
          held,       \* the elements clients hold, and the mark each wrote
          asked       \* history: the last request and its answer

poolVars == <<set, pool, mem, counts, held, asked>>

\* A function with one value more, or changed.
With(f, x, y) == [z \in DOMAIN f \cup {x} |-> IF z = x THEN y ELSE f[z]]

NoRequest == [size |-> 0, align |-> 1, pool |-> 0]

-----------------------------------------------------------------------------
(* mp_create_pool and mp_create_static_pool. *)

LayoutUnpadded(k) ==   \* mutant: the padding for the alignment is not reserved
  LET size  == RoundUp(k.size, k.align)
      begin == RoundUp(k.at + Header, k.align)
      n     == IF k.static THEN (k.len - Header) \div size ELSE k.elements
  IN  [begin |-> begin, end |-> begin + n * size, size |-> size]

\* Where the elements of a pool are and how many fit.
Layout(k) ==
  LET at    == IF k.static THEN RoundUp(k.at, 8) ELSE k.at
      size  == RoundUp(k.size, k.align)
      begin == RoundUp(at + Header, k.align)
      len   == k.len - (at - k.at)
      n     == IF k.static THEN (len - (Header + k.align - 1)) \div size ELSE k.elements
  IN  [begin |-> begin, end |-> begin + n * size, size |-> size]

\* mp__init_pool: the free list takes an element even when none fits.
Chunks(l) == LET n == (l.end - l.begin) \div l.size
             IN  [i \in 1..(IF n = 0 THEN 1 ELSE n) |-> l.begin + (i - 1) * l.size]

NewPool(k) == LET l == Layout(k)
              IN  [begin |-> l.begin, end |-> l.end, size |-> l.size, free |-> Chunks(l),
                   spare |-> (l.end - l.begin) \div l.size,
                   low |-> (l.end - l.begin) \div l.size, disabled |-> FALSE]

TotalElements(p) == (pool[p].end - pool[p].begin) \div pool[p].size
InUse(p) == pool[p].spare # TotalElements(p)

PlaceLast(s, p) == Append(s, p)   \* mutant: the set is not kept sorted

\* mp_add_pool: before the first pool with larger elements.
Place(s, p) == LET larger == {i \in DOMAIN s : pool'[s[i]].size > pool'[p].size}
               IN  IF larger = {} THEN Append(s, p) ELSE InsertAt(s, Min(larger), p)

AddPool(p) ==
  /\ p \notin DOMAIN pool
  /\ pool' = With(pool, p, NewPool(Kinds[p]))
  /\ set' = Place(set, p)
  /\ asked' = NoRequest /\ UNCHANGED <<mem, counts, held>>

-----------------------------------------------------------------------------
(* mp_alloc and its variants. *)

Usable(p) == pool[p].free # <<>> /\ ~pool[p].disabled
Fitting(size) == {i \in DOMAIN set : Usable(set[i]) /\ pool[set[i]].size >= size}
Aligned(a) == {i \in DOMAIN set : Usable(set[i]) /\ Head(pool[set[i]].free) % a = 0}

TakeLeaving(pl, p) == [pl EXCEPT ![p].spare = @ - 1]   \* mutant: it stays on the list

\* mp__take_pool_element
Take(pl, p) == [pl EXCEPT ![p].free = Tail(@), ![p].spare = @ - 1,
                          ![p].low = IF pl[p].spare - 1 < @ THEN pl[p].spare - 1 ELSE @]

\* A client got the element at `at`, and writes it.
Hand(p, at, offset, counted, mark) ==
  /\ mem' = With(mem, at, mark)
  /\ held' = held \cup {[ptr |-> at + offset, mark |-> mark, counted |-> counted]}
  /\ pool' = Take(pool, p)

Answer(size, align, p) == asked' = [size |-> size, align |-> align, pool |-> p]

\* mp_alloc (align 1) and mp_alloc_aligned: only the first free element counts.
Alloc(size, align, mark) ==
  LET found == Fitting(size) \cap Aligned(align)
      p     == set[Min(found)]
  IN  /\ found # {}
      /\ Hand(p, Head(pool[p].free), 0, FALSE, mark)
      /\ Answer(size, align, p)
      /\ UNCHANGED <<set, counts>>

\* mp_alloc_best_effort: a fitting pool, else the last one with an element.
AllocBestEffort(size, mark) ==
  LET able == {i \in DOMAIN set : Usable(set[i])}
      p    == set[IF Fitting(size) # {} THEN Min(Fitting(size)) ELSE Max(able)]
  IN  /\ able # {}
      /\ Hand(p, Head(pool[p].free), 0, FALSE, mark)
      /\ Answer(IF Fitting(size) # {} THEN size ELSE pool[p].size, 1, p)
      /\ UNCHANGED <<set, counts>>

\* mp_alloc_with_ref: the pointer moves by Count chunks, not by Count bytes.
AllocWithRef(size, mark) ==
  LET found == Fitting(size + Count)
      p     == set[Min(found)]
      at    == Head(pool[p].free)
  IN  /\ Counted /\ found # {}
      /\ Hand(p, at, Count * Chunk, TRUE, mark)
      /\ counts' = With(counts, at, 1)
      /\ Answer(size + Count, 1, p)
      /\ UNCHANGED set

-----------------------------------------------------------------------------
(* mp_inc_ref, mp_free, mp_free_secure, mp_realloc. *)

\* mp__find_pool: the pools of the set an address is in.
Owner(ptr) == {p \in Range(set) : pool[p].begin <= ptr /\ ptr < pool[p].end}
OwnerOf(ptr) == set[Min({i \in DOMAIN set : set[i] \in Owner(ptr)})]

IsRefCounted(p, ptr) == (ptr - pool[p].begin) % pool[p].size = Count

\* mp_ref_count: the word before the element, 0 for one nobody initialised.
RefCount(ptr) == IF ptr - Count \in DOMAIN counts THEN counts[ptr - Count] ELSE 0

IncRef(h) == /\ h.counted /\ RefCount(h.ptr) < MaxRefs
             /\ counts' = With(counts, h.ptr - Count, RefCount(h.ptr) + 1)
             /\ asked' = NoRequest /\ UNCHANGED <<set, pool, mem, held>>

GiveUncounted(pl, p, at) == [pl EXCEPT ![p].free = <<at>> \o @]   \* mutant: spare stays

Give(pl, p, at) == [pl EXCEPT ![p].free = <<at>> \o @, ![p].spare = @ + 1]

\* mp_free of an element in the set, and what mp_free_secure does to it besides:
\* the free list is written over what is cleared.
GiveBack(h) ==
  LET p    == OwnerOf(h.ptr)
      ref  == IsRefCounted(p, h.ptr)
      at   == IF ref THEN h.ptr - Count ELSE h.ptr
      last == ~ref \/ RefCount(h.ptr) <= 1
  IN  /\ counts' = IF ref THEN With(counts, at, RefCount(h.ptr) - 1) ELSE counts
      /\ pool' = IF last THEN Give(pool, p, at) ELSE pool
      /\ mem' = IF last THEN With(mem, at, Spent) ELSE mem

Free(h) ==
  /\ IF Owner(h.ptr) = {} THEN UNCHANGED <<pool, mem, counts>> ELSE GiveBack(h)
  /\ held' = held \ {h}
  /\ asked' = NoRequest /\ UNCHANGED set

MoveUncopied(h, size) ==   \* mutant: the old content is not copied
  LET p  == set[Min(Fitting(size))]
      at == Head(pool[p].free)
  IN  /\ Fitting(size) # {} /\ pool[OwnerOf(h.ptr)].size < size
      /\ pool' = Give(Take(pool, p), OwnerOf(h.ptr), h.ptr)
      /\ mem' = With(mem, h.ptr, Spent)
      /\ held' = (held \ {h}) \cup {[ptr |-> at, mark |-> h.mark, counted |-> FALSE]}
      /\ Answer(size, 1, p) /\ UNCHANGED counts

\* mp_realloc to a larger element: allocate, copy, free; a counted element is
\* copied to one that is not.
Move(h, size) ==
  LET from  == OwnerOf(h.ptr)
      need  == IF IsRefCounted(from, h.ptr) THEN size + Count ELSE size
      p     == set[Min(Fitting(need))]
      at    == Head(pool[p].free)
      moved == With(mem, at, mem[h.ptr])
  IN  /\ h.ptr \in DOMAIN mem /\ pool[from].size < need
      /\ Fitting(need) # {}
      /\ LET taken == Take(pool, p)
             ref   == IsRefCounted(from, h.ptr)
             old   == IF ref THEN h.ptr - Count ELSE h.ptr
             last  == ~ref \/ RefCount(h.ptr) <= 1
         IN  /\ pool' = IF last THEN Give(taken, from, old) ELSE taken
             /\ mem' = IF last THEN With(moved, old, Spent) ELSE moved
             /\ counts' = IF ref THEN With(counts, old, RefCount(h.ptr) - 1) ELSE counts
      /\ held' = (held \ {h}) \cup {[ptr |-> at, mark |-> h.mark, counted |-> FALSE]}
      /\ Answer(need, 1, p)

Realloc(h, size) == /\ Owner(h.ptr) # {}
                    /\ IF size = 0 THEN GiveBack(h) /\ held' = held \ {h} /\ asked' = NoRequest
                       ELSE Move(h, size)
                    /\ UNCHANGED set

-----------------------------------------------------------------------------
(* mp_pool_enable, mp_release_pool, mp_release_pool_set. *)

PoolEnable(p) == /\ pool' = [pool EXCEPT ![p].disabled = ~@]
                 /\ asked' = NoRequest /\ UNCHANGED <<set, mem, counts, held>>

Released(p, in_use) == in_use \/ ~InUse(p)

\* The list keeps these pools, in the order they are in.
Keep(S) ==
  \E n \in 0..Len(set) : \E kept \in [1..n -> S] :
    /\ Range(kept) = S
    /\ \A i, j \in 1..n :
         i < j => \E k, l \in DOMAIN set : k < l /\ set[k] = kept[i] /\ set[l] = kept[j]
    /\ set' = kept

ReleasePool(p, in_use) == /\ p \in Range(set) /\ Released(p, in_use)
                          /\ Keep(Range(set) \ {p})
                          /\ asked' = NoRequest /\ UNCHANGED <<pool, mem, counts, held>>

ReleasePoolSet(in_use) == /\ Keep({q \in Range(set) : ~Released(q, in_use)})
                          /\ asked' = NoRequest /\ UNCHANGED <<pool, mem, counts, held>>

-----------------------------------------------------------------------------

PoolInit == /\ set = <<>> /\ pool = << >> /\ mem = << >> /\ counts = << >>
            /\ held = {} /\ asked = NoRequest

PoolNext == \/ \E p \in DOMAIN Kinds : AddPool(p)
            \/ \E size \in Requests, mark \in Marks : \/ \E a \in {1, 16} : Alloc(size, a, mark)
                                                      \/ AllocBestEffort(size, mark)
                                                      \/ AllocWithRef(size, mark)
            \/ \E h \in held : IncRef(h) \/ Free(h)
            \/ \E h \in held, size \in Requests \cup {0} : Realloc(h, size)
            \/ \E p \in DOMAIN pool : PoolEnable(p)
            \/ \E p \in DOMAIN pool, in_use \in BOOLEAN : ReleasePool(p, in_use)
            \/ \E in_use \in BOOLEAN : ReleasePoolSet(in_use)

PoolSpec == PoolInit /\ [][PoolNext]_poolVars

-----------------------------------------------------------------------------
\* Every pool, request and mark is one of those declared.
PoolTypeOK == /\ set \in Seq(DOMAIN Kinds) /\ DOMAIN pool \subseteq DOMAIN Kinds
              /\ \A p \in DOMAIN pool : pool[p].disabled \in BOOLEAN /\ pool[p].free \in Seq(Nat)
              /\ \A h \in held : h.ptr \in Nat /\ h.mark \in Marks

ElementsOf(p) == {pool[p].begin + i * pool[p].size : i \in 0..(TotalElements(p) - 1)}
InPool(p) == {h \in held : p \in Owner(h.ptr)}

\* Every element of a pool is either on the free list, once, or held by one
\* client: no call loses an element or hands it out twice, and no free list
\* leaves the pool's own elements.
EachElementOnce ==
  \A p \in Range(set) :
    /\ ElementsOf(p) = Range(pool[p].free) \cup {h.ptr : h \in InPool(p)}
    /\ \A i, j \in DOMAIN pool[p].free : i # j => pool[p].free[i] # pool[p].free[j]
    /\ \A h \in InPool(p) : /\ h.ptr \notin Range(pool[p].free)
                            /\ \A g \in InPool(p) : g.ptr = h.ptr => g = h

\* mp_pool_in_use goes by a counter of its own: it never says that a pool is
\* idle while a client holds an element, and the low-water mark bounds it.
IdleIsUnheld == \A p \in Range(set) : /\ InUse(p) <=> InPool(p) # {}
                                      /\ pool[p].low <= Len(pool[p].free)

\* A client's element holds what the client wrote: through the calls of others,
\* and through its own mp_realloc to another pool.
ContentIsKept == \A h \in held : Owner(h.ptr) # {} => mem[h.ptr] = h.mark

\* The elements of a pool lie in the memory it was made from, whatever the
\* alignment of the buffer and of the elements.
StaysInBuffer == \A p \in DOMAIN pool : /\ pool[p].begin >= Kinds[p].at + Header
                                        /\ pool[p].end <= Kinds[p].at + Kinds[p].len

\* An allocation takes the element from the pool with the smallest elements that
\* would do: the scan stops at the first, so mp_add_pool must keep the order.
\* (An aligned one passes over a pool whose first free element is not aligned.)
TakesTightest ==
  asked'.size > 0 => \A i \in Fitting(asked'.size) \cap Aligned(asked'.align) :
                       pool[asked'.pool].size <= pool[set[i]].size

AllocIsTightest == [][TakesTightest]_poolVars

\* "The returned pointer has a ref count of 1" (mempool.c:589), until it is freed.
CountStartsAtOne == \A h \in held : h.counted => RefCount(h.ptr) >= 1
=============================================================================
