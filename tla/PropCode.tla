------------------------------- MODULE PropCode -------------------------------
(***************************************************************************)
(* How properties become bytes in the log and come back:                     *)
(* src/src/prop_serialize.c.  Memory is a sequence of bytes.  An unsigned    *)
(* word has WordSize bytes (4 in the code) of two hexadecimal digits.        *)
(***************************************************************************)
EXTENDS Integers, Sequences, SequencesExt

CONSTANT WordSize

ASSUME WordAssumption == WordSize \in 1..3

Words == 256^WordSize

Kinds == [none |-> 0, uint |-> 1, int |-> 2, string |-> 3, blob |-> 4, func |-> 5]

\* Bytes stored from an address on.
LOCAL Stored(mem, at, bytes) ==
    [i \in DOMAIN mem |-> IF i \in at .. at + Len(bytes) - 1 THEN bytes[i - at + 1] ELSE mem[i]]

LOCAL Bytes(mem, at, n) == SubSeq(mem, at, at + n - 1)

\* (n << 1) ^ (n >> 31): the sign goes to the low bit.
zigzag_encode(n) == LET twice == (2 * n) % Words IN IF n < 0 THEN Words - 1 - twice ELSE twice

zigzag_decode(n) ==
    LET half == n \div 2
        word == IF n % 2 = 1 THEN Words - 1 - half ELSE half
    IN  IF 2 * word >= Words THEN word - Words ELSE word

varint_encoded_bytes(n) ==
    LET bits == CHOOSE b \in 0 .. 8 * WordSize : 2^b > n /\ \A c \in 0 .. b - 1 : 2^c <= n
    IN  IF n = 0 THEN 1 ELSE (bits + 6) \div 7

\* What a call leaves in memory and returns: the bytes used, or minus the bytes it needs.
LOCAL Wrote(mem, rval) == [mem |-> mem, rval |-> rval]

varint_encode(mem, n, at, size) ==
    LET num == varint_encoded_bytes(n)
        last == CHOOSE k \in 1 .. 2 * WordSize : n < 128^k /\ \A j \in 1 .. k - 1 : n >= 128^j
        low == [i \in 1..last |-> ((n \div 128^(i - 1)) % 128) + (IF i < last THEN 128 ELSE 0)]
    IN  IF size < num THEN Wrote(mem, -num) ELSE Wrote(Stored(mem, at, low), num)

varint_decode(mem, at) ==
    LET last == CHOOSE i \in at .. Len(mem) : mem[i] < 128 /\ \A j \in at .. i - 1 : mem[j] >= 128
        val  == FoldLeft(LAMBDA v, i : v + (mem[at + i - 1] % 128) * 128^(i - 1), 0,
                         [i \in 1 .. last - at + 1 |-> i])
    IN  [val |-> val % Words, used |-> last - at + 1]

\* Bytes are written while there is anything left of the number, and a zero after them.
uint32_encode(mem, n, at, size) ==
    LET left == CHOOSE k \in 0..WordSize : n < 256^k /\ \A j \in 0 .. k - 1 : n >= 256^j
        low  == [i \in 1..(left + 1) |-> (n \div 256^(i - 1)) % 256]
    IN  IF size < WordSize THEN Wrote(mem, -WordSize) ELSE Wrote(Stored(mem, at, low), WordSize)

uint32_decode(mem, at) ==
    [val |-> FoldLeft(LAMBDA v, i : v + mem[at + i - 1] * 256^(i - 1), 0, [i \in 1..WordSize |-> i]),
     used |-> WordSize]

\* A string has its length, found by strlen, in front; strlen of an empty one is zero too.
string_encoded_bytes(str) == varint_encoded_bytes(Len(str)) + Len(str)

string_encode(mem, str, at, size) ==
    LET num == string_encoded_bytes(str)
    IN  IF num > size THEN Wrote(mem, -num)
        ELSE LET head == varint_encode(mem, Len(str), at, size)
             IN  Wrote(Stored(head.mem, at + head.rval, str), num)

string_decode(mem, at, str_size) ==
    LET len == varint_decode(mem, at)
        num == len.used + len.val
    IN  IF len.val + 1 > str_size THEN [str |-> <<>>, used |-> -num]
        ELSE [str |-> Bytes(mem, at + len.used, len.val), used |-> num]

blob_encoded_bytes(data) == varint_encoded_bytes(Len(data)) + Len(data)

blob_encode(mem, data, at, size) ==
    LET num == blob_encoded_bytes(data)
    IN  IF num > size THEN Wrote(mem, -num)
        ELSE LET head == varint_encode(mem, Len(data), at, size)
             IN  Wrote(Stored(head.mem, at + head.rval, data), num)

----------------------------------------------------------------------------
(* Entries: a number has a value, a string or blob a value and a size.     *)
prop_encoded_bytes(entry) ==
    1 + WordSize +
    CASE entry.kind = Kinds.uint -> varint_encoded_bytes(entry.value)
      [] entry.kind = Kinds.int -> varint_encoded_bytes(zigzag_encode(entry.value))
      [] entry.kind \in {Kinds.string, Kinds.blob} -> varint_encoded_bytes(entry.size) + entry.size
      [] OTHER -> 0

LOCAL EncodeValue(mem, entry, at, size) ==
    CASE entry.kind = Kinds.uint -> varint_encode(mem, entry.value, at, size)
      [] entry.kind = Kinds.int -> varint_encode(mem, zigzag_encode(entry.value), at, size)
      [] entry.kind = Kinds.string -> string_encode(mem, entry.value, at, size)
      [] entry.kind = Kinds.blob -> blob_encode(mem, entry.value, at, size)
      [] OTHER -> Wrote(mem, 0)

\* The kind, the identifier, the value.
prop_encode(mem, prop, entry, at, size) ==
    LET num  == prop_encoded_bytes(entry)
        kind == Stored(mem, at, <<entry.kind>>)
        id   == uint32_encode(kind, prop, at + 1, size - 1)
        done == EncodeValue(id.mem, entry, at + 1 + id.rval, size - 1 - id.rval)
    IN  IF num > size THEN Wrote(mem, -num) ELSE Wrote(done.mem, num)

\* Strings and blobs get memory of their own, when there is any.
prop_decode(mem, at, CanAlloc) ==
    LET kind  == mem[at]
        id    == uint32_decode(mem, at + 1)
        start == at + 1 + id.used
        n     == varint_decode(mem, start)
        data  == IF CanAlloc THEN Bytes(mem, start + n.used, n.val) ELSE <<>>
        entry == [kind |-> kind, value |-> <<>>, size |-> 0, protect |-> kind = Kinds.blob,
                  persist |-> TRUE, readonly |-> FALSE]
        read(value, size, used) == [prop  |-> id.val, used |-> 1 + id.used + used,
                                    entry |-> [entry EXCEPT !.value = value, !.size = size]]
    IN  CASE kind = Kinds.uint -> read(n.val, 0, n.used)
          [] kind = Kinds.int -> read(zigzag_decode(n.val), 0, n.used)
          [] kind \in {Kinds.string, Kinds.blob} -> read(data, n.val, n.used + n.val)
          [] OTHER -> read(<<>>, 0, 0)

----------------------------------------------------------------------------
(* Properties.                                                             *)
\* A number reads back, takes the bytes it is said to and is refused where they are not there.
NumberReadsBack(n, garbage) ==
    LET room(size) == [i \in 1..(size + 1) |-> garbage]
        num == varint_encoded_bytes(n)
        ok  == varint_encode(room(num), n, 1, num)
    IN  /\ ok.rval = num /\ varint_decode(ok.mem, 1) = [val |-> n, used |-> num]
        /\ ok.mem[num + 1] = garbage
        /\ num > 1 => varint_encode(room(num - 1), n, 1, num - 1) = Wrote(room(num - 1), -num)
        /\ \A m \in {n, n - Words} : -Words <= 2 * m /\ 2 * m < Words => zigzag_decode(zigzag_encode(m)) = m

\* Entries written one after another into a block of just their size, as prop_db_serialize
\* does, are read back in their order, whatever was in the block, and nothing is written
\* past it.  Identifiers have something in their first field, and values are stored as kinds
\* that have one: otherwise uint32_encode leaves bytes of the identifier as they were, or its
\* last zero lands behind the block.
EntriesReadBack(items, garbage) ==
    LET size == FoldLeft(LAMBDA s, it : s + prop_encoded_bytes(it.entry), 0, items)
        put(st, it) == LET w == prop_encode(st.mem, it.prop, it.entry, st.at, size + 1 - st.at)
                       IN  [mem |-> w.mem, at |-> st.at + w.rval]
        get(st, r) == [at |-> st.at + r.used, got |-> Append(st.got, r)]
        all(mem) == FoldLeft(LAMBDA st, it : get(st, prop_decode(mem, st.at, TRUE)),
                             [at |-> 1, got |-> <<>>], items)
    IN  \A block \in {FoldLeft(put, [mem |-> [i \in 1..(size + 1) |-> garbage], at |-> 1], items)} :
        \A back \in {all(block.mem)} :
        /\ block.at = size + 1 /\ block.mem[size + 1] = garbage /\ back.at = size + 1
        /\ \A i \in DOMAIN items :
              LET new == back.got[i].entry
                  old == items[i].entry
              IN  /\ back.got[i].prop = items[i].prop
                  /\ new.kind = old.kind /\ new.size = old.size /\ new.value = old.value
                  /\ new.protect <=> old.kind = Kinds.blob
        /\ size > 0 => LET last == items[Len(items)]
                           end  == size - prop_encoded_bytes(last.entry) + 1
                       IN  prop_encode(block.mem, last.prop, last.entry, end, size - end).rval < 0

\* A string has room for its text and a NUL, or is left alone.
StringReadsBack(str, room) ==
    LET mem  == string_encode([i \in 1..(Len(str) + 4) |-> 99], str, 1, Len(str) + 4)
        back == string_decode(mem.mem, 1, room)
    IN  IF Len(str) < room THEN back = [str |-> str, used |-> mem.rval]
        ELSE back = [str |-> <<>>, used |-> -mem.rval]

=============================================================================
