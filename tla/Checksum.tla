------------------------------ MODULE Checksum ------------------------------
(***************************************************************************)
(* The CRC functions of src/util/crc8.c, crc16.c and crc32.c.  A register   *)
(* and a byte are sequences of bits, the most significant first, so that    *)
(* the three widths share one definition of each algorithm.  The lookup     *)
(* small tables are those in the sources; the tables of 256 entries are what *)
(* the generator kept beside them prints.                                   *)
(***************************************************************************)
EXTENDS Integers, Sequences, SequencesExt

LOCAL Xor(a, b) == [i \in DOMAIN a |-> (a[i] + b[i]) % 2]

LOCAL Zeros(n) == [i \in 1..n |-> 0]

\* The bits of number n, in a field of w bits.
BitsOf(n, w) == [i \in 1..w |-> (n \div 2^(w - i)) % 2]

LOCAL NumberOf(bits) == FoldLeft(LAMBDA n, b : 2 * n + b, 0, bits)

\* crc << n: the bits shifted out are lost.
LOCAL Shifted(crc, n) == SubSeq(crc, n + 1, Len(crc)) \o Zeros(n)

----------------------------------------------------------------------------
(* The bit-serial algorithm: n steps of the shift register.                *)
\* A shift register that tests the bit it has shifted in, not the one out.
ClockedLate(poly, crc, n) ==
    FoldLeft(LAMBDA c, i : LET s == Shifted(c, 1) IN IF s[1] = 1 THEN Xor(s, poly) ELSE s,
             crc, Zeros(n))

Clocked(poly, crc, n) ==
    FoldLeft(LAMBDA c, i : IF c[1] = 1 THEN Xor(Shifted(c, 1), poly) ELSE Shifted(c, 1),
             crc, Zeros(n))

\* crc8/16/32_update_serial: the byte enters at the top of the register.
UpdateSerial(kind, crc, byte) ==
    Clocked(kind.poly, Xor(crc, byte \o Zeros(Len(crc) - 8)), 8)

UpdateSerialBlock(kind, crc, data) ==
    FoldLeft(LAMBDA c, byte : UpdateSerial(kind, c, byte), crc, data)

----------------------------------------------------------------------------
(* The three kinds: polynomial, initial register and the 16-entry table,   *)
(* as the sources give them.                                               *)
LOCAL Rows(table, w) == [i \in 0..15 |-> BitsOf(table[i + 1], w)]

Crc8Table == Rows(<<0, 49, 98, 83, 196, 245, 166, 151,
                    185, 136, 219, 234, 125, 76, 31, 46>>, 8)

Crc16Table == Rows(<<0, 32773, 32783, 10, 32795, 30, 20, 32785,
                     32819, 54, 60, 32825, 40, 32813, 32807, 34>>, 16)

\* The upper and the lower 16 bits of each entry.
Crc32Table ==
    LET high == Rows(<<0, 1217, 2434, 3395, 4868, 6085, 6790, 7751,
                       9736, 8905, 12170, 11083, 13580, 12749, 15502, 14415>>, 16)
        low  == Rows(<<0, 7607, 15214, 9945, 30428, 27499, 19890, 20485,
                       60856, 61455, 54998, 52065, 39780, 34515, 40970, 48573>>, 16)
    IN  [i \in 0..15 |-> high[i] \o low[i]]

Crc8 == [poly |-> BitsOf(49, 8), init |-> BitsOf(255, 8), small |-> Crc8Table]
Crc16 == [poly |-> BitsOf(32773, 16), init |-> BitsOf(65535, 16), small |-> Crc16Table]
Crc32 == [poly |-> BitsOf(1217, 16) \o BitsOf(7607, 16),
          init |-> BitsOf(65535, 16) \o BitsOf(65535, 16), small |-> Crc32Table]

----------------------------------------------------------------------------
(* The table-driven algorithms: a lookup by the register's top bits        *)
(* against the next bits of the data.                                      *)
LOCAL Lookup(table, crc, bits) ==
    Xor(table[NumberOf(Xor(SubSeq(crc, 1, Len(bits)), bits))], Shifted(crc, Len(bits)))

\* The 16-entry table with the halves of the byte in the wrong order.
UpdateSmallSwapped(kind, crc, byte) ==
    Lookup(kind.small, Lookup(kind.small, crc, SubSeq(byte, 5, 8)), SubSeq(byte, 1, 4))

\* crc8/16/32 small: the upper half of the byte, then the lower.
UpdateSmall(kind, crc, byte) ==
    Lookup(kind.small, Lookup(kind.small, crc, SubSeq(byte, 1, 4)), SubSeq(byte, 5, 8))

UpdateSmallBlock(kind, crc, data) ==
    FoldLeft(LAMBDA c, byte : UpdateSmall(kind, c, byte), crc, data)

\* The entry for a front of n bits, as crc8_gen_table and crc16_gen_table print it.
TableEntry(kind, n, i) == Clocked(kind.poly, BitsOf(i, n) \o Zeros(Len(kind.poly) - n), n)

\* crc8_update_block and crc16_update: the table of 256 entries.
UpdateTable(kind, crc, byte) ==
    Xor(TableEntry(kind, 8, NumberOf(Xor(SubSeq(crc, 1, 8), byte))), Shifted(crc, 8))

UpdateTableBlock(kind, crc, data) ==
    FoldLeft(LAMBDA c, byte : UpdateTable(kind, c, byte), crc, data)

----------------------------------------------------------------------------
(* The functions of the three files.                                       *)
crc8_update_serial(crc, byte) == UpdateSerial(Crc8, crc, byte)
crc8_update_serial_block(crc, data) == UpdateSerialBlock(Crc8, crc, data)
crc8_update_small_block(crc, data) == UpdateSmallBlock(Crc8, crc, data)
crc8_update_block(crc, data) == UpdateTableBlock(Crc8, crc, data)

crc16_update_serial(crc, byte) == UpdateSerial(Crc16, crc, byte)
crc16_update_serial_block(crc, data) == UpdateSerialBlock(Crc16, crc, data)
crc16_update_small_block(crc, data) == UpdateSmallBlock(Crc16, crc, data)
crc16_update(crc, byte) == UpdateTable(Crc16, crc, byte)
crc16_update_block(crc, data) == UpdateTableBlock(Crc16, crc, data)

crc32_update_serial(crc, byte) == UpdateSerial(Crc32, crc, byte)
crc32_update_serial_block(crc, data) == UpdateSerialBlock(Crc32, crc, data)
crc32_update(crc, byte) == UpdateSmall(Crc32, crc, byte)
crc32_update_small_block(crc, data) == UpdateSmallBlock(Crc32, crc, data)

\* Words of four bytes, the last byte of a word first.
crc32_update_small_stm32(crc, data) ==
    LET word(k) == <<data[4 * k], data[4 * k - 1], data[4 * k - 2], data[4 * k - 3]>>
    IN  FoldLeft(LAMBDA c, k : crc32_update_small_block(c, word(k)),
                 crc, [k \in 1..Len(data) \div 4 |-> k])

----------------------------------------------------------------------------
(* What the functions promise each other.                                  *)
\* Every algorithm takes a register to the same register, over a block of any length,
\* in one call or byte by byte.
AllAgree(crc8, crc16, crc32, data) ==
    LET last == data[Len(data)]
        most == Front(data)
    IN  /\ crc8_update_serial_block(crc8, data) =
              crc8_update_serial(crc8_update_serial_block(crc8, most), last)
        /\ crc8_update_small_block(crc8, data) = crc8_update_serial_block(crc8, data)
        /\ crc8_update_block(crc8, data) = crc8_update_serial_block(crc8, data)
        /\ crc16_update_serial_block(crc16, data) =
              crc16_update_serial(crc16_update_small_block(crc16, most), last)
        /\ crc16_update_small_block(crc16, data) = crc16_update_serial_block(crc16, data)
        /\ crc16_update_block(crc16, data) =
              crc16_update(crc16_update_serial_block(crc16, most), last)
        /\ crc16_update_block(crc16, data) = crc16_update_serial_block(crc16, data)
        /\ crc32_update_serial_block(crc32, data) =
              crc32_update_serial(crc32_update_serial_block(crc32, most), last)
        /\ crc32_update_small_block(crc32, data) =
              crc32_update(crc32_update_small_block(crc32, most), last)
        /\ crc32_update_small_block(crc32, data) = crc32_update_serial_block(crc32, data)

\* The word-swapped variant is the plain one over the words' bytes reversed.
SwappedAgrees(crc32, data) ==
    LET swapped == [k \in DOMAIN data |-> data[k + 3 - 2 * ((k - 1) % 4)]]
    IN  Len(data) % 4 = 0 =>
          crc32_update_small_stm32(crc32, data) = crc32_update_small_block(crc32, swapped)

\* A record checked with one of them (the fault record, the saved time) is told from
\* the same record with one bit changed.
OneBitIsSeen(data, k, bit) ==
    LET other == [data EXCEPT ![k] = Xor(@, BitsOf(2^bit, 8))]
    IN  /\ crc8_update_small_block(Crc8.init, other) # crc8_update_small_block(Crc8.init, data)
        /\ crc16_update_small_block(Crc16.init, other)
              # crc16_update_small_block(Crc16.init, data)

=============================================================================
