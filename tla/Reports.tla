------------------------------- MODULE Reports -------------------------------
(***************************************************************************)
(* What is drawn on the console: dumps of memory (src/src/util/hex_dump.c),  *)
(* of registers (src/src/dump_reg.c), progress bars and spinners             *)
(* (src/src/util/progress.c).  A line is a sequence of cells; colours,       *)
(* prefixes and glyphs are left out.                                         *)
(***************************************************************************)
EXTENDS Integers, Sequences, SequencesExt, FiniteSetsExt

CONSTANTS LineBytes,   \* bytes on a line of a dump, 16 in the code
          Graphic      \* the bytes isgraph() accepts

LOCAL Gap == -1

LOCAL Repeat(cell, n) == [k \in 1..n |-> cell]

----------------------------------------------------------------------------
(* Memory.                                                                 *)
\* The bytes of one line with the gaps before and after them, and the same as text.
hex_dump_line(line_addr, buf_addr, bytes) ==
    LET lead == buf_addr - line_addr
        row  == Repeat(Gap, lead) \o bytes \o Repeat(Gap, LineBytes - lead - Len(bytes))
    IN  [addr |-> line_addr, hex |-> row,
         ascii |-> [k \in DOMAIN row |-> IF row[k] \in Graphic \cup {Gap} THEN row[k] ELSE "."]]

\* A dump in progress: the next byte, and the line it goes to.
dump_array_init(buf, buf_addr) ==
    [buf |-> buf, pos |-> 0, line_addr |-> buf_addr - (buf_addr % LineBytes),
     line_offset |-> buf_addr % LineBytes, lines |-> <<>>]

LOCAL Remaining(d) == Len(d.buf) - d.pos
LOCAL InLine(d) == IF Remaining(d) < LineBytes THEN Remaining(d) ELSE LineBytes

\* One line: `offset` cells are skipped, and as many bytes left for the next line.
LOCAL Shown(d, offset) ==
    LET count == InLine(d) - offset
        line  == hex_dump_line(d.line_addr, d.line_addr + offset, SubSeq(d.buf, d.pos + 1, d.pos + count))
    IN  [d EXCEPT !.lines = Append(@, line), !.pos = @ + count, !.line_offset = 0,
                  !.line_addr = IF count + offset = LineBytes THEN @ + LineBytes ELSE @]

\* An offset larger than the rest of the buffer is dropped.
dump_array_line(d) == Shown(d, IF d.line_offset > InLine(d) THEN 0 ELSE d.line_offset)

\* A line shows a byte at least, unless the offset takes all there is.
dump_array_state(d) ==
    FoldLeft(LAMBDA s, k : IF s.pos < Len(s.buf) THEN dump_array_line(s) ELSE s, d, Repeat(0, Len(d.buf) + 1))

\* dump_array_ex does not drop the offset: buf_count would wrap, so only buffers that
\* reach as far are given to it.
dump_array_ex(buf, buf_addr) ==
    FoldLeft(LAMBDA s, k : IF s.pos < Len(s.buf) THEN Shown(s, s.line_offset) ELSE s,
             dump_array_init(buf, buf_addr), Repeat(0, Len(buf) + 1)).lines

\* storage_dump_raw: in blocks of four lines, from the start of the first line on; what lies
\* behind the storage is not shown.
storage_dump_raw(store, dump_bytes, offset) ==
    LET first == offset - (offset % LineBytes)
        end   == Min({offset + dump_bytes, Len(store)})
        from  == SetToSortSeq({p \in first .. end - 1 : (p - first) % (4 * LineBytes) = 0}, <)
        block(p) == dump_array_state([dump_array_init(SubSeq(store, p + 1, Min({p + 4 * LineBytes, end})), 0)
                                        EXCEPT !.line_addr = p]).lines
    IN  FlattenSeq([k \in DOMAIN from |-> block(from[k])])

----------------------------------------------------------------------------
(* Registers: bits and fields [high, low], from high to low.               *)
\* Digits from the highest of the bits.
print_binary(value, bits) == [k \in 1..bits |-> (value \div 2^(bits - k)) % 2]

\* The numbers over the bits: every eighth, padded to its column.
BitNumbers(reg_bits) ==
    LET first == (reg_bits \div 8) * 8 - 1
    IN  {<<reg_bits - 1 - first + 8 * k, first - 8 * k>> : k \in {j \in 0 .. reg_bits : first - 8 * j > 0}}

\* The value in nibbles of alternating colour, the first one perhaps shorter.
BitValues(reg_bits, value) ==
    LET nibbles == (reg_bits + 3) \div 4
        bits(n) == IF n * 4 > reg_bits THEN 4 - (n * 4 - reg_bits) ELSE 4
    IN  FoldLeft(LAMBDA out, k : out \o print_binary(value \div 2^(4 * (nibbles - k)), bits(nibbles - k + 1)),
                 <<>>, [k \in 1..nibbles |-> k])

LOCAL EndsOf(fields, set) == UNION {{fields[i].high, fields[i].low} : i \in set}

\* The line of field i, the fields after it being above: bars to the fields still to
\* come, the corner under its high bit, a tee under its low bit, a line to its name.
RegisterLine(reg_bits, fields, value, i) ==
    LET f     == fields[i]
        mask  == EndsOf(fields, 1 .. i - 1) \ EndsOf(fields, i .. Len(fields))
        size  == f.high - f.low + 1
        lead  == [k \in 1 .. reg_bits - 1 - f.high |-> IF reg_bits - k \in mask THEN "bar" ELSE "blank"]
        span  == IF size > 1 THEN Append(Repeat("line", size - 2), "tee") ELSE <<>>
    IN  [cells |-> lead \o <<"corner">> \o span \o Repeat("line", f.low + 2),
         digits |-> print_binary((value \div 2^f.low) % 2^size, size)]

\* From the last field to the first.
dump_register(reg_bits, fields, value) ==
    [numbers |-> BitNumbers(reg_bits), values |-> BitValues(reg_bits, value),
     lines |-> [k \in DOMAIN fields |-> RegisterLine(reg_bits, fields, value, Len(fields) + 1 - k)]]

----------------------------------------------------------------------------
(* Progress.                                                               *)
LOCAL Full == 4   \* a cell, in quarters

\* Blocks with a fractional end, or the caller's characters rounded to whole ones.
print_progress_bar_ex(value, scale, width, has_bar_ch) ==
    LET quarters == (value * width * 4) \div scale
        whole    == (value * width + scale \div 2) \div scale
        part     == IF quarters % 4 = 0 THEN <<>> ELSE <<quarters % 4>>
    IN  [bar |-> IF has_bar_ch THEN Repeat(Full, whole) \o Repeat(0, width - whole)
                 ELSE Repeat(Full, quarters \div 4) \o part
                        \o Repeat(0, width - quarters \div 4 - Len(part)),
         percent |-> (value * 100 + scale \div 2) \div scale]

spinner_init(glyphs) == [glyphs |-> glyphs, pos |-> 1, shown |-> <<>>]

\* spinner__next_glyph, for print_spinner.
print_spinner(spin) ==
    [spin EXCEPT !.shown = Append(@, spin.glyphs[spin.pos]),
                 !.pos = IF spin.pos = Len(spin.glyphs) THEN 1 ELSE spin.pos + 1]

----------------------------------------------------------------------------
(* Properties.                                                             *)
\* The bytes a dump shows, each with the address it stands at.
LOCAL Placed(lines) ==
    FoldLeft(LAMBDA out, l : out \o SelectSeq([k \in DOMAIN l.hex |-> <<l.addr + k - 1, l.hex[k]>>],
                                              LAMBDA c : c[2] # Gap), <<>>, lines)

\* A dump, at once or line by line, shows every byte once and at its own address, in lines
\* of one width, whatever the alignment of the buffer, if it reaches the end of its first
\* line: the rest of one that does not is shown at the start of that line again.
DumpsAgree(buf, at) ==
    LET bytes == [k \in DOMAIN buf |-> <<at + k - 1, buf[k]>>]
        lines == dump_array_state(dump_array_init(buf, at)).lines
    IN  /\ \A l \in Range(lines) : Len(l.hex) = LineBytes /\ Len(l.ascii) = LineBytes
        /\ \A c \in Range(Placed(lines)) : \E k \in DOMAIN buf : c[2] = buf[k]
        /\ at % LineBytes = 0 \/ Len(buf) >= LineBytes =>
              Placed(lines) = bytes /\ dump_array_ex(buf, at) = lines

\* A dump of storage shows it from the line of the offset on, up to the bytes asked for.
StoreIsShown(store, dump_bytes, offset) ==
    LET first == offset - (offset % LineBytes)
        end   == Min({offset + dump_bytes, Len(store)})
    IN  Placed(storage_dump_raw(store, dump_bytes, offset)) = [k \in 1 .. end - first |-> <<first + k - 1, store[first + k]>>]

\* Every name of a register's fields starts in one column; from the value a bar leads down
\* to the corner of each field, and only there, and the digits are the field's.
RegistersAgree(reg_bits, fields, value) ==
    LET out == dump_register(reg_bits, fields, value)
        n   == Len(fields)
        under(k, b) == out.lines[k].cells[reg_bits - b]
    IN  /\ \A x \in out.numbers : x[1] = reg_bits - 1 - x[2]
        /\ out.values = print_binary(value, reg_bits)
        /\ \A k \in DOMAIN fields :
              LET f == fields[n + 1 - k]
              IN  /\ Len(out.lines[k].cells) = reg_bits + 2
                  /\ out.lines[k].digits = SubSeq(out.values, reg_bits - f.high, reg_bits - f.low)
                  /\ under(k, f.high) = "corner" /\ (f.low < f.high => under(k, f.low) = "tee")
                  /\ \A j \in 1 .. k - 1 : under(j, f.high) = "bar" /\ under(j, f.low) = "bar"
                  /\ \A b \in f.high + 1 .. reg_bits - 1 :
                        under(k, b) = "bar" => \E j \in 1 .. n - k : b \in {fields[j].high, fields[j].low}

\* A bar has its width and is within a cell of the value, never shrinks as it grows and is
\* full just at its end; a spinner shows its glyphs in turn.
ProgressAgrees(scale, width, glyphs) ==
    LET filled(b) == FoldLeft(LAMBDA n, c : n + c, 0, b)
        turns == FoldLeft(LAMBDA s, k : print_spinner(s), spinner_init(glyphs), Repeat(0, 2 * Len(glyphs) + 1))
    IN  /\ \A own \in BOOLEAN :
             LET shown == [v \in 0..scale |-> print_progress_bar_ex(v, scale, width, own)]
             IN  \A v \in 0..scale :
                   /\ Len(shown[v].bar) = width
                   /\ ~own => 4 * width * v - scale < filled(shown[v].bar) * scale
                               /\ filled(shown[v].bar) * scale <= 4 * width * v
                   /\ own => filled(shown[v].bar) * scale - 4 * width * v \in -2 * scale .. 2 * scale
                   /\ v > 0 => filled(shown[v - 1].bar) <= filled(shown[v].bar)
                   /\ ~own => (filled(shown[v].bar) = 4 * width <=> v = scale)
                   /\ shown[v].percent \in 0..100 /\ shown[scale].percent = 100
        /\ \A k \in DOMAIN turns.shown : turns.shown[k] = glyphs[((k - 1) % Len(glyphs)) + 1]

=============================================================================
