----------------------------- MODULE StringOps ------------------------------
(***************************************************************************)
(* src/src/util/string_ops.c and src/src/util/bsd_string.c.  A string is the  *)
(* sequence of its characters; a buffer also has a NUL where its string ends. *)
(***************************************************************************)
EXTENDS Integers, Sequences, FiniteSets, SequencesExt

CONSTANTS MaxDigits, MaxFracDigits      \* of a number that is read: 9 and 7 in the code

LOCAL NUL == "\\0"
LOCAL Spaces == {" "}
LOCAL Puncts == {"-", ".", "+"}

Numerals == <<"0", "1", "2", "3", "4", "5", "6", "7", "8", "9">>
LOCAL LowerCase == <<"a", "b", "e", "f", "l", "n", "o", "r", "s", "t", "u", "y">>
LOCAL UpperCase == <<"A", "B", "E", "F", "L", "N", "O", "R", "S", "T", "U", "Y">>

LOCAL Turned(from, to, c) ==
    IF c \in Range(from) THEN to[CHOOSE i \in DOMAIN from : from[i] = c] ELSE c

str_to_upper(str) == [i \in DOMAIN str |-> Turned(LowerCase, UpperCase, str[i])]

str_to_lower(str) == [i \in DOMAIN str |-> Turned(UpperCase, LowerCase, str[i])]

\* stricmp, as far as it tells equal from different.
stricmp(str1, str2) == str_to_lower(str1) = str_to_lower(str2)

s_bool_true == {<<"1">>, <<"y">>, <<"t">>, <<"o", "n">>, <<"y", "e", "s">>, <<"t", "r", "u", "e">>}
s_bool_false == {<<"0">>, <<"n">>, <<"f">>, <<"o", "f", "f">>, <<"n", "o">>, <<"f", "a", "l", "s", "e">>}

str_to_bool(value) == \E s \in s_bool_true : stricmp(s, value)

str_is_bool(value) == [found |-> str_to_bool(value) \/ \E s \in s_bool_false : stricmp(s, value),
                       value |-> str_to_bool(value)]

str_ends_with(str, suffix) ==
    Len(str) >= Len(suffix) /\ SubSeq(str, Len(str) - Len(suffix) + 1, Len(str)) = suffix

\* strtok_r: runs of characters that are no delimiters, as many as there are fields for.
str_split(str, delims, fields_max) ==
    LET starts == SetToSortSeq({i \in DOMAIN str : str[i] \notin delims /\ (i > 1 => str[i - 1] \in delims)}, <)
        ends   == SetToSortSeq({i \in DOMAIN str : str[i] \notin delims /\ (i < Len(str) => str[i + 1] \in delims)}, <)
        count  == IF Len(starts) < fields_max THEN Len(starts) ELSE fields_max
    IN  [i \in 1..count |-> SubSeq(str, starts[i], ends[i])]

str_ltrim(str) ==
    LET kept == {i \in DOMAIN str : str[i] \notin Spaces}
    IN  IF kept = {} THEN <<>> ELSE SubSeq(str, CHOOSE i \in kept : \A j \in kept : i <= j, Len(str))

----------------------------------------------------------------------------
(* Numbers.                                                                *)
LOCAL DigitsAt(str, from, most) ==
    LET run == {n \in 0..most : from + n - 1 <= Len(str) /\ \A k \in 0 .. n - 1 : str[from + k] \in Range(Numerals)}
    IN  CHOOSE n \in run : \A m \in run : m <= n

LOCAL ValueOf(digits) ==
    FoldLeft(LAMBDA v, d : (10 * v) + (CHOOSE i \in DOMAIN Numerals : Numerals[i] = d) - 1, 0, digits)

\* The value and the position behind the number.
str_to_fixed(str, fp_scale) ==
    LET start   == Len(str) - Len(str_ltrim(str)) + 1
        signed  == start <= Len(str) /\ str[start] \in {"-", "+"}
        whole   == IF signed THEN start + 1 ELSE start
        n       == DigitsAt(str, whole, MaxDigits)
        dot     == whole + n <= Len(str) /\ str[whole + n] = "."
        frac    == whole + n + 1
        m       == IF dot THEN DigitsAt(str, frac, MaxFracDigits) ELSE 0
        int_val == ValueOf(SubSeq(str, whole, whole + n - 1))
        part    == IF dot THEN (ValueOf(SubSeq(str, frac, frac + m - 1)) * fp_scale) \div 10^m ELSE 0
        val     == int_val * fp_scale + part
    IN  [val |-> IF signed /\ str[start] = "-" THEN -val ELSE val,
         end |-> IF dot THEN frac + m ELSE whole + n]

----------------------------------------------------------------------------
(* Wrapped lines.                                                          *)
\* All of the text when the NUL is one past the columns at most.
str_break(str, columns, space_only) ==
    LET seen   == {i \in 0..columns : i < Len(str)}
        breaks == {i \in seen : str[i + 1] \in Spaces \/ (~space_only /\ str[i + 1] \in Puncts)}
    IN  IF Len(str) <= columns + 1 THEN Len(str)
        ELSE IF breaks # {} THEN CHOOSE i \in breaks : \A j \in breaks : j <= i ELSE columns

\* The lines, and whether the last of them was the end: a break before the first
\* character does not come any further.
RECURSIVE Wrapped(_, _, _)
Wrapped(str, width, space_only) ==
    LET rest == str_ltrim(str)
        len  == str_break(rest, width, space_only)
        more == Wrapped(SubSeq(rest, len + 1, Len(rest)), width, space_only)
    IN  IF str = <<>> THEN [lines |-> <<>>, ends |-> TRUE]
        ELSE IF len = 0 /\ rest # <<>> THEN [lines |-> <<>>, ends |-> FALSE]
        ELSE [lines |-> <<SubSeq(rest, 1, len)>> \o more.lines, ends |-> more.ends]

str_print_wrapped(str, columns, indent, space_only) ==
    IF columns = 0 \/ indent >= columns THEN [lines |-> <<>>, ends |-> TRUE]
    ELSE Wrapped(str, columns - indent, space_only)

----------------------------------------------------------------------------
(* bsd_string.c: a buffer from a position on.  Each returns the buffer and a  *)
(* length.                                                                 *)
LOCAL Put(buf, at, str) ==
    [i \in DOMAIN buf |-> IF i \in at .. at + Len(str) - 1 THEN str[i - at + 1] ELSE buf[i]]

LOCAL Shorter(a, b) == IF a < b THEN a ELSE b

strlcpy(buf, at, src, size) ==
    [buf |-> IF size = 0 THEN buf ELSE Put(buf, at, Append(SubSeq(src, 1, Shorter(size - 1, Len(src))), NUL)),
     len |-> Len(src)]

strxcpy(buf, at, src, size) ==
    [buf |-> strlcpy(buf, at, src, size).buf, len |-> IF size = 0 THEN 0 ELSE Shorter(size - 1, Len(src))]

strlcat(buf, src, size) ==
    LET ends == {i \in 1..size : buf[i] = NUL}
        used == (CHOOSE i \in ends : \A j \in ends : i <= j) - 1
        copy == strlcpy(buf, used + 1, src, size - used)
    IN  IF size = 0 THEN [buf |-> buf, len |-> 0]
        ELSE IF ends = {} THEN [buf |-> buf, len |-> size + Len(src)]
        ELSE [buf |-> copy.buf, len |-> used + copy.len]

----------------------------------------------------------------------------
(* What they should do.                                                     *)
LOCAL TextIn(buf) == SubSeq(buf, 1, (CHOOSE i \in DOMAIN buf : buf[i] = NUL /\ \A j \in 1 .. i - 1 : buf[j] # NUL) - 1)

\* Copies and concatenations end in a NUL within the size, leave the bytes behind it alone
\* and tell that something was cut off by the length the header says.
CopiesAgree(room, size, s, t) ==
    LET empty == [i \in 1..(room + 1) |-> IF i = 1 THEN NUL ELSE "#"]
        one   == strlcpy(empty, 1, s, size)
        both  == strlcat(one.buf, t, size)
        some  == strxcpy(empty, 1, s, size)
        all   == TextIn(one.buf) \o t
    IN  size \in 1..room =>
        /\ TextIn(both.buf) = SubSeq(all, 1, Shorter(size - 1, Len(all)))
        /\ TextIn(one.buf) = TextIn(some.buf)
        /\ both.len >= size <=> TextIn(both.buf) # all
        /\ one.len >= size <=> TextIn(one.buf) # s
        /\ some.len < Len(s) <=> TextIn(some.buf) # s
        /\ \A i \in size + 1 .. room + 1 : both.buf[i] = empty[i]

\* Splitting loses nothing but delimiters; a text ends with each of its ends and is told
\* true or false in any case.
SplitsAgree(s, n) ==
    LET parts == str_split(s, Spaces, n)
        words == str_split(s, Spaces, Len(s) + 1)
    IN  /\ FlattenSeq(words) = SelectSeq(s, LAMBDA c : c \notin Spaces)
        /\ parts = SubSeq(words, 1, Shorter(n, Len(words)))
        /\ \A i \in DOMAIN words : words[i] # <<>> /\ str_ltrim(words[i]) = words[i]
        /\ \A i \in 0..Len(s) : str_ends_with(s, SubSeq(s, i + 1, Len(s)))
        /\ ~str_ends_with(s, <<"#">> \o s)
        /\ str_is_bool(str_to_upper(s)) = str_is_bool(s)
        /\ str_is_bool(s).value => str_is_bool(s).found
        /\ s \in s_bool_false => str_is_bool(s).found /\ ~str_is_bool(s).value

\* Wrapping loses nothing but white space, and a line is longer than its width by no more
\* than the one character that ends the text; it comes to an end unless a line starts with
\* a mark that is its only break.
WrapsAgree(s, columns, indent, space_only) ==
    LET w == str_print_wrapped(s, columns, indent, space_only)
        bare(t) == SelectSeq(t, LAMBDA c : c \notin Spaces)
        width == columns - indent
    IN  width > 0 =>
        /\ w.ends => bare(FlattenSeq(w.lines)) = bare(s)
        /\ \A i \in DOMAIN w.lines : Len(w.lines[i]) <= width + (IF i = Len(w.lines) THEN 1 ELSE 0)
        /\ space_only \/ Range(s) \cap Puncts = {} => w.ends

\* A number is read to its last digit and is less than one step below its value.
FixedAgrees(neg, whole, frac, scale) ==
    LET text  == (IF neg THEN <<"-">> ELSE <<>>) \o whole \o <<".">> \o frac
        got   == str_to_fixed(<<" ">> \o text \o <<"e">>, scale)
        exact == ValueOf(whole \o frac) * scale
        size  == (IF neg THEN -got.val ELSE got.val) * 10^Len(frac)
    IN  Len(whole) <= MaxDigits /\ Len(frac) <= MaxFracDigits =>
        /\ size <= exact /\ exact < size + 10^Len(frac)
        /\ got.end = Len(text) + 2

=============================================================================
