---------------------------- MODULE RangeStrings ----------------------------
(***************************************************************************)
(* The string ranges of src/src/util/range_strings.c.  A character is a      *)
(* one-letter string, Nul the terminator.  A range is a record: the memory   *)
(* it points into, the position of its first character and the one past its  *)
(* last.  An operation that writes through the range returns the range after *)
(* it and the number the code returns.                                       *)
(***************************************************************************)
EXTENDS IntMath

Nul == "nul"

Size(r) == r.end - r.start

\* The characters of a range, and those before its first NUL: strnlen from the start.
Span(r) == SubSeq(r.mem, r.start, r.end - 1)

Text(r) ==
    LET s == Span(r) IN IF Nul \in Range(s) THEN SubSeq(s, 1, IndexFirstSubSeq(<<Nul>>, s) - 1) ELSE s

range_strlen(r) == Len(Text(r))

\* Characters stored from a position on; memory has a guard cell on either side.
Stored(mem, at, chars) ==
    [i \in DOMAIN mem |-> IF at <= i /\ i < at + Len(chars) THEN chars[i - at + 1] ELSE mem[i]]

LOCAL Upto(s, n) == SubSeq(s, 1, IF n < Len(s) THEN n ELSE Len(s))

Done(r, rval) == [r |-> r, rval |-> rval]

----------------------------------------------------------------------------
(* Copying and appending.                                                  *)
\* What the copy loops leave: as much of the characters as there is room for.
LOCAL Copied(r, chars) == [r EXCEPT !.mem = Stored(@, r.start, Upto(chars, Size(r)))]

\* A string that does not fit is wiped: the position the range starts at becomes NUL.
LOCAL Wiped(r) == [r EXCEPT !.mem = Stored(@, r.start, <<Nul>>)]

range_copy_str(r, str, truncate) ==
    LET all == str \o <<Nul>>
        c   == Copied(r, all)
    IN  CASE Len(all) <= Size(r) -> Done(c, Len(str))
          [] Len(all) > Size(r) /\ truncate ->
                 Done([c EXCEPT !.mem = Stored(@, r.end - 1, <<Nul>>)], -(Size(r) - 1))
          [] Len(all) > Size(r) /\ ~truncate -> Done(Wiped(c), -Len(str))

\* vsnprintf of a text into the range; a range of one byte only asks for its length.
range_cat_fmt(r, str) ==
    LET c == IF Size(r) <= 1 THEN r
             ELSE Copied(r, Upto(str, Size(r) - 1) \o <<Nul>>)
    IN  CASE Size(r) <= 0 -> Done(r, 0)
          [] Size(r) > 0 /\ str = <<>> -> Done(c, 0)
          [] Size(r) > 0 /\ str # <<>> /\ Len(str) < Size(r) ->
                 Done([c EXCEPT !.start = @ + Len(str)], Len(str))
          [] Size(r) > 0 /\ str # <<>> /\ Len(str) >= Size(r) -> Done(Wiped(c), -Len(str))

\* The same code once more for a list of arguments.
range_cat_vfmt(r, str) == range_cat_fmt(r, str)

\* A string that does not fit is left cut off in the range.
CatStrUnwiped(r, str) ==
    LET c == Copied(r, str \o <<Nul>>)
    IN  IF Len(str) < Size(r) THEN Done([c EXCEPT !.start = @ + Len(str)], Len(str))
        ELSE Done(c, -Len(str))

range_cat_str(r, str) ==
    LET c == Copied(r, str \o <<Nul>>)
    IN  IF Len(str) < Size(r) THEN Done([c EXCEPT !.start = @ + Len(str)], Len(str))
        ELSE Done(Wiped(c), -Len(str))

\* As above but the NUL: the start is still moved to one before the end of the copy.
range_cat_str_no_nul(r, str) ==
    LET c == Copied(r, str)
    IN  IF Len(str) < Size(r) THEN Done([c EXCEPT !.start = @ + Len(str) - 1], Len(str))
        ELSE Done(Wiped(c), -Len(str))

\* A source that ends in a NUL brings its own; one that ends first gets one if it fits.
range_cat_range(r, src) ==
    LET s == Text(src)
        c == Copied(r, s \o <<Nul>>)
    IN  IF Len(s) < Size(r) THEN Done([c EXCEPT !.start = @ + Len(s)], Len(s))
        ELSE Done(Wiped(c), -Len(s))

range_cat_range_no_nul(r, src) ==
    LET s == Text(src)
        c == Copied(r, s)
    IN  IF Len(s) < Size(r) THEN Done([c EXCEPT !.start = @ + Len(s)], Len(s))
        ELSE Done(Wiped(c), -Len(s))

range_cat_char(r, ch) ==
    IF r.start < r.end - 1
    THEN Done([r EXCEPT !.mem = Stored(@, r.start, <<ch, Nul>>), !.start = @ + 1], 1)
    ELSE Done(r, -1)

range_cat_char_no_nul(r, ch) ==
    IF r.start < r.end - 1
    THEN Done([r EXCEPT !.mem = Stored(@, r.start, <<ch>>), !.start = @ + 1], 1)
    ELSE Done(r, -1)

----------------------------------------------------------------------------
(* Numbers.                                                                *)
Digit == <<"0", "1", "2", "3", "4", "5", "6", "7", "8", "9">>

\* The digits of n, at least width of them: %0*u
Digits(n, width) ==
    LET put(w)   == [i \in 1..w |-> Digit[((n \div (10^(w - i))) % 10) + 1]]
        most(len) == IF len > width THEN len ELSE width
    IN  put(most(base10_digits(n)))

Decimal(n) == IF n < 0 THEN <<"-">> \o Digits(-n, 0) ELSE Digits(n, 0)

LOCAL Spaces(n) == [i \in 1..n |-> " "]

range_cat_uint(r, n) == IF n = 0 THEN range_cat_char(r, "0") ELSE range_cat_str(r, Digits(n, 0))

\* The sign is appended first and stays if the digits do not fit.
range_cat_int(r, n) ==
    LET sign == range_cat_char(r, "-")
        num  == range_cat_uint(IF n < 0 THEN sign.r ELSE r, IF n < 0 THEN -n ELSE n)
        s    == IF n < 0 THEN (IF num.rval < 0 /\ sign.rval > 0 THEN -1 ELSE sign.rval) ELSE 0
    IN  Done(num.r, s + num.rval)

\* Spaces one at a time until one does not fit; then "failed" is what counts.
LOCAL Padded(r, n, failed) ==
    LET room == IF Size(r) > 0 THEN Size(r) - 1 ELSE 0
        add  == IF n < room THEN n ELSE room
        after == [r EXCEPT !.mem = IF add > 0 THEN Stored(@, r.start, Spaces(add) \o <<Nul>>) ELSE @,
                           !.start = @ + add]
    IN  Done(after, IF n <= room THEN n ELSE failed)

\* A number with a fraction, to the right of its padding.
LOCAL Both(r, first, n) == Done(r, IF n >= 0 THEN first + n ELSE n - first)

LOCAL BehindPad(pad, text) ==
    LET num == range_cat_fmt(pad.r, text) IN IF pad.rval < 0 THEN pad ELSE Both(num.r, pad.rval, num.rval)

LOCAL RightJustified(r, text, width) ==
    IF width > Len(text) THEN BehindPad(Padded(r, width - Len(text), Len(text) - width), text)
    ELSE range_cat_fmt(r, text)

LOCAL WholePadded(r, text, width) ==
    range_cat_fmt(r, Spaces(IF width > Len(text) THEN width - Len(text) ELSE 0) \o text)

\* The unsigned one: its own conversion to base 10, and padding on the right by the full
\* width whatever the length of the number.
UFixed(value, scale, places) ==
    LET digits == base10_digits(scale)
        frac   == (((value % scale) * 10^digits) \div scale + 5) \div 10
        whole  == value \div scale
        have   == digits - 1
        kept   == IF have > places + 1 THEN places + 1 ELSE have
        cut    == frac \div 10^(have - kept)
        text(i, f, d) == Decimal(i) \o <<".">> \o Digits(f, d)
    IN  CASE places = 0 -> Decimal(IF frac + 10^have \div 2 >= 10^have THEN whole + 1 ELSE whole)
          [] places > 0 /\ kept <= places -> text(whole, cut, kept)
          [] places > 0 /\ kept > places /\ cut + 5 > 10^have -> text(whole + 1, 0, 1)
          [] places > 0 /\ kept > places /\ cut + 5 <= 10^have ->
                 text(whole, (cut + 5) \div 10, kept - 1)

LOCAL Justified(r, text, pad, right) ==
    LET width == IF pad < 0 THEN 0 ELSE pad
    IN  IF right THEN RightJustified(r, text, width) ELSE WholePadded(r, text, width)

LOCAL ThenPadded(num, pad) ==
    LET more == Padded(num.r, -pad, pad)
    IN  CASE pad >= 0 -> num
          [] pad < 0 /\ num.rval < 0 -> Done(num.r, IF pad < num.rval THEN pad ELSE num.rval)
          [] pad < 0 /\ num.rval >= 0 -> Both(more.r, num.rval, more.rval)

range_cat_ufixed_padded(r, value, scale, places, pad) ==
    ThenPadded(Justified(r, UFixed(value, scale, places), pad, places > 0), pad)

\* The signed one, by way of to_fixed_base10_parts and fixed_base10_adjust: the sign is
\* printed with the whole part only, and a carry left in the fraction makes it longer.
Fixed(value, fp_scale, places) ==
    LET text(p) == Decimal(p.integer) \o (IF p.digits > 0 THEN <<".">> \o Digits(Abs(p.frac), p.digits) ELSE <<>>)
    IN  text(AdjustedParts(to_fixed_base10_parts(value, fp_scale), places))

\* Padding on the right is up to the width; a number at least that wide returns the width
\* if that is less.
LOCAL ThenFilled(num, pad) ==
    LET more == Padded(num.r, -pad - num.rval, num.rval + pad)
    IN  CASE pad >= 0 -> num
          [] pad < 0 /\ num.rval >= 0 /\ -pad > num.rval -> Both(more.r, num.rval, more.rval)
          [] pad < 0 /\ ~(num.rval >= 0 /\ -pad > num.rval) ->
                 Done(num.r, IF -pad < num.rval THEN -pad ELSE num.rval)

range_cat_fixed_padded(r, value, fp_scale, places, pad) ==
    LET printed(text) == Justified(r, text, pad, "." \in Range(text))
    IN  ThenFilled(printed(Fixed(value, fp_scale, places)), pad)

----------------------------------------------------------------------------
(* Padding, trimming and cutting in place.                                 *)
range_pad_right(r, ch) ==
    LET len == range_strlen(r)
        n   == Size(r) - 1 - len
    IN  IF n > 0
        THEN Done([r EXCEPT !.mem = Stored(@, r.start + len, [i \in 1..n |-> ch] \o <<Nul>>)], n)
        ELSE Done(r, 0)

IsSpace(ch) == ch = " "

range_ltrim(r) ==
    LET stop == {i \in r.start .. r.end : i = r.end \/ ~IsSpace(r.mem[i])}
    IN  [r EXCEPT !.start = CHOOSE i \in stop : \A j \in stop : i <= j]

range_rtrim(r) ==
    LET last == r.start + range_strlen(r) - 1
        keep == {r.start - 1} \cup {i \in r.start .. last : ~IsSpace(r.mem[i])}
    IN  [r EXCEPT !.end = 1 + CHOOSE i \in keep : \A j \in keep : j <= i]

range_trim(r) == range_rtrim(range_ltrim(r))

range_terminate(r) ==
    IF range_strlen(r) = Size(r) THEN [r EXCEPT !.mem = Stored(@, r.end - 1, <<Nul>>)] ELSE r

range_set_len(r, len) ==
    IF len >= Size(r) THEN r
    ELSE [r EXCEPT !.mem = Stored(@, r.start + len, [i \in 1 .. Size(r) - len |-> Nul])]

\* range_puts and range_fputs: the characters put out.
range_puts(r) == Text(r)
range_fputs(r) == Text(r)

----------------------------------------------------------------------------
(* Comparison and tokens.                                                  *)
range_eq(r, str) == Span(r) = str

range_eq_range(r, r2) == Span(r) = Span(r2)

range_is_int(r) == \A i \in DOMAIN Span(r) : Span(r)[i] \in Range(Digit)

\* strspn and strcspn from a position of a string.
Stop(str, from, chars) ==
    LET at == {i \in from .. Len(str) + 1 : i = Len(str) + 1 \/ str[i] \in chars}
    IN  CHOOSE i \in at : \A j \in at : i <= j

\* One token: where it starts and ends in the string, from a position on.
range_token(str, from, delim) ==
    LET start == Stop(str, from, Range(str) \ delim)
        end   == Stop(str, start, delim)
    IN  [ok |-> start <= Len(str), start |-> start, end |-> end]

\* No more than limit characters are used up; one that starts past them comes out empty.
range_token_limit(str, from, delim, limit) ==
    LET t == range_token(str, from, delim)
        skipped == t.start - from
        room == IF skipped <= limit THEN limit - skipped ELSE 0
        len  == IF t.end - t.start > room THEN room ELSE t.end - t.start
        used == IF skipped + len > limit THEN limit ELSE skipped + len
    IN  [ok |-> limit > 0 /\ t.ok, start |-> t.start, end |-> t.start + len, limit |-> limit - used]

----------------------------------------------------------------------------
(* Reference definitions.                                                  *)
\* A fresh range of n bytes in memory with a guard on either side.
Fresh(n) == [mem |-> [i \in 1..(n + 2) |-> "?"], start |-> 2, end |-> n + 2]

\* What has been appended since the range was fresh.
Built(r) == Text([r EXCEPT !.start = 2])

\* The range still lies in its memory, and the guards are untouched.
Contained(r) == 2 <= r.start /\ r.start <= r.end /\ r.mem[1] = "?" /\ r.mem[r.end] = "?"

\* Appending pieces one after the other builds their concatenation while it fits: every
\* append leaves a terminated string, one that does not fit leaves what was there before
\* it and returns the length it lacks.
AppendsAgree(n, first, second, third) ==
    LET a == range_cat_str(Fresh(n), first)
        src == [mem |-> <<"?">> \o second \o <<"?">>, start |-> 2, end |-> Len(second) + 2]
        b == range_cat_range(a.r, src)
        c == range_cat_fmt(b.r, third)
        d == range_cat_str(a.r, second)
        both == first \o second
    IN  n > Len(first) =>
          /\ \A x \in {a, b, c, d} : Contained(x.r)
          /\ a.rval = Len(first)
          /\ b.rval = IF Len(both) < n THEN Len(second) ELSE -Len(second)
          /\ b.rval = d.rval /\ Built(b.r) = Built(d.r)
          /\ Len(both) < n => Built(b.r) = both
          /\ Len(both) >= n => Built(b.r) = first
          /\ Len(both) < n => Built(c.r) = IF Len(both) + Len(third) < n THEN both \o third ELSE both

\* Copies and characters stay in the range; the trimmed text is the text between its
\* first and last character that is no space.
EditsAgree(n, str) ==
    LET c == range_copy_str(Fresh(n), str, TRUE)
        full == [mem |-> <<"?">> \o str \o <<"?">>, start |-> 2, end |-> Len(str) + 2]
        t == range_trim(full)
        solid == {i \in DOMAIN str : str[i] # " "}
        padded == range_pad_right(c.r, "p").r
    IN  n > 1 =>
          /\ Contained(c.r) /\ Contained(padded) /\ Contained(range_cat_char(Fresh(n), "c").r)
          /\ Text(c.r) = SubSeq(str, 1, IF Len(str) < n THEN Len(str) ELSE n - 1)
          /\ c.rval >= 0 <=> Len(str) < n
          /\ range_strlen(padded) = n - 1
          /\ IF solid = {} THEN Span(t) = <<>>
             ELSE /\ Span(t)[1] # " " /\ Span(t)[Len(Span(t))] # " "
                  /\ \A i \in solid : t.start <= i + 1 /\ i + 1 < t.end
          /\ range_strlen(range_terminate(range_set_len(full, n))) <= Len(str)

\* The tokens are the maximal runs of other characters, in order, each once; a limit cuts
\* the last one short and never adds one.
TokensAgree(str, delim, limit) ==
    LET all[from \in 1 .. Len(str) + 1] ==
          LET t == range_token(str, from, delim)
          IN  IF t.ok THEN <<SubSeq(str, t.start, t.end - 1)>> \o all[t.end] ELSE <<>>
        flat == FlattenSeq(all[1])
        first == range_token_limit(str, 1, delim, limit)
    IN  /\ flat = SelectSeq(str, LAMBDA ch : ch \notin delim)
        /\ \A i \in DOMAIN all[1] : all[1][i] # <<>>
        /\ first.ok => /\ first.start <= limit + 1 => first.end <= limit + 1
                       /\ first.limit >= 0
                       /\ first.start > limit + 1 => first.end = first.start

\* A number is printed with the places asked for and the digits of its value, rounded half
\* away from zero, where fixed_base10_adjust keeps the sign and no carry is left in the
\* fraction; padding makes it as wide as asked.
NumbersAgree(value, places, pad) ==
    LET scale == 100
        carry == places = 1 /\ Abs(value) % 100 >= 95
        tenth == (Abs(value) + 5) \div 10
        expected == CASE places = 2 -> Decimal(Quot(value, 100)) \o <<".">> \o Digits(Abs(value) % 100, 2)
                      [] places = 1 -> Decimal(Quot(value, 100)) \o <<".">> \o Digits(tenth % 10, 1)
                      [] places = 0 -> Decimal(IF value < 0 THEN -((50 - value) \div 100) ELSE (value + 50) \div 100)
    IN  ~SignIsLost(value, scale, places) /\ ~carry =>
          \A text \in {Fixed(value, scale, places)},
             r \in {range_cat_fixed_padded(Fresh(12), value, scale, places, pad).r} :
              /\ text = expected
              /\ Len(Built(r)) = IF Abs(pad) > Len(text) THEN Abs(pad) ELSE Len(text)
              /\ Contained(r)

=============================================================================
