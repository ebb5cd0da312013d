------------------------------ MODULE CronText ------------------------------
(***************************************************************************)
(* Schedules as text in src/src/cron_events.c: writing one as a string, which *)
(* is a sequence of characters, reading it back, and describing it in words.  *)
(***************************************************************************)
EXTENDS RangeStrings, CronMap

----------------------------------------------------------------------------
(* Writing and reading.                                                    *)
\* Each part is appended for itself; its length counts whether or not it fits.
encode_field(f, so_far, offset, last_field) ==
    LET then(s, a) == Done(a.r, s.rval + Abs(a.rval))
        put(s, part) == CASE part = <<>> -> s
                          [] part \in {<<"*">>, <<" ">>} -> then(s, range_cat_char(s.r, Head(part)))
                          [] OTHER -> then(s, range_cat_fmt(s.r, part))
        wild == f.rng_start = Wildcard
    IN  FoldLeft(put, so_far,
          << IF wild THEN <<"*">> ELSE Decimal(f.rng_start + offset),
             IF ~wild /\ f.rng_end > f.rng_start THEN <<"-">> \o Decimal(f.rng_end + offset) ELSE <<>>,
             IF f.step > 1 THEN <<"/">> \o Decimal(f.step) ELSE <<>>,
             IF last_field THEN <<>> ELSE <<" ">> >>)

cron_encode_schedule(spec, rng) ==
    FoldLeft(LAMBDA s, p : encode_field(p.field, s, p.offset, p.last), Done(rng, 0),
      << [field |-> spec.minute, offset |-> 0, last |-> FALSE], [field |-> spec.hour, offset |-> 0, last |-> FALSE],
         [field |-> spec.day_of_month, offset |-> 1, last |-> FALSE],
         [field |-> spec.month, offset |-> 1, last |-> FALSE],
         [field |-> spec.day_of_week, offset |-> 0, last |-> TRUE] >>)

ValueOf(ch) == (CHOOSE i \in DOMAIN Digit : Digit[i] = ch) - 1

\* strtoul: the number at a position and the position after it, the same one if there is
\* none; blanks before it are skipped and a minus sign is taken.
strtoul(str, at) ==
    LET first == Stop(str, at, Range(str) \ {" "})
        minus == first <= Len(str) /\ str[first] = "-"
        begin == IF minus THEN first + 1 ELSE first
        end   == Stop(str, begin, Range(str) \ Range(Digit))
        n     == FoldLeft(LAMBDA v, ch : 10 * v + ValueOf(ch), 0, SubSeq(str, begin, end - 1))
    IN  IF end = begin THEN [value |-> 0, next |-> at]
        ELSE [value |-> IF minus THEN -n ELSE n, next |-> end]

\* The character at a position, Nul past the end.
CharAt(str, at) == IF at <= Len(str) THEN str[at] ELSE Nul

\* The offset of days and months is forgotten.
StartUnshifted(st, str, offset) ==
    LET n == strtoul(str, st.pos)
    IN  IF n.next > st.pos
        THEN [st EXCEPT !.pos = n.next, !.field.rng_start = n.value % 64, !.count = @ + 1]
        ELSE [st EXCEPT !.ok = FALSE, !.done = TRUE]

\* A minus sign only ends a range: it is looked for after the first number.
StartAgain(st, str, offset) ==
    LET n == strtoul(str, st.pos)
    IN  IF n.next > st.pos
        THEN [st EXCEPT !.pos = n.next, !.field.rng_start = (n.value - offset) % 64, !.count = @ + 1]
        ELSE [st EXCEPT !.ok = FALSE, !.done = TRUE]

\* One turn of the loop over a field.  Values are cut to the six bits of the struct.
FieldStep(st, str, offset) ==
    LET ch == CharAt(str, st.pos)
        n  == strtoul(str, st.pos + 1)
    IN  CASE st.done \/ st.count >= 2 \/ ch = Nul \/ IsSpace(ch) -> [st EXCEPT !.done = TRUE]
          [] ~st.done /\ st.count < 2 /\ ch = "*" ->
                 [st EXCEPT !.pos = @ + 1, !.field = Field(Wildcard, 0, 0), !.count = 2, !.done = TRUE]
          [] ~st.done /\ st.count = 1 /\ ch = "-" ->
                 [st EXCEPT !.pos = n.next, !.field.rng_end = (n.value - offset) % 64,
                            !.count = 2, !.done = TRUE]
          [] ~st.done /\ st.count < 2 /\ ch \notin {Nul, "*"} /\ ~IsSpace(ch)
             /\ ~(st.count = 1 /\ ch = "-") -> StartAgain(st, str, offset)

\* A step may only follow a range or a wildcard; its value is cut to four bits.
StepRead(st, str) ==
    LET step == strtoul(str, st.pos + 1)
    IN  CASE CharAt(str, st.pos) = "/" /\ st.count = 2 ->
                 [ok |-> st.ok, pos |-> step.next, field |-> [st.field EXCEPT !.step = step.value % 16]]
          [] CharAt(str, st.pos) = "/" /\ st.count # 2 -> [ok |-> FALSE, pos |-> st.pos, field |-> st.field]
          [] CharAt(str, st.pos) # "/" -> [ok |-> st.ok, pos |-> st.pos, field |-> st.field]

decode_field(str, at, offset) ==
    LET first == Stop(str, at, Range(str) \ {" "})
    IN  StepRead(FoldLeft(LAMBDA s, i : FieldStep(s, str, offset),
                          [pos |-> first, field |-> Field(0, 0, 0), count |-> 0, ok |-> TRUE,
                           done |-> FALSE], <<1, 2, 3>>), str)

\* Fields missing at the end are read as zeros: of an empty string too.
cron_decode_schedule(str) ==
    LET next(st, d) == [ok |-> st.ok /\ d.ok, pos |-> d.pos, fields |-> Append(st.fields, d.field)]
        spec(st) == [ok |-> st.ok,
                     spec |-> [minute |-> st.fields[1], hour |-> st.fields[2], day_of_month |-> st.fields[3],
                               month |-> st.fields[4], day_of_week |-> st.fields[5]]]
    IN  spec(FoldLeft(LAMBDA st, offset : next(st, decode_field(str, st.pos, offset)),
                      [ok |-> TRUE, pos |-> 1, fields |-> <<>>], <<0, 0, 1, 1, 0>>))

----------------------------------------------------------------------------
(* Descriptions: a sequence of <<"item", value>> and of words.             *)
Word(w) == <<w, 0>>

\* The first and last value and the step a description goes by.
Span3(f, max_value) ==
    LET wild == f.rng_start = Wildcard
    IN  [first |-> IF wild THEN 0 ELSE f.rng_start,
         last  |-> IF wild THEN max_value ELSE IF f.rng_end > 0 THEN f.rng_end ELSE f.rng_start,
         step  |-> IF f.step > 0 THEN f.step ELSE 1]

cron__describe_field(f, max_value) ==
    LET s == Span3(f, max_value)
        all == SelectSeq([k \in 1..(max_value + 1) |-> k - 1],
                         LAMBDA i : i >= s.first /\ i <= s.last /\ (i - s.first) % s.step = 0)
        after(i) == IF i + s.step > s.last THEN <<>>
                    ELSE <<Word(IF Len(all) > 2 THEN "comma" ELSE "blank")>>
                         \o IF i + 2 * s.step > s.last THEN <<Word("and")>> ELSE <<>>
    IN  IF s.step <= 1 /\ s.last > s.first
        THEN << <<"item", s.first>>, Word("to"), <<"item", s.last>> >>
        ELSE FlattenSeq([k \in DOMAIN all |-> << <<"item", all[k]>> >> \o after(all[k])])

Described(f, max_value, one, many) ==
    IF f.rng_start = Wildcard /\ f.step <= 1 THEN <<Word("every")>>
    ELSE <<Word(IF f.step > 1 \/ f.rng_end = 0 THEN one ELSE many)>> \o cron__describe_field(f, max_value)

cron_describe_month(spec) == Described(spec.month, 11, "in", "from")

cron_describe_week_day(spec) ==
    IF prioritize_day_of_week(spec) THEN Described(spec.day_of_week, 6, "on", "from") ELSE <<>>

cron_describe_month_day(spec) ==
    IF prioritize_day_of_week(spec) THEN <<>> ELSE Described(spec.day_of_month, 30, "on date", "from day")

cron_describe_hour(spec) == Described(spec.hour, HoursPerDay - 1, "at", "from")

cron_describe_minute(spec) ==
    Described(spec.minute, MinutesPerHour - 1, "at", "from")
    \o IF spec.minute.rng_start = Wildcard /\ spec.minute.step <= 1 THEN <<>> ELSE <<Word("past")>>

\* An hour on the twelve-hour clock.
format_item_hour(value) ==
    <<IF value > 12 THEN value - 12 ELSE IF value = 0 THEN 12 ELSE value, IF value < 12 THEN "A" ELSE "P">>

----------------------------------------------------------------------------
(* Properties.                                                             *)
\* A schedule written as text and read back has the same map, if every step above one
\* follows a range or a wildcard; the length returned is that of the text.
ScheduleReadsBack(spec, room) ==
    LET plain(f) == f.step > 1 => f.rng_start = Wildcard \/ f.rng_end > f.rng_start
    IN  \A w \in {cron_encode_schedule(spec, Fresh(room))} :
        \A text \in {Built(w.r)} :
          /\ Contained(w.r)
          /\ w.rval < room => Len(text) = w.rval
          /\ w.rval < room /\ (\A k \in DOMAIN spec : plain(spec[k])) =>
                \A back \in {cron_decode_schedule(text)} : back.ok /\ map_init(back.spec) = map_init(spec)

\* What is read has each field in the range of its bits, whatever the text.
ReadIsBounded(text) ==
    \A back \in {cron_decode_schedule(text)} :
        back.ok => \A k \in DOMAIN back.spec :
          /\ back.spec[k].rng_start \in 0..63 /\ back.spec[k].rng_end \in 0..63
          /\ back.spec[k].step \in 0..15

\* The values a description names: all, the ends of a range, or one by one.
Named(words, max_value) ==
    LET kinds == {words[k][1] : k \in DOMAIN words}
        items == {words[k][2] : k \in {j \in DOMAIN words : words[j][1] = "item"}}
    IN  IF "every" \in kinds THEN 0 .. max_value
        ELSE IF "to" \in kinds
        THEN (CHOOSE a \in items : \A b \in items : a <= b) .. (CHOOSE a \in items : \A b \in items : b <= a)
        ELSE items

\* A description names the values of the bitmap of its field, and of the days those that
\* win; hours are told apart.  Fields whose range ends before it starts are left aside.
DescriptionAgrees(spec) ==
    LET says(words, f, max_value) ==
          (f.rng_end = 0 \/ f.rng_end >= f.rng_start) /\ f.rng_end <= max_value
          /\ (f.rng_start <= max_value \/ f.rng_start = Wildcard) =>
              Named(words, max_value) = field_spec_to_bitmap(f) \cap (0 .. max_value)
    IN  /\ says(cron_describe_minute(spec), spec.minute, MinutesPerHour - 1)
        /\ says(cron_describe_hour(spec), spec.hour, HoursPerDay - 1)
        /\ says(cron_describe_month(spec), spec.month, 11)
        /\ IF prioritize_day_of_week(spec)
           THEN /\ says(cron_describe_week_day(spec), spec.day_of_week, 6)
                /\ cron_describe_month_day(spec) = <<>>
           ELSE /\ says(cron_describe_month_day(spec), spec.day_of_month, 30)
                /\ cron_describe_week_day(spec) = <<>>
        /\ \A a, b \in 0 .. 23 : format_item_hour(a) = format_item_hour(b) => a = b

=============================================================================
