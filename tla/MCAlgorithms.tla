---------------------------- MODULE MCAlgorithms ----------------------------
(***************************************************************************)
(* The pure functions of the library on bounded inputs.  A step calls one    *)
(* function, or a short sequence of calls that belong together, on one set   *)
(* of inputs; each invariant compares what the translated code computes with *)
(* a definition of what it should.                                          *)
(***************************************************************************)
EXTENDS CronText, PropCode, TLC

Crc == INSTANCE Checksum
Stat == INSTANCE Statistics WITH TimerWords <- 16, NameLen <- 2
Bip == INSTANCE BipBuf
List == INSTANCE Lists WITH Nil <- 0
Ids == INSTANCE PropIds
Pattern == INSTANCE Glob
Str == INSTANCE StringOps WITH MaxDigits <- 3, MaxFracDigits <- 2
Sh == INSTANCE ShellText WITH MaxParams <- 3, MaxArgs <- 2, MaxSets <- 2
Pairs == INSTANCE EventPairs WITH Times <- 16
Draw == INSTANCE Chance WITH W <- 6, WordBytes <- 4
Table == INSTANCE HashSize WITH Primes <- <<3, 5, 7, 11, 13>>, BucketBytes <- 4
Show == INSTANCE Reports WITH LineBytes <- 4, Graphic <- {65, 66}

\* Times in mixed radix, so that fields out of their range carry.
TimeOf[t \in Seq(Int)] == FoldLeft(LAMBDA n, x : 4 * n + x, 0, t)
Con == INSTANCE ConsoleCommands WITH MkTime <- TimeOf, Count <- 3, Words <- 256, QueueSize <- 2

\* A coder for repeated bytes, for the compressing library: <<0, n, b>> is b n times.
RunOf(data) == CHOOSE n \in 1..Len(data) : /\ \A k \in 1..n : data[k] = data[1]
                                          /\ n < Len(data) => data[n + 1] # data[1]
RunsOf[data \in Seq(0..255)] ==
    IF data = <<>> THEN <<>>
    ELSE IF RunOf(data) = 1 /\ data[1] # 0 THEN <<data[1]>> \o RunsOf[Tail(data)]
    ELSE <<0, RunOf(data), data[1]>> \o RunsOf[SubSeq(data, RunOf(data) + 1, Len(data))]
BytesOf[code \in Seq(0..255)] ==
    IF code = <<>> THEN <<>>
    ELSE IF code[1] # 0 THEN <<code[1]>> \o BytesOf[Tail(code)]
    ELSE [k \in 1..code[2] |-> code[3]] \o BytesOf[SubSeq(code, 4, Len(code))]

Saved == INSTANCE LogRecords WITH Encode <- RunsOf, Decode <- BytesOf, SectorRoom <- 6

VARIABLE job      \* what is called, and its inputs

Idle == [call |-> "none", in |-> <<>>]

Called(name) == job.call = name

Call(name, inputs) == job' = [call |-> name, in |-> inputs]

Lists(set, lengths) == UNION {[1..n -> set] : n \in lengths}

Init == job = Idle

----------------------------------------------------------------------------
(* Inputs.                                                                 *)
Bits8(n) == Crc!BitsOf(n, 8)

CheckBlock ==
    /\ job = Idle
    /\ \/ \E b \in 0..255 : Call("crc", <<Bits8(b)>>)
       \/ \E b \in Lists({0, 1, 15, 128, 165, 255}, 2..3) : Call("crc", [k \in DOMAIN b |-> Bits8(b[k])])
       \/ \E b \in Lists({1, 64, 130}, {4}) :
             Call("crc", [k \in 1..8 |-> Bits8(IF k <= 4 THEN b[k] ELSE b[9 - k])])

Types == {u16, s16, u32, s32, u64, s64}

StoreNumber ==
    /\ job = Idle
    /\ \/ \E x \in -130 .. 257, t \in Types : Call("bytes", <<x, t>>)
       \/ \E x \in {-32768, -32767, -1025, 255 * 256, 32767, 32768, 65535}, t \in {u64, s64} :
             Call("bytes", <<x, t>>)

Item(prop, kind, value, size) ==
    [prop |-> prop, entry |-> [kind |-> kind, value |-> value, size |-> size]]

Texts == {<<>>, <<65>>, <<66, 0, 67>>, [i \in 1..130 |-> i]}

Items ==
    {Item(p, Kinds.uint, v, 0) : p \in {256, 65535}, v \in {0, 127, 128, 16383, 16384, 65535}}
    \cup {Item(p, Kinds.int, v, 0) : p \in {513}, v \in {-32768, -65, -64, 0, 63, 64, 32767}}
    \cup {Item(p, Kinds.blob, t, Len(t)) : p \in {4352}, t \in Texts}
    \cup {Item(p, Kinds.string, t, Len(t)) : p \in {4353}, t \in {u \in Texts : 0 \notin Range(u)}}

SaveEntries ==
    /\ job = Idle
    /\ \/ \E n \in (0..300) \cup {16383, 16384, 32767, 32768, 65535}, garbage \in {0, 255} :
             Call("number", <<n, garbage>>)
       \/ \E s \in Lists(Items, 1..2), garbage \in {0, 255} : Call("entries", <<s, garbage>>)
       \/ \E t \in Texts, room \in {1, 2, 3, 4, 131} : 0 \notin Range(t) /\ Call("string", <<t, room>>)

\* Names known everywhere, in everything under <<2>> and in everything under <<2, 64>>, whose
\* namespaces are added in either order, with their masks or without.
FieldName(level, value, name) == [level |-> level, value |-> value, name |-> name]
Space(prefix, mask, defs) == [prefix |-> prefix, mask |-> mask, defs |-> defs]

Everywhere == Space(Ids!NoProp, Ids!NoProp, {FieldName(1, 2, "HW"), FieldName(2, 1, "INFO"), FieldName(4, 1, "VALUE"),
                                             FieldName(3, 127, "R127"), FieldName(4, 255, "MSK")})
Wide == {FieldName(2, 64, "FAN"), FieldName(3, 1, "BLADE")}
Narrow == {FieldName(3, 77, "BLADES"), FieldName(4, 64, "ANGLE")}

NamesOf(way) ==
    CASE way = "global" -> <<Everywhere>>
      [] way = "masked" -> Ids!prop_add_namespace(Ids!prop_add_namespace(<<Everywhere>>,
             Space(<<2, 64, 0, 0>>, <<255, 255, 0, 0>>, Narrow)), Space(<<2, 0, 0, 0>>, <<255, 0, 0, 0>>, Wide))
      [] way = "late" -> Ids!prop_add_namespace(Ids!prop_add_namespace(<<Everywhere>>,
             Space(<<2, 255, 255, 255>>, Ids!NoProp, Wide)), Space(<<2, 64, 255, 255>>, Ids!NoProp, Narrow))

NameProperty == job = Idle /\ \E p \in Lists({0, 1, 2, 64, 77, 127, 129, 192, 254, 255}, {4}) : Call("prop", p)

SetFlags ==
    /\ job = Idle
    /\ \E prefix \in {<<1, 2, 131, 9>>, <<1, 2, 3, 0>>}, names \in {<<>>, <<"run", "on", "run">>} :
       \E calls \in Lists([by : {"prop"}, index : {0, 7, 255}, value : BOOLEAN]
                           \cup [by : {"name"}, index : {0, 1, 5}, value : BOOLEAN]
                           \cup [by : {"other"}, index : {1}, value : {TRUE}], 0..3) :
          Call("flags", <<prefix, names, calls>>)

SizeTable ==
    /\ job = Idle
    /\ \/ \E cfg \in [init_buckets : {0, 1, 4, 6, 11, 14}, max_storage : {0, 8, 20, 31, 60}, ext_storage : {FALSE, TRUE}, refuses : {FALSE}] :
             \E memory \in {16, 32, 60}, reserved \in 0..7, refuses \in BOOLEAN :
                (cfg.ext_storage => cfg.max_storage > 0) /\ Call("size", <<cfg, memory, reserved, refuses>>)
       \/ \E b \in Lists([probe_count : 0..2, deleted : BOOLEAN], 1..4), enough \in 1..4 :
             Call("visit", <<[i \in DOMAIN b |-> [key |-> i, probe_count |-> b[i].probe_count, deleted |-> b[i].deleted]], enough>>)

CompareNumbers == job = Idle /\ \E a, b \in {-130, -128, -9, -8, -1, 0, 7, 8, 15, 16, 127, 128, 255, 300} :
                     \E t \in Types : Fits(a, t) /\ Call("minmax", <<a, b, t>>)

SearchArray == job = Idle /\ \E a \in Lists(0..5, 0..4), key \in -1 .. 6, up \in BOOLEAN :
    /\ \A i, j \in DOMAIN a : i < j => IF up THEN a[i] <= a[j] ELSE a[j] <= a[i]
    /\ Call("search", <<key, a, up>>)

Scales == {1, 2, 8, 10, 100, 128}

Convert ==
    /\ job = Idle
    /\ \/ \E x \in (1..600) \cup {1023, 1024, 4095, 16383, 16384, 16385, 32767, 32768, 65535} :
             Call("logs", x)
       \/ \E x \in -330 .. 330, scale \in Scales : Call("base10", <<x, scale>>)
       \/ \E x \in {-999, -95, -1, 0, 1, 9, 10, 99, 100, 999, 1000}, e \in {-6, -3, 0, 1, 3, 4}, p \in BOOLEAN :
             Call("prefix", <<x, e, p>>)

Interpolate ==
    /\ job = Idle
    /\ \/ \E a, c \in {-60, -3, 0, 5, 60} : Call("lerp", <<a, c>>)
       \/ \E x0, x1, x2 \in {-20, -4, 0, 9, 25, 40} : Call("curve", <<x0, x1, x2>>)

Sample == job = Idle /\ \E n \in 1..4, high \in {3, 5, 8}, over \in BOOLEAN :
            \E s \in Lists({-2, 0, 1, 4, 7, 9}, 0..3) : Call("sample", <<Stat!histogram_init(n, 0, high, over), s>>)

DrawNumbers ==
    /\ job = Idle
    /\ \/ \E min \in {-32, -5, 0, 3}, max \in -6 .. 31 : Call("range", <<min, max>>)
       \/ \E w \in Lists(0..4 \cup {9, 27, 31}, 1..3) : Call("choice", w)
       \/ \E dest \in 20..23, size \in 0..9 : Call("fill", <<dest, size>>)

EditText == job = Idle /\ \E n \in 1..6, s \in Lists({"a", "b", " "}, 0..5) : Call("text", <<n, s>>)

\* A star, any character, one of them, a range, and what is not in a set.
GlobItems == {Pattern!Item(<<42>>, {}), Pattern!Item(<<63>>, {}), Pattern!Item(<<97>>, {97}),
              Pattern!Item(<<47>>, {47}), Pattern!Item(<<91, 97, 45, 98, 93>>, {97, 98}),
              Pattern!Item(<<91, 33, 97, 45, 98, 99, 93>>, Pattern!Chars \ {97, 98, 99})}

MatchPattern == job = Idle /\ \E items \in Lists(GlobItems, 0..3) : Call("glob", items)

UseString ==
    /\ job = Idle
    /\ \/ \E size \in 1..4, s, t \in Lists({"a", "b"}, 0..3) : Call("copy", <<size, s, t>>)
       \/ \E s \in Lists({"y", "e", "s", " "}, 0..4) \cup Str!s_bool_true \cup Str!s_bool_false : Call("split", s)
       \/ \E s \in Lists({"a", " ", "-"}, 0..6) : Call("wrap", s)
       \/ \E neg \in BOOLEAN, whole, frac \in Lists({"0", "3", "9"}, 0..3) : Call("fixed", <<neg, whole, frac>>)

Typed(chars, key) == [chars |-> chars, key |-> key, report |-> <<>>]

Report(row, col, chars) == [chars |-> chars, key |-> <<>>,
                            report |-> <<[event |-> "loc", width |-> col, height |-> row]>>]

Keys == {Typed(<<"a">>, << <<"char", "a">> >>), Typed(<<"ESC", "b">>, << <<"meta", "b">> >>),
         Typed(<<"ESC", "[", "A">>, << <<"arrow", "A">> >>), Typed(<<"ESC", "[", "1", ";", "2", "C">>, << <<"arrow", "C">> >>),
         Typed(<<"ESC", "[", "3", "~">>, << <<"del">> >>), Typed(<<"ESC", "[", "4", "~">>, << <<"char", "CTRL_E">> >>),
         Typed(<<"ESC", "[", "H">>, << <<"char", "CTRL_A">> >>), Typed(<<"ESC", "[", "3", ";", "2", "~">>, <<>>),
         Typed(<<"ESC", "[", "!", "f">>, <<>>),
         Report(24, 80, <<"ESC", "[", "2", "4", ";", "8", "0", "R">>), Report(5, 6, <<"ESC", "[", "5", ";", "6", "R">>)}

\* HIstory, History, LOg and help, in sets of one or two.
Letter(c, cap) == [letter |-> c, cap |-> cap]
Command(cmd, name) == [cmd |-> cmd, name |-> name]
Commands == {Command("hi", <<Letter("h", TRUE), Letter("i", TRUE), Letter("s", FALSE)>>),
             Command("his", <<Letter("h", TRUE), Letter("i", FALSE), Letter("s", FALSE)>>),
             Command("help", <<Letter("h", FALSE), Letter("s", FALSE)>>), Command("log", <<Letter("l", TRUE)>>)}

UseShell ==
    /\ job = Idle
    /\ \/ \E typed \in Lists(Keys, 1..3), query \in BOOLEAN : Call("keys", <<typed, query>>)
       \/ \E args \in Lists({<<>>, <<"a">>, <<" ">>, <<"a", " ", "b">>, <<" ", " ", "b">>}, 0..4) : Call("args", args)
       \/ \E sets \in Lists(Lists(Commands, 1..2), 0..3), input \in Lists({"h", "i", "s"}, 0..3) :
             Call("command", <<sets, input>>)

\* The options of "ab:c::", and --all, --need=x and --may=x, whose letters are e, n and m.
Given(kind, args, opts) == [kind |-> kind, args |-> args, opts |-> opts]
All == <<"-", "-", "a", "l", "l">>
Need == <<"-", "-", "n", "e", "e", "d">>
May == <<"-", "-", "m", "a", "y">>
LongOptions ==
    {[name |-> SubSeq(All, 3, 5), has_arg |-> "no", val |-> "e", flag |-> TRUE],
                [name |-> SubSeq(Need, 3, 6), has_arg |-> "required", val |-> "n", flag |-> FALSE],
                [name |-> SubSeq(May, 3, 5), has_arg |-> "optional", val |-> "m", flag |-> FALSE]}

OptionItems ==
    {Given("plain", << <<"f">> >>, <<>>), Given("plain", << <<"g">> >>, <<>>), Given("plain", << <<"-">> >>, <<>>), Given("stop", << <<"-", "-">> >>, <<>>),
     Given("option", << <<"-", "a">> >>, << <<"a", <<>> >> >>),
     Given("option", << <<"-", "b", "x">> >>, << <<"b", << <<"x">> >> >> >>),
     Given("cluster", << <<"-", "a", "z", "b">>, <<"-", "y">> >>,
           << <<"a", <<>> >>, <<"?", <<>> >>, <<"b", << <<"-", "y">> >> >> >>),
     Given("option", << <<"-", "c", "x">> >>, << <<"c", << <<"x">> >> >> >>),
     Given("optional", << <<"-", "a", "c">> >>, << <<"a", <<>> >>, <<"c", <<>> >> >>),
     Given("missing", << <<"-", "b">> >>, << <<"?", <<>> >> >>),
     Given("option", <<All>>, << <<"0", <<>> >> >>), Given("option", <<All \o <<"=", "x">> >>, << <<"?", <<>> >> >>),
     Given("option", <<Need \o <<"=", "x">> >>, << <<"n", << <<"x">> >> >> >>),
     Given("option", <<Need, <<"x">> >>, << <<"n", << <<"x">> >> >> >>),
     Given("missing", <<Need>>, << <<"?", <<>> >> >>), Given("option", <<May>>, << <<"m", <<>> >> >>)}

ParseOptions == job = Idle /\ \E items \in Lists(OptionItems, 0..3), permute \in BOOLEAN : Call("options", <<items, permute>>)

ConsoleIds == [i \in 1..3 |-> [kind |-> IF i = 2 THEN "UART" ELSE "USB", id |-> i]]

UseConsoles ==
    /\ job = Idle
    /\ \/ \E calls \in Lists([op : {"add", "remove", "default"}, con : 1..3], 0..4) : Call("consoles", calls)
       \/ \E fails \in SUBSET {"line", "hist", "con", "tx", "rx"}, history \in BOOLEAN : Call("memory", <<history, fails>>)
       \/ \E text \in Lists({"a", "CR", "NL"}, 0..4), drains \in Lists(0..2, {5}) \cup Lists({1, 2}, {8}), off \in BOOLEAN :
             Call("output", <<text, drains, off>>)

CompileSequence ==
    /\ job = Idle
    /\ \E delays \in Lists({0, 1, 4, 9}, {1, 2, 3, 4}), ends \in SUBSET {1, 2} :
          Call("compile", [i \in 1 .. (Len(delays) + 1) \div 2 |->
             [begin |-> [event |-> 10 * i, delay |-> delays[2 * i - 1]],
              end |-> [event |-> IF i \in ends /\ 2 * i <= Len(delays) THEN 10 * i + 1 ELSE 0,
                       delay |-> IF 2 * i <= Len(delays) THEN delays[2 * i] ELSE 0]]])

PrintNumber == job = Idle /\ \E v \in -210 .. 210 : Call("print", v)

Fields == {Field(Wildcard, 0, 0), Field(0, 0, 0), Field(5, 9, 0), Field(Wildcard, 0, 4), Field(2, 11, 3)}

PlanSchedule ==
    /\ job = Idle
    /\ \/ \E f \in [rng_start : {0, 3, 11, Wildcard}, rng_end : {0, 5, 11}, step : 0..3] :
             Call("plan", f)
       \/ \E s \in Lists({"1", "5", "*", "-", "/", " "}, 0..4) : Call("read", s)

UseBuffer ==
    /\ job = Idle
    /\ \/ \E ops \in [1..4 -> {"push_back", "push_front", "pop_front", "pop_back"} \X (1..3)] :
             Call("deque", ops)
       \/ \E ops \in [1..4 -> ({"reserve"} \X {2, 3}) \cup ({"commit"} \X {0, 1, 3})
                              \cup ({"push", "pop"} \X {1, 2})] :
             Call("reserve", ops)

LinkNodes ==
    /\ job = Idle
    /\ \E kind \in {"slist", "list", "clist"} :
       \E ops \in [1..3 -> ({"push", "pop", "push_back", "pop_back"} \X {1}) \cup (List!Placed \X (1..3))] :
          Call("list", <<kind, <<[op |-> "push", pos |-> 1], [op |-> "add_after", pos |-> 1]>>
                               \o [k \in 1..3 |-> [op |-> ops[k][1], pos |-> ops[k][2]]]>>)

Blocks(kinds, lengths) == [kind : kinds, compressed : {FALSE}, data : {[k \in 1..n |-> 7] : n \in lengths}]

SaveRecords ==
    /\ job = Idle
    /\ \/ \E old \in {<<>>, <<5, 5, 5, 5, 5>>}, props \in Lists({0, 7}, 0..7), compress \in BOOLEAN :
             Call("save", <<old, props, compress>>)
       \/ \E log \in Lists(Blocks({1, 2, 4}, {0, 3}), 0..4), room \in {0, 2, 3} : Call("index", <<log, room>>)

Timed(op, id, name, from, to) == [op |-> op, id |-> id, name |-> name, from |-> from, to |-> to]
AddFirst == Timed("add", 1, <<97>>, 0, 0)
TimedCalls ==
    {AddFirst, Timed("add", 2, <<>>, 0, 0), Timed("run", 1, <<>>, 3, 9),
     Timed("run", 1, <<>>, 14, 4), Timed("again", 2, <<>>, 15, 1), Timed("run", 2, <<>>, 5, 6),
     Timed("delete", 1, <<>>, 0, 0), Timed("reset", 2, <<>>, 0, 0)}

Profile == job = Idle /\ \E calls \in Lists(TimedCalls, 0..4), max \in 0..1, costs \in {<<3, 2, 4>>, <<0>>} :
                             Call("profile", <<max, costs, <<AddFirst>> \o calls>>)

Bits(high, low) == [high |-> high, low |-> low]
Registers == {<<12, <<Bits(11, 11), Bits(9, 6), Bits(5, 4), Bits(0, 0)>> >>, <<4, <<Bits(3, 0)>> >>,
              <<16, <<Bits(15, 12), Bits(10, 10)>> >>, <<17, <<Bits(16, 16), Bits(14, 13), Bits(1, 0)>> >>}

DrawReport ==
    /\ job = Idle
    /\ \/ \E buf \in Lists({65, 7}, 0..9), at \in 8..11 : Call("dump", <<buf, at>>)
       \/ \E size \in {0, 5, 40}, n \in {0, 3, 17, 60}, at \in 0..6 : Call("store", <<[k \in 1..size |-> k], n, at>>)
       \/ \E r \in Registers, value \in {0, 1, 5, 2730, 4095, 33333} : Call("register", <<r[1], r[2], value % 2^r[1]>>)
       \/ \E scale \in 1..13, width \in 1..6, n \in 1..3 : Call("progress", <<scale, width, [k \in 1..n |-> k]>>)

Date(chars, error, dry, clear) == [cmd |-> "date", opt |-> [set |-> chars, cal_error |-> error, dry_run |-> dry, clear |-> clear]]
Dated(chars) == Date(chars, 0, FALSE, FALSE)
Assign(prop, chars) == [cmd |-> "property", opt |-> [prop |-> prop, value |-> chars]]
Log(option) == [cmd |-> "log", opt |-> [o \in {"format", "save", "read"} |-> o = option]]
Errors(option) == [cmd |-> "error", opt |-> [o \in {"mount", "clear", "gen"} |-> o = option]]
Typing == {Dated(<<"1", "-", "2", "-", "3", "T", "1", ":", "1", "2", ":", "3">>),
           Dated(<<"2", "-", "-", "1", "x", "-", "3", "-", "9", " ", "-", "1", ":", "y", ":", "3", ":">>),
           Dated(<<"2", "-", "1", "T", "1", ":", "2", ":", "3">>), Dated(<<"1", "-", "2", "-", "3">>),
           Date(<<>>, -2, FALSE, FALSE), Date(<<>>, 5, TRUE, FALSE),
           Date(<<"1", "-", "2", "-", "3", "T", "1", ":", "1", ":", "3">>, 1, FALSE, TRUE),
           Assign(1, <<"7", "x">>), Assign(1, <<"-", "2">>), Assign(2, <<"o", "n">>), Assign(3, <<"0">>),
           Assign(4, <<"a">>), Log("format"), Log("save"), Log("read"), Errors("mount"), Errors("clear"), Errors("gen")}

Property(value, persist, readonly, protect) ==
    [kind |-> "uint", value |-> value, persist |-> persist, readonly |-> readonly, protect |-> protect]
Stores == {(1 :> Property(4, TRUE, FALSE, FALSE)) @@ (2 :> Property(5, FALSE, TRUE, FALSE))
             @@ (3 :> Property(6, TRUE, FALSE, TRUE)),
           (2 :> Property(5, TRUE, FALSE, FALSE)), << >>}

TypeCommands == job = Idle /\ \E cmds \in Lists(Typing, 0..3), db \in Stores : Call("console", <<db, cmds>>)

Next ==
    \/ TypeCommands
    \/ SaveRecords
    \/ Profile
    \/ DrawReport
    \/ CheckBlock
    \/ StoreNumber
    \/ SaveEntries
    \/ NameProperty
    \/ SetFlags
    \/ SizeTable
    \/ CompareNumbers
    \/ SearchArray
    \/ Convert
    \/ Interpolate
    \/ Sample
    \/ DrawNumbers
    \/ EditText
    \/ MatchPattern
    \/ UseString
    \/ UseShell
    \/ ParseOptions
    \/ UseConsoles
    \/ CompileSequence
    \/ PrintNumber
    \/ PlanSchedule
    \/ UseBuffer
    \/ LinkNodes

Spec == Init /\ [][Next]_job

----------------------------------------------------------------------------
(* Invariants.                                                             *)
\* The bit-serial, 16-entry and 256-entry forms of each CRC take a register to the same
\* register and see a changed bit; a number stored at an unaligned address in either byte
\* order reads back, and the generic min and max choose as the types allow; properties
\* written to the log come back as they were, compressed or not, identifiers by name or
\* number, and the index of the log finds the newest block of a kind.
CodesAgree ==
    /\ Called("crc") =>
         /\ Crc!AllAgree(Crc!Crc8.init, Crc!Crc16.init, Crc!Crc32.init, job.in)
         /\ Crc!SwappedAgrees(Crc!Crc32.init, job.in)
         /\ \A bit \in 0..7 : Crc!OneBitIsSeen(job.in, 1, bit)
    /\ Called("bytes") => RoundTrips(job.in[1], job.in[2])
    /\ Called("minmax") => MinMaxAgree(job.in[1], job.in[2], job.in[3])
    /\ Called("number") => NumberReadsBack(job.in[1], job.in[2])
    /\ Called("entries") => EntriesReadBack(job.in[1], job.in[2])
    /\ Called("string") => StringReadsBack(job.in[1], job.in[2])
    /\ Called("prop") =>
         /\ \A way \in {"global", "masked", "late"} : /\ Ids!NameReadsBack(NamesOf(way), job.in)
                                                    /\ Ids!IdReadsBack(NamesOf(way), job.in)
         /\ \A other \in {<<2, 64, 255, 255>>, <<255, 1, 77, 2>>, <<2, 64, 77, 1>>} : Ids!MasksAgree(job.in, other)
    /\ Called("flags") => Ids!FlagsAgree(job.in[1], <<1, 2, 132, 0>>, job.in[2], job.in[3])
    /\ Called("save") => Saved!SavedIsRestored(job.in[1], job.in[2], job.in[3])
    /\ Called("index") => Saved!IndexFindsNewest(job.in[1], job.in[2])

\* Powers, logarithms, roots, base-10 and prefixed forms, curves, the histogram with its
\* charts and the running statistics are within their rounding of the exact values; a
\* profile is of the times that were measured; the searches find the nearest item and
\* never leave the array; random numbers are spread evenly over their range.
NumbersAreClose ==
    /\ Called("search") => /\ Table!ExactAgrees(job.in[1], job.in[2], job.in[3])
                           /\ Table!NearestAgrees(job.in[1], job.in[2], job.in[3])
    /\ Called("logs") =>
         /\ \A base \in {2, 3, 10, 16} : PowersAgree(job.in, base)
         /\ \A e \in 0..8 : LogAgrees(job.in, e)
         /\ \A e \in {0, 2, 4, 8} : RootAgrees(job.in, e)     \* only even exponents are asked for
    /\ Called("base10") => \A places \in -1 .. 3 : Base10Agrees(job.in[1], job.in[2], places)
    /\ Called("prefix") => \A scale \in {1, 10} : PrefixAgrees(job.in[1], job.in[2], scale, job.in[3])
    /\ Called("lerp") => \A t \in 0 .. 2^B - 1 : InterpolationAgrees(job.in[1], job.in[2], t)
    /\ Called("curve") => \A x \in -19 .. 30 : CurveSearchAgrees(job.in[1], job.in[2], job.in[3], x)
    /\ Called("sample") =>
         /\ Stat!SamplesAreBinned(job.in[1], job.in[2])
         /\ \A top \in {0, 1} : Stat!ChartsAgree(job.in[1], job.in[2], 2, 2, top)
         /\ \A e \in {0, 2} : Stat!StatsAgree(job.in[2], e)
    /\ Called("profile") => Stat!ProfilesAgree(job.in[1], job.in[2], job.in[3])
    /\ Called("range") => Draw!RangeIsEven(job.in[1], job.in[2])
    /\ Called("choice") => Draw!ChoicesAgree(job.in)
    /\ Called("fill") => Draw!BytesAreFilled(job.in[1], job.in[2])

Part(s, i, j) == SubSeq(s, i, IF j > Len(s) THEN Len(s) ELSE j)

\* What is built in a string range is what was appended as long as it fits, always ends in
\* a NUL and never leaves the buffer; tokens, keys, options and printed numbers are
\* those of the text and the value; dumps, registers and bars show the bytes, bits and
\* parts they stand for; a console command leaves what it was told to.
TextAgrees ==
    /\ Called("text") =>
         LET n == job.in[1]
             s == job.in[2]
         IN  /\ AppendsAgree(n, Part(s, 1, 2), Part(s, 3, 3), Part(s, 4, 5))
             /\ EditsAgree(n, s)
             /\ TokensAgree(s, {" "}, n) /\ TokensAgree(s, {" ", "b"}, n)
    /\ Called("glob") => \A s \in Lists({97, 98, 47}, 0..3), seps \in {{}, {47}} : Pattern!GlobAgrees(job.in, s, seps)
    /\ Called("copy") => Str!CopiesAgree(4, job.in[1], job.in[2], job.in[3])
    /\ Called("split") => \A n \in 0..3 : Str!SplitsAgree(job.in, n)
    /\ Called("wrap") => \A columns \in 1..3, indent \in 0..1, space_only \in BOOLEAN :
                             Str!WrapsAgree(job.in, columns, indent, space_only)
    /\ Called("fixed") => \A scale \in {1, 8, 10, 100} :
                             Str!FixedAgrees(job.in[1], job.in[2], job.in[3], scale)
    /\ Called("keys") => Sh!KeysAreTaken(job.in[1], job.in[2])
    /\ Called("args") => Sh!ArgsReadBack(job.in)
    /\ Called("command") => Sh!CommandsAreFound(job.in[1], job.in[2])
    /\ Called("options") => Sh!OptionsAgree(job.in[1], <<"a", "b", ":", "c", ":", ":">>, LongOptions, job.in[2])
    /\ Called("dump") => Show!DumpsAgree(job.in[1], job.in[2])
    /\ Called("register") => Show!RegistersAgree(job.in[1], job.in[2], job.in[3])
    /\ Called("progress") => Show!ProgressAgrees(job.in[1], job.in[2], job.in[3])
    /\ Called("store") => Show!StoreIsShown(job.in[1], job.in[2], job.in[3])
    /\ Called("console") => Con!CommandsAgree(job.in[1], job.in[2])
    /\ Called("consoles") => Con!ConsolesAgree(ConsoleIds, job.in)
    /\ Called("memory") => Con!MemoryAgrees(job.in[1], job.in[2])
    /\ Called("output") => Con!OutputAgrees(job.in[1], job.in[2], job.in[3])
    /\ Called("print") => \A places \in 0..2, pad \in {-7, 0, 4, 8} : NumbersAgree(job.in, places, pad)

\* A schedule written as text reads back as the same schedule, and its description in
\* words names the times of its bitmap.
SchedulesAgree ==
    /\ Called("plan") =>
         \A other \in Fields :
            LET spec == [minute |-> job.in, hour |-> other, day_of_month |-> other,
                         month |-> job.in, day_of_week |-> Field(Wildcard, 0, 0)]
                week == [spec EXCEPT !.day_of_month = Field(Wildcard, 0, 0), !.day_of_week = other]
            IN  /\ \A room \in {8, 40} : ScheduleReadsBack(spec, room) /\ ScheduleReadsBack(week, room)
                /\ DescriptionAgrees(spec) /\ DescriptionAgrees(week)
    /\ Called("read") => ReadIsBounded(job.in)
    /\ Called("compile") => Pairs!PairsArePlayed(job.in)

\* A bipartite buffer keeps the order of a queue, over pushes at either end, pops, purges
\* and partly committed reservations, whichever of its two regions they fall in; a linked
\* list is the sequence its calls built; a hash table has the buckets that were asked for
\* within the bytes it may use, and its loops visit each entry once.
BuffersAgree ==
    /\ Called("deque") => Bip!DequeAgrees(5, job.in)
    /\ Called("size") => Table!SizesAgree(job.in[1], job.in[2], job.in[3], job.in[4])
    /\ Called("visit") => Table!ItemsAreVisited(job.in[1], job.in[2])
    /\ Called("reserve") => Bip!ReservationsAgree(5, job.in)
    /\ Called("list") => List!ListsAgree(job.in[1], 1..4, job.in[2])

=============================================================================
