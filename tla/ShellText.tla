------------------------------ MODULE ShellText ------------------------------
(***************************************************************************)
(* What the shell of src/src/console_shell.c makes of characters: keys out of  *)
(* the escape sequences of a terminal, arguments out of a line and a command   *)
(* out of the sets of a suite.  A character is a string; the letter of a       *)
(* command's name also says whether it is a capital.                          *)
(***************************************************************************)
EXTENDS Integers, Sequences, SequencesExt

CONSTANTS MaxParams,      \* MAX_ESC_PARAMS
          MaxArgs,        \* CONSOLE_MAX_ARGS
          MaxSets         \* MAX_COMMAND_SETS

----------------------------------------------------------------------------
(* Keys.                                                                   *)
LOCAL Digits == <<"0", "1", "2", "3", "4", "5", "6", "7", "8", "9">>
LOCAL Letters == {"A", "B", "C", "D", "H", "F", "R", "a", "b", "f"}
LOCAL Middle == {" ", "!", "$"}
LOCAL Final == Letters \cup {"~", "["}

EscParser == [state |-> "idle", final |-> "", params |-> [i \in 1..MaxParams |-> 0], num |-> 0,
              escape |-> FALSE, meta |-> FALSE]

LOCAL More(ep) == [ep |-> ep, done |-> FALSE]
LOCAL Complete(ep) == [ep |-> [ep EXCEPT !.state = "idle"], done |-> TRUE]

\* A digit before the first semicolon belongs to the first parameter, and so does one
\* behind it if nothing came before.
LOCAL GotParam(ep, ch) ==
    LET n == IF ep.num = 0 THEN 1 ELSE ep.num
        digit == (CHOOSE i \in DOMAIN Digits : Digits[i] = ch) - 1
    IN  IF ch = ";" THEN IF ep.num < MaxParams THEN [ep EXCEPT !.num = @ + 1] ELSE [ep EXCEPT !.state = "err"]
        ELSE IF ch \in Range(Digits) THEN [ep EXCEPT !.num = n, !.params[n] = 10 * @ + digit]
        ELSE ep

parse_escape_code(ep, ch) ==
    CASE ep.state = "idle" ->
           IF ch = "ESC" THEN More([ep EXCEPT !.state = "esc"])
           ELSE Complete([ep EXCEPT !.escape = FALSE, !.final = ch])
      [] ep.state = "esc" ->
           IF ch = "[" THEN More([ep EXCEPT !.state = "csi"])
           ELSE IF ch \in Letters \cup Range(Digits) THEN Complete([ep EXCEPT !.final = ch, !.meta = TRUE])
           ELSE More([ep EXCEPT !.state = "err"])
      [] ep.state = "csi" ->
           IF ch \in Middle THEN More([ep EXCEPT !.state = "middle"])
           ELSE IF ch \in Final THEN Complete([ep EXCEPT !.final = ch, !.escape = TRUE])
           ELSE More(GotParam(ep, ch))
      [] ep.state = "middle" ->
           IF ch \in Final THEN Complete([ep EXCEPT !.final = ch, !.escape = TRUE])
           ELSE More([ep EXCEPT !.state = "err"])
      [] ep.state = "err" -> More(IF ch \in Final THEN [ep EXCEPT !.state = "idle"] ELSE ep)

NoKey == <<"none">>

decode_escape_code(ep) ==
    LET ext == IF ep.num = 1 THEN ep.params[1] ELSE 0
    IN  CASE ~ep.escape -> IF ep.meta THEN <<"meta", ep.final>> ELSE <<"char", ep.final>>
          [] ep.escape /\ ep.final \in {"A", "B", "C", "D"} -> <<"arrow", ep.final>>
          [] ep.escape /\ (ep.final = "H" \/ (ep.final = "~" /\ ext = 1)) -> <<"char", "CTRL_A">>
          [] ep.escape /\ (ep.final = "F" \/ (ep.final = "~" /\ ext = 4)) -> <<"char", "CTRL_E">>
          [] ep.escape /\ ep.final = "~" /\ ext = 3 -> <<"del">>
          [] OTHER -> NoKey

\* A report of the cursor answers a query for the size of the terminal, if there was one.
decode__dsr_response(ep, size_query) ==
    IF ep.num # 2 THEN <<>>
    ELSE <<[event |-> IF size_query THEN "size" ELSE "loc", width |-> ep.params[2], height |-> ep.params[1]]>>

\* The loop of shell_process_rx: the parser starts anew after a key, but not after a report.
Received(chars, size_query) ==
    LET step(st, ch) ==
          LET p      == parse_escape_code(st.ep, ch)
              key    == decode_escape_code(p.ep)
              report == decode__dsr_response(p.ep, st.query)
          IN  IF ~p.done THEN [st EXCEPT !.ep = p.ep]
              ELSE IF p.ep.escape /\ p.ep.final = "R"
                   THEN [st EXCEPT !.ep = p.ep, !.reports = @ \o report, !.query = @ /\ report = <<>>]
              ELSE [st EXCEPT !.ep = EscParser, !.keys = IF key = NoKey THEN @ ELSE Append(@, key)]
    IN  FoldLeft(step, [ep |-> EscParser, keys |-> <<>>, reports |-> <<>>, query |-> size_query], chars)

----------------------------------------------------------------------------
(* Arguments.                                                              *)
LOCAL Blank == " "
LOCAL Quote == "\""

\* From a position on: the arguments found so far, and whether a quote is open.
RECURSIVE ArgsFrom(_, _, _, _)
ArgsFrom(text, at, quoted, argv) ==
    LET first(from, P(_)) == LET found == {i \in from .. Len(text) : P(text[i])}
                             IN  IF found = {} THEN Len(text) + 1 ELSE CHOOSE i \in found : \A j \in found : i <= j
        skip  == first(at, LAMBDA c : c # Blank)
        opens == skip <= Len(text) /\ text[skip] = Quote /\ ~quoted
        pos   == IF opens THEN skip + 1 ELSE skip
        end   == IF quoted \/ opens THEN first(pos, LAMBDA c : c = Quote)
                 ELSE first(pos, LAMBDA c : c \in {Quote, Blank})
        again == ~(quoted \/ opens) /\ end <= Len(text) /\ text[end] = Quote
    IN  IF at > Len(text) \/ Len(argv) > MaxArgs \/ pos > Len(text) THEN argv
        ELSE ArgsFrom(text, end + 1, again, Append(argv, SubSeq(text, pos, end - 1)))

shell__parse_args(text) == ArgsFrom(text, 1, FALSE, <<>>)

----------------------------------------------------------------------------
(* Commands.                                                               *)
\* All of the input agrees with the name, which ends there or goes on in small letters
\* after a capital.
match_command(name, input) ==
    LET n == Len(input)
    IN  /\ n <= Len(name) /\ \A i \in 1..n : input[i] = name[i].letter
        /\ n = Len(name) \/ (n > 0 /\ name[n].cap /\ ~name[n + 1].cap)

command__suite_count(cmd_sets) == Len(FlattenSeq(cmd_sets))

\* A set that finds no room is counted all the same.
command_suite_add(suite, cmds) ==
    LET sets == IF Len(suite.cmd_sets) < MaxSets THEN Append(suite.cmd_sets, cmds) ELSE suite.cmd_sets
    IN  [cmd_sets   |-> sets,
         total_cmds |-> IF suite.total_cmds = 0 THEN command__suite_count(sets) ELSE suite.total_cmds + Len(cmds),
         added      |-> Len(suite.cmd_sets) < MaxSets]

\* The command that is run: the first one that matches, set by set.
shell__eval(suite, input) ==
    LET cmds  == FlattenSeq(suite.cmd_sets)
        found == {i \in DOMAIN cmds : match_command(cmds[i].name, input)}
    IN  IF found = {} THEN "unknown" ELSE cmds[CHOOSE i \in found : \A j \in found : i <= j].cmd

\* The sorted list has a place for each command counted and is filled with those there are.
shell__show_help(suite) ==
    LET cmds == FlattenSeq(suite.cmd_sets)
    IN  [i \in 1..suite.total_cmds |-> IF i <= Len(cmds) THEN cmds[i].cmd ELSE "garbage"]

----------------------------------------------------------------------------
(* What they should do.                                                     *)
\* Each key and each report of the terminal is taken for what it is, whatever came before
\* it; unless it is an escape sequence right after a report, which the parser still keeps.
KeysAreTaken(typed, size_query) ==
    LET chars  == FlattenSeq([i \in DOMAIN typed |-> typed[i].chars])
        got    == Received(chars, size_query)
        asked(i) == \E j \in 1 .. i - 1 : typed[j].report # <<>>
        Said(i) == [k \in DOMAIN typed[i].report |->
                       [typed[i].report[k] EXCEPT !.event = IF size_query /\ ~asked(i) THEN "size" ELSE "loc"]]
        apart  == \A i \in 2..Len(typed) : typed[i - 1].report # <<>> => Head(typed[i].chars) # "ESC"
    IN  apart => /\ got.keys = FlattenSeq([i \in DOMAIN typed |-> typed[i].key])
                 /\ got.reports = FlattenSeq([i \in DOMAIN typed |-> Said(i)])

\* Arguments that are written with blanks between them, in quotes where they have to be,
\* come back as they were, up to as many as there is room for.
ArgsReadBack(args) ==
    LET Written(a) == IF a = <<>> \/ Blank \in Range(a) THEN <<Quote>> \o a \o <<Quote>> ELSE a
        line == FlattenSeq([i \in DOMAIN args |-> Written(args[i]) \o <<Blank>>])
    IN  shell__parse_args(line) = SubSeq(args, 1, IF Len(args) > MaxArgs THEN MaxArgs + 1 ELSE Len(args))

\* The short and the full form of a name, and no other, run the first command of that name;
\* the help has each command once.  Except that a set too many, which is refused, leaves
\* more commands counted than there are.
CommandsAreFound(sets, input) ==
    LET suite  == FoldLeft(command_suite_add, [cmd_sets |-> <<>>, total_cmds |-> 0, added |-> TRUE], sets)
        all    == FlattenSeq(SubSeq(sets, 1, IF Len(sets) < MaxSets THEN Len(sets) ELSE MaxSets))
        Letter(name) == [i \in DOMAIN name |-> name[i].letter]
        short(name) == Letter(SelectSeq(name, LAMBDA c : c.cap))
        named  == SelectSeq(all, LAMBDA c : input # <<>> /\ input \in {Letter(c.name), short(c.name)})
    IN  /\ shell__eval(suite, input) = IF named = <<>> THEN "unknown" ELSE Head(named).cmd
        /\ Len(sets) <= MaxSets => shell__show_help(suite) = [i \in DOMAIN all |-> all[i].cmd]

----------------------------------------------------------------------------
(* getopt_long_r of src/src/util/getopt_r.c.  An argument is the sequence of  *)
(* its characters; argv starts behind the program's name and ends in NULL, so  *)
(* an index one past it is the NULL and a larger one is "past" it.  next_char *)
(* is the text still to be read of an argument, empty for NULL.             *)
LOCAL IsOption(arg) == Len(arg) > 1 /\ arg[1] = "-"

\* From the first of the non-options on: they change places with what comes behind them.
permute_args(argv, non_opts, start, shift_right) ==
    SubSeq(argv, 1, start - 1) \o SubSeq(argv, start + non_opts, start + shift_right)
    \o SubSeq(argv, start, start + non_opts - 1) \o SubSeq(argv, start + shift_right + 1, Len(argv))

\* What an option comes to: the letter, its argument (if there is one and whether it is
\* one of argv), where to go on, and the value that is stored in the flag of a long option.
LOCAL Option(rval, optind) ==
    [rval |-> rval, optopt |-> "", optarg |-> <<>>, apart |-> FALSE, optind |-> optind, next_char |-> <<>>, flag |-> ""]
LOCAL With(option, arg) == [option EXCEPT !.optarg = <<arg>>]
LOCAL Taking(option, arg) == [option EXCEPT !.optarg = <<arg>>, !.apart = TRUE, !.optind = @ + 1]

LongOption(argv, at, long_options) ==
    LET text   == SubSeq(argv[at], 3, Len(argv[at]))
        equal  == {i \in DOMAIN text : text[i] = "="}
        eq     == CHOOSE i \in equal : \A j \in equal : i <= j
        name   == IF equal = {} THEN text ELSE SubSeq(text, 1, eq - 1)
        match  == {o \in long_options : o.name = name}
        opt    == CHOOSE o \in match : TRUE
        own    == SubSeq(text, eq + 1, Len(text))
        failed == [Option("?", at + 1) EXCEPT !.optopt = IF opt.flag THEN "" ELSE opt.val]
        found  == [Option(IF opt.flag THEN "0" ELSE opt.val, at + 1) EXCEPT !.flag = IF opt.flag THEN opt.val ELSE ""]
    IN  CASE match = {} -> Option("?", at + 1)
          [] match # {} /\ equal # {} -> IF opt.has_arg = "no" THEN failed ELSE With(found, own)
          [] match # {} /\ equal = {} ->
                 IF opt.has_arg # "required" THEN found
                 ELSE IF at < Len(argv) THEN Taking(found, argv[at + 1]) ELSE failed

\* A short option without an argument stays in its argv until the last of its letters.
ShortOption(argv, at, next_char, optstring) ==
    LET text     == IF next_char = <<>> THEN Tail(argv[at]) ELSE next_char
        opt      == Head(text)
        more     == Tail(text)
        defs     == {i \in DOMAIN optstring : optstring[i] = opt}
        def      == CHOOSE i \in defs : \A j \in defs : i <= j
        colon(i) == i <= Len(optstring) /\ optstring[i] = ":"
        takes    == defs # {} /\ colon(def + 1)
        optional == takes /\ colon(def + 2)
        found    == [Option(opt, at + 1) EXCEPT !.optopt = opt]
        stays    == [found EXCEPT !.rval = IF defs = {} THEN "?" ELSE @, !.next_char = more,
                                  !.optind = IF more = <<>> THEN at + 1 ELSE at]
        missing  == [found EXCEPT !.rval = IF Head(optstring) = ":" THEN ":" ELSE "?", !.optind = at + 2]
    IN  CASE ~takes -> stays
          [] takes /\ more # <<>> -> With(found, more)
          [] takes /\ more = <<>> /\ ~optional ->
                 IF at < Len(argv) THEN Taking(found, argv[at + 1]) ELSE missing
          [] optional /\ more = <<>> ->
                 IF at < Len(argv) /\ (argv[at + 1] = <<>> \/ Head(argv[at + 1]) # "-")
                 THEN Taking(found, argv[at + 1]) ELSE found

\* The state is argv, optind, next_char and whether to permute.
getopt_long_r(st, optstring, long_options) ==
    LET start    == st.optind
        ends     == {i \in start .. Len(st.argv) : IsOption(st.argv[i])}
        at       == IF ~st.permute THEN start
                    ELSE IF ends = {} THEN Len(st.argv) + 1 ELSE CHOOSE i \in ends : \A j \in ends : i <= j
        non_opts == at - start
        over(argv, optind) == [argv |-> argv, option |-> Option("end", optind)]
        told(o) == [argv   |-> permute_args(st.argv, non_opts, start, IF o.apart THEN non_opts + 1 ELSE non_opts),
                    option |-> [o EXCEPT !.optind = @ - non_opts]]
    IN  IF start > Len(st.argv) + 1 THEN [argv |-> st.argv, option |-> Option("past", start)]
        ELSE IF at > Len(st.argv) \/ ~IsOption(st.argv[at]) THEN over(st.argv, start)
        ELSE IF st.argv[at] = <<"-", "-">> THEN told(Option("end", at + 1))
        ELSE IF st.argv[at][2] # "-" THEN told(ShortOption(st.argv, at, st.next_char, optstring))
        ELSE IF long_options = {} THEN over(st.argv, at)
        ELSE told(LongOption(st.argv, at, long_options))

getopt_r(st, optstring) == getopt_long_r(st, optstring, {})

LOCAL Start(argv, permute) == [argv |-> argv, optind |-> 1, next_char |-> <<>>, permute |-> permute]

\* All the calls of a command: the options it is told of and what is left.
RECURSIVE Calls(_, _, _, _)
Calls(st, optstring, long_options, told) ==
    LET r == getopt_long_r(st, optstring, long_options)
        o == r.option
    IN  IF o.rval \in {"end", "past"}
        THEN [told |-> told, end |-> o.rval, rest |-> SubSeq(r.argv, o.optind, Len(r.argv))]
        ELSE Calls([st EXCEPT !.argv = r.argv, !.optind = o.optind, !.next_char = o.next_char],
                   optstring, long_options, Append(told, <<o.rval, o.optarg>>))

\* A command line made of items, each with its arguments and the options it stands for, is
\* told option by option; the arguments that are no options are left in their order, those
\* behind the first of them or a "--" with them unless they are to be permuted.  Only a
\* short option whose argument is missing at the end leads past the NULL.  Left out: an
\* optional argument is also taken from what follows, and a non-option that the first of
\* several letters moved behind them is taken for the argument of the last.
OptionsAgree(items, optstring, long_options, permute) ==
    LET argv    == FlattenSeq([i \in DOMAIN items |-> items[i].args])
        stops   == {i \in DOMAIN items : items[i].kind = "stop" \/ (~permute /\ items[i].kind = "plain")}
        stop    == IF stops = {} THEN Len(items) + 1 ELSE CHOOSE i \in stops : \A j \in stops : i <= j
        before  == SubSeq(items, 1, stop - 1)
        after   == SubSeq(items, stop, Len(items))
        texts(s) == FlattenSeq([i \in DOMAIN s |-> s[i].args])
        plain   == SelectSeq(before, LAMBDA item : item.kind = "plain")
        behind  == IF after # <<>> /\ Head(after).kind = "stop" THEN Tail(after) ELSE after
        missing == before # <<>> /\ Last(before).kind = "missing"
        clear   == \A i \in DOMAIN items :
                      /\ items[i].kind = "missing" => i = Len(items)
                      /\ items[i].kind = "optional" /\ i < Len(items) => items[i + 1].kind # "plain"
                      /\ items[i].kind \in {"cluster", "optional"} /\ permute =>
                             \A j \in 1 .. i - 1 : items[j].kind # "plain"
    IN  clear =>
        \A run \in {Calls(Start(argv, permute), optstring, long_options, <<>>)} :
           /\ run.told = FlattenSeq([i \in DOMAIN before |-> before[i].opts])
           /\ run.end = "past" => missing
           /\ ~missing => run.rest = texts(plain) \o texts(behind)

=============================================================================
