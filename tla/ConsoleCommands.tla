-------------------------- MODULE ConsoleCommands --------------------------
(***************************************************************************)
(* The console commands that change the system (src/src/cmds_core.c) and the *)
(* soft real-time clock that one of them sets (src/src/rtc_soft.c).  A       *)
(* command has the options getopt_r found; what it leaves is the state after *)
(* it: the properties, the newest block of their log, the clock, the errors. *)
(*                                                                         *)
(* A command may leave one of several states: what an allocation or a write  *)
(* to the log does is not known, nor what is in a variable that is read      *)
(* before it is set.  At the end the consoles of src/src/console.c: their    *)
(* list and its default, the memory of a new one, and what one puts into its *)
(* transmit queue.                                                         *)
(***************************************************************************)
EXTENDS Integers, Sequences, SequencesExt, TLC

CONSTANTS MkTime,    \* mktime(): the time of <<year, month, day, hour, minute, second>>
          Count,     \* P_SYS_STORAGE_INFO_COUNT
          Words,     \* values of an unsigned word
          QueueSize  \* what the transmit queue of a console has room for

Str == INSTANCE StringOps WITH MaxDigits <- 3, MaxFracDigits <- 2

----------------------------------------------------------------------------
(* The clock.                                                              *)
rtc_soft_init == [cur_time |-> 0, is_valid |-> FALSE]

rtc_soft_update(rtc, seconds) == [rtc EXCEPT !.cur_time = @ + seconds]

rtc__soft_set_time(rtc, time) == [rtc EXCEPT !.cur_time = time, !.is_valid = TRUE]

\* op: "set", "dry run" or "clear".  A correction is a step of the clock.
rtc__soft_calibrate(rtc, cal_error, op) == IF op = "set" THEN rtc_soft_update(rtc, cal_error) ELSE rtc

\* strtol: the digits it starts with after a sign, as a number; 0 when there are none.
Leading(chars) ==
    LET n == CHOOSE k \in 0..Len(chars) : /\ \A j \in 1..k : chars[j] \in Range(Str!Numerals)
                                          /\ k < Len(chars) => chars[k + 1] \notin Range(Str!Numerals)
    IN  SubSeq(chars, 1, n)
Value(digits) ==
    FoldLeft(LAMBDA v, c : 10 * v + (CHOOSE d \in 0..9 : Str!Numerals[d + 1] = c), 0, digits)
strtol(chars) ==
    IF chars # <<>> /\ chars[1] = "-" THEN -Value(Leading(Tail(chars))) ELSE Value(Leading(chars))

NoDate == <<>>

\* YYYY-MM-DDTHH:MM:SS.  What follows the fields is dropped, and no field is checked.
parse_date(date) ==
    LET halves == Str!str_split(date, {"T", " "}, 3)
        day    == IF Len(halves) = 2 THEN Str!str_split(halves[1], {"-"}, 3) ELSE <<>>
        time   == IF Len(halves) = 2 THEN Str!str_split(halves[2], {":"}, 3) ELSE <<>>
    IN  IF Len(day) # 3 \/ Len(time) # 3 THEN NoDate
        ELSE [k \in 1..6 |-> strtol((day \o time)[k])]

\* A correction or its removal goes before a new date.
cmd_date(sys, o) ==
    LET date == parse_date(o.set)
    IN  {IF o.clear THEN [sys EXCEPT !.rtc = rtc__soft_calibrate(@, 0, "clear")]
         ELSE IF o.cal_error # 0
         THEN [sys EXCEPT !.rtc = rtc__soft_calibrate(@, o.cal_error, IF o.dry_run THEN "dry run" ELSE "set")]
         ELSE IF date # NoDate THEN [sys EXCEPT !.rtc = rtc__soft_set_time(@, MkTime[date])]
         ELSE sys}

----------------------------------------------------------------------------
(* Properties, logs and errors.                                            *)
Entry(kind, value) == [kind |-> kind, value |-> value, persist |-> FALSE, readonly |-> FALSE, protect |-> FALSE]

\* prop_set: a replaced entry keeps its attributes, a read-only one its value too.
prop_set(db, prop, e) ==
    IF prop \notin DOMAIN db THEN (prop :> e) @@ db
    ELSE IF db[prop].readonly THEN db
    ELSE [db EXCEPT ![prop].kind = e.kind, ![prop].value = e.value]

\* A number if it starts as one, else a truth value, else a string, if there is memory.
Parsed(chars) ==
    LET signed == chars # <<>> /\ chars[1] = "-"
        truth  == Str!str_is_bool(chars)
    IN  IF Leading(IF signed THEN Tail(chars) ELSE chars) # <<>>
        THEN {Entry("uint", strtol(chars) % Words)}
        ELSE IF truth.found THEN {Entry("uint", IF truth.value THEN 1 ELSE 0)}
        ELSE {Entry("string", chars), Entry("none", <<>>)}

\* The attributes are only those of a property that exists: of another one they are whatever
\* was in the variable, and the new property may be refused.
CheckedBefore(db, prop) ==
    IF prop \in DOMAIN db THEN {db[prop].readonly \/ db[prop].protect} ELSE BOOLEAN

cmd_property(sys, o) ==
    {IF refused \/ e.kind = "none" THEN sys ELSE [sys EXCEPT !.db = prop_set(@, o.prop, e)] :
       refused \in CheckedBefore(sys.db, o.prop), e \in Parsed(o.value)}

Persistent(db) == [p \in {q \in DOMAIN db : db[q].persist /\ ~db[q].readonly} |-> db[p].value]

\* save_props_to_log, which may do nothing.
Saves(sys, db) == {sys, [sys EXCEPT !.log = Persistent(db)]}

\* -f formats the log and saves the write counter, alone; -s saves the properties.
cmd_log(sys, o) ==
    LET count == IF Count \in DOMAIN sys.db THEN sys.db[Count].value ELSE 0
    IN  IF o.format
        THEN Saves([sys EXCEPT !.log = << >>],
                   Count :> [Entry("uint", count) EXCEPT !.protect = TRUE, !.persist = TRUE])
        ELSE IF o.save /\ ~o.read THEN Saves(sys, sys.db) ELSE {sys}

\* -m mounts, which a log that is not written meanwhile does not notice; -g makes an error
\* of the next number, counting on from one command to the next.
cmd_error(sys, o) ==
    {IF o.mount THEN sys
     ELSE IF o.clear THEN [sys EXCEPT !.errors = <<>>]
     ELSE IF o.gen THEN [sys EXCEPT !.errors = Append(@, sys.error_count), !.error_count = @ + 1]
     ELSE sys}

Run(sys, c) ==
    CASE c.cmd = "date" -> cmd_date(sys, c.opt)
      [] c.cmd = "property" -> cmd_property(sys, c.opt)
      [] c.cmd = "log" -> cmd_log(sys, c.opt)
      [] c.cmd = "error" -> cmd_error(sys, c.opt)

----------------------------------------------------------------------------
(* Properties of sequences of commands.                                    *)
LOCAL LastOf(cmds, Is(_)) ==
    LET found == {k \in DOMAIN cmds : Is(cmds[k])} IN IF found = {} THEN 0 ELSE CHOOSE k \in found : \A j \in found : j <= k

\* Whatever is typed, protected and read-only properties stay as they are and those of
\* nobody else's; the log holds what some command saved or nothing, its counter never
\* behind; the clock is valid just when a date was set, and reads it with the corrections
\* since; errors are numbered without gaps.
CommandsAgree(db, cmds) ==
    LET start  == [db |-> db, log |-> << >>, rtc |-> rtc_soft_init, errors |-> <<>>, error_count |-> 0]
        ends   == FoldLeft(LAMBDA states, c : UNION {Run(s, c) : s \in states}, {start}, cmds)
        fixed  == {p \in DOMAIN db : db[p].readonly \/ db[p].protect}
        sets(c) == /\ c.cmd = "date" /\ ~c.opt.clear /\ c.opt.cal_error = 0 /\ parse_date(c.opt.set) # NoDate
        dated  == LastOf(cmds, sets)
        steps  == FoldLeft(LAMBDA n, k : IF k > dated /\ cmds[k].cmd = "date" /\ ~cmds[k].opt.clear /\ ~cmds[k].opt.dry_run
                                         THEN n + cmds[k].opt.cal_error ELSE n, 0, [k \in DOMAIN cmds |-> k])
    IN  \A s \in ends :
          /\ \A p \in fixed : s.db[p] = db[p]
          /\ \A p \in DOMAIN db : s.db[p].persist = db[p].persist /\ ~(s.db[p].readonly /\ p \notin fixed)
          /\ Count \in fixed /\ s.log # << >> /\ db[Count].persist /\ ~db[Count].readonly =>
                Count \in DOMAIN s.log /\ s.log[Count] = db[Count].value
          /\ s.rtc.is_valid <=> dated > 0
          /\ s.rtc.cur_time = steps + (IF dated > 0 THEN MkTime[parse_date(cmds[dated].opt.set)] ELSE 0)
          /\ \A k \in DOMAIN s.errors : s.errors[k] = s.error_count - Len(s.errors) + k - 1

----------------------------------------------------------------------------
(* The consoles.                                                           *)
(* The list, the newest first; 0 is no console.                              *)
LOCAL First(s, P(_)) == LET found == {i \in DOMAIN s : P(s[i])}
                        IN  IF found = {} THEN 0 ELSE s[CHOOSE i \in found : \A j \in found : i <= j]

console_add(sys, con) == [consoles |-> <<con>> \o sys.consoles, default |-> IF sys.default = 0 THEN con ELSE sys.default]

console_remove(sys, con) ==
    IF con = sys.default THEN sys ELSE [sys EXCEPT !.consoles = SelectSeq(@, LAMBDA c : c # con)]

console_set_default(sys, con) == IF con \in Range(sys.consoles) THEN [sys EXCEPT !.default = con] ELSE sys

\* own is what the task was given with task_set_console.
active_console(sys, own) == IF own # 0 THEN own ELSE sys.default

first_console(sys) == IF sys.consoles = <<>> THEN 0 ELSE Head(sys.consoles)

console_find(sys, ids, id) ==
    First(sys.consoles, LAMBDA c : ids[c].kind = id.kind /\ (id.id < 0 \/ ids[c].id = id.id))

----------------------------------------------------------------------------
(* A new console: what is allocated and what is freed again when some of it   *)
(* fails.                                                                  *)
console_alloc(history, fails) ==
    LET hist    == IF history THEN {"hist"} ELSE {}
        early   == "hist" \in fails /\ history
        asked   == {"line"} \cup hist \cup (IF early THEN {} ELSE {"con", "tx", "rx"})
        all     == IF "line" \in fails THEN {} ELSE asked \ fails
        made    == ~early /\ fails \cap {"line", "con", "tx", "rx"} = {}
    IN  [con |-> made, held |-> all \ (IF made THEN {} ELSE {"line", "hist", "con", "tx", "rx"})]

----------------------------------------------------------------------------
(* Output.                                                                 *)
\* A character a step, while there is room: a bare NL has a CR put before it.
console__tx_nl_xlate(con, data) ==
    LET step(st, k) ==
          LET ch == data[st.copied + 1]
          IN  IF st.copied = Len(data) \/ Len(st.con.tx_queue) = QueueSize THEN st
              ELSE IF ~st.con.prev_cr /\ ~st.con.injected_cr /\ ch = "NL"
                   THEN [st EXCEPT !.con.tx_queue = Append(@, "CR"), !.con.injected_cr = TRUE]
              ELSE [st EXCEPT !.con.tx_queue = Append(@, ch), !.con.injected_cr = FALSE,
                              !.con.prev_cr = (ch = "CR"), !.copied = @ + 1]
    IN  FoldLeft(step, [con |-> con, copied |-> 0], [k \in 1 .. 2 * Len(data) |-> k])

\* The queue refuses what it has no room for.
console_send(con, data) ==
    LET room == QueueSize - Len(con.tx_queue)
        n    == IF room < Len(data) THEN room ELSE Len(data)
    IN  IF con.nl_xlat_off
        THEN [con |-> [con EXCEPT !.tx_queue = @ \o SubSeq(data, 1, n)], copied |-> n]
        ELSE console__tx_nl_xlate(con, data)

----------------------------------------------------------------------------
(* What they should do.                                                     *)
\* The default console is always one of the list once there is one, a find has the newest
\* that fits, and a console that fails to be made leaves nothing behind.
ConsolesAgree(ids, calls) ==
    LET step(sys, c) == CASE c.op = "add" -> IF c.con \in Range(sys.consoles) THEN sys ELSE console_add(sys, c.con)
                          [] c.op = "remove" -> console_remove(sys, c.con)
                          [] c.op = "default" -> console_set_default(sys, c.con)
        sys == FoldLeft(step, [consoles |-> <<>>, default |-> 0], calls)
    IN  /\ sys.default = 0 <=> sys.consoles = <<>>
        /\ sys.default # 0 => sys.default \in Range(sys.consoles)
        /\ \A id \in Range(ids) : LET found == console_find(sys, ids, id)
                                  IN  IF found = 0 THEN \A c \in Range(sys.consoles) : ids[c] # id
                                      ELSE ids[found] = id /\ found \in Range(sys.consoles)
        /\ \A c \in DOMAIN ids : active_console(sys, c) = c /\ active_console(sys, 0) = sys.default
        /\ \A kind \in {"USB", "UART"} : console_find(sys, ids, [kind |-> kind, id |-> -1]) =
               First(sys.consoles, LAMBDA c : ids[c].kind = kind)
        /\ sys.consoles # <<>> => first_console(sys) = sys.consoles[1]

MemoryAgrees(history, fails) ==
    LET needed == {"line", "con", "tx", "rx"} \cup (IF history THEN {"hist"} ELSE {})
        got    == console_alloc(history, fails)
    IN  /\ got.con <=> fails \cap needed = {}
        /\ got.held = IF got.con THEN needed ELSE {}

\* However small the queue and whenever it is emptied, a writer that offers what is left
\* again gets all of its text through, each NL behind exactly one CR.
OutputAgrees(text, drains, nl_xlat_off) ==
    LET step(st, n) ==
          LET sent == console_send(st.con, SubSeq(text, st.done + 1, Len(text)))
              q    == sent.con.tx_queue
              out  == IF n < Len(q) THEN n ELSE Len(q)
          IN  [con |-> [sent.con EXCEPT !.tx_queue = SubSeq(q, out + 1, Len(q))],
               out |-> st.out \o SubSeq(q, 1, out), done |-> st.done + sent.copied]
        new  == [tx_queue |-> <<>>, nl_xlat_off |-> nl_xlat_off, prev_cr |-> FALSE, injected_cr |-> FALSE]
        Crlf(i) == IF text[i] = "NL" /\ (i = 1 \/ text[i - 1] # "CR") /\ ~nl_xlat_off THEN <<"CR", "NL">> ELSE <<text[i]>>
        want == FlattenSeq([i \in DOMAIN text |-> Crlf(i)])
    IN  \A end \in {FoldLeft(step, [con |-> new, out |-> <<>>, done |-> 0], drains)} :
        \A sent \in {end.out \o end.con.tx_queue} :
           /\ IsPrefix(sent, want)
           /\ end.done = Len(text) <=> sent = want
           /\ Len(drains) >= 2 * Len(text) /\ (\A k \in DOMAIN drains : drains[k] > 0) => sent = want

=============================================================================
