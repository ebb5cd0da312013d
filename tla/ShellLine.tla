------------------------------ MODULE ShellLine ------------------------------
(***************************************************************************)
(* The line editor and the command cycle of src/src/console_shell.c: keys     *)
(* edit a buffer of fixed size, the end of the line hands it to a handler, or *)
(* to the parser and a command.  A character is a number, 0 the NUL; Blank is *)
(* one of the delimiters.                                                    *)
(*                                                                         *)
(* A kill that moves more than it removes clears cells behind the buffer      *)
(* (lines 195 and 217): line.past has them.  What was in them, the heap       *)
(* behind line_buf (console.c:274), is not modelled, nor what becomes of it.  *)
(***************************************************************************)
EXTENDS Integers, Sequences, FiniteSetsExt

CONSTANTS
    Chars,           \* the characters typed
    Blank,           \* the one of them that separates words
    History,         \* texts the history may recall
    BufSize,         \* line_buf_size
    MaxDelayed       \* bound: sizes asked for with resize -v and not yet printed

ShellAssumption ==
    /\ BufSize \in Nat /\ BufSize > 1 /\ 0 \notin Chars /\ Blank \in Chars /\ MaxDelayed \in Nat
    /\ History \subseteq Seq(Chars)

VARIABLES
    line,            \* shell->line: buf, cursor and line_end; the cells past buf ever cleared
    shell,           \* command_handler and input_redirect set, suppress_prompt, and the tasks
                     \* of resize -v to come; history: the last command asked for no prompt
                     \* (quiet), and nobody is left to end its suppression (stranded)
    prompt,          \* the prompt is on the last line of the terminal
    smeared          \* history: a kill has left characters past the end of the line

vars == <<line, shell, prompt, smeared>>

Empty == [i \in 0 .. BufSize - 1 |-> 0]

Init ==
    /\ line = [buf |-> Empty, cursor |-> 0, end |-> 0, past |-> {}]
    /\ shell = [handler |-> FALSE, redirect |-> FALSE, suppressed |-> FALSE, delayed |-> 0,
                quiet |-> FALSE, stranded |-> FALSE]
    /\ prompt = TRUE
    /\ smeared = FALSE

----------------------------------------------------------------------------
(* The line buffer.                                                        *)
IsFullLate(l) == l.end >= BufSize   \* mutant: no room is left for the NUL

line_is_full(l) == l.end >= BufSize - 1
AtEnd(l) == l.cursor >= l.end

line_clear(l) == [l EXCEPT !.buf = Empty, !.cursor = 0, !.end = 0]

\* memmove of n cells, which are all in the buffer; and of a memset of n cells to 0 what is in
\* the buffer, and the cells of it that are not.
Moved(buf, to, from, n) ==
    [i \in DOMAIN buf |-> IF to <= i /\ i < to + n THEN buf[i - to + from] ELSE buf[i]]
Zeroed(buf, at, n) == [i \in DOMAIN buf |-> IF at <= i /\ i < at + n THEN 0 ELSE buf[i]]
Past(at, n) == {i \in at .. at + n - 1 : i >= BufSize}

memset(l, at, n) == [l EXCEPT !.buf = Zeroed(@, at, n), !.past = @ \cup Past(at, n)]

line_insert(l, ch) ==
    IF line_is_full(l) THEN l
    ELSE [l EXCEPT !.buf = [Moved(@, l.cursor + 1, l.cursor, l.end - l.cursor) EXCEPT ![l.cursor] = ch],
                   !.cursor = @ + 1, !.end = @ + 1]

\* The text behind the cursor is not moved up.
BackspaceUnmoved(l) ==
    IF l.cursor = 0 THEN l
    ELSE [l EXCEPT !.buf = Zeroed(@, l.end - 1, 1), !.cursor = @ - 1, !.end = @ - 1]

line_backspace(l) ==
    IF l.cursor = 0 THEN l
    ELSE [l EXCEPT !.buf = Zeroed(Moved(@, l.cursor - 1, l.cursor, l.end - l.cursor), l.end - 1, 1),
                   !.cursor = @ - 1, !.end = @ - 1]

line_delete(l) ==
    IF AtEnd(l) THEN l
    ELSE [l EXCEPT !.buf = Zeroed(Moved(@, l.cursor, l.cursor + 1, l.end - l.cursor), l.end - 1, 1),
                   !.end = @ - 1]

line_move_left(l, n) == IF l.cursor < n \/ n = 0 THEN l ELSE [l EXCEPT !.cursor = @ - n]

line_move_right(l, n) == IF l.cursor + n > l.end \/ n = 0 THEN l ELSE [l EXCEPT !.cursor = @ + n]

line_replace(l, text) ==
    LET n == Min({Len(text), BufSize - 1})
    IN  [l EXCEPT !.buf = [i \in 0 .. BufSize - 1 |-> IF i < n THEN text[i + 1] ELSE 0],
                  !.cursor = n, !.end = n]

\* The characters to be removed after the cursor, or before it; 0 asks for all of them.
Killed(have, count) == IF count > 0 /\ have > count THEN count ELSE have

\* What is left moves up, and as many cells as it has are cleared behind it: more than were
\* removed if it is longer, and then some that are not in the buffer if the line was.
line_kill_after(l, count) ==
    LET killed == Killed(l.end - l.cursor, count)
        move   == l.end - (l.cursor + killed)
        left   == [l EXCEPT !.buf = Moved(@, l.cursor, l.cursor + killed, move), !.end = @ - killed]
    IN  memset(left, l.cursor + move, IF move > 0 THEN move ELSE killed)

line_kill_before(l, count) ==
    LET killed == Killed(l.cursor, count)
        move   == l.end - l.cursor
        left   == [l EXCEPT !.buf = Moved(@, l.cursor - killed, l.cursor, move),
                            !.cursor = @ - killed, !.end = @ - killed]
    IN  IF killed = 0 THEN l ELSE memset(left, l.end - killed, IF ~AtEnd(l) THEN move ELSE killed)

Delim(l, i) == l.buf[i] \in {0, Blank}

\* Back over blanks and then over a word, to its first character or that of the line: behind
\* the last blank that has a word after it, up to the cursor.
line_prev_word(l) ==
    LET bounds == {k \in 1 .. l.cursor - 1 : Delim(l, k) /\ \E w \in k .. l.cursor - 1 : ~Delim(l, w)}
    IN  IF bounds = {} THEN 0 ELSE Max(bounds) + 1

\* On to the first blank that has a word before it, from the cursor, or to the end.
line_next_word(l) ==
    LET bounds == {k \in l.cursor .. l.end - 1 : Delim(l, k) /\ \E w \in l.cursor .. k : ~Delim(l, w)}
    IN  IF bounds = {} THEN l.end ELSE Min(bounds)

line_strip_whitespace(l) ==
    LET i == CHOOSE k \in 0 .. l.end : (k = l.end \/ ~Delim(l, k)) /\ \A j \in 0 .. k - 1 : Delim(l, j)
    IN  IF i > 0 THEN [l EXCEPT !.buf = Moved(@, 0, i, l.end + 1 - i), !.end = @ - i] ELSE l

----------------------------------------------------------------------------
(* process_special_keys.                                                   *)
\* A kill that removes more than it moves leaves the rest where it was.
Smears(killed, move) == 0 < move /\ move < killed

Edit(l) == line' = l /\ UNCHANGED <<shell, prompt, smeared>>

Kill(l, killed, move) ==
    line' = l /\ smeared' = (smeared \/ Smears(killed, move)) /\ UNCHANGED <<shell, prompt>>

Backspace == Edit(line_backspace(line))
CtrlA == Edit(line_move_left(line, line.cursor))
CtrlE == Edit(line_move_right(line, line.end - line.cursor))
CtrlK == Kill(line_kill_after(line, 0), line.end - line.cursor, 0)

CtrlU ==
    /\ line.cursor > 0
    /\ Kill(line_kill_before(line, line.cursor), line.cursor, line.end - line.cursor)

CtrlW ==
    LET killed == line.cursor - line_prev_word(line) IN
    killed > 0 /\ Kill(line_kill_before(line, killed), killed, line.end - line.cursor)

\* From the first column nothing is moved, and nothing killed.
CtrlSlash ==
    /\ line.cursor > 0
    /\ Edit(line_kill_after(line_move_left(line, line.cursor), 0))

CtrlC ==
    /\ line' = line_clear(line) /\ smeared' = FALSE
    /\ prompt' = ~shell.suppressed
    /\ UNCHANGED shell

MetaB == line_prev_word(line) < line.cursor /\ Edit([line EXCEPT !.cursor = line_prev_word(line)])
MetaF == line.cursor < line_next_word(line) /\ Edit([line EXCEPT !.cursor = line_next_word(line)])

MetaD ==
    LET killed == line_next_word(line) - line.cursor IN
    killed > 0 /\ Kill(line_kill_after(line, killed), killed, line.end - line.cursor - killed)

\* The arrows up and down: whatever the history has.
Recall ==
    \E text \in History :
        /\ line' = line_replace(line, text) /\ smeared' = FALSE
        /\ prompt' = ~shell.suppressed
        /\ UNCHANGED shell

Right == Edit(line_move_right(line, 1))
Left == Edit(line_move_left(line, 1))
Del == Edit(line_delete(line))

SpecialKey ==
    \/ Backspace \/ CtrlA \/ CtrlE \/ CtrlK \/ CtrlU \/ CtrlW \/ CtrlSlash \/ CtrlC
    \/ MetaB \/ MetaF \/ MetaD \/ Recall \/ Right \/ Left \/ Del

----------------------------------------------------------------------------
(* shell_process_rx.                                                       *)
\* The C string in the buffer.
CString(l) ==
    LET n == CHOOSE k \in 0 .. BufSize : (k = BufSize \/ l.buf[k] = 0) /\ \A j \in 0 .. k - 1 : l.buf[j] # 0
    IN  [i \in 1..n |-> l.buf[i - 1]]

NormalKey == \E ch \in Chars : Edit(line_insert(line, ch))

\* shell_suppress_prompt(shell, false).
Unsuppressed == [shell EXCEPT !.suppressed = FALSE, !.stranded = FALSE]

\* The end of a line for a handler, which may be done: then the prompt comes back, and it
\* does before if a task or a reset has let it in meanwhile.
EnterHandled ==
    /\ shell.handler
    /\ \E done \in BOOLEAN :
          shell' = IF done THEN [Unsuppressed EXCEPT !.handler = FALSE, !.quiet = FALSE]
                   ELSE [shell EXCEPT !.quiet = FALSE]
    /\ prompt' = ~shell'.suppressed
    /\ line' = line_clear(line) /\ smeared' = FALSE

\* The end of a line for a command, which may ask for a line with gets_async or take all
\* input, and may keep the prompt away (CONSOLE_NO_PROMPT, CONSOLE_RUN_TASK).  resize -v
\* suppresses it until a task of its own ends that; but nobody does if the task is not
\* created, or runs before the prompt is suppressed (cmds_core.c:817).
EnterCommand ==
    /\ ~shell.handler
    /\ LET text == CString(line_strip_whitespace(line)) IN
       \E asks, redirects, resizes, created, quiet \in BOOLEAN :
          /\ text = <<>> => ~asks /\ ~redirects /\ ~resizes /\ ~quiet
          /\ created => resizes /\ shell.delayed < MaxDelayed
          /\ shell' = [handler |-> asks, redirect |-> redirects,
                       suppressed |-> asks \/ resizes \/ shell.suppressed,
                       delayed |-> IF created THEN shell.delayed + 1 ELSE shell.delayed,
                       quiet |-> quiet,
                       stranded |-> shell.stranded \/ (resizes /\ ~created)]
          /\ prompt' = (~quiet /\ ~redirects /\ ~shell'.suppressed)
    /\ line' = line_clear(line) /\ smeared' = FALSE

\* The delayed task of resize -v prints the size and shows the prompt, whatever the shell is at.
resize_verbose_cb ==
    /\ shell.delayed > 0
    /\ shell' = [Unsuppressed EXCEPT !.delayed = @ - 1]
    /\ prompt' = TRUE
    /\ UNCHANGED <<line, smeared>>

\* Input that is redirected bypasses the line; shell_cancel_redirect shows the prompt.
Redirected ==
    /\ shell.redirect
    /\ \E cancel \in BOOLEAN :
          /\ shell' = [shell EXCEPT !.redirect = ~cancel]
          /\ prompt' = (cancel /\ ~shell.suppressed)
    /\ UNCHANGED <<line, smeared>>

\* A task that was launched, or a command that is through, resets the console.
shell_reset ==
    /\ shell' = Unsuppressed
    /\ prompt' = TRUE
    /\ UNCHANGED <<line, smeared>>

Next ==
    \/ ~shell.redirect /\ (SpecialKey \/ NormalKey \/ EnterHandled \/ EnterCommand)
    \/ Redirected \/ resize_verbose_cb \/ shell_reset

Spec == Init /\ [][Next]_vars

----------------------------------------------------------------------------
(* Properties.                                                             *)
TextOf(l) == [i \in 1 .. l.end |-> l.buf[i - 1]]

\* A key changes the text only next to the cursor, and loses, repeats or swaps no other
\* character, whatever the cursor and the buffer (the line_ functions).
Abstract == INSTANCE Editor WITH
    before <- SubSeq(TextOf(line), 1, line.cursor),
    after  <- SubSeq(TextOf(line), line.cursor + 1, line.end),
    Texts  <- {SubSeq(t, 1, Min({Len(t), BufSize - 1})) : t \in History}

ImplementsEditor == Abstract!Spec

\* The command handed over is the line as it was edited, without the blanks before it, unless
\* a kill smeared it; the cursor is in the line, and a NUL behind it (shell_process_rx).
EntersWhatIsEdited ==
    LET s == line_strip_whitespace(line) IN
    /\ 0 <= line.cursor /\ line.cursor <= line.end /\ line.end <= BufSize - 1
    /\ ~smeared => CString(s) = TextOf(s) /\ CString(line) = TextOf(line)

\* A kill writes nothing but NULs behind the buffer, and no further than a line's length:
\* line_kill_after and line_kill_before overrun it by BufSize - 4 cells at the most.
OverrunIsBounded == line.past \subseteq BufSize .. 2 * BufSize - 5

\* The prompt is missing only while a redirection has the input, or the last command asked
\* for none, or it is suppressed; and it is suppressed only as long as a handler or a task
\* of resize -v is there to end that, unless that task was not there from the start.
PromptHeldForCause ==
    /\ ~prompt => shell.redirect \/ shell.quiet \/ shell.suppressed
    /\ shell.suppressed => shell.handler \/ shell.delayed > 0 \/ shell.stranded

=============================================================================
