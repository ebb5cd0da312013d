--------------------------- MODULE ConsoleHistory ---------------------------
(***************************************************************************)
(* The command history of src/src/console_history.cpp: commands, each with    *)
(* its NUL (0), in a bipartite buffer, and an iterator over them that the      *)
(* arrow keys move.  What the iterator reads are the cells of the buffer,      *)
(* those no command is in any more included.                                  *)
(***************************************************************************)
EXTENDS BipBuf

CONSTANTS
    Commands,        \* the commands entered: sequences of characters, no 0
    BufLen           \* con_hist_size

HistoryAssumption ==
    BufLen \in Nat \ {0} /\ \A c \in Commands : c \in Seq(Nat \ {0}) /\ c # <<>>

VARIABLES
    fifo,            \* hist->fifo
    iter,            \* cur_chunk, chunk_len and chunk_pos
    last,            \* history: the last command entered
    walked           \* history: the place of the iterator among the commands kept, 0 for none

vars == <<fifo, iter, last, walked>>

Reset == [chunk |-> NoChunk, len |-> 0, pos |-> 0]

Init ==
    /\ fifo = BipInit(BufLen)
    /\ iter = Reset
    /\ last = <<>>
    /\ walked = 0

\* The string at a cell, up to a NUL or the end of the buffer.
StringAt(q, at) ==
    LET end == CHOOSE i \in at .. q.size : (i = q.size \/ q.buf[i] = 0)
                                           /\ \A j \in at .. i - 1 : q.buf[j] # 0
    IN  [i \in 1 .. end - at |-> q.buf[at + i - 1]]

\* The commands held, oldest first.
CommandsIn(q) ==
    LET add(s, ch) == IF ch = 0 THEN [all |-> Append(s.all, s.part), part |-> <<>>]
                      ELSE [s EXCEPT !.part = Append(@, ch)]
    IN  FoldLeft(add, [all |-> <<>>, part |-> <<>>], Content(q)).all

kept == CommandsIn(fifo)

----------------------------------------------------------------------------
\* The result of a step of the iterator: where it is then, and the cell of the command.
Moved(it, at) == [iter |-> it, at |-> at]

history_next_command(q, it) ==
    LET pos  == IF it.chunk = NoChunk THEN it.pos
                ELSE it.pos + Len(StringAt(q, it.chunk + it.pos)) + 1
        new  == it.chunk = NoChunk \/ pos >= it.len
        c    == next_chunk(q, it.chunk)
        next == IF new THEN [chunk |-> c.chunk, len |-> c.len, pos |-> 0] ELSE [it EXCEPT !.pos = pos]
    IN  IF next.len = 0 THEN Moved(it, NoChunk) ELSE Moved(next, next.chunk + next.pos)

\* The chunk before is taken from its first string instead of its end.
PrevFromStart(q, it) ==
    LET c == prev_chunk(q, it.chunk) IN
    IF c.len = 0 THEN Moved(it, NoChunk) ELSE Moved([chunk |-> c.chunk, len |-> c.len, pos |-> 0], c.chunk)

\* Back to the NUL before the string before: from two cells back, if there are more than two.
history_prev_command(q, it) ==
    LET new   == it.chunk = NoChunk \/ it.pos = 0
        c     == prev_chunk(q, it.chunk)
        in    == IF new THEN [chunk |-> c.chunk, len |-> c.len, pos |-> c.len] ELSE it
        start == IF in.pos > 2 THEN in.pos - 2 ELSE in.pos
        isNul(p) == in.chunk + p < q.size /\ q.buf[in.chunk + p] = 0
        nul   == CHOOSE p \in 0 .. start : (p = 0 \/ isNul(p)) /\ \A r \in p + 1 .. start : ~isNul(r)
        pos   == IF nul > 0 THEN nul + 1 ELSE 0
    IN  IF in.len = 0 THEN Moved(it, NoChunk) ELSE Moved([in EXCEPT !.pos = pos], in.chunk + pos)

history_pop_command(q) ==
    LET head == next_chunk(q, NoChunk)
    IN  IF head.len > 0 THEN pop(q, Len(StringAt(q, head.chunk)) + 1).q ELSE q

\* The oldest commands make room, as long as there are any.
Room(q, n) ==
    FoldLeft(LAMBDA s, i : IF free_elems(s) < n /\ ~is_empty(s) THEN history_pop_command(s) ELSE s,
             q, [i \in 1 .. q.size |-> i])

\* The same command twice in a row is kept once.
history_push_command(q, cmd) ==
    LET prev == history_prev_command(q, Reset)
        text == cmd \o <<0>>
        same == prev.at # NoChunk /\ prev.at < q.size /\ StringAt(q, prev.at) = cmd
    IN  IF same THEN q ELSE push(Room(q, Len(text)), text).q

Enter(cmd) ==
    /\ fifo' = history_push_command(fifo, cmd)
    /\ iter' = Reset
    /\ last' = cmd
    /\ walked' = 0

Up ==
    LET m == history_prev_command(fifo, iter) IN
    /\ iter' = m.iter
    /\ walked' = IF m.at = NoChunk THEN walked ELSE IF walked = 0 THEN Len(kept) ELSE walked - 1
    /\ UNCHANGED <<fifo, last>>

Down ==
    LET m == history_next_command(fifo, iter) IN
    /\ iter' = m.iter
    /\ walked' = IF m.at = NoChunk THEN walked ELSE walked + 1
    /\ UNCHANGED <<fifo, last>>

Next == (\E cmd \in Commands : Enter(cmd)) \/ Up \/ Down

Spec == Init /\ [][Next]_vars

----------------------------------------------------------------------------
\* Commands of one character at the start of a region are not found when walking back.
AllLonger == \A i \in DOMAIN kept : Len(kept[i]) > 1

\* The list shell_show_history prints: the iterator's commands from the start, in order.
shell_show_history(q) ==
    LET step(s, i) == LET m == history_next_command(q, s.iter)
                      IN  IF m.at = NoChunk THEN s
                          ELSE [iter |-> m.iter, out |-> Append(s.out, StringAt(q, m.at))]
    IN  FoldLeft(step, [iter |-> Reset, out |-> <<>>], [i \in 1 .. q.size |-> i]).out

\* The history holds whole commands, in order, and they are what is printed; the last one
\* entered is among them if it fits (history_push_command, history_pop_command).
KeepsWholeCommands ==
    /\ Sound(fifo)
    /\ \A i \in DOMAIN kept : kept[i] \in Commands
    /\ shell_show_history(fifo) = kept
    /\ AllLonger /\ Len(last) < BufLen /\ last # <<>> => kept # <<>> /\ kept[Len(kept)] = last

\* The arrow keys go through the commands one by one, and stop at both ends: the iterator
\* is at the command its steps lead to (history_prev_command, history_next_command).
WalksOneByOne ==
    AllLonger /\ iter.chunk # NoChunk =>
        /\ walked \in DOMAIN kept
        /\ StringAt(fifo, iter.chunk + iter.pos) = kept[walked]

=============================================================================
