----------------------------- MODULE EventPairs -----------------------------
(***************************************************************************)
(* sequence_compile of src/src/sequence_events.c: pairs of a begin and an     *)
(* end, each begin timed from the begin before it and each end from its own   *)
(* begin, become the list of events the sequencer plays.  A delay has a       *)
(* fixed width.  The order of events at one time is left to qsort.            *)
(***************************************************************************)
EXTENDS Integers, Sequences, SequencesExt

CONSTANT Times      \* the values of delay_ms

SequenceEvent(event, delay) == [event |-> event, delay |-> delay]

\* The events with their times from the start, an end after its begin; event 0 is no end.
Absolute(pairs) ==
    LET step(st, p) ==
          LET time  == (st.time + p.begin.delay) % Times
              begin == <<SequenceEvent(p.begin.event, time)>>
              end   == IF p.end.event = 0 THEN <<>>
                       ELSE <<SequenceEvent(p.end.event, (p.end.delay + time) % Times)>>
          IN  [time |-> time, events |-> st.events \o begin \o end]
    IN  FoldLeft(step, [time |-> 0, events |-> <<>>], pairs).events

\* What qsort may make of them.
Sorted(events) ==
    LET D == DOMAIN events
        InOrder(p) == \A i, j \in D : i < j => events[p[i]].delay <= events[p[j]].delay
    IN  {[i \in D |-> events[p[i]]] : p \in {q \in [D -> D] : IsInjective(q) /\ InOrder(q)}}

Relative(events) ==
    [i \in DOMAIN events |-> IF i = 1 THEN events[i]
                             ELSE [events[i] EXCEPT !.delay = (@ - events[i - 1].delay) % Times]]

sequence_compile(pairs) == {Relative(s) : s \in Sorted(Absolute(pairs))}

----------------------------------------------------------------------------
\* As long as all of it lies within the width of a delay, every begin and every end is
\* played once and at the time its pair asks for, also when pairs overlap.
PairsArePlayed(pairs) ==
    LET Sum(s)   == FoldLeft(LAMBDA a, b : a + b, 0, s)
        start(i) == Sum([k \in 1..i |-> pairs[k].begin.delay])
        begins   == {<<pairs[i].begin.event, start(i)>> : i \in DOMAIN pairs}
        ended    == {i \in DOMAIN pairs : pairs[i].end.event # 0}
        ends     == {<<pairs[i].end.event, start(i) + pairs[i].end.delay>> : i \in ended}
        number   == Len(pairs) + Len(SelectSeq(pairs, LAMBDA p : p.end.event # 0))
    IN  (\A x \in begins \cup ends : x[2] < Times) =>
        /\ sequence_compile(pairs) # {}
        /\ \A s \in sequence_compile(pairs) :
              /\ Len(s) = number
              /\ begins \cup ends =
                     {<<s[i].event, Sum([k \in 1..i |-> s[k].delay])>> : i \in DOMAIN s}

=============================================================================
