------------------------------- MODULE Blinker -------------------------------
(***************************************************************************)
(* The LED blinkers of src/src/led_blink.c and their timer callback in        *)
(* src/src/tasks_core.c.  A pattern is the lengths of its segments, on and     *)
(* off in turn.  The callback walks the list of blinkers with the lock taken   *)
(* only around each link; a client configures, adds and removes them           *)
(* meanwhile.  Completion callbacks do nothing here, and each blinker has an    *)
(* LED of its own.                                                           *)
(***************************************************************************)
EXTENDS Integers, Sequences, FiniteSets, SequencesExt

CONSTANTS Blinkers, Patterns, Nil,
          Word,             \* the values of BlinkTime
          RepeatMod,        \* the values of the count of repeats, 16 in the code
          Repeats,          \* those asked for
          Period            \* BLINK_TASK_MS

Total(p) == FoldLeft(LAMBDA a, b : a + b, 0, p)

BlinkerAssumption ==
    /\ Nil \notin Blinkers /\ Patterns \subseteq Seq(Nat \ {0}) /\ <<>> \notin Patterns
    /\ Period \in Nat \ {0} /\ \A p \in Patterns : 2 * (Total(p) + Period) < Word
    /\ Repeats \subseteq 0 .. RepeatMod - 2

VARIABLES btime,        \* s_blink_timestamp
          head, next,   \* s_LedBlinkerList
          blink,        \* of each blinker: pattern, timestamp, repeats, pat_ix (from 1)
          led,          \* what each LED shows
          walk,         \* where the callback is
          age,          \* the time each pattern has been shown, from when it was set
          plays,        \* the plays asked for
          cut           \* the walk was led off the list

vars == <<btime, head, next, blink, led, walk, age, plays, cut>>

List ==
    LET add(s, i) == IF s = <<>> \/ next[Last(s)] = Nil THEN s ELSE Append(s, next[Last(s)])
    IN  IF head = Nil THEN <<>> ELSE FoldLeft(add, <<head>>, [i \in 1 .. Cardinality(Blinkers) |-> i])

Listed == Range(List)

IsOn(ix) == ix % 2 = 1

\* ll_slist_remove
Removed(b) ==
    LET before == {p \in Listed : next[p] = b}
    IN  IF b \notin Listed THEN UNCHANGED <<head, next>>
        ELSE /\ head' = IF b = head THEN next[b] ELSE head
             /\ next' = [p \in Blinkers |-> IF p \in before THEN next[b] ELSE IF p = b THEN Nil ELSE next[p]]

\* What a blinker that is on no list was doing is overwritten when it comes back.
Forget(b) == /\ blink' = [blink EXCEPT ![b].timestamp = 0, ![b].pat_ix = 1]
             /\ age' = [age EXCEPT ![b] = -Period] /\ plays' = [plays EXCEPT ![b] = 0]

----------------------------------------------------------------------------
(* The callback.                                                           *)
\* One turn of the loop in blink_update: the segment is over.
Advanced(st, p) ==
    LET ends == st.ix = Len(p)
        reps == IF ends /\ st.repeats > 1 THEN st.repeats - 1 ELSE st.repeats
        over == ends /\ reps = 1
    IN  IF ~st.keep \/ st.delta < p[st.ix] THEN st
        ELSE [ix |-> IF ends THEN 1 ELSE st.ix + 1, repeats |-> reps, keep |-> ~over,
              delta |-> IF over THEN 0 ELSE st.delta - p[st.ix]]

Updated(b, now) ==
    LET c == blink[b]
    IN  FoldLeft(LAMBDA st, i : Advanced(st, c.pattern),
                 [ix |-> c.pat_ix, repeats |-> c.repeats, keep |-> TRUE,
                  delta |-> (now - c.timestamp) % Word], [i \in 1..Word |-> i])

BlinkUpdateDrifting(b, now) ==   \* mutant: a segment is timed from the update that starts it
    LET u == Updated(b, now)
        due == (now - blink[b].timestamp) % Word >= blink[b].pattern[blink[b].pat_ix]
    IN  IF ~due THEN UNCHANGED <<blink, led>>
        ELSE /\ blink' = [blink EXCEPT ![b] = [@ EXCEPT !.pat_ix = u.ix, !.repeats = u.repeats, !.timestamp = now]]
             /\ led' = [led EXCEPT ![b] = u.keep /\ IsOn(u.ix)]

\* The LED and the time follow the pattern as long as the blinker is kept.
blink_update(b, now) ==
    LET u == Updated(b, now)
        due == (now - blink[b].timestamp) % Word >= blink[b].pattern[blink[b].pat_ix]
        stamp == IF u.keep THEN (now - u.delta) % Word ELSE blink[b].timestamp
    IN  IF ~due THEN UNCHANGED <<blink, led>>
        ELSE /\ blink' = [blink EXCEPT ![b] = [@ EXCEPT !.pat_ix = u.ix, !.repeats = u.repeats,
                                                        !.timestamp = stamp]]
             /\ led' = [led EXCEPT ![b] = u.keep /\ IsOn(u.ix)]

UpdateAll == /\ walk.at = "idle"
             /\ walk' = [walk EXCEPT !.at = "visit", !.now = btime, !.cur = head]
             /\ UNCHANGED <<btime, head, next, blink, led, age, plays, cut>>

Visit == /\ walk.at = "visit" /\ walk.cur # Nil
         /\ blink_update(walk.cur, walk.now)
         /\ walk' = [walk EXCEPT !.at = "next", !.keep = Updated(walk.cur, walk.now).keep]
         /\ UNCHANGED <<btime, head, next, age, plays, cut>>

ReadNext == /\ walk.at = "next"
            /\ walk' = [walk EXCEPT !.at = IF walk.keep THEN "visit" ELSE "remove",
                                    !.cur = next[walk.cur],
                                    !.old = IF walk.keep THEN Nil ELSE walk.cur]
            /\ UNCHANGED <<btime, head, next, blink, led, age, plays, cut>>

Retire == /\ walk.at = "remove"
          /\ Removed(walk.old) /\ Forget(walk.old)
          /\ walk' = [walk EXCEPT !.at = "visit", !.old = Nil]
          /\ UNCHANGED <<btime, led, cut>>

\* A pattern for ever goes round; the others are shown at most as long as they last.
Aged(b) == LET t == Total(blink[b].pattern)
               a == age[b] + Period
           IN  IF plays[b] = 0 /\ a >= t THEN a - t
               ELSE IF plays[b] # 0 /\ a > plays[b] * t THEN plays[b] * t ELSE a

EndWalk == /\ walk.at = "visit" /\ walk.cur = Nil
           /\ walk' = [at |-> "idle", now |-> 0, cur |-> Nil, old |-> Nil, keep |-> TRUE]
           /\ btime' = (btime + Period) % Word
           /\ age' = [b \in Blinkers |-> IF b \in Listed THEN Aged(b) ELSE -Period]
           /\ UNCHANGED <<head, next, blink, led, plays, cut>>

----------------------------------------------------------------------------
(* The client.                                                             *)
Set(b, p, repeats) ==
    /\ blink' = [blink EXCEPT ![b] = [pattern |-> p, timestamp |-> btime, pat_ix |-> 1,
                                      repeats |-> IF repeats = 0 THEN 0 ELSE (repeats + 1) % RepeatMod]]
    /\ led' = [led EXCEPT ![b] = TRUE]
    /\ age' = [age EXCEPT ![b] = -Period] /\ plays' = [plays EXCEPT ![b] = repeats]

\* blink_set_pattern, for a blinker that is not being updated.
SetPattern(b, p, repeats) ==
    /\ b \in Listed /\ (walk.at = "idle" \/ b \notin {walk.cur, walk.old})
    /\ Set(b, p, repeats)
    /\ UNCHANGED <<btime, head, next, walk, cut>>

\* blink_restart keeps the pattern.
Restart(b, repeats) == SetPattern(b, blink[b].pattern, repeats)

\* blink_init and blinkers_add, which refuses a blinker that has a next one.
Add(b, p, repeats) ==
    /\ next[b] = Nil /\ b \notin Listed /\ (walk.at = "idle" \/ b \notin {walk.cur, walk.old})
    /\ Set(b, p, repeats)
    /\ head' = b /\ next' = [next EXCEPT ![b] = head]
    /\ UNCHANGED <<btime, walk, cut>>

\* blinkers_cancel: the LED stays as it is; a walk at this blinker finds no next one.
Cancel(b) == /\ b \in Listed
             /\ Removed(b) /\ Forget(b)
             /\ cut' = (cut \/ (walk.at # "idle" /\ b = walk.cur))
             /\ UNCHANGED <<btime, led, walk>>

Init ==
    /\ btime = 0 /\ head = Nil /\ next = [b \in Blinkers |-> Nil]
    /\ \E p \in Patterns :
          blink = [b \in Blinkers |-> [pattern |-> p, timestamp |-> 0, repeats |-> 0, pat_ix |-> 1]]
    /\ led = [b \in Blinkers |-> TRUE]
    /\ walk = [at |-> "idle", now |-> 0, cur |-> Nil, old |-> Nil, keep |-> TRUE]
    /\ age = [b \in Blinkers |-> -Period] /\ plays = [b \in Blinkers |-> 0] /\ cut = FALSE

\* What follows the loss of the rest of a walk is not looked at.
Next ==
    /\ ~cut
    /\ \/ UpdateAll \/ Visit \/ ReadNext \/ Retire \/ EndWalk
       \/ \E b \in Blinkers : \/ Cancel(b)
                             \/ \E r \in Repeats : \/ Restart(b, r)
                                                   \/ \E p \in Patterns : Add(b, p, r) \/ SetPattern(b, p, r)

----------------------------------------------------------------------------
(* Properties.                                                             *)
\* The segment of a pattern at a time from its start.
SegmentAt(p, t) ==
    LET at == t % Total(p)
    IN  CHOOSE i \in DOMAIN p : Total(SubSeq(p, 1, i - 1)) <= at /\ at < Total(SubSeq(p, 1, i))

\* Between two updates each LED shows what its pattern has at the time since it was set,
\* whoever else is added, removed or done, and is off once the pattern has been shown as
\* often as asked; unless a blinker was taken out from under the walk, when those behind it
\* wait for the next update.
LedsShowPatterns ==
    walk.at = "idle" /\ ~cut =>
        \A b \in Listed :
            LET p == blink[b].pattern
                t == IF age[b] < 0 THEN 0 ELSE age[b]
            IN  /\ plays[b] # 0 => t < plays[b] * Total(p)
                /\ led[b] = IsOn(SegmentAt(p, t))

DoneIsOff == \A b \in Blinkers \ Listed : blink[b].repeats = 1 /\ walk.at = "idle" => ~led[b]

=============================================================================
