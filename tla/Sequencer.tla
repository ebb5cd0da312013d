------------------------------ MODULE Sequencer ------------------------------
(***************************************************************************)
(* The event sequencer, src/src/sequence_events.c, with its task in           *)
(* src/src/tasks_core.c and the loop of src/src/rtos.c that runs it.  A        *)
(* sequence is on the idle or the active list; the task walks the active one  *)
(* with the lock taken only around each link, while a client starts and stops *)
(* sequences.  The time is a counter of one word that wraps.  The task runs    *)
(* when it can: the clock stands still meanwhile.  Messages to the hub are     *)
(* not kept; all delays are positive.                                        *)
(***************************************************************************)
EXTENDS Integers, Sequences, FiniteSets, SequencesExt

CONSTANTS Seqs, Delays,     \* the sequences and the delays of their events
          Nil, Word,        \* the values of SequenceTime
          RepeatMod,        \* the values of the count of repeats, 256 in the code
          Repeats, Shortest,     \* those asked for; the shortest period of the task
          First             \* the period it starts with

SequencerAssumption ==
    /\ Nil \notin Seqs /\ Delays \in [Seqs -> Seq(Nat \ {0})]
    /\ Repeats \subseteq 0 .. RepeatMod - 1 /\ Shortest \in Nat \ {0} /\ First >= Shortest
    /\ \A s \in Seqs : \A i \in DOMAIN Delays[s] : Delays[s][i] <= First /\ 2 * First < Word

VARIABLES clock,
          active, idle, next,  \* the two lists
          seqs,                \* of each sequence: cur_event, timestamp, repeats
          task, client,        \* where the two tasks are
          asked, played,       \* the plays asked for and made since the last start
          late                 \* those whose start the task cannot see, or all after a stop it walked into

vars == <<clock, active, idle, next, seqs, task, client, asked, played, late>>

lists == <<active, idle, next>>

Endless == {0, RepeatMod - 1}     \* counts that mean for ever

Chain(head) ==
    LET add(s, i) == IF s = <<>> \/ next[Last(s)] = Nil THEN s ELSE Append(s, next[Last(s)])
    IN  IF head = Nil THEN <<>> ELSE FoldLeft(add, <<head>>, [i \in 1 .. Cardinality(Seqs) |-> i])

OnList(head) == Range(Chain(head))

\* ll_slist_remove from one list and ll_slist_push onto the other, in one critical section.
Unlinked(head, s) ==
    LET before == {p \in OnList(head) : next[p] = s}
    IN  IF s \notin OnList(head) THEN [head |-> head, next |-> next]
        ELSE IF s = head THEN [head |-> next[s], next |-> [next EXCEPT ![s] = Nil]]
        ELSE [head |-> head, next |-> [[next EXCEPT ![CHOOSE p \in before : TRUE] = next[s]] EXCEPT ![s] = Nil]]

Pushed(links, head, s) == [links EXCEPT ![s] = head]

----------------------------------------------------------------------------
(* The task.                                                               *)
Delay(s, st) == Delays[s][st.cur]

\* One turn of the loop in sequence_update: an event is sent and the next one looked at.
Advanced(s, st) ==
    LET last == st.cur = Len(Delays[s])
        reps == IF last /\ st.repeats > 1 THEN st.repeats - 1 ELSE st.repeats
        over == last /\ reps = 1
    IN  IF ~st.keep \/ st.delta < Delay(s, st) THEN st
        ELSE [cur |-> IF last THEN 1 ELSE st.cur + 1, repeats |-> reps, keep |-> ~over,
              delta |-> IF over THEN 0 ELSE st.delta - Delay(s, st),
              plays |-> IF last THEN st.plays + 1 ELSE st.plays]

\* Everything due by now is sent; the delay to the next event, zero when the sequence is over.
sequence_update(s, now) ==
    LET delta == (now - seqs[s].timestamp) % Word
        st == FoldLeft(LAMBDA x, i : Advanced(s, x),
                       [cur |-> seqs[s].cur_event, repeats |-> seqs[s].repeats, keep |-> TRUE,
                        delta |-> delta, plays |-> 0], [i \in 1..Word |-> i])
        sent == delta >= Delays[s][seqs[s].cur_event]
    IN  [seq   |-> IF sent THEN [cur_event |-> st.cur, timestamp |-> (now - st.delta) % Word,
                                 repeats |-> st.repeats] ELSE seqs[s],
         delay |-> IF st.keep THEN Delay(s, st) - st.delta ELSE 0, plays |-> st.plays]

\* sequence_update_all begins: the time and the head of the list are read once.
UpdateAll(again) ==
    task' = [task EXCEPT !.at = "walk", !.now = clock, !.seq = active, !.delay = Word, !.again = again]

Begin == /\ task.at = "woken" /\ UpdateAll(FALSE) /\ late' = late \ OnList(active)
         /\ UNCHANGED <<clock, lists, seqs, client, asked, played>>

Again == /\ task.at = "resumed" /\ UpdateAll(TRUE) /\ late' = late \ OnList(active)
         /\ UNCHANGED <<clock, lists, seqs, client, asked, played>>

Visit ==
    /\ task.at = "walk" /\ task.seq # Nil
    /\ LET u == sequence_update(task.seq, task.now)
       IN  /\ seqs' = [seqs EXCEPT ![task.seq] = u.seq]
           /\ played' = [played EXCEPT ![task.seq] = IF asked[task.seq] \in Endless THEN 0 ELSE @ + u.plays]
           /\ task' = [task EXCEPT !.at = "next", !.got = u.delay]
    /\ UNCHANGED <<clock, lists, client, asked, late>>

\* The link is read after the callbacks; a sequence that is over is put on the idle list.
ReadNext ==
    /\ task.at = "next"
    /\ task' = [task EXCEPT !.at = IF task.got = 0 THEN "disable" ELSE "walk",
                            !.seq = next[task.seq], !.old = IF task.got = 0 THEN task.seq ELSE Nil, !.got = 0,
                            !.delay = IF task.got = 0 \/ task.got >= @ THEN @ ELSE task.got]
    /\ UNCHANGED <<clock, lists, seqs, client, asked, played, late>>

\* What an idle sequence has for its time and repeats is overwritten when it starts.
Forgotten(s) == [seqs EXCEPT ![s].timestamp = 0, ![s].repeats = 0]

sequence__disable(s) ==
    LET r == Unlinked(active, s)
    IN  active' = r.head /\ idle' = s /\ next' = Pushed(r.next, idle, s) /\ seqs' = Forgotten(s)

Disable == /\ task.at = "disable"
           /\ sequence__disable(task.old) /\ task' = [task EXCEPT !.at = "walk", !.old = Nil]
           /\ UNCHANGED <<clock, client, asked, played, late>>

\* The end of event_sequencer_task_cb: the new period, if it is another one.
EndWalk ==
    /\ task.at = "walk" /\ task.seq = Nil
    /\ LET found == IF task.delay = Word THEN 0 ELSE task.delay
           delay == IF found = task.prev THEN found ELSE (IF found < Shortest THEN Shortest ELSE found)
       IN  IF found = 0 /\ ~task.again
           THEN task' = [task EXCEPT !.at = "suspend", !.now = 0]
           ELSE task' = [task EXCEPT !.at = "delay", !.again = FALSE, !.now = 0, !.delay = Word, !.prev = delay,
                                     !.period = IF found # task.prev THEN delay ELSE @]
    /\ UNCHANGED <<clock, lists, seqs, client, asked, played, late>>

Suspend == /\ task.at = "suspend" /\ task' = [task EXCEPT !.at = "suspended"]
           /\ UNCHANGED <<clock, lists, seqs, client, asked, played, late>>

\* periodic_task_wrapper: the next wake time is counted from the last, unless that is too old.
Wake ==
    /\ task.at = "delay" /\ task.since >= task.period
    /\ task' = [task EXCEPT !.at = "woken",
                            !.since = IF @ - task.period >= task.period THEN 0 ELSE @ - task.period]
    /\ UNCHANGED <<clock, lists, seqs, client, asked, played, late>>

----------------------------------------------------------------------------
(* The client.                                                             *)
Add(s) ==
    /\ client.at = "idle" /\ next[s] = Nil /\ s \notin OnList(active) \cup OnList(idle)
    /\ idle' = s /\ next' = Pushed(next, idle, s)
    /\ UNCHANGED <<clock, active, seqs, task, client, asked, played, late>>

StartShort(s, repeats) ==   \* mutant: the count of repeats for the count of plays
    /\ client.at = "idle" /\ s \in OnList(idle)
    /\ seqs' = [seqs EXCEPT ![s].timestamp = clock, ![s].repeats = repeats]
    /\ LET r == Unlinked(idle, s) IN idle' = r.head /\ active' = s /\ next' = Pushed(r.next, active, s)
    /\ asked' = [asked EXCEPT ![s] = repeats] /\ played' = [played EXCEPT ![s] = 0]
    /\ client' = [at |-> "resume", seq |-> s]
    /\ UNCHANGED <<clock, task, late>>

\* sequence_start: found, stamped and moved; until it is moved the task does not see it.
\* cur_event stays where it was.
Start(s, repeats) ==
    /\ client.at = "idle" /\ s \in OnList(idle)
    /\ seqs' = [seqs EXCEPT ![s].timestamp = clock,
                            ![s].repeats = IF repeats = 0 THEN 0 ELSE (repeats + 1) % RepeatMod]
    /\ LET r == Unlinked(idle, s) IN idle' = r.head /\ active' = s /\ next' = Pushed(r.next, active, s)
    /\ asked' = [asked EXCEPT ![s] = repeats] /\ played' = [played EXCEPT ![s] = 0]
    /\ client' = [at |-> "resume", seq |-> s]
    /\ late' = IF task.at \in {"delay", "woken", "suspended", "resumed"} THEN late ELSE late \cup {s}
    /\ UNCHANGED <<clock, task>>

\* sequence_resume: a suspended task is resumed and a delayed one woken.
StartResume ==
    /\ client.at = "resume"
    /\ task' = CASE task.at = "suspended" -> [task EXCEPT !.at = "resumed"]
                 [] task.at = "delay" -> [task EXCEPT !.at = "woken", !.since = 0]
                 [] OTHER -> task
    /\ client' = [at |-> "idle", seq |-> Nil]
    /\ UNCHANGED <<clock, lists, seqs, asked, played, late>>

\* sequence_stop: found, then moved, perhaps from under the walk.
Stop(s) ==
    /\ client.at = "idle" /\ s \in OnList(active)
    /\ client' = [at |-> "stop", seq |-> s]
    /\ UNCHANGED <<clock, lists, seqs, task, asked, played, late>>

StopMove ==
    /\ client.at = "stop"
    /\ sequence__disable(client.seq)
    /\ client' = [at |-> "idle", seq |-> Nil]
    /\ asked' = [asked EXCEPT ![client.seq] = 0] /\ played' = [played EXCEPT ![client.seq] = 0]
    /\ late' = IF task.at \in {"walk", "next", "disable"} \/ client.seq \in OnList(idle)
               THEN Seqs \cup {Nil} ELSE late
    /\ UNCHANGED <<clock, task>>

\* Time passes while both tasks wait.
Tick ==
    /\ client.at = "idle"
    /\ task.at = "suspended" \/ (task.at = "delay" /\ task.since < task.period)
    /\ clock' = (clock + 1) % Word
    /\ task' = [task EXCEPT !.since = IF @ < 2 * First THEN @ + 1 ELSE @]
    /\ UNCHANGED <<lists, seqs, client, asked, played, late>>

Init ==
    /\ clock = 0 /\ active = Nil /\ idle = Nil /\ next = [s \in Seqs |-> Nil]
    /\ seqs = [s \in Seqs |-> [cur_event |-> 1, timestamp |-> 0, repeats |-> 0]]
    /\ task = [at |-> "woken", now |-> 0, seq |-> Nil, old |-> Nil, delay |-> Word, got |-> 0,
               again |-> FALSE, prev |-> 0, period |-> First, since |-> 0]
    /\ client = [at |-> "idle", seq |-> Nil]
    /\ asked = [s \in Seqs |-> 0] /\ played = [s \in Seqs |-> 0] /\ late = {}

\* What follows a stop in the middle of a walk is not looked at: the lists may be in knots.
Next ==
    /\ Nil \notin late
    /\ \/ Begin \/ Again \/ Visit \/ ReadNext \/ Disable \/ EndWalk \/ Suspend \/ Wake
       \/ (\E s \in Seqs : Add(s) \/ Stop(s) \/ \E r \in Repeats : Start(s, r))
       \/ StartResume \/ StopMove
       \/ Tick

----------------------------------------------------------------------------
(* Properties.                                                             *)
Whole == Nil \notin late

\* A sequence is on one list at most and once, whoever starts and ends at the same time.
OnOneList ==
    Whole => /\ OnList(active) \cap OnList(idle) = {}
             /\ IsInjective(Chain(active)) /\ IsInjective(Chain(idle))

\* An event is sent within the shortest period of the task after it is due.  A sequence
\* whose start fell into an update or between an update and the suspension it leads to
\* is waited for until something else wakes the task.
EventsAreOnTime ==
    Whole /\ task.at \in {"delay", "suspended"} /\ client.at = "idle" =>
        \A s \in OnList(active) \ late :
            (clock - seqs[s].timestamp) % Word < Delays[s][seqs[s].cur_event] + Shortest

\* A sequence that is started ends after as many plays as it was asked for; the largest
\* count means for ever, as zero does.
PlaysAsAsked ==
    Whole => \A s \in Seqs : asked[s] \notin Endless =>
        /\ played[s] <= asked[s]
        /\ s \in OnList(idle) /\ client.seq # s => played[s] = asked[s]

=============================================================================
