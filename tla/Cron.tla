-------------------------------- MODULE Cron --------------------------------
(***************************************************************************)
(* The scheduler of src/src/cron_events.c: its task, which sleeps to the top *)
(* of each minute of the real-time clock and sends the events of the minutes *)
(* that passed, and the clients that add, remove, save and load entries.     *)
(* Both use one binary semaphore.  Time is in seconds from 0.                *)
(*                                                                           *)
(* Of the clients it is assumed that no two remove one entry at once, which  *)
(* would free it twice (cron_remove_event), and that entries are loaded      *)
(* while no other client is at work, as cron_init does.                      *)
(***************************************************************************)
EXTENDS CronMap, Sequences, SequencesExt

CONSTANTS
    Defs,            \* the entries a client may add, CronDef each
    Clients,         \* tasks that call the cron functions
    Period,          \* CRON_PERIOD_SECS, 60 in the code
    LongSleep,       \* the seconds a negative sleep turns into
    MaxEntries,      \* the entries the memory pools have room for
    MaxTime,         \* bound on the clock
    Shifts,          \* the steps the clock may be set by
    MaxShifts        \* bound on how often it is

Hour == Period * MinutesPerHour
Day == Hour * HoursPerDay

CronAssumption ==
    /\ {Period, MaxTime, MaxShifts, LongSleep, MaxEntries} \subseteq Nat /\ Period > 0
    /\ LongSleep > Hour + Period /\ Shifts \subseteq Int

VARIABLES
    rtc,             \* the clock, how often it was set, and whether it ever was set back
    cron,            \* the task: where it is, and its local variables
    lock,            \* s_cron_lock: who holds it
    list,            \* s_cron_entry_list, the newest entry first
    client,          \* where each client is
    saved,           \* the definitions kept under P_SYS_CRON_LOCAL_VALUE
    lost,            \* history: what is saved is not what it should be, because the last
                     \* save found no memory, counted before a change, or was overtaken
    sent             \* history: the last event of each entry since it was added or the
                     \* clock jumped, and the minute it was sent for

vars == <<rtc, cron, lock, list, client, saved, lost, sent>>

Free == "free"
Idle == [pc |-> "idle"]
NotSent == [kind |-> "none", time |-> -1]
Events == {d.event : d \in Defs}

\* A definition of zeros, its event 0.
NoEvent == "no event"
Blank == [event |-> NoEvent, event_minutes |-> 0, persist |-> FALSE, one_shot |-> FALSE,
          spec |-> [f \in {"minute", "hour", "day_of_month", "month", "day_of_week"} |-> Field(0, 0, 0)]]

\* localtime_r: a month of two days that are also the days of the week.
TmOf(t) ==
    LET m == t \div Period
        d == m \div (MinutesPerHour * HoursPerDay)
    IN  [min |-> m % MinutesPerHour, hour |-> (m \div MinutesPerHour) % HoursPerDay,
         mday |-> 1 + (d % 2), mon |-> 0, wday |-> d % 2]

Asleep(from, left) == [pc |-> "asleep", from |-> from, left |-> left]

Init ==
    /\ rtc = [time |-> 0, shifts |-> 0, back |-> FALSE]
    /\ cron = Asleep(0, Period)
    /\ lock = Free
    /\ list = <<>>
    /\ client = [c \in Clients |-> Idle]
    /\ saved = <<>>
    /\ lost = FALSE
    /\ sent = [e \in Events \cup {NoEvent} |-> NotSent]

----------------------------------------------------------------------------
(* The clock.                                                              *)
\* A second passes once the task has done what is due.
Tick ==
    /\ rtc.time < MaxTime
    /\ cron.pc \in {"asleep", "skipping"} => cron.left > 0
    /\ cron.pc \in {"asleep", "skipping", "stuck"}
    /\ rtc' = [rtc EXCEPT !.time = @ + 1]
    /\ cron' = IF cron.pc = "stuck" THEN cron ELSE [cron EXCEPT !.left = @ - 1]
    /\ UNCHANGED <<lock, list, client, saved, lost, sent>>

SetClock ==
    /\ rtc.shifts < MaxShifts /\ cron.pc = "asleep"
    /\ \E s \in Shifts :
          /\ rtc.time + s \in 0..MaxTime
          /\ rtc' = [time |-> rtc.time + s, shifts |-> rtc.shifts + 1, back |-> rtc.back \/ s < 0]
    /\ UNCHANGED <<cron, lock, list, client, saved, lost, sent>>

----------------------------------------------------------------------------
(* cron_task.                                                              *)
\* From here the task sleeps to the top of the next minute of the clock.
Top(until) == Asleep(until, Period - (rtc.time % Period))

\* Awake: a step forward of up to an hour is worked off, one backward is slept through,
\* from where the clock is now.  A sleep below zero is a very long one.
Wake ==
    /\ cron.pc = "asleep" /\ cron.left = 0
    /\ LET until == rtc.time
           delta == until - cron.from
           skip  == -delta - Period
       IN  /\ cron' = CASE delta > 0 /\ delta <= Hour + Period ->
                          [pc |-> "locking", from |-> cron.from, until |-> until]
                     [] delta <= 0 /\ delta >= -Hour - Period ->
                          [pc |-> "skipping", from |-> until,
                           left |-> IF skip < 0 THEN LongSleep ELSE skip]
                     [] delta > Hour + Period \/ delta < -Hour - Period -> Top(until)
           /\ sent' = IF delta > Hour + Period THEN [e \in DOMAIN sent |-> NotSent] ELSE sent
    /\ UNCHANGED <<rtc, lock, list, client, saved, lost>>

Skipped ==
    /\ cron.pc = "skipping" /\ cron.left = 0
    /\ cron' = Top(cron.from)
    /\ UNCHANGED <<rtc, lock, list, client, saved, lost, sent>>

\* The minute that from lies in, again.
BeginThisMinute ==
    /\ cron.pc = "locking" /\ lock = Free
    /\ lock' = "cron"
    /\ cron' = [pc |-> "pending", until |-> cron.until, at |-> 1,
                now |-> cron.from - (cron.from % Period)]
    /\ UNCHANGED <<rtc, list, client, saved, lost, sent>>

\* LOCK and the first minute after from.
Begin ==
    /\ cron.pc = "locking" /\ lock = Free
    /\ lock' = "cron"
    /\ cron' = [pc |-> "pending", until |-> cron.until, at |-> 1,
                now |-> cron.from + Period - (cron.from % Period)]
    /\ UNCHANGED <<rtc, list, client, saved, lost, sent>>

Started(e) == [e EXCEPT !.started = TRUE, !.map = EndMap(TmOf(cron.now), e.def.event_minutes)]

Ended(e) == [e EXCEPT !.started = FALSE, !.map = map_init(e.def.spec)]

\* One entry in one minute.  An entry to be removed is unlinked under the lock, which the
\* task itself holds: the call does not return.
ForEntry ==
    /\ cron.pc = "pending" /\ cron.now <= cron.until /\ cron.at <= Len(list)
    /\ LET e == list[cron.at]
           match  == time_match(TmOf(cron.now), e.map)
           starts == match /\ ~e.started
           ends   == match /\ e.started
           paired == e.def.event_minutes > 0
           remove == (ends \/ (starts /\ ~paired)) /\ e.def.one_shot
           next   == [cron EXCEPT !.at = @ + 1]
       IN  /\ list' = IF starts /\ paired THEN [list EXCEPT ![cron.at] = Started(e)]
                      ELSE IF ends THEN [list EXCEPT ![cron.at] = Ended(e)] ELSE list
           /\ sent' = IF match
                      THEN [sent EXCEPT ![e.def.event] =
                              [kind |-> IF starts THEN "start" ELSE "end", time |-> cron.now]]
                      ELSE sent
           /\ cron' = IF remove /\ lock # Free THEN [cron EXCEPT !.pc = "stuck"] ELSE next
    /\ UNCHANGED <<rtc, lock, client, saved, lost>>

NextMinute ==
    /\ cron.pc = "pending" /\ cron.now <= cron.until /\ cron.at > Len(list)
    /\ cron' = [cron EXCEPT !.now = @ + Period, !.at = 1]
    /\ UNCHANGED <<rtc, lock, list, client, saved, lost, sent>>

\* The next pass goes on after the minute this one stopped before.
EndPendingLate ==
    /\ cron.pc = "pending" /\ cron.now > cron.until
    /\ lock' = Free
    /\ cron' = Top(cron.now)
    /\ UNCHANGED <<rtc, list, client, saved, lost, sent>>

EndPending ==
    /\ cron.pc = "pending" /\ cron.now > cron.until
    /\ lock' = Free
    /\ cron' = Top(cron.until)
    /\ UNCHANGED <<rtc, list, client, saved, lost, sent>>

----------------------------------------------------------------------------
(* Clients.                                                                *)
\* An entry of its own for each event; a one-shot entry is not persisted.
Entry(def) ==
    [def |-> [def EXCEPT !.persist = @ /\ ~def.one_shot], map |-> map_init(def.spec),
     started |-> FALSE]

Push(def) == list' = <<Entry(def)>> \o list

Loading == \E c \in Clients : client[c].pc = "loading"

\* The allocation, and a save to come if the entry is to be kept.
Add(c, def) ==
    /\ client[c] = Idle /\ ~Loading /\ lock = Free /\ Len(list) < MaxEntries
    /\ \A i \in DOMAIN list : list[i].def.event # def.event
    /\ Push(def)
    /\ client' = [client EXCEPT ![c] =
                    IF Entry(def).def.persist THEN [pc |-> "counting"] ELSE Idle]
    /\ sent' = [sent EXCEPT ![def.event] = NotSent]
    /\ UNCHANGED <<rtc, cron, lock, saved, lost>>

\* cron_remove_event: the entry is looked up under the lock and unlinked under it again.
Find(c, event) ==
    /\ client[c] = Idle /\ ~Loading /\ lock = Free
    /\ \E i \in DOMAIN list : list[i].def.event = event
    /\ \A d \in Clients : client[d].pc = "removing" => client[d].event # event
    /\ client' = [client EXCEPT ![c] = [pc |-> "removing", event |-> event]]
    /\ UNCHANGED <<rtc, cron, lock, list, saved, lost, sent>>

Unlink(c) ==
    /\ client[c].pc = "removing" /\ lock = Free
    /\ LET gone(e) == e.def.event = client[c].event
       IN  /\ list' = SelectSeq(list, LAMBDA e : ~gone(e))
           /\ client' = [client EXCEPT ![c] =
                 IF \E i \in DOMAIN list : gone(list[i]) /\ list[i].def.persist
                 THEN [pc |-> "counting"] ELSE Idle]
    /\ UNCHANGED <<rtc, cron, lock, saved, lost, sent>>

Kept == SelectSeq(list, LAMBDA e : e.def.persist)

\* A save that has yet to write.  It is spoilt by a change since it counted, or a save that
\* ended since it copied.
Deleting(spoilt) == [pc |-> "deleting", spoilt |-> spoilt]
Storing(defs, spoilt) == [pc |-> "storing", defs |-> defs, spoilt |-> spoilt]

\* cron__serialize counts the entries to keep.  If there are none the property is deleted.
Count(c) ==
    /\ client[c].pc = "counting" /\ lock = Free
    /\ client' = [client EXCEPT ![c] =
                    IF Kept = <<>> THEN Deleting(FALSE) ELSE [pc |-> "copying", n |-> Len(Kept)]]
    /\ UNCHANGED <<rtc, cron, lock, list, saved, lost, sent>>

\* n definitions from the newest entry on, it last, for they are pushed in this order again:
\* of more entries the oldest are left out, for fewer the first stay blank.
Serialized(n) ==
    [i \in 1..n |-> IF n + 1 - i <= Len(Kept) THEN Kept[n + 1 - i].def ELSE Blank]

\* It takes the lock again to copy as many as it has counted.
Copy(c) ==
    /\ client[c].pc = "copying" /\ lock = Free
    /\ client' = [client EXCEPT ![c] = Storing(Serialized(client[c].n), client[c].n # Len(Kept))]
    /\ UNCHANGED <<rtc, cron, lock, list, saved, lost, sent>>

\* No memory for the copy: taken for no entries at all.
CopyFails(c) ==
    /\ client[c].pc = "copying"
    /\ client' = [client EXCEPT ![c] = Deleting(TRUE)]
    /\ UNCHANGED <<rtc, cron, lock, list, saved, lost, sent>>

\* A save is over; it has overtaken those that have copied already.
Saved(c) ==
    client' = [d \in Clients |->
                 IF d = c THEN Idle
                 ELSE IF client[d].pc \in {"storing", "deleting"} THEN [client[d] EXCEPT !.spoilt = TRUE]
                 ELSE client[d]]

\* prop_set, which may find no memory, and prop_del: both without the lock.
Store(c) ==
    /\ client[c].pc = "storing"
    /\ \/ saved' = client[c].defs /\ lost' = client[c].spoilt
       \/ saved' = saved /\ lost' = TRUE
    /\ Saved(c)
    /\ UNCHANGED <<rtc, cron, lock, list, sent>>

Delete(c) ==
    /\ client[c].pc = "deleting"
    /\ saved' = <<>> /\ lost' = client[c].spoilt
    /\ Saved(c)
    /\ UNCHANGED <<rtc, cron, lock, list, sent>>

\* cron__deserialize: the kept entries are dropped under the lock, those of the property
\* pushed one by one.
Load(c) ==
    /\ \A d \in Clients : client[d] = Idle
    /\ lock = Free /\ saved # <<>>
    /\ list' = SelectSeq(list, LAMBDA e : ~e.def.persist)
    /\ client' = [client EXCEPT ![c] = [pc |-> "loading", rest |-> saved]]
    /\ UNCHANGED <<rtc, cron, lock, saved, lost, sent>>

LoadNext(c) ==
    /\ client[c].pc = "loading" /\ lock = Free
    /\ LET def == Head(client[c].rest)
           rest == Tail(client[c].rest)
       IN  /\ IF Len(list) < MaxEntries
              THEN /\ Push(def) /\ UNCHANGED lost
                   /\ sent' = [sent EXCEPT ![def.event] = NotSent]
              ELSE lost' = TRUE /\ UNCHANGED <<list, sent>>
           /\ client' = [client EXCEPT ![c] = IF rest = <<>> THEN Idle ELSE [@ EXCEPT !.rest = rest]]
    /\ UNCHANGED <<rtc, cron, lock, saved>>

CronTask == Wake \/ Skipped \/ Begin \/ ForEntry \/ NextMinute \/ EndPending

Next ==
    \/ Tick \/ SetClock
    \/ Wake \/ Skipped \/ Begin \/ ForEntry \/ NextMinute \/ EndPending
    \/ \E c \in Clients :
          \/ \E d \in Defs : Add(c, d)
          \/ \E e \in Events : Find(c, e)
          \/ Unlink(c) \/ Count(c) \/ Copy(c) \/ CopyFails(c) \/ Store(c) \/ Delete(c)
          \/ Load(c) \/ LoadNext(c)

Spec == Init /\ [][Next]_vars /\ WF_vars(CronTask)

----------------------------------------------------------------------------
(* Properties.                                                             *)
EndAfter(e) == e.def.event_minutes * Period

\* The minutes of a schedule, and the last of them up to a time.
Due(e, t) == t % Period = 0 /\ time_match(TmOf(t), map_init(e.def.spec))

\* The time up to which the minutes of the i-th entry are done.
DoneTo(i) == IF cron.pc \notin {"pending", "stuck"} THEN cron.from
             ELSE IF i < cron.at THEN cron.now ELSE cron.now - 1

\* Once an entry without an end event has been sent, no later minute of its schedule that
\* the task has come to is missed, however late it wakes, however little over an hour the
\* clock jumps and whatever clients do meanwhile (cron_task and do_pending_events).  A task
\* that is stuck comes to no other minute: it misses all that follow (StuckOnOneShot).
NoMinuteIsMissed ==
    \A i \in DOMAIN list :
        LET e == list[i] IN
        e.def.event_minutes = 0 /\ sent[e.def.event] # NotSent =>
            \A t \in sent[e.def.event].time + 1 .. DoneTo(i) : ~Due(e, t)

\* The step in which the task sends the event of an entry, for the minute now.
Sends(e) ==
    /\ ForEntry
    /\ list[cron.at].def.event = e /\ time_match(TmOf(cron.now), list[cron.at].map)

\* While the clock is not set back, no event is sent a second time for a minute or for an
\* earlier one, a start event is sent for a minute of its schedule, and an end event follows
\* its start by the minutes asked for, within a day (do_pending_events).
PairInTime ==
    \A e \in Events :
        Sends(e) =>
            /\ rtc.back \/ sent[e].time < cron.now
            /\ sent'[e].kind = "start" => Due(list[cron.at], cron.now)
            /\ sent'[e].kind = "end" /\ sent[e] # NotSent /\ ~rtc.back =>
                  /\ sent[e].kind = "start"
                  /\ (cron.now - sent[e].time - EndAfter(list[cron.at])) % Day = 0

PairsAreInTime == [][PairInTime]_vars

\* The task never waits for the lock it holds, except to remove a one-shot entry; nobody
\* else holds it between two steps (LOCK in do_pending_events).
StuckOnOneShot ==
    /\ lock = "cron" <=> cron.pc \in {"pending", "stuck"}
    /\ cron.pc = "stuck" => list[cron.at].def.one_shot

\* When no client is at work, the entries under the property are those of the list that
\* are to be kept, in its order (cron_save_to_prop_db, cron__deserialize), whatever others
\* did during a save - unless there was no memory, or the save that wrote last had counted
\* before a change or copied before another save ended.  Then an entry can be missing, or
\* blank: the lock is given up between the three (cron_events.c:554, :571, :604).
SavedAreKept ==
    (\A c \in Clients : client[c] = Idle) /\ ~lost =>
        saved = Reverse([i \in DOMAIN Kept |-> Kept[i].def])

\* The comment in cron_task: events of a time span that the clock repeats are skipped.
RepeatedAreSkipped == [][\A e \in Events : Sends(e) => sent[e].time < cron.now]_vars

\* What a minute's work comes to: sleep, or the lock that never comes.
CronReturns == cron.pc = "pending" ~> cron.pc \in {"asleep", "stuck"}

=============================================================================
