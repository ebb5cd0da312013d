----------------------------- MODULE MCServices -----------------------------
(***************************************************************************)
(* The services of the library, each on small instances of its module: the   *)
(* initial state chooses one of them, and all steps are steps of that one.    *)
(* The instances use the same variables, which mean what the chosen module    *)
(* says.  The interrupt-safe queue has runs of its own and is checked here in    *)
(* the mode that overwrites.  The two logs in flash, on small geometries, are  *)
(* chosen in a run of their own.                                             *)
(***************************************************************************)
EXTENDS Integers, Sequences, FiniteSets, TLC

CONSTANTS Services,                    \* those that may be chosen
          Pools, Requests,             \* the kinds of memory pools, and the sizes asked for
          sub1, sub2, query1,          \* the hub: its targets,
          ev1, evErr, mark1, mark2, load1,  \* events, masks and a payload
          prop1, prop2, propSeed,      \* the properties,
          str1, str2, strLit, writer1, \* strings and a task that sets them
          client1, client2,            \* clients of the scheduler,
          seq1, seq2, blink1, blink2,  \* sequences and blinkers
          Nil

VARIABLES which, v1, v2, v3, v4, v5, v6, v7, v8, v9, v10, v11, v12, v13, v14, v15

vars == <<which, v1, v2, v3, v4, v5, v6, v7, v8, v9, v10, v11, v12, v13, v14, v15>>

----------------------------------------------------------------------------
(* Instances.                                                              *)
\* A hub with a queued subscriber and one with a callback, and one with a query; Umsg with
\* its theorems.
QueueLengths == sub1 :> 1 @@ sub2 :> 0 @@ query1 :> 0

Hub == INSTANCE UmsgProof WITH
    Targets <- {sub1, sub2}, Queries <- {}, Payloads <- {load1}, MaxSubs <- 2,
    Matches <- {<<ev1, mark1>>, <<evErr, mark1>>}, Error <- evErr,
    QueueLen <- QueueLengths, InboxLen <- 1, Events <- {ev1}, Aux <- mark2, Masks <- {mark1},
    Slots <- 1, MaxChunks <- 1,
    inbox <- v1, queue <- v2, first <- v3, next <- v4, filters <- v5, pc <- v6,
    msg <- v7, cur <- v8, refs <- v9, owner <- v10, taken <- v11, query <- v12,
    subs <- v13, seen <- v14, steady <- v15

Asking == INSTANCE UmsgProof WITH
    Targets <- {sub1}, Queries <- {query1}, Payloads <- {}, MaxSubs <- 2,
    Matches <- {<<ev1, mark1>>, <<query1, mark2>>}, Error <- ev1,
    QueueLen <- QueueLengths, InboxLen <- 1, Events <- {ev1}, Aux <- mark2, Masks <- {mark1},
    Slots <- 1, MaxChunks <- 1,
    inbox <- v1, queue <- v2, first <- v3, next <- v4, filters <- v5, pc <- v6,
    msg <- v7, cur <- v8, refs <- v9, owner <- v10, taken <- v11, query <- v12,
    subs <- v13, seen <- v14, steady <- v15

\* Pools of unaligned buffers, one of them static and with a strict alignment.
ThreePools ==
  << [at |-> 1000, len |-> 63, size |-> 8, align |-> 8, static |-> FALSE, elements |-> 2],
     [at |-> 2011, len |-> 110, size |-> 20, align |-> 16, static |-> TRUE, elements |-> 0],
     [at |-> 3000, len |-> 70, size |-> 12, align |-> 8, static |-> FALSE, elements |-> 1] >>

\* A number, a read-only string and the seed, set by two tasks.
DefaultProps ==
  prop1 :> [kind |-> "uint", value |-> 0, persist |-> TRUE, readonly |-> FALSE, protect |-> FALSE]
  @@ prop2 :> [kind |-> "string", value |-> strLit, persist |-> TRUE, readonly |-> TRUE, protect |-> FALSE]

\* The property database and the memory pools, whose theorems are in one module: an instance
\* with plain pools and one with pools whose clients take counted elements.
Properties == INSTANCE PropDbProof WITH
    Kinds <- Pools, Marks <- {mark1, mark2}, Header <- 40, Chunk <- 8, Counted <- FALSE, MaxRefs <- 0,
    set <- v1, pool <- v2, mem <- v3, counts <- v4, held <- v5, asked <- v6,
    Props <- {prop1, prop2, propSeed}, Defaults <- DefaultProps, Numbers <- {0}, Elements <- {str1, str2},
    Literal <- strLit, Writers <- {writer1}, Seed <- propSeed, Counter <- prop1, InboxLen <- 1, MaxSets <- 2,
    MaxRestarts <- 1,
    db <- v1, strings <- v2, transactions <- v3, updated <- v4, pc <- v5, job <- v6,
    inbox <- v7, notified <- v8, saver <- v9, log <- v10, sets <- v11, restarts <- v12,
    late <- v13, missed <- v14, swallowed <- v15

Counting == INSTANCE PropDbProof WITH
    Kinds <- Pools, Marks <- {mark1}, Header <- 40, Chunk <- 8, Counted <- TRUE, MaxRefs <- 2,
    set <- v1, pool <- v2, mem <- v3, counts <- v4, held <- v5, asked <- v6,
    Props <- {prop1, prop2, propSeed}, Defaults <- DefaultProps, Numbers <- {0}, Elements <- {str1, str2},
    Literal <- strLit, Writers <- {writer1}, Seed <- propSeed, Counter <- prop1, InboxLen <- 1, MaxSets <- 2,
    MaxRestarts <- 1,
    db <- v1, strings <- v2, transactions <- v3, updated <- v4, pc <- v5, job <- v6,
    inbox <- v7, notified <- v8, saver <- v9, log <- v10, sets <- v11, restarts <- v12,
    late <- v13, missed <- v14, swallowed <- v15

\* A calendar of two hours of two minutes of two seconds: entries at one minute of every
\* hour, at one minute a day for a minute, and once.
Every == [rng_start |-> 63, rng_end |-> 0, step |-> 0]

At(minute, hour) == [minute |-> minute, hour |-> hour, day_of_month |-> Every, month |-> Every,
                     day_of_week |-> Every]

One == [rng_start |-> 1, rng_end |-> 0, step |-> 0]
Midnight == [rng_start |-> 0, rng_end |-> 0, step |-> 0]

CronDefs ==
  {[event |-> "tock", event_minutes |-> 0, persist |-> TRUE, one_shot |-> FALSE, spec |-> At(One, Every)],
   [event |-> "lamp", event_minutes |-> 1, persist |-> FALSE, one_shot |-> FALSE, spec |-> At(One, Midnight)],
   [event |-> "once", event_minutes |-> 0, persist |-> TRUE, one_shot |-> TRUE, spec |-> At(One, Every)]}

Scheduler == INSTANCE Cron WITH
    LongBits <- 32, MinutesPerHour <- 2, HoursPerDay <- 2, Defs <- CronDefs, Clients <- {client1},
    Period <- 2, LongSleep <- 20, MaxTime <- 10, Shifts <- {3, 7, -1, -6}, MaxShifts <- 1,
    MaxEntries <- 3,
    rtc <- v1, cron <- v2, lock <- v3, list <- v4, client <- v5, saved <- v6,
    lost <- v7, sent <- v8

\* Two clients that add, remove, save and load the two that repeat, while minutes pass.
Saving == INSTANCE Cron WITH
    LongBits <- 32, MinutesPerHour <- 2, HoursPerDay <- 2, Clients <- {client1, client2},
    Defs <- {[d EXCEPT !.persist = TRUE] : d \in {c \in CronDefs : ~c.one_shot}},
    Period <- 1, LongSleep <- 10, MaxTime <- 2, Shifts <- {}, MaxShifts <- 0,
    MaxEntries <- 2,
    rtc <- v1, cron <- v2, lock <- v3, list <- v4, client <- v5, saved <- v6,
    lost <- v7, sent <- v8

\* Sequences of two events and of one, asked to play twice or, as the largest count means,
\* for ever.
Events == INSTANCE Sequencer WITH
    Seqs <- {seq1, seq2}, Delays <- seq1 :> <<1, 2>> @@ seq2 :> <<1>>, Word <- 5,
    RepeatMod <- 4, Repeats <- {2, 3}, Shortest <- 1, First <- 2,
    clock <- v1, active <- v2, idle <- v3, next <- v4, seqs <- v5, task <- v6, client <- v7,
    asked <- v8, played <- v9, late <- v10

Leds == INSTANCE Blinker WITH
    Blinkers <- {blink1, blink2}, Patterns <- {<<2, 1>>, <<1, 1, 1>>}, Word <- 11,
    RepeatMod <- 4, Repeats <- {0, 2}, Period <- 2,
    btime <- v1, head <- v2, next <- v3, blink <- v4, led <- v5, walk <- v6, age <- v7,
    plays <- v8, cut <- v9

Shell == INSTANCE ConsoleHistory WITH
    Commands <- {<<1, 2>>, <<2, 1, 1>>, <<2, 2>>, <<1>>, <<1, 1, 1, 1, 1, 1, 1, 1>>}, BufLen <- 8,
    fifo <- v1, iter <- v2, last <- v3, walked <- v4

\* A line of four characters; ShellLine with its theorems.
Line == INSTANCE ShellLineProof WITH
    Chars <- {1, 9}, Blank <- 9, History <- {<<1, 9, 1>>, <<1, 1, 1, 1, 1, 1>>}, BufSize <- 5,
    MaxDelayed <- 2,
    line <- v1, shell <- v2, prompt <- v3, smeared <- v4

\* A queue that overwrites its oldest element; IsrQueue with its theorems.
Lossy == INSTANCE IsrQueueProof WITH
    N <- 4, Values <- {mark1, mark2}, Zero <- Nil, MaxLen <- 5, Overwrite <- TRUE, Mode <- "serial",
    head <- v1, tail <- v2, buf <- v3, ppc <- v4, p_head <- v5, p_tail <- v6,
    p_copy <- v7, p_todo <- v8, cpc <- v9, c_head <- v10, c_tail <- v11,
    c_chunk <- v12, c_want <- v13, c_data <- v14

\* An error log whose sectors have a remainder, and one in a single sector.
Ring == INSTANCE ErrorLogProof WITH
    NumSectors <- 3, PerSector <- 2, Remainder <- 1, MaxWrites <- 11, MaxFailures <- 1,
    flash <- v1, latest <- v2, head <- v3, tail <- v4, read <- v5, start <- v6,
    mode <- v7, erasing <- v8, total <- v9, wiped <- v10, failed <- v11, half <- v12,
    got <- v13

Single == INSTANCE ErrorLogProof WITH
    NumSectors <- 1, PerSector <- 3, Remainder <- 0, MaxWrites <- 8, MaxFailures <- 1,
    flash <- v1, latest <- v2, head <- v3, tail <- v4, read <- v5, start <- v6,
    mode <- v7, erasing <- v8, total <- v9, wiped <- v10, failed <- v11, half <- v12,
    got <- v13

\* A property log with blocks that fill a sector exactly, and one with torn blocks; LogDb
\* with its theorems.
Blocks == INSTANCE LogDbProof WITH
    NumSectors <- 3, SectorSize <- 4, Sizes <- {2, 3, 4}, MaxWrites <- 7, Torn <- FALSE,
    flash <- v1, latest <- v2, head <- v3, tail <- v4, tailFilled <- v5,
    generation <- v6, read <- v7, start <- v8, mode <- v9, size <- v10, erasing <- v11,
    total <- v12, safe <- v13, got <- v14

Tearing == INSTANCE LogDbProof WITH
    NumSectors <- 3, SectorSize <- 4, Sizes <- {3}, MaxWrites <- 6, Torn <- TRUE,
    flash <- v1, latest <- v2, head <- v3, tail <- v4, tailFilled <- v5,
    generation <- v6, read <- v7, start <- v8, mode <- v9, size <- v10, erasing <- v11,
    total <- v12, safe <- v13, got <- v14

----------------------------------------------------------------------------
(* The chosen service.                                                     *)
Runs(s) == which = s

\* What a module with n variables does not use.
after4 == <<v5, v6, v7, v8, v9, v10, v11, v12, v13, v14, v15>>
after6 == <<v7, v8, v9, v10, v11, v12, v13, v14, v15>>
after8 == <<v9, v10, v11, v12, v13, v14, v15>>
after9 == <<v10, v11, v12, v13, v14, v15>>
after10 == <<v11, v12, v13, v14, v15>>
after13 == <<v14, v15>>
after14 == <<v15>>

Unused14 == v15 = Nil
Unused13 == v14 = Nil /\ Unused14
Unused10 == v11 = Nil /\ v12 = Nil /\ v13 = Nil /\ Unused13
Unused9 == v10 = Nil /\ Unused10
Unused8 == v9 = Nil /\ Unused9
Unused6 == v7 = Nil /\ v8 = Nil /\ Unused8
Unused4 == v5 = Nil /\ v6 = Nil /\ Unused6

Init ==
    /\ which \in Services
    /\ \/ Runs("pool") /\ Properties!PoolInit /\ Unused6
       \/ Runs("counted") /\ Counting!PoolInit /\ Unused6
       \/ Runs("hub") /\ Hub!Init
       \/ Runs("query") /\ Asking!Init
       \/ Runs("props") /\ Properties!Init
       \/ Runs("cron") /\ Scheduler!Init /\ Unused8
       \/ Runs("saving") /\ Saving!Init /\ Unused8
       \/ Runs("sequence") /\ Events!Init /\ Unused10
       \/ Runs("blink") /\ Leds!Init /\ Unused9
       \/ Runs("history") /\ Shell!Init /\ Unused4
       \/ Runs("line") /\ Line!Init /\ Unused4
       \/ Runs("lossy") /\ Lossy!Init /\ Unused14
       \/ Runs("ring") /\ Ring!Init /\ Unused13
       \/ Runs("single") /\ Single!Init /\ Unused13
       \/ Runs("blocks") /\ Blocks!Init /\ Unused14
       \/ Runs("torn") /\ Tearing!Init /\ Unused14

PlainStep == Runs("pool") /\ Properties!PoolNext /\ UNCHANGED <<which, after6>>
CountingStep == Runs("counted") /\ Counting!PoolNext /\ UNCHANGED <<which, after6>>
HubStep == Runs("hub") /\ Hub!Next /\ UNCHANGED <<which>>
AskingStep == Runs("query") /\ Asking!Next /\ UNCHANGED <<which>>
PropertiesStep == Runs("props") /\ Properties!Next /\ UNCHANGED <<which>>
SchedulerStep == Runs("cron") /\ Scheduler!Next /\ UNCHANGED <<which, after8>>
SavingStep == Runs("saving") /\ Saving!Next /\ UNCHANGED <<which, after8>>
EventsStep == Runs("sequence") /\ Events!Next /\ UNCHANGED <<which, after10>>
LedsStep == Runs("blink") /\ Leds!Next /\ UNCHANGED <<which, after9>>
ShellStep == Runs("history") /\ Shell!Next /\ UNCHANGED <<which, after4>>
LineStep == Runs("line") /\ Line!Next /\ UNCHANGED <<which, after4>>
LossyStep == Runs("lossy") /\ Lossy!Next /\ UNCHANGED <<which, after14>>
RingStep == Runs("ring") /\ Ring!Next /\ UNCHANGED <<which, after13>>
SingleStep == Runs("single") /\ Single!Next /\ UNCHANGED <<which, after13>>
BlocksStep == Runs("blocks") /\ Blocks!Next /\ UNCHANGED <<which, after14>>
TearingStep == Runs("torn") /\ Tearing!Next /\ UNCHANGED <<which, after14>>

Next ==
    \/ PlainStep
    \/ CountingStep
    \/ HubStep
    \/ AskingStep
    \/ PropertiesStep
    \/ SchedulerStep
    \/ SavingStep
    \/ EventsStep
    \/ LedsStep
    \/ ShellStep
    \/ LineStep
    \/ LossyStep
    \/ RingStep
    \/ SingleStep
    \/ BlocksStep
    \/ TearingStep

\* The hub task and the task of the scheduler go on while they can.
Fairness ==
    WF_vars(\/ Runs("hub") /\ Hub!HubTask /\ UNCHANGED which
            \/ Runs("cron") /\ Scheduler!CronTask /\ UNCHANGED <<which, after8>>)

Spec == Init /\ [][Next]_vars /\ Fairness

\* What the modules assume of their constants.
ASSUME ServicesAssumption ==
    /\ Properties!SizeAssumption /\ Counting!SizeAssumption
    /\ Hub!LengthAssumption /\ Asking!LengthAssumption
    /\ Hub!TargetAssumption /\ Asking!TargetAssumption
    /\ Properties!DefaultAssumption /\ Properties!PoolAssumption /\ Properties!TaskAssumption
    /\ Scheduler!CronAssumption /\ Saving!CronAssumption
    /\ Events!SequencerAssumption /\ Leds!BlinkerAssumption
    /\ Shell!HistoryAssumption /\ Line!ShellAssumption
    /\ Nil \notin {mark1, mark2}
    /\ Ring!GeometryAssumption /\ Ring!BoundAssumption /\ Single!GeometryAssumption /\ Single!BoundAssumption
    /\ Blocks!GeometryAssumption /\ Blocks!BoundAssumption /\ Tearing!GeometryAssumption /\ Tearing!BoundAssumption

----------------------------------------------------------------------------
(* Properties: those of the modules, each for its own service.             *)
\* Every element of a memory pool is on its free list once or held by one client, lies in
\* the pool's memory, keeps what its client wrote, and the pool knows when it is idle; as
\* long as nobody takes counted elements.
PoolsAreSound ==
    /\ Runs("pool") =>
         /\ Properties!EachElementOnce /\ Properties!IdleIsUnheld
         /\ Properties!ContentIsKept /\ Properties!StaysInBuffer /\ Properties!PoolTypeOK
    /\ Runs("counted") => Counting!StaysInBuffer /\ Counting!PoolTypeOK

\* An allocation takes an element of the smallest size that fits, counted or not.
AllocIsTightest ==
    [][/\ Runs("pool") => Properties!TakesTightest
       /\ Runs("counted") => Counting!TakesTightest]_vars

\* "The returned pointer has a ref count of 1" (mempool.c:589).
CountsStartAtOne == Runs("counted") => Counting!CountStartsAtOne

\* The references of a payload are those who hold its message, while others subscribe, time
\* out and go; and the target of a query is in the list until the query unlinks it and no
\* longer, whatever the hub and the other subscribers do between the steps of the query.
HubIsSound ==
    /\ Runs("hub") => Hub!TypeOK /\ Hub!RefsAreHolders
    /\ Runs("query") => Asking!TypeOK /\ Asking!QueryIsListed

\* A message reaches every subscriber that stays from before it is relayed to after it,
\* unless the target that the hub is at is taken out or freed meanwhile (umsg.c:408).
HubReachesAll ==
    /\ Runs("hub") => Hub!EverySubscriberReached
    /\ Runs("query") => Asking!EverySubscriberReached

\* The hub or the scheduler is at a message or at a minute's work.
Working ==
    \/ Runs("hub") /\ v6 \notin {"idle", "wild"}
    \/ Runs("cron") /\ v2.pc = "pending"

\* The hub comes back for its next message, whoever is slow or full; the scheduler has done
\* a minute's work and sleeps again, whatever clients hold its lock in between, except
\* when it waits for itself (do_pending_events, cron_events.c:238).
TasksReturn == Working ~> ~Working

\* A string property owns its pool element alone, and a change of a persistent property is
\* on its way to the log until it is there.
PropsAreSound ==
    Runs("props") =>
        Properties!TypeOK /\ Properties!StringsAreOwned /\ Properties!UnsavedIsPending

\* The save task waits "for notification that PROP_UPDATE event triggered"
\* (tasks_core.c:279), and none of them is taken for something else.
UpdatesAreSaved == Runs("props") => Properties!UpdatesAreSaved

\* The scheduler misses no minute of a schedule, holds its lock only while it works, and
\* saves the entries that are to be kept.
ScheduleIsKept ==
    /\ Runs("cron") =>
          Scheduler!NoMinuteIsMissed /\ Scheduler!StuckOnOneShot /\ Scheduler!SavedAreKept
    /\ Runs("saving") => Saving!NoMinuteIsMissed /\ Saving!StuckOnOneShot /\ Saving!SavedAreKept

\* The sequencer sends its events when they are due and as often as asked, while others
\* start and stop sequences.
SequencesAreSound ==
    Runs("sequence") => Events!OnOneList /\ Events!EventsAreOnTime /\ Events!PlaysAsAsked

\* The LEDs show their patterns, while blinkers come and go.
LedsAreSound == Runs("blink") => Leds!LedsShowPatterns /\ Leds!DoneIsOff

\* No event is sent twice for a minute, a start is sent for a minute of its schedule, and
\* an end follows its start by the minutes asked for.
PairsAreInTime ==
    [][/\ Runs("cron") => Scheduler!PairInTime
       /\ Runs("saving") => Saving!PairInTime]_vars

\* The history holds whole commands in order and the arrows walk them one by one.
HistoryIsSound == Runs("history") => Shell!KeepsWholeCommands /\ Shell!WalksOneByOne

\* A command is handed over as it was edited, the prompt is missing only for a cause, and the
\* cells that a kill clears behind the buffer are no more than a line's.
LineIsSound ==
    Runs("line") => Line!EntersWhatIsEdited /\ Line!PromptHeldForCause /\ Line!OverrunIsBounded

\* Each key does to the line what a text editor's key does (ShellLine implements Editor);
\* the overwriting queue is a queue that gives up its oldest element (IsrQueue, Fifo).
ImplementsAbstract ==
    /\ Runs("line") => Line!Abstract!Init
    /\ Runs("lossy") => Lossy!Abs!Init
    /\ [][/\ Runs("line") => [Line!Abstract!Next]_(Line!Abstract!vars)
          /\ Runs("lossy") => [Lossy!Abs!Next]_(Lossy!Abs!vars)]_vars

\* Offsets stay in the flash, and head and tail are where the code can put them.
LogsTyped ==
    /\ Runs("ring") => Ring!TypeOK
    /\ Runs("single") => Single!TypeOK
    /\ Runs("blocks") => Blocks!TypeOK
    /\ Runs("torn") => Tearing!TypeOK

\* After every mount the error log reads back all its entries, oldest first.
ErrorsReadInOrder ==
    /\ Runs("ring") => Ring!ReadsAllInOrder
    /\ Runs("single") => Single!ReadsAllInOrder

\* The slot at the head is erased, or one a failed write left half programmed.
NoEntryWrittenOver ==
    /\ Runs("ring") => Ring!NoEntryWrittenOver
    /\ Runs("single") => Single!NoEntryWrittenOver

\* Only the oldest entries are given up, a sector at a time.
KeepsNewest ==
    /\ Runs("ring") => Ring!KeepsNewest
    /\ Runs("single") => Single!KeepsNewest

\* After every mount the property log reads back all its blocks, oldest first.
BlocksReadInOrder == Runs("blocks") => Blocks!ReadsAllInOrder

\* The cells a block is about to be programmed into are erased.
WritesToErased == Runs("blocks") => Blocks!WritesToErased

\* A block whose write returned true is there until a newer one is, and is not passed over.
SafeIsKept == Runs("blocks") => Blocks!SafeIsKept

\* An iteration, in the middle of writes that move the tail or with torn blocks, delivers
\* each record after older ones.
ReadsInOrder ==
    [][/\ Runs("ring") /\ Ring!ReadNext => v13' > v13
       /\ Runs("single") /\ Single!ReadNext => v13' > v13
       /\ Runs("blocks") /\ Blocks!ReadNext => v14' > v14
       /\ Runs("torn") /\ Tearing!ReadNext => v14' > v14]_vars

\* The property log is a history of the blocks written, oldest given up first, to which
\* power failures do nothing (LogDb implements History).
ImplementsHistory ==
    /\ Runs("blocks") => Blocks!H!Init
    /\ [][Runs("blocks") => [Blocks!H!Next]_(Blocks!H!vars)]_vars
=============================================================================
