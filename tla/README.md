# A verification of cstone in TLA+

cstone is a C library for embedded systems: a property database with a persistent
log, message hub, event schedulers, a console over serial ports, and the containers
these stand on.  It runs under FreeRTOS on STM32 and hosted on POSIX.  This project
models the parts where a mistake is hard to provoke in a unit test - lock-free
queues, logs on flash that must survive power failures, a hash table whose removals
leave tombstones, services that several tasks use with few locks - and the pure
functions around them, checks them with TLC on small instances, and proves with
TLAPS what holds for every size.  Line numbers below are those of the repository; paths
in `PROJECT.json` are relative to its parent (`src/src/...`).

To repeat a run: `tlc -config IsrQueue_threads.cfg IsrQueue` (the module and the
configuration of every run are in `PROJECT.json`); to repeat the proofs: `tlapm` on
each module whose name ends in `Proof`.

## 1. Inventory

### How the parts fit together

```
 UART/USB ISR <--> IsrQueue <--> Console <--> shell, history, commands
                                                  |
   cron, sequencer, LED blinker --- messages ---> umsg hub <--- mempool payloads
        (event tasks)                             ^   |
                                                  |   v subscribers
   prop_db (transactions) --- P_EVENT update -----+   save task (tasks_core)
      |  on dhash                                        |
      +--- prop_serialize --- log_props ---> log_db <----+ (log_index)
                                               |
   report_error --> error_monitor_task --> error_log --> flash / RAM callbacks
```

Tasks call each other's components directly; the shared structures are protected by
a lock in some (cron, sequencer, prop_db), by atomics in one (isr_queue) and by
nothing but convention in the rest (both logs, the subscriber lists of the hub).

### Components

| component | state | operations | what is hard | what makes it correct |
|---|---|---|---|---|
| **isr_queue** | ring of slots, `head_ix`, `tail_ix` (C11 atomics), `overwrite` | push, push_one, pop, pop_one, peek, peek_one, discard, count, flush | ISR against task with no lock; a block copied in two pieces; the unused slot at a tail of 0; overwriting | no slot touched by both sides; FIFO order, nothing lost, repeated or refused while there is room; calls return |
| **dhash** | bucket array, `used_buckets` | insert (Robin Hood swaps, growth), lookup, remove (tombstones), iterate | probe counts, evictions and tombstones under long histories; growth that fails half-way | behaves as a map; a present key is always reached; no duplicates |
| **error_log** | flash sectors of fixed-size entries; RAM: head, latest, tail, read iterator | format, mount, write, read_init, read_next | power failure between erase and program; no stored head or tail; remainder of a sector; reader in another task | after any crash every entry is read once, oldest first; nothing is programmed over an entry; only the oldest go |
| **log_db** | flash blocks (header, CRC, generation bit); RAM: head, latest, tail, tail_filled, generation, read iterator | format, mount, write_block, read_next, read_last | the same, with blocks of varying size, exact fits, torn headers and torn data | the same, and the last block written is never lost |
| **umsg hub** | inbox queue, subscriber list, targets with filters, pending queries | send, subscribe, unsubscribe, process, query with timeout | unlocked lists, late answers, full inboxes, reference counts of payloads on every path | a subscriber that stays gets each matching message; every payload is freed once; the target of a query is out of the list when it is freed |
| **mempool** | pool sets: free lists, limits, reference counts of counted elements | alloc, alloc_with_ref, free, inc/dec ref, resize | the offset of the count; resizing a counted element; the limits | no element both free and in use; a counted element is freed when and only when its count reaches 0 |
| **prop_db** | hash table of properties with attributes, `transactions`, `persist_updated` | set, get, attributes, transaction begin/end, iterate | nested transactions by several tasks; message lost when the hub is full | every persistent change is followed by an update message |
| **prop_serialize, log_props, log_compress** | none | codecs of integers, strings and records; save and restore, compressed or not | digits at the edge of a byte, the four-byte identifier; want of memory, a write that fails | decoding gives back what was encoded; the log holds the old block or the new one |
| **prop_id** | name tables | parse, format, mask, match | masks against fields | a mask matches exactly the identifiers with its fields |
| **cron** | list of entries and pending events, minute bitmaps, binary semaphore | add (at, after, range), remove, update of the clock | the lock taken again by the handler path; removal in two critical sections; clock shifts back and forth; 32-bit shifts | an event fires in each matching minute once, ends after its duration; no self-deadlock |
| **sequence, led_blink** | active list, per-sequence position, repeats, next time | start, stop, resume, update | callbacks that change the list; suspend racing a start; 255 repeats; zero delays | events in order, the number of repeats asked for; a started sequence runs |
| **tasks_core** | task notifications, suspend/resume | the loops around the above | notification cleared before or after the database is read | a change is saved at last; no lost wakeup |
| **console** | two isr_queues, newline flags | send, recv, blocking output | translation at a full queue; flush while transmitting | characters in order; a newline is never halved |
| **shell, history** | line buffer, cursor; bip-buffer of past commands | editing, completion, history | wrap of the bip-buffer, eviction of the oldest command | history returns lines whole, newest first |
| **log_index** | hash table: block kind to newest block | build, update, read | a full table; stale offsets after the log wraps | a found offset is that of the newest block of the kind |
| rtc_soft | seconds, valid flag | get, set, calibrate, update | corrections around a new date | valid just when set; the date set plus the corrections since |
| algorithms | none | intmath, search, range strings, glob, CRC, getopt, lists, random, string ops | boundaries, widths, words read past their end | equal to a reference definition |
| storage back ends | RAM image or STM32 flash | erase, read, write callbacks | half-word programming | the flash model the logs assume |
| profiler, statistics | items, bins, running sums | start, stop, calibrate; sample, charts | a timer that wraps, nested calls, an empty chart | times and bins are of what was measured |
| console commands | - | date, property, log, error and others | steps that fail on their own | nothing protected changes; the clock and the log are what was told |
| reports, dumps | - | hex dumps, registers, bars | partial lines, unaligned starts | every byte, bit and part shown once, in its place |
| platform, templates | - | registers, hooks, m4 | hardware | not modelled |

Every hazard met while reading is in `PROJECT.json` under `hazards`, at its line,
with the property that would catch it or the reason there is none yet.

## 2. Plan

What exists, in the order in which it was written:

1. `Fifo`, `IsrQueue` - the interrupt-safe queue and its abstract queue.
2. `KeyMap`, `DHash`, `MCDHash` - the hash table and the map it implements; later `HashSize`.
3. `ErrorLog`; `History`, `LogDb` - the two logs.
4. `Umsg`, `MemPool`, `PropDb`, `CronMap` and `Cron`, `Sequencer`, `Blinker` - the services
   that several tasks use at once; `Editor`, `ShellLine`, `BipBuf`, `ConsoleHistory` - the
   shell; `MCServices` joins the instances of these and of the logs.
5. `Checksum`, `PropCode`, `PropIds`, `LogRecords`, `IntMath`, `Statistics`, `Chance`,
   `RangeStrings`, `StringOps`, `Glob`, `ShellText`, `CronText`, `EventPairs`, `Lists`,
   `Reports`, `ConsoleCommands` - pure functions and short sequences of calls; `MCAlgorithms`
   calls them.
6. `IsrQueueProof`, `DHashProof`, `ErrorLogProof`, `LogDbProof`, `UmsgProof`, `PropDbProof`,
   `ShellLineProof` - the proofs, one module beside each module they are about.  `MCServices`
   instantiates all but `DHashProof` instead of the bare modules, and `MCServicesProof`
   carries the results over to the composition that TLC checks.  `PropDbProof` is about two
   modules, the property database and `MemPool`, whose elements hold the database's strings:
   the two share no state in the models, and each theorem names the specification it is about.

What is left to prove is in section 6, under "Only model-checked".  Of the modules, only
`Glob`, `ShellText` and `StringOps`, and those that use them, have RECURSIVE operators,
which the prover cannot take.

## 3. What is modelled

Conventions.  One action per step that another actor can see: an atomic access, a
storage operation, a turn of a loop.  A call is a program counter (`ppc`, `pc`,
`mode`) and its locals.  Mutated definitions ("Mutant: ...") stand beside the ones
they alter; no specification uses them.  *Ghost* variables, marked "history", only
record what happened.

### IsrQueue (src/isr_queue.c) and Fifo

State: `head`, `tail`, `buf` are the structure; `ppc`/`p_*` and `cpc`/`c_*` the
program counters and locals of one producer and one consumer, as isr_queue.h asks
for.  Steps: every atomic load, store and compare-exchange is one, and so is each
`memcpy` (`BlkCopy`, `PopRead`, ...).  That a copy may be one step is itself a
property: `NoSlotRace` says that no copy overlaps one of the other side.  Loads of an
index that only the loading side writes are merged with the next load.

| code | definitions |
|---|---|
| `isr_queue_push_one` (50-87) | `PushOne`, `OneLoad`, `OneCopy`, `OneStore`, `OneCas` |
| `isr_queue_push` (98-143) | `Push`, `BlkLoad`, `BlkCopy`, `BlkStore`, on into `OneLoad` when overwriting |
| `isr_queue_pop_one`, `peek_one` | `PopOne`, `OneHead`, `PopOneRead`, `OneTailStore`, `PeekOneRead` |
| `isr_queue_pop`, `discard`, `count` | `Pop`, `Discard`, `CountTail`, `LoopHead`, `LoopTail`, `PopRead`, `ChunkStore` |
| `isr_queue_peek` and its use by console_stdio/uart | `Peek`, `PeekTail`, `PeekUse` |
| `isr_queue_flush` | `FlushTail`, `FlushHead` |

`Mode` says who preempts whom: two tasks or cores, a producer or consumer that is an
interrupt handler (its call runs to its end), or one task that is both.  `Fifo` is
the abstract queue: accept a prefix in order, refuse only when full, read the oldest,
remove what was read.  The refinement mapping takes the contents from tail to head,
counting an overwrite as done when its compare-exchange is still to come.

### DHash (src/util/dhash.c) and KeyMap

State: the bucket array with key, value, probe count and tombstone mark,
`used_buckets`, and the loop a call is in.  One turn of a probing loop is one step, so
that the invariants hold of a table half-way through an insertion or a growth; the
calls themselves are sequential, as in the code, which has no locking.

| code | definitions |
|---|---|
| `dh_insert` (927-960), `dh__grow` (843-918) | `BeginInsert`, `GrowFails`, `GrowBegins`, `GrowCopies` |
| `dh__insert_ex` (768-838) | `InsertFresh`, `InsertReplace`, `InsertRefused`, `InsertTombstone`, `InsertSwap`, `InsertProbe` |
| `dh__find_bucket`, `dh_lookup`, `dh_remove` | `BeginFind`, `FindFails`, `FindProbes`, `LookupFinds`, `RemoveFinds` |

Hash values are a constant function of the key.  `KeyMap` is a finite map with one
call at a time; the mapping counts the evicted item in hand and the buckets still to
copy as part of the map.  `HashSize` has what does not depend on the keys: the number of
buckets at creation, after growth and after `dh_reserve_capacity`, static and external
storage, the loops over all entries (`dh_foreach`, `dh_iter_next`, `dh_free`) and the
probe statistics.  Not modelled: the hash functions of keys.

### ErrorLog (src/error_log.c)

State: the flash, entry by entry; head, latest, tail and the read iterator as the
code keeps them, in offsets of half an entry so that a sector can have a remainder.
`errlog_write` is two steps, the erase in `errlog__prep_for_write` (`Prepare`) and the
programming (`Program`, `ProgramFails`); `errlog_format` one per sector
(`FormatBegin`, `FormatErase`, `FormatEnd`); `errlog_mount` one (`MountSingle`,
`MountPartial`, `MountEmpty`, `MountOnBound` with `LastEntry` and `FindTail`); the
iterator `ReadInit` and `ReadNext`, interleaved with the writer.  `Crash` may follow
any step.  An erase is atomic; an entry that was being programmed when power failed,
whole or garbled, counts as an entry (is_valid_entry only rejects erased ones).

### LogDb (src/log_db.c) and History

State: the flash in cells; a block is a header cell (number, generation, size) and
data cells; a cell programmed twice or in part is junk, and the CRCs are perfect.
`logdb_mount` is `Mount` (`FoundTail`, `FoundHead` for the search of the wrap point,
`HeadIn`, `LatestIn` for the scan of a sector, and the check that the rest is
erased); `logdb_write_block` is `Prepare` and `Program`/`ProgramFails`; `ReadNext`
is logdb_read_next with its skips (`Seek`, `SeekSector`); `ReadLast` is
logdb_read_last; format and `Crash` as above.  With `Torn`, a failing or interrupted
write leaves any prefix of the block.  `History` is a set of numbered records: added
behind all others, given up from the oldest on, untouched by power failures.

### The services of several tasks

One action is what a task does between two accesses to state that others share; where the
code holds a lock over a whole call, the call is one action.

**Umsg** (src/umsg.c).  Subscribers hang on their `next` pointers, as in list_ops.h; the
hub task is a program counter and the pointer it walks with: `HubReceive`, `HubVisit`,
`HubDeliver`, `HubTimeout` (which reports an error, perhaps to the hub's own inbox),
`HubNext`, `HubNextFreed`, `HubDone`.  Around it tasks `Send`, `Subscribe`, `Unsubscribe`,
`AddFilter`, `RemoveFilter`, `Receive` and `Discard`, and one asks: `QueryStart`,
`QuerySend`, `QueryWait` (answered or timed out), `QueryUnsubscribe`, `QueryFree`.  `refs`
is the count of each payload; "wild" is a walk that went on through freed memory.
`Linked` is what the `next` pointers lead to from some node, and `Subscribed` what they
lead to from the front; the ghost `steady` holds the targets that stayed subscribed since
the hub took its message, with the same filters.  `Holders` counts who has a payload: the
inbox, the queues, the tasks at work, the hub and the sender.

**MemPool** (src/util/mempool.c).  Pools with their layout in bytes (`Layout` with headers,
rounding and alignment), the free list threaded through the elements (`mem`), the set of
pools in order of size.  Calls: `Alloc` (with alignment), `AllocBestEffort`,
`AllocWithRef`, `IncRef`, `Free`, `Realloc`, `PoolEnable`, `ReleasePool`,
`ReleasePoolSet`.  Each is one action: the code makes its changes under one lock.

**PropDb** (src/prop_db.c, log_props.c, the save task of tasks_core.c in its loop of
rtos.c).  `prop_set` is `SetBegin`, `SetStore`, `SetReport`, `SetEnd`, `SetCheck`,
`SetEvent`, `SetClear`, of the writers and of the save task itself; attributes are set in
one.  The save task is `SaverWake` to `SaverReturn`, the last being the look at the
notification in `periodic_task_wrapper`.  `Relay` is the hub.  The hash table is the map that
`KeyMap` promises and the log its newest block, as `History` promises.  `Restart` loses RAM,
sets the defaults and restores the log.  Three ghosts say what can be lost: `late`, that the
flag was set after the last event; `missed`, that this event did not fit the inbox, or was
overtaken by a change, or its save failed; `swallowed`, that its notification was taken for
another.

**Cron** on **CronMap** (src/cron_events.c).  The task: `Wake` (with the difference between
the clock and what it expected), `Skipped`, `Begin` (takes the lock), `ForEntry`,
`NextMinute`, `EndPending`.  Clients: `Add`, `Find` and `Unlink`, `Count` and `Copy`
(cron__serialize gives the lock up in between), `Load` and `LoadNext`.  `Tick` and `SetClock` are
the clock.  A field is the set of its values (`field_spec_to_bitmap`, with the width of a
long); an hour has few minutes and a day few hours.

**Sequencer** (src/sequence_events.c, its task in tasks_core.c, the loop of rtos.c) and
**Blinker** (src/led_blink.c).  Lists are `next` links; the walk reads a link, updates a
node (`Visit`), reads the next (`ReadNext`) and moves what has ended (`Disable`,
`Retire`).  A client starts (`Start`, `StartResume`) and stops (`Stop`, `StopMove`), adds,
cancels and sets patterns at any of these points.  Time wraps at `Word`.

### The shell

**ShellLine** (line editing and the command cycle in src/console_shell.c) is a buffer with
cursor and end; an action is a key, the end of a line, or a task that prints later
(`resize_verbose_cb`).  `line.past` has the cells behind the buffer that a kill ever cleared:
`line_kill_after` and `line_kill_before` call memset with the count they moved (195, 217), and
`memset` here writes what is in the buffer and records what is not.  What lies there - line_buf
is from the heap (console.c:274) - is not modelled, nor what losing it does to the
program.  The ghosts `quiet` and `stranded` say why a prompt may be missing.  ShellLine
implements **Editor**: a text before and behind a cursor of which a key changes only what is
next to it.  shell_reset and shell_cancel_redirect have no caller in the repository; they are
actions that may happen when a command or task of an application calls them.  **BipBuf** (BipBuf.hpp) holds queue contents in two
regions; **ConsoleHistory** (console_history.cpp) keeps commands in it and moves an iterator
over them.  **ShellText** has escape sequences, arguments and the choice of a command.

### Functions

Each module below translates its source as operators and states, as an operator of its
inputs, what they should compute; `MCAlgorithms` calls one per step.

| module | code | compared with |
|---|---|---|
| `Checksum` | crc8.c, crc16.c, crc32.c | each other: bitwise, 16 and 256 entries; a changed bit is seen |
| `PropCode`, `LogRecords` | prop_serialize.c, log_props.c, log_compress.c, log_index.c | what was saved, after failures; the newest block |
| `PropIds` | prop_id.c, prop_id.h, prop_flags.c | the identifier of the name; a set of flags |
| `IntMath`, `Statistics`, `Chance` | intmath.c, unaligned_access.h, minmax.h, histogram.c, stats.c, profile.c, random.c | exact arithmetic within its rounding; what was stored; counted draws |
| `RangeStrings`, `StringOps`, `Glob`, `ShellText` | range_strings.c, string_ops.c, bsd_string.c, glob.c, getopt_r.c | sequences appended, split, matched and parsed by definition |
| `CronText`, `EventPairs` | the text of cron_events.c, sequence_compile | the schedule itself; the pairs played |
| `Reports`, `ConsoleCommands` | console.c, hex_dump.c, storage.c, dump_reg.c, progress.c, cmds_core.c, rtc_soft.c | the text sent; the bytes, bits and parts; the state a command was told to leave |
| `Lists`, `HashSize` | list_ops.h, dhash.c, search.c | sequences; the buckets asked for; the places found |

External code is modelled from its use: `localtime_r`, the allocator as what may fail,
the compressing library as a pair of inverse functions.

### The modules that join instances

`MCServices` has generic variables `v1`, `v2`, ...; each instance of a module substitutes
them for its own, the initial state chooses an instance (`which`), and every step is a step
of that instance.  So one run checks several small systems, one after the other as it were;
they do not interact.  Which of them may be chosen is the constant `Services`: the logs have a
run of their own, as its deadlock check and its bounds are not those of the others.  The
instances of a module that has proofs are instances of its proof module, so that the
theorems can be cited of them.  Each property is an implication from the choice.
`MCAlgorithms` has one variable, the call made and its inputs.

## 4. Runs

| run | expected | bounds | states |
|---|---|---|---|
| `isr_queue_threads` | pass | ring of 3, blocks to 4, 2 values | 189 k |
| `isr_queue_hang`, `isr_queue_lost` | violation | ring of 3 | - |
| `dhash` | pass | 4 keys, 2 values, sizes 2, 3, 5, counts to 4 | 758 k |
| `dhash_zero` | violation | 4 keys, one of them 0, size 4 | - |
| `logs` | pass | error log: 3 sectors of 2 entries and a remainder, 11 writes; 1 sector of 3, 8 writes; property log: 3 sectors of 4 cells, blocks of 2-4, 7 writes; blocks of 3, torn, 6 writes | 892 k |
| `logdb_unread`, `logdb_rollback` | violation | 3 sectors | - |
| `services` | pass | see below | 1.62 M |
| `mempool_counted` | violation | counted elements, 2 pools | - |
| `props_swallowed` | violation | as in `services` | - |
| `algorithms` | pass | inputs enumerated in `MCAlgorithms` | 625 k |

What they show:

* **Queue.**  `ImplementsFifo`: nothing is lost, repeated, reordered or refused while
  there is room, at every interleaving.  `CountIsKept` and `ReadIsOldest`: what a
  consumer counted or peeked is still there, oldest first, when it removes it.
  `PushReturns`, `PopReturns`: calls come back.  A ring of 3 with blocks of up to 4
  wraps inside a block, meets the tail-at-0 case, fills, empties and sends blocks
  longer than the ring; larger rings add no new case to the index arithmetic, which
  the proofs cover for every size anyway.  The mode that overwrites is an instance of
  `services` (ring of 4, one task on both sides).
* **Hash table.**  Keys that collide at one size and part at another; tombstones up
  to the probe bound; growth that succeeds twice or fails.  `ImplementsMap` is the
  whole promise; `Reachable` is the Robin Hood order that makes the early end of a
  search right; `NoDuplicates` and `UsedIsLive` hold in the middle of calls too.
* **Error log.**  11 writes go nearly twice round 6 slots, so that every sector is
  erased, partly filled and full in both laps, with a crash at each step; one failing
  write is enough to leave a programmed slot under the head, and a second only
  repeats it.  `ErrorsReadInOrder`, `NoEntryWrittenOver`, `KeepsNewest`.
* **Property log.**  Blocks of 2, 3 and 4 cells in sectors of 4 leave a remainder or
  none; 7 writes flip the generation twice.  `ImplementsHistory` and `SafeIsKept`
  are the promises; `BlocksReadInOrder` excludes the state of finding 4.  `ReadsInOrder` is
  of both logs and of the torn one.
* **Pools** (169 k, with counted elements).  Three pools, unaligned, one static; two clients that hold elements.
  `PoolsAreSound`: an element is free once or held by one, inside the buffer, with its
  content.  `AllocIsTightest`: the smallest that fits.
* **Hub** (122 k, and 17 k with a query).  A queued and a callback subscriber, an inbox of 1, one
  payload; changes of filters and subscriptions at every step of the walk.  `HubIsSound`:
  the count of a payload is the number of its holders, and the target of a query is listed
  while the query runs, not when it is freed.  `HubReachesAll`: whoever stays gets the
  message, whoever else is put in or taken out - but for the target the hub is at: taking
  that one out or freeing it ends the walk early (umsg.c:408), and then nothing is claimed.
  `TasksReturn`: the hub comes back.
* **Properties** (466 k).  A number, a string, the seed; a writer and the save task, which
  sets properties too; an inbox of 1; one restart.  `PropsAreSound`: strings are owned by one
  entry, and a change is on its way to the log.  Two calls and one restart suffice for every
  pair of a call with a step of the save task.
* **Scheduler** (98 k, and 308 k with two clients).  Days of two hours of two minutes of two
  seconds; three kinds of entry; the clock is set once, forward over or within an hour, or back.
  `ScheduleIsKept`: no minute that the task comes to is missed, and what is saved are the
  entries to be kept.  `PairsAreInTime`: no step sends an event for a minute that had it.
  `TasksReturn`.  10 seconds are a day and the start of the next.  Two clients, in an instance
  of their own with two persistent entries and three minutes, add, remove, save and load at
  every step of each other: what is saved is right, but for the overlaps section 5 lists.
* **Sequences** (253 k) **and LEDs** (79 k).  Two of each, clocks that wrap, counts that are
  the largest.  `SequencesAreSound`, `LedsAreSound`.
* **Shell** (34 k the line).  Lines of up to 4 characters, with a blank, in a buffer of 5; at most
  2 sizes asked for and not yet printed (`MaxDelayed`); a history buffer of 8 bytes with
  commands of 1 to 8.  `LineIsSound`: what is entered is what was edited, a kill overruns the
  buffer by one cell at most here, and the prompt is away only for one of the causes it
  names.  `HistoryIsSound`, and `ImplementsAbstract` for the refinement of `Editor` (and of
  `Fifo` by the overwriting queue).
* **Functions.**  Widths are parameters: 4 values to a digit, words of 2 bytes or 16 bits,
  steps of 10 for 1000 - so that the edges of a word, a digit and a carry are inside what can
  be enumerated.  Records are saved and restored with each allocation failing, that of the
  encoder too, which the code does not check.  `CodesAgree`, `NumbersAreClose`, `TextAgrees`, `SchedulesAgree`,
  `BuffersAgree`, each the conjunction of the statements in the modules.  A statement
  excludes the inputs for which the code does something else, listed below, in its own
  text.

Symmetry is not used: the runs that could profit check temporal properties.  Deadlock is
checked in the queue, hash table and log runs.  `Services*.cfg` and `Algorithms.cfg` turn it off:
a service may stop at its bounds (the scheduler also when it waits for itself, which
`ScheduleIsKept` is about), and a call of a function ends with its result.

### Fairness

`IsrQueue`: `FairSpec` asks for weak fairness of each
side's steps inside a call: an instruction stream that is not preempted goes on, and
an interrupt handler returns.  `DrainingSpec` adds strong fairness of a consumer that
looks for data (`PopOne`): the transmit interrupt of a UART fires whenever the
register is empty, and the tasks that read a console poll it.  Strong, because in
between the consumer may be in another call.  No call is assumed to start otherwise,
and the producer is never obliged to push.

`MCServices`: weak fairness of the steps of the hub task and of the task of the scheduler,
which FreeRTOS runs whenever they are ready and no task of higher priority is, and which wait
only with a timeout or, the scheduler, for a lock its clients hold for a bounded time.  Nothing is assumed of subscribers:
a full queue ends in a timeout, not in an answer.

## 5. Findings

1. `isr_queue_hang` - a block push onto a ring with the tail at 0 and no room goes
   round its loop without progress until the consumer moves the tail
   (isr_queue.c:120).  In an interrupt that preempted the consumer, or with stdio where
   one task is both, it does not end.  Between two tasks it does: `PushReturns` passes
   in `isr_queue_threads`, under `DrainingSpec`.
2. `isr_queue_lost` - isr_queue_pop_one stores a stale tail over what overwriting
   pushes did to it in between (isr_queue.c:93).  After one such push that is harmless;
   after two the store puts the tail back onto the head, and the full queue is empty.
3. `dhash_zero` - an integer key 0 matches any tombstone it meets, is written into it
   and stays deleted (dhash.c:795).
4. `logdb_unread` - after a block that filled its sector exactly, the iteration stops
   at the remainder of the tail sector (log_db.c:319).
5. `logdb_rollback` - a torn header at the start of a sector hides the valid blocks
   behind it from mount (log_db.c:119).
6. `mempool_counted` - the pointer of mp_alloc_with_ref lies four chunks, not four bytes,
   behind its count (mempool.c:622): the functions on counted elements do not find it.
7. `props_swallowed` - the loop of rtos.c takes every notification of its task for a change
   of its period (rtos.c:187): a property changed while the save task writes the log is not
   saved until another event.

Seen with TLC in other instances of the same modules, without a run of their own
(their hazards have the lines):

* `DHash` with `MaxProbe = ProbeBound = 6`: tombstones are not swept on insertion and
  removal alone, and at MAX_PROBE_COUNT an insertion fails although there is room
  (`PutSucceeds`).  The code's limit is far above what the run explores.
* `LogDb` with two sectors and an exact fit right after a mount: `tail_filled` stays
  false and the next block goes over an unerased sector (`WritesToErased`).
* `LogDb` with `Torn`: after mount `latest_offset` may be a block whose data is torn,
  and logdb_read_last fails although older whole blocks exist (`SafeIsKept`).
* `ErrorLog`: a mount on a sector boundary sets `latest_offset` to the first entry of
  the last full sector, not its last (error_log.c:207); nothing reads it.
* `ErrorLog`: a format cut short by a power failure leaves a log whose order is not
  that of writing; `half` excludes it from `ReadsAllInOrder`, and `NoEntryWrittenOver`
  holds all the same.
* `Umsg` with two queries: each takes whichever answer comes first, against "Response from
  the target" (umsg.c:339), for the filter accepts every identifier of the AUX space (355); so
  does a query that takes the late answer to an earlier one of the same task.  A query that
  times out frees its target under the hub, whose walk ends or goes wild.
* `Cron`: after the clock is set back events of a span are sent again, against the comment
  at cron_events.c:287 (`RepeatedAreSkipped`); a step back of less than a minute makes the
  time to sleep negative; removing a one-shot entry takes a lock the task holds (238); with
  a 32-bit long minutes above 31 are never set (123); a failed allocation while saving
  deletes what was saved.  A task that waits for itself (238) misses every later minute, and
  every client waits with it.  Saves of two clients can overlap: one that counted before an
  entry was added leaves an entry out, one that counted before an entry was removed keeps a
  blank definition, and one that copied before another save ended puts the older entries back
  (558-606); two clients that remove one entry free it twice (421).
* `Sequencer`: a sequence started between the update and the suspend is not seen until
  something else wakes the task, against the comment at tasks_core.c:212; a stop during the walk
  can put a sequence on the idle list twice; 255 repeats mean for ever; adding the last of a list
  again is accepted.
* `ShellLine`: a kill that keeps more than it removes clears as many cells as it kept, not as it
  removed, and in a long line it goes over the end of line_buf (console_shell.c:195, 217): up
  to `BufSize - 4` bytes of the heap, 76 for the usual 80, become 0.  Dropping it from the
  model would make the editor look right, so it is recorded; `OverrunIsBounded` says how far
  it can go.  The text in the buffer is not touched by it.  The task of `resize -v` is created
  before the prompt is suppressed for it (cmds_core.c:817): if it cannot be created, or runs
  first, no one lets the prompt in again (`stranded`).
* `Blinker`: cancelling the blinker the walk is at ends the walk for that period; a pattern
  set while its blinker is retired is removed with it.

Excluded in the statements about functions, where each is named:

* `IntMath`, `RangeStrings`, `HashSize`: fixed-point printing loses a carry (195 of 100 with one place is
  "1.10") and the sign of a small negative number (intmath.c:316); roots above 2^30, negative
  exponents and shifts past a word; min and max convert their second argument;
  range_copy_str on an empty range writes before it; searching an empty array; the search on a
  curve outside of it does not return.
* `Statistics`: an empty histogram divides by zero and the last label ignores the
  lowest bin; an elapsed time equal to the overhead counts whole; a name given to an existing
  identifier makes two items.
* `ShellText`, `ShellLine`: a report of the terminal leaves its parameters to the next key
  (console_shell.c:865); kills in part leave old characters behind the end; a capital in the
  input is not matched; a refused set of commands counts (322).
* `BipBuf`: purging the front can go past region A; a pop waits for a reservation in region B.
  `ConsoleHistory`: a command of one character at the start of a region is skipped upwards.
* `Glob`, `StringOps`, `ShellText`: a star goes over separators after backtracking, an inverted set
  matches the NUL; wrapping does not end at a line that starts with its only break; a
  permuted cluster takes a plain argument for an option's (getopt_r.c:330), and an argument
  missing at the end leads past NULL.
* `PropIds`, `PropCode`: an index from 128 on prints as another (prop_id.c:222); a
  general namespace added first hides a narrower one; flag names from 256 on alias; integers
  are not always four bytes (prop_serialize.c:110).
* `LogRecords`: a compressed block may be one byte larger than the plain one, against "Compressed
  data is larger than original, abort" (log_compress.c:57), and a block that just fits is
  refused; the index delivers blocks whose data is torn (log_index.c:98).  The encoder's own
  allocation is not checked (48): without it the block written has a kind and a size that were
  never set.  `SavedIsRestored` claims something for every other failing allocation, and nothing
  for that one (`Uncoded`); without the exception TLC refutes it.  `PropDb` assumes that this
  one does not fail.
* `HashSize`: outside storage for fewer than 11 buckets is taken for 11 (dhash.c:412); a
  reservation is one short where a rounded count is prime (1080).  `Chance`: weights above 2^31
  choose the first, the full range divides by zero.
* `Reports`: a dump starting beyond its line (hex_dump.c:172); `ConsoleCommands`: cmd_property reads
  attributes it has not set for a property that does not exist (cmds_core.c:691), parse_date
  checks no range; a log formatted and not saved loses the write counter (579).
* `CronText`, `EventPairs`: partial schedules are accepted and one value with a step is written
  unreadably; sums of delays wrap at sixteen bits (sequence_events.c:216).

## 6. Proofs

Each theorem holds for every value of the constants its module's assumptions allow, so for
runs of any length and structures of any size.  An invariant that a run checks is seldom
inductive; each section names what had to be added to it, which TLC checked first.

### The queue (`IsrQueueProof`)

For every ring size `N > 1`, block length and `Mode`: `TypeCorrect`, `NoSlotRaces`,
`CountsAreKept`, `ReadsAreOldest` are the invariants of the run; `Implementation` is
`ImplementsFifo`; `PopsTakeOne` is `PopTakesOneAtMost`, which finding 2 refutes for a ring
that overwrites while another side pops.  `OneMovesTail` is the premise of all: a ring
that overwrites has one task on both sides, as stdio has.

Each side acts on indices it loaded earlier, so the argument is
about what the other side can have done since: a producer's stale tail can only make
it see *fewer* free slots than there are (`ProducerInv`: the count with the current
tail is at most the count with the loaded one), a consumer's stale head can only make
it see *fewer* elements (`ConsumerInv`), and each side's own index is as it loaded it.
`IInv` joins these with `TypeOK` and, for a task that is both sides, that only one
call is under way and a flush is not cut in two (`SerialInv`).  `ReadsAreOldest` stands
on a second layer, `DataInv`, proved from `IInv`: what the consumer has in hand equals
the slots from the tail on, which no copy of the producer touches.  Lemmas on the index
arithmetic (`CountRange`, `CountIsDistance`, `ChunkFits`, `BlockFits`, `TailMoves`) do the
modular reasoning once.

For the refinement `FifoInv` adds the producer's half: what its copy left in the slots from
the head on is what the call still had to send.  The mapping reads the slots between two
indices as a sequence (`View`); lemmas say what more slots at either end do to it.  A step
that stores the head is then the acceptance of a prefix, one that stores the tail a read or
a removal, and every other step a stutter.  In a ring that overwrites, the head catches up
with the tail before the compare-exchange moves the tail on.  The mapping counts the oldest
element as gone from the store of the head on, which is then a replacement (`Replace` of
`Fifo`), and the compare-exchange is a stutter.  No consumer's call is under way meanwhile,
which is what `OneMovesTail` is for; with two sides `ConsumerInv` fails, and finding 2 is
the reason.

### The hash table (`DHashProof`)

`TypeCorrect`, `EntriesAreReached` (`Reachable`), `KeysAreStoredOnce` (`NoDuplicates`) and
`UsedBucketsAreLive` (`UsedIsLive`), for every set of keys, hash function, list of sizes
and probe limit, without a key 0 (`ZeroKey \notin Keys`: finding 3 is what happens with
one).  `GrowthAssumption` says of the sizes what dhash.c makes true of them: a grown table
has room for what the old one may hold.

`TableInv` says of the buckets that each live entry has all the buckets between the start
of its search and itself filled, with counts that do not end the search early, that keys
differ, and that `used_buckets` is the number of live entries; `LoopInv` says of the loop
under way that it is on the sequence of its key, that this key is in none of the buckets it
passed - which is why an insertion may put it down - and that there is room.  The step of
the argument is that counts in a bucket only grow while the table keeps its size: an
eviction puts a larger one, a tombstone keeps what was there.

`Implementation` (`ImplementsMap`) and `InsertionsSucceed` (`PutSucceeds`) have one more
premise, `[]WithinReach`: no entry comes as far as MAX_PROBE_COUNT from its start.  It is
the code's own limit, at which it drops the entry (section 5); the run that checks the
refinement stays within it.

### The property database (`PropDbProof`, `MCServicesProof`)

`TypeCorrect`, `StringsAreKept` (`StringsAreOwned`), `UnsavedChangesArePending`
(`UnsavedIsPending`), for any properties, writers and queue length, over any
number of restarts.  `Assumptions` are those of the module on the defaults, the strings and
the tasks.  `IInv` is `DataInv /\ SaveInv`.  `DataInv` says who has which string: a
pool string is in at most one property or in one call that is about to store it or to let
it go; and which tasks are in a transaction.  `SaveInv` says that what differs from the log is
marked by the flag, an event, a notification or a save task past its wait, and that while
some task is about to clear the flag, something other than the flag marks it.  The proof
attempt changed the model: whether a change came after the last event was first told by
comparing values, and an induction step failed on a property set to a value and back
between the event and the clearing of the flag; the ghost `late` records it now.

### The error log (`ErrorLogProof`)

For every number of sectors and of entries in one, with or without a remainder, and every
number of writes, failures and crashes: `TypeCorrect`; `EntriesAreKept`
(`NoEntryWrittenOver`); `ReadingGoesForward` (`ReadsInOrder`); and, with more than one entry
in a sector, `NewestAreKept` (`KeepsNewest`) and `AllAreRead` (`ReadsAllInOrder`).
`WriteInv` says that the sector being written is filled up to the place of the next entry,
and erased from there on unless programming failed there, and that the sector after it is
erased in time; that is enough for the first two, also after a format that was cut short.
`LogInv` adds the order, for logs without such a format (`Sound`): there is a newest entry, in sector `h`; sectors behind `h` hold entries that are the older the farther back
they are, by at least the slots between, and the head is where the next goes.  Since power
can fail in any state, most of the proof is that errlog_mount finds this place from the
flash alone.  `PerSector > 1` is needed: with one entry in a sector, a crash after the
erase leaves two blank sectors of three, and mount may take the other one for the head; TLC
shows it with `PerSector = 1`.  The code's sectors hold many entries.

Reading has two parts.  `Oldest` adds to `LogInv` that the tail is at the oldest sector that
has entries; then errlog_read_init starts at the oldest entry, and from any entry
errlog_read_next finds the next newer one, since what lies between them is a remainder or
erased.  An iteration under way is another matter: the log goes on, and the sector it is in
may be erased.  That it never goes back needs less than the order of the whole log
(`ReadInv`): `Increasing`, entries grow within a sector and over its end, and `Advances`, where
the iteration is there is something newer than what it delivered last, nothing, or the
tail.  This holds with any `PerSector` and after a format that was cut short as well.

### The property log (`LogDbProof`)

For every number and size of sectors, sizes of blocks, and number of writes and crashes:
`TypeCorrect`, also with torn blocks; and under `RoomAssumption` and `~Torn`, `WriteErased`
(`WritesToErased`), `SafeKept` (`SafeIsKept`), `AllRead` (`BlocksReadInOrder`), `NewestFound`
(`MountFindsNewest`) and `Implementation` (`ImplementsHistory`).  `RoomAssumption` excludes
one sector, and two that a block can fill: there an exact fit right after a mount goes wrong
(section 5).  `~Torn` excludes a power failure in the middle of programming a block, where
`NewestFound` is refuted by finding 5 and `SafeIsKept` by the instance in section 5.

`LogInv` is about the flash (`FlashInv`), the RAM (`RamInv`) and what was acknowledged
(`KeptInv`).  The sectors hold whole blocks from their start on; there is a sector `h`, that of
the newest block, such that the sectors up to `h` are of its generation and those behind it
of the one before; and `Older`, which puts the sectors in the order in which they come
before the end of `h`, going round, is the order of the blocks.  As for the error log, power
may fail in any state and mount has to find `h`, the tail and the head from the flash, so
that most of the proof is that a sector where the generation changes, or an erased one, is the
only place it can take for the end.  Where the head is depends on the last block: behind it, or
at the next sector if that is erased (`AtEnd`, `AtNext`).  An exact fit is the hard case: the
head is at the end of its sector, where nothing fits.  For reading,
`Rank` counts the order `Older`, and the iteration goes up in rank.

For the refinement the abstract log holds the blocks that have a valid header.  Writing a
block adds the newest, erasing the next sector gives up the oldest, since that sector has
the lowest rank, and a crash or a mount is a stutter.

### The shell's line (`ShellLineProof`)

For every size of the buffer, any characters and any history: `CommandsAreEntered`
(`EntersWhatIsEdited`), `PromptIsHeldForCause` (`PromptHeldForCause`), `OverrunStaysBounded`
(`OverrunIsBounded`), `Implementation` (`ImplementsEditor`).  They are about the text in the
buffer and about how far behind it a kill writes, with `line.past` as part of the state; what
that does to the rest of the program is outside of them.  `IInv` says that the cursor is in the text, that no cell of the text is
a NUL and that what is behind it is one (`Clean`), unless a kill left characters there
(`smeared`, section 5).  For the refinement `Joins` describes each key in one form: the new
text is the first part of the old one, what was put in, and the last part of the old one.
`EditorStep` is the step of the editor as a relation of two lines; the lemmas `TakenBefore`,
`TakenBehind`, `CursorMoved`, `AllGone` and `Recalled` are its cases.

### The memory pools (`PropDbProof`, `MCServicesProof`)

For any kinds of pools, requests, header and chunk sizes: `PoolsAreInBuffers`
(`StaysInBuffer`), `AllocationIsTightest` (`AllocIsTightest`), and without counted elements
`ElementsAreKept` (`EachElementOnce`, `IdleIsUnheld`, `ContentIsKept`); in the composition,
`PoolsStaySound` (`PoolsAreSound`) and `AllocationsAreTightest`.  `SizeAssumption` is that each pool has the
room mp_create_pool asks for or MP_STATIC_PADDING adds, and that the buffers do not overlap.

* The layout is arithmetic: the first element, rounded up, is behind the header and the last
  one ends within the buffer (`LayoutFits`); the elements are `Slots`, multiples of the size
  apart, so that each has its number (`Multiples`, `SlotsLie`) and an address is in one pool
  only (`SlotsApart`).
* `PoolInv`: every pool is where it was made, and the list is in order of size.  It is enough
  for the tightest fit, as the first pool that fits has the smallest elements (`Placed`,
  `KeptInOrder` and `FirstIsTightest`), and it holds with counted elements too.
* `ElementInv`: what clients hold is not free, the free lists have no element twice, the
  contents are those written, and in the pools on the list every element is free or held
  and `spare` is the length of the free list.  Counting held elements (`Cardinality`) is what
  makes the pool know when it is idle.  A step is then `HandKeeps`, `GiveKeeps` or one after
  the other, for mp_realloc; pools that were released stay in it, as their elements may
  still be held.  It needs that no element looks like a counted one to mp_free (`OwnerHas`);
  with counted elements it is false, and finding 6 is why.

### The message hub (`UmsgProof`, `MCServicesProof`)

For any number of targets, queries, payloads and queue lengths: `TypeCorrect`,
`CountsAreHolders` (`RefsAreHolders`), `SubscribersAreReached` (`EverySubscriberReached`).
`Assumptions` are that the inbox has room for a message, that targets are finitely many and
apart from queries, and that a query has a callback.

* The references are inductive with the types alone.  `Balanced` states a step as an
  equation between what it adds to the count and to the holders; each action then moves one
  message between two places that count, or changes the count and one place.  The lemmas
  `CountAppend`, `CountTail`, `QueuedAppend` and `QueuedTail` say what a queue operation
  does to the number of places, over all queues at once.
* That everyone is reached needs the list.  `LinkInv`: at most one link leads to a node and none to the
  first, and what is not subscribed links to nothing.  From it `PushLinks` and `RemoveLinks` say
  what the two operations of list_ops.h do to the part of the list behind any node:
  nothing for the others.  `WalkInv`: while the hub walks, each target that stayed has been
  reached or is linked from where the hub is.  It holds because a new subscriber is put in
  front, behind the hub, and because taking away the node the hub is at, the one case in
  which links lead it astray, ends the promise (`steady`).

`Linked` is the smallest set the links do not leave, not a recursion along them; that is
what makes it one for a proof.

### The compositions (`MCServicesProof`)

It proves the properties of the runs `logs` and `services` themselves: `PropsAreSound`,
`HubIsSound` (with `QueryIsListed` for the query of the instance), `HubReachesAll`,
`LineIsSound`, `PoolsAreSound`, `AllocIsTightest` and `ImplementsAbstract` of the services;
`LogsTyped`, `NoEntryWrittenOver`, `KeepsNewest`, `ErrorsReadInOrder`, `WritesToErased`,
`SafeIsKept`, `BlocksReadInOrder` and `ImplementsHistory` of the logs.  Each shows that the
instance satisfies the assumptions, that its steps keep the invariant, and that no other
instance's step is taken while it is the one chosen.

### Only model-checked

* Liveness and fairness (`PushReturns`, `PopReturns`, `TasksReturn`) and ENABLED, which the
  prover does not do.
* What a recursive function computes for every input, which needs an induction the provers
  cannot take: the functions of `MCAlgorithms`.
* The order of an iteration of the property log while it is written to (`ReadsInOrder`).  It is
  false in general: with two sectors of three cells, which `RoomAssumption` excludes, TLC
  finds an iteration that goes back.
* The lists and clocks of `Sequencer`, `Blinker` and `Cron`, and the history of the console
  (`SequencesAreSound`, `LedsAreSound`, `ScheduleIsKept`, `PairsAreInTime`, `HistoryIsSound`): in
  reach, not done.

## 7. Not modelled

* The memory order of the atomics: the accesses are sequentially consistent.  The
  code's acquire/release pairs order each copy against the index that publishes it,
  which is what the interleavings keep.
* Garbled erases: an erase is one step.  Power failing inside an erase is outside what
  the code claims to handle.  CRC collisions.
* A format of the error log while the error task writes: the code orders them by nothing.
* The hash functions of keys, the random generator behind the draws, printf-style
  formatting, sorting by qsort.
* The wording of help, prompts and reports, colours, and the redrawing of the edited line:
  text without an effect on any state.
* Registers, HAL and FreeRTOS calls, fault handlers, the UART and USB drivers, the stdio
  streams: what they do is the hardware's or the host's.  Tasks of FreeRTOS are modelled by the
  interleaving of their steps.
* iqueue.c.m4, a typed copy of isr_queue.c that nothing here instantiates; the C form of
  the bipartite buffer is checked only where it is that of BipBuf.hpp.
* How the instances of `MCServices` act on each other, except where one module has both sides:
  the save task with database, hub and log in `PropDb`, payload counts with the hub in
  `Umsg`, the sequencer with its task.

The components in `PROJECT.json` have what is left out of each.
