------------------------------- MODULE PropDb -------------------------------
(***************************************************************************)
(* The property database of src/src/prop_db.c with the task that saves it  *)
(* (log_db_task_cb of tasks_core.c, log_props.c) and what the message hub  *)
(* passes between the two.  Tasks set, remove and read properties; each    *)
(* call of prop_set is a transaction, and the end of the last one open     *)
(* sends an event when persistent properties have changed.  The save task  *)
(* is woken by it, waits, and writes the persistent properties to the log, *)
(* from which they are restored after a restart.                           *)
(*                                                                         *)
(* The hash table is the map KeyMap promises; the log is its newest block. *)
(* One step is what a task does between two accesses to shared state.      *)
(***************************************************************************)
EXTENDS Integers, Sequences, FiniteSets

CONSTANTS Props,       \* properties
          Defaults,    \* prop_db_set_defaults: the entries of some of them
          Numbers,     \* numbers that are set
          Elements,    \* pool elements for strings
          Literal,     \* a string that is not in a pool
          Writers,     \* tasks that set properties
          Seed,        \* P_SYS_PRNG_LOCAL_VALUE, set by the save task
          Counter,     \* P_SYS_STORAGE_INFO_COUNT, counted up by it where it exists
          InboxLen,    \* length of the hub's queue
          MaxSets,     \* bound: calls that change the database
          MaxRestarts, \* bound: restarts
          Nil

DefaultAssumption ==
  /\ DOMAIN Defaults \subseteq Props /\ Seed \in Props \ DOMAIN Defaults
  /\ Defaults = [p \in DOMAIN Defaults |->
                   [kind |-> Defaults[p].kind, value |-> Defaults[p].value, persist |-> Defaults[p].persist,
                    readonly |-> Defaults[p].readonly, protect |-> Defaults[p].protect]]
  /\ \A p \in DOMAIN Defaults :
       {Defaults[p].persist, Defaults[p].readonly, Defaults[p].protect} \subseteq BOOLEAN

\* Only the strings that are set are in the pool, and only strings are.
PoolAssumption ==
  /\ ({Literal, Nil} \union Numbers) \intersect Elements = {}
  /\ \A p \in DOMAIN Defaults : Defaults[p].value \notin Elements

TaskAssumption == IsFiniteSet(Writers) /\ InboxLen \in Nat

Saver == "saver"
Tasks == Writers \cup {Saver}

VARIABLES db,            \* property -> entry, for those that exist
          strings,       \* pool elements in use
          transactions,  \* open transactions
          updated,       \* persist_updated
          pc, job,       \* each task: where it is in prop_set, and the call
          inbox,         \* the hub's queue: "prop" and "update" events
          notified,      \* the notification of the save task
          saver,         \* the save task: where it is
          log,           \* the newest block of the log
          sets, restarts,\* bounds
          late,          \* history: the flag was set after the last event
          missed,        \* history: that event was lost or overtaken by a change, or its save failed
          swallowed      \* history: its notification was taken for another one

store == <<db, strings, updated>>
wires == <<inbox, notified>>
past  == <<sets, restarts>>
hist  == <<late, missed, swallowed>>
vars  == <<store, transactions, pc, job, wires, saver, log, past, hist>>

Entry(kind, value, persist) ==
  [kind |-> kind, value |-> value, persist |-> persist, readonly |-> FALSE, protect |-> FALSE]
Number(n) == Entry("uint", n, FALSE)
String(x) == Entry("string", x, FALSE)
Deleted   == Entry("none", Nil, FALSE)   \* prop_set without a value
Idle      == [prop |-> Nil, entry |-> Deleted]

\* mp_free does nothing for a string that is not from a pool.
FreeString(used, e) == IF e.kind = "string" THEN used \ {e.value} ELSE used

\* prop_db_serialize: what is persistent and not read-only.
Persisted(d) == [p \in {q \in DOMAIN d : d[q].persist /\ ~d[q].readonly}
                   |-> [kind |-> d[p].kind, value |-> d[p].value]]

\* prop_item_replace: what is stored for `new` where `old` was.
Merge(old, new) == [new EXCEPT !.persist = old.persist, !.readonly = old.readonly,
                               !.protect = old.protect \/ @]

\* The effect of dh_insert, on the entries and on the strings in use.
Inserted(d, p, e)   == IF p \notin DOMAIN d THEN [q \in DOMAIN d \union {p} |-> IF q = p THEN e ELSE d[q]]
                       ELSE IF d[p].readonly THEN d
                       ELSE [d EXCEPT ![p] = Merge(d[p], e)]
StringsAfter(used, d, p) == IF p \in DOMAIN d THEN IF d[p].readonly THEN used ELSE FreeString(used, d[p])
                            ELSE used
\* persist_updated, set by the callback or for what the caller's entry became.
Touches(d, p, e) == IF p \notin DOMAIN d \/ d[p].readonly THEN e.persist ELSE d[p].persist

\* persist_updated is set if so, and otherwise as it was.
Mark(touched) == updated' = (updated \/ touched) /\ late' = (late \/ touched)

-----------------------------------------------------------------------------
(* prop_set, of a writer or of the save task. *)

\* prop_db_transact_begin; a string was put in a new pool element before.
SetBegin(t, p, e) ==
  /\ pc[t] = "idle"
  /\ pc' = [pc EXCEPT ![t] = "store"] /\ job' = [job EXCEPT ![t] = [prop |-> p, entry |-> e]]
  /\ strings' = IF e.value \in Elements THEN strings \cup {e.value} ELSE strings
  /\ transactions' = transactions + 1
  /\ UNCHANGED <<db, updated, wires, saver, log, hist>>

\* The insertion or removal, under the lock.
SetStore(t) ==
  /\ pc[t] = "store"
  /\ LET p == job[t].prop
         e == job[t].entry
     IN  IF e.kind # "none"
         THEN /\ db' = Inserted(db, p, e)
              /\ strings' = StringsAfter(strings, db, p)
              /\ Mark(Touches(db, p, e))
         ELSE /\ db' = [q \in DOMAIN db \ {p} |-> db[q]]
              /\ strings' = IF p \in DOMAIN db THEN FreeString(strings, db[p]) ELSE strings
              /\ Mark(p \in DOMAIN db /\ db[p].persist)
  /\ pc' = [pc EXCEPT ![t] = "report"]
  /\ UNCHANGED <<transactions, job, wires, saver, log, past, missed, swallowed>>

Post(m) == inbox' = IF Len(inbox) < InboxLen THEN Append(inbox, m) ELSE inbox

\* The message about this property, then the count (atomic_fetch_sub).
SetReport(t) == /\ pc[t] = "report"
                /\ Post("prop")
                /\ pc' = [pc EXCEPT ![t] = "end"]
                /\ UNCHANGED <<store, transactions, job, notified, saver, log, past, hist>>

SetEnd(t) == /\ pc[t] = "end"
             /\ transactions' = transactions - 1
             /\ pc' = [pc EXCEPT ![t] = "check"]
             /\ UNCHANGED <<store, job, wires, saver, log, past, hist>>

Return(t) == /\ pc' = [pc EXCEPT ![t] = "idle"] /\ job' = [job EXCEPT ![t] = Idle]
             /\ saver' = IF t # Saver THEN saver
                         ELSE IF job[t].prop = Seed THEN "attributes" ELSE "counted"

\* atomic_load and the flag: both must hold for the event to be sent.
SetCheck(t) ==
  /\ pc[t] = "check"
  /\ IF transactions = 0 /\ updated
     THEN pc' = [pc EXCEPT ![t] = "event"] /\ UNCHANGED <<job, saver>>
     ELSE Return(t)
  /\ UNCHANGED <<store, transactions, wires, log, past, hist>>

ClearFirst(t) ==   \* mutant: the flag is cleared without an event
  /\ pc[t] = "event"
  /\ updated' = FALSE /\ Return(t)
  /\ UNCHANGED <<db, strings, transactions, wires, log, past, hist>>

\* The event is sent without waiting, and lost when the queue is full.
SetEvent(t) == /\ pc[t] = "event"
               /\ Post("update")
               /\ missed' = (Len(inbox) = InboxLen) /\ late' = FALSE
               /\ pc' = [pc EXCEPT ![t] = "clear"]
               /\ UNCHANGED <<store, transactions, job, notified, saver, log, past, swallowed>>

\* persist_updated = false: what another task changed since the event counts as told.
SetClear(t) == /\ pc[t] = "clear"
               /\ updated' = FALSE /\ Return(t)
               /\ missed' = (missed \/ late)
               /\ UNCHANGED <<db, strings, transactions, wires, log, past, late, swallowed>>

Set(t) == SetStore(t) \/ SetReport(t) \/ SetEnd(t) \/ SetCheck(t) \/ SetEvent(t) \/ SetClear(t)

\* prop_set_uint, prop_set_str and prop_del of a writer.
Write(t) ==
  \E p \in Props \ {Seed} :
    /\ sets < MaxSets
    /\ \/ \E n \in Numbers : SetBegin(t, p, Number(n))
       \/ \E x \in (Elements \ strings) \cup {Literal} : SetBegin(t, p, String(x))
       \/ SetBegin(t, p, Deleted)
    /\ sets' = sets + 1 /\ UNCHANGED restarts

\* prop_set_attributes: sets persist_updated, outside any transaction.  The callers
\* leave readonly as it is.
SetAttributes(p, persist) ==
  /\ p \in DOMAIN db
  /\ Mark(persist /\ ~db[p].persist)
  /\ db' = [db EXCEPT ![p] = [@ EXCEPT !.persist = persist]]
  /\ UNCHANGED <<strings, transactions, pc, job, wires, log, missed, swallowed>>

ChangeAttributes(p) ==
  /\ sets < MaxSets /\ sets' = sets + 1
  /\ \E persist \in BOOLEAN : SetAttributes(p, persist)
  /\ UNCHANGED <<saver, restarts>>

-----------------------------------------------------------------------------
(* The hub and the save task. *)

\* The hub relays; prop_update_handler notifies the save task of an update.
Relay == /\ inbox # <<>>
         /\ inbox' = Tail(inbox)
         /\ notified' = (notified \/ Head(inbox) = "update")
         /\ UNCHANGED <<store, transactions, pc, job, saver, log, past, hist>>

\* log_db_task_cb: takes the notification, starts the timeout and sets a new seed.
SaverWake == /\ saver = "wait" /\ notified
             /\ notified' = FALSE /\ saver' = "seed"
             /\ UNCHANGED <<store, transactions, pc, job, inbox, log, past, hist>>

\* update_prng_seed: prop_set_uint, then the attributes.
SaverSeed == /\ saver = "seed" /\ pc[Saver] = "idle"
             /\ \E n \in Numbers : SetBegin(Saver, Seed, Number(n))
             /\ UNCHANGED past

SaverAttributes == /\ saver = "attributes" /\ saver' = "count"
                   /\ SetAttributes(Seed, TRUE) /\ UNCHANGED past

\* The write counter, if there is one: it may be removed before it has its attributes.
SaverCount == /\ saver = "count" /\ pc[Saver] = "idle"
              /\ IF Counter \notin DOMAIN db
                 THEN saver' = "timeout" /\ UNCHANGED <<store, transactions, pc, job, wires, log, hist>>
                 ELSE \E n \in Numbers : SetBegin(Saver, Counter, Number(n))
              /\ UNCHANGED past

SaverCounted == /\ saver = "counted" /\ saver' = "timeout"
                /\ IF Counter \in DOMAIN db THEN SetAttributes(Counter, TRUE)
                   ELSE UNCHANGED <<store, transactions, pc, job, wires, log, hist>>
                /\ UNCHANGED past

\* The timeout ran out: notifications so far are covered by the save to come.
SaverExpire == /\ saver = "timeout"
               /\ notified' = FALSE /\ saver' = "save"
               /\ UNCHANGED <<store, transactions, pc, job, inbox, log, past, hist>>

\* save_props_to_log: for want of memory or by a failing write nothing may reach the log,
\* and nobody asks.  That the encoder of the compression gets its memory is assumed
\* (log_compress.c:48): without it a block of anything may be written.
SaverSave == /\ saver = "save" /\ saver' = "return"
             /\ \/ log' = Persisted(db) /\ missed' = FALSE /\ swallowed' = FALSE
                \/ missed' = TRUE /\ UNCHANGED <<log, swallowed>>
             /\ UNCHANGED <<store, transactions, pc, job, wires, past, late>>

\* periodic_task_wrapper takes every notification for a change of the period.
SaverReturn == /\ saver = "return" /\ saver' = "wait"
               /\ notified' = FALSE
               /\ swallowed' = (swallowed \/ notified)
               /\ UNCHANGED <<store, transactions, pc, job, inbox, log, past, late, missed>>

-----------------------------------------------------------------------------
(* A restart: RAM is lost, the defaults are set and the log is restored      *)
(* (prop_db_deserialize) before the other tasks run and the hub is known.    *)

\* prop_decode: a persistent entry; a string gets a pool element of its own, and
\* here keeps its name.
Decoded(b) == Entry(b.kind, b.value, TRUE)

Restored == [p \in DOMAIN Defaults \cup DOMAIN log |->
               IF p \notin DOMAIN log THEN Defaults[p]
               ELSE IF p \notin DOMAIN Defaults THEN Decoded(log[p])
               ELSE IF Defaults[p].readonly THEN Defaults[p]
               ELSE Merge(Defaults[p], Decoded(log[p]))]

Restart == /\ restarts < MaxRestarts /\ restarts' = restarts + 1
           /\ db' = Restored
           /\ strings' = {log[p].value : p \in DOMAIN log} \cap Elements
           /\ updated' = \E p \in DOMAIN Restored : Restored[p].persist
           /\ transactions' = 0 /\ inbox' = <<>> /\ notified' = FALSE
           /\ pc' = [t \in Tasks |-> "idle"] /\ job' = [t \in Tasks |-> Idle]
           /\ saver' = "wait" /\ missed' = FALSE /\ swallowed' = FALSE /\ late' = FALSE
           /\ UNCHANGED <<log, sets>>

-----------------------------------------------------------------------------
Init == /\ db = Defaults /\ strings = {} /\ transactions = 0
        /\ updated = \E p \in DOMAIN Defaults : Defaults[p].persist
        /\ pc = [t \in Tasks |-> "idle"] /\ job = [t \in Tasks |-> Idle]
        /\ inbox = <<>> /\ notified = FALSE /\ saver = "wait" /\ log = << >>
        /\ sets = 0 /\ restarts = 0 /\ missed = FALSE /\ swallowed = FALSE /\ late = FALSE

SaverTask == \/ SaverWake \/ SaverSeed \/ SaverAttributes \/ SaverCount \/ SaverCounted
             \/ SaverExpire \/ SaverSave \/ SaverReturn

Next == \/ \E t \in Tasks : Set(t)
        \/ \E t \in Writers : Write(t)
        \/ \E p \in Props \ {Seed} : ChangeAttributes(p)
        \/ Relay \/ SaverTask \/ Restart

Spec == Init /\ [][Next]_vars
             /\ WF_vars(\E t \in Tasks : Set(t)) /\ WF_vars(Relay) /\ WF_vars(SaverTask)

-----------------------------------------------------------------------------
\* Entries and states are of the kinds the code has.
TypeOK == /\ DOMAIN db \subseteq Props /\ strings \subseteq Elements
          /\ transactions \in 0..Cardinality(Tasks)
          /\ Len(inbox) <= InboxLen

Owned == {p \in DOMAIN db : db[p].kind = "string" /\ db[p].value \in Elements}
Offered == {t \in Tasks : pc[t] = "store" /\ job[t].entry.value \in Elements}

\* The string of an entry is a pool element in use, of that entry alone: neither
\* freed under it nor shared, whoever replaced or removed what.
StringsAreOwned == \A p \in Owned : /\ db[p].value \in strings
                                    /\ \A q \in Owned \ {p} : db[q].value # db[p].value
                                    /\ \A t \in Offered : job[t].entry.value # db[p].value

\* A persistent property that differs from the log is on its way there: the flag,
\* an event, a notification or the save task says so, whatever the order in which
\* tasks set, end their transactions and are saved.  (Except from an event lost in a
\* full queue, a flag cleared over a later change or a save that failed, until the
\* next event.)
UpdatesAreSaved ==
  \/ \A p \in DOMAIN Persisted(db) : p \in DOMAIN log /\ log[p] = Persisted(db)[p]
  \/ updated \/ notified \/ saver # "wait" \/ missed
  \/ \E i \in DOMAIN inbox : inbox[i] = "update"

\* The same, unless the wrapper of the save task took the notification.
UnsavedIsPending == UpdatesAreSaved \/ swallowed
=============================================================================
