-------------------------------- MODULE Umsg --------------------------------
(***************************************************************************)
(* The message hub of src/src/umsg.c.  Tasks send messages to the inbox of *)
(* the hub; the hub task relays each to the subscribers whose filters      *)
(* match, by callback or by a queue with a timeout; other tasks subscribe, *)
(* unsubscribe, change filters and query while it walks the list, which it *)
(* does without a lock.  A payload is a counted element: whoever gets the  *)
(* message owns a reference.                                               *)
(*                                                                         *)
(* Subscribers are linked by their next pointers, as in list_ops.h.  One   *)
(* step of the hub is what it does between two accesses to the list or to  *)
(* a queue.                                                                *)
(***************************************************************************)
EXTENDS Integers, Sequences, FiniteSets

CONSTANTS Targets,     \* subscribers that live as long as the program
          Queries,     \* tasks that call umsg_hub_query, each with its target
          QueueLen,    \* length of the queue of a target; 0: it has a callback
          InboxLen,    \* length of the hub's queue
          Events,      \* identifiers that are sent
          Error,       \* P_ERROR_SYS_MESSAGE_TIMEOUT
          Aux,         \* the mask of the AUX_24 identifiers
          Matches,     \* pairs <<id, mask>> for which prop_match holds
          Masks,       \* masks that targets filter with
          Payloads,    \* counted elements
          Slots,       \* UMSG_FILTERS_IN_CHUNK
          MaxChunks,   \* bound: filter chunks the pools have for a target
          MaxSubs,     \* bound: calls of umsg_hub_subscribe, one query each
          Nil

Empty == "empty"       \* a filter slot of 0
None  == "none"        \* msg->payload with a payload_size of 0

All == Targets \cup Queries

\* A question has no payload; the answer to it names the one who asked.
Messages == {m \in [id : Events \cup {Error} \cup Queries, payload : Payloads \cup {None},
                    source : Queries \cup {Nil}, answer : Queries \cup {Nil}] :
               m.source # Nil => m.payload = None}

LengthAssumption == InboxLen \in Nat \ {0} /\ Slots \in Nat \ {0}

\* The target of a query has a callback, and nothing is taken for something else.
TargetAssumption ==
  /\ \A t \in All : QueueLen[t] \in Nat
  /\ \A q \in Queries : QueueLen[q] = 0
  /\ IsFiniteSet(Targets) /\ Targets \cap Queries = {}
  /\ Nil \notin All \cup Messages /\ None \notin Payloads

VARIABLES inbox, queue,        \* the queues of the hub and of the targets
          first, next,         \* hub->subscribers and the next of each target
          filters,             \* the slots of the filter chunks of each target
          pc, msg, cur,        \* the hub task: where it is, its message and target
          refs,                \* reference count of each payload
          owner,               \* payloads a sender holds
          taken,               \* the message each queued target is working on
          query,               \* the state of each query
          subs,                \* history: calls of umsg_hub_subscribe
          seen, steady         \* history: targets the present message went to,
                               \* and those subscribed ever since it was received

hubvars == <<pc, msg, cur, seen>>
lists   == <<first, next, filters, subs, steady>>
vars    == <<inbox, queue, lists, hubvars, refs, owner, taken, query>>

\* What the links lead to from x on: what is in every set with x that they do not leave.
Linked(links, x) ==
  LET Closed(S) == \A s \in S : links[s] \in S \cup {Nil}
  IN  {t \in All : \A S \in SUBSET All : x \in S \cup {Nil} /\ Closed(S) => t \in S}

Subscribed == Linked(next, first)

-----------------------------------------------------------------------------
(* Filters: slots in chunks, 0 for a free one; a new chunk goes in front. *)

SlotOf(t, mask) == {i \in DOMAIN filters[t] : filters[t][i] = mask}
Lowest(S) == CHOOSE i \in S : \A j \in S : i <= j
Fresh(mask) == [i \in 1..Slots |-> IF i = 1 THEN mask ELSE Empty]

\* umsg_tgt_add_filter: into a free slot, else a new chunk, if there is memory.
AddFilter(t, mask) ==
  /\ SlotOf(t, mask) = {}
  /\ IF SlotOf(t, Empty) # {}
     THEN filters' = [filters EXCEPT ![t][Lowest(SlotOf(t, Empty))] = mask]
     ELSE /\ Len(filters[t]) < Slots * MaxChunks
          /\ filters' = [filters EXCEPT ![t] = Fresh(mask) \o @]
  /\ steady' = steady \ {t}
  /\ UNCHANGED <<inbox, queue, first, next, subs, hubvars, refs, owner, taken, query>>

\* umsg_tgt_remove_filter
RemoveFilter(t, mask) ==
  /\ SlotOf(t, mask) # {}
  /\ filters' = [filters EXCEPT ![t][Lowest(SlotOf(t, mask))] = Empty]
  /\ steady' = steady \ {t}
  /\ UNCHANGED <<inbox, queue, first, next, subs, hubvars, refs, owner, taken, query>>

\* umsg__tgt_match_filter
MatchFilter(t, id) == \E i \in DOMAIN filters[t] : /\ filters[t][i] # Empty
                                                   /\ <<id, filters[t][i]>> \in Matches

-----------------------------------------------------------------------------
(* Subscription, in critical sections. *)

Push(t) == next' = [next EXCEPT ![t] = first] /\ first' = t

\* umsg_hub_subscribe
Subscribe(t) == /\ t \notin Subscribed /\ subs < MaxSubs
                /\ Push(t) /\ subs' = subs + 1
                /\ UNCHANGED <<inbox, queue, filters, steady, hubvars, refs, owner, taken, query>>

\* ll_slist_remove: what follows t is linked to what is before it, and t to nothing.
Remove(t) ==
  IF t = first THEN first' = next[t] /\ next' = [next EXCEPT ![t] = Nil]
  ELSE LET before == {s \in All : s \in Subscribed /\ next[s] = t}
       IN  /\ first' = first
           /\ next' = [s \in All |-> IF s \in before THEN next[t] ELSE IF s = t THEN Nil ELSE next[s]]

\* umsg_hub_unsubscribe: taking away the target the hub is at ends its walk.
Unsubscribe(t) == /\ t \in Subscribed
                  /\ Remove(t)
                  /\ steady' = IF cur = t THEN {} ELSE steady \ {t}
                  /\ UNCHANGED <<inbox, queue, filters, subs, hubvars, refs, owner, taken, query>>

-----------------------------------------------------------------------------
(* Payloads and senders. *)

Decrement(r, p) == IF p = None THEN r ELSE [r EXCEPT ![p] = @ - 1]   \* umsg_discard
Increment(r, p) == IF p = None THEN r ELSE [r EXCEPT ![p] = @ + 1]

\* A sender takes an element from the pool, with a count of one.
Make(p) == /\ refs[p] = 0 /\ p \notin owner
           /\ refs' = [refs EXCEPT ![p] = 1] /\ owner' = owner \cup {p}
           /\ UNCHANGED <<inbox, queue, lists, hubvars, taken, query>>

Message(id, payload) == [id |-> id, payload |-> payload, source |-> Nil, answer |-> Nil]

\* umsg_tgt_send without waiting; the count of dropped messages is left out.
Post(m) == inbox' = IF Len(inbox) < InboxLen THEN Append(inbox, m) ELSE inbox

\* umsg_hub_send of a payload: a sender that fails has to discard it itself.
Send(id, p) ==
  /\ p \in owner
  /\ Post(Message(id, p))
  /\ owner' = owner \ {p}
  /\ refs' = IF Len(inbox) < InboxLen THEN refs ELSE Decrement(refs, p)
  /\ UNCHANGED <<queue, lists, hubvars, taken, query>>

\* report_event
ReportEvent(id) == /\ Post(Message(id, None))
                   /\ UNCHANGED <<queue, lists, hubvars, refs, owner, taken, query>>

-----------------------------------------------------------------------------
(* umsg_hub_process_inbox, the hub task. *)

HubReceive == /\ pc = "idle" /\ inbox # <<>>
              /\ msg' = Head(inbox) /\ inbox' = Tail(inbox)
              /\ cur' = first /\ seen' = {} /\ steady' = Subscribed
              /\ pc' = "walk"
              /\ UNCHANGED <<queue, first, next, filters, subs, refs, owner, taken, query>>

\* umsg__query_cb: keeps the payload of the answer and clears the handler.
Answered(q) == [query EXCEPT ![q].handler = FALSE, ![q].got = msg.answer]

Callback(t) == query' = IF t \in {q \in Queries : query[q].handler} THEN Answered(t) ELSE query

Alive(t) == t \notin {q \in Queries : query[q].at = "off"}

HubVisit ==
  /\ pc = "walk" /\ cur # Nil /\ Alive(cur)
  /\ IF ~MatchFilter(cur, msg.id) THEN pc' = "next" /\ UNCHANGED <<refs, query, seen>>
     ELSE IF QueueLen[cur] = 0
     THEN pc' = "next" /\ Callback(cur) /\ seen' = seen \cup {cur} /\ UNCHANGED refs
     ELSE pc' = "send" /\ refs' = Increment(refs, msg.payload) /\ UNCHANGED <<query, seen>>
  /\ UNCHANGED <<inbox, queue, lists, msg, cur, owner, taken>>

HubDeliver ==
  /\ pc = "send" /\ Len(queue[cur]) < QueueLen[cur]
  /\ queue' = [queue EXCEPT ![cur] = Append(@, msg)]
  /\ seen' = seen \cup {cur} /\ pc' = "next"
  /\ UNCHANGED <<inbox, lists, msg, cur, refs, owner, taken, query>>

HubTimeoutKeeping ==   \* mutant: the reference of the subscriber is not given back
  /\ pc = "send" /\ Len(queue[cur]) = QueueLen[cur]
  /\ Post(Message(Error, None))
  /\ seen' = seen \cup {cur} /\ pc' = "next"
  /\ UNCHANGED <<refs, queue, lists, msg, cur, owner, taken, query>>

HubTimeoutWaiting ==   \* mutant: the error is sent with a wait for room in the inbox
  /\ pc = "send" /\ Len(queue[cur]) = QueueLen[cur] /\ Len(inbox) < InboxLen
  /\ Post(Message(Error, None))
  /\ refs' = Decrement(refs, msg.payload)
  /\ seen' = seen \cup {cur} /\ pc' = "next"
  /\ UNCHANGED <<queue, lists, msg, cur, owner, taken, query>>

\* The queue stayed full: report_error to the hub's own inbox, if it has room.
HubTimeout ==
  /\ pc = "send" /\ Len(queue[cur]) = QueueLen[cur]
  /\ Post(Message(Error, None))
  /\ refs' = Decrement(refs, msg.payload)
  /\ seen' = seen \cup {cur} /\ pc' = "next"
  /\ UNCHANGED <<queue, lists, msg, cur, owner, taken, query>>

HubNextTwice ==   \* mutant: the walk skips the target after one that matched
  /\ pc = "next" /\ Alive(cur)
  /\ cur' = IF next[cur] = Nil \/ cur \notin seen THEN next[cur] ELSE next[next[cur]]
  /\ pc' = "walk"
  /\ UNCHANGED <<inbox, queue, lists, msg, seen, refs, owner, taken, query>>

HubNext == /\ pc = "next" /\ Alive(cur)
           /\ cur' = next[cur] /\ pc' = "walk"
           /\ UNCHANGED <<inbox, queue, lists, msg, seen, refs, owner, taken, query>>

\* The target was freed under the hub: the free list is linked through its next,
\* so the walk ends, or goes on through free memory ("wild").
HubNextFreed == /\ pc \in {"walk", "next"} /\ cur # Nil /\ ~Alive(cur)
                /\ cur' = Nil /\ pc' \in {"walk", "wild"} /\ steady' = {}
                /\ UNCHANGED <<inbox, queue, first, next, filters, subs, msg, seen, refs, owner, taken, query>>

HubDone == /\ pc = "walk" /\ cur = Nil
           /\ refs' = Decrement(refs, msg.payload)
           /\ pc' = "idle" /\ msg' = Message(Error, None) /\ seen' = {} /\ steady' = {}
           /\ UNCHANGED <<inbox, queue, first, next, filters, subs, cur, owner, taken, query>>

HubTask == \/ HubReceive \/ HubVisit \/ HubDeliver \/ HubTimeout
           \/ HubNext \/ HubNextFreed \/ HubDone

-----------------------------------------------------------------------------
(* The tasks behind queued targets. *)

\* umsg_tgt_recv
Receive(t) == /\ taken[t] = Nil /\ queue[t] # <<>>
              /\ taken' = [taken EXCEPT ![t] = Head(queue[t])]
              /\ queue' = [queue EXCEPT ![t] = Tail(@)]
              /\ UNCHANGED <<inbox, lists, hubvars, refs, owner, query>>

\* A target that is asked sends its answer to the identifier in the source.
Reply(t) == /\ taken[t] # Nil /\ taken[t].source # Nil
            /\ Post([id |-> taken[t].source, payload |-> None, source |-> Nil, answer |-> taken[t].source])
            /\ taken' = [taken EXCEPT ![t] = Nil]
            /\ UNCHANGED <<queue, lists, hubvars, refs, owner, query>>

\* umsg_discard
Discard(t) == /\ taken[t] # Nil /\ taken[t].source = Nil
              /\ refs' = Decrement(refs, taken[t].payload)
              /\ taken' = [taken EXCEPT ![t] = Nil]
              /\ UNCHANGED <<inbox, queue, lists, hubvars, owner, query>>

-----------------------------------------------------------------------------
(* umsg_hub_query. *)

Off == [at |-> "off", handler |-> FALSE, got |-> Nil, result |-> Nil]

\* A target of its own that takes any AUX_24 identifier, subscribed; the query's
\* own name stands for the identifier prop_new_global_id makes.
QueryStart(q) ==
  /\ query[q].at = "off" /\ subs < MaxSubs
  /\ filters' = [filters EXCEPT ![q] = Fresh(Aux)]
  /\ Push(q) /\ subs' = subs + 1
  /\ query' = [query EXCEPT ![q] = [at |-> "send", handler |-> TRUE, got |-> Nil, result |-> Nil]]
  /\ UNCHANGED <<inbox, queue, steady, hubvars, refs, owner, taken>>

QuerySend(q, id) ==
  /\ query[q].at = "send"
  /\ Post([id |-> id, payload |-> None, source |-> q, answer |-> Nil])
  /\ query' = [query EXCEPT ![q].at = IF Len(inbox) < InboxLen THEN "wait" ELSE "clean"]
  /\ UNCHANGED <<queue, lists, hubvars, refs, owner, taken>>

\* The loop that waits for the handler to be cleared, or for the timeout.
QueryWait(q) ==
  /\ query[q].at = "wait"
  /\ \/ ~query[q].handler /\ query' = [query EXCEPT ![q].at = "clean", ![q].result = query[q].got]
     \/ query[q].handler /\ query' = [query EXCEPT ![q].at = "clean"]
  /\ UNCHANGED <<inbox, queue, lists, hubvars, refs, owner, taken>>

QueryUnsubscribe(q) ==
  /\ query[q].at = "clean" /\ q \in Subscribed
  /\ Remove(q) /\ steady' = IF cur = q THEN {} ELSE steady \ {q}
  /\ query' = [query EXCEPT ![q].at = "free"]
  /\ UNCHANGED <<inbox, queue, filters, subs, hubvars, refs, owner, taken>>

QueryFree(q) ==
  /\ query[q].at = "free"
  /\ filters' = [filters EXCEPT ![q] = <<>>]
  /\ query' = [query EXCEPT ![q] = [Off EXCEPT !.result = query[q].result]]
  /\ UNCHANGED <<inbox, queue, first, next, subs, steady, hubvars, refs, owner, taken>>

-----------------------------------------------------------------------------
Init == /\ inbox = <<>> /\ queue = [t \in All |-> <<>>]
        /\ first = Nil /\ next = [t \in All |-> Nil]
        /\ filters = [t \in All |-> <<>>]
        /\ pc = "idle" /\ msg = Message(Error, None) /\ cur = Nil
        /\ refs = [p \in Payloads |-> 0] /\ owner = {}
        /\ taken = [t \in All |-> Nil] /\ query = [q \in Queries |-> Off]
        /\ subs = 0 /\ seen = {} /\ steady = {}

ClientTask == \E t \in Targets : Receive(t) \/ Reply(t) \/ Discard(t)

QueryTask == \E q \in Queries : \/ QueryStart(q) \/ \E id \in Events : QuerySend(q, id)
                                \/ QueryWait(q) \/ QueryUnsubscribe(q) \/ QueryFree(q)

SetupTask == \E t \in Targets : \/ Subscribe(t) \/ Unsubscribe(t)
                                \/ \E m \in Masks : AddFilter(t, m) \/ RemoveFilter(t, m)

SendTask == \/ \E p \in Payloads : Make(p) \/ \E id \in Events : Send(id, p)
            \/ \E id \in Events : ReportEvent(id)

Next == HubTask \/ ClientTask \/ QueryTask \/ SetupTask \/ SendTask

Spec == Init /\ [][Next]_vars /\ WF_vars(HubTask) /\ WF_vars(ClientTask)

-----------------------------------------------------------------------------
\* Queues are within their lengths, references are natural numbers.
TypeOK == /\ Len(inbox) <= InboxLen
          /\ \A t \in Targets : QueueLen[t] > 0 => Len(queue[t]) <= QueueLen[t]
          /\ refs \in [Payloads -> Nat]
          /\ pc \in {"idle", "walk", "send", "next", "wild"} /\ cur \in All \cup {Nil}

\* The places of the messages with payload p in a sequence.
With(s, p) == {i \in DOMAIN s : s[i].payload = p}

Queued(p) == UNION {{t} \X With(queue[t], p) : t \in Targets}

Working(p) == {t \in Targets : taken[t] # Nil /\ taken[t].payload = p}

\* Between the count for a subscriber and the end of its send the hub holds it as well.
HeldByHub(p) == IF pc = "idle" \/ msg.payload # p THEN 0 ELSE IF pc = "send" THEN 2 ELSE 1

Holders(p) ==
  Cardinality(With(inbox, p)) + Cardinality(Queued(p)) + Cardinality(Working(p))
  + HeldByHub(p) + (IF p \in owner THEN 1 ELSE 0)

\* The count of a payload is the number of those who hold the message: it is
\* neither freed while one of them reads it nor kept after the last let go,
\* whatever timed out or was dropped on the way.
RefsAreHolders == \A p \in Payloads : refs[p] = Holders(p)

\* A target that was subscribed, and with the same filters, since the hub received
\* a message gets that message (or a timeout is reported), whoever else is put in, and
\* whoever is taken out other than the target the hub is at: taking that one out, or
\* freeing it, ends the walk early (umsg.c:408), and then nothing is claimed ("steady").
EverySubscriberReached ==
  pc = "walk" /\ cur = Nil => \A t \in steady : MatchFilter(t, msg.id) => t \in seen \/ t \in Queries

\* The hub always comes back for the next message: no subscriber, full queue or
\* error it reports to itself holds it up.
HubReturns == pc # "idle" ~> pc \in {"idle", "wild"}

\* The target of a query is in the list from its subscription until the query unlinks it,
\* whoever else is put in or taken out meanwhile, and is out of it when it is freed.
QueryIsListed == \A q \in Queries : q \in Subscribed <=> query[q].at \notin {"off", "free"}
=============================================================================
