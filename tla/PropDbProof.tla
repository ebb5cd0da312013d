----------------------------- MODULE PropDbProof -----------------------------
(***************************************************************************)
(* Proofs about PropDb: the property database, the calls that change it,   *)
(* and the task that saves it.                                             *)
(*                                                                         *)
(* IInv has two halves.  DataInv says who has which string: a pool element *)
(* is in at most one entry or one call that is about to store it, and in   *)
(* at most one property of the log; and that the open transactions are the *)
(* tasks between their begin and their end.  SaveInv says why a change is  *)
(* not forgotten: what differs from the log is marked by the flag, by an   *)
(* event, a notification or a save to come, and while a task is about to   *)
(* clear the flag, by something other than the flag.                       *)
(*                                                                         *)
(* And proofs about MemPool, whose elements hold the strings of properties *)
(* (prop_db.c:47 and 77 free them there).  PoolInv is where the pools are  *)
(* and their order in the list, ElementInv who has which element.          *)
(***************************************************************************)
EXTENDS PropDb, MemPool, FiniteSetTheorems, WellFoundedInduction, TLAPS

Worths  == Numbers \union Elements \union {Literal, Nil} \union {Defaults[p].value : p \in DOMAIN Defaults}
ValueKinds   == {"none", "uint", "string"} \union {Defaults[p].kind : p \in DOMAIN Defaults}
Entries == [kind : ValueKinds, value : Worths, persist : BOOLEAN, readonly : BOOLEAN, protect : BOOLEAN]
Saveds  == [kind : ValueKinds, value : Worths]
IsPartial(f, S) == DOMAIN f \subseteq Props /\ f \in [DOMAIN f -> S]
Pcs == {"idle", "store", "report", "end", "check", "event", "clear"}

\* Only a string is in a pool element.
IsPooled(e) == e.kind = "string" /\ e.value \in Elements
OnlyStringsPooled(e) == e.value \in Elements => e.kind = "string"

Types ==
  /\ IsPartial(db, Entries) /\ IsPartial(log, Saveds)
  /\ strings \subseteq Elements
  /\ {updated, notified, late, missed, swallowed} \subseteq BOOLEAN
  /\ pc \in [Tasks -> Pcs]
  /\ job \in [Tasks -> [prop : Props \union {Nil}, entry : Entries]]
  /\ inbox \in Seq({"prop", "update"}) /\ Len(inbox) <= InboxLen
CallsHaveProps == \A t \in Tasks : pc[t] # "idle" => job[t].prop \in Props

\* The open transactions are those of the tasks between their begin and their end.
InTransaction == {t \in Tasks : pc[t] \in {"store", "report", "end"}}
TransactionsAreCounted == transactions = Cardinality(InTransaction)

StringsAreStrings ==
  /\ \A p \in DOMAIN db : OnlyStringsPooled(db[p])
  /\ \A p \in DOMAIN log : OnlyStringsPooled(log[p])
  /\ \A t \in Tasks : OnlyStringsPooled(job[t].entry)
StringsAreApart ==
  /\ \A p \in DOMAIN db : IsPooled(db[p]) =>
       /\ db[p].value \in strings
       /\ \A q \in DOMAIN db : IsPooled(db[q]) /\ db[q].value = db[p].value => q = p
  /\ \A t \in Offered :
       /\ job[t].entry.value \in strings
       /\ \A p \in DOMAIN db : IsPooled(db[p]) => db[p].value # job[t].entry.value
       /\ \A u \in Offered : job[u].entry.value = job[t].entry.value => u = t
  /\ \A p, q \in DOMAIN log : IsPooled(log[p]) /\ IsPooled(log[q]) /\ log[p].value = log[q].value => p = q

Kept(d) == {p \in DOMAIN d : d[p].persist /\ ~d[p].readonly}
Saved == \A p \in Kept(db) : p \in DOMAIN log /\ log[p] = [kind |-> db[p].kind, value |-> db[p].value]
\* A save is asked for, or history says why it is not.
Asked == notified \/ (\E i \in DOMAIN inbox : inbox[i] = "update") \/ missed \/ swallowed
WillSave == saver \notin {"wait", "return"}
ChangesAreKnown == Saved \/ updated \/ Asked \/ WillSave
EventsAreKnown == (\E t \in Tasks : pc[t] = "clear") => Saved \/ late \/ Asked \/ WillSave

DataInv == Types /\ CallsHaveProps /\ TransactionsAreCounted /\ StringsAreStrings /\ StringsAreApart
SaveInv == ChangesAreKnown /\ EventsAreKnown
IInv == DataInv /\ SaveInv

\* What may be assumed of the constants.
Assumptions == DefaultAssumption /\ PoolAssumption /\ TaskAssumption

-----------------------------------------------------------------------------
(* Entries. *)

\* The parts of an entry.
LEMMA EntryFields ==
  ASSUME NEW e \in Entries
  PROVE  /\ e.kind \in ValueKinds /\ e.value \in Worths
         /\ e.persist \in BOOLEAN /\ e.readonly \in BOOLEAN /\ e.protect \in BOOLEAN
BY DEF Entries

\* What callers store: a number, a string, or nothing to remove a property.
LEMMA NewEntries ==
  ASSUME Assumptions
  PROVE  /\ \A n \in Numbers : Number(n) \in Entries /\ Number(n).value \notin Elements
         /\ \A x \in Elements \union {Literal} : /\ String(x) \in Entries /\ String(x).value = x
                                                 /\ String(x).kind = "string"
         /\ Deleted \in Entries /\ Deleted.value \notin Elements
BY DEF Assumptions, PoolAssumption, Number, String, Deleted, Entry, Entries, ValueKinds, Worths

\* prop_item_replace keeps the old attributes with the new value.
LEMMA MergeFields ==
  ASSUME NEW old \in Entries, NEW new \in Entries
  PROVE  /\ Merge(old, new) \in Entries
         /\ Merge(old, new).kind = new.kind /\ Merge(old, new).value = new.value
         /\ Merge(old, new).persist = old.persist /\ Merge(old, new).readonly = old.readonly
BY DEF Merge, Entries

\* The defaults are entries, and none of their strings is from the pool.
LEMMA DefaultEntries ==
  ASSUME Assumptions
  PROVE  IsPartial(Defaults, Entries) /\ \A p \in DOMAIN Defaults : Defaults[p].value \notin Elements
<1> DEFINE Parts(p) == [kind |-> Defaults[p].kind, value |-> Defaults[p].value,
                        persist |-> Defaults[p].persist, readonly |-> Defaults[p].readonly,
                        protect |-> Defaults[p].protect]
<1>1. \A p \in DOMAIN Defaults : Parts(p) \in Entries
  BY DEF Assumptions, DefaultAssumption, Entries, ValueKinds, Worths
<1>2. Defaults = [p \in DOMAIN Defaults |-> Parts(p)]
  BY DEF Assumptions, DefaultAssumption
<1> HIDE DEF Parts
<1>3. Defaults \in [DOMAIN Defaults -> Entries]
  BY <1>1, <1>2
<1> QED BY <1>3 DEF Assumptions, DefaultAssumption, PoolAssumption, IsPartial

\* What dh_insert does to the entries.
LEMMA InsertedEntries ==
  ASSUME NEW d, IsPartial(d, Entries), NEW p \in Props, NEW e \in Entries, NEW n, n = Inserted(d, p, e)
  PROVE  /\ IsPartial(n, Entries) /\ DOMAIN n = DOMAIN d \union {p}
         /\ \A q \in DOMAIN d : q # p => n[q] = d[q]
         /\ p \notin DOMAIN d => n[p] = e
         /\ p \in DOMAIN d /\ d[p].readonly => n = d
         /\ p \in DOMAIN d /\ ~d[p].readonly => n[p] = Merge(d[p], e)
<1>1. CASE p \notin DOMAIN d
  <2>1. n = [x \in {p} \union DOMAIN d |-> IF x = p THEN e ELSE d[x]]
    BY <1>1 DEF Inserted
  <2> QED BY <1>1, <2>1 DEF IsPartial
<1>2. CASE p \in DOMAIN d /\ d[p].readonly
  BY <1>2 DEF Inserted, IsPartial
<1>3. CASE p \in DOMAIN d /\ ~d[p].readonly
  <2>1. n = [d EXCEPT ![p] = Merge(d[p], e)]
    BY <1>3 DEF Inserted
  <2>2. Merge(d[p], e) \in Entries
    BY <1>3, MergeFields DEF IsPartial
  <2> QED BY <1>3, <2>1, <2>2 DEF IsPartial
<1> QED BY <1>1, <1>2, <1>3

\* The persistent properties of the log.
LEMMA PersistedFields ==
  ASSUME NEW d, IsPartial(d, Entries)
  PROVE  /\ DOMAIN Persisted(d) = Kept(d) /\ IsPartial(Persisted(d), Saveds)
         /\ \A p \in Kept(d) : Persisted(d)[p] = [kind |-> d[p].kind, value |-> d[p].value]
BY DEF Persisted, Kept, IsPartial, Entries, Saveds

-----------------------------------------------------------------------------
(* Transactions. *)

Open == {"store", "report", "end"}

\* A task that begins or ends a transaction is counted in or out.
LEMMA CountChanges ==
  ASSUME Assumptions, pc \in [Tasks -> Pcs], TransactionsAreCounted,
         NEW t \in Tasks, NEW x \in Pcs, pc' = [pc EXCEPT ![t] = x],
         transactions' = IF x \in Open THEN IF pc[t] \in Open THEN transactions ELSE transactions + 1
                         ELSE IF pc[t] \in Open THEN transactions - 1 ELSE transactions
  PROVE  TransactionsAreCounted'
<1>1. IsFiniteSet(Tasks)
  BY FS_AddElement DEF Assumptions, TaskAssumption, Tasks
<1>2. IsFiniteSet(InTransaction) /\ transactions = Cardinality(InTransaction) /\ transactions \in Nat
  BY <1>1, FS_Subset, FS_CardinalityType DEF InTransaction, TransactionsAreCounted
<1>3. \A u \in Tasks : pc'[u] = IF u = t THEN x ELSE pc[u]
  OBVIOUS
<1>4. InTransaction' = {u \in Tasks : pc'[u] \in Open} /\ InTransaction = {u \in Tasks : pc[u] \in Open}
  BY DEF InTransaction, Open
<1> HIDE DEF Open
<1>5. CASE x \in Open /\ pc[t] \notin Open
  <2>1. InTransaction' = InTransaction \union {t} /\ t \notin InTransaction
    BY <1>3, <1>4, <1>5
  <2> QED BY <1>2, <1>5, <2>1, FS_AddElement DEF TransactionsAreCounted
<1>6. CASE x \notin Open /\ pc[t] \in Open
  <2>1. InTransaction' = InTransaction \ {t} /\ t \in InTransaction
    BY <1>3, <1>4, <1>6
  <2> QED BY <1>2, <1>6, <2>1, FS_RemoveElement DEF TransactionsAreCounted
<1>7. CASE x \in Open <=> pc[t] \in Open
  <2>1. InTransaction' = InTransaction
    BY <1>3, <1>4, <1>7
  <2> QED BY <1>2, <1>7, <2>1 DEF TransactionsAreCounted
<1> QED BY <1>5, <1>6, <1>7

-----------------------------------------------------------------------------
(* Steps that leave the entries alone. *)

\* A task goes on to a step that does not store anything.
LEMMA TaskGoesOn ==
  ASSUME Assumptions, DataInv, NEW t \in Tasks, NEW x \in Pcs, x # "store", pc' = [pc EXCEPT ![t] = x],
         x = "idle" \/ pc[t] # "idle",
         job' = job \/ (x = "idle" /\ job' = [job EXCEPT ![t] = Idle]),
         UNCHANGED <<db, strings, log>>,
         {updated', notified', late', missed', swallowed'} \subseteq BOOLEAN,
         inbox' \in Seq({"prop", "update"}), Len(inbox') <= InboxLen
  PROVE  Types' /\ CallsHaveProps' /\ StringsAreStrings' /\ StringsAreApart'
<1> USE DEF DataInv
<1>0. Idle \in [prop : Props \union {Nil}, entry : Entries] /\ OnlyStringsPooled(Idle.entry)
  BY NewEntries DEF Idle, OnlyStringsPooled
<1>1. /\ pc' \in [Tasks -> Pcs]
      /\ \A u \in Tasks : pc'[u] = IF u = t THEN x ELSE pc[u]
  BY DEF Types
<1>2. /\ job' \in [Tasks -> [prop : Props \union {Nil}, entry : Entries]]
      /\ \A u \in Tasks : job'[u] = job[u] \/ (u = t /\ x = "idle" /\ job'[u] = Idle)
  BY <1>0 DEF Types
<1>3. Types'
  BY <1>1, <1>2 DEF Types, IsPartial
<1>4. CallsHaveProps'
  BY <1>1, <1>2 DEF CallsHaveProps
<1>5. StringsAreStrings'
  BY <1>0, <1>2 DEF StringsAreStrings, OnlyStringsPooled
<1>6. Offered' \subseteq Offered /\ \A u \in Offered' : job'[u] = job[u]
  BY <1>1, <1>2 DEF Offered
<1>7. StringsAreApart'
  BY <1>6 DEF StringsAreApart, IsPooled
<1> QED BY <1>3, <1>4, <1>5, <1>7

\* So do the hub, and the save task by itself.
LEMMA DataStays ==
  ASSUME DataInv, UNCHANGED <<db, strings, transactions, pc, job, log>>,
         {updated', notified', late', missed', swallowed'} \subseteq BOOLEAN,
         inbox' \in Seq({"prop", "update"}), Len(inbox') <= InboxLen
  PROVE  DataInv'
<1>1. Types' /\ CallsHaveProps'
  BY DEF DataInv, Types, IsPartial, CallsHaveProps
<1>2. TransactionsAreCounted'
  BY DEF DataInv, TransactionsAreCounted, InTransaction
<1>3. StringsAreStrings'
  BY DEF DataInv, StringsAreStrings, OnlyStringsPooled
<1>4. StringsAreApart'
  BY DEF DataInv, StringsAreApart, IsPooled, Offered
<1> QED BY <1>1, <1>2, <1>3, <1>4 DEF DataInv

\* A message is posted, unless the queue is full.
LEMMA PostKeeps ==
  ASSUME Assumptions, Types, NEW m \in {"prop", "update"}, Post(m)
  PROVE  /\ inbox' \in Seq({"prop", "update"}) /\ Len(inbox') <= InboxLen
         /\ \A i \in DOMAIN inbox : i \in DOMAIN inbox' /\ inbox'[i] = inbox[i]
         /\ Len(inbox) # InboxLen => \E i \in DOMAIN inbox' : inbox'[i] = m
<1>1. inbox \in Seq({"prop", "update"}) /\ Len(inbox) \in Nat /\ Len(inbox) <= InboxLen /\ InboxLen \in Nat
  BY DEF Types, Assumptions, TaskAssumption
<1>2. CASE Len(inbox) < InboxLen
  <2>1. inbox' = Append(inbox, m)
    BY <1>2 DEF Post
  <2>2. Len(inbox') = Len(inbox) + 1 /\ inbox'[Len(inbox) + 1] = m /\ Len(inbox) + 1 \in DOMAIN inbox'
    BY <1>1, <2>1
  <2> QED BY <1>1, <1>2, <2>1, <2>2
<1>3. CASE ~(Len(inbox) < InboxLen)
  <2>1. inbox' = inbox /\ Len(inbox) = InboxLen
    BY <1>1, <1>3 DEF Post
  <2> QED BY <1>1, <2>1
<1> QED BY <1>2, <1>3

-----------------------------------------------------------------------------
(* A call begins. *)

\* A string begins its call in a pool element that was free.
LEMMA BeginKeeps ==
  ASSUME Assumptions, DataInv, NEW t \in Tasks, NEW p \in Props, NEW e \in Entries, SetBegin(t, p, e),
         OnlyStringsPooled(e), e.value \in Elements => e.value \notin strings
  PROVE  DataInv'
<1> USE DEF DataInv
<1> DEFINE call == [prop |-> p, entry |-> e]
<1>1. /\ pc[t] = "idle" /\ pc' = [pc EXCEPT ![t] = "store"]
      /\ job' = [job EXCEPT ![t] = call]
      /\ strings' = IF e.value \in Elements THEN strings \union {e.value} ELSE strings
      /\ transactions' = transactions + 1
      /\ UNCHANGED <<db, updated, inbox, notified, log, late, missed, swallowed>>
  BY DEF SetBegin, wires, hist
<1>2. call \in [prop : Props \union {Nil}, entry : Entries] /\ call.prop = p /\ call.entry = e
  OBVIOUS
<1> HIDE DEF call
<1>3. pc' \in [Tasks -> Pcs] /\ \A u \in Tasks : pc'[u] = IF u = t THEN "store" ELSE pc[u]
  BY <1>1 DEF Types, Pcs
<1>4. /\ job' \in [Tasks -> [prop : Props \union {Nil}, entry : Entries]]
      /\ \A u \in Tasks : job'[u] = IF u = t THEN call ELSE job[u]
  BY <1>1, <1>2 DEF Types
<1>5. Types'
  BY <1>1, <1>3, <1>4 DEF Types, IsPartial
<1>6. CallsHaveProps'
  BY <1>2, <1>3, <1>4 DEF CallsHaveProps
<1>7. TransactionsAreCounted'
  BY <1>1, CountChanges DEF Types, Pcs, Open
<1>8. StringsAreStrings'
  BY <1>1, <1>2, <1>4 DEF StringsAreStrings, OnlyStringsPooled
<1>9. Offered' \ {t} \subseteq Offered /\ (t \in Offered' => e.value \in Elements)
  BY <1>2, <1>3, <1>4 DEF Offered
<1>10. StringsAreApart'
  <2>1. \A q \in DOMAIN db' : IsPooled(db'[q]) =>
          /\ db'[q].value \in strings'
          /\ \A r \in DOMAIN db' : IsPooled(db'[r]) /\ db'[r].value = db'[q].value => r = q
    BY <1>1 DEF StringsAreApart, IsPooled
  <2>2. ASSUME NEW u \in Offered'
        PROVE  /\ job'[u].entry.value \in strings'
               /\ \A q \in DOMAIN db' : IsPooled(db'[q]) => db'[q].value # job'[u].entry.value
               /\ \A w \in Offered' : job'[w].entry.value = job'[u].entry.value => w = u
    <3>1. u \in Tasks
      BY DEF Offered
    <3>2. \A w \in Offered : job[w].entry.value \in strings
      BY DEF StringsAreApart
    <3>3. \A q \in DOMAIN db : IsPooled(db[q]) => db[q].value \in strings
      BY DEF StringsAreApart
    <3>4. \A w \in Offered' : IF w = t THEN job'[w].entry = e ELSE w \in Offered /\ job'[w] = job[w]
      BY <1>2, <1>4, <1>9 DEF Offered
    <3>5. CASE u = t
      BY <1>1, <1>9, <3>2, <3>3, <3>4, <3>5
    <3>6. CASE u # t
      <4>1. u \in Offered /\ job'[u] = job[u]
        BY <3>4, <3>6
      <4>2. job[u].entry.value \in strings
        BY <3>2, <4>1
      <4>3. \A q \in DOMAIN db' : IsPooled(db'[q]) => db'[q].value # job'[u].entry.value
        BY <1>1, <4>1 DEF StringsAreApart
      <4>4. \A w \in Offered' : job'[w].entry.value = job'[u].entry.value => w = u
        BY <1>9, <3>4, <4>1, <4>2 DEF StringsAreApart
      <4> QED BY <1>1, <4>1, <4>2, <4>3, <4>4
    <3> QED BY <3>5, <3>6
  <2>3. \A q, r \in DOMAIN log' : IsPooled(log'[q]) /\ IsPooled(log'[r]) /\ log'[q].value = log'[r].value => q = r
    BY <1>1 DEF StringsAreApart
  <2> QED BY <2>1, <2>2, <2>3 DEF StringsAreApart
<1> QED BY <1>5, <1>6, <1>7, <1>8, <1>10

-----------------------------------------------------------------------------
(* The store. *)

\* A new entry takes the place of the old one, whose string is freed.
LEMMA ReplaceKeeps ==
  ASSUME Assumptions, DataInv, NEW t \in Tasks, pc[t] = "store", pc' = [pc EXCEPT ![t] = "report"],
         UNCHANGED <<transactions, job, inbox, notified, log, missed, swallowed>>,
         {updated', late'} \subseteq BOOLEAN,
         NEW p \in Props, NEW e \in Entries, job[t].entry = e, IsPartial(db', Entries),
         \A q \in DOMAIN db' : q # p => q \in DOMAIN db /\ db'[q] = db[q],
         p \in DOMAIN db' => db'[p].kind = e.kind /\ db'[p].value = e.value,
         \/ strings' = strings
         \/ p \in DOMAIN db /\ db[p].kind = "string" /\ strings' = strings \ {db[p].value}
  PROVE  DataInv'
<1> USE DEF DataInv
<1>1. pc' \in [Tasks -> Pcs] /\ \A u \in Tasks : pc'[u] = IF u = t THEN "report" ELSE pc[u]
  BY DEF Types, Pcs
<1>2. Types'
  BY <1>1 DEF Types, IsPartial
<1>3. CallsHaveProps'
  BY <1>1 DEF CallsHaveProps
<1>4. TransactionsAreCounted'
  BY CountChanges DEF Types, Pcs, Open
<1>5. StringsAreStrings'
  BY DEF StringsAreStrings, OnlyStringsPooled
<1>6. Offered' = Offered \ {t} /\ (e.value \in Elements => t \in Offered)
  BY <1>1 DEF Offered
<1>7. OnlyStringsPooled(e)
  BY DEF StringsAreStrings
<1>8. \A v \in strings : /\ v \in Elements
                         /\ ~(p \in DOMAIN db /\ IsPooled(db[p]) /\ db[p].value = v) => v \in strings'
  BY DEF IsPooled, Types
<1>9. StringsAreApart'
  <2>1. ASSUME NEW q \in DOMAIN db', IsPooled(db'[q])
        PROVE  /\ db'[q].value \in strings'
               /\ \A r \in DOMAIN db' : IsPooled(db'[r]) /\ db'[r].value = db'[q].value => r = q
    <3>1. CASE q = p
      <4>1. t \in Offered /\ db'[q].value = e.value
        BY <1>6, <2>1, <3>1 DEF IsPooled
      <4>2. /\ e.value \in strings
            /\ \A r \in DOMAIN db : IsPooled(db[r]) => db[r].value # e.value
        BY <4>1 DEF StringsAreApart
      <4> QED BY <1>8, <3>1, <4>1, <4>2
    <3>2. CASE q # p
      <4>1. q \in DOMAIN db /\ db'[q] = db[q] /\ IsPooled(db[q])
        BY <2>1, <3>2
      <4>2. db[q].value \in strings /\ \A r \in DOMAIN db : IsPooled(db[r]) /\ db[r].value = db[q].value => r = q
        BY <4>1 DEF StringsAreApart
      <4>3. db'[q].value \in strings'
        BY <1>8, <3>2, <4>1, <4>2
      <4>4. ASSUME NEW r \in DOMAIN db', IsPooled(db'[r]), db'[r].value = db'[q].value PROVE r = q
        <5>1. CASE r = p
          <6>1. t \in Offered /\ db'[r].value = e.value
            BY <1>6, <4>4, <5>1 DEF IsPooled
          <6>2. db[q].value # e.value
            BY <4>1, <6>1 DEF StringsAreApart
          <6> QED BY <4>1, <4>4, <6>1, <6>2
        <5>2. CASE r # p
          BY <4>1, <4>2, <4>4, <5>2
        <5> QED BY <5>1, <5>2
      <4> QED BY <4>3, <4>4
    <3> QED BY <3>1, <3>2
  <2>2. ASSUME NEW u \in Offered'
        PROVE  /\ job'[u].entry.value \in strings'
               /\ \A q \in DOMAIN db' : IsPooled(db'[q]) => db'[q].value # job'[u].entry.value
               /\ \A w \in Offered' : job'[w].entry.value = job'[u].entry.value => w = u
    <3>1. u \in Offered /\ u # t
      BY <1>6
    <3>2. /\ job[u].entry.value \in strings
          /\ \A q \in DOMAIN db : IsPooled(db[q]) => db[q].value # job[u].entry.value
          /\ \A w \in Offered : job[w].entry.value = job[u].entry.value => w = u
      BY <3>1 DEF StringsAreApart
    <3>3. job[u].entry.value \in strings'
      BY <1>8, <3>2
    <3>4. ASSUME NEW q \in DOMAIN db', IsPooled(db'[q]) PROVE db'[q].value # job[u].entry.value
      <4>1. CASE q = p
        BY <1>6, <3>1, <3>2, <3>4, <4>1 DEF IsPooled
      <4>2. CASE q # p
        BY <3>2, <3>4, <4>2
      <4> QED BY <4>1, <4>2
    <3> QED BY <1>6, <3>2, <3>3, <3>4
  <2> QED BY <2>1, <2>2 DEF StringsAreApart
<1> QED BY <1>2, <1>3, <1>4, <1>5, <1>9

\* persist_updated and its history stay set once they are, and are set for a change.
LEMMA MarkKeeps ==
  ASSUME Types, NEW touched \in BOOLEAN, Mark(touched)
  PROVE  /\ {updated', late'} \subseteq BOOLEAN
         /\ updated => updated'
         /\ late => late'
         /\ touched => updated' /\ late'
BY DEF Types, Mark

\* The store leaves the properties that need no save, or says that there is one.
LEMMA StoreKeeps ==
  ASSUME Assumptions, DataInv, NEW t \in Tasks, SetStore(t)
  PROVE  /\ DataInv'
         /\ Saved => Saved' \/ (updated' /\ late')
         /\ updated => updated'
         /\ late => late'
<1> USE DEF DataInv
<1> DEFINE p == job[t].prop
           e == job[t].entry
<1>1. /\ pc[t] = "store" /\ pc' = [pc EXCEPT ![t] = "report"]
      /\ UNCHANGED <<transactions, job, inbox, notified, log, missed, swallowed>>
  BY DEF SetStore, wires
<1>2. p \in Props /\ e \in Entries
  BY <1>1 DEF CallsHaveProps, Types
<1>0. job[t].prop = p /\ job[t].entry = e
  OBVIOUS
<1> HIDE DEF p, e
<1>3. IsPartial(db, Entries)
  BY DEF Types
<1>4. \A q \in DOMAIN db : db[q] \in Entries /\ db[q].persist \in BOOLEAN
  BY <1>3, EntryFields DEF IsPartial
<1>5. e.persist \in BOOLEAN
  BY <1>2, EntryFields
<1>6. CASE e.kind # "none"
  <2>1. /\ db' = Inserted(db, p, e) /\ strings' = StringsAfter(strings, db, p)
        /\ Mark(Touches(db, p, e))
    BY <1>0, <1>6 DEF SetStore
  <2>2. Touches(db, p, e) \in BOOLEAN
    BY <1>4, <1>5 DEF Touches
  <2>3. /\ {updated', late'} \subseteq BOOLEAN
        /\ updated => updated'
        /\ late => late'
        /\ Touches(db, p, e) => updated' /\ late'
    BY <2>1, <2>2, MarkKeeps
  <2>4. /\ IsPartial(db', Entries) /\ DOMAIN db' = DOMAIN db \union {p}
        /\ \A q \in DOMAIN db : q # p => db'[q] = db[q]
        /\ p \notin DOMAIN db => db'[p] = e
        /\ p \in DOMAIN db /\ db[p].readonly => db' = db
        /\ p \in DOMAIN db /\ ~db[p].readonly => db'[p] = Merge(db[p], e)
    BY <1>2, <1>3, <2>1, InsertedEntries
  <2>5. CASE p \in DOMAIN db /\ db[p].readonly
    <3>1. db' = db /\ strings' = strings
      BY <2>1, <2>4, <2>5 DEF StringsAfter
    <3>2. DataInv'
      BY <1>1, <2>3, <3>1, TaskGoesOn, CountChanges DEF Types, Pcs, Open
    <3> QED BY <1>1, <2>3, <3>1, <3>2 DEF Saved, Kept
  <2>6. CASE p \notin DOMAIN db
    <3>1. strings' = strings
      BY <2>1, <2>6 DEF StringsAfter
    <3>2. DataInv'
      BY <1>0, <1>1, <1>2, <2>3, <2>4, <2>6, <3>1, ReplaceKeeps
    <3>3. Saved => Saved' \/ (updated' /\ late')
      BY <1>1, <2>3, <2>4, <2>6 DEF Saved, Kept, Touches
    <3> QED BY <2>3, <3>2, <3>3
  <2>7. CASE p \in DOMAIN db /\ ~db[p].readonly
    <3>1. \/ strings' = strings
          \/ db[p].kind = "string" /\ strings' = strings \ {db[p].value}
      BY <2>1, <2>7 DEF StringsAfter, FreeString
    <3>2. /\ db'[p].kind = e.kind /\ db'[p].value = e.value
          /\ db'[p].persist = db[p].persist /\ db'[p].readonly = db[p].readonly
      BY <1>2, <1>4, <2>4, <2>7, MergeFields
    <3>3. DataInv'
      BY ZenonT(30), <1>0, <1>1, <1>2, <2>3, <2>4, <2>7, <3>1, <3>2, ReplaceKeeps
    <3>4. Saved => Saved' \/ (updated' /\ late')
      BY <1>1, <2>3, <2>4, <2>7, <3>2 DEF Saved, Kept, Touches
    <3> QED BY <2>3, <3>3, <3>4
  <2> QED BY <2>5, <2>6, <2>7
<1>7. CASE e.kind = "none"
  <2>1. /\ db' = [q \in DOMAIN db \ {p} |-> db[q]]
        /\ strings' = IF p \in DOMAIN db THEN FreeString(strings, db[p]) ELSE strings
        /\ Mark(p \in DOMAIN db /\ db[p].persist)
    BY <1>0, <1>7 DEF SetStore
  <2>2. /\ {updated', late'} \subseteq BOOLEAN
        /\ updated => updated'
        /\ late => late'
        /\ p \in DOMAIN db /\ db[p].persist => updated' /\ late'
    BY <1>4, <2>1, MarkKeeps
  <2>3. /\ IsPartial(db', Entries) /\ DOMAIN db' = DOMAIN db \ {p}
        /\ \A q \in DOMAIN db' : db'[q] = db[q]
    BY <1>3, <2>1 DEF IsPartial
  <2>4. \/ strings' = strings
        \/ p \in DOMAIN db /\ db[p].kind = "string" /\ strings' = strings \ {db[p].value}
    BY <2>1 DEF FreeString
  <2>5. DataInv'
    BY <1>0, <1>1, <1>2, <2>2, <2>3, <2>4, ReplaceKeeps
  <2>6. Saved => Saved'
    BY <1>1, <2>3 DEF Saved, Kept
  <2> QED BY <2>2, <2>5, <2>6
<1> QED BY <1>6, <1>7

\* A property is made persistent, or no longer so.
LEMMA AttributesKeep ==
  ASSUME Assumptions, DataInv, NEW p \in Props, NEW persist \in BOOLEAN, SetAttributes(p, persist)
  PROVE  /\ DataInv'
         /\ Saved => Saved' \/ (updated' /\ late')
         /\ updated => updated'
         /\ late => late'
         /\ UNCHANGED <<inbox, notified, missed, swallowed, pc>>
<1> USE DEF DataInv
<1>1. /\ p \in DOMAIN db /\ Mark(persist /\ ~db[p].persist)
      /\ db' = [db EXCEPT ![p] = [db[p] EXCEPT !.persist = persist]]
      /\ UNCHANGED <<strings, transactions, pc, job, inbox, notified, log, missed, swallowed>>
  BY DEF SetAttributes, wires
<1>2. IsPartial(db, Entries) /\ db[p] \in Entries
  BY <1>1 DEF Types, IsPartial
<1> DEFINE new == [db[p] EXCEPT !.persist = persist]
<1>3. /\ new \in Entries /\ new.kind = db[p].kind /\ new.value = db[p].value
      /\ new.persist = persist /\ new.readonly = db[p].readonly
  BY <1>2 DEF Entries
<1> HIDE DEF new
<1>4. db' = [db EXCEPT ![p] = new]
  BY <1>1 DEF new
<1>5. /\ IsPartial(db', Entries) /\ DOMAIN db' = DOMAIN db
      /\ \A q \in DOMAIN db : db'[q] = IF q = p THEN new ELSE db[q]
  BY <1>2, <1>3, <1>4 DEF IsPartial
<1>6. \A q \in DOMAIN db : db'[q].kind = db[q].kind /\ db'[q].value = db[q].value
  BY <1>3, <1>5
<1>7. (persist /\ ~db[p].persist) \in BOOLEAN
  BY <1>1
<1>8. /\ {updated', late'} \subseteq BOOLEAN
      /\ updated => updated'
      /\ late => late'
      /\ (persist /\ ~db[p].persist) => updated' /\ late'
  BY <1>1, <1>7, MarkKeeps
<1>9. Types' /\ CallsHaveProps'
  BY <1>1, <1>5, <1>8 DEF Types, IsPartial, CallsHaveProps
<1>10. TransactionsAreCounted'
  BY <1>1 DEF TransactionsAreCounted, InTransaction
<1>11. StringsAreStrings'
  BY <1>1, <1>5, <1>6 DEF StringsAreStrings, OnlyStringsPooled
<1>12. StringsAreApart'
  <2>1. Offered' = Offered
    BY <1>1 DEF Offered
  <2> QED BY <1>1, <1>5, <1>6, <2>1 DEF StringsAreApart, IsPooled
<1>13. Saved => Saved' \/ (updated' /\ late')
  <2>1. SUFFICES ASSUME Saved, ~(persist /\ ~db[p].persist) PROVE Saved'
    BY <1>8
  <2>2. \A q \in Kept(db') : q \in Kept(db)
    BY <1>3, <1>5, <2>1 DEF Kept
  <2> QED BY <1>1, <1>6, <2>1, <2>2 DEF Saved, Kept
<1> QED BY <1>1, <1>8, <1>9, <1>10, <1>11, <1>12, <1>13

-----------------------------------------------------------------------------
(* Saves. *)

\* Whoever asks for a save goes on asking, until it is done.
LEMMA SaveKeeps ==
  ASSUME SaveInv, Saved => Saved' \/ (updated' /\ late'), updated => updated', late => late',
         Asked => Asked', WillSave => WillSave',
         (\E t \in Tasks : pc'[t] = "clear") => \E t \in Tasks : pc[t] = "clear"
  PROVE  SaveInv'
<1>1. ChangesAreKnown'
  BY DEF SaveInv, ChangesAreKnown
<1>2. EventsAreKnown'
  BY DEF SaveInv, EventsAreKnown
<1> QED BY <1>1, <1>2 DEF SaveInv

\* What is asked of the save task stays asked.
LEMMA AskedStays ==
  ASSUME \A i \in DOMAIN inbox : i \in DOMAIN inbox' /\ inbox'[i] = inbox[i],
         notified => notified', missed => missed', swallowed => swallowed'
  PROVE  Asked => Asked'
BY DEF Asked

-----------------------------------------------------------------------------
(* The steps of prop_set. *)

\* A call that returns leaves the save task at work.
LEMMA ReturnKeeps ==
  ASSUME NEW t \in Tasks, Return(t)
  PROVE  WillSave => WillSave'
BY DEF Return, WillSave

\* A task with a new call has not changed anything yet.
LEMMA BeginSaves ==
  ASSUME SaveInv, pc \in [Tasks -> Pcs], NEW t \in Tasks, NEW p, NEW e, SetBegin(t, p, e)
  PROVE  SaveInv'
<1>1. /\ pc' = [pc EXCEPT ![t] = "store"]
      /\ UNCHANGED <<db, updated, inbox, notified, saver, log, late, missed, swallowed>>
  BY DEF SetBegin, wires, hist
<1>2. (\E u \in Tasks : pc'[u] = "clear") => \E u \in Tasks : pc[u] = "clear"
  BY <1>1
<1>3. (Saved => Saved') /\ (Asked => Asked') /\ (WillSave => WillSave')
  BY <1>1 DEF Saved, Kept, Asked, WillSave
<1> QED BY <1>1, <1>2, <1>3, SaveKeeps

\* Each step of a call keeps the invariant.
LEMMA SetSteps ==
  ASSUME Assumptions, IInv, NEW t \in Tasks, Set(t)
  PROVE  IInv'
<1> USE DEF IInv
<1>1. Types /\ TransactionsAreCounted /\ pc \in [Tasks -> Pcs] /\ {"report", "end", "check", "event", "clear", "idle"} \subseteq Pcs
  BY DEF DataInv, Types, Pcs
<1>2. CASE SetStore(t)
  <2>1. /\ DataInv'
        /\ Saved => Saved' \/ (updated' /\ late')
        /\ updated => updated'
        /\ late => late'
    BY <1>2, StoreKeeps
  <2>2. pc' = [pc EXCEPT ![t] = "report"] /\ UNCHANGED <<inbox, notified, saver, log, missed, swallowed>>
    BY <1>2 DEF SetStore, wires
  <2>3. (\E u \in Tasks : pc'[u] = "clear") => \E u \in Tasks : pc[u] = "clear"
    BY <1>1, <2>2
  <2>4. (Asked => Asked') /\ (WillSave => WillSave')
    BY <2>2 DEF Asked, WillSave
  <2> QED BY <2>1, <2>3, <2>4, SaveKeeps
<1>3. CASE SetReport(t)
  <2>1. /\ pc[t] = "report" /\ pc' = [pc EXCEPT ![t] = "end"] /\ Post("prop")
        /\ UNCHANGED <<db, strings, updated, transactions, job, notified, saver, log, late, missed, swallowed>>
    BY <1>3 DEF SetReport, store, hist
  <2>2. /\ inbox' \in Seq({"prop", "update"}) /\ Len(inbox') <= InboxLen
        /\ \A i \in DOMAIN inbox : i \in DOMAIN inbox' /\ inbox'[i] = inbox[i]
    BY <1>1, <2>1, PostKeeps
  <2>3. {updated', notified', late', missed', swallowed'} \subseteq BOOLEAN
    BY <1>1, <2>1 DEF Types
  <2>4. Types' /\ CallsHaveProps' /\ StringsAreStrings' /\ StringsAreApart'
    BY <1>1, <2>1, <2>2, <2>3, TaskGoesOn
  <2>5. TransactionsAreCounted'
    BY <1>1, <2>1, CountChanges DEF Open
  <2>6. (\E u \in Tasks : pc'[u] = "clear") => \E u \in Tasks : pc[u] = "clear"
    BY <1>1, <2>1
  <2>7. (Saved => Saved') /\ (Asked => Asked') /\ (WillSave => WillSave')
    BY <2>1, <2>2, AskedStays DEF Saved, Kept, WillSave
  <2> QED BY <2>1, <2>4, <2>5, <2>6, <2>7, SaveKeeps DEF DataInv
<1>4. CASE SetEnd(t)
  <2>1. /\ pc[t] = "end" /\ pc' = [pc EXCEPT ![t] = "check"] /\ transactions' = transactions - 1
        /\ UNCHANGED <<db, strings, updated, job, inbox, notified, saver, log, late, missed, swallowed>>
    BY <1>4 DEF SetEnd, store, hist, wires
  <2>2. {updated', notified', late', missed', swallowed'} \subseteq BOOLEAN /\ inbox' \in Seq({"prop", "update"}) /\ Len(inbox') <= InboxLen
    BY <1>1, <2>1 DEF Types
  <2>4. Types' /\ CallsHaveProps' /\ StringsAreStrings' /\ StringsAreApart'
    BY <1>1, <2>1, <2>2, TaskGoesOn
  <2>5. TransactionsAreCounted'
    BY <1>1, <2>1, CountChanges DEF Open
  <2>6. (\E u \in Tasks : pc'[u] = "clear") => \E u \in Tasks : pc[u] = "clear"
    BY <1>1, <2>1
  <2>7. (Saved => Saved') /\ (Asked => Asked') /\ (WillSave => WillSave')
    BY <2>1 DEF Saved, Kept, WillSave, Asked
  <2> QED BY <2>1, <2>4, <2>5, <2>6, <2>7, SaveKeeps DEF DataInv
<1>5. CASE SetCheck(t)
  <2>1. /\ pc[t] = "check"
        /\ \/ pc' = [pc EXCEPT ![t] = "event"] /\ UNCHANGED <<job, saver>>
           \/ Return(t)
        /\ UNCHANGED <<db, strings, updated, transactions, inbox, notified, log, late, missed, swallowed>>
    BY <1>5 DEF SetCheck, store, hist, wires
  <2>2. {updated', notified', late', missed', swallowed'} \subseteq BOOLEAN /\ inbox' \in Seq({"prop", "update"}) /\ Len(inbox') <= InboxLen
    BY <1>1, <2>1 DEF Types
  <2>3. PICK x \in {"event", "idle"} :
          /\ pc' = [pc EXCEPT ![t] = x]
          /\ job' = job \/ (x = "idle" /\ job' = [job EXCEPT ![t] = Idle])
    BY <2>1 DEF Return
  <2>4. Types' /\ CallsHaveProps' /\ StringsAreStrings' /\ StringsAreApart'
    BY <1>1, <2>1, <2>2, <2>3, TaskGoesOn
  <2>5. TransactionsAreCounted'
    BY <1>1, <2>1, <2>3, CountChanges DEF Open
  <2>6. (\E u \in Tasks : pc'[u] = "clear") => \E u \in Tasks : pc[u] = "clear"
    BY <1>1, <2>3
  <2>7. (Saved => Saved') /\ (Asked => Asked')
    BY <2>1 DEF Saved, Kept, Asked
  <2>8. WillSave => WillSave'
    BY <2>1, ReturnKeeps DEF WillSave
  <2> QED BY <2>1, <2>4, <2>5, <2>6, <2>7, <2>8, SaveKeeps DEF DataInv
<1>6. CASE SetEvent(t)
  <2>1. /\ pc[t] = "event" /\ pc' = [pc EXCEPT ![t] = "clear"] /\ Post("update")
        /\ missed' = (Len(inbox) = InboxLen) /\ late' = FALSE
        /\ UNCHANGED <<db, strings, updated, transactions, job, notified, saver, log, swallowed>>
    BY <1>6 DEF SetEvent, store
  <2>2. /\ inbox' \in Seq({"prop", "update"}) /\ Len(inbox') <= InboxLen
        /\ Len(inbox) # InboxLen => \E i \in DOMAIN inbox' : inbox'[i] = "update"
    BY <1>1, <2>1, PostKeeps
  <2>3. {updated', notified', late', missed', swallowed'} \subseteq BOOLEAN
    BY <1>1, <2>1 DEF Types
  <2>4. Types' /\ CallsHaveProps' /\ StringsAreStrings' /\ StringsAreApart'
    BY <1>1, <2>1, <2>2, <2>3, TaskGoesOn
  <2>5. TransactionsAreCounted'
    BY <1>1, <2>1, CountChanges DEF Open
  <2>6. Asked'
    BY <2>1, <2>2 DEF Asked
  <2> QED BY <2>4, <2>5, <2>6 DEF DataInv, SaveInv, ChangesAreKnown, EventsAreKnown
<1>7. CASE SetClear(t)
  <2>1. /\ pc[t] = "clear" /\ Return(t) /\ updated' = FALSE /\ missed' = (missed \/ late)
        /\ UNCHANGED <<db, strings, transactions, inbox, notified, log, late, swallowed>>
    BY <1>7 DEF SetClear, wires
  <2>2. {updated', notified', late', missed', swallowed'} \subseteq BOOLEAN /\ inbox' \in Seq({"prop", "update"}) /\ Len(inbox') <= InboxLen
    BY <1>1, <2>1 DEF Types
  <2>3. pc' = [pc EXCEPT ![t] = "idle"] /\ job' = [job EXCEPT ![t] = Idle]
    BY <2>1 DEF Return
  <2>4. Types' /\ CallsHaveProps' /\ StringsAreStrings' /\ StringsAreApart'
    BY <1>1, <2>1, <2>2, <2>3, TaskGoesOn
  <2>5. TransactionsAreCounted'
    BY <1>1, <2>1, <2>3, CountChanges DEF Open
  <2>6. Saved \/ late \/ Asked \/ WillSave
    BY <2>1 DEF SaveInv, EventsAreKnown
  <2>7. (Saved => Saved') /\ (late => Asked') /\ (Asked => Asked')
    BY <2>1 DEF Saved, Kept, Asked
  <2>8. WillSave => WillSave'
    BY <2>1, ReturnKeeps
  <2> QED BY <2>4, <2>5, <2>6, <2>7, <2>8 DEF DataInv, SaveInv, ChangesAreKnown, EventsAreKnown
<1> QED BY <1>2, <1>3, <1>4, <1>5, <1>6, <1>7 DEF Set

\* So does a writer's call.
LEMMA WriteSteps ==
  ASSUME Assumptions, IInv, NEW t \in Writers, Write(t)
  PROVE  IInv'
<1>1. t \in Tasks /\ pc \in [Tasks -> Pcs] /\ strings \subseteq Elements
  BY DEF IInv, DataInv, Types, Tasks
<1>2. PICK p \in Props : \/ \E n \in Numbers : SetBegin(t, p, Number(n))
                         \/ \E x \in (Elements \ strings) \union {Literal} : SetBegin(t, p, String(x))
                         \/ SetBegin(t, p, Deleted)
  BY DEF Write
<1>3. PICK e \in Entries : /\ SetBegin(t, p, e) /\ OnlyStringsPooled(e)
                           /\ e.value \in Elements => e.value \notin strings
  BY <1>1, <1>2, NewEntries DEF OnlyStringsPooled, Assumptions, PoolAssumption
<1> QED BY <1>1, <1>3, BeginKeeps, BeginSaves DEF IInv

\* So does a change of attributes.
LEMMA AttributeSteps ==
  ASSUME Assumptions, IInv, NEW p \in Props, NEW persist \in BOOLEAN, SetAttributes(p, persist),
         WillSave => WillSave'
  PROVE  IInv'
<1>1. /\ DataInv'
      /\ Saved => Saved' \/ (updated' /\ late')
      /\ updated => updated'
      /\ late => late'
      /\ UNCHANGED <<inbox, notified, missed, swallowed, pc>>
  BY AttributesKeep DEF IInv
<1>2. Asked => Asked'
  BY <1>1 DEF Asked
<1> QED BY <1>1, <1>2, SaveKeeps DEF IInv

-----------------------------------------------------------------------------
(* The hub, the save task and a restart. *)

\* The hub passes an update on to the save task.
LEMMA RelayStep ==
  ASSUME Assumptions, IInv, Relay
  PROVE  IInv'
<1>1. /\ inbox # <<>> /\ inbox' = Tail(inbox) /\ notified' = (notified \/ Head(inbox) = "update")
      /\ UNCHANGED <<db, strings, updated, transactions, pc, job, saver, log, late, missed, swallowed>>
  BY DEF Relay, store, hist
<1>2. Types /\ inbox \in Seq({"prop", "update"}) /\ Len(inbox) <= InboxLen /\ InboxLen \in Nat
  BY DEF IInv, DataInv, Types, Assumptions, TaskAssumption
<1>3. inbox' \in Seq({"prop", "update"}) /\ Len(inbox') <= InboxLen
  BY <1>1, <1>2
<1>4. {updated', notified', late', missed', swallowed'} \subseteq BOOLEAN
  BY <1>1, <1>2 DEF Types
<1>5. DataInv'
  BY <1>1, <1>3, <1>4, DataStays DEF IInv
<1>6. \A i \in DOMAIN inbox : i = 1 \/ (i - 1 \in DOMAIN inbox' /\ inbox'[i - 1] = inbox[i])
  BY <1>1, <1>2
<1>7. Head(inbox) = inbox[1]
  BY <1>1, <1>2
<1>8. Asked => Asked'
  BY <1>1, <1>6, <1>7 DEF Asked
<1>9. (Saved => Saved') /\ (WillSave => WillSave')
  BY <1>1 DEF Saved, Kept, WillSave
<1> QED BY <1>1, <1>5, <1>8, <1>9, SaveKeeps DEF IInv

\* The save task by itself: it only takes a notification with a save before it.
LEMMA SaverSteps ==
  ASSUME Assumptions, IInv,
         \/ SaverWake \/ SaverExpire \/ SaverSave \/ SaverReturn
         \/ SaverCount /\ Counter \notin DOMAIN db
         \/ SaverCounted /\ Counter \notin DOMAIN db
  PROVE  IInv'
<1>1. Types /\ inbox \in Seq({"prop", "update"}) /\ Len(inbox) <= InboxLen /\ IsPartial(db, Entries)
  BY DEF IInv, DataInv, Types
<1>2. CASE SaverWake \/ SaverExpire \/ SaverReturn \/ (SaverCount /\ Counter \notin DOMAIN db)
             \/ (SaverCounted /\ Counter \notin DOMAIN db)
  <2>1. UNCHANGED <<db, strings, updated, transactions, pc, job, inbox, log, late, missed>>
    BY <1>2 DEF SaverWake, SaverExpire, SaverReturn, SaverCount, SaverCounted, store, hist, wires
  <2>2. \/ saver' \in {"seed", "save", "timeout"} /\ notified' \in {notified, FALSE} /\ swallowed' = swallowed
        \/ saver = "return" /\ notified' = FALSE /\ swallowed' = (swallowed \/ notified)
    BY <1>2 DEF SaverWake, SaverExpire, SaverReturn, SaverCount, SaverCounted, store, hist, wires
  <2>3. {updated', notified', late', missed', swallowed'} \subseteq BOOLEAN
    BY <1>1, <2>1, <2>2 DEF Types
  <2>4. DataInv'
    BY <1>1, <2>1, <2>3, DataStays DEF IInv
  <2>5. CASE saver' \in {"seed", "save", "timeout"}
    BY <2>4, <2>5 DEF IInv, SaveInv, ChangesAreKnown, EventsAreKnown, WillSave
  <2>6. CASE saver = "return" /\ notified' = FALSE /\ swallowed' = (swallowed \/ notified)
    <3>1. (Saved => Saved') /\ (Asked => Asked') /\ ~WillSave
      BY <2>1, <2>6 DEF Saved, Kept, Asked, WillSave
    <3> QED BY <2>1, <2>4, <3>1, SaveKeeps DEF IInv
  <2> QED BY <2>2, <2>5, <2>6
<1>3. CASE SaverSave
  <2>1. /\ saver' = "return"
        /\ \/ log' = Persisted(db) /\ missed' = FALSE /\ swallowed' = FALSE
           \/ missed' = TRUE /\ UNCHANGED <<log, swallowed>>
        /\ UNCHANGED <<db, strings, updated, transactions, pc, job, inbox, notified, late>>
    BY <1>3 DEF SaverSave, store, wires
  <2>2. {updated', notified', late', missed', swallowed'} \subseteq BOOLEAN
    BY <1>1, <2>1 DEF Types
  <2>3. CASE missed' = TRUE /\ UNCHANGED <<log, swallowed>>
    <3>1. DataInv'
      BY <1>1, <2>1, <2>2, <2>3, DataStays DEF IInv
    <3>2. Asked'
      BY <2>3 DEF Asked
    <3> QED BY <3>1, <3>2 DEF IInv, SaveInv, ChangesAreKnown, EventsAreKnown
  <2>4. CASE log' = Persisted(db)
    <3>1. /\ DOMAIN log' = Kept(db) /\ IsPartial(log', Saveds)
          /\ \A p \in Kept(db) : log'[p] = [kind |-> db[p].kind, value |-> db[p].value]
      BY <1>1, <2>4, PersistedFields
    <3>2. \A p \in DOMAIN log' : p \in DOMAIN db /\ log'[p].kind = db[p].kind /\ log'[p].value = db[p].value
      <4>1. \A p \in Kept(db) : p \in DOMAIN db
        BY DEF Kept
      <4> HIDE DEF Kept
      <4>2. \A p \in Kept(db) : log'[p].kind = db[p].kind /\ log'[p].value = db[p].value
        BY <3>1
      <4> QED BY <3>1, <4>1, <4>2
    <3>3. Types' /\ CallsHaveProps'
      BY <1>1, <2>1, <2>2, <3>1 DEF IInv, DataInv, Types, IsPartial, CallsHaveProps
    <3>4. TransactionsAreCounted'
      BY <2>1 DEF IInv, DataInv, TransactionsAreCounted, InTransaction
    <3>5. StringsAreStrings'
      BY <2>1, <3>2 DEF IInv, DataInv, StringsAreStrings, OnlyStringsPooled
    <3>6. StringsAreApart'
      <4>1. Offered' = Offered
        BY <2>1 DEF Offered
      <4> QED BY <2>1, <3>2, <4>1 DEF IInv, DataInv, StringsAreApart, IsPooled
    <3>7. Saved'
      BY <2>1, <3>1 DEF Saved, Kept
    <3> QED BY <3>3, <3>4, <3>5, <3>6, <3>7 DEF IInv, DataInv, SaveInv, ChangesAreKnown, EventsAreKnown
  <2> QED BY <2>1, <2>3, <2>4
<1> QED BY <1>2, <1>3

\* The save task, with the properties it sets itself.
LEMMA SaverTaskSteps ==
  ASSUME Assumptions, IInv, SaverTask
  PROVE  IInv'
<1>1. Saver \in Tasks /\ pc \in [Tasks -> Pcs] /\ DOMAIN db \subseteq Props /\ Seed \in Props
  BY DEF IInv, DataInv, Types, IsPartial, Tasks, Assumptions, DefaultAssumption
<1>2. CASE SaverWake \/ SaverExpire \/ SaverSave \/ SaverReturn
             \/ (SaverCount /\ Counter \notin DOMAIN db) \/ (SaverCounted /\ Counter \notin DOMAIN db)
  BY <1>2, SaverSteps
<1>3. CASE SaverSeed \/ (SaverCount /\ Counter \in DOMAIN db)
  <2>1. PICK p \in Props, n \in Numbers : SetBegin(Saver, p, Number(n))
    BY <1>1, <1>3 DEF SaverSeed, SaverCount
  <2>2. Number(n) \in Entries /\ Number(n).value \notin Elements /\ OnlyStringsPooled(Number(n))
    BY <2>1, NewEntries DEF OnlyStringsPooled
  <2>3. DataInv'
    BY <1>1, <2>1, <2>2, BeginKeeps DEF IInv
  <2> QED BY <1>1, <2>1, <2>3, BeginSaves DEF IInv
<1>4. CASE SaverAttributes \/ (SaverCounted /\ Counter \in DOMAIN db)
  <2>1. PICK p \in Props : SetAttributes(p, TRUE) /\ saver' \in {"count", "timeout"}
    BY <1>1, <1>4 DEF SaverAttributes, SaverCounted
  <2>2. WillSave'
    BY <2>1 DEF WillSave
  <2> QED BY <2>1, <2>2, AttributeSteps
<1> QED BY <1>2, <1>3, <1>4 DEF SaverTask

\* What the log restores, with the strings of the log in elements of their own.
LEMMA RestartStep ==
  ASSUME Assumptions, IInv, Restart
  PROVE  IInv'
<1>1. /\ db' = Restored /\ strings' = {log[p].value : p \in DOMAIN log} \intersect Elements
      /\ updated' = \E p \in DOMAIN Restored : Restored[p].persist
      /\ transactions' = 0 /\ inbox' = <<>> /\ notified' = FALSE
      /\ pc' = [t \in Tasks |-> "idle"] /\ job' = [t \in Tasks |-> Idle]
      /\ missed' = FALSE /\ swallowed' = FALSE /\ late' = FALSE
      /\ log' = log
  BY DEF Restart
<1>2. IsPartial(log, Saveds) /\ \A p \in DOMAIN log : p \in Props /\ log[p] \in Saveds
  BY DEF IInv, DataInv, Types, IsPartial
<1>3. IsPartial(Defaults, Entries) /\ \A p \in DOMAIN Defaults : Defaults[p].value \notin Elements
  BY DefaultEntries
<1>4. \A p \in DOMAIN log : /\ Decoded(log[p]) \in Entries
                            /\ Decoded(log[p]).kind = log[p].kind /\ Decoded(log[p]).value = log[p].value
  BY <1>2 DEF Decoded, Entry, Entries, Saveds
<1>5. \A p \in DOMAIN log \intersect DOMAIN Defaults :
        /\ Merge(Defaults[p], Decoded(log[p])) \in Entries
        /\ Merge(Defaults[p], Decoded(log[p])).kind = log[p].kind
        /\ Merge(Defaults[p], Decoded(log[p])).value = log[p].value
  BY <1>3, <1>4, MergeFields DEF IsPartial
<1>6. /\ DOMAIN Restored = DOMAIN Defaults \union DOMAIN log
      /\ \A p \in DOMAIN Restored : Restored[p] \in Entries
    BY <1>3, <1>4, <1>5 DEF Restored, IsPartial
<1>7. \A p \in DOMAIN Restored : \/ p \in DOMAIN Defaults /\ Restored[p] = Defaults[p]
                                 \/ /\ p \in DOMAIN log /\ Restored[p].kind = log[p].kind
                                    /\ Restored[p].value = log[p].value
    BY <1>4, <1>5 DEF Restored
<1>8. IsPartial(Restored, Entries)
  <2>1. Restored = [p \in DOMAIN Restored |-> Restored[p]]
    BY DEF Restored
  <2> QED BY <1>2, <1>3, <1>6, <2>1 DEF IsPartial
<1>9. (\E p \in DOMAIN Restored : Restored[p].persist) \in BOOLEAN
  OBVIOUS
<1>10. Idle \in [prop : Props \union {Nil}, entry : Entries] /\ Idle.entry.value \notin Elements
  BY NewEntries DEF Idle
<1>11. Types'
  <2>1. IsPartial(db', Entries) /\ IsPartial(log', Saveds)
    BY <1>1, <1>2, <1>8
  <2>2. strings' \subseteq Elements /\ {updated', notified', late', missed', swallowed'} \subseteq BOOLEAN
    BY <1>1, <1>9
  <2>3. /\ pc' \in [Tasks -> Pcs]
        /\ job' \in [Tasks -> [prop : Props \union {Nil}, entry : Entries]]
    BY <1>1, <1>10 DEF Pcs
  <2>4. inbox' \in Seq({"prop", "update"}) /\ Len(inbox') <= InboxLen
    BY <1>1 DEF Assumptions, TaskAssumption
  <2> QED BY <2>1, <2>2, <2>3, <2>4 DEF Types, IsPartial
<1>12. \A t \in Tasks : pc'[t] = "idle" /\ job'[t] = Idle
  BY <1>1
<1>13. CallsHaveProps'
  BY <1>12 DEF CallsHaveProps
<1>14. TransactionsAreCounted'
  <2>1. InTransaction' = {}
    BY <1>12 DEF InTransaction
  <2> QED BY <1>1, <2>1, FS_EmptySet DEF TransactionsAreCounted
<1>15. StringsAreStrings'
  <2>1. \A p \in DOMAIN db' : db'[p].value \in Elements => db'[p].kind = "string"
    BY <1>1, <1>3, <1>7 DEF IInv, DataInv, StringsAreStrings, OnlyStringsPooled
  <2> QED BY <1>1, <1>10, <1>12, <2>1 DEF IInv, DataInv, StringsAreStrings, OnlyStringsPooled
<1>16. Offered' = {}
  BY <1>12 DEF Offered
<1>17. \A p \in DOMAIN db' : IsPooled(db'[p]) =>
         p \in DOMAIN log /\ IsPooled(log[p]) /\ db'[p].value = log[p].value
  BY <1>1, <1>3, <1>7 DEF IsPooled
<1>18. StringsAreApart'
  <2>1. \A p \in DOMAIN db' : IsPooled(db'[p]) => db'[p].value \in strings'
    BY <1>1, <1>17 DEF IsPooled
  <2>2. \A p, q \in DOMAIN log : IsPooled(log[p]) /\ IsPooled(log[q]) /\ log[p].value = log[q].value => p = q
    BY DEF IInv, DataInv, StringsAreApart
  <2>3. \A p, q \in DOMAIN db' : IsPooled(db'[p]) /\ IsPooled(db'[q]) /\ db'[q].value = db'[p].value => q = p
    BY <1>17, <2>2
  <2>4. \A p, q \in DOMAIN log' : IsPooled(log'[p]) /\ IsPooled(log'[q]) /\ log'[p].value = log'[q].value => p = q
    BY <1>1, <2>2
  <2> QED BY <1>16, <2>1, <2>3, <2>4 DEF StringsAreApart
<1>19. SaveInv'
  <2>1. ~(\E t \in Tasks : pc'[t] = "clear")
    BY <1>12
  <2>2. updated' \/ \A p \in DOMAIN db' : ~db'[p].persist
    BY <1>1
  <2>3. updated' \/ Saved'
    BY <2>2 DEF Saved, Kept
  <2> QED BY <2>1, <2>3 DEF SaveInv, ChangesAreKnown, EventsAreKnown
<1> QED BY <1>11, <1>13, <1>14, <1>15, <1>18, <1>19 DEF IInv, DataInv

-----------------------------------------------------------------------------
(* The invariant, and what it says. *)

\* The program starts with the defaults and nothing open.
LEMMA Starts ==
  ASSUME Assumptions, Init
  PROVE  IInv
<1>1. IsPartial(Defaults, Entries) /\ \A p \in DOMAIN Defaults : Defaults[p].value \notin Elements
  BY DefaultEntries
<1>2. Idle \in [prop : Props \union {Nil}, entry : Entries] /\ Idle.entry.value \notin Elements
  BY NewEntries DEF Idle
<1>3. log = << >> /\ DOMAIN log = {}
  BY DEF Init
<1>4. IsPartial(log, Saveds)
  BY <1>3 DEF IsPartial
<1>5. updated \in BOOLEAN
  BY DEF Init
<1>6. Types
  <2>1. inbox \in Seq({"prop", "update"}) /\ Len(inbox) <= InboxLen
    BY DEF Init, Assumptions, TaskAssumption
  <2>2. /\ pc \in [Tasks -> Pcs]
        /\ job \in [Tasks -> [prop : Props \union {Nil}, entry : Entries]]
    BY <1>2 DEF Init, Pcs
  <2> QED BY <1>1, <1>4, <1>5, <2>1, <2>2 DEF Init, Types
<1>7. \A t \in Tasks : pc[t] = "idle" /\ job[t] = Idle
  BY DEF Init
<1>8. CallsHaveProps
  BY <1>7 DEF CallsHaveProps
<1>9. TransactionsAreCounted
  <2>1. InTransaction = {}
    BY <1>7 DEF InTransaction
  <2> QED BY <2>1, FS_EmptySet DEF Init, TransactionsAreCounted
<1>10. StringsAreStrings
  BY <1>1, <1>2, <1>3, <1>7 DEF Init, StringsAreStrings, OnlyStringsPooled
<1>11. StringsAreApart
  <2>1. Offered = {}
    BY <1>7 DEF Offered
  <2> QED BY <1>1, <1>3, <2>1 DEF Init, StringsAreApart, IsPooled
<1>12. SaveInv
  <2>1. updated \/ Saved
    BY DEF Init, Saved, Kept
  <2> QED BY <1>7, <2>1 DEF SaveInv, ChangesAreKnown, EventsAreKnown
<1> QED BY <1>6, <1>8, <1>9, <1>10, <1>11, <1>12 DEF IInv, DataInv

\* Every step keeps it.
LEMMA Steps ==
  ASSUME Assumptions, IInv, [Next]_vars
  PROVE  IInv'
<1>1. CASE \E t \in Tasks : Set(t)
  BY <1>1, SetSteps
<1>2. CASE \E t \in Writers : Write(t)
  BY <1>2, WriteSteps
<1>3. CASE \E p \in Props \ {Seed} : ChangeAttributes(p)
  <2>1. PICK p \in Props, persist \in BOOLEAN : SetAttributes(p, persist) /\ saver' = saver
    BY <1>3 DEF ChangeAttributes
  <2> QED BY <2>1, AttributeSteps DEF WillSave
<1>4. CASE Relay
  BY <1>4, RelayStep
<1>5. CASE SaverTask
  BY <1>5, SaverTaskSteps
<1>6. CASE Restart
  BY <1>6, RestartStep
<1>7. CASE UNCHANGED vars
  <2>1. UNCHANGED <<db, strings, updated, transactions, pc, job, inbox, notified, saver, log, late, missed, swallowed>>
    BY <1>7 DEF vars, store, wires, hist
  <2>2. Types /\ inbox \in Seq({"prop", "update"}) /\ Len(inbox) <= InboxLen
        /\ {updated, notified, late, missed, swallowed} \subseteq BOOLEAN
    BY DEF IInv, DataInv, Types
  <2>3. DataInv'
    BY <2>1, <2>2, DataStays DEF IInv
  <2>4. SaveInv'
    BY <2>1 DEF IInv, SaveInv, ChangesAreKnown, EventsAreKnown, Saved, Kept, Asked, WillSave
  <2> QED BY <2>3, <2>4 DEF IInv
<1> QED BY <1>1, <1>2, <1>3, <1>4, <1>5, <1>6, <1>7 DEF Next

\* The inductive invariant of the database and its save task holds in every state.
THEOREM Invariance ==
  ASSUME Assumptions
  PROVE  Spec => []IInv
BY Starts, Steps, PTL DEF Spec

\* What the invariant says of the sizes.
LEMMA InvTypes ==
  ASSUME Assumptions, IInv
  PROVE  TypeOK
<1>1. IsFiniteSet(Tasks)
  BY FS_AddElement DEF Assumptions, TaskAssumption, Tasks
<1>2. InTransaction \subseteq Tasks
  BY DEF InTransaction
<1>3. transactions \in 0..Cardinality(Tasks)
  BY <1>1, <1>2, FS_Subset, FS_CardinalityType DEF IInv, DataInv, TransactionsAreCounted
<1> QED BY <1>3 DEF IInv, DataInv, Types, IsPartial, TypeOK

\* What it says of the strings.
LEMMA InvStrings ==
  ASSUME IInv
  PROVE  StringsAreOwned
BY DEF IInv, DataInv, StringsAreApart, StringsAreOwned, Owned, IsPooled

\* What it says of the changes to save.
LEMMA InvPending ==
  ASSUME IInv
  PROVE  UnsavedIsPending
<1>1. /\ DOMAIN Persisted(db) = Kept(db)
      /\ \A p \in Kept(db) : Persisted(db)[p] = [kind |-> db[p].kind, value |-> db[p].value]
  BY PersistedFields DEF IInv, DataInv, Types
<1>2. Saved => \A p \in DOMAIN Persisted(db) : p \in DOMAIN log /\ log[p] = Persisted(db)[p]
  BY <1>1 DEF Saved
<1>3. WillSave => saver # "wait"
  BY DEF WillSave
<1> QED BY <1>2, <1>3 DEF IInv, SaveInv, ChangesAreKnown, Asked, UnsavedIsPending, UpdatesAreSaved

\* TypeOK: there are never more transactions open than tasks, and the count of
\* prop_db.c never goes below zero, whatever the tasks' order.
THEOREM TypeCorrect ==
  ASSUME Assumptions
  PROVE  Spec => []TypeOK
BY Invariance, InvTypes, PTL

\* StringsAreOwned: the string of a property is in use, and in no other property or
\* call, whoever replaces or removes what, over restarts.
THEOREM StringsAreKept ==
  ASSUME Assumptions
  PROVE  Spec => []StringsAreOwned
BY Invariance, InvStrings, PTL

\* UnsavedIsPending: a persistent property that differs from the log is on its way to
\* it, but for what history says was lost.
THEOREM UnsavedChangesArePending ==
  ASSUME Assumptions
  PROVE  Spec => []UnsavedIsPending
BY Invariance, InvPending, PTL

-----------------------------------------------------------------------------
(* The memory pools: arithmetic of their layout. *)

\* A size rounded up is the smallest multiple of the alignment that is as large.
LEMMA RoundsUp ==
  ASSUME NEW n \in Nat, NEW a \in Nat \ {0}
  PROVE  RoundUp(n, a) \in Nat /\ n <= RoundUp(n, a) /\ RoundUp(n, a) <= n + a - 1
<1> DEFINE q == (n + a - 1) \div a
           m == (n + a - 1) % a
<1>1. q \in Nat /\ m \in 0..(a - 1)
  OBVIOUS
<1>2. n + a - 1 = q * a + m
  OBVIOUS
<1>3. q * a \in Nat
  BY <1>1
<1>4. RoundUp(n, a) = q * a
  BY DEF RoundUp
<1> HIDE DEF q, m
<1> QED BY <1>1, <1>2, <1>3, <1>4

\* Division with its remainder.
LEMMA Division ==
  ASSUME NEW x \in Nat, NEW y \in Nat \ {0}
  PROVE  x \div y \in Nat /\ x % y \in 0..(y - 1) /\ x = (x \div y) * y + (x % y)
OBVIOUS

\* Multiples of a size: their number, and that none comes twice.
LEMMA Multiples ==
  ASSUME NEW n \in Nat, NEW s \in Nat \ {0}
  PROVE  /\ n * s \in Nat
         /\ (n * s) \div s = n
         /\ (n * s) % s = 0
         /\ n > 0 => s <= n * s
         /\ \A i \in 0..(n - 1) : i * s + s <= n * s
         /\ \A i, j \in Nat : i * s = j * s => i = j
<1>1. n * s \in Nat
  OBVIOUS
<1>2. \A i, j \in Nat : i < j => i * s + s <= j * s
  <2> SUFFICES ASSUME NEW i \in Nat, NEW j \in Nat, i < j PROVE i * s + s <= j * s
    OBVIOUS
  <2>1. PICK d \in Nat : j = i + 1 + d
    <3>1. j - i - 1 \in Nat /\ j = i + 1 + (j - i - 1)
      OBVIOUS
    <3> QED BY <3>1
  <2>2. j * s = i * s + s + d * s /\ d * s \in Nat /\ i * s \in Nat
    BY <2>1
  <2> QED BY <2>2
<1>3. \A i, j \in Nat : i * s = j * s => i = j
  <2> SUFFICES ASSUME NEW i \in Nat, NEW j \in Nat, i # j PROVE i * s # j * s
    OBVIOUS
  <2>1. i * s \in Nat /\ j * s \in Nat
    OBVIOUS
  <2> QED BY <1>2, <2>1
<1>4. (n * s) \div s = n /\ (n * s) % s = 0
  <2> DEFINE x == n * s
             q == x \div s
             r == x % s
  <2>1. q \in Nat /\ r \in 0..(s - 1) /\ x = q * s + r
    BY <1>1
  <2>2. x = n * s /\ q * s \in Nat /\ x \in Nat
    BY <1>1, <2>1
  <2> HIDE DEF x, q, r
  <2>3. CASE q < n
    <3>1. q * s + s <= n * s
      BY <1>2, <2>1, <2>3
    <3> QED BY <2>1, <2>2, <3>1
  <2>4. CASE n < q
    <3>1. n * s + s <= q * s
      BY <1>2, <2>1, <2>4
    <3> QED BY <2>1, <2>2, <3>1
  <2>5. CASE q = n
    <3>1. r = 0
      BY <2>1, <2>2, <2>5
    <3> QED BY <2>5, <3>1 DEF q, r, x
  <2> QED BY <2>1, <2>3, <2>4, <2>5
<1>5. n > 0 => s <= n * s
  <2>1. 0 < n => 0 * s + s <= n * s
    BY <1>2
  <2> QED BY <2>1
<1>6. \A i \in 0..(n - 1) : i * s + s <= n * s
  BY <1>2
<1> QED BY <1>1, <1>3, <1>4, <1>5, <1>6

\* Where the elements of a pool are, and how many fit.
PoolBegin(p) == Layout(Kinds[p]).begin
PoolEnd(p) == Layout(Kinds[p]).end
PoolSize(p) == Layout(Kinds[p]).size
PoolTotal(p) == (PoolEnd(p) - PoolBegin(p)) \div PoolSize(p)
Slots(p) == {PoolBegin(p) + i * PoolSize(p) : i \in 0..(PoolTotal(p) - 1)}

\* The elements of a pool, at least one, are in its memory.
LEMMA LayoutFits ==
  ASSUME SizeAssumption, NEW p \in DOMAIN Kinds
  PROVE  /\ PoolBegin(p) \in Nat /\ PoolSize(p) \in Nat \ {0} /\ PoolTotal(p) \in Nat \ {0}
         /\ PoolEnd(p) = PoolBegin(p) + PoolTotal(p) * PoolSize(p)
         /\ PoolBegin(p) >= Kinds[p].at + Header /\ PoolEnd(p) <= Kinds[p].at + Kinds[p].len
<1> DEFINE k == Kinds[p]
           at == IF k.static THEN RoundUp(k.at, 8) ELSE k.at
           size == RoundUp(k.size, k.align)
           len == k.len - (at - k.at)
           n == IF k.static THEN (len - (Header + k.align - 1)) \div size ELSE k.elements
           begin == RoundUp(at + Header, k.align)
<1>1. /\ k.at \in Nat /\ k.len \in Nat /\ k.elements \in Nat /\ k.static \in BOOLEAN
      /\ k.size \in Nat \ {0} /\ k.align \in Nat \ {0}
  BY DEF SizeAssumption
<1>r. /\ k.static => RoundUp(k.at, 8) + (Header + k.align - 1 + 1 * size) <= k.at + k.len
      /\ ~k.static => k.elements > 0 /\ Header + k.align - 1 + k.elements * size <= k.len
  BY DEF SizeAssumption
<1>2. size \in Nat \ {0}
  <2>1. size \in Nat /\ k.size <= size
    <3>1. k.size \in Nat /\ k.align \in Nat \ {0}
      BY <1>1
    <3> HIDE DEF k
    <3> QED BY <3>1, RoundsUp
  <2> HIDE DEF size
  <2> QED BY <1>1, <2>1
<1>3. at \in Nat /\ k.at <= at
  BY <1>1, RoundsUp
<1>4. at + Header \in Nat /\ Header \in Nat
  BY <1>3 DEF SizeAssumption
<1>5. begin \in Nat /\ at + Header <= begin /\ begin <= at + Header + k.align - 1
  BY <1>1, <1>4, RoundsUp
<1>6. Layout(k) = [begin |-> begin, end |-> begin + n * size, size |-> size]
  BY DEF Layout
<1>u. k.static => at = RoundUp(k.at, 8)
  OBVIOUS
<1>v. ~k.static => at = k.at /\ n = k.elements
  OBVIOUS
<1> HIDE DEF size, at
<1>7. n \in Nat \ {0} /\ at + Header + k.align - 1 + n * size <= k.at + k.len
  <2> DEFINE room == len - (Header + k.align - 1)
  <2>1. CASE ~k.static
    <3>1. n * size \in Nat
      BY <1>1, <1>2, <1>v, <2>1
    <3>2. Header + k.align - 1 + n * size <= k.len /\ n > 0
      BY <1>r, <1>v, <2>1
    <3> HIDE DEF n
    <3> QED BY <1>1, <1>4, <1>v, <2>1, <3>1, <3>2
  <2>2. CASE k.static
    <3>1. at = RoundUp(k.at, 8) /\ n = room \div size
      BY <1>u, <2>2
    <3>2. room \in Nat /\ size <= room
      <4>1. at + (Header + k.align - 1 + size) <= k.at + k.len
        BY <1>1, <1>2, <1>r, <2>2, <3>1
      <4> QED BY <1>1, <1>2, <1>4, <1>3, <4>1
    <3> HIDE DEF room
    <3>3. n \in Nat /\ n * size <= room /\ room < n * size + size
      <4> DEFINE r == room % size
      <4>1. room \div size \in Nat /\ r \in 0..(size - 1) /\ room = (room \div size) * size + r
        BY <1>2, <3>2, Division
      <4>2. n * size \in Nat /\ n \in Nat
        BY <1>2, <3>1, <4>1
      <4> HIDE DEF r, n, size
      <4> QED BY <1>2, <3>1, <3>2, <4>1, <4>2
    <3>4. n # 0
      BY <1>2, <3>2, <3>3
    <3>5. room = k.len - (at - k.at) - (Header + k.align - 1)
      BY DEF room
    <3>6. n * size \in Nat
      BY <1>2, <3>3
    <3> HIDE DEF n, size, at
    <3> QED BY <1>1, <1>2, <1>3, <1>4, <3>3, <3>4, <3>5, <3>6
  <2> QED BY <1>1, <2>1, <2>2
<1>8. /\ PoolBegin(p) = begin /\ PoolSize(p) = size
      /\ PoolEnd(p) = begin + n * size
  BY <1>6 DEF PoolBegin, PoolSize, PoolEnd
<1> HIDE DEF begin, size, n, at
<1>9. n * size \in Nat
  BY <1>2, <1>7
<1>10. PoolTotal(p) = n
  <2>1. (begin + n * size) - begin = n * size
    BY <1>5, <1>9
  <2>2. (n * size) \div size = n
    BY <1>2, <1>7, Multiples
  <2> QED BY <1>8, <2>1, <2>2 DEF PoolTotal
<1> QED BY <1>1, <1>2, <1>3, <1>4, <1>5, <1>7, <1>8, <1>9, <1>10

\* An element lies in its pool, at a multiple of the size.
LEMMA SlotsLie ==
  ASSUME SizeAssumption, NEW p \in DOMAIN Kinds, NEW x \in Slots(p)
  PROVE  /\ x \in Nat /\ PoolBegin(p) <= x /\ x < PoolEnd(p)
         /\ (x - PoolBegin(p)) % PoolSize(p) = 0
<1> DEFINE b == PoolBegin(p)
           s == PoolSize(p)
           n == PoolTotal(p)
<1>1. PICK i \in 0..(n - 1) : x = b + i * s
  BY DEF Slots
<1>2. b \in Nat /\ s \in Nat \ {0} /\ n \in Nat \ {0} /\ PoolEnd(p) = b + n * s
  BY LayoutFits
<1> HIDE DEF b, s, n
<1>3. i * s + s <= n * s /\ n * s \in Nat
  BY <1>1, <1>2, Multiples
<1>4. i \in Nat /\ i * s \in Nat /\ (i * s) % s = 0
  BY <1>1, <1>2, Multiples
<1>5. x - b = i * s
  BY <1>1, <1>2, <1>4
<1> QED BY <1>1, <1>2, <1>3, <1>4, <1>5 DEF b, s

\* No address is in the memory of two pools.
LEMMA SlotsApart ==
  ASSUME SizeAssumption, NEW p \in DOMAIN Kinds, NEW q \in DOMAIN Kinds, p # q, NEW x \in Nat,
         PoolBegin(p) <= x, x < PoolEnd(p), PoolBegin(q) <= x, x < PoolEnd(q)
  PROVE  FALSE
<1>1. /\ Kinds[p].at \in Nat /\ Kinds[p].len \in Nat
      /\ Kinds[q].at \in Nat /\ Kinds[q].len \in Nat
      /\ Kinds[p].at + Kinds[p].len <= Kinds[q].at \/ Kinds[q].at + Kinds[q].len <= Kinds[p].at
  BY DEF SizeAssumption
<1>2. /\ PoolBegin(p) \in Nat /\ PoolBegin(q) \in Nat /\ PoolEnd(p) <= Kinds[p].at + Kinds[p].len
      /\ PoolEnd(q) <= Kinds[q].at + Kinds[q].len /\ PoolBegin(p) >= Kinds[p].at + Header
      /\ PoolBegin(q) >= Kinds[q].at + Header
  BY LayoutFits
<1>3. PoolEnd(p) \in Nat /\ PoolEnd(q) \in Nat
  <2>1. \A r \in DOMAIN Kinds : PoolTotal(r) * PoolSize(r) \in Nat
    BY LayoutFits, Multiples
  <2> QED BY <2>1, LayoutFits
<1> QED BY <1>1, <1>2, <1>3 DEF SizeAssumption

\* mp__init_pool links every element of the pool once.
LEMMA ChunksAre ==
  ASSUME SizeAssumption, NEW p \in DOMAIN Kinds
  PROVE  LET c == Chunks(Layout(Kinds[p]))
         IN  /\ c \in Seq(Nat) /\ Len(c) = PoolTotal(p)
             /\ \A i, j \in DOMAIN c : i # j => c[i] # c[j]
             /\ {c[i] : i \in DOMAIN c} = Slots(p)
<1> DEFINE c == Chunks(Layout(Kinds[p]))
           b == PoolBegin(p)
           s == PoolSize(p)
           n == PoolTotal(p)
<1>1. b \in Nat /\ s \in Nat \ {0} /\ n \in Nat \ {0}
  BY LayoutFits
<1>2. c = [i \in 1..n |-> b + (i - 1) * s]
  <2>1. c = [i \in 1..(IF n = 0 THEN 1 ELSE n) |-> b + (i - 1) * s]
    BY DEF Chunks, PoolBegin, PoolEnd, PoolSize, PoolTotal
  <2> HIDE DEF c, b, s, n
  <2> QED BY <1>1, <2>1
<1>3. Slots(p) = {b + i * s : i \in 0..(n - 1)}
  BY DEF Slots
<1> HIDE DEF c, b, s, n
<1>4. \A i \in 1..n : /\ i - 1 \in 0..(n - 1) /\ i - 1 \in Nat
                     /\ (i - 1) * s \in Nat /\ b + (i - 1) * s \in Nat
  <2> SUFFICES ASSUME NEW i \in 1..n
               PROVE  /\ i - 1 \in 0..(n - 1) /\ i - 1 \in Nat
                      /\ (i - 1) * s \in Nat /\ b + (i - 1) * s \in Nat
    OBVIOUS
  <2>1. i - 1 \in 0..(n - 1) /\ i - 1 \in Nat
    BY <1>1
  <2>2. (i - 1) * s \in Nat
    BY <1>1, <2>1, Multiples
  <2> QED BY <1>1, <2>1, <2>2
<1>5. c \in Seq(Nat) /\ Len(c) = n /\ DOMAIN c = 1..n
  <2>1. c \in [1..n -> Nat]
    BY <1>2, <1>4
  <2> QED BY <1>1, <2>1
<1>6. ASSUME NEW i \in DOMAIN c, NEW j \in DOMAIN c, c[i] = c[j] PROVE i = j
  <2>0. i \in 1..n /\ j \in 1..n /\ b + (i - 1) * s = b + (j - 1) * s
    BY <1>2, <1>5, <1>6
  <2>1. (i - 1) * s = (j - 1) * s
    BY <1>1, <1>4, <2>0
  <2>2. i - 1 = j - 1
    BY <1>1, <1>4, <1>5, <2>1, Multiples
  <2> QED BY <1>4, <1>5, <2>2
<1>7. {c[i] : i \in DOMAIN c} = Slots(p)
  <2>1. ASSUME NEW x \in Slots(p) PROVE \E i \in 1..n : c[i] = x
    <3>1. PICK i \in 0..(n - 1) : x = b + i * s
      BY <1>3, <2>1
    <3>2. i + 1 \in 1..n /\ (i + 1) - 1 = i
      BY <1>1, <3>1
    <3> QED BY <1>2, <3>1, <3>2
  <2>2. \A i \in 1..n : c[i] \in Slots(p)
    BY <1>2, <1>3, <1>4
  <2> QED BY <1>5, <2>1, <2>2
<1> QED BY <1>5, <1>6, <1>7 DEF c, n

\* A set of places has a first and, as long as the list is, a last one.
LEMMA Extremes ==
  ASSUME NEW n \in Nat, NEW S \in SUBSET (1..n), S # {}
  PROVE  /\ Min(S) \in S /\ \A i \in S : Min(S) <= i
         /\ Max(S) \in S
<1> DEFINE R == OpToRel(<, Nat)
<1>1. \A i, j \in Nat : <<j, i>> \in R <=> j < i
  BY DEF OpToRel
<1>2. IsWellFoundedOn(R, Nat)
  BY NatLessThanWellFounded
<1> HIDE DEF R
<1>3. \A T \in SUBSET Nat : T # {} => \E i \in T : \A j \in T : i <= j
  <2> SUFFICES ASSUME NEW T \in SUBSET Nat, T # {} PROVE \E i \in T : \A j \in T : i <= j
    OBVIOUS
  <2>1. PICK i \in T : \A j \in T : ~(<<j, i>> \in R)
    BY <1>2, WFMin, Zenon
  <2>2. \A j \in T : ~(j < i)
    BY <1>1, <2>1
  <2> QED BY <2>2
<1>4. \E i \in S : \A j \in S : i <= j
  <2>1. S \in SUBSET Nat
    OBVIOUS
  <2> QED BY <1>3, <2>1
<1>5. \E i \in S : \A j \in S : i >= j
  <2> DEFINE T == {n - i : i \in S}
  <2>0. \A i \in S : n - i \in Nat
    OBVIOUS
  <2>1. T \in SUBSET Nat /\ T # {}
    BY <2>0
  <2>2. PICK t \in T : \A u \in T : t <= u
    BY <1>3, <2>1
  <2>3. PICK i \in S : t = n - i
    OBVIOUS
  <2>4. \A j \in S : n - i <= n - j
    BY <2>2, <2>3
  <2> QED BY <2>4
<1> QED BY <1>4, <1>5 DEF Min, Max

-----------------------------------------------------------------------------
(* What holds of the pools even where clients take counted elements. *)

\* Every pool is where it was made; the list has them in order of size.
Records(pl) ==
  /\ DOMAIN pl \subseteq DOMAIN Kinds
  /\ \A p \in DOMAIN pl :
       pl[p] \in [begin : {PoolBegin(p)}, end : {PoolEnd(p)}, size : {PoolSize(p)},
                  free : Seq(Nat), spare : Int, low : Int, disabled : BOOLEAN]

InOrder(s) ==
  \A i, j \in DOMAIN s : i < j => s[i] # s[j] /\ PoolSize(s[i]) <= PoolSize(s[j])

PoolInv ==
  /\ Records(pool)
  /\ set \in Seq(DOMAIN pool) /\ InOrder(set)
  /\ held \subseteq [ptr : Nat, mark : Marks, counted : BOOLEAN]

\* Taking an element and giving one back change a pool's list and nothing of its place.
LEMMA Takes ==
  ASSUME NEW pl, Records(pl), NEW p \in DOMAIN pl, pl[p].free # <<>>
  PROVE  /\ Records(Take(pl, p)) /\ DOMAIN Take(pl, p) = DOMAIN pl
         /\ Take(pl, p)[p].free = Tail(pl[p].free)
         /\ Take(pl, p)[p].spare = pl[p].spare - 1
         /\ Take(pl, p)[p].low \in {pl[p].low, pl[p].spare - 1}
         /\ Take(pl, p)[p].low <= pl[p].spare - 1
         /\ \A q \in DOMAIN pl : q # p => Take(pl, p)[q] = pl[q]
<1> DEFINE t == Take(pl, p)
<1>1. /\ pl[p] \in [begin : {PoolBegin(p)}, end : {PoolEnd(p)}, size : {PoolSize(p)},
                    free : Seq(Nat), spare : Int, low : Int, disabled : BOOLEAN]
  BY DEF Records
<1>2. Tail(pl[p].free) \in Seq(Nat)
  BY <1>1
<1>3. t = [pl EXCEPT ![p] = [pl[p] EXCEPT !.free = Tail(pl[p].free), !.spare = pl[p].spare - 1,
              !.low = IF pl[p].spare - 1 < pl[p].low THEN pl[p].spare - 1 ELSE pl[p].low]]
  BY <1>1 DEF Take
<1> HIDE DEF t
<1>4. DOMAIN t = DOMAIN pl /\ \A q \in DOMAIN pl : q # p => t[q] = pl[q]
  BY <1>3
<1>5. /\ t[p] \in [begin : {PoolBegin(p)}, end : {PoolEnd(p)}, size : {PoolSize(p)},
                    free : Seq(Nat), spare : Int, low : Int, disabled : BOOLEAN]
      /\ t[p].free = Tail(pl[p].free) /\ t[p].spare = pl[p].spare - 1
      /\ t[p].low \in {pl[p].low, pl[p].spare - 1} /\ t[p].low <= pl[p].spare - 1
  <2> DEFINE f == Tail(pl[p].free)
             n == pl[p].spare - 1
             l == IF pl[p].spare - 1 < pl[p].low THEN pl[p].spare - 1 ELSE pl[p].low
  <2>1. t[p] = [pl[p] EXCEPT !.free = f, !.spare = n, !.low = l]
    BY <1>3
  <2>2. f \in Seq(Nat) /\ n \in Int /\ l \in Int /\ l <= n /\ l \in {pl[p].low, n}
    BY <1>1, <1>2
  <2>3. f = Tail(pl[p].free) /\ n = pl[p].spare - 1
    OBVIOUS
  <2> HIDE DEF f, n, l
  <2>4. t[p] = [begin |-> pl[p].begin, end |-> pl[p].end, size |-> pl[p].size, free |-> f,
                spare |-> n, low |-> l, disabled |-> pl[p].disabled]
    BY <1>1, <2>1
  <2>5. t[p] \in [begin : {PoolBegin(p)}, end : {PoolEnd(p)}, size : {PoolSize(p)},
                  free : Seq(Nat), spare : Int, low : Int, disabled : BOOLEAN]
    BY <1>1, <2>2, <2>4
  <2>6. t[p].free = f /\ t[p].spare = n /\ t[p].low = l
    BY <2>4
  <2> QED BY <2>2, <2>3, <2>5, <2>6
<1>6. Records(t)
  BY <1>4, <1>5 DEF Records
<1> QED BY <1>4, <1>5, <1>6 DEF t

\* Giving one back.
LEMMA Gives ==
  ASSUME NEW pl, Records(pl), NEW p \in DOMAIN pl, NEW at \in Nat
  PROVE  /\ Records(Give(pl, p, at)) /\ DOMAIN Give(pl, p, at) = DOMAIN pl
         /\ Give(pl, p, at)[p].free = <<at>> \o pl[p].free
         /\ Give(pl, p, at)[p].spare = pl[p].spare + 1
         /\ Give(pl, p, at)[p].low = pl[p].low
         /\ \A q \in DOMAIN pl : q # p => Give(pl, p, at)[q] = pl[q]
<1> DEFINE t == Give(pl, p, at)
<1>1. /\ pl[p] \in [begin : {PoolBegin(p)}, end : {PoolEnd(p)}, size : {PoolSize(p)},
                    free : Seq(Nat), spare : Int, low : Int, disabled : BOOLEAN]
  BY DEF Records
<1>2. <<at>> \o pl[p].free \in Seq(Nat)
  BY <1>1
<1>3. t = [pl EXCEPT ![p] = [pl[p] EXCEPT !.free = <<at>> \o pl[p].free, !.spare = pl[p].spare + 1]]
  BY <1>1 DEF Give
<1> HIDE DEF t
<1>4. DOMAIN t = DOMAIN pl /\ \A q \in DOMAIN pl : q # p => t[q] = pl[q]
  BY <1>3
<1>5. /\ t[p] \in [begin : {PoolBegin(p)}, end : {PoolEnd(p)}, size : {PoolSize(p)},
                    free : Seq(Nat), spare : Int, low : Int, disabled : BOOLEAN]
      /\ t[p].free = <<at>> \o pl[p].free /\ t[p].spare = pl[p].spare + 1
      /\ t[p].low = pl[p].low
  <2> DEFINE f == <<at>> \o pl[p].free
             n == pl[p].spare + 1
  <2>1. t[p] = [pl[p] EXCEPT !.free = f, !.spare = n]
    BY <1>3
  <2>2. f \in Seq(Nat) /\ n \in Int
    BY <1>1, <1>2
  <2>3. f = <<at>> \o pl[p].free /\ n = pl[p].spare + 1
    OBVIOUS
  <2> HIDE DEF f, n
  <2>4. t[p] = [begin |-> pl[p].begin, end |-> pl[p].end, size |-> pl[p].size, free |-> f,
                spare |-> n, low |-> pl[p].low, disabled |-> pl[p].disabled]
    BY <1>1, <2>1
  <2>5. t[p] \in [begin : {PoolBegin(p)}, end : {PoolEnd(p)}, size : {PoolSize(p)},
                  free : Seq(Nat), spare : Int, low : Int, disabled : BOOLEAN]
    BY <1>1, <2>2, <2>4
  <2>6. t[p].free = f /\ t[p].spare = n /\ t[p].low = pl[p].low
    BY <2>4
  <2> QED BY <2>3, <2>5, <2>6
<1>6. Records(t)
  BY <1>4, <1>5 DEF Records
<1> QED BY <1>4, <1>5, <1>6 DEF t

\* What a list holds.
Members(s) == {s[i] : i \in DOMAIN s}

\* mp_add_pool puts a pool where the order asks for it.
LEMMA Placed ==
  ASSUME SizeAssumption, Records(pool)', NEW D, D \subseteq DOMAIN pool', NEW s \in Seq(D), InOrder(s),
         NEW p \in DOMAIN pool' \ D
  PROVE  /\ Place(s, p) \in Seq(D \cup {p}) /\ InOrder(Place(s, p))
         /\ Members(Place(s, p)) = Members(s) \cup {p}
<1> DEFINE n == Len(s)
           larger == {i \in 1..n : PoolSize(s[i]) > PoolSize(p)}
           m == IF larger = {} THEN n + 1 ELSE Min(larger)
           t == Place(s, p)
<1>1. n \in Nat /\ DOMAIN s = 1..n /\ \A i \in 1..n : s[i] \in D
  OBVIOUS
<1>2. \A q \in DOMAIN pool' : pool'[q].size = PoolSize(q) /\ PoolSize(q) \in Nat
  <2>1. \A q \in DOMAIN pool' : pool'[q].size = PoolSize(q) /\ q \in DOMAIN Kinds
    BY DEF Records
  <2> QED BY <2>1, LayoutFits
<1>3. larger = {i \in DOMAIN s : pool'[s[i]].size > pool'[p].size}
  BY <1>1, <1>2
<1>z. PoolSize(p) \in Nat /\ \A i \in 1..n : PoolSize(s[i]) \in Nat
  BY <1>1, <1>2
<1>4. /\ m \in 1..(n + 1)
      /\ \A i \in 1..n : i < m => PoolSize(s[i]) <= PoolSize(p)
      /\ \A i \in 1..n : i >= m => PoolSize(p) <= PoolSize(s[i])
  <2>1. CASE larger = {}
    <3>1. m = n + 1 /\ \A i \in 1..n : PoolSize(s[i]) <= PoolSize(p)
      BY <1>z, <2>1
    <3> HIDE DEF m, n
    <3> QED BY <1>1, <3>1
  <2>2. CASE larger # {}
    <3>1. m = Min(larger) /\ m \in larger /\ \A i \in larger : m <= i
      BY <1>1, <2>2, Extremes
    <3>2. m \in 1..n /\ PoolSize(s[m]) > PoolSize(p)
      BY <3>1
    <3>3. \A i \in 1..n : i < m => PoolSize(s[i]) <= PoolSize(p)
      <4> SUFFICES ASSUME NEW i \in 1..n, i < m, PoolSize(s[i]) > PoolSize(p) PROVE FALSE
        BY <1>z
      <4>1. m <= i /\ m \in Nat
        BY <3>1, <3>2
      <4> HIDE DEF m
      <4> QED BY <4>1
    <3>4. \A i \in 1..n : i > m => PoolSize(s[m]) <= PoolSize(s[i])
      BY <1>1, <3>2 DEF InOrder
    <3>5. \A i \in 1..n : i >= m => PoolSize(p) <= PoolSize(s[i])
      <4> SUFFICES ASSUME NEW i \in 1..n, i >= m PROVE PoolSize(p) <= PoolSize(s[i])
        OBVIOUS
      <4> HIDE DEF m
      <4>1. PoolSize(s[m]) <= PoolSize(s[i])
        BY <1>z, <3>2, <3>4
      <4> QED BY <1>z, <3>2, <4>1
    <3> HIDE DEF m
    <3> QED BY <1>1, <3>2, <3>3, <3>5
  <2> QED BY <2>1, <2>2
<1>5. t = SubSeq(s, 1, m - 1) \o <<p>> \o SubSeq(s, m, n)
  <2>1. CASE larger = {}
    <3>1. t = Append(s, p) /\ m = n + 1
      BY <1>3, <2>1 DEF Place
    <3>2. SubSeq(s, 1, n) = s /\ SubSeq(s, n + 1, n) = <<>>
      BY <1>1
    <3>3. (n + 1) - 1 = n
      BY <1>1
    <3>4. s \o <<p>> \o <<>> = Append(s, p)
      OBVIOUS
    <3> HIDE DEF m, t, n
    <3> QED BY <3>1, <3>2, <3>3, <3>4
  <2>2. CASE larger # {}
    BY <1>3, <2>2 DEF Place, InsertAt
  <2> QED BY <2>1, <2>2
<1> HIDE DEF m, larger, t
<1>6. /\ t \in Seq(D \cup {p}) /\ Len(t) = n + 1 /\ DOMAIN t = 1..(n + 1)
      /\ \A i \in 1..(n + 1) : t[i] = IF i < m THEN s[i] ELSE IF i = m THEN p ELSE s[i - 1]
  <2> DEFINE a == SubSeq(s, 1, m - 1)
             b == SubSeq(s, m, n)
  <2>1. /\ a \in Seq(D) /\ Len(a) = m - 1 /\ \A i \in 1..(m - 1) : a[i] = s[i]
    BY <1>1, <1>4
  <2>2. /\ b \in Seq(D) /\ Len(b) = n + 1 - m /\ \A i \in 1..(n + 1 - m) : b[i] = s[m + i - 1]
    BY <1>1, <1>4
  <2>3. t = a \o <<p>> \o b
    BY <1>5
  <2> HIDE DEF a, b
  <2> DEFINE c == a \o <<p>>
  <2>4. c \in Seq(D \cup {p}) /\ Len(c) = m /\ \A i \in 1..m : c[i] = IF i < m THEN a[i] ELSE p
    BY <1>1, <1>4, <2>1
  <2>5. b \in Seq(D \cup {p})
    BY <2>2
  <2> HIDE DEF c
  <2>6. t = c \o b
    BY <2>3 DEF c
  <2>7. /\ t \in Seq(D \cup {p}) /\ Len(t) = n + 1
        /\ \A i \in 1..(n + 1) : t[i] = IF i <= m THEN c[i] ELSE b[i - m]
    <3>1. Len(c) + Len(b) = n + 1 /\ m \in Nat /\ n + 1 \in Nat
      BY <1>1, <1>4, <2>2, <2>4
    <3>0. c \in Seq(D \cup {p})
      BY <2>4
    <3>2. t \in Seq(D \cup {p}) /\ Len(t) = Len(c) + Len(b)
      BY <2>5, <2>6, <3>0
    <3>3. \A i \in 1..(Len(c) + Len(b)) : t[i] = IF i <= Len(c) THEN c[i] ELSE b[i - Len(c)]
      BY <2>4, <2>5, <2>6
    <3>4. Len(c) = m
      BY <2>4
    <3>5. \A i \in 1..(n + 1) : t[i] = IF i <= m THEN c[i] ELSE b[i - m]
      BY <3>1, <3>3, <3>4
    <3> QED BY <3>1, <3>2, <3>5
  <2>8. \A i \in 1..(n + 1) : i > m => i - m \in 1..(n + 1 - m) /\ m + (i - m) - 1 = i - 1
    BY <1>1, <1>4
  <2>9. ASSUME NEW i \in 1..(n + 1) PROVE t[i] = IF i < m THEN s[i] ELSE IF i = m THEN p ELSE s[i - 1]
    <3>0. i \in Int /\ m \in Int /\ n \in Int
      BY <1>1, <1>4
    <3>1. CASE i < m
      <4>1. i \in 1..m /\ i \in 1..(m - 1) /\ t[i] = c[i]
        BY <2>7, <3>0, <3>1
      <4> QED BY <2>1, <2>4, <3>1, <4>1
    <3>2. CASE i = m
      <4>1. i \in 1..m /\ t[i] = c[i]
        BY <2>7, <3>0, <3>2
      <4> QED BY <2>4, <3>0, <3>2, <4>1
    <3>3. CASE i > m
      <4>1. t[i] = b[i - m]
        BY <2>7, <3>0, <3>3
      <4> QED BY <2>2, <2>8, <3>0, <3>3, <4>1
    <3> QED BY <3>0, <3>1, <3>2, <3>3
  <2>10. DOMAIN t = 1..(n + 1)
    BY <1>1, <2>7
  <2> QED BY <2>7, <2>9, <2>10
<1>7. InOrder(t)
  <2> SUFFICES ASSUME NEW i \in 1..(n + 1), NEW j \in 1..(n + 1), i < j
               PROVE  t[i] # t[j] /\ PoolSize(t[i]) <= PoolSize(t[j])
    BY <1>6 DEF InOrder
  <2>1. \A k, l \in 1..n : k < l => s[k] # s[l] /\ PoolSize(s[k]) <= PoolSize(s[l])
    BY <1>1 DEF InOrder
  <2>2. /\ i \in Int /\ j \in Int /\ m \in Int /\ n \in Int
    BY <1>1, <1>4
  <2>3. CASE j < m
    <3>1. i \in 1..n /\ j \in 1..n /\ t[i] = s[i] /\ t[j] = s[j]
      BY <1>4, <1>6, <2>2, <2>3
    <3> QED BY <2>1, <3>1
  <2>4. CASE j = m
    <3>1. i \in 1..n /\ t[i] = s[i] /\ t[j] = p
      BY <1>4, <1>6, <2>2, <2>4
    <3> QED BY <1>1, <1>4, <2>4, <3>1
  <2>5. CASE j > m /\ i = m
    <3>1. j - 1 \in 1..n /\ t[i] = p /\ t[j] = s[j - 1] /\ j - 1 >= m
      BY <1>4, <1>6, <2>2, <2>5
    <3> QED BY <1>1, <1>4, <3>1
  <2>6. CASE j > m /\ i < m
    <3>1. j - 1 \in 1..n /\ i \in 1..n /\ t[i] = s[i] /\ t[j] = s[j - 1] /\ i < j - 1
      BY <1>4, <1>6, <2>2, <2>6
    <3> QED BY <2>1, <3>1
  <2>7. CASE j > m /\ i > m
    <3>1. j - 1 \in 1..n /\ i - 1 \in 1..n /\ t[i] = s[i - 1] /\ t[j] = s[j - 1] /\ i - 1 < j - 1
      BY <1>4, <1>6, <2>2, <2>7
    <3> QED BY <2>1, <3>1
  <2> QED BY <2>2, <2>3, <2>4, <2>5, <2>6, <2>7
<1>8. {t[i] : i \in DOMAIN t} = {s[i] : i \in DOMAIN s} \cup {p}
  <2>1. \A i \in 1..(n + 1) : t[i] = p \/ \E j \in 1..n : t[i] = s[j]
    <3> SUFFICES ASSUME NEW i \in 1..(n + 1) PROVE t[i] = p \/ \E j \in 1..n : t[i] = s[j]
      OBVIOUS
    <3>1. i < m => i \in 1..n
      BY <1>1, <1>4
    <3>2. i > m => i - 1 \in 1..n
      BY <1>1, <1>4
    <3>3. m \in Int /\ i \in Int
      BY <1>4
    <3> QED BY <1>6, <3>1, <3>2, <3>3
  <2>2. t[m] = p /\ m \in 1..(n + 1)
    BY <1>4, <1>6
  <2>3. \A j \in 1..n : \E i \in 1..(n + 1) : t[i] = s[j]
    <3> SUFFICES ASSUME NEW j \in 1..n PROVE \E i \in 1..(n + 1) : t[i] = s[j]
      OBVIOUS
    <3>1. CASE j < m
      BY <1>1, <1>6, <3>1
    <3>2. CASE j >= m
      <4>1. j + 1 \in 1..(n + 1) /\ ~(j + 1 < m) /\ j + 1 # m /\ (j + 1) - 1 = j
        BY <1>1, <1>4, <3>2
      <4> QED BY <1>6, <4>1
    <3>3. j \in Int /\ m \in Int
      BY <1>4
    <3> QED BY <3>1, <3>2, <3>3
  <2>4. DOMAIN t = 1..(n + 1) /\ DOMAIN s = 1..n
    BY <1>1, <1>6
  <2>5. {t[i] : i \in 1..(n + 1)} \subseteq {s[i] : i \in 1..n} \cup {p}
    BY <2>1
  <2>6. {s[i] : i \in 1..n} \cup {p} \subseteq {t[i] : i \in 1..(n + 1)}
    BY <2>2, <2>3
  <2> HIDE DEF n
  <2> QED BY <2>4, <2>5, <2>6
<1> QED BY <1>6, <1>7, <1>8 DEF t, Members

\* Releasing pools takes them off the list and leaves the others in their order.
LEMMA KeptInOrder ==
  ASSUME NEW D, set \in Seq(D), InOrder(set), NEW S, S \subseteq {set[i] : i \in DOMAIN set}, Keep(S)
  PROVE  set' \in Seq(D) /\ InOrder(set') /\ {set'[i] : i \in DOMAIN set'} = S
<1>0. PICK n \in 0..Len(set) : \E kept \in [1..n -> S] :
        /\ Range(kept) = S
        /\ \A i, j \in 1..n :
             i < j => \E k, l \in DOMAIN set : k < l /\ set[k] = kept[i] /\ set[l] = kept[j]
        /\ set' = kept
  BY DEF Keep
<1>1. PICK kept \in [1..n -> S] :
        /\ Range(kept) = S
        /\ \A i, j \in 1..n :
             i < j => \E k, l \in DOMAIN set : k < l /\ set[k] = kept[i] /\ set[l] = kept[j]
        /\ set' = kept
  BY <1>0
<1>2. n \in Nat /\ DOMAIN kept = 1..n /\ S \subseteq D
  BY <1>1
<1>3. kept \in Seq(D)
  BY <1>1, <1>2
<1>4. InOrder(kept)
  BY <1>1, <1>2 DEF InOrder
<1>5. {kept[i] : i \in DOMAIN kept} = S
  BY <1>1 DEF Range
<1> QED BY <1>1, <1>3, <1>4, <1>5

\* The first of some places in the list has the smallest elements among them.
LEMMA FirstIsTightest ==
  ASSUME SizeAssumption, NEW D, D \subseteq DOMAIN Kinds, set \in Seq(D), InOrder(set),
         NEW S, S \subseteq DOMAIN set, S # {}
  PROVE  /\ Min(S) \in S
         /\ \A i \in S : PoolSize(set[Min(S)]) <= PoolSize(set[i])
<1>1. Len(set) \in Nat /\ DOMAIN set = 1..Len(set)
  OBVIOUS
<1>2. Min(S) \in S /\ \A i \in S : Min(S) <= i
  BY <1>1, Extremes
<1> DEFINE m == Min(S)
<1> HIDE DEF m
<1>3. m \in S /\ \A i \in S : m <= i
  BY <1>2 DEF m
<1>4. ASSUME NEW i \in S PROVE PoolSize(set[m]) <= PoolSize(set[i])
  <2>0. set[m] \in DOMAIN Kinds
    BY <1>1, <1>3
  <2>1. PoolSize(set[m]) \in Nat
    BY <2>0, LayoutFits
  <2>2. i = m \/ m < i
    BY <1>1, <1>3
  <2> QED BY <1>1, <1>3, <2>1, <2>2 DEF InOrder
<1> QED BY <1>3, <1>4 DEF m

\* A pool of the list with an element, its fields and its first element.
LEMMA UsableHas ==
  ASSUME PoolInv, NEW i \in DOMAIN set, Usable(set[i])
  PROVE  /\ set[i] \in DOMAIN pool /\ set[i] \in DOMAIN Kinds
         /\ pool[set[i]].free \in Seq(Nat) /\ pool[set[i]].free # <<>>
         /\ Head(pool[set[i]].free) \in Nat /\ pool[set[i]].size = PoolSize(set[i])
<1>1. set[i] \in DOMAIN pool
  BY DEF PoolInv
<1>2. set[i] \in DOMAIN Kinds /\ pool[set[i]].free \in Seq(Nat) /\ pool[set[i]].size = PoolSize(set[i])
  BY <1>1 DEF PoolInv, Records
<1>3. pool[set[i]].free # <<>>
  BY DEF Usable
<1> QED BY <1>1, <1>2, <1>3

\* Handing an element out keeps the pools as they are.
LEMMA Hands ==
  ASSUME PoolInv, NEW p \in DOMAIN pool, pool[p].free # <<>>, NEW at \in Nat,
         NEW offset \in Nat, NEW counted \in BOOLEAN, NEW mark \in Marks,
         Hand(p, at, offset, counted, mark), set' = set
  PROVE  PoolInv'
<1>1. pool' = Take(pool, p) /\ held' = held \cup {[ptr |-> at + offset, mark |-> mark, counted |-> counted]}
  BY DEF Hand
<1>2. Records(Take(pool, p)) /\ DOMAIN Take(pool, p) = DOMAIN pool
  BY Takes DEF PoolInv
<1>3. Records(pool)' /\ DOMAIN pool' = DOMAIN pool
  BY <1>1, <1>2 DEF Records
<1>4. [ptr |-> at + offset, mark |-> mark, counted |-> counted] \in [ptr : Nat, mark : Marks, counted : BOOLEAN]
  OBVIOUS
<1>5. held' \subseteq [ptr : Nat, mark : Marks, counted : BOOLEAN]
  BY <1>1, <1>4 DEF PoolInv
<1>6. set' \in Seq(DOMAIN pool') /\ InOrder(set')
  BY <1>3 DEF PoolInv
<1> QED BY <1>3, <1>5, <1>6 DEF PoolInv, InOrder

\* The pool an address is in, and the start of what is freed there.
LEMMA OwnerIs ==
  ASSUME SizeAssumption, PoolInv, NEW ptr \in Nat, Owner(ptr) # {}
  PROVE  LET p == OwnerOf(ptr)
         IN  /\ p \in DOMAIN pool /\ p \in Owner(ptr)
             /\ PoolBegin(p) <= ptr /\ ptr < PoolEnd(p)
             /\ (IF IsRefCounted(p, ptr) THEN ptr - 4 ELSE ptr) \in Nat
<1> DEFINE p == OwnerOf(ptr)
           S == {i \in DOMAIN set : set[i] \in Owner(ptr)}
<1>1. S # {}
  BY DEF Owner, Range
<1>2. Len(set) \in Nat /\ DOMAIN set = 1..Len(set) /\ \A i \in DOMAIN set : set[i] \in DOMAIN pool
  BY DEF PoolInv
<1>3. Min(S) \in S
  BY <1>1, <1>2, Extremes
<1>4. p = set[Min(S)]
  BY DEF OwnerOf
<1>5. p \in Owner(ptr) /\ p \in DOMAIN pool
  BY <1>2, <1>3, <1>4
<1> HIDE DEF p
<1>6. pool[p].begin = PoolBegin(p) /\ pool[p].end = PoolEnd(p) /\ pool[p].size = PoolSize(p) /\ p \in DOMAIN Kinds
  BY <1>5 DEF PoolInv, Records
<1>7. PoolBegin(p) <= ptr /\ ptr < PoolEnd(p)
  BY <1>5, <1>6 DEF Owner
<1>8. ASSUME IsRefCounted(p, ptr) PROVE ptr - 4 \in Nat
  <2>1. PoolBegin(p) \in Nat /\ PoolSize(p) \in Nat \ {0}
    BY <1>6, LayoutFits
  <2>2. ptr - PoolBegin(p) \in Nat /\ (ptr - PoolBegin(p)) % PoolSize(p) = 4
    BY <1>6, <1>7, <1>8, <2>1 DEF IsRefCounted, Count
  <2> DEFINE x == ptr - PoolBegin(p)
             y == PoolSize(p)
  <2>3. x = (x \div y) * y + (x % y) /\ x \div y \in Nat
    BY <2>1, <2>2, Division
  <2>4. (x \div y) * y \in Nat
    BY <2>1, <2>3
  <2>5. x >= 4 /\ x = ptr - PoolBegin(p)
    BY <2>2, <2>3, <2>4
  <2> HIDE DEF x
  <2> QED BY <2>1, <2>5
<1> QED BY <1>5, <1>7, <1>8 DEF p

\* Freeing an element the client holds.
LEMMA Returns ==
  ASSUME SizeAssumption, PoolInv, NEW h \in held, Owner(h.ptr) # {}, GiveBack(h),
         set' = set, held' = held \ {h}
  PROVE  PoolInv'
<1> DEFINE p == OwnerOf(h.ptr)
           at == IF IsRefCounted(p, h.ptr) THEN h.ptr - 4 ELSE h.ptr
<1>1. h.ptr \in Nat
  BY DEF PoolInv
<1>2. p \in DOMAIN pool /\ at \in Nat
  BY <1>1, OwnerIs
<1>3. pool' = Give(pool, p, at) \/ pool' = pool
  BY DEF GiveBack, Count
<1> HIDE DEF p, at
<1>4. Records(Give(pool, p, at)) /\ DOMAIN Give(pool, p, at) = DOMAIN pool
  BY <1>2, Gives DEF PoolInv
<1>5. Records(pool)' /\ DOMAIN pool' = DOMAIN pool
  <2>1. CASE pool' = Give(pool, p, at)
    BY <1>4, <2>1 DEF Records
  <2>2. CASE pool' = pool
    BY <2>2 DEF Records, PoolInv
  <2> QED BY <1>3, <2>1, <2>2
<1> QED BY <1>5 DEF PoolInv, InOrder

\* Allocating: the request is answered with the tightest fit.
LEMMA Allocates ==
  ASSUME SizeAssumption, PoolInv, NEW mark \in Marks, NEW size \in Nat, NEW align \in Nat,
         NEW found, found \subseteq DOMAIN set, found # {},
         \A i \in found : Usable(set[i]),
         NEW offset \in Nat, NEW counted \in BOOLEAN,
         Hand(set[Min(found)], Head(pool[set[Min(found)]].free), offset, counted, mark),
         set' = set, Answer(size, align, set[Min(found)]),
         Fitting(size) \cap Aligned(align) \subseteq found
  PROVE  PoolInv' /\ TakesTightest
<1> DEFINE m == Min(found)
           p == set[m]
<1>1. set \in Seq(DOMAIN pool) /\ DOMAIN pool \subseteq DOMAIN Kinds /\ InOrder(set)
  BY DEF PoolInv, Records
<1>2. m \in found /\ \A i \in found : PoolSize(set[m]) <= PoolSize(set[i])
  BY <1>1, FirstIsTightest
<1>3. m \in DOMAIN set /\ Usable(set[m])
  BY <1>2
<1>4. Hand(p, Head(pool[p].free), offset, counted, mark) /\ asked' = [size |-> size, align |-> align, pool |-> p]
  BY DEF Answer
<1> HIDE DEF m
<1>5. p \in DOMAIN pool /\ pool[p].free # <<>> /\ Head(pool[p].free) \in Nat
  BY <1>3, UsableHas
<1>6. PoolInv'
  BY <1>4, <1>5, Hands
<1>7. \A i \in found : pool[set[i]].size = PoolSize(set[i])
  BY UsableHas
<1>8. TakesTightest
  BY <1>2, <1>4, <1>7 DEF TakesTightest
<1> QED BY <1>6, <1>8

\* Moving an element to another pool.
LEMMA Moves ==
  ASSUME SizeAssumption, PoolInv, NEW h \in held, NEW size \in Nat, Owner(h.ptr) # {},
         Move(h, size), set' = set
  PROVE  PoolInv' /\ TakesTightest
<1> DEFINE from == OwnerOf(h.ptr)
           ref == IsRefCounted(from, h.ptr)
           need == IF ref THEN size + 4 ELSE size
           found == Fitting(need)
           p == set[Min(found)]
           at == Head(pool[p].free)
           old == IF ref THEN h.ptr - 4 ELSE h.ptr
           taken == Take(pool, p)
           new == [ptr |-> at, mark |-> h.mark, counted |-> FALSE]
<1>1. h \in [ptr : Nat, mark : Marks, counted : BOOLEAN]
  BY DEF PoolInv
<1>2. from \in DOMAIN pool /\ old \in Nat
  BY <1>1, OwnerIs
<1>3. /\ found # {} /\ (pool' = taken \/ pool' = Give(taken, from, old))
      /\ held' = (held \ {h}) \cup {new}
      /\ asked' = [size |-> need, align |-> 1, pool |-> p]
  BY DEF Move, Answer, Count
<1>4. found \subseteq DOMAIN set /\ \A i \in found : Usable(set[i])
  BY DEF Fitting
<1> HIDE DEF from, ref, found
<1>5. set \in Seq(DOMAIN pool) /\ DOMAIN pool \subseteq DOMAIN Kinds /\ InOrder(set)
  BY DEF PoolInv, Records
<1>6. Min(found) \in found /\ \A i \in found : PoolSize(p) <= PoolSize(set[i])
  BY <1>3, <1>4, <1>5, FirstIsTightest
<1>7. Min(found) \in DOMAIN set /\ Usable(p)
  BY <1>4, <1>6
<1>8. p \in DOMAIN pool /\ pool[p].free # <<>> /\ at \in Nat
  BY <1>7, UsableHas
<1> HIDE DEF p, at, old
<1>9. Records(taken) /\ DOMAIN taken = DOMAIN pool
  BY <1>8, Takes DEF PoolInv
<1> HIDE DEF taken
<1>10. Records(Give(taken, from, old)) /\ DOMAIN Give(taken, from, old) = DOMAIN pool
  BY <1>2, <1>9, Gives
<1>11. Records(pool)' /\ DOMAIN pool' = DOMAIN pool
  BY <1>3, <1>9, <1>10 DEF Records
<1>12. held' \subseteq [ptr : Nat, mark : Marks, counted : BOOLEAN]
  <2>1. new \in [ptr : Nat, mark : Marks, counted : BOOLEAN]
    BY <1>1, <1>8
  <2> HIDE DEF new
  <2> QED BY <1>3, <2>1 DEF PoolInv
<1>13. PoolInv'
  BY <1>11, <1>12 DEF PoolInv, InOrder
<1>14. \A i \in found : pool[set[i]].size = PoolSize(set[i])
  BY <1>4, UsableHas
<1>15. pool[p].size = PoolSize(p)
  BY <1>6, <1>14 DEF p
<1>16. TakesTightest
  <2>1. asked'.size = need /\ asked'.pool = p
    BY <1>3
  <2>2. Fitting(asked'.size) = found
    BY <2>1 DEF found
  <2> HIDE DEF need
  <2> QED BY <1>6, <1>14, <1>15, <2>1, <2>2 DEF TakesTightest
<1> QED BY <1>13, <1>16

\* A pool that was just made.
LEMMA NewPoolIs ==
  ASSUME SizeAssumption, NEW p \in DOMAIN Kinds
  PROVE  LET n == NewPool(Kinds[p])
         IN  /\ n \in [begin : {PoolBegin(p)}, end : {PoolEnd(p)}, size : {PoolSize(p)},
                       free : Seq(Nat), spare : Int, low : Int, disabled : BOOLEAN]
             /\ n.free = Chunks(Layout(Kinds[p])) /\ n.spare = PoolTotal(p) /\ n.low = PoolTotal(p)
<1> DEFINE c == Chunks(Layout(Kinds[p]))
           n == NewPool(Kinds[p])
<1>1. n = [begin |-> PoolBegin(p), end |-> PoolEnd(p), size |-> PoolSize(p), free |-> c,
           spare |-> PoolTotal(p), low |-> PoolTotal(p), disabled |-> FALSE]
  BY DEF NewPool, PoolBegin, PoolEnd, PoolSize, PoolTotal
<1>2. c \in Seq(Nat)
  BY ChunksAre
<1>3. PoolTotal(p) \in Int
  BY LayoutFits
<1> HIDE DEF c, n
<1>4. n \in [begin : {PoolBegin(p)}, end : {PoolEnd(p)}, size : {PoolSize(p)},
             free : Seq(Nat), spare : Int, low : Int, disabled : BOOLEAN]
  BY <1>1, <1>2, <1>3
<1>5. n.free = c /\ n.spare = PoolTotal(p) /\ n.low = PoolTotal(p)
  BY <1>1
<1> QED BY <1>4, <1>5 DEF c, n

\* The steps keep the pools and their order, and an allocation is the tightest.
LEMMA PoolKeeps ==
  ASSUME SizeAssumption, PoolInv, PoolNext
  PROVE  PoolInv' /\ TakesTightest
<1>0. Requests \subseteq Nat
  BY DEF SizeAssumption
<1>i. /\ set \in Seq(DOMAIN pool) /\ DOMAIN pool \subseteq DOMAIN Kinds /\ InOrder(set) /\ Records(pool)
      /\ held \subseteq [ptr : Nat, mark : Marks, counted : BOOLEAN]
  BY DEF PoolInv, Records
<1>n. asked' = NoRequest => TakesTightest
  BY DEF NoRequest, TakesTightest
<1>1. ASSUME NEW p \in DOMAIN Kinds, AddPool(p) PROVE PoolInv' /\ TakesTightest
  <2> DEFINE n == NewPool(Kinds[p])
             D == DOMAIN pool
  <2>1. /\ p \notin D /\ pool' = [z \in D \cup {p} |-> IF z = p THEN n ELSE pool[z]]
        /\ set' = Place(set, p) /\ held' = held /\ asked' = NoRequest
    BY <1>1 DEF AddPool, With
  <2>2. n \in [begin : {PoolBegin(p)}, end : {PoolEnd(p)}, size : {PoolSize(p)},
               free : Seq(Nat), spare : Int, low : Int, disabled : BOOLEAN]
    BY NewPoolIs
  <2> HIDE DEF n
  <2>3. Records(pool)'
    BY <1>i, <2>1, <2>2 DEF Records
  <2>4. DOMAIN pool' = D \cup {p}
    BY <2>1
  <2>5. set' \in Seq(D \cup {p}) /\ InOrder(set')
    <3>1. D \subseteq DOMAIN pool' /\ p \in DOMAIN pool' \ D /\ set \in Seq(D)
      BY <1>i, <2>1, <2>4
    <3> HIDE DEF D
    <3> QED BY <1>i, <2>1, <2>3, <3>1, Placed
  <2> QED BY <1>i, <1>n, <2>1, <2>3, <2>4, <2>5 DEF PoolInv, InOrder
<1>2. ASSUME NEW size \in Requests, NEW mark \in Marks, NEW a \in {1, 16}, Alloc(size, a, mark)
      PROVE  PoolInv' /\ TakesTightest
  <2> DEFINE found == Fitting(size) \cap Aligned(a)
  <2>1. /\ found # {} /\ set' = set
        /\ Hand(set[Min(found)], Head(pool[set[Min(found)]].free), 0, FALSE, mark)
        /\ Answer(size, a, set[Min(found)])
    BY <1>2 DEF Alloc
  <2>2. found \subseteq DOMAIN set /\ \A i \in found : Usable(set[i])
    BY DEF Fitting
  <2>3. Fitting(size) \cap Aligned(a) \subseteq found
    OBVIOUS
  <2> HIDE DEF found
  <2> QED BY <1>0, <2>1, <2>2, <2>3, Allocates
<1>3. ASSUME NEW size \in Requests, NEW mark \in Marks, AllocBestEffort(size, mark)
      PROVE  PoolInv' /\ TakesTightest
  <2> DEFINE found == Fitting(size)
             able == {i \in DOMAIN set : Usable(set[i])}
  <2>1. CASE found # {}
    <3>1. /\ set' = set
          /\ Hand(set[Min(found)], Head(pool[set[Min(found)]].free), 0, FALSE, mark)
          /\ Answer(size, 1, set[Min(found)])
      BY <1>3, <2>1 DEF AllocBestEffort
    <3>2. found \subseteq DOMAIN set /\ \A i \in found : Usable(set[i])
      BY DEF Fitting
    <3>3. Fitting(size) \cap Aligned(1) \subseteq found
      OBVIOUS
    <3> HIDE DEF found
    <3> QED BY <1>0, <2>1, <3>1, <3>2, <3>3, Allocates
  <2>2. CASE found = {}
    <3> DEFINE p == set[Max(able)]
    <3>1. /\ able # {} /\ set' = set /\ Hand(p, Head(pool[p].free), 0, FALSE, mark)
          /\ asked' = [size |-> pool[p].size, align |-> 1, pool |-> p]
      BY <1>3, <2>2 DEF AllocBestEffort, Answer
    <3>2. Max(able) \in able
      <4>1. Len(set) \in Nat /\ able \in SUBSET (1..Len(set))
        BY <1>i
      <4> HIDE DEF able
      <4> QED BY <3>1, <4>1, Extremes
    <3>3. Max(able) \in DOMAIN set /\ Usable(p)
      BY <3>2
    <3>4. p \in DOMAIN pool /\ pool[p].free # <<>> /\ Head(pool[p].free) \in Nat
      BY <3>3, UsableHas
    <3> HIDE DEF p
    <3>5. PoolInv'
      BY <3>1, <3>4, Hands
    <3>6. TakesTightest
      <4>1. asked'.size = pool[p].size /\ asked'.pool = p
        BY <3>1
      <4>2. \A i \in Fitting(asked'.size) : pool[set[i]].size >= asked'.size
        BY DEF Fitting
      <4>3. \A i \in Fitting(asked'.size) : pool[set[i]].size \in Nat
        <5>1. \A i \in Fitting(asked'.size) : i \in DOMAIN set /\ set[i] \in DOMAIN pool
          BY <1>i DEF Fitting
        <5>2. \A q \in DOMAIN pool : pool[q].size = PoolSize(q) /\ q \in DOMAIN Kinds
          BY <1>i DEF Records
        <5>3. \A q \in DOMAIN pool : pool[q].size \in Nat
          BY <5>2, LayoutFits
        <5> QED BY <5>1, <5>3
      <4>4. pool[p].size \in Nat
        <5>1. pool[p].size = PoolSize(p) /\ p \in DOMAIN Kinds
          BY <1>i, <3>4 DEF Records
        <5> QED BY <5>1, LayoutFits
      <4> QED BY <4>1, <4>2, <4>3, <4>4 DEF TakesTightest
    <3> QED BY <3>5, <3>6
  <2> QED BY <2>1, <2>2
<1>4. ASSUME NEW size \in Requests, NEW mark \in Marks, AllocWithRef(size, mark)
      PROVE  PoolInv' /\ TakesTightest
  <2> DEFINE found == Fitting(size + 4)
  <2>1. /\ found # {} /\ set' = set
        /\ Hand(set[Min(found)], Head(pool[set[Min(found)]].free), Count * Chunk, TRUE, mark)
        /\ Answer(size + 4, 1, set[Min(found)])
    BY <1>4 DEF AllocWithRef, Count
  <2>2. found \subseteq DOMAIN set /\ \A i \in found : Usable(set[i])
    BY DEF Fitting
  <2>3. Fitting(size + 4) \cap Aligned(1) \subseteq found
    OBVIOUS
  <2>4. size + 4 \in Nat /\ Count * Chunk \in Nat
    BY <1>0 DEF SizeAssumption, Count
  <2> HIDE DEF found
  <2> QED BY <2>1, <2>2, <2>3, <2>4, Allocates
<1>5. ASSUME NEW h \in held, IncRef(h) PROVE PoolInv' /\ TakesTightest
  <2>1. UNCHANGED <<set, pool, held>> /\ asked' = NoRequest
    BY <1>5 DEF IncRef
  <2> QED BY <1>n, <2>1 DEF PoolInv, InOrder, Records
<1>6. ASSUME NEW h \in held, Free(h) PROVE PoolInv' /\ TakesTightest
  <2>1. set' = set /\ held' = held \ {h} /\ asked' = NoRequest
    BY <1>6 DEF Free
  <2>2. CASE Owner(h.ptr) = {}
    <3>1. pool' = pool
      BY <1>6, <2>2 DEF Free
    <3> QED BY <1>n, <2>1, <3>1 DEF PoolInv, InOrder, Records
  <2>3. CASE Owner(h.ptr) # {}
    <3>1. GiveBack(h)
      BY <1>6, <2>3 DEF Free
    <3> QED BY <1>n, <2>1, <2>3, <3>1, Returns
  <2> QED BY <2>2, <2>3
<1>7. ASSUME NEW h \in held, NEW size \in Requests \cup {0}, Realloc(h, size)
      PROVE  PoolInv' /\ TakesTightest
  <2>1. set' = set /\ Owner(h.ptr) # {}
    BY <1>7 DEF Realloc
  <2>2. CASE size = 0
    <3>1. GiveBack(h) /\ held' = held \ {h} /\ asked' = NoRequest
      BY <1>7, <2>2 DEF Realloc
    <3> QED BY <1>n, <2>1, <3>1, Returns
  <2>3. CASE size # 0
    <3>1. Move(h, size) /\ size \in Nat
      BY <1>0, <1>7, <2>3 DEF Realloc
    <3> QED BY <2>1, <3>1, Moves
  <2> QED BY <2>2, <2>3
<1>8. ASSUME NEW p \in DOMAIN pool, PoolEnable(p) PROVE PoolInv' /\ TakesTightest
  <2>1. /\ pool' = [pool EXCEPT ![p] = [pool[p] EXCEPT !.disabled = ~pool[p].disabled]]
        /\ UNCHANGED <<set, held>> /\ asked' = NoRequest
    BY <1>8 DEF PoolEnable
  <2>2. pool[p] \in [begin : {PoolBegin(p)}, end : {PoolEnd(p)}, size : {PoolSize(p)},
                   free : Seq(Nat), spare : Int, low : Int, disabled : BOOLEAN]
    BY <1>i DEF Records
  <2>3. [pool[p] EXCEPT !.disabled = ~pool[p].disabled]
          \in [begin : {PoolBegin(p)}, end : {PoolEnd(p)}, size : {PoolSize(p)},
               free : Seq(Nat), spare : Int, low : Int, disabled : BOOLEAN]
    BY <2>2
  <2>4. Records(pool)' /\ DOMAIN pool' = DOMAIN pool
    BY <1>i, <2>1, <2>3 DEF Records
  <2> QED BY <1>i, <1>n, <2>1, <2>4 DEF PoolInv, InOrder
<1>9. ASSUME NEW S, S \subseteq {set[i] : i \in DOMAIN set}, Keep(S), UNCHANGED <<pool, held>>, asked' = NoRequest
      PROVE  PoolInv' /\ TakesTightest
  <2>1. set' \in Seq(DOMAIN pool) /\ InOrder(set')
    BY <1>i, <1>9, KeptInOrder
  <2> QED BY <1>i, <1>n, <1>9, <2>1 DEF PoolInv, InOrder, Records
<1>10. ASSUME NEW p \in DOMAIN pool, NEW in_use \in BOOLEAN, ReleasePool(p, in_use)
       PROVE  PoolInv' /\ TakesTightest
  <2>1. /\ Keep(Range(set) \ {p})
        /\ UNCHANGED <<pool, held>> /\ asked' = NoRequest
    BY <1>10 DEF ReleasePool
  <2>2. Range(set) \ {p} \subseteq {set[i] : i \in DOMAIN set}
    BY DEF Range
  <2> QED BY <1>9, <2>1, <2>2
<1>11. ASSUME NEW in_use \in BOOLEAN, ReleasePoolSet(in_use)
       PROVE  PoolInv' /\ TakesTightest
  <2> DEFINE S == {q \in Range(set) : ~Released(q, in_use)}
  <2>1. Keep(S) /\ UNCHANGED <<pool, held>> /\ asked' = NoRequest
    BY <1>11 DEF ReleasePoolSet
  <2>2. S \subseteq {set[i] : i \in DOMAIN set}
    BY DEF Range
  <2> HIDE DEF S
  <2> QED BY <1>9, <2>1, <2>2
<1> QED BY <1>1, <1>2, <1>3, <1>4, <1>5, <1>6, <1>7, <1>8, <1>10, <1>11 DEF PoolNext

-----------------------------------------------------------------------------
(* What holds of the elements as long as nobody takes counted ones. *)

FreeOf(pl, p) == {pl[p].free[i] : i \in DOMAIN pl[p].free}
HeldIn(hs, p) == {h \in hs : h.ptr \in Slots(p)}

\* The elements of the pools pl, with contents m: what clients hold (hs) is not free, the
\* free lists have no element twice, and in the pools of S nothing is lost.
Holdings(S, pl, m, hs) ==
  /\ IsFiniteSet(hs)
  /\ \A h \in hs : ~h.counted /\ h.ptr \in DOMAIN m /\ m[h.ptr] = h.mark
  /\ \A g, h \in hs : g.ptr = h.ptr => g = h
  /\ \A h \in hs : \E p \in DOMAIN pl : h.ptr \in Slots(p) /\ h.ptr \notin FreeOf(pl, p)
  /\ \A p \in DOMAIN pl :
       /\ FreeOf(pl, p) \subseteq Slots(p)
       /\ \A i, j \in DOMAIN pl[p].free : i # j => pl[p].free[i] # pl[p].free[j]
       /\ pl[p].spare = Len(pl[p].free) /\ pl[p].low <= pl[p].spare
  /\ \A p \in S :
       /\ Slots(p) \subseteq FreeOf(pl, p) \cup {h.ptr : h \in HeldIn(hs, p)}
       /\ Len(pl[p].free) + Cardinality(HeldIn(hs, p)) = PoolTotal(p)


\* The two ends of a free list without repetitions.
LEMMA TakeFirst ==
  ASSUME NEW s \in Seq(Nat), s # <<>>, \A i, j \in DOMAIN s : i # j => s[i] # s[j]
  PROVE  /\ Len(Tail(s)) = Len(s) - 1 /\ Len(Tail(s)) \in Nat
         /\ \A i, j \in DOMAIN Tail(s) : i # j => Tail(s)[i] # Tail(s)[j]
         /\ {Tail(s)[i] : i \in DOMAIN Tail(s)} = {s[i] : i \in DOMAIN s} \ {Head(s)}
         /\ Head(s) \in {s[i] : i \in DOMAIN s}
<1> DEFINE n == Len(s)
<1>1. n \in Nat \ {0} /\ DOMAIN s = 1..n /\ Head(s) = s[1]
  OBVIOUS
<1>2. Len(Tail(s)) = n - 1 /\ DOMAIN Tail(s) = 1..(n - 1) /\ \A i \in 1..(n - 1) : Tail(s)[i] = s[i + 1]
  OBVIOUS
<1> DEFINE t == Tail(s)
<1> HIDE DEF n, t
<1>3. \A i \in 1..(n - 1) : i + 1 \in 1..n /\ i + 1 # 1
  BY <1>1
<1>4. \A i, j \in 1..(n - 1) : i # j => t[i] # t[j]
  <2> SUFFICES ASSUME NEW i \in 1..(n - 1), NEW j \in 1..(n - 1), i # j PROVE t[i] # t[j]
    OBVIOUS
  <2>1. i + 1 # j + 1
    BY <1>1
  <2> QED BY <1>1, <1>2, <1>3, <2>1 DEF t
<1>5. {t[i] : i \in 1..(n - 1)} = {s[i] : i \in 1..n} \ {s[1]}
  <2>1. \A i \in 1..(n - 1) : t[i] \in {s[j] : j \in 1..n} \ {s[1]}
    <3> SUFFICES ASSUME NEW i \in 1..(n - 1) PROVE t[i] \in {s[j] : j \in 1..n} \ {s[1]}
      OBVIOUS
    <3>1. t[i] = s[i + 1] /\ i + 1 \in 1..n /\ 1 \in 1..n /\ i + 1 # 1
      BY <1>1, <1>2, <1>3 DEF t
    <3> QED BY <1>1, <3>1
  <2>2. \A j \in 1..n : s[j] # s[1] => s[j] \in {t[i] : i \in 1..(n - 1)}
    <3> SUFFICES ASSUME NEW j \in 1..n, s[j] # s[1] PROVE s[j] \in {t[i] : i \in 1..(n - 1)}
      OBVIOUS
    <3>1. j - 1 \in 1..(n - 1) /\ (j - 1) + 1 = j
      BY <1>1
    <3>2. t[j - 1] = s[(j - 1) + 1]
      BY <1>2, <3>1 DEF t
    <3> QED BY <3>1, <3>2
  <2> QED BY <2>1, <2>2
<1>6. s[1] \in {s[i] : i \in 1..n}
  BY <1>1
<1>7. Len(t) = n - 1 /\ n - 1 \in Nat /\ DOMAIN t = 1..(n - 1)
  BY <1>1, <1>2 DEF t
<1>8. {t[i] : i \in DOMAIN t} = {s[i] : i \in DOMAIN s} \ {Head(s)}
  BY <1>1, <1>5, <1>7
<1>9. \A i, j \in DOMAIN t : i # j => t[i] # t[j]
  BY <1>4, <1>7
<1>10. Head(s) \in {s[i] : i \in DOMAIN s}
  BY <1>1, <1>6
<1> QED BY <1>7, <1>8, <1>9, <1>10 DEF t, n

\* Giving an element back puts it before the others.
LEMMA PutFirst ==
  ASSUME NEW s \in Seq(Nat), \A i, j \in DOMAIN s : i # j => s[i] # s[j],
         NEW x \in Nat, x \notin {s[i] : i \in DOMAIN s}
  PROVE  LET t == <<x>> \o s
         IN  /\ Len(t) = Len(s) + 1
             /\ \A i, j \in DOMAIN t : i # j => t[i] # t[j]
             /\ {t[i] : i \in DOMAIN t} = {s[i] : i \in DOMAIN s} \cup {x}
<1> DEFINE n == Len(s)
           t == <<x>> \o s
<1>1. n \in Nat /\ DOMAIN s = 1..n
  OBVIOUS
<1>2. /\ Len(t) = n + 1 /\ DOMAIN t = 1..(n + 1) /\ t[1] = x
      /\ \A i \in 2..(n + 1) : t[i] = s[i - 1]
  OBVIOUS
<1> HIDE DEF n, t
<1>3. \A i \in 1..(n + 1) : i = 1 \/ (i \in 2..(n + 1) /\ i - 1 \in 1..n)
  BY <1>1
<1>4. \A i, j \in 1..(n + 1) : i # j => t[i] # t[j]
  <2> SUFFICES ASSUME NEW i \in 1..(n + 1), NEW j \in 1..(n + 1), i # j PROVE t[i] # t[j]
    OBVIOUS
  <2>1. i - 1 # j - 1
    BY <1>1
  <2> QED BY <1>1, <1>2, <1>3, <2>1
<1>5. {t[i] : i \in 1..(n + 1)} = {s[i] : i \in 1..n} \cup {x}
  <2>1. \A i \in 1..(n + 1) : t[i] \in {s[j] : j \in 1..n} \cup {x}
    BY <1>2, <1>3
  <2>2. \A j \in 1..n : j + 1 \in 2..(n + 1) /\ j + 1 \in 1..(n + 1) /\ (j + 1) - 1 = j
    BY <1>1
  <2>3. \A j \in 1..n : t[j + 1] = s[j]
    BY <1>2, <2>2
  <2>4. 1 \in 1..(n + 1)
    BY <1>1
  <2>5. x \in {t[i] : i \in 1..(n + 1)}
    BY <1>2, <2>4
  <2>6. {s[i] : i \in 1..n} \subseteq {t[i] : i \in 1..(n + 1)}
    BY <2>2, <2>3
  <2>7. {t[i] : i \in 1..(n + 1)} \subseteq {s[i] : i \in 1..n} \cup {x}
    BY <2>1
  <2> QED BY <2>5, <2>6, <2>7
<1> QED BY <1>1, <1>2, <1>4, <1>5 DEF n, t

\* An element that is handed out was free, and is held from then on.
LEMMA HandKeeps ==
  ASSUME SizeAssumption, NEW S, NEW pl, NEW m, NEW hs, S \subseteq DOMAIN pl, Records(pl), Holdings(S, pl, m, hs),
         NEW p \in DOMAIN pl, pl[p].free # <<>>, NEW mark
  PROVE  LET at  == Head(pl[p].free)
             new == [ptr |-> at, mark |-> mark, counted |-> FALSE]
         IN  /\ Holdings(S, Take(pl, p), With(m, at, mark), hs \cup {new})
             /\ \A h \in hs : h.ptr # at
<1> DEFINE f == pl[p].free
           at == Head(f)
           new == [ptr |-> at, mark |-> mark, counted |-> FALSE]
           t == Take(pl, p)
           w == With(m, at, mark)
           g == hs \cup {new}
<1>1. /\ DOMAIN pl \subseteq DOMAIN Kinds
      /\ \A q \in DOMAIN pl : pl[q].free \in Seq(Nat) /\ pl[q].spare \in Int /\ pl[q].low \in Int
  BY DEF Records
<1>2. /\ DOMAIN t = DOMAIN pl /\ t[p].free = Tail(f) /\ t[p].spare = pl[p].spare - 1
      /\ t[p].low <= pl[p].spare - 1 /\ \A q \in DOMAIN pl : q # p => t[q] = pl[q]
  BY Takes
<1>3. /\ Len(Tail(f)) = Len(f) - 1 /\ Len(Tail(f)) \in Nat
      /\ \A i, j \in DOMAIN Tail(f) : i # j => Tail(f)[i] # Tail(f)[j]
      /\ {Tail(f)[i] : i \in DOMAIN Tail(f)} = {f[i] : i \in DOMAIN f} \ {at}
      /\ at \in {f[i] : i \in DOMAIN f}
  BY <1>1, TakeFirst DEF Holdings
<1>4. /\ new.ptr = at /\ new.mark = mark /\ new.counted = FALSE
  OBVIOUS
<1>5. /\ DOMAIN w = DOMAIN m \cup {at} /\ w[at] = mark /\ \A a \in DOMAIN m : a # at => w[a] = m[a]
  BY DEF With
<1> HIDE DEF f, at, new, t, w
<1>6. f = pl[p].free
  BY DEF f
<1>7. FreeOf(t, p) = FreeOf(pl, p) \ {at} /\ at \in FreeOf(pl, p) /\ at \in Slots(p)
  <2>1. FreeOf(t, p) = {Tail(f)[i] : i \in DOMAIN Tail(f)}
    BY <1>2 DEF FreeOf
  <2>2. FreeOf(pl, p) = {f[i] : i \in DOMAIN f}
    BY <1>6 DEF FreeOf
  <2>3. FreeOf(pl, p) \subseteq Slots(p)
    BY DEF Holdings
  <2> QED BY <1>3, <2>1, <2>2, <2>3
<1>8. \A q \in DOMAIN pl : q # p => at \notin Slots(q)
  <2> SUFFICES ASSUME NEW q \in DOMAIN pl, q # p, at \in Slots(q) PROVE FALSE
    OBVIOUS
  <2>1. p \in DOMAIN Kinds /\ q \in DOMAIN Kinds
    BY <1>1
  <2>2. /\ at \in Nat /\ PoolBegin(p) <= at /\ at < PoolEnd(p)
        /\ PoolBegin(q) <= at /\ at < PoolEnd(q)
    BY <1>7, <2>1, SlotsLie
  <2> QED BY <2>1, <2>2, SlotsApart
<1>9. \A h \in hs : h.ptr # at
  <2> SUFFICES ASSUME NEW h \in hs, h.ptr = at PROVE FALSE
    OBVIOUS
  <2>1. PICK q \in DOMAIN pl : h.ptr \in Slots(q) /\ h.ptr \notin FreeOf(pl, q)
    BY DEF Holdings
  <2>2. q = p
    BY <1>8, <2>1
  <2> QED BY <1>7, <2>1, <2>2
<1>10. IsFiniteSet(g)
  BY FS_AddElement DEF Holdings
<1>11. \A h \in g : ~h.counted /\ h.ptr \in DOMAIN w /\ w[h.ptr] = h.mark
  <2>1. \A h \in hs : ~h.counted /\ h.ptr \in DOMAIN w /\ w[h.ptr] = h.mark
    BY <1>5, <1>9 DEF Holdings
  <2>2. ~new.counted /\ new.ptr \in DOMAIN w /\ w[new.ptr] = new.mark
    BY <1>4, <1>5
  <2> QED BY <2>1, <2>2
<1>12. \A k, h \in g : k.ptr = h.ptr => k = h
  BY <1>4, <1>9 DEF Holdings
<1>13. \A h \in g : \E q \in DOMAIN t : h.ptr \in Slots(q) /\ h.ptr \notin FreeOf(t, q)
  <2>1. \A h \in hs : \E q \in DOMAIN t : h.ptr \in Slots(q) /\ h.ptr \notin FreeOf(t, q)
    <3> SUFFICES ASSUME NEW h \in hs PROVE \E q \in DOMAIN t : h.ptr \in Slots(q) /\ h.ptr \notin FreeOf(t, q)
      OBVIOUS
    <3>1. PICK q \in DOMAIN pl : h.ptr \in Slots(q) /\ h.ptr \notin FreeOf(pl, q)
      BY DEF Holdings
    <3>2. q # p => FreeOf(t, q) = FreeOf(pl, q)
      BY <1>2, <3>1 DEF FreeOf
    <3>3. h.ptr \notin FreeOf(t, q)
      BY <1>7, <3>1, <3>2
    <3> QED BY <1>2, <3>1, <3>3
  <2>2. new.ptr \in Slots(p) /\ new.ptr \notin FreeOf(t, p) /\ p \in DOMAIN t
    BY <1>2, <1>4, <1>7
  <2> QED BY <2>1, <2>2
<1>14. ASSUME NEW q \in DOMAIN t
       PROVE  /\ FreeOf(t, q) \subseteq Slots(q)
              /\ \A i, j \in DOMAIN t[q].free : i # j => t[q].free[i] # t[q].free[j]
              /\ t[q].spare = Len(t[q].free) /\ t[q].low <= t[q].spare
  <2>1. CASE q = p
    <3>1. pl[p].spare = Len(f) /\ FreeOf(pl, p) \subseteq Slots(p)
      BY <1>6 DEF Holdings
    <3>2. t[p].spare = Len(t[p].free) /\ t[p].low <= t[p].spare
      BY <1>2, <1>3, <3>1
    <3>3. \A i, j \in DOMAIN t[p].free : i # j => t[p].free[i] # t[p].free[j]
      BY <1>2, <1>3
    <3>4. FreeOf(t, p) \subseteq Slots(p)
      BY <1>7, <3>1
    <3> QED BY <2>1, <3>2, <3>3, <3>4
  <2>2. CASE q # p
    <3>1. q \in DOMAIN pl /\ t[q] = pl[q] /\ FreeOf(t, q) = FreeOf(pl, q)
      BY <1>2, <2>2 DEF FreeOf
    <3> QED BY <3>1 DEF Holdings
  <2> QED BY <2>1, <2>2
<1>15. ASSUME NEW q \in S
       PROVE  /\ Slots(q) \subseteq FreeOf(t, q) \cup {h.ptr : h \in HeldIn(g, q)}
              /\ Len(t[q].free) + Cardinality(HeldIn(g, q)) = PoolTotal(q)
  <2>1. q \in DOMAIN pl /\ IsFiniteSet(HeldIn(hs, q))
    BY FS_Subset DEF HeldIn, Holdings
  <2>2. /\ Slots(q) \subseteq FreeOf(pl, q) \cup {h.ptr : h \in HeldIn(hs, q)}
        /\ Len(pl[q].free) + Cardinality(HeldIn(hs, q)) = PoolTotal(q)
    BY DEF Holdings
  <2>3. CASE q = p
    <3>1. HeldIn(g, p) = HeldIn(hs, p) \cup {new}
      BY <1>4, <1>7 DEF HeldIn
    <3>2. new \notin HeldIn(hs, p)
      BY <1>4, <1>9 DEF HeldIn
    <3>3. Cardinality(HeldIn(g, p)) = Cardinality(HeldIn(hs, p)) + 1
      BY <2>1, <2>3, <3>1, <3>2, FS_AddElement
    <3>4. Cardinality(HeldIn(hs, p)) \in Nat /\ Len(f) \in Nat
      BY <1>1, <1>6, <2>1, <2>3, FS_CardinalityType
    <3>5. Len(t[p].free) + Cardinality(HeldIn(g, p)) = PoolTotal(p)
      BY <1>2, <1>3, <1>6, <2>2, <2>3, <3>3, <3>4
    <3>6. Slots(p) \subseteq FreeOf(t, p) \cup {h.ptr : h \in HeldIn(g, p)}
      <4>1. at \in {h.ptr : h \in HeldIn(g, p)}
        BY <1>4, <3>1
      <4>2. {h.ptr : h \in HeldIn(hs, p)} \subseteq {h.ptr : h \in HeldIn(g, p)}
        BY <3>1
      <4> QED BY <1>7, <2>2, <2>3, <4>1, <4>2
    <3> QED BY <2>3, <3>5, <3>6
  <2>4. CASE q # p
    <3>1. t[q] = pl[q] /\ FreeOf(t, q) = FreeOf(pl, q)
      BY <1>2, <2>1, <2>4 DEF FreeOf
    <3>2. HeldIn(g, q) = HeldIn(hs, q)
      BY <1>4, <1>8, <2>1, <2>4 DEF HeldIn
    <3> QED BY <2>2, <3>1, <3>2
  <2> QED BY <2>3, <2>4
<1>16. Holdings(S, t, w, g)
  BY <1>10, <1>11, <1>12, <1>13, <1>14, <1>15 DEF Holdings
<1> QED BY <1>9, <1>16 DEF t, w, at, new, f

\* An element a client gives back was held by it alone, and is free from then on.
LEMMA GiveKeeps ==
  ASSUME SizeAssumption, NEW S, NEW pl, NEW m, NEW hs, S \subseteq DOMAIN pl, Records(pl), Holdings(S, pl, m, hs),
         NEW p \in DOMAIN pl, NEW h \in hs, h.ptr \in Slots(p)
  PROVE  Holdings(S, Give(pl, p, h.ptr), With(m, h.ptr, Spent), hs \ {h})
<1> DEFINE f == pl[p].free
           at == h.ptr
           b == <<at>> \o f
           t == Give(pl, p, at)
           w == With(m, at, Spent)
           g == hs \ {h}
<1>1. /\ DOMAIN pl \subseteq DOMAIN Kinds
      /\ \A q \in DOMAIN pl : pl[q].free \in Seq(Nat) /\ pl[q].spare \in Int /\ pl[q].low \in Int
  BY DEF Records
<1>2. at \in Nat
  BY <1>1, SlotsLie
<1>3. /\ DOMAIN t = DOMAIN pl /\ t[p].free = b /\ t[p].spare = pl[p].spare + 1
      /\ t[p].low = pl[p].low /\ \A q \in DOMAIN pl : q # p => t[q] = pl[q]
  BY <1>2, Gives
<1>4. \A q \in DOMAIN pl : q # p => at \notin Slots(q)
  <2> SUFFICES ASSUME NEW q \in DOMAIN pl, q # p, at \in Slots(q) PROVE FALSE
    OBVIOUS
  <2>1. p \in DOMAIN Kinds /\ q \in DOMAIN Kinds
    BY <1>1
  <2>2. /\ at \in Nat /\ PoolBegin(p) <= at /\ at < PoolEnd(p)
        /\ PoolBegin(q) <= at /\ at < PoolEnd(q)
    BY <2>1, SlotsLie
  <2> QED BY <2>1, <2>2, SlotsApart
<1>5. at \notin FreeOf(pl, p)
  <2>1. PICK q \in DOMAIN pl : at \in Slots(q) /\ at \notin FreeOf(pl, q)
    BY DEF Holdings
  <2> QED BY <1>4, <2>1
<1>6. f \in Seq(Nat) /\ \A i, j \in DOMAIN f : i # j => f[i] # f[j]
  BY <1>1 DEF Holdings
<1>7. at \notin {f[i] : i \in DOMAIN f}
  BY <1>5 DEF FreeOf
<1> HIDE DEF f, at
<1>8. /\ Len(b) = Len(f) + 1 /\ Len(f) \in Nat
      /\ \A i, j \in DOMAIN b : i # j => b[i] # b[j]
      /\ {b[i] : i \in DOMAIN b} = {f[i] : i \in DOMAIN f} \cup {at}
  <2>1. Len(f) \in Nat
    BY <1>6
  <2>2. /\ Len(<<at>> \o f) = Len(f) + 1
        /\ \A i, j \in DOMAIN (<<at>> \o f) : i # j => (<<at>> \o f)[i] # (<<at>> \o f)[j]
        /\ {(<<at>> \o f)[i] : i \in DOMAIN (<<at>> \o f)} = {f[i] : i \in DOMAIN f} \cup {at}
    BY <1>2, <1>6, <1>7, PutFirst, Zenon
  <2> QED BY <2>1, <2>2 DEF b
<1> USE DEF at
<1>9. /\ DOMAIN w = DOMAIN m \cup {at} /\ \A a \in DOMAIN m : a # at => w[a] = m[a]
  BY DEF With
<1> HIDE DEF b, t, w
<1>10. f = pl[p].free
  BY DEF f
<1>11. FreeOf(t, p) = FreeOf(pl, p) \cup {at}
  <2>1. FreeOf(t, p) = {b[i] : i \in DOMAIN b}
    BY <1>3 DEF FreeOf
  <2>2. FreeOf(pl, p) = {f[i] : i \in DOMAIN f}
    BY <1>10 DEF FreeOf
  <2> QED BY <1>8, <2>1, <2>2
<1>12. \A k \in g : k \in hs /\ k.ptr # at
  BY DEF Holdings
<1>13. IsFiniteSet(g)
  BY FS_RemoveElement DEF Holdings
<1>14. \A k \in g : ~k.counted /\ k.ptr \in DOMAIN w /\ w[k.ptr] = k.mark
  BY <1>9, <1>12 DEF Holdings
<1>15. \A k, l \in g : k.ptr = l.ptr => k = l
  BY DEF Holdings
<1>16. \A k \in g : \E q \in DOMAIN t : k.ptr \in Slots(q) /\ k.ptr \notin FreeOf(t, q)
  <2> SUFFICES ASSUME NEW k \in g PROVE \E q \in DOMAIN t : k.ptr \in Slots(q) /\ k.ptr \notin FreeOf(t, q)
    OBVIOUS
  <2>1. PICK q \in DOMAIN pl : k.ptr \in Slots(q) /\ k.ptr \notin FreeOf(pl, q)
    BY <1>12 DEF Holdings
  <2>2. q # p => FreeOf(t, q) = FreeOf(pl, q)
    BY <1>3, <2>1 DEF FreeOf
  <2>3. k.ptr \notin FreeOf(t, q)
    BY <1>11, <1>12, <2>1, <2>2
  <2> QED BY <1>3, <2>1, <2>3
<1>17. ASSUME NEW q \in DOMAIN t
       PROVE  /\ FreeOf(t, q) \subseteq Slots(q)
              /\ \A i, j \in DOMAIN t[q].free : i # j => t[q].free[i] # t[q].free[j]
              /\ t[q].spare = Len(t[q].free) /\ t[q].low <= t[q].spare
  <2>1. CASE q = p
    <3>1. pl[p].spare = Len(f) /\ FreeOf(pl, p) \subseteq Slots(p) /\ pl[p].low <= pl[p].spare
      BY <1>10 DEF Holdings
    <3>2. t[p].spare = Len(t[p].free)
      BY <1>3, <1>8, <3>1
    <3>3. t[p].low <= t[p].spare
      BY <1>1, <1>3, <3>1
    <3>4. \A i, j \in DOMAIN t[p].free : i # j => t[p].free[i] # t[p].free[j]
      BY <1>3, <1>8
    <3>5. FreeOf(t, p) \subseteq Slots(p)
      BY <1>11, <3>1
    <3> QED BY <2>1, <3>2, <3>3, <3>4, <3>5
  <2>2. CASE q # p
    <3>1. q \in DOMAIN pl /\ t[q] = pl[q] /\ FreeOf(t, q) = FreeOf(pl, q)
      BY <1>3, <2>2 DEF FreeOf
    <3> QED BY <3>1 DEF Holdings
  <2> QED BY <2>1, <2>2
<1>18. ASSUME NEW q \in S
       PROVE  /\ Slots(q) \subseteq FreeOf(t, q) \cup {k.ptr : k \in HeldIn(g, q)}
              /\ Len(t[q].free) + Cardinality(HeldIn(g, q)) = PoolTotal(q)
  <2>1. q \in DOMAIN pl /\ IsFiniteSet(HeldIn(hs, q))
    BY FS_Subset DEF HeldIn, Holdings
  <2>2. /\ Slots(q) \subseteq FreeOf(pl, q) \cup {k.ptr : k \in HeldIn(hs, q)}
        /\ Len(pl[q].free) + Cardinality(HeldIn(hs, q)) = PoolTotal(q)
    BY DEF Holdings
  <2>3. CASE q = p
    <3>1. HeldIn(g, p) = HeldIn(hs, p) \ {h} /\ h \in HeldIn(hs, p)
      BY DEF HeldIn
    <3>2. Cardinality(HeldIn(g, p)) = Cardinality(HeldIn(hs, p)) - 1
      BY <2>1, <2>3, <3>1, FS_RemoveElement
    <3>3. Cardinality(HeldIn(hs, p)) \in Nat
      BY <2>1, <2>3, FS_CardinalityType
    <3>4. Len(t[p].free) + Cardinality(HeldIn(g, p)) = PoolTotal(p)
      BY <1>3, <1>8, <1>10, <2>2, <2>3, <3>2, <3>3
    <3>5. {k.ptr : k \in HeldIn(hs, p)} \subseteq {k.ptr : k \in HeldIn(g, p)} \cup {at}
      BY <3>1
    <3>6. Slots(p) \subseteq FreeOf(t, p) \cup {k.ptr : k \in HeldIn(g, p)}
      BY <1>11, <2>2, <2>3, <3>5
    <3> QED BY <2>3, <3>4, <3>6
  <2>4. CASE q # p
    <3>1. t[q] = pl[q] /\ FreeOf(t, q) = FreeOf(pl, q)
      BY <1>3, <2>1, <2>4 DEF FreeOf
    <3>2. HeldIn(g, q) = HeldIn(hs, q)
      BY <1>4, <2>1, <2>4 DEF HeldIn
    <3> QED BY <2>2, <3>1, <3>2
  <2> QED BY <2>3, <2>4
<1>19. Holdings(S, t, w, g)
  BY <1>13, <1>14, <1>15, <1>16, <1>17, <1>18 DEF Holdings
<1> QED BY <1>19 DEF t, w

\* An element of a pool that was released is forgotten.
LEMMA DropKeeps ==
  ASSUME NEW S, NEW pl, NEW m, NEW hs, Holdings(S, pl, m, hs), NEW h \in hs,
         \A p \in S : h.ptr \notin Slots(p)
  PROVE  Holdings(S, pl, m, hs \ {h})
<1>1. IsFiniteSet(hs \ {h})
  BY FS_RemoveElement DEF Holdings
<1>2. \A p \in S : HeldIn(hs \ {h}, p) = HeldIn(hs, p)
  BY DEF HeldIn
<1> QED BY <1>1, <1>2 DEF Holdings

\* The pools on the list, and what holds of their elements.
Listed == Members(set)

ElementInv == Holdings(Listed, pool, mem, held)

\* mp__find_pool finds the pool an element is of, as long as it is on the list; none of
\* these elements looks like a counted one.
LEMMA OwnerHas ==
  ASSUME SizeAssumption, PoolInv, ElementInv, NEW h \in held
  PROVE  /\ Owner(h.ptr) = {p \in Listed : h.ptr \in Slots(p)}
         /\ Owner(h.ptr) # {} =>
              /\ OwnerOf(h.ptr) \in Listed
              /\ h.ptr \in Slots(OwnerOf(h.ptr))
              /\ ~IsRefCounted(OwnerOf(h.ptr), h.ptr)
<1>1. /\ h.ptr \in Nat /\ DOMAIN pool \subseteq DOMAIN Kinds /\ Listed \subseteq DOMAIN pool
      /\ \A p \in DOMAIN pool : /\ pool[p].begin = PoolBegin(p) /\ pool[p].end = PoolEnd(p)
                              /\ pool[p].size = PoolSize(p)
  BY DEF PoolInv, Records, Listed, Members
<1>2. Owner(h.ptr) = {p \in Listed : PoolBegin(p) <= h.ptr /\ h.ptr < PoolEnd(p)}
  BY <1>1 DEF Owner, Range, Listed, Members
<1>3. PICK q \in DOMAIN pool : h.ptr \in Slots(q)
  BY DEF ElementInv, Holdings
<1>4. q \in DOMAIN Kinds /\ PoolBegin(q) <= h.ptr /\ h.ptr < PoolEnd(q)
  BY <1>1, <1>3, SlotsLie
<1>5. \A p \in Owner(h.ptr) : p = q
  <2> SUFFICES ASSUME NEW p \in Owner(h.ptr), p # q PROVE FALSE
    OBVIOUS
  <2>1. p \in DOMAIN Kinds /\ PoolBegin(p) <= h.ptr /\ h.ptr < PoolEnd(p)
    BY <1>1, <1>2
  <2> QED BY <1>1, <1>4, <2>1, SlotsApart
<1>6. \A p \in Listed : h.ptr \in Slots(p) => PoolBegin(p) <= h.ptr /\ h.ptr < PoolEnd(p)
  BY <1>1, SlotsLie
<1>7. Owner(h.ptr) = {p \in Listed : h.ptr \in Slots(p)}
  <2>1. \A p \in Owner(h.ptr) : p \in Listed /\ h.ptr \in Slots(p)
    BY <1>2, <1>3, <1>5
  <2>2. \A p \in Listed : h.ptr \in Slots(p) => p \in Owner(h.ptr)
    BY <1>2, <1>6
  <2> QED BY <2>1, <2>2
<1>8. ASSUME Owner(h.ptr) # {}
      PROVE  /\ OwnerOf(h.ptr) \in Listed
             /\ h.ptr \in Slots(OwnerOf(h.ptr))
             /\ ~IsRefCounted(OwnerOf(h.ptr), h.ptr)
  <2> DEFINE p == OwnerOf(h.ptr)
  <2>1. p \in Owner(h.ptr)
    BY <1>1, <1>8, OwnerIs
  <2> HIDE DEF p
  <2>2. p \in Listed /\ h.ptr \in Slots(p) /\ p \in DOMAIN Kinds
    BY <1>1, <1>7, <2>1
  <2>3. (h.ptr - PoolBegin(p)) % PoolSize(p) = 0
    BY <2>2, SlotsLie
  <2>4. ~IsRefCounted(p, h.ptr)
    BY <1>1, <2>2, <2>3 DEF IsRefCounted, Count
  <2> QED BY <2>2, <2>4 DEF p
<1> QED BY <1>7, <1>8

\* The list of pools holds pools.
LEMMA ListedIn ==
  ASSUME PoolInv
  PROVE  Listed \subseteq DOMAIN pool /\ Records(pool)
BY DEF PoolInv, Listed, Members

\* Allocating, freeing and moving an element, in terms of the invariant.
LEMMA HandElements ==
  ASSUME SizeAssumption, PoolInv, ElementInv, NEW i \in DOMAIN set, Usable(set[i]), NEW mark \in Marks,
         Hand(set[i], Head(pool[set[i]].free), 0, FALSE, mark), set' = set
  PROVE  ElementInv'
<1> DEFINE p == set[i]
           at == Head(pool[p].free)
           new == [ptr |-> at, mark |-> mark, counted |-> FALSE]
<1>1. p \in DOMAIN pool /\ pool[p].free # <<>> /\ at \in Nat
  BY UsableHas
<1>2. at + 0 = at
  BY <1>1
<1>3. /\ mem' = With(mem, at, mark) /\ pool' = Take(pool, p) /\ held' = held \cup {new}
  BY <1>2 DEF Hand
<1>4. Listed' = Listed
  BY DEF Listed
<1> HIDE DEF p
<1>5. Holdings(Listed, Take(pool, p), With(mem, at, mark), held \cup {new})
  BY <1>1, ListedIn, HandKeeps DEF ElementInv
<1> QED BY <1>3, <1>4, <1>5 DEF ElementInv

\* mp_free of an element of a listed pool: it is not taken for a counted one.
LEMMA ReturnElements ==
  ASSUME SizeAssumption, PoolInv, ElementInv, NEW h \in held, Owner(h.ptr) # {}, GiveBack(h),
         set' = set, held' = held \ {h}
  PROVE  ElementInv'
<1> DEFINE p == OwnerOf(h.ptr)
<1>1. p \in Listed /\ h.ptr \in Slots(p) /\ ~IsRefCounted(p, h.ptr)
  BY OwnerHas
<1>2. pool' = Give(pool, p, h.ptr) /\ mem' = With(mem, h.ptr, Spent)
  BY <1>1 DEF GiveBack
<1>3. Listed' = Listed
  BY DEF Listed
<1> HIDE DEF p
<1>4. p \in DOMAIN pool
  BY <1>1, ListedIn
<1>5. Holdings(Listed, Give(pool, p, h.ptr), With(mem, h.ptr, Spent), held \ {h})
  BY <1>1, <1>4, ListedIn, GiveKeeps DEF ElementInv
<1> QED BY <1>2, <1>3, <1>5 DEF ElementInv

\* mp_realloc to a larger element: the two pools differ, as their sizes do.
LEMMA MoveElements ==
  ASSUME SizeAssumption, PoolInv, ElementInv, NEW h \in held, NEW size \in Nat, Owner(h.ptr) # {},
         Move(h, size), set' = set
  PROVE  ElementInv'
<1> DEFINE from == OwnerOf(h.ptr)
           found == Fitting(size)
           p == set[Min(found)]
           at == Head(pool[p].free)
           taken == Take(pool, p)
           moved == With(mem, at, mem[h.ptr])
           new == [ptr |-> at, mark |-> mem[h.ptr], counted |-> FALSE]
<1>1. from \in Listed /\ h.ptr \in Slots(from) /\ ~IsRefCounted(from, h.ptr)
  BY OwnerHas
<1>2. mem[h.ptr] = h.mark
  BY DEF ElementInv, Holdings
<1>3. /\ found # {} /\ pool[from].size < size
      /\ pool' = Give(taken, from, h.ptr)
      /\ mem' = With(moved, h.ptr, Spent)
      /\ held' = (held \ {h}) \cup {new}
  BY <1>1, <1>2 DEF Move
<1>4. found \subseteq DOMAIN set /\ \A i \in found : Usable(set[i]) /\ pool[set[i]].size >= size
  BY DEF Fitting
<1> HIDE DEF found, from
<1>5. Min(found) \in found
  <2>1. set \in Seq(DOMAIN pool) /\ DOMAIN pool \subseteq DOMAIN Kinds /\ InOrder(set)
    BY DEF PoolInv, Records
  <2> QED BY <1>3, <1>4, <2>1, FirstIsTightest
<1>6. /\ Min(found) \in DOMAIN set /\ Usable(p) /\ pool[p].size >= size
  BY <1>4, <1>5
<1>7. p \in DOMAIN pool /\ pool[p].free # <<>> /\ at \in Nat
  BY <1>6, UsableHas
<1> HIDE DEF p, at
<1>8. p # from
  <2>1. p \in DOMAIN Kinds /\ pool[p].size = PoolSize(p) /\ PoolSize(p) \in Nat
    <3>1. p \in DOMAIN Kinds /\ pool[p].size = PoolSize(p)
      BY <1>7, ListedIn DEF Records
    <3> QED BY <3>1, LayoutFits
  <2> QED BY <1>3, <1>6, <2>1
<1>9. Listed \subseteq DOMAIN pool /\ Records(pool)
  BY ListedIn
<1>10. /\ Holdings(Listed, taken, moved, held \cup {new}) /\ \A k \in held : k.ptr # at
  BY <1>7, <1>9, HandKeeps, Zenon DEF ElementInv, at
<1>11. Records(taken) /\ DOMAIN taken = DOMAIN pool
  BY <1>7, <1>9, Takes
<1>12. h # new
  BY <1>10
<1> HIDE DEF taken, moved, new
<1>13. Holdings(Listed, Give(taken, from, h.ptr), With(moved, h.ptr, Spent), (held \cup {new}) \ {h})
  BY <1>1, <1>9, <1>10, <1>11, GiveKeeps
<1>14. (held \cup {new}) \ {h} = (held \ {h}) \cup {new}
  BY <1>12
<1>15. Listed' = Listed
  BY DEF Listed
<1> QED BY <1>3, <1>13, <1>14, <1>15 DEF ElementInv

\* A pool that is added has all its elements on its free list.
LEMMA AddElements ==
  ASSUME SizeAssumption, PoolInv, ElementInv, NEW p \in DOMAIN Kinds, AddPool(p)
  PROVE  ElementInv'
<1> DEFINE n == NewPool(Kinds[p])
           D == DOMAIN pool
<1>1. /\ p \notin D /\ pool' = [z \in D \cup {p} |-> IF z = p THEN n ELSE pool[z]]
      /\ set' = Place(set, p) /\ held' = held /\ mem' = mem
  BY DEF AddPool, With
<1>2. /\ n.free \in Seq(Nat) /\ Len(n.free) = PoolTotal(p)
      /\ \A i, j \in DOMAIN n.free : i # j => n.free[i] # n.free[j]
      /\ {n.free[i] : i \in DOMAIN n.free} = Slots(p)
      /\ n.spare = PoolTotal(p) /\ n.low = PoolTotal(p)
  BY NewPoolIs, ChunksAre
<1>3. PoolInv'
  BY PoolKeeps DEF PoolNext
<1>4. /\ set \in Seq(D) /\ D \subseteq DOMAIN Kinds /\ InOrder(set) /\ Records(pool) /\ Listed \subseteq D
      /\ Records(pool)'
  BY <1>3 DEF PoolInv, Records, Listed, Members
<1> HIDE DEF n
<1>5. /\ DOMAIN pool' = D \cup {p} /\ pool'[p] = n /\ \A q \in D : pool'[q] = pool[q]
  BY <1>1
<1>6. Listed' = Listed \cup {p}
  <2>1. D \subseteq DOMAIN pool' /\ p \in DOMAIN pool' \ D
    BY <1>1, <1>5
  <2> HIDE DEF D
  <2>2. set \in Seq(D) /\ InOrder(set) /\ Records(pool)'
    BY <1>4
  <2>3. Members(Place(set, p)) = Members(set) \cup {p}
    BY <2>1, <2>2, Placed, ZenonT(30)
  <2>4. set' = Place(set, p)
    BY <1>1
  <2> QED BY <2>3, <2>4 DEF Listed
<1> DEFINE w == pool'
<1> HIDE DEF w, D
<1>7. FreeOf(w, p) = Slots(p) /\ \A q \in D : FreeOf(w, q) = FreeOf(pool, q)
  BY <1>2, <1>5 DEF FreeOf, w
<1>8. \A h \in held : h.ptr \notin Slots(p)
  <2> SUFFICES ASSUME NEW h \in held, h.ptr \in Slots(p) PROVE FALSE
    OBVIOUS
  <2>1. PICK q \in D : h.ptr \in Slots(q)
    BY DEF ElementInv, Holdings, D
  <2>2. q \in DOMAIN Kinds /\ q # p
    BY <1>1, <1>4
  <2>3. /\ h.ptr \in Nat /\ PoolBegin(p) <= h.ptr /\ h.ptr < PoolEnd(p)
        /\ PoolBegin(q) <= h.ptr /\ h.ptr < PoolEnd(q)
    BY <2>1, <2>2, SlotsLie
  <2> QED BY <2>2, <2>3, SlotsApart
<1>9. HeldIn(held, p) = {} /\ Cardinality(HeldIn(held, p)) = 0
  BY <1>8, FS_EmptySet DEF HeldIn
<1>10. PoolTotal(p) \in Nat
  BY LayoutFits
<1>11. /\ IsFiniteSet(held)
       /\ \A h \in held : ~h.counted /\ h.ptr \in DOMAIN mem /\ mem[h.ptr] = h.mark
       /\ \A g, h \in held : g.ptr = h.ptr => g = h
  BY DEF ElementInv, Holdings
<1>12. \A h \in held : \E q \in DOMAIN w : h.ptr \in Slots(q) /\ h.ptr \notin FreeOf(w, q)
  <2> SUFFICES ASSUME NEW h \in held PROVE \E q \in DOMAIN w : h.ptr \in Slots(q) /\ h.ptr \notin FreeOf(w, q)
    OBVIOUS
  <2>1. PICK q \in D : h.ptr \in Slots(q) /\ h.ptr \notin FreeOf(pool, q)
    BY DEF ElementInv, Holdings, D
  <2> QED BY <1>5, <1>7, <2>1 DEF w
<1>13. ASSUME NEW q \in DOMAIN w
       PROVE  /\ FreeOf(w, q) \subseteq Slots(q)
              /\ \A i, j \in DOMAIN w[q].free : i # j => w[q].free[i] # w[q].free[j]
              /\ w[q].spare = Len(w[q].free) /\ w[q].low <= w[q].spare
  <2>1. CASE q = p
    <3>1. w[p] = n
      BY <1>5 DEF w
    <3> QED BY <1>2, <1>7, <1>10, <2>1, <3>1
  <2>2. CASE q # p
    <3>1. q \in D /\ w[q] = pool[q] /\ FreeOf(w, q) = FreeOf(pool, q)
      BY <1>5, <1>7, <2>2 DEF w
    <3> QED BY <3>1 DEF ElementInv, Holdings, D
  <2> QED BY <2>1, <2>2
<1>14. ASSUME NEW q \in Listed \cup {p}
       PROVE  /\ Slots(q) \subseteq FreeOf(w, q) \cup {h.ptr : h \in HeldIn(held, q)}
              /\ Len(w[q].free) + Cardinality(HeldIn(held, q)) = PoolTotal(q)
  <2>1. CASE q = p
    <3>1. w[p] = n
      BY <1>5 DEF w
    <3>2. Slots(p) \subseteq FreeOf(w, p) \cup {h.ptr : h \in HeldIn(held, p)}
      BY <1>7
    <3>3. Len(w[p].free) + Cardinality(HeldIn(held, p)) = PoolTotal(p)
      BY <1>2, <1>9, <1>10, <3>1
    <3> QED BY <2>1, <3>2, <3>3
  <2>2. CASE q # p
    <3>1. q \in Listed /\ w[q] = pool[q] /\ FreeOf(w, q) = FreeOf(pool, q)
      BY <1>4, <1>5, <1>7, <2>2 DEF w
    <3> QED BY <3>1 DEF ElementInv, Holdings
  <2> QED BY <2>1, <2>2
<1>15. Holdings(Listed \cup {p}, w, mem, held)
  BY <1>11, <1>12, <1>13, <1>14 DEF Holdings
<1>16. Holdings(Listed', pool', mem', held')
  BY <1>1, <1>6, <1>15 DEF w
<1> QED BY <1>16 DEF ElementInv

\* The elements stay where they are through every call.
LEMMA ElementKeeps ==
  ASSUME SizeAssumption, ~Counted, PoolInv, ElementInv, PoolNext
  PROVE  ElementInv'
<1>0. Requests \subseteq Nat /\ PoolInv
  BY DEF SizeAssumption
<1>i. set \in Seq(DOMAIN pool) /\ DOMAIN pool \subseteq DOMAIN Kinds /\ InOrder(set) /\ Records(pool)
  BY DEF PoolInv, Records
<1>1. ASSUME NEW p \in DOMAIN Kinds, AddPool(p) PROVE ElementInv'
  BY <1>1, AddElements
<1>2. ASSUME NEW size \in Requests, NEW mark \in Marks, NEW a \in {1, 16}, Alloc(size, a, mark)
      PROVE  ElementInv'
  <2> DEFINE found == Fitting(size) \cap Aligned(a)
             i == Min(found)
  <2>1. found # {} /\ set' = set /\ Hand(set[i], Head(pool[set[i]].free), 0, FALSE, mark)
    BY <1>2 DEF Alloc
  <2>2. found \subseteq DOMAIN set /\ \A j \in found : Usable(set[j])
    BY DEF Fitting
  <2> HIDE DEF found
  <2>3. i \in found
    BY <1>i, <2>1, <2>2, FirstIsTightest
  <2> HIDE DEF i
  <2> QED BY <1>0, <2>1, <2>2, <2>3, HandElements
<1>3. ASSUME NEW size \in Requests, NEW mark \in Marks, AllocBestEffort(size, mark)
      PROVE  ElementInv'
  <2> DEFINE able == {j \in DOMAIN set : Usable(set[j])}
             found == Fitting(size)
             i == IF found # {} THEN Min(found) ELSE Max(able)
  <2>1. able # {} /\ set' = set /\ Hand(set[i], Head(pool[set[i]].free), 0, FALSE, mark)
    BY <1>3 DEF AllocBestEffort
  <2>2. found \subseteq able
    BY DEF Fitting
  <2>3. Len(set) \in Nat /\ able \in SUBSET (1..Len(set)) /\ found \in SUBSET (1..Len(set))
    BY <1>i, <2>2
  <2> HIDE DEF able, found
  <2>4. i \in able
    BY <2>1, <2>2, <2>3, Extremes
  <2>5. i \in DOMAIN set /\ Usable(set[i])
    BY <2>4 DEF able
  <2> HIDE DEF i
  <2> QED BY <1>0, <2>1, <2>5, HandElements
<1>4. ASSUME NEW h \in held, Free(h) PROVE ElementInv'
  <2>1. set' = set /\ held' = held \ {h}
    BY <1>4 DEF Free
  <2>2. CASE Owner(h.ptr) = {}
    <3>1. pool' = pool /\ mem' = mem
      BY <1>4, <2>2 DEF Free
    <3>2. \A p \in Listed : h.ptr \notin Slots(p)
      BY <1>0, <2>2, OwnerHas
    <3>3. Holdings(Listed, pool, mem, held \ {h})
      BY <3>2, DropKeeps DEF ElementInv
    <3>4. Listed' = Listed
      BY <2>1 DEF Listed
    <3> QED BY <2>1, <3>1, <3>3, <3>4 DEF ElementInv
  <2>3. CASE Owner(h.ptr) # {}
    <3>1. GiveBack(h)
      BY <1>4, <2>3 DEF Free
    <3> QED BY <1>0, <2>1, <2>3, <3>1, ReturnElements
  <2> QED BY <2>2, <2>3
<1>5. ASSUME NEW h \in held, NEW size \in Requests \cup {0}, Realloc(h, size) PROVE ElementInv'
  <2>1. set' = set /\ Owner(h.ptr) # {}
    BY <1>5 DEF Realloc
  <2>2. CASE size = 0
    <3>1. GiveBack(h) /\ held' = held \ {h}
      BY <1>5, <2>2 DEF Realloc
    <3> QED BY <1>0, <2>1, <3>1, ReturnElements
  <2>3. CASE size # 0
    <3>1. Move(h, size) /\ size \in Nat
      BY <1>0, <1>5, <2>3 DEF Realloc
    <3> QED BY <1>0, <2>1, <3>1, MoveElements
  <2> QED BY <2>2, <2>3
<1>6. ASSUME NEW p \in DOMAIN pool, PoolEnable(p) PROVE ElementInv'
  <2>1. /\ pool' = [pool EXCEPT ![p] = [pool[p] EXCEPT !.disabled = ~pool[p].disabled]]
        /\ UNCHANGED <<set, mem, held>>
    BY <1>6 DEF PoolEnable
  <2>2. pool[p] \in [begin : {PoolBegin(p)}, end : {PoolEnd(p)}, size : {PoolSize(p)},
                   free : Seq(Nat), spare : Int, low : Int, disabled : BOOLEAN]
    BY <1>i DEF Records
  <2> DEFINE w == pool'
  <2>3. /\ DOMAIN w = DOMAIN pool
        /\ \A q \in DOMAIN pool : /\ w[q].free = pool[q].free /\ w[q].spare = pool[q].spare
                                /\ w[q].low = pool[q].low
    BY <2>1, <2>2
  <2> HIDE DEF w
  <2>4. \A q \in DOMAIN pool : FreeOf(w, q) = FreeOf(pool, q)
    BY <2>3 DEF FreeOf
  <2>5. Holdings(Listed, w, mem, held)
    <3>1. Listed \subseteq DOMAIN pool
      BY <1>0, ListedIn
    <3> QED BY <2>3, <2>4, <3>1 DEF ElementInv, Holdings
  <2>6. Listed' = Listed
    BY <2>1 DEF Listed
  <2> QED BY <2>1, <2>5, <2>6 DEF ElementInv, w
<1>7. ASSUME NEW S, S \subseteq Listed, Keep(S), UNCHANGED <<pool, mem, held>> PROVE ElementInv'
  <2>1. {set'[i] : i \in DOMAIN set'} = S
    BY <1>i, <1>7, KeptInOrder DEF Listed, Members
  <2>2. Listed' \subseteq Listed
    BY <1>7, <2>1 DEF Listed, Members
  <2>3. Holdings(Listed', pool, mem, held)
    BY <2>2 DEF ElementInv, Holdings
  <2> QED BY <1>7, <2>3 DEF ElementInv
<1>8. ASSUME NEW p \in DOMAIN pool, NEW in_use \in BOOLEAN, ReleasePool(p, in_use)
      PROVE  ElementInv'
  <2>1. /\ Keep(Range(set) \ {p}) /\ UNCHANGED <<pool, mem, held>>
    BY <1>8 DEF ReleasePool
  <2>2. Range(set) \ {p} \subseteq Listed
    BY DEF Range, Listed, Members
  <2> QED BY <1>7, <2>1, <2>2
<1>9. ASSUME NEW in_use \in BOOLEAN, ReleasePoolSet(in_use) PROVE ElementInv'
  <2> DEFINE S == {q \in Range(set) : ~Released(q, in_use)}
  <2>1. Keep(S) /\ UNCHANGED <<pool, mem, held>>
    BY <1>9 DEF ReleasePoolSet
  <2>2. S \subseteq Listed
    BY DEF Range, Listed, Members
  <2> HIDE DEF S
  <2> QED BY <1>7, <2>1, <2>2
<1>10. \A h \in held : ~IncRef(h)
  BY DEF IncRef, ElementInv, Holdings
<1>11. \A size, mark : ~AllocWithRef(size, mark)
  BY DEF AllocWithRef
<1> QED BY <1>1, <1>2, <1>3, <1>4, <1>5, <1>6, <1>8, <1>9, <1>10, <1>11 DEF PoolNext

\* What the invariants say of the elements and of where the pools are.
LEMMA ElementsSound ==
  ASSUME SizeAssumption, PoolInv, ElementInv
  PROVE  EachElementOnce /\ IdleIsUnheld /\ ContentIsKept
<1>1. /\ Listed \subseteq DOMAIN pool /\ DOMAIN pool \subseteq DOMAIN Kinds /\ Range(set) = Listed
      /\ \A p \in DOMAIN pool : /\ pool[p].begin = PoolBegin(p) /\ pool[p].end = PoolEnd(p)
                              /\ pool[p].size = PoolSize(p)
                              /\ pool[p].free \in Seq(Nat) /\ pool[p].low \in Int
  BY ListedIn DEF Records, Range, Listed, Members
<1>2. \A h \in held : Owner(h.ptr) = {p \in Listed : h.ptr \in Slots(p)}
  BY OwnerHas
<1>3. ASSUME NEW p \in Listed
      PROVE  /\ TotalElements(p) = PoolTotal(p) /\ ElementsOf(p) = Slots(p)
             /\ InPool(p) = HeldIn(held, p) /\ Range(pool[p].free) = FreeOf(pool, p)
  <2>1. TotalElements(p) = PoolTotal(p)
    BY <1>1 DEF TotalElements, PoolTotal
  <2>2. ElementsOf(p) = Slots(p)
    BY <1>1, <2>1 DEF ElementsOf, Slots
  <2>3. InPool(p) = HeldIn(held, p)
    BY <1>2 DEF InPool, HeldIn
  <2> QED BY <2>1, <2>2, <2>3 DEF Range, FreeOf
<1>4. ASSUME NEW p \in Listed, NEW h \in HeldIn(held, p) PROVE h.ptr \notin FreeOf(pool, p)
  <2>1. h \in held /\ h.ptr \in Slots(p) /\ p \in DOMAIN Kinds
    BY <1>1 DEF HeldIn
  <2>2. PICK q \in DOMAIN pool : h.ptr \in Slots(q) /\ h.ptr \notin FreeOf(pool, q)
    BY <2>1 DEF ElementInv, Holdings
  <2>3. /\ q \in DOMAIN Kinds /\ h.ptr \in Nat
        /\ PoolBegin(p) <= h.ptr /\ h.ptr < PoolEnd(p)
        /\ PoolBegin(q) <= h.ptr /\ h.ptr < PoolEnd(q)
    BY <1>1, <2>1, <2>2, SlotsLie
  <2>4. q = p
    BY <2>1, <2>3, SlotsApart
  <2> QED BY <2>2, <2>4
<1>5. EachElementOnce
  <2> SUFFICES ASSUME NEW p \in Listed
               PROVE  /\ Slots(p) = FreeOf(pool, p) \cup {h.ptr : h \in HeldIn(held, p)}
                      /\ \A i, j \in DOMAIN pool[p].free : i # j => pool[p].free[i] # pool[p].free[j]
                      /\ \A h \in HeldIn(held, p) : /\ h.ptr \notin FreeOf(pool, p)
                                                  /\ \A g \in HeldIn(held, p) : g.ptr = h.ptr => g = h
    BY <1>1, <1>3 DEF EachElementOnce
  <2>1. p \in DOMAIN pool
    BY <1>1
  <2>2. /\ Slots(p) \subseteq FreeOf(pool, p) \cup {h.ptr : h \in HeldIn(held, p)}
        /\ FreeOf(pool, p) \subseteq Slots(p)
        /\ \A i, j \in DOMAIN pool[p].free : i # j => pool[p].free[i] # pool[p].free[j]
        /\ \A g, h \in held : g.ptr = h.ptr => g = h
    BY <2>1 DEF ElementInv, Holdings
  <2>3. {h.ptr : h \in HeldIn(held, p)} \subseteq Slots(p)
    BY DEF HeldIn
  <2>4. \A g, h \in HeldIn(held, p) : g.ptr = h.ptr => g = h
    BY <2>2 DEF HeldIn
  <2> QED BY <1>4, <2>2, <2>3, <2>4
<1>6. IdleIsUnheld
  <2> SUFFICES ASSUME NEW p \in Listed
               PROVE  /\ pool[p].spare # PoolTotal(p) <=> HeldIn(held, p) # {}
                      /\ pool[p].low <= Len(pool[p].free)
    BY <1>1, <1>3 DEF IdleIsUnheld, InUse
  <2>1. p \in DOMAIN pool /\ IsFiniteSet(HeldIn(held, p))
    BY <1>1, FS_Subset DEF ElementInv, Holdings, HeldIn
  <2>2. /\ pool[p].spare = Len(pool[p].free) /\ pool[p].low <= pool[p].spare
        /\ Len(pool[p].free) + Cardinality(HeldIn(held, p)) = PoolTotal(p)
    BY <2>1 DEF ElementInv, Holdings
  <2>3. /\ Cardinality(HeldIn(held, p)) \in Nat /\ Len(pool[p].free) \in Nat
        /\ (Cardinality(HeldIn(held, p)) = 0 <=> HeldIn(held, p) = {})
    BY <1>1, <2>1, FS_CardinalityType, FS_EmptySet
  <2> QED BY <2>2, <2>3
<1>7. ContentIsKept
  BY DEF ContentIsKept, ElementInv, Holdings
<1> QED BY <1>5, <1>6, <1>7

\* The pools lie in their buffers, and every value is of its kind.
LEMMA PoolsSound ==
  ASSUME SizeAssumption, PoolInv
  PROVE  StaysInBuffer /\ PoolTypeOK
<1>1. /\ set \in Seq(DOMAIN pool) /\ DOMAIN pool \subseteq DOMAIN Kinds
      /\ \A h \in held : h.ptr \in Nat /\ h.mark \in Marks
      /\ \A p \in DOMAIN pool : /\ pool[p].disabled \in BOOLEAN /\ pool[p].free \in Seq(Nat)
                              /\ pool[p].begin = PoolBegin(p) /\ pool[p].end = PoolEnd(p)
  BY DEF PoolInv, Records
<1>2. set \in Seq(DOMAIN Kinds)
  BY <1>1
<1>3. \A p \in DOMAIN pool : /\ PoolBegin(p) >= Kinds[p].at + Header
                           /\ PoolEnd(p) <= Kinds[p].at + Kinds[p].len
  BY <1>1, LayoutFits
<1> QED BY <1>1, <1>2, <1>3 DEF StaysInBuffer, PoolTypeOK

\* There are no pools at the start.
LEMMA PoolStarts ==
  ASSUME PoolInit
  PROVE  PoolInv /\ ElementInv
<1>1. set = <<>> /\ pool = << >> /\ held = {}
  BY DEF PoolInit
<1>2. PoolInv
  BY <1>1 DEF PoolInv, Records, InOrder
<1>3. Listed = {} /\ DOMAIN pool = {}
  BY <1>1 DEF Listed, Members
<1>4. ElementInv
  BY <1>1, <1>3, FS_EmptySet DEF ElementInv, Holdings
<1> QED BY <1>2, <1>4

\* Every call keeps the pools, and the elements if none is counted.
LEMMA PoolSteps ==
  ASSUME SizeAssumption, PoolInv, [PoolNext]_poolVars
  PROVE  /\ PoolInv'
         /\ ~Counted /\ ElementInv => ElementInv'
         /\ [TakesTightest]_poolVars
<1>1. CASE PoolNext
  BY <1>1, PoolKeeps, ElementKeeps
<1>2. CASE UNCHANGED poolVars
  <2>1. UNCHANGED <<set, pool, mem, held>>
    BY <1>2 DEF poolVars
  <2>2. PoolInv'
    BY <2>1 DEF PoolInv, Records, InOrder
  <2>3. ElementInv => ElementInv'
    BY <2>1 DEF ElementInv, Holdings, Listed
  <2> QED BY <1>2, <2>2, <2>3
<1> QED BY <1>1, <1>2

\* The pools stay where they were made and in order of element size, whatever clients ask
\* for and whatever pools are added, disabled and released.
THEOREM PoolInvariance ==
  ASSUME SizeAssumption
  PROVE  PoolSpec => []PoolInv
BY PoolStarts, PoolSteps, PTL DEF PoolSpec

\* StaysInBuffer: no pool has an element that is not in the memory the pool was made from,
\* whatever the alignment of the buffer and of the elements (mp__init_pool).
THEOREM PoolsAreInBuffers ==
  ASSUME SizeAssumption
  PROVE  PoolSpec => [](StaysInBuffer /\ PoolTypeOK)
BY PoolInvariance, PoolsSound, PTL

\* EachElementOnce, IdleIsUnheld, ContentIsKept: while nobody takes a counted element, no
\* call loses an element or hands it out twice, a pool that says it is idle is, and what a
\* client wrote stays, over any number of calls of mempool.c.
THEOREM ElementsAreKept ==
  ASSUME SizeAssumption, ~Counted
  PROVE  PoolSpec => [](EachElementOnce /\ IdleIsUnheld /\ ContentIsKept)
<1>1. PoolInv /\ ElementInv /\ [PoolNext]_poolVars => (PoolInv /\ ElementInv)'
  BY PoolSteps
<1>2. PoolInv /\ ElementInv => EachElementOnce /\ IdleIsUnheld /\ ContentIsKept
  BY ElementsSound
<1> QED BY <1>1, <1>2, PoolStarts, PTL DEF PoolSpec

\* AllocIsTightest: an allocation takes an element of the smallest size that would do,
\* with counted elements or without (mp_add_pool keeps the order, mp_alloc takes the first).
THEOREM AllocationIsTightest ==
  ASSUME SizeAssumption
  PROVE  PoolSpec => AllocIsTightest
<1>1. PoolInv /\ [PoolNext]_poolVars => [TakesTightest]_poolVars
  BY PoolSteps
<1> QED BY <1>1, PoolInvariance, PTL DEF PoolSpec, AllocIsTightest
=============================================================================
