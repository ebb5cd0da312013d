----------------------------- MODULE UmsgProof -----------------------------
(***************************************************************************)
(* Proofs about Umsg.  RefsAreHolders is inductive with the types: each    *)
(* step moves a message between two places that count, or changes the      *)
(* count and one place.  That a target is reached needs more: the links    *)
(* form a list (LinkInv), of which Linked is the part that is still ahead, *)
(* and while the hub walks, each target that stayed subscribed has been    *)
(* reached or is linked from where the hub is (WalkInv).  Taking a target  *)
(* off the list keeps the others ahead; pushing one puts it behind the     *)
(* hub.                                                                    *)
(***************************************************************************)
EXTENDS Umsg, FiniteSetTheorems, TLAPS

Types ==
  /\ inbox \in Seq(Messages) /\ Len(inbox) <= InboxLen
  /\ queue \in [All -> Seq(Messages)] /\ \A t \in All : Len(queue[t]) <= QueueLen[t]
  /\ first \in All \cup {Nil} /\ next \in [All -> All \cup {Nil}] /\ DOMAIN filters = All
  /\ pc \in {"idle", "walk", "send", "next", "wild"} /\ msg \in Messages /\ cur \in All \cup {Nil}
  /\ refs \in [Payloads -> Int] /\ owner \subseteq Payloads
  /\ taken \in [All -> Messages \cup {Nil}]
QueryTypes ==
  query \in [Queries -> [at : {"off", "send", "wait", "clean", "free"}, handler : BOOLEAN,
                         got : Queries \cup {Nil}, result : Queries \cup {Nil}]]
HubIsAt == /\ pc = "send" => cur \in Targets /\ QueueLen[cur] > 0
           /\ pc = "next" => cur \in All

TypeInv == Types /\ QueryTypes /\ HubIsAt

\* A list: nothing before the first, one before each other, and nothing after what is not on it.
IsList(n, f) ==
  /\ \A s \in All : n[s] # Nil => n[s] # f
  /\ \A s, t \in All : n[s] = n[t] /\ n[s] # Nil => s = t
  /\ \A s \in All \ Linked(n, f) : n[s] = Nil
\* A query that is not asking is not on the list of subscribers.
LinkInv ==
  /\ IsList(next, first)
  /\ QueryIsListed

Reached(t) == t \in seen \cup Queries

WalkInv ==
  /\ steady \subseteq Subscribed
  /\ steady # {} => cur \in Subscribed \cup {Nil}
  /\ pc \in {"walk", "send", "next"} =>
       \A t \in steady : MatchFilter(t, msg.id) => Reached(t) \/ t \in Linked(next, cur)
  /\ pc = "next" /\ cur \in steady /\ MatchFilter(cur, msg.id) => Reached(cur)

Assumptions == LengthAssumption /\ TargetAssumption

-----------------------------------------------------------------------------
(* Messages and sequences of them. *)

\* The parts of a message.
LEMMA MessageFields ==
  ASSUME NEW m \in Messages
  PROVE  /\ m.id \in Events \cup {Error} \cup Queries /\ m.payload \in Payloads \cup {None}
         /\ m.source \in Queries \cup {Nil} /\ m.answer \in Queries \cup {Nil}
         /\ m.source # Nil => m.payload = None
BY DEF Messages

\* What is sent is a message.
LEMMA NewMessages ==
  /\ \A id \in Events \cup {Error}, p \in Payloads \cup {None} :
       Message(id, p) \in Messages /\ Message(id, p).payload = p
  /\ \A id \in Events, q \in Queries :
       [id |-> id, payload |-> None, source |-> q, answer |-> Nil] \in Messages
  /\ \A q \in Queries :
       [id |-> q, payload |-> None, source |-> Nil, answer |-> q] \in Messages
BY DEF Message, Messages

\* The places of a payload are finitely many.
LEMMA PlacesFinite ==
  ASSUME NEW s \in Seq(Messages), NEW p
  PROVE  IsFiniteSet(With(s, p)) /\ Cardinality(With(s, p)) \in Nat /\ With(s, p) \subseteq 1..Len(s)
<1>1. Len(s) \in Nat /\ With(s, p) \subseteq 1..Len(s)
  BY DEF With
<1>2. IsFiniteSet(1..Len(s))
  BY <1>1, FS_Interval
<1>3. IsFiniteSet(With(s, p))
  BY <1>1, <1>2, FS_Subset
<1> QED BY <1>1, <1>3, FS_CardinalityType

\* One more place at the end.
LEMMA PlacesAppend ==
  ASSUME NEW s \in Seq(Messages), NEW m \in Messages, NEW p
  PROVE  With(Append(s, m), p) = IF m.payload = p THEN With(s, p) \cup {Len(s) + 1} ELSE With(s, p)
<1>1. /\ Len(s) \in Nat /\ DOMAIN s = 1..Len(s) /\ DOMAIN Append(s, m) = 1..(Len(s) + 1)
      /\ \A i \in 1..Len(s) : Append(s, m)[i] = s[i]
      /\ Append(s, m)[Len(s) + 1] = m
  OBVIOUS
<1> QED BY <1>1 DEF With

\* Without the head the places move by one.
LEMMA PlacesTail ==
  ASSUME NEW s \in Seq(Messages), s # <<>>, NEW p
  PROVE  /\ Head(s) \in Messages /\ Head(s) = s[1] /\ Tail(s) \in Seq(Messages) /\ Len(Tail(s)) = Len(s) - 1
         /\ Len(s) > 0
         /\ \A i \in Nat : i \in With(Tail(s), p) <=> i > 0 /\ i + 1 \in With(s, p)
         /\ 1 \in With(s, p) <=> Head(s).payload = p
<1>1. /\ Len(s) \in Nat /\ Len(s) > 0 /\ DOMAIN s = 1..Len(s) /\ Tail(s) \in Seq(Messages)
      /\ Len(Tail(s)) = Len(s) - 1 /\ DOMAIN Tail(s) = 1..(Len(s) - 1)
      /\ \A i \in 1..(Len(s) - 1) : Tail(s)[i] = s[i + 1]
      /\ Head(s) \in Messages /\ Head(s) = s[1]
  OBVIOUS
<1> QED BY <1>1 DEF With

\* How many messages with a payload are in a sequence after one is put in.
LEMMA CountAppend ==
  ASSUME NEW s \in Seq(Messages), NEW m \in Messages, NEW p
  PROVE  Cardinality(With(Append(s, m), p)) = Cardinality(With(s, p)) + (IF m.payload = p THEN 1 ELSE 0)
<1>1. Len(s) + 1 \notin With(s, p) /\ Len(s) \in Nat
  BY DEF With
<1>2. IsFiniteSet(With(s, p)) /\ Cardinality(With(s, p)) \in Nat
  BY PlacesFinite
<1>3. Cardinality(With(s, p) \cup {Len(s) + 1}) = Cardinality(With(s, p)) + 1
  BY <1>1, <1>2, FS_AddElement
<1>4. CASE m.payload = p
  BY <1>3, <1>4, PlacesAppend
<1>5. CASE m.payload # p
  BY <1>2, <1>5, PlacesAppend
<1> QED BY <1>4, <1>5

\* And after one is taken out.
LEMMA CountTail ==
  ASSUME NEW s \in Seq(Messages), s # <<>>, NEW p
  PROVE  Cardinality(With(s, p)) = Cardinality(With(Tail(s), p)) + (IF Head(s).payload = p THEN 1 ELSE 0)
<1> DEFINE rest == With(s, p) \ {1}
           shift == [i \in With(Tail(s), p) |-> i + 1]
<1>1. IsFiniteSet(With(s, p)) /\ Cardinality(With(s, p)) \in Nat /\ With(s, p) \subseteq 1..Len(s) /\ Len(s) \in Nat
  BY PlacesFinite
<1>2. With(Tail(s), p) \subseteq Nat /\ IsFiniteSet(With(Tail(s), p)) /\ Cardinality(With(Tail(s), p)) \in Nat
  <2>1. Tail(s) \in Seq(Messages) /\ Len(Tail(s)) \in Nat
    BY PlacesTail
  <2>2. /\ IsFiniteSet(With(Tail(s), p)) /\ Cardinality(With(Tail(s), p)) \in Nat
        /\ With(Tail(s), p) \subseteq 1..Len(Tail(s))
    BY <2>1, PlacesFinite
  <2> QED BY <2>1, <2>2
<1>3. shift \in Bijection(With(Tail(s), p), rest)
  <2>1. \A i \in With(Tail(s), p) : i + 1 \in rest
    BY <1>2, PlacesTail
  <2>2. \A j \in rest : j - 1 \in With(Tail(s), p) /\ shift[j - 1] = j
    BY <1>1, <1>2, PlacesTail
  <2>3. \A i, j \in With(Tail(s), p) : i + 1 = j + 1 => i = j
    BY <1>2
  <2> QED BY <2>1, <2>2, <2>3 DEF Bijection, Injection, Surjection, IsInjective
<1>4. Cardinality(rest) = Cardinality(With(Tail(s), p))
  BY <1>2, <1>3, FS_Bijection DEF ExistsBijection
<1>5. Cardinality(rest) = IF 1 \in With(s, p) THEN Cardinality(With(s, p)) - 1 ELSE Cardinality(With(s, p))
  BY <1>1, FS_RemoveElement
<1> QED BY <1>1, <1>2, <1>4, <1>5, PlacesTail

-----------------------------------------------------------------------------
(* The queues of the targets together. *)

Inboxes == [All -> Seq(Messages)]
Places(q, p) == UNION {{t} \X With(q[t], p) : t \in Targets}

\* A place is a target and a position in its queue.
LEMMA PlacesAre ==
  \A q, p : /\ \A t \in Targets : \A i : <<t, i>> \in Places(q, p) <=> i \in With(q[t], p)
            /\ \A w \in Places(q, p) : \E t \in Targets : \E i \in With(q[t], p) : w = <<t, i>>
BY DEF Places

\* They are finitely many.
LEMMA PlacesCount ==
  ASSUME TargetAssumption, NEW q \in [All -> Seq(Messages)], NEW p
  PROVE  IsFiniteSet(Places(q, p)) /\ Cardinality(Places(q, p)) \in Nat
<1> DEFINE part == [t \in Targets |-> {t} \X With(q[t], p)]
           parts == {{t} \X With(q[t], p) : t \in Targets}
<1>1. part \in Surjection(Targets, parts)
  BY DEF Surjection
<1>2. IsFiniteSet(parts)
  BY <1>1, FS_Surjection DEF TargetAssumption
<1>3. \A t \in Targets : IsFiniteSet({t} \X With(q[t], p))
  <2> TAKE t \in Targets
  <2>1. q[t] \in Seq(Messages)
    BY DEF All
  <2>2. IsFiniteSet(With(q[t], p)) /\ IsFiniteSet({t})
    BY <2>1, PlacesFinite, FS_Singleton
  <2> QED BY <2>2, FS_Product
<1>4. \A T \in parts : IsFiniteSet(T)
  BY <1>3
<1>5. IsFiniteSet(UNION parts)
  BY <1>2, <1>4, FS_UNION
<1> QED BY <1>5, FS_CardinalityType DEF Places

\* A message goes to the end of one queue.
LEMMA QueuedAppend ==
  ASSUME TargetAssumption, NEW q \in Inboxes, NEW t \in Targets, NEW m \in Messages, NEW p,
         NEW r \in Inboxes, r[t] = Append(q[t], m), \A u \in All \ {t} : r[u] = q[u]
  PROVE  Cardinality(Places(r, p)) = Cardinality(Places(q, p)) + (IF m.payload = p THEN 1 ELSE 0)
<1> DEFINE new == <<t, Len(q[t]) + 1>>
<1>1. t \in All /\ q[t] \in Seq(Messages) /\ Len(q[t]) \in Nat
  BY DEF All, Inboxes
<1>2. /\ \A u \in Targets : u # t => r[u] = q[u]
      /\ q \in [All -> Seq(Messages)] /\ r \in [All -> Seq(Messages)]
  BY DEF All, Inboxes
<1>p. /\ \A u \in Targets : \A i : <<u, i>> \in Places(q, p) <=> i \in With(q[u], p)
      /\ \A w \in Places(q, p) : \E u \in Targets : \E i \in With(q[u], p) : w = <<u, i>>
  BY PlacesAre
<1>r. /\ \A u \in Targets : \A i : <<u, i>> \in Places(r, p) <=> i \in With(r[u], p)
      /\ \A w \in Places(r, p) : \E u \in Targets : \E i \in With(r[u], p) : w = <<u, i>>
  BY DEF Places
<1>3. With(r[t], p) = IF m.payload = p THEN With(q[t], p) \cup {Len(q[t]) + 1} ELSE With(q[t], p)
  BY <1>1, <1>2, PlacesAppend
<1>4. new \notin Places(q, p)
  <2>1. Len(q[t]) + 1 \notin With(q[t], p)
    BY <1>1 DEF With
  <2> QED BY <2>1, <1>p, <1>r
<1>5. IsFiniteSet(Places(q, p)) /\ Cardinality(Places(q, p)) \in Nat
  BY <1>2, PlacesCount
<1>6. CASE m.payload = p
  <2>1. Places(r, p) = Places(q, p) \cup {new}
    <3> DEFINE n == Len(q[t]) + 1
    <3>1. With(r[t], p) = With(q[t], p) \cup {n} /\ \A u \in Targets : u # t => With(r[u], p) = With(q[u], p)
      BY <1>2, <1>3, <1>6
    <3> HIDE DEF n
    <3>2. ASSUME NEW w \in Places(r, p) PROVE w \in Places(q, p) \cup {<<t, n>>}
      <4>1. PICK u \in Targets : \E i \in With(r[u], p) : w = <<u, i>>
        BY <1>r
      <4>2. PICK i \in With(r[u], p) : w = <<u, i>>
        BY <4>1
      <4>3. i \in With(q[u], p) \/ (u = t /\ i = n)
        BY <3>1
      <4> QED BY <1>p, <4>2, <4>3
    <3>3. ASSUME NEW w \in Places(q, p) PROVE w \in Places(r, p)
      <4>1. PICK u \in Targets : \E i \in With(q[u], p) : w = <<u, i>>
        BY <1>p
      <4>2. PICK i \in With(q[u], p) : w = <<u, i>>
        BY <4>1
      <4>3. i \in With(r[u], p)
        BY <3>1
      <4> QED BY <1>r, <4>2, <4>3
    <3>4. <<t, n>> \in Places(r, p)
      BY <1>r, <3>1
    <3> QED BY <3>2, <3>3, <3>4 DEF n
  <2>2. Cardinality(Places(q, p) \cup {new}) = Cardinality(Places(q, p)) + 1
    BY <1>4, <1>5, FS_AddElement
  <2> QED BY <1>6, <2>1, <2>2
<1>7. CASE m.payload # p
  <2>1. \A u \in Targets : With(r[u], p) = With(q[u], p)
    BY <1>2, <1>3, <1>7
  <2>2. Places(r, p) = Places(q, p)
    BY <2>1 DEF Places
  <2> QED BY <1>5, <1>7, <2>2
<1> QED BY <1>6, <1>7

\* A message comes from the front of one queue.
LEMMA QueuedTail ==
  ASSUME TargetAssumption, NEW q \in Inboxes, NEW t \in Targets, q[t] # <<>>, NEW p,
         NEW r \in Inboxes, r[t] = Tail(q[t]), \A u \in All \ {t} : r[u] = q[u]
  PROVE  Cardinality(Places(q, p)) = Cardinality(Places(r, p)) + (IF Head(q[t]).payload = p THEN 1 ELSE 0)
<1> DEFINE rest == Places(q, p) \ {<<t, 1>>}
           Moved(w) == IF w[1] = t THEN <<t, w[2] + 1>> ELSE w
           Back(w) == IF w[1] = t THEN <<t, w[2] - 1>> ELSE w
           move == [w \in Places(r, p) |-> Moved(w)]
<1>1. t \in All /\ q[t] \in Seq(Messages)
  BY DEF All, Inboxes
<1>2. /\ \A u \in Targets : u # t => r[u] = q[u]
      /\ q \in [All -> Seq(Messages)] /\ r \in [All -> Seq(Messages)]
  BY DEF All, Inboxes
<1>p. /\ \A u \in Targets : \A i : <<u, i>> \in Places(q, p) <=> i \in With(q[u], p)
      /\ \A w \in Places(q, p) : \E u \in Targets : \E i \in With(q[u], p) : w = <<u, i>>
  BY PlacesAre
<1>r. /\ \A u \in Targets : \A i : <<u, i>> \in Places(r, p) <=> i \in With(r[u], p)
      /\ \A w \in Places(r, p) : \E u \in Targets : \E i \in With(r[u], p) : w = <<u, i>>
  BY DEF Places
<1>3. /\ \A u \in Targets : With(q[u], p) \subseteq Nat /\ With(r[u], p) \subseteq Nat
      /\ \A i \in With(q[t], p) : i >= 1
  <2> SUFFICES ASSUME NEW u \in Targets
               PROVE  /\ With(q[u], p) \subseteq Nat /\ With(r[u], p) \subseteq Nat
                      /\ \A i \in With(q[u], p) : i >= 1
    OBVIOUS
  <2>1. q[u] \in Seq(Messages) /\ r[u] \in Seq(Messages)
    BY <1>2 DEF All
  <2> QED BY <2>1 DEF With
<1>4. \A i \in Nat : i \in With(r[t], p) <=> i > 0 /\ i + 1 \in With(q[t], p)
  BY <1>1, <1>2, PlacesTail
<1>5. \A w \in Places(r, p) : Moved(w) \in rest /\ Back(Moved(w)) = w
  <2> TAKE w \in Places(r, p)
  <2>u. PICK u \in Targets : \E i \in With(r[u], p) : w = <<u, i>>
    BY <1>2, <1>p, <1>r
  <2>w. PICK i \in With(r[u], p) : w = <<u, i>>
    BY <2>u
  <2>1. i \in Nat
    BY <1>3
  <2>2. CASE u = t
    <3>1. i > 0 /\ i + 1 \in With(q[t], p)
      BY <1>4, <2>1, <2>2
    <3>2. <<t, i + 1>> \in Places(q, p) /\ <<t, i + 1>> # <<t, 1>>
      BY <2>1, <3>1, <1>p, <1>r
    <3> QED BY <2>1, <2>2, <2>w, <3>2
  <2>3. CASE u # t
    <3>1. <<u, i>> \in Places(q, p) /\ <<u, i>> # <<t, 1>>
      BY <1>2, <2>3, <1>p, <1>r
    <3> QED BY <2>3, <2>w, <3>1
  <2> QED BY <2>2, <2>3
<1>6. \A w \in rest : Back(w) \in Places(r, p) /\ Moved(Back(w)) = w
  <2> TAKE w \in rest
  <2>u. PICK u \in Targets : \E i \in With(q[u], p) : w = <<u, i>>
    BY <1>p, <1>r
  <2>w. PICK i \in With(q[u], p) : w = <<u, i>>
    BY <2>u
  <2>1. i \in Nat
    BY <1>3
  <2>2. CASE u = t
    <3>1. i > 1 /\ i - 1 \in Nat /\ (i - 1) + 1 = i
      BY <1>3, <2>1, <2>2, <2>w
    <3>2. i - 1 \in With(r[t], p)
      BY <1>4, <2>2, <3>1
    <3>3. <<t, i - 1>> \in Places(r, p)
      BY <1>2, <3>2, <1>p, <1>r
    <3> QED BY <2>2, <2>w, <3>1, <3>3
  <2>3. CASE u # t
    <3>1. <<u, i>> \in Places(r, p)
      BY <1>2, <2>3, <1>p, <1>r
    <3> QED BY <2>3, <2>w, <3>1
  <2> QED BY <2>2, <2>3
<1> HIDE DEF Moved, Back
<1>7. move \in Bijection(Places(r, p), rest)
  <2>1. move \in [Places(r, p) -> rest] /\ \A w \in Places(r, p) : move[w] = Moved(w)
    BY <1>5
  <2> HIDE DEF move, rest
  <2>2. \A v, w \in Places(r, p) : move[v] = move[w] => v = w
    <3> TAKE v, w \in Places(r, p)
    <3>1. Back(Moved(v)) = v /\ Back(Moved(w)) = w /\ move[v] = Moved(v) /\ move[w] = Moved(w)
      BY <1>5, <2>1
    <3> QED BY <3>1
  <2>3. \A w \in rest : \E v \in Places(r, p) : move[v] = w
    BY <1>6, <2>1
  <2> QED BY <2>1, <2>2, <2>3 DEF Bijection, Injection, Surjection, IsInjective
<1>8. /\ IsFiniteSet(Places(q, p)) /\ Cardinality(Places(q, p)) \in Nat
      /\ IsFiniteSet(Places(r, p)) /\ Cardinality(Places(r, p)) \in Nat
  BY <1>2, PlacesCount
<1>9. Cardinality(rest) = Cardinality(Places(r, p))
  BY <1>7, <1>8, FS_Bijection DEF ExistsBijection
<1>10. Cardinality(rest) = IF <<t, 1>> \in Places(q, p) THEN Cardinality(Places(q, p)) - 1
                                                        ELSE Cardinality(Places(q, p))
  BY <1>8, FS_RemoveElement
<1>11. <<t, 1>> \in Places(q, p) <=> Head(q[t]).payload = p
  <2>1. <<t, 1>> \in Places(q, p) <=> 1 \in With(q[t], p)
    BY <1>p, <1>r
  <2> QED BY <1>1, <2>1, PlacesTail
<1> QED BY <1>8, <1>9, <1>10, <1>11

-----------------------------------------------------------------------------
(* The list. *)

Links == [All -> All \cup {Nil}]
Closed(n, S) == \A s \in S : n[s] \in S \cup {Nil}

\* Linked is the smallest set that has the element and that the links do not leave.
LEMMA LinkedIs ==
  ASSUME NEW n \in Links, NEW x \in All \cup {Nil}
  PROVE  /\ Linked(n, x) \subseteq All
         /\ x \in Linked(n, x) \cup {Nil}
         /\ Closed(n, Linked(n, x))
         /\ \A S \in SUBSET All : x \in S \cup {Nil} /\ Closed(n, S) => Linked(n, x) \subseteq S
<1>1. /\ Linked(n, x) \subseteq All
      /\ \A t \in All : t \in Linked(n, x) <=>
            \A S \in SUBSET All : x \in S \cup {Nil} /\ Closed(n, S) => t \in S
  BY DEF Linked, Closed
<1>2. x \in Linked(n, x) \cup {Nil}
  BY <1>1
<1>3. ASSUME NEW s \in Linked(n, x) PROVE n[s] \in Linked(n, x) \cup {Nil}
  <2>1. n[s] \in All \cup {Nil}
    BY <1>1 DEF Links
  <2>2. ASSUME NEW S \in SUBSET All, x \in S \cup {Nil}, Closed(n, S) PROVE n[s] \in S \cup {Nil}
    BY <1>1, <2>2 DEF Closed
  <2> QED BY <1>1, <2>1, <2>2
<1> QED BY <1>1, <1>2, <1>3 DEF Closed

\* Nothing is linked from the end.
LEMMA LinkedNil ==
  ASSUME NEW n \in Links
  PROVE  Linked(n, Nil) = {}
<1>1. Nil \in {} \cup {Nil} /\ Closed(n, {})
  BY DEF Closed
<1> QED BY <1>1, LinkedIs

\* What follows an element of the list is on the list.
LEMMA LinkedInside ==
  ASSUME NEW n \in Links, NEW x \in All \cup {Nil}, NEW y \in Linked(n, x) \cup {Nil}, Nil \notin All
  PROVE  Linked(n, y) \subseteq Linked(n, x)
<1>1. Linked(n, x) \in SUBSET All /\ Closed(n, Linked(n, x)) /\ y \in All \cup {Nil}
  BY LinkedIs
<1> QED BY <1>1, LinkedIs

\* An element, and what is linked from the one after it.
LEMMA LinkedNext ==
  ASSUME NEW n \in Links, NEW x \in All
  PROVE  Linked(n, x) \subseteq {x} \cup Linked(n, n[x])
<1> DEFINE S == {x} \cup Linked(n, n[x])
<1>1. n[x] \in All \cup {Nil}
  BY DEF Links
<1>2. /\ Linked(n, n[x]) \subseteq All /\ n[x] \in Linked(n, n[x]) \cup {Nil}
      /\ Closed(n, Linked(n, n[x]))
  BY <1>1, LinkedIs
<1>3. S \in SUBSET All /\ x \in S /\ Closed(n, S)
  BY <1>2 DEF Closed
<1> QED BY <1>3, LinkedIs

\* ll_slist_push of an element that is not on the list.
LEMMA PushLinks ==
  ASSUME NEW n \in Links, NEW f \in All \cup {Nil}, NEW t \in All, t \notin Linked(n, f), n[t] = Nil,
         NEW r \in Links, r[t] = f, \A s \in All \ {t} : r[s] = n[s], Nil \notin All, IsList(n, f)
  PROVE  /\ IsList(r, t)
         /\ Linked(r, t) = Linked(n, f) \cup {t}
         /\ \A x \in All \cup {Nil} : Linked(n, x) \subseteq Linked(r, x)
<1>1. r \in Links /\ r[t] = f /\ \A s \in All : s # t => r[s] = n[s]
  OBVIOUS
<1>2. \A x \in All \cup {Nil} : Linked(n, x) \subseteq Linked(r, x)
  <2> TAKE x \in All \cup {Nil}
  <2>1. /\ Linked(r, x) \subseteq All /\ x \in Linked(r, x) \cup {Nil} /\ Closed(r, Linked(r, x))
    BY <1>1, LinkedIs
  <2>2. Closed(n, Linked(r, x))
    BY <1>1, <2>1 DEF Closed
  <2> QED BY <2>1, <2>2, LinkedIs
<1>3. Linked(r, t) \subseteq Linked(n, f) \cup {t}
  <2> DEFINE S == Linked(n, f) \cup {t}
  <2>1. Linked(n, f) \subseteq All /\ f \in Linked(n, f) \cup {Nil} /\ Closed(n, Linked(n, f))
    BY LinkedIs
  <2>2. S \in SUBSET All /\ t \in S /\ Closed(r, S)
    BY <1>1, <2>1 DEF Closed
  <2> QED BY <1>1, <2>2, LinkedIs
<1>4. Linked(n, f) \cup {t} \subseteq Linked(r, t)
  <2>1. t \in Linked(r, t) /\ Closed(r, Linked(r, t))
    BY <1>1, LinkedIs
  <2>2. f \in Linked(r, t) \cup {Nil}
    BY <1>1, <2>1 DEF Closed
  <2>3. Linked(r, f) \subseteq Linked(r, t)
    BY <1>1, <2>2, LinkedInside
  <2> QED BY <1>2, <2>1, <2>3
<1>5. IsList(r, t)
  <2>1. f # t /\ \A s \in All : n[s] # t
    <3>1. f \in Linked(n, f) \cup {Nil} /\ Closed(n, Linked(n, f))
      BY LinkedIs
    <3> QED BY <3>1 DEF IsList, Closed
  <2>2. \A s \in All : n[s] # Nil => n[s] # f
    BY DEF IsList
  <2>3. \A s \in All : r[s] # Nil => r[s] # t
    BY <1>1, <2>1
  <2>4. \A s, u \in All : r[s] = r[u] /\ r[s] # Nil => s = u
    BY <1>1, <2>2 DEF IsList
  <2>5. \A s \in All \ Linked(r, t) : r[s] = Nil
    BY <1>1, <1>3, <1>4 DEF IsList
  <2> QED BY <2>3, <2>4, <2>5 DEF IsList
<1> QED BY <1>1, <1>2, <1>3, <1>4, <1>5

\* Nothing on a list is behind itself.
LEMMA NoLoop ==
  ASSUME NEW n \in Links, NEW f \in All \cup {Nil}, IsList(n, f), Nil \notin All,
         NEW t \in Linked(n, f)
  PROVE  n[t] # t
<1> SUFFICES ASSUME n[t] = t PROVE FALSE
  OBVIOUS
<1> DEFINE S == Linked(n, f) \ {t}
<1>1. /\ Linked(n, f) \subseteq All /\ f \in Linked(n, f) \cup {Nil} /\ Closed(n, Linked(n, f))
  BY LinkedIs
<1>2. f # t
  BY <1>1 DEF IsList
<1>3. S \in SUBSET All /\ f \in S \cup {Nil} /\ Closed(n, S)
  BY <1>1, <1>2 DEF IsList, Closed
<1> QED BY <1>3, LinkedIs

\* ll_slist_remove: what was linked still is, but for what is taken away.
LEMMA RemoveLinks ==
  ASSUME NEW n \in Links, NEW f \in All \cup {Nil}, IsList(n, f), Nil \notin All,
         NEW t \in Linked(n, f), NEW r \in Links, NEW g, g = IF t = f THEN n[t] ELSE f,
         r[t] = Nil, \A s \in All \ {t} : r[s] = IF n[s] = t THEN n[t] ELSE n[s]
  PROVE  /\ g \in All \cup {Nil} /\ IsList(r, g)
         /\ Linked(r, g) = Linked(n, f) \ {t}
         /\ \A x \in (All \cup {Nil}) \ {t} : Linked(n, x) \ {t} \subseteq Linked(r, x)
<1>1. /\ Linked(n, f) \subseteq All /\ f \in Linked(n, f) \cup {Nil} /\ Closed(n, Linked(n, f))
      /\ n[t] # t /\ t \in All /\ n[t] \in All \cup {Nil} /\ n[t] \in Linked(n, f) \cup {Nil}
      /\ g \in All \cup {Nil}
  BY LinkedIs, NoLoop DEF Closed, Links
<1>2. ASSUME NEW x \in (All \cup {Nil}) \ {t} PROVE Linked(n, x) \ {t} \subseteq Linked(r, x)
  <2> DEFINE S == Linked(r, x)
             T == IF \E s \in S : n[s] = t THEN S \cup {t} ELSE S \ {t}
  <2>1. S \subseteq All /\ x \in S \cup {Nil} /\ Closed(r, S)
    BY LinkedIs
  <2> HIDE DEF S
  <2>2. x \in T \cup {Nil} /\ T \in SUBSET All
    BY <1>1, <2>1
  <2>3. Closed(n, T)
    <3>1. CASE \E s \in S : n[s] = t
      <4>1. PICK s \in S : n[s] = t
        BY <3>1
      <4>2. r[s] = n[t] /\ n[t] \in S \cup {Nil}
        BY <1>1, <2>1, <4>1 DEF Closed
      <4>3. \A u \in S \ {t} : n[u] = t \/ n[u] \in S \cup {Nil}
        BY <2>1 DEF Closed
      <4> QED BY <3>1, <4>2, <4>3 DEF Closed
    <3>2. CASE ~\E s \in S : n[s] = t
      BY <2>1, <3>2 DEF Closed
    <3> QED BY <3>1, <3>2
  <2>4. Linked(n, x) \subseteq T
    BY <2>2, <2>3, LinkedIs
  <2> QED BY <2>4 DEF S
<1>3. Linked(r, g) = Linked(n, f) \ {t}
  <2> DEFINE S == Linked(n, f) \ {t}
  <2>1. g \in S \cup {Nil} /\ S \in SUBSET All
    BY <1>1
  <2>2. Closed(r, S)
    BY <1>1 DEF Closed
  <2>3. Linked(r, g) \subseteq S
    BY <1>1, <2>1, <2>2, LinkedIs
  <2>4. Linked(n, g) \ {t} \subseteq Linked(r, g)
    BY <1>1, <1>2
  <2>5. Linked(n, f) \subseteq {t} \cup Linked(n, g)
    BY <1>1, LinkedNext
  <2> QED BY <2>3, <2>4, <2>5
<1>4. IsList(r, g)
  <2>1. \A s \in All : r[s] # Nil => r[s] # g
    BY <1>1 DEF IsList
  <2>2. \A s, u \in All : r[s] = r[u] /\ r[s] # Nil => s = u
    BY <1>1 DEF IsList
  <2>3. \A s \in All \ Linked(r, g) : r[s] = Nil
    BY <1>1, <1>3 DEF IsList
  <2> QED BY <2>1, <2>2, <2>3 DEF IsList
<1> QED BY <1>1, <1>2, <1>3, <1>4

-----------------------------------------------------------------------------
(* Types. *)

\* umsg_tgt_send puts a message behind the others if there is room.
LEMMA Posted ==
  ASSUME Assumptions, inbox \in Seq(Messages), Len(inbox) <= InboxLen, NEW m \in Messages, Post(m)
  PROVE  /\ inbox' \in Seq(Messages) /\ Len(inbox') <= InboxLen
         /\ \A p : Cardinality(With(inbox', p)) = Cardinality(With(inbox, p))
                   + (IF Len(inbox) < InboxLen /\ m.payload = p THEN 1 ELSE 0)
<1>1. InboxLen \in Nat
  BY DEF Assumptions, LengthAssumption
<1>2. CASE Len(inbox) < InboxLen
  <2>1. inbox' = Append(inbox, m)
    BY <1>2 DEF Post
  <2>2. Append(inbox, m) \in Seq(Messages) /\ Len(Append(inbox, m)) = Len(inbox) + 1
    OBVIOUS
  <2> QED BY <1>1, <1>2, <2>1, <2>2, CountAppend
<1>3. CASE ~(Len(inbox) < InboxLen)
  <2>1. inbox' = inbox /\ \A p : Cardinality(With(inbox, p)) \in Nat
    BY <1>3, PlacesFinite DEF Post
  <2> QED BY <1>3, <2>1
<1> QED BY <1>2, <1>3

\* umsg_discard and its opposite change one count.
LEMMA CountsAre ==
  ASSUME Assumptions, NEW r \in [Payloads -> Int], NEW p \in Payloads \cup {None}
  PROVE  /\ Decrement(r, p) \in [Payloads -> Int] /\ Increment(r, p) \in [Payloads -> Int]
         /\ \A x \in Payloads : /\ Decrement(r, p)[x] = r[x] - (IF x = p THEN 1 ELSE 0)
                                /\ Increment(r, p)[x] = r[x] + (IF x = p THEN 1 ELSE 0)
BY DEF Decrement, Increment, Assumptions, TargetAssumption

\* What the target of a query can be.
QueryStates == [at : {"off", "send", "wait", "clean", "free"}, handler : BOOLEAN,
                got : Queries \cup {Nil}, result : Queries \cup {Nil}]

\* The hub's steps keep the types.
LEMMA HubTypes ==
  ASSUME Assumptions, TypeInv, HubTask
  PROVE  TypeInv'
<1> USE DEF TypeInv
<1>a. /\ Nil \notin All \cup Messages /\ InboxLen \in Nat /\ All = Targets \cup Queries
      /\ (\A t \in All : QueueLen[t] \in Nat) /\ \A q \in Queries : QueueLen[q] = 0
  BY DEF Assumptions, TargetAssumption, LengthAssumption, All
<1>b. Message(Error, None) \in Messages
  BY NewMessages
<1>c. msg.payload \in Payloads \cup {None} /\ msg.answer \in Queries \cup {Nil}
  BY MessageFields DEF Types
<1>1. CASE HubReceive
  <2>1. inbox' \in Seq(Messages) /\ Len(inbox') <= InboxLen /\ msg' \in Messages
    <3>1. Head(inbox) \in Messages /\ Tail(inbox) \in Seq(Messages) /\ Len(Tail(inbox)) = Len(inbox) - 1
      BY <1>1, PlacesTail DEF HubReceive, Types
    <3> QED BY <1>1, <1>a, <3>1 DEF HubReceive, Types
  <2> QED BY <1>1, <2>1 DEF HubReceive, Types, QueryTypes, HubIsAt
<1>2. CASE HubVisit
  <2>1. refs' \in [Payloads -> Int]
    <3>1. refs' = refs \/ refs' = Increment(refs, msg.payload)
      BY <1>2 DEF HubVisit
    <3>2. refs \in [Payloads -> Int]
      BY DEF Types
    <3>3. Increment(refs, msg.payload) \in [Payloads -> Int]
      BY <1>c, <3>2, CountsAre
    <3> QED BY <3>1, <3>2, <3>3
  <2>2. QueryTypes'
    <3>1. Answered(cur) \in [Queries -> QueryStates]
      BY ZenonT(30), <1>c DEF Answered, QueryTypes, QueryStates
    <3>2. query' = query \/ query' = Answered(cur)
      BY <1>2 DEF HubVisit, Callback
    <3> QED BY <3>1, <3>2 DEF QueryTypes, QueryStates
  <2>3. HubIsAt'
    BY <1>2, <1>a DEF HubVisit, HubIsAt, Types, lists
  <2>4. /\ UNCHANGED <<inbox, queue, first, next, filters, msg, cur, owner, taken>>
        /\ pc' \in {"next", "send"}
    BY <1>2 DEF HubVisit, lists
  <2> QED BY <2>1, <2>2, <2>3, <2>4 DEF Types
<1>3. CASE HubDeliver
  <2>1. /\ cur \in All /\ queue' = [queue EXCEPT ![cur] = Append(queue[cur], msg)]
        /\ Len(queue[cur]) < QueueLen[cur] /\ pc' = "next"
        /\ UNCHANGED <<inbox, first, next, filters, msg, cur, refs, owner, taken, query>>
    BY <1>3, <1>a DEF HubDeliver, lists, HubIsAt
  <2>2. Append(queue[cur], msg) \in Seq(Messages) /\ Len(Append(queue[cur], msg)) = Len(queue[cur]) + 1
    BY <2>1 DEF Types
  <2>3. Len(Append(queue[cur], msg)) <= QueueLen[cur]
    BY <1>a, <2>1, <2>2 DEF Types
  <2>4. queue' \in [All -> Seq(Messages)] /\ \A t \in All : Len(queue'[t]) <= QueueLen[t]
    BY <2>1, <2>2, <2>3 DEF Types
  <2> QED BY <2>1, <2>4 DEF Types, QueryTypes, HubIsAt
<1>4. CASE HubTimeout
  <2>1. inbox' \in Seq(Messages) /\ Len(inbox') <= InboxLen
    BY <1>4, <1>b, Posted DEF HubTimeout, Types
  <2>2. refs' \in [Payloads -> Int]
    BY <1>4, <1>c, CountsAre DEF HubTimeout, Types
  <2>3. /\ cur \in All /\ pc' = "next"
        /\ UNCHANGED <<queue, first, next, filters, msg, cur, owner, taken, query>>
    BY <1>4, <1>a DEF HubTimeout, lists, HubIsAt
  <2> QED BY <2>1, <2>2, <2>3 DEF Types, QueryTypes, HubIsAt
<1>5. CASE HubNext
  <2>1. cur' = next[cur] /\ cur \in All /\ pc' = "walk"
    BY <1>5 DEF HubNext, HubIsAt
  <2> QED BY <1>5, <2>1 DEF HubNext, lists, Types, QueryTypes, HubIsAt
<1>6. CASE HubNextFreed
  BY <1>6 DEF HubNextFreed, lists, Types, QueryTypes, HubIsAt
<1>7. CASE HubDone
  <2>1. refs' \in [Payloads -> Int]
    BY <1>7, <1>c, CountsAre DEF HubDone, Types
  <2> QED BY <1>7, <1>b, <2>1 DEF HubDone, lists, Types, QueryTypes, HubIsAt
<1> QED BY <1>1, <1>2, <1>3, <1>4, <1>5, <1>6, <1>7 DEF HubTask

\* Taking an element off the list leaves links.
LEMMA RemoveTypes ==
  ASSUME Assumptions, Types, NEW t \in All, Remove(t)
  PROVE  first' \in All \cup {Nil} /\ next' \in [All -> All \cup {Nil}]
<1>1. next[t] \in All \cup {Nil}
  BY DEF Types
<1> QED BY <1>1 DEF Remove, Types

\* The steps of the tasks behind the targets, of those that send and of those that set up.
LEMMA TaskTypes ==
  ASSUME Assumptions, TypeInv, ClientTask \/ SendTask \/ SetupTask
  PROVE  TypeInv'
<1> USE DEF TypeInv
<1>a. /\ Nil \notin All \cup Messages /\ Targets \subseteq All /\ None \notin Payloads
      /\ \A t \in All : QueueLen[t] \in Nat
  BY DEF Assumptions, TargetAssumption, All
<1>1. CASE ClientTask
  <2>t. PICK t \in Targets : Receive(t) \/ Reply(t) \/ Discard(t)
    BY <1>1 DEF ClientTask
  <2>0. t \in All /\ queue[t] \in Seq(Messages) /\ (taken[t] # Nil => taken[t] \in Messages)
    BY <1>a DEF Types
  <2>1. CASE Receive(t)
    <3>1. /\ queue[t] # <<>> /\ queue' = [queue EXCEPT ![t] = Tail(queue[t])]
          /\ taken' = [taken EXCEPT ![t] = Head(queue[t])]
          /\ UNCHANGED <<inbox, first, next, filters, pc, msg, cur, refs, owner, query>>
      BY <2>1 DEF Receive, lists, hubvars
    <3>2. Head(queue[t]) \in Messages /\ Tail(queue[t]) \in Seq(Messages) /\ Len(Tail(queue[t])) = Len(queue[t]) - 1
      BY <2>0, <3>1, PlacesTail
    <3>3. Len(Tail(queue[t])) <= QueueLen[t]
      BY <1>a, <2>0, <3>2 DEF Types
    <3>4. queue' \in [All -> Seq(Messages)] /\ \A u \in All : Len(queue'[u]) <= QueueLen[u]
      BY <2>0, <3>1, <3>2, <3>3 DEF Types
    <3>5. taken' \in [All -> Messages \cup {Nil}]
      BY <3>1, <3>2 DEF Types
    <3> QED BY <3>1, <3>4, <3>5 DEF Types, QueryTypes, HubIsAt
  <2>2. CASE Reply(t)
    <3>1. taken[t] \in Messages /\ taken[t].source # Nil
      BY <2>0, <2>2 DEF Reply
    <3>2. taken[t].source \in Queries
      BY <3>1, MessageFields
    <3>3. [id |-> taken[t].source, payload |-> None, source |-> Nil, answer |-> taken[t].source] \in Messages
      BY <3>2, NewMessages
    <3>4. inbox' \in Seq(Messages) /\ Len(inbox') <= InboxLen
      BY <2>2, <3>3, Posted DEF Reply, Types
    <3> QED BY <2>2, <3>4 DEF Reply, lists, hubvars, Types, QueryTypes, HubIsAt
  <2>3. CASE Discard(t)
    <3>1. taken[t].payload \in Payloads \cup {None}
      BY <2>0, <2>3, MessageFields DEF Discard
    <3>2. refs' \in [Payloads -> Int]
      BY <2>3, <3>1, CountsAre DEF Discard, Types
    <3> QED BY <2>3, <3>2 DEF Discard, lists, hubvars, Types, QueryTypes, HubIsAt
  <2> QED BY <2>t, <2>1, <2>2, <2>3
<1>2. CASE SendTask
  <2>1. ASSUME NEW p \in Payloads, Make(p) PROVE TypeInv'
    BY <2>1 DEF Make, lists, hubvars, Types, QueryTypes, HubIsAt
  <2>2. ASSUME NEW p \in Payloads, NEW id \in Events, Send(id, p) PROVE TypeInv'
    <3>1. Message(id, p) \in Messages
      BY NewMessages
    <3>2. inbox' \in Seq(Messages) /\ Len(inbox') <= InboxLen
      BY <2>2, <3>1, Posted DEF Send, Types
    <3>3. refs' = refs \/ refs' = Decrement(refs, p)
      BY <2>2 DEF Send
    <3>4. refs' \in [Payloads -> Int]
      <4>1. refs \in [Payloads -> Int]
        BY DEF Types
      <4>2. Decrement(refs, p) \in [Payloads -> Int]
        BY <4>1, CountsAre
      <4> QED BY <3>3, <4>1, <4>2
    <3> QED BY <2>2, <3>2, <3>4 DEF Send, lists, hubvars, Types, QueryTypes, HubIsAt
  <2>3. ASSUME NEW id \in Events, ReportEvent(id) PROVE TypeInv'
    <3>1. Message(id, None) \in Messages
      BY NewMessages
    <3>2. inbox' \in Seq(Messages) /\ Len(inbox') <= InboxLen
      BY <2>3, <3>1, Posted DEF ReportEvent, Types
    <3> QED BY <2>3, <3>2 DEF ReportEvent, lists, hubvars, Types, QueryTypes, HubIsAt
  <2> QED BY <1>2, <2>1, <2>2, <2>3 DEF SendTask
<1>3. CASE SetupTask
  <2>t. PICK t \in Targets : \/ Subscribe(t) \/ Unsubscribe(t)
                            \/ \E m \in Masks : AddFilter(t, m) \/ RemoveFilter(t, m)
    BY <1>3 DEF SetupTask
  <2>1. CASE Subscribe(t)
    BY <1>a, <2>1 DEF Subscribe, Push, hubvars, Types, QueryTypes, HubIsAt
  <2>2. CASE Unsubscribe(t)
    <3>1. first' \in All \cup {Nil} /\ next' \in [All -> All \cup {Nil}]
      BY <1>a, <2>2, RemoveTypes DEF Unsubscribe
    <3> QED BY <2>2, <3>1 DEF Unsubscribe, hubvars, Types, QueryTypes, HubIsAt
  <2>3. ASSUME NEW m \in Masks, AddFilter(t, m) PROVE TypeInv'
    <3>1. DOMAIN filters' = DOMAIN filters
      BY <2>3 DEF AddFilter
    <3> QED BY <2>3, <3>1 DEF AddFilter, hubvars, Types, QueryTypes, HubIsAt
  <2>4. ASSUME NEW m \in Masks, RemoveFilter(t, m) PROVE TypeInv'
    <3>1. DOMAIN filters' = DOMAIN filters
      BY <2>4 DEF RemoveFilter
    <3> QED BY <2>4, <3>1 DEF RemoveFilter, hubvars, Types, QueryTypes, HubIsAt
  <2> QED BY <2>t, <2>1, <2>2, <2>3, <2>4
<1> QED BY <1>1, <1>2, <1>3

\* The steps of a query.
LEMMA QueryTaskTypes ==
  ASSUME Assumptions, TypeInv, QueryTask
  PROVE  TypeInv'
<1> USE DEF TypeInv
<1>a. Queries \subseteq All
  BY DEF All
<1>q. PICK q \in Queries : \/ QueryStart(q) \/ \E id \in Events : QuerySend(q, id)
                          \/ QueryWait(q) \/ QueryUnsubscribe(q) \/ QueryFree(q)
  BY DEF QueryTask
<1>b. query \in [Queries -> QueryStates] /\ query[q] \in QueryStates
  BY DEF QueryTypes, QueryStates
<1>1. CASE QueryStart(q)
  <2>1. query' \in [Queries -> QueryStates]
    BY <1>1, <1>b DEF QueryStart, QueryStates
  <2>2. DOMAIN filters' = DOMAIN filters
    BY <1>1 DEF QueryStart
  <2> QED BY <1>1, <1>a, <2>1, <2>2 DEF QueryStart, Push, hubvars, Types, QueryTypes, QueryStates, HubIsAt
<1>2. ASSUME NEW id \in Events, QuerySend(q, id) PROVE TypeInv'
  <2>1. [id |-> id, payload |-> None, source |-> q, answer |-> Nil] \in Messages
    BY NewMessages
  <2>2. inbox' \in Seq(Messages) /\ Len(inbox') <= InboxLen
    BY <1>2, <2>1, Posted DEF QuerySend, Types
  <2>3. query' \in [Queries -> QueryStates]
    BY <1>2, <1>b DEF QuerySend, QueryStates
  <2> QED BY <1>2, <2>2, <2>3 DEF QuerySend, lists, hubvars, Types, QueryTypes, QueryStates, HubIsAt
<1>3. CASE QueryWait(q)
  <2>1. query' \in [Queries -> QueryStates]
    BY <1>3, <1>b DEF QueryWait, QueryStates
  <2> QED BY <1>3, <2>1 DEF QueryWait, lists, hubvars, Types, QueryTypes, QueryStates, HubIsAt
<1>4. CASE QueryUnsubscribe(q)
  <2>1. first' \in All \cup {Nil} /\ next' \in [All -> All \cup {Nil}]
    BY <1>4, <1>a, RemoveTypes DEF QueryUnsubscribe
  <2>2. query' \in [Queries -> QueryStates]
    BY <1>4, <1>b DEF QueryUnsubscribe, QueryStates
  <2> QED BY <1>4, <2>1, <2>2 DEF QueryUnsubscribe, hubvars, Types, QueryTypes, QueryStates, HubIsAt
<1>5. CASE QueryFree(q)
  <2>1. [Off EXCEPT !.result = query[q].result] \in QueryStates
    BY <1>b DEF Off, QueryStates
  <2>2. query' \in [Queries -> QueryStates]
    BY <1>5, <1>b, <2>1 DEF QueryFree
  <2>3. DOMAIN filters' = DOMAIN filters
    BY <1>5 DEF QueryFree
  <2> QED BY <1>5, <2>2, <2>3 DEF QueryFree, hubvars, Types, QueryTypes, QueryStates, HubIsAt
<1> QED BY <1>q, <1>1, <1>2, <1>3, <1>4, <1>5

-----------------------------------------------------------------------------
(* References and those who hold them. *)

RefsInv == RefsAreHolders

\* What HeldByHub and the others count is a number.
LEMMA HoldersCount ==
  ASSUME Assumptions, Types, NEW p
  PROVE  /\ Cardinality(With(inbox, p)) \in Nat /\ Cardinality(Queued(p)) \in Nat
         /\ Cardinality(Working(p)) \in Nat /\ IsFiniteSet(Working(p)) /\ HeldByHub(p) \in Nat
         /\ Queued(p) = Places(queue, p) /\ Holders(p) \in Nat
<1>1. Cardinality(With(inbox, p)) \in Nat
  BY PlacesFinite DEF Types
<1>2. Queued(p) = Places(queue, p) /\ Cardinality(Places(queue, p)) \in Nat
  BY PlacesCount DEF Queued, Places, Types, Assumptions
<1>3. IsFiniteSet(Working(p)) /\ Cardinality(Working(p)) \in Nat
  BY FS_Subset, FS_CardinalityType DEF Working, Assumptions, TargetAssumption
<1>4. HeldByHub(p) \in Nat
  BY DEF HeldByHub
<1> QED BY <1>1, <1>2, <1>3, <1>4 DEF Holders

\* A step that changes the count of a payload as it changes those who hold it.
Balanced(p) ==
  refs'[p] + Cardinality(With(inbox, p)) + Cardinality(Places(queue, p)) + Cardinality(Working(p))
    + HeldByHub(p) + (IF p \in owner THEN 1 ELSE 0)
  = refs[p] + Cardinality(With(inbox', p)) + Cardinality(Places(queue', p)) + Cardinality(Working(p)')
    + HeldByHub(p)' + (IF p \in owner' THEN 1 ELSE 0)

\* Such a step keeps the count equal to the holders.
LEMMA BalancedHolders ==
  ASSUME Assumptions, Types, Types', NEW p \in Payloads, refs[p] = Holders(p), refs'[p] \in Int, Balanced(p)
  PROVE  refs'[p] = Holders(p)'
<1>1. Queued(p) = Places(queue, p) /\ Queued(p)' = Places(queue', p)
  BY DEF Queued, Places
<1>2. /\ Cardinality(With(inbox, p)) \in Nat /\ Cardinality(Places(queue, p)) \in Nat
      /\ Cardinality(Working(p)) \in Nat /\ HeldByHub(p) \in Nat
  BY HoldersCount
<1>3. /\ Cardinality(With(inbox', p)) \in Nat /\ Cardinality(Places(queue', p)) \in Nat
      /\ HeldByHub(p)' \in Nat
  BY PlacesFinite, PlacesCount DEF Types, Assumptions, HeldByHub
<1>4. Cardinality(Working(p)') \in Nat
  BY FS_Subset, FS_CardinalityType DEF Working, Assumptions, TargetAssumption
<1> QED BY <1>1, <1>2, <1>3, <1>4 DEF Holders, Balanced

\* The hub takes over a reference with a message, counts one for a subscriber, gives
\* that to its queue or back, and lets go of its own.
LEMMA HubRefs ==
  ASSUME Assumptions, TypeInv, TypeInv', RefsInv, HubTask
  PROVE  RefsInv'
<1> SUFFICES ASSUME NEW p \in Payloads PROVE Balanced(p)
  BY BalancedHolders DEF RefsInv, RefsAreHolders, TypeInv, Types
<1>a. /\ Types /\ Types' /\ p # None /\ refs \in [Payloads -> Int] /\ refs[p] = Holders(p)
      /\ inbox \in Seq(Messages) /\ Len(inbox) <= InboxLen /\ refs[p] \in Int
      /\ refs'[p] \in Int /\ queue \in [All -> Seq(Messages)] /\ TargetAssumption
  BY DEF TypeInv, Types, RefsInv, RefsAreHolders, Assumptions, TargetAssumption
<1>b. /\ Cardinality(With(inbox, p)) \in Nat /\ Cardinality(Places(queue, p)) \in Nat
      /\ Cardinality(Working(p)) \in Nat /\ HeldByHub(p) \in Nat
  BY <1>a, HoldersCount
<1>c. msg.payload \in Payloads \cup {None}
  BY <1>a, MessageFields DEF Types
<1>d. Message(Error, None) \in Messages /\ Message(Error, None).payload = None
  BY NewMessages
<1>e. Decrement(refs, msg.payload)[p] = refs[p] - (IF p = msg.payload THEN 1 ELSE 0)
      /\ Increment(refs, msg.payload)[p] = refs[p] + (IF p = msg.payload THEN 1 ELSE 0)
  BY <1>a, <1>c, CountsAre
<1>1. CASE HubReceive
  <2>1. Cardinality(With(inbox, p)) = Cardinality(With(inbox', p)) + (IF msg'.payload = p THEN 1 ELSE 0)
    BY <1>1, <1>a, CountTail DEF HubReceive
  <2>2. HeldByHub(p) = 0 /\ HeldByHub(p)' = (IF msg'.payload = p THEN 1 ELSE 0)
    BY <1>1 DEF HubReceive, HeldByHub
  <2>3. UNCHANGED <<queue, refs, owner, taken>> /\ Working(p)' = Working(p)
    BY <1>1 DEF HubReceive, Working
  <2>4. Cardinality(With(inbox', p)) \in Nat
    BY <1>a, HoldersCount, PlacesFinite DEF Types
  <2> QED BY <1>a, <1>b, <2>1, <2>2, <2>3, <2>4 DEF Balanced
<1>2. CASE HubVisit
  <2>1. UNCHANGED <<inbox, queue, msg, owner, taken>> /\ Working(p)' = Working(p) /\ pc = "walk"
    BY <1>2 DEF HubVisit, Working, lists
  <2>2. \/ pc' = "next" /\ refs' = refs
        \/ pc' = "send" /\ refs' = Increment(refs, msg.payload)
    BY <1>2 DEF HubVisit
  <2>3. CASE pc' = "next" /\ refs' = refs
    <3>1. HeldByHub(p)' = HeldByHub(p)
      BY <2>1, <2>3 DEF HeldByHub
    <3> QED BY <1>a, <1>b, <2>1, <2>3, <3>1 DEF Balanced
  <2>4. CASE pc' = "send" /\ refs' = Increment(refs, msg.payload)
    <3>1. HeldByHub(p)' = HeldByHub(p) + (IF p = msg.payload THEN 1 ELSE 0)
      BY <2>1, <2>4 DEF HeldByHub
    <3> QED BY SMTT(30), <1>a, <1>b, <1>e, <2>1, <2>4, <3>1 DEF Balanced
  <2> QED BY <2>2, <2>3, <2>4
<1>3. CASE HubDeliver
  <2>1. /\ UNCHANGED <<inbox, msg, refs, owner, taken>> /\ Working(p)' = Working(p)
        /\ pc = "send" /\ pc' = "next" /\ cur \in Targets
        /\ queue' = [queue EXCEPT ![cur] = Append(queue[cur], msg)]
    BY <1>3 DEF HubDeliver, Working, lists, TypeInv, HubIsAt
  <2>2. Cardinality(Places(queue', p)) = Cardinality(Places(queue, p)) + (IF msg.payload = p THEN 1 ELSE 0)
    <3>1. /\ msg \in Messages /\ TargetAssumption /\ cur \in Targets
          /\ queue \in Inboxes /\ queue' \in Inboxes
      BY <1>a, <2>1 DEF Types, Assumptions, Inboxes
    <3>2. queue'[cur] = Append(queue[cur], msg) /\ \A u \in All \ {cur} : queue'[u] = queue[u]
      BY <2>1, <3>1 DEF All, Inboxes
    <3> QED BY <3>1, <3>2, QueuedAppend
  <2>3. HeldByHub(p) = HeldByHub(p)' + (IF msg.payload = p THEN 1 ELSE 0) /\ HeldByHub(p)' \in Nat
    BY <2>1 DEF HeldByHub
  <2> QED BY <1>a, <1>b, <2>1, <2>2, <2>3 DEF Balanced
<1>4. CASE HubTimeout
  <2>1. /\ UNCHANGED <<queue, msg, owner, taken>> /\ Working(p)' = Working(p)
        /\ pc = "send" /\ pc' = "next" /\ Post(Message(Error, None))
        /\ refs' = Decrement(refs, msg.payload)
    BY <1>4 DEF HubTimeout, Working, lists
  <2>2. Cardinality(With(inbox', p)) = Cardinality(With(inbox, p))
    BY <1>a, <1>b, <1>d, <2>1, Posted
  <2>3. HeldByHub(p) = HeldByHub(p)' + (IF p = msg.payload THEN 1 ELSE 0) /\ HeldByHub(p)' \in Nat
    BY <2>1 DEF HeldByHub
  <2> QED BY SMTT(30), <1>a, <1>b, <1>e, <2>1, <2>2, <2>3 DEF Balanced
<1>5. CASE HubNext \/ HubNextFreed
  <2>1. /\ UNCHANGED <<inbox, queue, msg, refs, owner, taken>> /\ Working(p)' = Working(p)
        /\ HeldByHub(p)' = HeldByHub(p)
    BY <1>5 DEF HubNext, HubNextFreed, Working, lists, HeldByHub
  <2> QED BY <1>a, <1>b, <2>1 DEF Balanced
<1>6. CASE HubDone
  <2>1. /\ UNCHANGED <<inbox, queue, owner, taken>> /\ Working(p)' = Working(p)
        /\ refs' = Decrement(refs, msg.payload)
    BY <1>6 DEF HubDone, Working
  <2>2. HeldByHub(p) = HeldByHub(p)' + (IF p = msg.payload THEN 1 ELSE 0) /\ HeldByHub(p)' \in Nat
    BY <1>6 DEF HubDone, HeldByHub
  <2>3. refs'[p] = refs[p] - (IF p = msg.payload THEN 1 ELSE 0)
    BY <1>e, <2>1
  <2> QED BY SMTT(30), <1>a, <1>b, <2>1, <2>2, <2>3 DEF Balanced
<1> QED BY <1>1, <1>2, <1>3, <1>4, <1>5, <1>6 DEF HubTask

\* The others hand references over, make or give back one.
LEMMA TaskRefs ==
  ASSUME Assumptions, TypeInv, TypeInv', RefsInv, ClientTask \/ SendTask \/ QueryTask \/ SetupTask
  PROVE  RefsInv'
<1> SUFFICES ASSUME NEW p \in Payloads PROVE Balanced(p)
  BY BalancedHolders DEF RefsInv, RefsAreHolders, TypeInv, Types
<1>a. /\ Types /\ Types' /\ p # None /\ refs \in [Payloads -> Int] /\ refs[p] = Holders(p)
      /\ inbox \in Seq(Messages) /\ Len(inbox) <= InboxLen /\ refs[p] \in Int
      /\ refs'[p] \in Int /\ queue \in [All -> Seq(Messages)] /\ queue' \in [All -> Seq(Messages)]
      /\ TargetAssumption /\ Nil \notin Messages
  BY DEF TypeInv, Types, RefsInv, RefsAreHolders, Assumptions, TargetAssumption
<1>b. /\ Cardinality(With(inbox, p)) \in Nat /\ Cardinality(Places(queue, p)) \in Nat
      /\ Cardinality(Working(p)) \in Nat /\ IsFiniteSet(Working(p)) /\ HeldByHub(p) \in Nat
  BY <1>a, HoldersCount
<1>c. \A n \in Payloads \cup {None} :
        Decrement(refs, n)[p] = refs[p] - (IF p = n THEN 1 ELSE 0)
  BY <1>a, CountsAre
<1>d. \A m \in Messages : m.payload = None /\ Post(m) =>
        Cardinality(With(inbox', p)) = Cardinality(With(inbox, p))
  BY <1>a, <1>b, Posted
<1>1. ASSUME NEW t \in Targets, Receive(t) PROVE Balanced(p)
  <2>1. /\ UNCHANGED <<inbox, pc, msg, refs, owner>> /\ HeldByHub(p)' = HeldByHub(p)
        /\ taken[t] = Nil /\ queue[t] # <<>> /\ t \in All
        /\ queue' = [queue EXCEPT ![t] = Tail(queue[t])]
        /\ taken' = [taken EXCEPT ![t] = Head(queue[t])]
    BY <1>1 DEF Receive, hubvars, HeldByHub, All
  <2>2. Cardinality(Places(queue, p)) = Cardinality(Places(queue', p))
                                          + (IF Head(queue[t]).payload = p THEN 1 ELSE 0)
    <3>1. /\ queue[t] # <<>> /\ TargetAssumption
          /\ queue \in Inboxes /\ queue' \in Inboxes
      BY <1>a, <2>1 DEF Inboxes
    <3>2. queue'[t] = Tail(queue[t]) /\ \A u \in All \ {t} : queue'[u] = queue[u]
      BY <2>1, <3>1 DEF Inboxes
    <3> QED BY <3>1, <3>2, QueuedTail
  <2>3. Head(queue[t]) \in Messages
    BY <1>a, <2>1, PlacesTail
  <2>4. Working(p)' = IF Head(queue[t]).payload = p THEN Working(p) \cup {t} ELSE Working(p)
    BY <1>a, <2>1, <2>3 DEF Working, Types
  <2>5. t \notin Working(p)
    BY <2>1 DEF Working
  <2>6. Cardinality(Working(p) \cup {t}) = Cardinality(Working(p)) + 1
    BY <1>b, <2>5, FS_AddElement
  <2>7. Cardinality(Working(p)') = Cardinality(Working(p)) + (IF Head(queue[t]).payload = p THEN 1 ELSE 0)
    BY <1>b, <2>4, <2>6
  <2>8. Cardinality(Places(queue', p)) \in Nat
    BY <1>a, PlacesCount
  <2> QED BY <1>a, <1>b, <2>1, <2>2, <2>7, <2>8 DEF Balanced
<1>2. ASSUME NEW t \in Targets, Reply(t) PROVE Balanced(p)
  <2>1. /\ UNCHANGED <<queue, pc, msg, refs, owner>> /\ HeldByHub(p)' = HeldByHub(p)
        /\ taken[t] # Nil /\ taken[t].source # Nil /\ t \in All /\ taken' = [taken EXCEPT ![t] = Nil]
        /\ Post([id |-> taken[t].source, payload |-> None, source |-> Nil, answer |-> taken[t].source])
    BY <1>2 DEF Reply, hubvars, HeldByHub, All
  <2>2. taken[t].source \in Queries /\ taken[t].payload = None
    BY <1>a, <2>1, MessageFields DEF Types
  <2>3. Cardinality(With(inbox', p)) = Cardinality(With(inbox, p))
    <3> DEFINE m == [id |-> taken[t].source, payload |-> None, source |-> Nil, answer |-> taken[t].source]
    <3>1. m \in Messages /\ m.payload = None /\ Post(m)
      BY <2>1, <2>2, NewMessages
    <3> QED BY <1>d, <3>1
  <2>4. Working(p)' = Working(p)
    BY <1>a, <2>1, <2>2 DEF Working, Types
  <2> QED BY <1>a, <1>b, <2>1, <2>3, <2>4 DEF Balanced
<1>3. ASSUME NEW t \in Targets, Discard(t) PROVE Balanced(p)
  <2>1. /\ UNCHANGED <<inbox, queue, pc, msg, owner>> /\ HeldByHub(p)' = HeldByHub(p)
        /\ taken[t] # Nil /\ t \in All /\ taken' = [taken EXCEPT ![t] = Nil]
        /\ refs' = Decrement(refs, taken[t].payload)
    BY <1>3 DEF Discard, hubvars, HeldByHub, All
  <2>2. taken[t].payload \in Payloads \cup {None}
    BY <1>a, <2>1, MessageFields DEF Types
  <2>3. refs'[p] = refs[p] - (IF p = taken[t].payload THEN 1 ELSE 0)
    BY <1>c, <2>1, <2>2
  <2>4. Working(p)' = Working(p) \ {t} /\ (t \in Working(p) <=> taken[t].payload = p)
    BY <1>a, <2>1 DEF Working, Types
  <2>5. Cardinality(Working(p) \ {t}) = IF t \in Working(p) THEN Cardinality(Working(p)) - 1
                                                            ELSE Cardinality(Working(p))
    BY <1>b, FS_RemoveElement
  <2>6. Cardinality(Working(p)') = Cardinality(Working(p)) - (IF p = taken[t].payload THEN 1 ELSE 0)
    BY <1>b, <2>4, <2>5
  <2> QED BY <1>a, <1>b, <2>1, <2>3, <2>6 DEF Balanced
<1>4. ASSUME NEW x \in Payloads, Make(x) PROVE Balanced(p)
  <2>1. /\ UNCHANGED <<inbox, queue, pc, msg, taken>> /\ HeldByHub(p)' = HeldByHub(p) /\ Working(p)' = Working(p)
        /\ owner' = owner \cup {x} /\ x \notin owner
        /\ refs' = [refs EXCEPT ![x] = 1] /\ refs[x] = 0
    BY <1>4 DEF Make, hubvars, HeldByHub, Working
  <2>2. refs'[p] = refs[p] + (IF x = p THEN 1 ELSE 0)
    BY <1>a, <2>1
  <2> QED BY <1>a, <1>b, <2>1, <2>2 DEF Balanced
<1>5. ASSUME NEW x \in Payloads, NEW id \in Events, Send(id, x) PROVE Balanced(p)
  <2>1. /\ UNCHANGED <<queue, pc, msg, taken>> /\ HeldByHub(p)' = HeldByHub(p) /\ Working(p)' = Working(p)
        /\ owner' = owner \ {x} /\ x \in owner /\ Post(Message(id, x))
        /\ refs' = IF Len(inbox) < InboxLen THEN refs ELSE Decrement(refs, x)
    BY <1>5 DEF Send, hubvars, lists, HeldByHub, Working
  <2>2. Message(id, x) \in Messages /\ Message(id, x).payload = x
    BY NewMessages
  <2>3. Cardinality(With(inbox', p)) = Cardinality(With(inbox, p))
                                         + (IF Len(inbox) < InboxLen /\ x = p THEN 1 ELSE 0)
    BY <1>a, <2>1, <2>2, Posted
  <2>4. refs'[p] = refs[p] - (IF ~(Len(inbox) < InboxLen) /\ p = x THEN 1 ELSE 0)
    <3>1. Decrement(refs, x)[p] = refs[p] - (IF p = x THEN 1 ELSE 0)
      BY <1>c
    <3> QED BY <1>a, <2>1, <3>1
  <2>5. CASE x = p
    <3>1. p \in owner /\ p \notin owner'
      BY <2>1, <2>5
    <3>2. refs'[p] + 1 = refs[p] + (Cardinality(With(inbox', p)) - Cardinality(With(inbox, p)))
      BY <1>a, <1>b, <2>3, <2>4, <2>5
    <3>3. Cardinality(With(inbox', p)) \in Nat
      BY <1>b, <2>3
    <3>4. /\ queue' = queue /\ Working(p)' = Working(p) /\ HeldByHub(p)' = HeldByHub(p)
          /\ (IF p \in owner THEN 1 ELSE 0) = 1 /\ (IF p \in owner' THEN 1 ELSE 0) = 0
      BY <2>1, <3>1
    <3>5. refs[p] \in Int /\ refs'[p] \in Int
      BY <1>a
    <3> QED BY <1>b, <3>2, <3>3, <3>4, <3>5 DEF Balanced
  <2>6. CASE x # p
    BY <1>a, <1>b, <2>1, <2>3, <2>4, <2>6 DEF Balanced
  <2> QED BY <2>5, <2>6
<1>6. ASSUME NEW id \in Events, ReportEvent(id) PROVE Balanced(p)
  <2>1. /\ UNCHANGED <<queue, pc, msg, taken, refs, owner>> /\ HeldByHub(p)' = HeldByHub(p)
        /\ Working(p)' = Working(p) /\ Post(Message(id, None))
    BY <1>6 DEF ReportEvent, hubvars, lists, HeldByHub, Working
  <2>2. Cardinality(With(inbox', p)) = Cardinality(With(inbox, p))
    BY <1>d, <2>1, NewMessages
  <2> QED BY <1>a, <1>b, <2>1, <2>2 DEF Balanced
<1>7. CASE QueryTask
  <2>q. PICK q \in Queries : \/ QueryStart(q) \/ \E id \in Events : QuerySend(q, id)
                            \/ QueryWait(q) \/ QueryUnsubscribe(q) \/ QueryFree(q)
    BY <1>7 DEF QueryTask
  <2>1. ASSUME NEW id \in Events, QuerySend(q, id) PROVE Balanced(p)
    <3>1. /\ UNCHANGED <<queue, pc, msg, taken, refs, owner>> /\ HeldByHub(p)' = HeldByHub(p)
          /\ Working(p)' = Working(p) /\ Post([id |-> id, payload |-> None, source |-> q, answer |-> Nil])
      BY <2>1 DEF QuerySend, hubvars, lists, HeldByHub, Working
    <3>2. Cardinality(With(inbox', p)) = Cardinality(With(inbox, p))
      BY <1>d, <3>1, NewMessages
    <3> QED BY <1>a, <1>b, <3>1, <3>2 DEF Balanced
  <2>2. CASE QueryStart(q) \/ QueryWait(q) \/ QueryUnsubscribe(q) \/ QueryFree(q)
    <3>1. /\ UNCHANGED <<inbox, queue, pc, msg, taken, refs, owner>> /\ HeldByHub(p)' = HeldByHub(p)
          /\ Working(p)' = Working(p)
      BY <2>2 DEF QueryStart, QueryWait, QueryUnsubscribe, QueryFree, hubvars, lists, HeldByHub, Working
    <3> QED BY <1>a, <1>b, <3>1 DEF Balanced
  <2> QED BY <2>q, <2>1, <2>2
<1>8. CASE SetupTask
  <2>1. /\ UNCHANGED <<inbox, queue, pc, msg, taken, refs, owner>> /\ HeldByHub(p)' = HeldByHub(p)
        /\ Working(p)' = Working(p)
    BY <1>8 DEF SetupTask, Subscribe, Unsubscribe, AddFilter, RemoveFilter, hubvars, HeldByHub, Working
  <2> QED BY <1>a, <1>b, <2>1 DEF Balanced
<1> QED BY <1>1, <1>2, <1>3, <1>4, <1>5, <1>6, <1>7, <1>8 DEF ClientTask, SendTask

-----------------------------------------------------------------------------
(* The list of subscribers and the walk along it. *)

\* umsg_hub_unsubscribe and the end of a query.
LEMMA Removed ==
  ASSUME Assumptions, Types, IsList(next, first), NEW t \in Subscribed, Remove(t)
  PROVE  /\ next' \in Links /\ first' \in All \cup {Nil} /\ IsList(next', first')
         /\ Linked(next', first') = Linked(next, first) \ {t}
         /\ \A x \in (All \cup {Nil}) \ {t} : Linked(next, x) \ {t} \subseteq Linked(next', x)
<1>1. /\ next \in Links /\ first \in All \cup {Nil} /\ Nil \notin All /\ t \in Linked(next, first)
  BY DEF Types, Links, Assumptions, TargetAssumption, Subscribed
<1>2. t \in All /\ next[t] \in All \cup {Nil} /\ next[t] # t
  BY <1>1, LinkedIs, NoLoop DEF Links
<1>3. next' \in Links /\ next'[t] = Nil /\ \A s \in All \ {t} : next'[s] = IF next[s] = t THEN next[t] ELSE next[s]
  <2>1. CASE t = first
    <3>1. next' = [next EXCEPT ![t] = Nil] /\ \A s \in All : next[s] # t
      BY <1>1, <1>2, <2>1 DEF Remove, IsList
    <3> QED BY <1>1, <1>2, <3>1 DEF Links
  <2>2. CASE t # first
    <3> DEFINE before == {s \in All : s \in Subscribed /\ next[s] = t}
    <3>1. next' = [s \in All |-> IF s \in before THEN next[t] ELSE IF s = t THEN Nil ELSE next[s]]
      BY <2>2 DEF Remove
    <3>2. \A s \in All : s \in before <=> next[s] = t
      BY <1>1, <1>2 DEF IsList, Subscribed
    <3> QED BY <1>1, <1>2, <3>1, <3>2 DEF Links
  <2> QED BY <2>1, <2>2
<1>4. first' = IF t = first THEN next[t] ELSE first
  BY DEF Remove
<1> QED BY <1>1, <1>3, <1>4, RemoveLinks

\* umsg_hub_subscribe and the beginning of a query.
LEMMA Pushed ==
  ASSUME Assumptions, Types, IsList(next, first), NEW t \in All, t \notin Subscribed, Push(t)
  PROVE  /\ next' \in Links /\ first' = t /\ IsList(next', first')
         /\ Linked(next', first') = Linked(next, first) \cup {t}
         /\ \A x \in All \cup {Nil} : Linked(next, x) \subseteq Linked(next', x)
<1>1. /\ next \in Links /\ first \in All \cup {Nil} /\ Nil \notin All /\ t \notin Linked(next, first)
      /\ next[t] = Nil /\ next' = [next EXCEPT ![t] = first] /\ first' = t
  BY DEF Types, Links, Assumptions, TargetAssumption, Subscribed, IsList, Push
<1>2. next' \in Links /\ next'[t] = first /\ \A s \in All \ {t} : next'[s] = next[s]
  BY <1>1 DEF Links
<1>a. /\ next \in Links /\ first \in All \cup {Nil} /\ Nil \notin All /\ t \notin Linked(next, first)
      /\ next[t] = Nil
  BY <1>1
<1>3. /\ IsList(next', t)
      /\ Linked(next', t) = Linked(next, first) \cup {t}
      /\ \A x \in All \cup {Nil} : Linked(next, x) \subseteq Linked(next', x)
  BY <1>a, <1>2, PushLinks
<1> QED BY <1>1, <1>2, <1>3

\* The hub stays where it is: whoever stays subscribed, with the same filters, is still ahead.
LEMMA WalkStays ==
  ASSUME WalkInv, UNCHANGED <<pc, msg, cur, seen>>, steady' \subseteq steady,
         steady' \subseteq Linked(next', first'),
         steady' # {} => cur \in Linked(next', first') \cup {Nil},
         \A t \in steady' \ Queries : filters'[t] = filters[t],
         \A t \in steady' : t \in Linked(next, cur) => t \in Linked(next', cur)
  PROVE  WalkInv'
<1>1. \A t \in steady' \ Queries : MatchFilter(t, msg.id)' <=> MatchFilter(t, msg.id)
  BY DEF MatchFilter
<1>2. \A t : Reached(t)' <=> Reached(t)
  BY DEF Reached
<1>3. \A t \in Queries : Reached(t)
  BY DEF Reached
<1> QED BY <1>1, <1>2, <1>3 DEF WalkInv, Subscribed

\* What is subscribed is among the targets, and the one at the front is, if there is one.
LEMMA SubscribedIs ==
  ASSUME Types
  PROVE  /\ next \in Links /\ first \in All \cup {Nil}
         /\ Subscribed \subseteq All /\ first \in Subscribed \cup {Nil}
         /\ \A s \in Subscribed : next[s] \in Subscribed \cup {Nil}
<1>1. next \in Links /\ first \in All \cup {Nil}
  BY DEF Types, Links
<1>2. /\ Linked(next, first) \subseteq All /\ first \in Linked(next, first) \cup {Nil}
      /\ Closed(next, Linked(next, first))
  BY <1>1, LinkedIs
<1> QED BY <1>1, <1>2 DEF Subscribed, Closed

\* The hub goes along the list: whom it leaves behind it has reached.
LEMMA HubWalk ==
  ASSUME Assumptions, TypeInv, LinkInv, WalkInv, HubTask
  PROVE  LinkInv' /\ WalkInv'
<1>a. /\ Types /\ QueryTypes /\ HubIsAt /\ Nil \notin All
  BY DEF TypeInv, Assumptions, TargetAssumption
<1>b. next' = next /\ first' = first /\ filters' = filters
  BY DEF HubTask, HubReceive, HubVisit, HubDeliver, HubTimeout, HubNext, HubNextFreed, HubDone, lists
<1>c. /\ Subscribed' = Subscribed
      /\ \A t : MatchFilter(t, msg.id)' <=> MatchFilter(t, msg'.id)
  BY <1>b DEF Subscribed, Linked, MatchFilter
<1>d. LinkInv'
  <2>1. \A q \in Queries : query'[q].at = query[q].at
    <3>1. query' = query \/ query' = Answered(cur)
      BY DEF HubTask, HubReceive, HubVisit, HubDeliver, HubTimeout, HubNext, HubNextFreed, HubDone, Callback
    <3>2. \A q \in Queries : Answered(cur)[q].at = query[q].at
      BY <1>a DEF Answered, QueryTypes
    <3> QED BY <3>1, <3>2
  <2>2. IsList(next, first)' <=> IsList(next, first)
    BY <1>b DEF IsList, Linked
  <2> QED BY <1>c, <2>1, <2>2 DEF LinkInv, QueryIsListed
<1>1. CASE HubReceive
  <2>1. /\ cur' = first /\ seen' = {} /\ steady' = Subscribed /\ pc' = "walk"
    BY <1>1 DEF HubReceive
  <2>2. Linked(next, cur)' = Subscribed
    BY <1>b, <2>1 DEF Subscribed, Linked
  <2>3. cur' \in Subscribed \cup {Nil}
    BY <1>a, <2>1, SubscribedIs
  <2> QED BY <1>c, <1>d, <2>1, <2>2, <2>3 DEF WalkInv
<1>2. CASE HubVisit \/ HubDeliver \/ HubTimeout
  <2>1. /\ UNCHANGED <<msg, cur, steady>> /\ pc \in {"walk", "send"} /\ pc' \in {"next", "send"}
        /\ seen \subseteq seen'
        /\ pc' = "next" /\ MatchFilter(cur, msg.id) => cur \in seen'
    BY <1>2 DEF HubVisit, HubDeliver, HubTimeout, lists
  <2>2. Linked(next, cur)' = Linked(next, cur)
    BY <1>b, <2>1 DEF Linked
  <2>3. \A t : Reached(t) => Reached(t)'
    BY <2>1 DEF Reached
  <2>4. /\ steady' \subseteq Subscribed' /\ (steady' # {} => cur' \in Subscribed' \cup {Nil})
    BY <1>c, <2>1 DEF WalkInv
  <2>5. \A t \in steady' : MatchFilter(t, msg.id)' => Reached(t)' \/ t \in Linked(next, cur)'
    BY <1>b, <2>1, <2>2, <2>3 DEF WalkInv, MatchFilter
  <2>6. pc' = "next" /\ MatchFilter(cur, msg.id)' => Reached(cur)'
    BY <1>b, <2>1 DEF MatchFilter, Reached
  <2> QED BY <1>d, <2>4, <2>5, <2>6 DEF WalkInv
<1>3. CASE HubNext
  <2>1. UNCHANGED <<msg, seen, steady>> /\ cur' = next[cur] /\ pc = "next" /\ pc' = "walk" /\ cur \in All
    BY <1>3, <1>a DEF HubNext, HubIsAt, lists
  <2>2. Linked(next, cur)' = Linked(next, next[cur])
    BY <1>b, <2>1 DEF Linked
  <2>3. Linked(next, cur) \subseteq {cur} \cup Linked(next, next[cur])
    BY <1>a, <2>1, SubscribedIs, LinkedNext
  <2>4. steady' # {} => cur' \in Subscribed' \cup {Nil}
    BY <1>a, <1>c, <2>1, SubscribedIs DEF WalkInv
  <2>5. ASSUME NEW t \in steady', MatchFilter(t, msg.id)'
        PROVE  Reached(t)' \/ t \in Linked(next, cur)'
    <3>1. t \in steady /\ MatchFilter(t, msg.id)
      BY <1>b, <2>1, <2>5 DEF MatchFilter
    <3>2. Reached(t) \/ t \in Linked(next, next[cur])
      BY <2>1, <2>3, <3>1 DEF WalkInv
    <3>3. Reached(t)' <=> Reached(t)
      BY <2>1 DEF Reached
    <3> QED BY <2>2, <3>2, <3>3
  <2> QED BY <1>c, <1>d, <2>1, <2>4, <2>5 DEF WalkInv
<1>4. CASE HubNextFreed \/ HubDone
  <2>1. steady' = {}
    BY <1>4 DEF HubNextFreed, HubDone
  <2> QED BY <1>d, <2>1 DEF WalkInv
<1> QED BY <1>d, <1>1, <1>2, <1>3, <1>4 DEF HubTask

\* Taking t off the list, when the hub is at it, ends the walk; else the rest stays ahead.
LEMMA RemovedWalk ==
  ASSUME Assumptions, TypeInv, LinkInv, WalkInv, NEW t \in Subscribed, Remove(t),
         steady' = IF cur = t THEN {} ELSE steady \ {t}, UNCHANGED <<pc, msg, cur, seen, filters>>
  PROVE  WalkInv' /\ IsList(next, first)' /\ Subscribed' = Subscribed \ {t}
<1>1. /\ next' \in Links /\ IsList(next', first')
      /\ Linked(next', first') = Linked(next, first) \ {t}
      /\ \A x \in (All \cup {Nil}) \ {t} : Linked(next, x) \ {t} \subseteq Linked(next', x)
  BY Removed DEF TypeInv, LinkInv
<1>2. cur \in All \cup {Nil} /\ t # Nil
  BY SubscribedIs DEF TypeInv, Types, Assumptions, TargetAssumption
<1>3. /\ steady' \subseteq steady /\ steady' \subseteq Linked(next', first')
      /\ steady' # {} => cur \in Linked(next', first') \cup {Nil}
      /\ \A s \in steady' : s \in Linked(next, cur) => s \in Linked(next', cur)
  <2>1. CASE cur = t
    BY <2>1
  <2>2. CASE cur # t
    <3>1. steady' = steady \ {t} /\ steady \subseteq Linked(next, first)
      BY <2>2 DEF WalkInv, Subscribed
    <3>2. Linked(next, cur) \ {t} \subseteq Linked(next', cur)
      BY <1>1, <1>2, <2>2
    <3> QED BY <1>1, <2>2, <3>1, <3>2 DEF WalkInv, Subscribed
  <2> QED BY <2>1, <2>2
<1>4. WalkInv'
  BY <1>3, WalkStays
<1>5. IsList(next, first)' /\ Subscribed' = Subscribed \ {t}
  BY <1>1 DEF IsList, Subscribed, Linked
<1> QED BY <1>4, <1>5

\* Putting t in front of the list leaves everything ahead of the hub where it was.
LEMMA PushedWalk ==
  ASSUME Assumptions, TypeInv, LinkInv, WalkInv, NEW t \in All, t \notin Subscribed, Push(t),
         UNCHANGED <<pc, msg, cur, seen, steady>>, \A s \in All \ Queries : filters'[s] = filters[s]
  PROVE  WalkInv' /\ IsList(next, first)' /\ Subscribed' = Subscribed \cup {t}
<1>1. /\ next' \in Links /\ IsList(next', first')
      /\ Linked(next', first') = Linked(next, first) \cup {t}
      /\ \A x \in All \cup {Nil} : Linked(next, x) \subseteq Linked(next', x)
  BY Pushed DEF TypeInv, LinkInv
<1>2. cur \in All \cup {Nil} /\ Subscribed \subseteq All /\ Subscribed = Linked(next, first)
  BY SubscribedIs DEF TypeInv, Types, Subscribed
<1>3. /\ steady' \subseteq steady /\ steady' \subseteq Linked(next', first') /\ steady' \subseteq All
      /\ steady' # {} => cur \in Linked(next', first') \cup {Nil}
      /\ \A s \in steady' : s \in Linked(next, cur) => s \in Linked(next', cur)
  BY <1>1, <1>2 DEF WalkInv
<1>4. WalkInv'
  BY <1>3, WalkStays
<1>5. IsList(next, first)' /\ Subscribed' = Subscribed \cup {t}
  BY <1>1 DEF IsList, Subscribed, Linked
<1> QED BY <1>4, <1>5

\* The list is as it was.
LEMMA ListStays ==
  ASSUME UNCHANGED <<first, next>>
  PROVE  /\ Subscribed' = Subscribed /\ (IsList(next, first)' <=> IsList(next, first))
         /\ Linked(next', first') = Linked(next, first) /\ Linked(next', cur) = Linked(next, cur)
BY DEF Subscribed, IsList, Linked

\* The steps of the other tasks.
LEMMA TaskWalk ==
  ASSUME Assumptions, TypeInv, LinkInv, WalkInv, ClientTask \/ SendTask \/ QueryTask \/ SetupTask
  PROVE  LinkInv' /\ WalkInv'
<1>a. /\ Types /\ QueryTypes /\ IsList(next, first) /\ Targets \subseteq All /\ Queries \subseteq All
      /\ Targets \cap Queries = {} /\ steady \subseteq Subscribed /\ Subscribed = Linked(next, first)
      /\ steady # {} => cur \in Subscribed \cup {Nil}
  BY DEF TypeInv, LinkInv, WalkInv, Assumptions, TargetAssumption, All, Subscribed
<1>1. CASE ClientTask \/ SendTask
  <2>1. UNCHANGED <<lists, hubvars, query>>
    BY <1>1 DEF ClientTask, Receive, Reply, Discard, SendTask, Make, Send, ReportEvent
  <2>2. UNCHANGED <<first, next, filters, steady, pc, msg, cur, seen, query>>
    BY <2>1 DEF lists, hubvars
  <2>3. WalkInv'
    BY <1>a, <2>2, ListStays, WalkStays
  <2> QED BY <2>2, <2>3, ListStays DEF LinkInv, QueryIsListed
<1>2. CASE SetupTask
  <2>t. PICK t \in Targets : \/ Subscribe(t) \/ Unsubscribe(t)
                            \/ \E m \in Masks : AddFilter(t, m) \/ RemoveFilter(t, m)
    BY <1>2 DEF SetupTask
  <2>1. CASE Subscribe(t)
    <3>1. /\ t \notin Subscribed /\ Push(t) /\ t \in All
          /\ UNCHANGED <<filters, steady, pc, msg, cur, seen, query>>
      BY <1>a, <2>1 DEF Subscribe, hubvars
    <3>2. WalkInv' /\ IsList(next, first)' /\ Subscribed' = Subscribed \cup {t}
      BY <3>1, PushedWalk
    <3> QED BY <1>a, <3>1, <3>2 DEF LinkInv, QueryIsListed
  <2>2. CASE Unsubscribe(t)
    <3>1. /\ t \in Subscribed /\ Remove(t) /\ steady' = IF cur = t THEN {} ELSE steady \ {t}
          /\ UNCHANGED <<filters, pc, msg, cur, seen, query>>
      BY <2>2 DEF Unsubscribe, hubvars
    <3>2. WalkInv' /\ IsList(next, first)' /\ Subscribed' = Subscribed \ {t}
      BY <3>1, RemovedWalk
    <3> QED BY <1>a, <3>1, <3>2 DEF LinkInv, QueryIsListed
  <2>3. ASSUME NEW m \in Masks, AddFilter(t, m) \/ RemoveFilter(t, m)
        PROVE  LinkInv' /\ WalkInv'
    <3>1. /\ UNCHANGED <<first, next, pc, msg, cur, seen, query>> /\ steady' = steady \ {t}
          /\ \A s \in All \ {t} : filters'[s] = filters[s]
      BY <1>a, <2>3 DEF AddFilter, RemoveFilter, hubvars, Types
    <3>2. steady' \subseteq All \ {t}
      BY <1>a, <3>1, SubscribedIs
    <3>3. WalkInv'
      BY <1>a, <3>1, <3>2, ListStays, WalkStays
    <3> QED BY <3>1, <3>3, ListStays DEF LinkInv, QueryIsListed
  <2> QED BY <2>t, <2>1, <2>2, <2>3
<1>3. CASE QueryTask
  <2>q. PICK q \in Queries : \/ QueryStart(q) \/ \E id \in Events : QuerySend(q, id)
                            \/ QueryWait(q) \/ QueryUnsubscribe(q) \/ QueryFree(q)
    BY <1>3 DEF QueryTask
  <2>1. CASE QueryStart(q)
    <3>1. /\ query[q].at = "off" /\ Push(q) /\ UNCHANGED <<steady, pc, msg, cur, seen>>
          /\ filters' = [filters EXCEPT ![q] = Fresh(Aux)]
          /\ query' = [query EXCEPT ![q] = [at |-> "send", handler |-> TRUE, got |-> Nil, result |-> Nil]]
      BY <2>1 DEF QueryStart, hubvars
    <3>2. q \notin Subscribed /\ q \in All
      BY <1>a, <3>1 DEF LinkInv, QueryIsListed
    <3>3. \A s \in All \ Queries : filters'[s] = filters[s]
      BY <3>1 DEF Types, TypeInv
    <3>4. WalkInv' /\ IsList(next, first)' /\ Subscribed' = Subscribed \cup {q}
      BY <3>1, <3>2, <3>3, PushedWalk
    <3>5. query'[q].at = "send" /\ \A p \in Queries \ {q} : query'[p] = query[p]
      BY <1>a, <3>1 DEF QueryTypes
    <3> QED BY <3>4, <3>5 DEF LinkInv, QueryIsListed
  <2>2. CASE (\E id \in Events : QuerySend(q, id)) \/ QueryWait(q)
    <3>1. /\ UNCHANGED <<first, next, filters, steady, pc, msg, cur, seen>>
          /\ query[q].at \in {"send", "wait"} /\ query'[q].at \in {"wait", "clean"}
          /\ \A p \in Queries \ {q} : query'[p] = query[p]
      BY ZenonT(30), <1>a, <2>2 DEF QuerySend, QueryWait, QueryTypes, lists, hubvars
    <3>2. WalkInv'
      BY <1>a, <3>1, ListStays, WalkStays
    <3> QED BY <3>1, <3>2, ListStays DEF LinkInv, QueryIsListed
  <2>3. CASE QueryUnsubscribe(q)
    <3>1. /\ q \in Subscribed /\ Remove(q) /\ steady' = IF cur = q THEN {} ELSE steady \ {q}
          /\ UNCHANGED <<filters, pc, msg, cur, seen>> /\ query'[q].at = "free"
          /\ \A p \in Queries \ {q} : query'[p] = query[p]
      BY <1>a, <2>3 DEF QueryUnsubscribe, QueryTypes, hubvars
    <3>2. WalkInv' /\ IsList(next, first)' /\ Subscribed' = Subscribed \ {q}
      BY <3>1, RemovedWalk
    <3> QED BY <3>1, <3>2 DEF LinkInv, QueryIsListed
  <2>4. CASE QueryFree(q)
    <3>1. /\ UNCHANGED <<first, next, steady, pc, msg, cur, seen>>
          /\ query[q].at = "free" /\ query'[q].at = "off"
          /\ \A p \in Queries \ {q} : query'[p] = query[p]
          /\ \A s \in All \ {q} : filters'[s] = filters[s]
      BY <1>a, <2>4 DEF QueryFree, QueryTypes, Types, Off, hubvars
    <3>2. \A s \in steady \ Queries : filters'[s] = filters[s]
      BY <1>a, <3>1, SubscribedIs
    <3>3. WalkInv'
      BY <1>a, <3>1, <3>2, ListStays, WalkStays
    <3>4. q \notin Subscribed
      BY <3>1 DEF LinkInv, QueryIsListed
    <3> QED BY <3>1, <3>3, <3>4, ListStays DEF LinkInv, QueryIsListed
  <2> QED BY <2>q, <2>1, <2>2, <2>3, <2>4
<1> QED BY <1>1, <1>2, <1>3

-----------------------------------------------------------------------------
(* The invariant and what follows from it. *)

IInv == TypeInv /\ LinkInv /\ RefsInv /\ WalkInv

\* Nobody has subscribed, sent or asked anything yet.
LEMMA Starts ==
  ASSUME Assumptions, Init
  PROVE  IInv
<1>a. /\ Nil \notin All \cup Messages /\ (\A t \in All : QueueLen[t] \in Nat)
      /\ InboxLen \in Nat /\ Message(Error, None) \in Messages
  BY NewMessages DEF Assumptions, LengthAssumption, TargetAssumption
<1>1. TypeInv
  <2>1. inbox \in Seq(Messages) /\ Len(inbox) = 0
    BY DEF Init
  <2>2. queue \in [All -> Seq(Messages)] /\ \A t \in All : Len(queue[t]) = 0
    BY DEF Init
  <2>3. QueryTypes
    BY DEF Init, Off, QueryTypes
  <2>4. refs \in [Payloads -> Int] /\ owner \subseteq Payloads /\ taken \in [All -> Messages \cup {Nil}]
    BY DEF Init
  <2>5. /\ first \in All \cup {Nil} /\ next \in [All -> All \cup {Nil}] /\ DOMAIN filters = All
        /\ pc = "idle" /\ msg \in Messages /\ cur \in All \cup {Nil}
    BY <1>a DEF Init
  <2> QED BY <1>a, <2>1, <2>2, <2>3, <2>4, <2>5 DEF TypeInv, Types, HubIsAt
<1>2. LinkInv /\ WalkInv
  <2>1. next \in Links /\ first = Nil /\ steady = {} /\ \A t \in All : next[t] = Nil
    BY DEF Init, Links
  <2>2. Linked(next, first) = {}
    BY <2>1, LinkedNil
  <2>3. \A q \in Queries : query[q].at = "off"
    BY DEF Init, Off
  <2> QED BY <2>1, <2>2, <2>3 DEF LinkInv, QueryIsListed, IsList, WalkInv, Subscribed
<1>3. RefsInv
  <2> SUFFICES ASSUME NEW p \in Payloads PROVE refs[p] = Holders(p)
    BY DEF RefsInv, RefsAreHolders
  <2>1. With(inbox, p) = {} /\ \A t \in All : With(queue[t], p) = {}
    BY DEF Init, With
  <2>2. Queued(p) = {} /\ Working(p) = {} /\ HeldByHub(p) = 0 /\ p \notin owner /\ refs[p] = 0
    BY <2>1 DEF Queued, Working, HeldByHub, Init, All
  <2>3. Cardinality({}) = 0
    BY FS_EmptySet
  <2> QED BY <2>1, <2>2, <2>3 DEF Holders
<1> QED BY <1>1, <1>2, <1>3 DEF IInv

\* Nothing is done.
LEMMA Stutters ==
  ASSUME IInv, UNCHANGED vars
  PROVE  IInv'
<1>1. UNCHANGED <<inbox, queue, first, next, filters, pc, msg, cur, refs, owner, taken, query, seen, steady>>
  BY DEF vars, lists, hubvars
<1>2. TypeInv'
  BY <1>1 DEF IInv, TypeInv, Types, QueryTypes, HubIsAt
<1>3. LinkInv'
  BY <1>1, ListStays DEF IInv, LinkInv, QueryIsListed
<1>4. RefsInv'
  <2>1. \A p \in Payloads : Holders(p)' = Holders(p)
    BY <1>1 DEF Holders, Queued, With, Working, HeldByHub
  <2> QED BY <1>1, <2>1 DEF IInv, RefsInv, RefsAreHolders
<1>5. WalkInv'
  <2>1. WalkInv
    BY DEF IInv
  <2>2. steady \subseteq Linked(next, first) /\ (steady # {} => cur \in Linked(next, first) \cup {Nil})
    BY <2>1 DEF WalkInv, Subscribed
  <2> QED BY <1>1, <2>1, <2>2, ListStays, WalkStays
<1> QED BY <1>2, <1>3, <1>4, <1>5 DEF IInv

\* Every step keeps the invariant.
LEMMA Steps ==
  ASSUME Assumptions, IInv, [Next]_vars
  PROVE  IInv'
<1> USE DEF IInv
<1>1. CASE HubTask
  <2>1. TypeInv'
    BY <1>1, HubTypes
  <2>2. RefsInv'
    BY <1>1, <2>1, HubRefs
  <2>3. LinkInv' /\ WalkInv'
    BY <1>1, HubWalk
  <2> QED BY <2>1, <2>2, <2>3
<1>2. CASE ClientTask \/ SendTask \/ QueryTask \/ SetupTask
  <2>1. TypeInv'
    BY <1>2, TaskTypes, QueryTaskTypes
  <2>2. RefsInv'
    BY <1>2, <2>1, TaskRefs
  <2>3. LinkInv' /\ WalkInv'
    BY <1>2, TaskWalk
  <2> QED BY <2>1, <2>2, <2>3
<1>3. CASE UNCHANGED vars
  BY <1>3, Stutters
<1> QED BY <1>1, <1>2, <1>3 DEF Next

\* The inductive invariant of the hub holds in every state.
THEOREM Invariance ==
  ASSUME Assumptions
  PROVE  Spec => []IInv
BY Starts, Steps, PTL DEF Spec

\* A count that is the number of holders is a natural number.
LEMMA InvTypes ==
  ASSUME Assumptions, IInv
  PROVE  TypeOK
<1>1. Types /\ (\A p \in Payloads : refs[p] \in Nat)
  BY HoldersCount DEF IInv, TypeInv, RefsInv, RefsAreHolders
<1>2. refs \in [Payloads -> Nat]
  BY <1>1 DEF Types
<1> QED BY <1>1, <1>2 DEF Types, TypeOK, All

\* The counts.
LEMMA InvRefs ==
  ASSUME IInv
  PROVE  RefsAreHolders
BY DEF IInv, RefsInv

\* At the end of the list nobody is ahead of the hub: whoever stayed was reached.
LEMMA InvReached ==
  ASSUME IInv
  PROVE  EverySubscriberReached
<1>1. cur = Nil => Linked(next, cur) = {}
  BY LinkedNil DEF IInv, TypeInv, Types, Links
<1> QED BY <1>1 DEF IInv, WalkInv, Reached, EverySubscriberReached

\* The targets of the queries.
LEMMA InvListed ==
  ASSUME IInv
  PROVE  QueryIsListed
BY DEF IInv, LinkInv

\* TypeOK: the queues stay within their lengths and no count of references goes below
\* zero, whoever drops, times out or lets go.
THEOREM TypeCorrect ==
  ASSUME Assumptions
  PROVE  Spec => []TypeOK
BY Invariance, InvTypes, PTL

\* RefsAreHolders: the reference count of every payload is the number of those who hold it.
THEOREM CountsAreHolders ==
  ASSUME Assumptions
  PROVE  Spec => []RefsAreHolders
BY Invariance, InvRefs, PTL

\* EverySubscriberReached: a target that stays subscribed while a message is relayed gets
\* it, whoever is put in and whoever is taken out, as long as the target that the hub is at
\* is neither taken out nor freed, which ends the walk (umsg.c:408).
THEOREM SubscribersAreReached ==
  ASSUME Assumptions
  PROVE  Spec => []EverySubscriberReached
BY Invariance, InvReached, PTL
=============================================================================
