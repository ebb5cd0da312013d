---------------------------- MODULE ErrorLogProof ----------------------------
(***************************************************************************)
(* Proofs about ErrorLog: the ring of sectors, what errlog_mount makes of  *)
(* it, and the writes.                                                     *)
(*                                                                         *)
(* WriteInv says what may be programmed: every sector is filled from its   *)
(* start, and behind the head it is erased.  LogInv adds the order: there  *)
(* is a newest entry, the n-th of sector h; the sectors behind it hold     *)
(* older entries the farther they are back, each at least as many writes   *)
(* older as there are slots between them, and the head is where the next   *)
(* one goes.  Power may fail in every state, so the part about the flash   *)
(* has to be enough for errlog_mount to find that place again.             *)
(***************************************************************************)
EXTENDS ErrorLog, FiniteSetTheorems, WellFoundedInduction, TLAPS

Assumptions == GeometryAssumption /\ BoundAssumption

-----------------------------------------------------------------------------
(* Arithmetic. *)

\* A set of numbers that is not empty has a smallest member.
LEMMA Least ==
  ASSUME NEW S \in SUBSET Nat, S # {}
  PROVE  \E m \in S : \A n \in S : m <= n
<1> DEFINE R == OpToRel(<, Nat)
<1>1. \A m, n \in Nat : <<n, m>> \in R <=> n < m
  BY DEF OpToRel
<1>2. IsWellFoundedOn(R, Nat)
  BY NatLessThanWellFounded
<1> HIDE DEF R
<1>3. \E m \in S : \A n \in S : ~(<<n, m>> \in R)
  BY <1>2, WFMin, Zenon
<1>4. PICK m \in S : \A n \in S : ~(<<n, m>> \in R)
  BY <1>3
<1>5. \A n \in S : ~(n < m)
  BY <1>1, <1>4
<1>6. \A n \in S : m <= n
  BY <1>5
<1> QED BY <1>6

\* The quotient and the remainder of q * k + r by k.
LEMMA Quotient ==
  ASSUME NEW k \in Nat \ {0}, NEW q \in Int, NEW r \in 0..(k - 1)
  PROVE  (q * k + r) \div k = q /\ (q * k + r) % k = r
<1> DEFINE d == (q * k + r) \div k
           m == (q * k + r) % k
<1>1. d \in Int /\ m \in 0..(k - 1) /\ q * k + r = k * d + m
  OBVIOUS
<1> HIDE DEF d, m
<1>2. ~(d >= q + 1)
  <2> SUFFICES ASSUME d >= q + 1 PROVE FALSE
    OBVIOUS
  <2>1. k * d >= k * (q + 1)
    BY <1>1
  <2> QED BY <1>1, <2>1
<1>3. ~(d <= q - 1)
  <2> SUFFICES ASSUME d <= q - 1 PROVE FALSE
    OBVIOUS
  <2>1. k * d <= k * (q - 1)
    BY <1>1
  <2> QED BY <1>1, <2>1
<1>4. d = q
  BY <1>1, <1>2, <1>3
<1>5. m = r
  BY <1>1, <1>4
<1> QED BY <1>4, <1>5 DEF d, m

\* The next sector.
LEMMA AfterIs ==
  ASSUME Assumptions, NEW s \in Sectors
  PROVE  After(s) = (IF s + 1 = NumSectors THEN 0 ELSE s + 1) /\ After(s) \in Sectors
<1>1. NumSectors \in Nat \ {0} /\ s \in Nat /\ s < NumSectors
  BY DEF Assumptions, GeometryAssumption, Sectors
<1>2. CASE s + 1 = NumSectors
  <2>1. (1 * NumSectors + 0) % NumSectors = 0
    BY <1>1, Quotient
  <2> QED BY <1>1, <1>2, <2>1 DEF After, Sectors
<1>3. CASE s + 1 # NumSectors
  <2>1. (0 * NumSectors + (s + 1)) % NumSectors = s + 1
    <3>1. s + 1 \in 0..(NumSectors - 1)
      BY <1>1, <1>3
    <3> QED BY <1>1, <3>1, Quotient
  <2> QED BY <1>1, <1>3, <2>1 DEF After, Sectors
<1> QED BY <1>2, <1>3

-----------------------------------------------------------------------------
(* Offsets. *)

\* Where the next entry goes when the head is at an offset.
PlaceSector(o) == LET s == IF SectorOf(o) >= NumSectors THEN 0 ELSE SectorOf(o)
                      i == IF SectorOf(o) >= NumSectors THEN 0 ELSE IndexOf(o)
                  IN  IF i >= PerSector THEN After(s) ELSE s
PlaceIndex(o)  == IF SectorOf(o) >= NumSectors \/ IndexOf(o) >= PerSector THEN 0 ELSE IndexOf(o)

\* The offset of an entry gives back its sector and its place in it.
LEMMA OffsetOf ==
  ASSUME Assumptions, NEW s \in Nat, NEW i \in Nat, i < PerSector \/ (i = PerSector /\ Remainder = 1)
  PROVE  /\ ToOffset(s, i) \in Nat
         /\ SectorOf(ToOffset(s, i)) = s
         /\ IndexOf(ToOffset(s, i)) = i
<1>1. /\ PerSector \in Nat \ {0} /\ Remainder \in {0, 1}
      /\ SectorSize = PerSector * 2 + Remainder /\ SectorSize \in Nat \ {0}
  BY DEF Assumptions, GeometryAssumption, SectorSize, EntrySize
<1>2. ToOffset(s, i) = s * SectorSize + i * 2
  BY DEF ToOffset, EntrySize
<1>3. i * 2 \in 0..(SectorSize - 1)
  BY <1>1
<1> DEFINE k == SectorSize
           r == i * 2
<1>a. k \in Nat \ {0} /\ r \in 0..(k - 1)
  BY <1>1, <1>3
<1> HIDE DEF k, r
<1>4. (s * k + r) \div k = s
  BY <1>a, Quotient
<1>5. SectorOf(ToOffset(s, i)) = s
  BY <1>2, <1>4 DEF SectorOf, k, r
<1>6. s * SectorSize \in Nat
  BY <1>1
<1>7. IndexOf(ToOffset(s, i)) = (i * 2) \div 2
  <2>1. ToOffset(s, i) - s * SectorSize = i * 2
    BY <1>2, <1>6
  <2> QED BY <1>5, <2>1 DEF IndexOf, EntrySize
<1>8. (i * 2 + 0) \div 2 = i
  BY Quotient
<1> QED BY <1>2, <1>5, <1>6, <1>7, <1>8

\* The end of a sector without a remainder is the start of the next one.
LEMMA EndOfSector ==
  ASSUME Assumptions, NEW s \in Nat, Remainder = 0
  PROVE  ToOffset(s, PerSector) = ToOffset(s + 1, 0)
<1>1. PerSector \in Nat \ {0} /\ SectorSize = PerSector * 2
  BY DEF Assumptions, GeometryAssumption, SectorSize, EntrySize
<1>2. (s + 1) * SectorSize = s * SectorSize + SectorSize
  BY <1>1
<1> QED BY <1>1, <1>2 DEF ToOffset, EntrySize

\* Behind the last entry of a sector the next place is the first of the next sector.
LEMMA PlaceIs ==
  ASSUME Assumptions, NEW s \in Sectors, NEW i \in 0..PerSector
  PROVE  /\ PlaceSector(ToOffset(s, i)) = IF i < PerSector THEN s ELSE After(s)
         /\ PlaceIndex(ToOffset(s, i)) = IF i < PerSector THEN i ELSE 0
<1>1. /\ PerSector \in Nat \ {0} /\ Remainder \in {0, 1} /\ NumSectors \in Nat \ {0}
      /\ s \in Nat /\ s < NumSectors /\ i \in Nat
  BY DEF Assumptions, GeometryAssumption, Sectors
<1>2. CASE i < PerSector \/ Remainder = 1
  <2>1. SectorOf(ToOffset(s, i)) = s /\ IndexOf(ToOffset(s, i)) = i
    BY <1>1, <1>2, OffsetOf
  <2> QED BY <1>1, <2>1 DEF PlaceSector, PlaceIndex
<1>3. CASE i = PerSector /\ Remainder = 0
  <2>1. ToOffset(s, i) = ToOffset(s + 1, 0)
    BY <1>1, <1>3, EndOfSector
  <2>2. SectorOf(ToOffset(s + 1, 0)) = s + 1 /\ IndexOf(ToOffset(s + 1, 0)) = 0
    BY <1>1, OffsetOf
  <2>3. After(s) = IF s + 1 = NumSectors THEN 0 ELSE s + 1
    BY AfterIs
  <2> QED BY <1>1, <1>3, <2>1, <2>2, <2>3 DEF PlaceSector, PlaceIndex
<1> QED BY <1>1, <1>2, <1>3

\* The log starts at offset 0.
LEMMA OffsetOfZero ==
  ASSUME Assumptions
  PROVE  0 = ToOffset(0, 0) /\ 0 \in Offsets
<1>1. PerSector \in Nat \ {0} /\ Remainder \in {0, 1} /\ NumSectors \in Nat \ {0} /\ SectorSize \in Nat
  BY DEF Assumptions, GeometryAssumption, SectorSize, EntrySize
<1>2. NumSectors * SectorSize \in Nat
  BY <1>1
<1> QED BY <1>1, <1>2 DEF ToOffset, EntrySize, Offsets

\* Offsets of entries lie in the log.
LEMMA OffsetInLog ==
  ASSUME Assumptions, NEW s \in Sectors, NEW i \in 0..PerSector
  PROVE  /\ ToOffset(s, i) \in Offsets
         /\ i < PerSector => ToOffset(s, i) + EntrySize = ToOffset(s, i + 1)
         /\ (i < PerSector \/ Remainder = 1) => ToOffset(s, i) < NumSectors * SectorSize
<1>1. /\ PerSector \in Nat \ {0} /\ Remainder \in {0, 1} /\ NumSectors \in Nat \ {0}
      /\ SectorSize = PerSector * 2 + Remainder /\ SectorSize \in Nat \ {0}
      /\ s \in Nat /\ s <= NumSectors - 1 /\ i \in Nat
  BY DEF Assumptions, GeometryAssumption, Sectors, SectorSize, EntrySize
<1>2. s * SectorSize <= (NumSectors - 1) * SectorSize /\ s * SectorSize \in Nat
  BY <1>1
<1>3. (NumSectors - 1) * SectorSize = NumSectors * SectorSize - SectorSize
      /\ NumSectors * SectorSize \in Nat
  BY <1>1
<1> QED BY <1>1, <1>2, <1>3 DEF ToOffset, EntrySize, Offsets

\* The iterator goes from entry to entry, round the end of the log.
LEMMA NextReadIs ==
  ASSUME Assumptions, NEW s \in Sectors, NEW i \in Indices
  PROVE  NextRead(ToOffset(s, i)) = IF i + 1 < PerSector THEN ToOffset(s, i + 1)
                                    ELSE ToOffset(After(s), 0)
<1>1. /\ PerSector \in Nat \ {0} /\ Remainder \in {0, 1} /\ NumSectors \in Nat \ {0}
      /\ SectorSize \in Nat \ {0}
      /\ s \in Nat /\ s + 1 <= NumSectors /\ i \in Nat /\ i + 1 <= PerSector /\ i + 1 \in 0..PerSector
      /\ i \in 0..PerSector
  BY DEF Assumptions, GeometryAssumption, Sectors, SectorSize, EntrySize, Indices
<1> DEFINE n == ToOffset(s, i + 1)
<1>2. ToOffset(s, i) + EntrySize = n
  BY <1>1, OffsetInLog
<1>3. NextRead(ToOffset(s, i)) = IF n >= NumSectors * SectorSize THEN 0
                                 ELSE IF IndexOf(n) >= PerSector THEN After(SectorOf(n)) * SectorSize
                                 ELSE n
  BY <1>2 DEF NextRead
<1> HIDE DEF n
<1>4. CASE i + 1 < PerSector \/ Remainder = 1
  <2>1. SectorOf(n) = s /\ IndexOf(n) = i + 1
    BY <1>1, <1>4, OffsetOf DEF n
  <2>2. n < NumSectors * SectorSize /\ n \in Nat
    BY <1>1, <1>4, OffsetInLog DEF n, Offsets
  <2>3. ToOffset(After(s), 0) = After(s) * SectorSize
    <3>1. After(s) * SectorSize \in Int
      BY <1>1, AfterIs DEF Sectors
    <3> QED BY <3>1 DEF ToOffset, EntrySize
  <2>4. NumSectors * SectorSize \in Nat
    BY <1>1
  <2> QED BY <1>1, <1>3, <2>1, <2>2, <2>3, <2>4 DEF n
<1>5. CASE i + 1 = PerSector /\ Remainder = 0
  <2>1. n = ToOffset(s + 1, 0)
    BY <1>1, <1>5, EndOfSector DEF n
  <2>2. SectorOf(n) = s + 1 /\ IndexOf(n) = 0
    BY <1>1, <2>1, OffsetOf
  <2>3. n = (s + 1) * SectorSize /\ n \in Nat
    <3>1. (s + 1) * SectorSize \in Nat
      BY <1>1
    <3> QED BY <2>1, <3>1 DEF ToOffset, EntrySize
  <2>4. After(s) = IF s + 1 = NumSectors THEN 0 ELSE s + 1
    BY AfterIs
  <2>5. CASE s + 1 = NumSectors
    <3>1. ToOffset(After(s), 0) = 0
      BY <1>1, <2>4, <2>5 DEF ToOffset, EntrySize
    <3> QED BY <1>1, <1>3, <1>5, <2>3, <2>5, <3>1
  <2>6. CASE s + 1 # NumSectors
    <3>1. ~(n >= NumSectors * SectorSize)
      <4>1. s + 2 <= NumSectors
        BY <1>1, <2>6
      <4>2. (s + 2) * SectorSize <= NumSectors * SectorSize
        BY <1>1, <4>1
      <4>3. (s + 2) * SectorSize = (s + 1) * SectorSize + SectorSize
        BY <1>1
      <4> QED BY <1>1, <2>3, <4>2, <4>3
    <3> QED BY <1>1, <1>3, <1>5, <2>1, <2>2, <2>4, <2>6, <3>1
  <2> QED BY <2>5, <2>6
<1> QED BY <1>1, <1>4, <1>5

-----------------------------------------------------------------------------
(* The inductive invariant: every sector is filled from its start, some sector *)
(* is not full, and what is ahead of the head is erased.                     *)

FlashType == flash \in [Sectors -> [Indices -> 0..MaxWrites]]
Solo == NumSectors = 1 /\ PerSector = 1
Blank(s) == \A i \in Indices : flash[s][i] = Erased
Packed == \A s \in Sectors : \A i, j \in Indices : (j < i /\ flash[s][i] # Erased) => flash[s][j] # Erased
IsSlot(o) == \E s \in Sectors, i \in Indices : o = ToOffset(s, i)

FlashInv ==
  /\ Packed
  /\ Solo \/ \E s \in Sectors : flash[s][PerSector - 1] = Erased
  /\ mode = "format" => \A s \in Sectors : s < erasing => Blank(s)

\* The next entry goes to place w, j: the sector is filled up to there, and erased from
\* there on unless programming failed there; the next sector is erased in time.
ReadyAt(w, j) ==
  /\ \A i \in Indices : /\ i < j => flash[w][i] # Erased
                        /\ i > j => flash[w][i] = Erased
  /\ flash[w][j] \in {Erased} \cup failed \/ (Solo /\ mode = "ready")
  /\ (j = PerSector - 1 /\ (mode = "prepared" \/ (~Solo /\ flash[w][j] # Erased)))
       => Blank(After(w))

HeadInv ==
  /\ \E s \in Sectors, i \in 0..PerSector : head = ToOffset(s, i)
  /\ ReadyAt(WriteSector, WriteIndex)
  /\ mode = "prepared" => total < MaxWrites /\ \E s \in Sectors, i \in Indices : head = ToOffset(s, i)

WriteInv == TypeOK /\ FlashInv /\ (Mounted => HeadInv) /\ IsSlot(read)

-----------------------------------------------------------------------------
(* What errlog_mount finds. *)

\* A sector holds entries up to some place, and nothing behind.
FilledTo(s, k) == \A i \in Indices : flash[s][i] # Erased <=> i < k

\* What the assumptions say of the geometry.
LEMMA Geometry ==
  ASSUME Assumptions
  PROVE  /\ PerSector \in Nat \ {0} /\ Remainder \in {0, 1} /\ NumSectors \in Nat \ {0}
         /\ Sectors = 0..(NumSectors - 1) /\ Indices = 0..(PerSector - 1)
         /\ 0 \in Sectors /\ 0 \in Indices /\ PerSector - 1 \in Indices
         /\ MaxWrites \in Nat /\ MaxFailures \in Nat /\ Erased = 0 /\ EntrySize = 2
BY DEF Assumptions, GeometryAssumption, BoundAssumption, Sectors, Indices, Erased, EntrySize

\* A packed sector is filled up to some place and erased behind it.
LEMMA Filled ==
  ASSUME Assumptions, FlashType, Packed, NEW s \in Sectors
  PROVE  \E k \in 0..PerSector : FilledTo(s, k)
<1> DEFINE S == {k \in 0..PerSector : k = PerSector \/ flash[s][k] = Erased}
<1>1. S \in SUBSET Nat /\ S # {}
  BY Geometry
<1>2. PICK m \in S : \A n \in S : m <= n
  BY <1>1, Least
<1>3. ASSUME NEW i \in Indices PROVE flash[s][i] # Erased <=> i < m
  <2>1. CASE i < m
    BY <1>2, <2>1, Geometry
  <2>2. CASE i >= m
    <3>1. m \in Indices /\ flash[s][m] = Erased
      BY <1>2, <2>2, Geometry
    <3>2. m < i => flash[s][i] = Erased
      BY <3>1 DEF Packed
    <3> QED BY <2>2, <3>1, <3>2, Geometry
  <2> QED BY <1>2, <2>1, <2>2, Geometry
<1> QED BY <1>2, <1>3 DEF FilledTo

\* find_last_entry counts the entries a sector starts with.
LEMMA LastEntryIs ==
  ASSUME Assumptions, NEW s \in Sectors, NEW k \in 0..PerSector, FilledTo(s, k)
  PROVE  LastEntry(s) = k - 1
<1>1. {i \in Indices : \A j \in 0..i : flash[s][j] # Erased} = 0..(k - 1)
  <2>1. ASSUME NEW i \in Indices, \A j \in 0..i : flash[s][j] # Erased PROVE i \in 0..(k - 1)
    BY <2>1, Geometry DEF FilledTo
  <2>2. ASSUME NEW i \in 0..(k - 1) PROVE i \in Indices /\ \A j \in 0..i : flash[s][j] # Erased
    BY SMTT(30), <2>2, Geometry DEF FilledTo
  <2> QED BY <2>1, <2>2
<1>2. Cardinality(0..(k - 1)) = k
  BY FS_Interval, Geometry
<1> QED BY <1>1, <1>2, Geometry DEF LastEntry

\* Lowest is the minimum of a set of sectors that is not empty.
LEMMA LowestIs ==
  ASSUME Assumptions, NEW S \in SUBSET Sectors, S # {}
  PROVE  Lowest(S) \in S /\ \A t \in S : Lowest(S) <= t
<1>1. \E m \in S : \A n \in S : m <= n
  BY SMTT(30), Least, Geometry
<1> QED BY <1>1 DEF Lowest

\* find_tail_sector finds a sector.
LEMMA FindTailIs ==
  ASSUME Assumptions, NEW h, SectorOf(h) \in Sectors
  PROVE  FindTail(h) \in Sectors
<1> DEFINE used == {d \in 1..(NumSectors - 1) : flash[(SectorOf(h) + d) % NumSectors][0] # Erased}
           least == CHOOSE d \in used : \A e \in used : d <= e
<1>1. CASE used = {}
  BY <1>1 DEF FindTail
<1>2. CASE used # {}
  <2>1. used \in SUBSET Nat
    BY Geometry
  <2>2. \E d \in used : \A e \in used : d <= e
    BY <1>2, <2>1, Least
  <2>3. least \in used
    BY <2>2
  <2> HIDE DEF least
  <2>4. SectorOf(h) \in Nat /\ least \in Nat
    BY <2>1, <2>3, Geometry
  <2> HIDE DEF used
  <2>5. (SectorOf(h) + least) % NumSectors \in Sectors
    BY <2>4, Geometry
  <2>6. FindTail(h) = (SectorOf(h) + least) % NumSectors
    BY <1>2 DEF FindTail, least, used
  <2> QED BY <2>5, <2>6
<1> QED BY <1>1, <1>2

\* Where the next entry goes is the place of head.
LEMMA PlaceOfHead ==
  /\ WriteSector = PlaceSector(head) /\ WriteIndex = PlaceIndex(head)
  /\ WriteSector' = PlaceSector(head') /\ WriteIndex' = PlaceIndex(head')
BY DEF WriteSector, WriteIndex, PlaceSector, PlaceIndex

\* The head errlog_mount finds is behind the entries of a sector that is not full.
LEMMA MountFinds ==
  ASSUME Assumptions, FlashType, FlashInv, Mount
  PROVE  /\ latest' \in Offsets /\ tail' \in Sectors
         /\ \E s \in Sectors, k \in 0..PerSector :
              /\ head' = ToOffset(s, k) /\ FilledTo(s, k) /\ (k = PerSector => Solo)
              /\ \/ NumSectors = 1 \/ s \in Partial \/ (s = 0 /\ InUse = {})
                 \/ (Partial = {} /\ InUse # {} /\ s = Lowest(Sectors \ InUse) /\ s \notin InUse)
<1>0. /\ 0 \in Offsets /\ Packed /\ ToOffset(0, 0) = 0
      /\ \A s \in Sectors : ToOffset(s, 0) = s * SectorSize /\ ToOffset(s, 0) \in Offsets
  <2>1. \A s \in Sectors : ToOffset(s, 0) = s * SectorSize
    <3> TAKE s \in Sectors
    <3>1. s * SectorSize \in Int
      BY Geometry DEF SectorSize
    <3> QED BY <3>1 DEF ToOffset, EntrySize
  <2>2. \A s \in Sectors : ToOffset(s, 0) \in Offsets
    BY OffsetInLog, Geometry
  <2>3. ToOffset(0, 0) = 0
    BY Geometry DEF ToOffset, EntrySize, SectorSize
  <2> QED BY <2>1, <2>2, <2>3, Geometry DEF FlashInv
<1>1. CASE NumSectors = 1
  <2>1. MountSingle
    BY <1>1 DEF Mount
  <2>2. PICK k \in 0..PerSector : FilledTo(0, k)
    BY <1>0, Filled, Geometry
  <2>3. LastEntry(0) = k - 1
    BY <2>2, LastEntryIs, Geometry
  <2>4. CASE k = 0
    <3>1. head' = 0 /\ latest' = 0 /\ tail' = 0
      BY <2>1, <2>3, <2>4 DEF MountSingle
    <3>2. head' = ToOffset(0, 0) /\ FilledTo(0, 0) /\ (0 = PerSector => Solo)
      BY <1>0, <2>2, <2>4, <3>1, Geometry
    <3>3. 0 \in Sectors /\ 0 \in 0..PerSector
      BY Geometry
    <3> QED BY <1>0, <1>1, <3>1, <3>2, <3>3
  <2>5. CASE k > 0
    <3>1. k - 1 \in 0..PerSector /\ k - 1 < PerSector
      BY <2>5, Geometry
    <3>2. ToOffset(0, k - 1) \in Offsets /\ ToOffset(0, k - 1) + EntrySize = ToOffset(0, k)
      <4>1. ToOffset(0, k - 1) \in Offsets /\ ToOffset(0, k - 1) + EntrySize = ToOffset(0, (k - 1) + 1)
        BY <3>1, OffsetInLog, Geometry
      <4>2. (k - 1) + 1 = k
        BY Geometry
      <4> QED BY <4>1, <4>2
    <3>3. k = PerSector => Solo
      BY <1>1, <2>2, Geometry DEF FlashInv, FilledTo
    <3>4. head' = ToOffset(0, k) /\ latest' \in Offsets /\ tail' = 0
      BY <2>1, <2>3, <2>5, <3>2, Geometry DEF MountSingle
    <3> QED BY <1>1, <2>2, <3>3, <3>4, Geometry
  <2>6. k = 0 \/ k > 0
    BY <2>2, Geometry
  <2> QED BY <2>4, <2>5, <2>6
<1>2. CASE NumSectors # 1 /\ Partial # {}
  <2>1. MountPartial
    BY <1>2 DEF Mount
  <2> DEFINE s == Lowest(Partial)
  <2>2. s \in Partial
    <3>1. Partial \in SUBSET Sectors
      BY DEF Partial, InUse
    <3> QED BY <1>2, <3>1, LowestIs
  <2>3. s \in Sectors /\ flash[s][0] # Erased /\ flash[s][PerSector - 1] = Erased
    BY <2>2 DEF Partial, InUse
  <2>4. latest' = ToOffset(s, LastEntry(s)) /\ head' = ToOffset(s, LastEntry(s)) + EntrySize
        /\ tail' = FindTail(ToOffset(s, LastEntry(s)) + EntrySize)
    BY <2>1 DEF MountPartial
  <2> HIDE DEF s
  <2>5. PICK k \in 0..PerSector : FilledTo(s, k)
    BY <1>0, <2>3, Filled
  <2>6. LastEntry(s) = k - 1
    BY <2>3, <2>5, LastEntryIs
  <2>7. 0 < k /\ k < PerSector /\ k - 1 \in 0..PerSector /\ k \in Nat
    BY <2>3, <2>5, Geometry DEF FilledTo
  <2>8. ToOffset(s, k - 1) \in Offsets /\ ToOffset(s, k - 1) + EntrySize = ToOffset(s, k)
    <3>1. ToOffset(s, k - 1) \in Offsets /\ ToOffset(s, k - 1) + EntrySize = ToOffset(s, (k - 1) + 1)
      <4>1. k - 1 < PerSector
        BY <2>7, Geometry
      <4> QED BY <2>3, <2>7, <4>1, OffsetInLog
    <3>2. (k - 1) + 1 = k
      BY <2>7
    <3> QED BY <3>1, <3>2
  <2>9. SectorOf(ToOffset(s, k)) = s
    BY <2>3, <2>7, OffsetOf, Geometry
  <2>10. tail' \in Sectors
    BY <2>3, <2>4, <2>6, <2>8, <2>9, FindTailIs
  <2>11. head' = ToOffset(s, k) /\ latest' \in Offsets /\ ~(k = PerSector)
    BY <2>4, <2>6, <2>7, <2>8, Geometry
  <2> QED BY <2>2, <2>3, <2>5, <2>10, <2>11
<1>3. CASE NumSectors # 1 /\ Partial = {} /\ InUse = {}
  <2>1. head' = 0 /\ tail' = 0 /\ latest' = 0
    BY <1>3 DEF Mount, MountEmpty
  <2>2. PICK k \in 0..PerSector : FilledTo(0, k)
    BY <1>0, Filled, Geometry
  <2>3. k = 0
    BY <1>3, <2>2, Geometry DEF InUse, FilledTo
  <2>4. head' = ToOffset(0, 0) /\ FilledTo(0, 0) /\ (0 = PerSector => Solo)
    BY <1>0, <2>1, <2>2, <2>3, Geometry
  <2>5. 0 \in Sectors /\ 0 \in 0..PerSector
    BY Geometry
  <2> QED BY <1>0, <1>3, <2>1, <2>4, <2>5
<1>4. CASE NumSectors # 1 /\ Partial = {} /\ InUse # {}
  <2>1. MountOnBound
    BY <1>4 DEF Mount
  <2>2. Sectors \ InUse # {}
    BY <1>4 DEF FlashInv, Solo, Partial
  <2> DEFINE f == Lowest(Sectors \ InUse)
             l == (f + NumSectors - 1) % NumSectors
  <2>3. f \in Sectors \ InUse
    BY <2>2, LowestIs
  <2>4. latest' = l * SectorSize /\ head' = f * SectorSize /\ tail' = FindTail(f * SectorSize)
    BY <2>1, <2>2 DEF MountOnBound
  <2>5. l \in Sectors
    <3> HIDE DEF f
    <3> QED BY <2>3, Geometry
  <2>a. f = Lowest(Sectors \ InUse)
    OBVIOUS
  <2> HIDE DEF f, l
  <2>6. PICK k \in 0..PerSector : FilledTo(f, k)
    BY <1>0, <2>3, Filled
  <2>7. k = 0
    BY <2>3, <2>6, Geometry DEF InUse, FilledTo
  <2>8. SectorOf(ToOffset(f, 0)) = f
    BY <2>3, OffsetOf, Geometry
  <2>9. tail' \in Sectors
    BY <1>0, <2>3, <2>4, <2>8, FindTailIs
  <2>10. head' = ToOffset(f, 0) /\ latest' \in Offsets /\ FilledTo(f, 0) /\ ~(0 = PerSector) /\ 0 \in 0..PerSector
    BY <1>0, <2>3, <2>4, <2>5, <2>6, <2>7, Geometry
  <2> QED BY <1>4, <2>3, <2>9, <2>10, <2>a
<1> QED BY <1>1, <1>2, <1>3, <1>4

-----------------------------------------------------------------------------
(* What a write does. *)

\* The place the next entry goes to is one for an entry.
LEMMA WritePlace ==
  ASSUME Assumptions, HeadInv
  PROVE  /\ WriteSector \in Sectors /\ WriteIndex \in Indices
         /\ mode = "prepared" => head = ToOffset(WriteSector, WriteIndex)
<1>1. PICK s \in Sectors, i \in 0..PerSector : head = ToOffset(s, i)
  BY DEF HeadInv
<1>2. /\ WriteSector = IF i < PerSector THEN s ELSE After(s)
      /\ WriteIndex = IF i < PerSector THEN i ELSE 0
  BY <1>1, PlaceIs, PlaceOfHead
<1>3. WriteSector \in Sectors /\ WriteIndex \in Indices
  BY <1>1, <1>2, AfterIs, Geometry
<1>4. ASSUME mode = "prepared" PROVE head = ToOffset(WriteSector, WriteIndex)
  <2>1. PICK t \in Sectors, j \in Indices : head = ToOffset(t, j)
    BY <1>4 DEF HeadInv
  <2>2. j \in 0..PerSector /\ j < PerSector
    BY Geometry
  <2>3. WriteSector = t /\ WriteIndex = j
    BY <2>1, <2>2, PlaceIs, PlaceOfHead
  <2> QED BY <2>1, <2>3
<1> QED BY <1>3, <1>4

\* One slot of the flash is programmed.
LEMMA ProgrammedIs ==
  ASSUME Assumptions, FlashType, NEW s \in Sectors, NEW i \in Indices, head = ToOffset(s, i),
         total \in 0..MaxWrites, total < MaxWrites
  PROVE  /\ Programmed \in [Sectors -> [Indices -> 0..MaxWrites]]
         /\ Programmed[s][i] = total + 1
         /\ \A t \in Sectors, j \in Indices : t # s \/ j # i => Programmed[t][j] = flash[t][j]
<1>1. SectorOf(head) = s /\ IndexOf(head) = i
  BY OffsetOf, Geometry
<1>2. Programmed = [flash EXCEPT ![s][i] = total + 1]
  BY <1>1 DEF Programmed
<1>3. total + 1 \in 0..MaxWrites
  BY Geometry
<1> QED BY <1>2, <1>3 DEF FlashType

\* The next sector is another one, unless there is one only.
LEMMA AfterIsOther ==
  ASSUME Assumptions, NEW s \in Sectors
  PROVE  NumSectors # 1 => After(s) # s
BY AfterIs, Geometry

\* An entry in its place leaves every sector filled from its start, and one not full.
LEMMA ProgrammedKeeps ==
  ASSUME Assumptions, TypeOK, FlashInv, HeadInv, mode = "prepared", flash' = Programmed
  PROVE  /\ FlashType' /\ Packed'
         /\ Solo \/ \E s \in Sectors : flash'[s][PerSector - 1] = Erased
         /\ \A t \in Sectors, j \in Indices : t # WriteSector \/ j # WriteIndex
              => flash'[t][j] = flash[t][j]
         /\ flash'[WriteSector][WriteIndex] = total + 1
         /\ WriteIndex = PerSector - 1 => \/ Solo
                                          \/ /\ After(WriteSector) # WriteSector
                                             /\ \A i \in Indices : flash'[After(WriteSector)][i] = Erased
<1> DEFINE w == WriteSector
           j == WriteIndex
<1>1. w \in Sectors /\ j \in Indices /\ head = ToOffset(w, j) /\ total < MaxWrites /\ total \in 0..MaxWrites
      /\ FlashType /\ Packed
  BY WritePlace DEF HeadInv, TypeOK, FlashType, FlashInv
<1>2. ReadyAt(w, j)
  BY DEF HeadInv
<1> HIDE DEF w, j
<1>3. /\ FlashType'
      /\ flash'[w][j] = total + 1
      /\ \A t \in Sectors, i \in Indices : t # w \/ i # j => flash'[t][i] = flash[t][i]
  BY <1>1, ProgrammedIs DEF FlashType
<1>4. total + 1 # Erased /\ After(w) \in Sectors
  BY <1>1, Geometry, AfterIs
<1>5. Packed'
  <2> SUFFICES ASSUME NEW s \in Sectors, NEW i \in Indices, NEW k \in Indices, k < i, flash'[s][i] # Erased
               PROVE  flash'[s][k] # Erased
    BY DEF Packed
  <2>1. CASE s = w /\ i >= j
    <3>1. i = j
      BY SMTT(30), <1>1, <1>2, <1>3, <2>1, Geometry DEF ReadyAt
    <3>2. flash[w][k] # Erased
      BY <1>2, <3>1 DEF ReadyAt
    <3> QED BY <1>1, <1>3, <2>1, <3>1, <3>2, Geometry
  <2>2. CASE s # w \/ i < j
    <3>1. flash[s][i] # Erased
      BY <1>1, <1>3, <2>2, Geometry
    <3>2. flash[s][k] # Erased
      BY <1>1, <3>1 DEF Packed
    <3> QED BY <1>1, <1>3, <2>2, <3>2, Geometry
  <2> QED BY <1>1, <2>1, <2>2, Geometry
<1>6. j = PerSector - 1 => \/ Solo
                           \/ /\ After(w) # w
                              /\ \A i \in Indices : flash'[After(w)][i] = Erased
  <2> SUFFICES ASSUME j = PerSector - 1, ~Solo
               PROVE  After(w) # w /\ \A i \in Indices : flash'[After(w)][i] = Erased
    OBVIOUS
  <2>1. Blank(After(w))
    BY <1>2 DEF ReadyAt
  <2>2. NumSectors # 1
    <3> SUFFICES ASSUME NumSectors = 1 PROVE FALSE
      OBVIOUS
    <3>1. After(w) = w
      BY <1>1, AfterIs, Geometry
    <3>2. flash[w][0] = Erased /\ 0 < j
      BY <2>1, <3>1, Geometry DEF Blank, Solo
    <3> QED BY <1>2, <3>2, Geometry DEF ReadyAt
  <2>3. After(w) # w
    BY <1>1, <2>2, AfterIsOther
  <2> QED BY <1>3, <1>4, <2>1, <2>3 DEF Blank
<1>7. Solo \/ \E s \in Sectors : flash'[s][PerSector - 1] = Erased
  <2>1. CASE j = PerSector - 1
    BY <1>4, <1>6, <2>1, Geometry
  <2>2. CASE j # PerSector - 1
    <3>1. flash[w][PerSector - 1] = Erased
      BY <1>1, <1>2, <2>2, Geometry DEF ReadyAt
    <3> QED BY <1>1, <1>3, <2>2, <3>1, Geometry
  <2> QED BY <2>1, <2>2
<1> QED BY <1>3, <1>5, <1>6, <1>7 DEF w, j

\* A head at a place that is ready.
LEMMA HeadIs ==
  ASSUME Assumptions, NEW s \in Sectors, NEW k \in 0..PerSector, head' = ToOffset(s, k),
         mode' = "prepared" => k < PerSector /\ total' < MaxWrites,
         k < PerSector => ReadyAt(s, k)', k = PerSector => ReadyAt(After(s), 0)'
  PROVE  HeadInv'
<1>1. WriteSector' = (IF k < PerSector THEN s ELSE After(s)) /\ WriteIndex' = (IF k < PerSector THEN k ELSE 0)
  BY PlaceIs, PlaceOfHead
<1>2. ReadyAt(WriteSector, WriteIndex)'
  <2>1. CASE k < PerSector
    BY <1>1, <2>1 DEF ReadyAt, Blank
  <2>2. CASE ~(k < PerSector)
    <3>1. k = PerSector
      BY <2>2, Geometry
    <3> QED BY <1>1, <2>2, <3>1 DEF ReadyAt, Blank
  <2> QED BY <2>1, <2>2
<1>3. ASSUME mode' = "prepared"
      PROVE  total' < MaxWrites /\ \E t \in Sectors, i \in Indices : head' = ToOffset(t, i)
  <2>1. k \in Indices
    BY <1>3, Geometry
  <2> QED BY <1>3, <2>1
<1> QED BY <1>2, <1>3 DEF HeadInv

\* Each step keeps the invariant of what is written.
LEMMA MountKeeps ==
  ASSUME Assumptions, WriteInv, Mount
  PROVE  WriteInv'
<1>1. FlashType /\ FlashInv /\ TypeOK
  BY DEF WriteInv, TypeOK, FlashType
<1>2. latest' \in Offsets /\ tail' \in Sectors
  BY <1>1, MountFinds
<1>3. PICK s \in Sectors, k \in 0..PerSector :
        head' = ToOffset(s, k) /\ FilledTo(s, k) /\ (k = PerSector => Solo)
  BY <1>1, MountFinds
<1>4. UNCHANGED <<flash, iter, erasing, past>> /\ mode' = "ready" /\ mode = "off"
  BY DEF Mount
<1>5. head' \in Offsets
  BY <1>3, OffsetInLog
<1>6. TypeOK'
  BY <1>1, <1>2, <1>4, <1>5 DEF TypeOK, iter, past
<1>7. FlashInv'
  BY <1>1, <1>4 DEF FlashInv, Packed
<1>8. ASSUME k < PerSector PROVE ReadyAt(s, k)'
  <2>1. k \in Indices
    BY <1>8, Geometry
  <2> QED BY <1>3, <1>4, <2>1, Geometry DEF ReadyAt, FilledTo
<1>9. ASSUME k = PerSector PROVE ReadyAt(After(s), 0)'
  <2>1. Solo
    BY <1>3, <1>9
  <2> QED BY <1>4, <2>1, Geometry DEF ReadyAt, Solo
<1>10. HeadInv'
  BY <1>3, <1>4, <1>8, <1>9, HeadIs
<1>11. IsSlot(read)'
  BY <1>4 DEF WriteInv, IsSlot, iter
<1> QED BY <1>6, <1>7, <1>10, <1>11 DEF WriteInv

LEMMA PrepareKeeps ==
  ASSUME Assumptions, WriteInv, Prepare
  PROVE  WriteInv'
<1>1. FlashType /\ Packed /\ FlashInv /\ TypeOK /\ HeadInv /\ IsSlot(read)
  BY DEF WriteInv, TypeOK, FlashType, FlashInv, Prepare, Mounted
<1>a. WriteSector \in Sectors /\ WriteIndex \in Indices /\ ReadyAt(WriteSector, WriteIndex)
  BY <1>1, WritePlace DEF HeadInv
<1>b. PICK w \in Sectors, j \in Indices : w = WriteSector /\ j = WriteIndex
  BY <1>a
<1>2. w \in Sectors /\ j \in Indices /\ ReadyAt(w, j)
  BY <1>a, <1>b
<1>3. /\ mode = "ready" /\ mode' = "prepared" /\ total < MaxWrites /\ UNCHANGED <<iter, erasing, past>>
      /\ j = PerSector - 1 =>
           /\ flash' = EraseOf(After(w))
           /\ tail' = IF After(w) = tail THEN After(tail) ELSE tail
           /\ head' = IF NumSectors = 1 THEN 0 ELSE ToOffset(w, j)
           /\ latest' = IF NumSectors = 1 THEN 0 ELSE latest
      /\ j # PerSector - 1 => head' = ToOffset(w, j) /\ UNCHANGED <<flash, tail, latest>>
  BY <1>b DEF Prepare
<1>4. /\ After(w) \in Sectors /\ tail \in Sectors /\ After(tail) \in Sectors /\ tail' \in Sectors
      /\ NumSectors # 1 => After(w) # w
  <2>1. After(w) \in Sectors /\ tail \in Sectors /\ After(tail) \in Sectors
    BY <1>1, <1>2, AfterIs DEF TypeOK
  <2> QED BY <1>2, <1>3, <2>1, AfterIsOther
<1>5. /\ 0 = ToOffset(0, 0) /\ 0 \in Offsets /\ 0 \in Sectors /\ 0 \in Indices /\ 0 \in 0..PerSector
      /\ j \in 0..PerSector /\ j < PerSector /\ 0 < PerSector
  BY <1>2, Geometry, OffsetOfZero
<1>6. j = PerSector - 1 =>
        \A s \in Sectors, i \in Indices :
          flash'[s][i] = IF s = After(w) THEN Erased ELSE flash[s][i]
  BY <1>1, <1>3, <1>4 DEF EraseOf, FlashType
<1>7. ToOffset(w, j) \in Offsets
  BY <1>2, <1>5, OffsetInLog
<1>8. head' \in Offsets /\ latest' \in Offsets
  BY <1>1, <1>3, <1>5, <1>7 DEF TypeOK
<1>9. FlashType'
  <2>1. CASE j = PerSector - 1
    <3>1. flash' = [flash EXCEPT ![After(w)] = [i \in Indices |-> Erased]]
      BY <1>3, <2>1 DEF EraseOf
    <3>2. [i \in Indices |-> Erased] \in [Indices -> 0..MaxWrites]
      BY Geometry
    <3> QED BY <1>1, <3>1, <3>2 DEF FlashType
  <2> QED BY <1>1, <1>3, <2>1 DEF FlashType
<1>10. TypeOK'
  BY <1>1, <1>3, <1>4, <1>8, <1>9 DEF TypeOK, FlashType, iter, past
<1>11. FlashInv'
  <2>1. CASE j = PerSector - 1
    <3>1. Packed'
      BY <1>1, <1>6, <2>1 DEF Packed
    <3>2. flash'[After(w)][PerSector - 1] = Erased
      BY <1>4, <1>6, <2>1, Geometry
    <3> QED BY <1>3, <1>4, <3>1, <3>2 DEF FlashInv
  <2>2. CASE j # PerSector - 1
    BY <1>1, <1>3, <2>2 DEF FlashInv, Packed
  <2> QED BY <2>1, <2>2
<1>12. HeadInv'
  <2>1. CASE j = PerSector - 1 /\ NumSectors = 1
    <3>1. After(w) = 0 /\ After(0) = 0 /\ Sectors = {0}
      BY <1>2, <2>1, AfterIs, Geometry
    <3>2. \A i \in Indices : flash'[0][i] = Erased
      BY <1>5, <1>6, <2>1, <3>1
    <3>3. ReadyAt(0, 0)'
      BY <1>3, <1>5, <3>1, <3>2, Geometry DEF ReadyAt, Blank
    <3>4. head' = ToOffset(0, 0)
      BY <1>3, <1>5, <2>1
    <3>5. mode' = "prepared" => 0 < PerSector /\ total' < MaxWrites
      BY <1>3, <1>5 DEF past
    <3>6. ~(0 = PerSector)
      BY <1>5
    <3> QED BY <1>5, <3>3, <3>4, <3>5, <3>6, HeadIs
  <2>2. CASE ~(j = PerSector - 1 /\ NumSectors = 1)
    <3>1. head' = ToOffset(w, j)
      BY <1>3, <2>2
    <3>2. flash[w][j] \in {Erased} \cup failed
      <4>1. ASSUME Solo PROVE FALSE
        BY <1>2, <2>2, <4>1, Geometry DEF Solo
      <4> QED BY <1>2, <4>1 DEF ReadyAt
    <3>3. ReadyAt(w, j)'
      <4>1. CASE j = PerSector - 1
        <5>1. \A i \in Indices : flash'[w][i] = flash[w][i] /\ flash'[After(w)][i] = Erased
          BY <1>2, <1>4, <1>6, <2>2, <4>1
        <5> QED BY <1>2, <1>3, <3>2, <5>1 DEF ReadyAt, Blank, past
      <4>2. CASE j # PerSector - 1
        BY <1>2, <1>3, <3>2, <4>2 DEF ReadyAt, past
      <4> QED BY <4>1, <4>2
    <3>4. mode' = "prepared" => j < PerSector /\ total' < MaxWrites
      BY <1>3, <1>5 DEF past
    <3>5. ~(j = PerSector)
      BY <1>5
    <3> QED BY <1>2, <1>5, <3>1, <3>3, <3>4, <3>5, HeadIs
  <2> QED BY <2>1, <2>2
<1>13. IsSlot(read)'
  BY <1>1, <1>3 DEF IsSlot, iter
<1> QED BY <1>10, <1>11, <1>12, <1>13 DEF WriteInv

LEMMA ProgramKeeps ==
  ASSUME Assumptions, WriteInv, Program \/ ProgramFails
  PROVE  WriteInv'
<1>1. FlashType /\ FlashInv /\ TypeOK /\ HeadInv /\ IsSlot(read) /\ mode = "prepared" /\ total < MaxWrites
      /\ total \in 0..MaxWrites
  BY DEF WriteInv, TypeOK, FlashType, Program, ProgramFails, Mounted, HeadInv
<1>2. WriteSector \in Sectors /\ WriteIndex \in Indices /\ ReadyAt(WriteSector, WriteIndex)
      /\ head = ToOffset(WriteSector, WriteIndex)
  BY <1>1, WritePlace DEF HeadInv
<1>3. PICK w \in Sectors, j \in Indices : w = WriteSector /\ j = WriteIndex
  BY <1>2
<1>4. /\ ReadyAt(w, j) /\ head = ToOffset(w, j) /\ After(w) \in Sectors
      /\ j \in 0..PerSector /\ j < PerSector /\ j + 1 \in 0..PerSector /\ 0 \in Indices
  BY <1>2, <1>3, AfterIs, Geometry
<1>5. mode' = "ready" /\ UNCHANGED <<tail, iter, erasing, wiped, half>>
  BY DEF Program, ProgramFails, ram
<1>6. IsSlot(read)'
  BY <1>1, <1>5 DEF IsSlot, iter
<1>7. flash' = Programmed =>
        /\ FlashType' /\ FlashInv'
        /\ \A t \in Sectors, i \in Indices : t # w \/ i # j => flash'[t][i] = flash[t][i]
        /\ flash'[w][j] = total + 1
        /\ j = PerSector - 1 => \/ Solo
                                \/ /\ After(w) # w
                                   /\ \A i \in Indices : flash'[After(w)][i] = Erased
  BY <1>1, <1>3, <1>5, ProgrammedKeeps DEF FlashInv
<1>8. CASE Program
  <2>1. /\ flash' = Programmed /\ total' = total + 1 /\ latest' = head /\ head' = head + EntrySize
        /\ failed' = failed
    BY <1>8 DEF Program
  <2>2. head' = ToOffset(w, j + 1)
    BY <1>4, <2>1, OffsetInLog
  <2>3. head' \in Offsets
    BY <1>4, <2>2, OffsetInLog
  <2>4. TypeOK'
    <3>1. total' \in 0..MaxWrites /\ wiped' \in 0..total' /\ failed' \subseteq 1..total'
      BY SMTT(30), <1>1, <1>5, <2>1, Geometry DEF TypeOK
    <3>2. FlashType' /\ latest' \in Offsets /\ half' \in BOOLEAN
      BY <1>1, <1>5, <1>7, <2>1 DEF TypeOK
    <3> QED BY <1>1, <1>5, <2>3, <3>1, <3>2 DEF TypeOK, FlashType, iter
  <2>5. ASSUME j + 1 < PerSector PROVE ReadyAt(w, j + 1)'
    <3>1. j + 1 \in Indices /\ total + 1 # Erased
      BY <1>1, <2>5, Geometry
    <3>2. \A i \in Indices : i # j => flash'[w][i] = flash[w][i]
      BY <1>7, <2>1
    <3>3. \A i \in Indices : /\ i < j + 1 => flash'[w][i] # Erased
                             /\ i > j => flash'[w][i] = Erased
      BY SMTT(30), <1>4, <1>7, <2>1, <3>1, <3>2, Geometry DEF ReadyAt
    <3> QED BY <1>4, <1>5, <3>1, <3>3, Geometry DEF ReadyAt
  <2>6. ASSUME j + 1 = PerSector PROVE ReadyAt(After(w), 0)'
    <3>1. j = PerSector - 1
      BY <2>6, Geometry
    <3>2. CASE Solo
      BY <1>5, <3>2, Geometry DEF ReadyAt, Solo
    <3>3. CASE ~Solo
      <4>1. \A i \in Indices : flash'[After(w)][i] = Erased
        BY <1>7, <2>1, <3>1, <3>3
      <4> QED BY <1>4, <1>5, <4>1, Geometry DEF ReadyAt
    <3> QED BY <3>2, <3>3
  <2>7. HeadInv'
    BY <1>4, <1>5, <2>2, <2>5, <2>6, HeadIs
  <2> QED BY <1>6, <1>7, <2>1, <2>4, <2>7 DEF WriteInv
<1>9. CASE ProgramFails
  <2>1. UNCHANGED ram /\ (UNCHANGED <<flash, total, failed>> \/ (flash' = Programmed /\ total' = total + 1
                                                          /\ failed' = failed \cup {total + 1}))
    BY <1>9 DEF ProgramFails
  <2>2. TypeOK'
    <3>1. FlashType'
      BY <1>1, <1>7, <2>1 DEF FlashType
    <3>2. total' \in 0..MaxWrites /\ wiped' \in 0..total' /\ failed' \subseteq 1..total'
      <4>1. wiped' = wiped /\ wiped \in 0..total /\ failed \subseteq 1..total
        BY <1>1, <1>5 DEF TypeOK
      <4>2. CASE UNCHANGED <<flash, total, failed>>
        BY <1>1, <4>1, <4>2
      <4>3. CASE total' = total + 1 /\ failed' = failed \cup {total + 1}
        BY <1>1, <4>1, <4>3, Geometry
      <4> QED BY <2>1, <4>2, <4>3
    <3> QED BY <1>1, <1>5, <2>1, <3>1, <3>2 DEF TypeOK, FlashType, iter, ram
  <2>3. FlashInv'
    BY <1>1, <1>5, <1>7, <2>1 DEF FlashInv, Packed
  <2>4. ReadyAt(w, j)'
    <3>1. CASE UNCHANGED <<flash, total, failed>>
      BY <1>1, <1>4, <1>5, <3>1 DEF ReadyAt, Blank
    <3>2. CASE flash' = Programmed /\ total' = total + 1 /\ failed' = failed \cup {total + 1}
      <4>1. \A i \in Indices : (i < j => flash'[w][i] # Erased) /\ (i > j => flash'[w][i] = Erased)
        BY <1>4, <1>7, <3>2, Geometry DEF ReadyAt
      <4>2. flash'[w][j] \in failed'
        BY <1>7, <3>2
      <4>3. j = PerSector - 1 /\ ~Solo => \A i \in Indices : flash'[After(w)][i] = Erased
        BY <1>7, <3>2
      <4> QED BY <1>5, <4>1, <4>2, <4>3 DEF ReadyAt, Blank
    <3> QED BY <2>1, <3>1, <3>2
  <2>5. head' = ToOffset(w, j)
    BY <1>4, <2>1 DEF ram
  <2>6. ~(j = PerSector)
    BY <1>4
  <2>7. HeadInv'
    BY <1>4, <1>5, <2>4, <2>5, <2>6, HeadIs
  <2> QED BY <1>6, <2>2, <2>3, <2>7 DEF WriteInv
<1> QED BY <1>8, <1>9

LEMMA ReadKeeps ==
  ASSUME Assumptions, WriteInv, ReadInit \/ ReadNext
  PROVE  WriteInv'
<1>1. UNCHANGED <<flash, ram, mode, erasing, past>> /\ start' \in BOOLEAN
  BY DEF ReadInit, ReadNext
<1>2. TypeOK /\ FlashInv /\ HeadInv /\ IsSlot(read)
  BY DEF WriteInv, ReadInit, ReadNext
<1>3. FlashInv' /\ HeadInv'
  <2>1. WriteSector' = WriteSector /\ WriteIndex' = WriteIndex
    BY <1>1, PlaceOfHead DEF ram
  <2> QED BY <1>1, <1>2, <2>1 DEF FlashInv, Packed, Blank, HeadInv, ReadyAt, ram, past
<1>4. IsSlot(read)' /\ got' \in 0..MaxWrites
  <2>1. CASE ReadInit
    BY SMTT(30), <1>2, <2>1, Geometry DEF ReadInit, IsSlot, TypeOK
  <2>2. CASE ReadNext
    <3>1. PICK s \in Sectors, i \in Indices : read = ToOffset(s, i)
      BY <1>2 DEF IsSlot
    <3>2. SectorOf(read) = s /\ IndexOf(read) = i
      BY <3>1, OffsetOf, Geometry
    <3>3. got' \in 0..MaxWrites
      BY <1>2, <2>2, <3>2 DEF ReadNext, Slot, TypeOK
    <3>4. read' = IF i + 1 < PerSector THEN ToOffset(s, i + 1) ELSE ToOffset(After(s), 0)
      BY <2>2, <3>1, NextReadIs DEF ReadNext
    <3>5. After(s) \in Sectors /\ 0 \in Indices /\ (i + 1 < PerSector => i + 1 \in Indices)
      BY AfterIs, Geometry
    <3>6. IsSlot(read)'
      BY <3>4, <3>5 DEF IsSlot
    <3> QED BY <3>3, <3>6
  <2> QED BY <2>1, <2>2
<1>5. read' \in Offsets
  <2>1. PICK s \in Sectors, i \in Indices : read' = ToOffset(s, i)
    BY <1>4 DEF IsSlot
  <2>2. i \in 0..PerSector
    BY Geometry
  <2> QED BY <2>1, <2>2, OffsetInLog
<1>6. TypeOK'
  BY <1>1, <1>2, <1>4, <1>5 DEF TypeOK, ram, past
<1> QED BY <1>3, <1>4, <1>6 DEF WriteInv

LEMMA FormatKeeps ==
  ASSUME Assumptions, WriteInv, FormatBegin \/ FormatErase \/ FormatEnd
  PROVE  WriteInv'
<1>1. TypeOK /\ FlashType /\ FlashInv /\ IsSlot(read) /\ 0 \in Sectors /\ 0 \in Indices
      /\ NumSectors \in Nat \ {0}
  BY Geometry DEF WriteInv, TypeOK, FlashType
<1>2. CASE FormatBegin
  <2>1. UNCHANGED <<flash, ram, iter, past>> /\ mode' = "format" /\ erasing' = 0
    BY <1>2 DEF FormatBegin
  <2>2. TypeOK' /\ IsSlot(read)'
    BY <1>1, <2>1 DEF TypeOK, IsSlot, ram, iter, past
  <2>3. FlashInv'
    <3>1. \A s \in Sectors : ~(s < 0)
      BY Geometry
    <3> QED BY <1>1, <2>1, <3>1 DEF FlashInv, Packed
  <2> QED BY <2>1, <2>2, <2>3 DEF WriteInv, Mounted
<1>3. CASE FormatErase
  <2>1. /\ UNCHANGED <<ram, iter, mode, past>> /\ mode = "format" /\ erasing' = erasing + 1
        /\ erasing \in Sectors /\ flash' = EraseOf(erasing)
    BY <1>1, <1>3, Geometry DEF FormatErase, TypeOK
  <2>2. \A s \in Sectors, i \in Indices : flash'[s][i] = IF s = erasing THEN Erased ELSE flash[s][i]
    BY <1>1, <2>1 DEF EraseOf, FlashType
  <2>3. FlashType'
    <3>1. flash' = [flash EXCEPT ![erasing] = [i \in Indices |-> Erased]]
      BY <2>1 DEF EraseOf
    <3>2. [i \in Indices |-> Erased] \in [Indices -> 0..MaxWrites]
      BY Geometry
    <3> QED BY <1>1, <2>1, <3>1, <3>2 DEF FlashType
  <2>4. TypeOK' /\ IsSlot(read)'
    <3>1. erasing' \in 0..NumSectors
      BY <2>1, Geometry
    <3> QED BY <1>1, <2>1, <2>3, <3>1 DEF TypeOK, IsSlot, FlashType, ram, iter, past
  <2>5. FlashInv'
    <3>1. Packed'
      BY <1>1, <2>2 DEF FlashInv, Packed
    <3>2. flash'[erasing][PerSector - 1] = Erased
      BY <2>1, <2>2, Geometry
    <3>3. \A s \in Sectors : s < erasing' => \A i \in Indices : flash'[s][i] = Erased
      BY <1>1, <2>1, <2>2, Geometry DEF FlashInv, Blank
    <3> QED BY <2>1, <3>1, <3>2, <3>3 DEF FlashInv, Blank
  <2> QED BY <2>1, <2>4, <2>5 DEF WriteInv, Mounted
<1>4. CASE FormatEnd
  <2>1. /\ mode = "format" /\ erasing = NumSectors /\ mode' = "ready" /\ head' = 0 /\ latest' = 0 /\ tail' = 0
        /\ read' = 0 /\ start' = TRUE /\ got' = 0 /\ erasing' = 0 /\ wiped' = total /\ half' = FALSE
        /\ UNCHANGED <<flash, total, failed>>
    BY <1>4 DEF FormatEnd
  <2>2. \A s \in Sectors, i \in Indices : flash'[s][i] = Erased
    BY <1>1, <2>1, Geometry DEF FlashInv, Blank
  <2>3. 0 = ToOffset(0, 0) /\ 0 \in Offsets
    BY OffsetOfZero
  <2>4. TypeOK' /\ IsSlot(read)'
    <3>1. erasing' \in 0..NumSectors /\ got' \in 0..MaxWrites /\ wiped' \in 0..total'
      BY <1>1, <2>1, Geometry DEF TypeOK
    <3> QED BY <1>1, <2>1, <2>3, <3>1 DEF TypeOK, IsSlot
  <2>5. FlashInv'
    BY <1>1, <2>1, <2>2, Geometry DEF FlashInv, Packed
  <2>6. ReadyAt(0, 0)'
    BY <1>1, <2>1, <2>2, Geometry DEF ReadyAt
  <2>7. HeadInv'
    <3>1. 0 \in 0..PerSector /\ 0 < PerSector /\ ~(0 = PerSector)
      BY Geometry
    <3> QED BY <1>1, <2>1, <2>3, <2>6, <3>1, HeadIs
  <2> QED BY <2>4, <2>5, <2>7 DEF WriteInv
<1> QED BY <1>2, <1>3, <1>4

LEMMA CrashKeeps ==
  ASSUME Assumptions, WriteInv, Crash
  PROVE  WriteInv'
<1>1. TypeOK /\ FlashType /\ FlashInv
  BY DEF WriteInv, TypeOK, FlashType
<1>2. /\ mode' = "off" /\ erasing' = 0 /\ latest' = 0 /\ head' = 0 /\ tail' = 0 /\ read' = 0
      /\ start' = FALSE /\ got' = 0 /\ half' \in BOOLEAN /\ UNCHANGED <<wiped, failed>>
      /\ \/ UNCHANGED <<flash, total>>
         \/ mode = "prepared" /\ flash' = Programmed /\ total' = total + 1
  BY <1>1 DEF Crash, TypeOK
<1>3. 0 = ToOffset(0, 0) /\ 0 \in Offsets
  BY OffsetOfZero
<1>4. IsSlot(read)'
  BY <1>2, <1>3, Geometry DEF IsSlot
<1>5. ASSUME mode = "prepared" PROVE HeadInv /\ total < MaxWrites
  BY <1>5 DEF WriteInv, Mounted, HeadInv
<1>6. FlashType' /\ FlashInv' /\ total' \in 0..MaxWrites /\ total' >= total
  <2>1. CASE UNCHANGED <<flash, total>>
    BY <1>1, <1>2, <2>1, Geometry DEF TypeOK, FlashType, FlashInv, Packed
  <2>2. CASE mode = "prepared" /\ flash' = Programmed /\ total' = total + 1
    <3>1. /\ FlashType' /\ Packed'
          /\ Solo \/ \E s \in Sectors : flash'[s][PerSector - 1] = Erased
      BY <1>1, <1>5, <2>2, ProgrammedKeeps
    <3> QED BY <1>1, <1>2, <1>5, <2>2, <3>1, Geometry DEF FlashInv, TypeOK
  <2> QED BY <1>2, <2>1, <2>2
<1>7. TypeOK'
  <2>1. erasing' \in 0..NumSectors /\ got' \in 0..MaxWrites /\ tail' \in Sectors
    BY <1>2, Geometry
  <2>2. wiped' \in 0..total' /\ failed' \subseteq 1..total'
    <3>1. wiped \in 0..total /\ failed \subseteq 1..total /\ total \in Nat
      BY <1>1, Geometry DEF TypeOK
    <3>2. total' \in Nat
      BY <1>6, Geometry
    <3> QED BY <1>2, <1>6, <3>1, <3>2
  <2>3. flash' \in [Sectors -> [Indices -> 0..MaxWrites]]
    BY <1>6 DEF FlashType
  <2> QED BY <1>2, <1>3, <1>6, <2>1, <2>2, <2>3 DEF TypeOK
<1> QED BY <1>2, <1>4, <1>6, <1>7 DEF WriteInv, Mounted

\* The invariant of what is written holds at the start and from step to step.
LEMMA Starts ==
  ASSUME Assumptions, Init
  PROVE  WriteInv
<1>1. 0 = ToOffset(0, 0) /\ 0 \in Offsets
  BY OffsetOfZero
<1>2. \A s \in Sectors, i \in Indices : flash[s][i] = Erased
  BY DEF Init
<1>3. TypeOK
  <2>1. flash \in [Sectors -> [Indices -> 0..MaxWrites]]
    BY Geometry DEF Init
  <2>2. 0 \in 0..NumSectors /\ 0 \in 0..MaxWrites /\ 0 \in 0..0
    BY Geometry
  <2> QED BY <1>1, <2>1, <2>2, Geometry DEF Init, TypeOK
<1>4. FlashInv /\ IsSlot(read)
  BY <1>1, <1>2, Geometry DEF Init, FlashInv, Packed, IsSlot
<1> QED BY <1>3, <1>4 DEF Init, WriteInv, Mounted

LEMMA Steps ==
  ASSUME Assumptions, WriteInv, [Next]_vars
  PROVE  WriteInv'
<1>1. CASE UNCHANGED vars
  <2>1. WriteSector' = WriteSector /\ WriteIndex' = WriteIndex
    BY <1>1, PlaceOfHead DEF vars, ram
  <2> QED BY <1>1, <2>1 DEF vars, ram, iter, past, WriteInv, TypeOK, FlashInv, Packed, Blank,
             Mounted, HeadInv, ReadyAt, IsSlot
<1> QED BY <1>1, MountKeeps, PrepareKeeps, ProgramKeeps, ReadKeeps, FormatKeeps, CrashKeeps DEF Next

\* NoEntryWrittenOver follows from the invariant.
LEMMA InvWritten ==
  ASSUME Assumptions, WriteInv
  PROVE  NoEntryWrittenOver
<1> SUFFICES ASSUME mode = "prepared" PROVE Slot(head) \in {Erased} \cup failed
  BY DEF NoEntryWrittenOver
<1>1. HeadInv
  BY DEF WriteInv, Mounted
<1>2. WriteSector \in Sectors /\ WriteIndex \in Indices /\ head = ToOffset(WriteSector, WriteIndex)
  BY <1>1, WritePlace
<1>3. PICK w \in Sectors, j \in Indices : w = WriteSector /\ j = WriteIndex
  BY <1>2
<1>4. SectorOf(head) = w /\ IndexOf(head) = j
  BY <1>2, <1>3, OffsetOf, Geometry
<1> QED BY <1>1, <1>3, <1>4 DEF HeadInv, ReadyAt, Slot

-----------------------------------------------------------------------------
(* What the log keeps: the order of its entries round the ring.              *)

\* How many sectors s is behind h.
Back(s, h) == IF s <= h THEN h - s ELSE h - s + NumSectors

Full(s) == \A i \in Indices : flash[s][i] # Erased

\* The newest entry is the n-th of sector h, n = 0 in an empty log.  All other sectors
\* are full but those after h on the first lap, and later perhaps the very next.
FirstLap(h) == \A s \in Sectors : (s < h => Full(s)) /\ (s > h => Blank(s))
Lapped(h)   == \A s \in Sectors : s = h \/ Full(s) \/ (s = After(h) /\ Blank(s))
Layout(h, n) == /\ FilledTo(h, n)
                /\ n = 0 => h = 0 /\ \A s \in Sectors : Blank(s)
                /\ FirstLap(h) \/ Lapped(h)

\* Entries get older from there backwards ...
InOrder(h) ==
  \A s, t \in Sectors : \A i, j \in Indices :
    (/\ flash[s][i] # Erased /\ flash[t][j] # Erased
     /\ Back(t, h) < Back(s, h) \/ (s = t /\ i < j)) => flash[s][i] < flash[t][j]

\* ... by at least one write each.
Ranked(h, n) ==
  \A s \in Sectors : \A i \in Indices :
    flash[s][i] # Erased => total - flash[s][i] >= Back(s, h) * PerSector + (n - 1 - i)

Ordered(h, n) == Layout(h, n) /\ InOrder(h) /\ Ranked(h, n)

\* The head is behind the newest entry, or at it if programming it failed.
HeadFollows(h, n) ==
  \/ n < PerSector /\ WriteSector = h /\ WriteIndex = n
  \/ n = PerSector /\ WriteSector = After(h) /\ WriteIndex = 0
  \/ n > 0 /\ WriteSector = h /\ WriteIndex = n - 1 /\ flash[h][n - 1] \in failed

\* The entries are what is in flash and not erased.
LEMMA EntriesAre ==
  /\ \A e : e \in Entries <=> e # Erased /\ \E s \in Sectors : \E i \in Indices : e = flash[s][i]
  /\ \A e : e \in Entries' <=> e # Erased /\ \E s \in Sectors : \E i \in Indices : e = flash'[s][i]
BY DEF Entries

\* How far a sector lies behind the one that is written.
LEMMA BackIs ==
  ASSUME Assumptions, NEW s \in Sectors, NEW h \in Sectors
  PROVE  /\ Back(s, h) \in 0..(NumSectors - 1)
         /\ Back(s, h) = 0 <=> s = h
         /\ Back(After(h), h) = NumSectors - 1
         /\ s # After(h) => Back(s, After(h)) = Back(s, h) + 1 /\ Back(s, h) < NumSectors - 1
<1>1. After(h) = (IF h + 1 = NumSectors THEN 0 ELSE h + 1) /\ After(h) \in Sectors
  BY AfterIs
<1> QED BY SMTT(30), <1>1, Geometry DEF Back

\* errlog_mount finds the place behind the newest entry.
LEMMA MountFollows ==
  ASSUME Assumptions, PerSector > 1, FlashType, FlashInv, Mount,
         NEW h \in Sectors, NEW n \in 0..PerSector, Layout(h, n)
  PROVE  \/ n < PerSector /\ head' = ToOffset(h, n)
         \/ n = PerSector /\ head' = ToOffset(After(h), 0)
<1>1. PICK s \in Sectors, k \in 0..PerSector :
        /\ head' = ToOffset(s, k) /\ FilledTo(s, k) /\ (k = PerSector => Solo)
        /\ \/ NumSectors = 1 \/ s \in Partial \/ (s = 0 /\ InUse = {})
           \/ (Partial = {} /\ InUse # {} /\ s = Lowest(Sectors \ InUse) /\ s \notin InUse)
  BY MountFinds
<1>2. FilledTo(h, n) /\ (n = 0 => h = 0 /\ \A t \in Sectors : Blank(t)) /\ (FirstLap(h) \/ Lapped(h))
  BY DEF Layout
<1>3. k < PerSector /\ ~Solo
  BY <1>1, Geometry DEF Solo
<1>4. ASSUME s = h PROVE k = n
  <2>1. \A i \in Indices : i < k <=> i < n
    BY <1>1, <1>2, <1>4 DEF FilledTo
  <2>2. ASSUME k < n PROVE FALSE
    <3>1. k \in Indices
      BY <1>3, Geometry
    <3>2. k < k
      BY <2>1, <2>2, <3>1
    <3> QED BY <3>2, Geometry
  <2>3. ASSUME n < k PROVE FALSE
    <3>1. n \in Indices
      BY <1>3, <2>3, Geometry
    <3>2. n < n
      BY <2>1, <2>3, <3>1
    <3> QED BY <3>2, Geometry
  <2> QED BY <2>2, <2>3, Geometry
<1>5. CASE NumSectors = 1
  BY <1>1, <1>3, <1>4, <1>5, Geometry
<1>6. CASE s \in Partial
  <2>1. flash[s][0] # Erased /\ flash[s][PerSector - 1] = Erased
    BY <1>6 DEF Partial, InUse
  <2>2. s = h
    BY <1>1, <1>2, <2>1, Geometry DEF FirstLap, Lapped, Full, Blank
  <2> QED BY <1>1, <1>3, <1>4, <2>2
<1>7. CASE s = 0 /\ InUse = {}
  <2>1. n = 0
    BY <1>2, <1>7, Geometry DEF InUse, FilledTo
  <2> QED BY <1>1, <1>2, <1>3, <1>4, <1>7, <2>1
<1>8. CASE NumSectors # 1 /\ Partial = {} /\ InUse # {} /\ s = Lowest(Sectors \ InUse) /\ s \notin InUse
  <2>1. k = 0 /\ flash[s][0] = Erased
    BY <1>1, <1>8, Geometry DEF InUse, FilledTo
  <2>2. n # 0
    BY <1>2, <1>8, Geometry DEF InUse, Blank
  <2>3. flash[h][0] # Erased
    BY <1>2, <2>2, Geometry DEF FilledTo
  <2>4. flash[h][PerSector - 1] # Erased
    BY <1>8, <2>3 DEF InUse, Partial
  <2>5. n = PerSector
    BY <1>2, <2>4, Geometry DEF FilledTo
  <2>6. s # h
    BY <2>1, <2>3
  <2>7. After(h) = IF h + 1 = NumSectors THEN 0 ELSE h + 1
    BY AfterIs
  <2>8. CASE FirstLap(h)
    <3>1. s > h
      BY <2>1, <2>6, <2>8, Geometry DEF FirstLap, Full
    <3>2. h + 1 \in Sectors \ InUse
      <4>1. h + 1 \in Sectors
        BY <3>1, Geometry
      <4>2. Blank(h + 1)
        BY <2>8, <4>1, Geometry DEF FirstLap
      <4> QED BY <4>1, <4>2, Geometry DEF Blank, InUse
    <3>3. s <= h + 1
      <4>1. Sectors \ InUse \in SUBSET Sectors /\ Sectors \ InUse # {}
        BY <3>2
      <4>2. \A t \in Sectors \ InUse : Lowest(Sectors \ InUse) <= t
        BY <4>1, LowestIs
      <4> QED BY <1>8, <3>2, <4>2
    <3>4. s = After(h)
      BY <2>7, <3>1, <3>3, Geometry
    <3> QED BY <1>1, <2>1, <2>5, <3>4
  <2>9. CASE Lapped(h)
    <3>1. s = After(h)
      BY <2>1, <2>6, <2>9, Geometry DEF Lapped, Full
    <3> QED BY <1>1, <2>1, <2>5, <3>1
  <2> QED BY <1>2, <2>8, <2>9
<1> QED BY <1>1, <1>5, <1>6, <1>7, <1>8

\* The head follows what is filled, within a sector or at its end.
LEMMA PlaceIsFollowed ==
  ASSUME Assumptions, NEW h \in Sectors, NEW n \in 0..PerSector,
         \/ n < PerSector /\ head' = ToOffset(h, n)
         \/ n = PerSector /\ (head' = ToOffset(After(h), 0) \/ head' = ToOffset(h, n))
  PROVE  HeadFollows(h, n)'
<1>1. After(h) \in Sectors /\ 0 \in 0..PerSector /\ 0 < PerSector
  BY AfterIs, Geometry
<1>2. CASE n < PerSector
  <2>1. WriteSector' = h /\ WriteIndex' = n
    BY <1>2, PlaceIs, PlaceOfHead
  <2> QED BY <1>2, <2>1 DEF HeadFollows
<1>3. CASE n = PerSector
  <2>1. WriteSector' = After(h) /\ WriteIndex' = 0
    BY <1>1, <1>3, PlaceIs, PlaceOfHead
  <2> QED BY <1>3, <2>1 DEF HeadFollows
<1> QED BY <1>2, <1>3

\* The sector after a full one is free when an entry is to go to its start.
LEMMA NextIsBlank ==
  ASSUME Assumptions, PerSector > 1, NEW h \in Sectors, Layout(h, PerSector), ReadyAt(After(h), 0)
  PROVE  /\ NumSectors # 1 /\ After(h) # h /\ Blank(After(h)) /\ Full(h)
         /\ Lapped(h) \/ (After(h) = h + 1 /\ FirstLap(h))
<1> DEFINE g == After(h)
<1>1. g \in Sectors /\ g = (IF h + 1 = NumSectors THEN 0 ELSE h + 1) /\ 1 \in Indices
  BY AfterIs, Geometry
<1>2. flash[g][1] = Erased
  BY <1>1, Geometry DEF ReadyAt
<1>3. ~Full(g)
  BY <1>1, <1>2 DEF Full
<1>4. Full(h) /\ g # h
  <2>1. Full(h)
    BY Geometry DEF Layout, FilledTo, Full
  <2> QED BY <1>3, <2>1
<1>5. NumSectors # 1
  BY <1>1, <1>4, Geometry
<1>6. CASE Lapped(h)
  BY <1>1, <1>3, <1>4, <1>5, <1>6 DEF Lapped
<1>7. CASE FirstLap(h)
  <2>1. ~(g < h)
    BY <1>1, <1>3, <1>7 DEF FirstLap
  <2>2. g = h + 1 /\ g > h
    BY <1>1, <1>4, <2>1, Geometry
  <2>3. Blank(g)
    BY <1>1, <1>7, <2>2 DEF FirstLap
  <2> QED BY <1>4, <1>5, <1>7, <2>2, <2>3
<1> QED BY <1>6, <1>7 DEF Layout

\* An entry in its place is the newest.
LEMMA ProgrammedIsNewest ==
  ASSUME Assumptions, PerSector > 1, WriteInv, mode = "prepared", flash' = Programmed, total' = total + 1,
         \A s \in Sectors : \A i \in Indices : flash[s][i] <= total,
         NEW h \in Sectors, NEW n \in 0..PerSector, Ordered(h, n), HeadFollows(h, n)
  PROVE  /\ \A s \in Sectors : \A i \in Indices : flash'[s][i] <= total'
         /\ \E g \in Sectors, m \in 1..PerSector :
              Ordered(g, m)' /\ WriteSector = g /\ WriteIndex = m - 1 /\ flash'[g][m - 1] = total + 1
<1>1. FlashType /\ FlashInv /\ TypeOK /\ HeadInv /\ ReadyAt(WriteSector, WriteIndex) /\ total \in Nat
  <2>1. Mounted
    BY DEF Mounted
  <2>2. HeadInv /\ TypeOK /\ FlashInv
    BY <2>1 DEF WriteInv
  <2>3. ReadyAt(WriteSector, WriteIndex)
    BY <2>2 DEF HeadInv
  <2>4. FlashType /\ total \in Nat
    BY <2>2, Geometry DEF TypeOK, FlashType
  <2> QED BY <2>2, <2>3, <2>4
<1>2. PICK w \in Sectors, j \in Indices : w = WriteSector /\ j = WriteIndex
  BY <1>1, WritePlace
<1>3. /\ ReadyAt(w, j)
      /\ \A t \in Sectors : \A i \in Indices : t # w \/ i # j => flash'[t][i] = flash[t][i]
      /\ flash'[w][j] = total + 1 /\ FlashType'
  BY <1>1, <1>2, ProgrammedKeeps
<1>4. \A s \in Sectors : \A i \in Indices : flash[s][i] \in Nat /\ flash'[s][i] \in Nat
  <2>1. MaxWrites \in Nat
    BY Geometry
  <2>2. \A s \in Sectors : \A i \in Indices : flash[s][i] \in 0..MaxWrites /\ flash'[s][i] \in 0..MaxWrites
    BY <1>1, <1>3 DEF FlashType
  <2> QED BY <2>1, <2>2
<1>5. \A s \in Sectors : \A i \in Indices : flash'[s][i] <= total'
  <2> TAKE s \in Sectors
  <2> TAKE i \in Indices
  <2>1. flash[s][i] \in Nat /\ flash[s][i] <= total
    BY <1>4
  <2>2. flash'[s][i] = flash[s][i] \/ flash'[s][i] = total + 1
    BY <1>3
  <2> QED BY <1>1, <2>1, <2>2
<1>6. /\ FilledTo(h, n) /\ (n = 0 => h = 0 /\ \A s \in Sectors : Blank(s)) /\ (FirstLap(h) \/ Lapped(h))
      /\ InOrder(h) /\ Ranked(h, n)
  BY DEF Ordered, Layout
<1>7. /\ total + 1 # Erased /\ Erased = 0 /\ total' = total + 1 /\ total \in Nat
      /\ n \in Nat /\ n <= PerSector /\ PerSector \in Nat /\ NumSectors \in Nat
      /\ \A i \in Indices : i \in Nat /\ i < PerSector
      /\ \A s \in Sectors : s \in Nat
  BY <1>1, Geometry
\* What is left to show of an entry at the end of a sector's entries.
<1>8. ASSUME NEW m \in 1..PerSector, w = h, j = m - 1, m = n \/ m = n + 1
      PROVE  Ordered(h, m)'
  <2>1. \A s \in Sectors : s # h => \A i \in Indices : flash'[s][i] = flash[s][i]
    BY <1>3, <1>8
  <2>2. \A i \in Indices : i # m - 1 => flash'[h][i] = flash[h][i]
    BY <1>3, <1>8
  <2>3. flash'[h][m - 1] = total + 1 /\ m - 1 \in Indices
    BY <1>2, <1>3, <1>8
  <2>4. FilledTo(h, m)'
    <3> SUFFICES ASSUME NEW i \in Indices PROVE flash'[h][i] # Erased <=> i < m
      BY DEF FilledTo
    <3>1. flash[h][i] # Erased <=> i < n
      BY <1>6 DEF FilledTo
    <3>a. i \in Nat /\ (m = n \/ m = n + 1)
      BY <1>7, <1>8
    <3>b. m \in Nat /\ m > 0
      BY <1>7
    <3>2. m \in Nat /\ m > 0 /\ i \in Nat /\ (m = n \/ m = n + 1)
      BY <3>a, <3>b
    <3>3. CASE i = m - 1
      BY <1>7, <2>3, <3>2, <3>3
    <3>4. CASE i # m - 1
      BY <1>7, <2>2, <3>1, <3>2, <3>4
    <3> QED BY <3>3, <3>4
  <2>5. FirstLap(h)' \/ Lapped(h)'
    BY <1>6, <2>1 DEF FirstLap, Lapped, Full, Blank
  <2>6. InOrder(h)'
    <3> SUFFICES ASSUME NEW s \in Sectors, NEW t \in Sectors, NEW i \in Indices, NEW k \in Indices,
                        flash'[s][i] # Erased, flash'[t][k] # Erased,
                        Back(t, h) < Back(s, h) \/ (s = t /\ i < k)
                 PROVE  flash'[s][i] < flash'[t][k]
      BY DEF InOrder
    <3>1. Back(h, h) = 0 /\ Back(s, h) \in Nat /\ Back(t, h) \in Nat
      BY SMTT(30), BackIs, Geometry
    <3>2. ~(s = h /\ i = m - 1)
      <4> SUFFICES ASSUME s = h, i = m - 1 PROVE FALSE
        OBVIOUS
      <4>1. t = h /\ k > m - 1
        BY SMTT(30), <3>1, Geometry
      <4>2. ~(k < m)
        BY <1>8, <4>1, Geometry
      <4> QED BY <2>4, <4>1, <4>2 DEF FilledTo
    <3>3. flash'[s][i] = flash[s][i]
      BY <1>3, <1>8, <3>2
    <3>4. CASE t = h /\ k = m - 1
      <4>1. PICK x \in Nat : x = flash[s][i] /\ x <= total
        BY <1>4
      <4> QED BY <1>7, <2>3, <3>3, <3>4, <4>1
    <3>5. CASE ~(t = h /\ k = m - 1)
      <4>1. flash'[t][k] = flash[t][k]
        BY <1>3, <1>8, <3>5
      <4> QED BY <1>6, <3>3, <4>1 DEF InOrder
    <3> QED BY <3>4, <3>5
  <2>7. Ranked(h, m)'
    <3> SUFFICES ASSUME NEW s \in Sectors, NEW i \in Indices, flash'[s][i] # Erased
                 PROVE  total' - flash'[s][i] >= Back(s, h) * PerSector + (m - 1 - i)
      BY DEF Ranked
    <3>1. Back(h, h) = 0 /\ Back(s, h) \in Nat
      BY BackIs, Geometry
    <3>2. CASE s = h /\ i = m - 1
      <4>1. flash'[s][i] = total' /\ Back(s, h) * PerSector = 0 /\ m - 1 - i = 0
        BY <1>7, <1>8, <2>3, <3>1, <3>2
      <4> QED BY <1>7, <4>1
    <3>3. CASE ~(s = h /\ i = m - 1)
      <4>1. flash'[s][i] = flash[s][i]
        BY <1>3, <1>8, <3>3
      <4>2. total - flash[s][i] >= Back(s, h) * PerSector + (n - 1 - i)
        BY <1>6, <4>1 DEF Ranked
      <4>3. PICK b \in Nat, x \in Nat : b = Back(s, h) * PerSector /\ x = flash[s][i]
        BY <1>4, <1>7, <3>1
      <4>4. total - x >= b + (n - 1 - i)
        BY <4>2, <4>3
      <4>5. (total + 1) - x >= b + (m - 1 - i)
        BY <1>7, <1>8, <4>3, <4>4
      <4> QED BY <1>7, <4>1, <4>3, <4>5
    <3> QED BY <3>2, <3>3
  <2>8. ~(m = 0)
    BY Geometry
  <2> QED BY <2>4, <2>5, <2>6, <2>7, <2>8 DEF Ordered, Layout
<1>9. CASE n < PerSector /\ w = h /\ j = n
  <2>1. n + 1 \in 1..PerSector /\ j = (n + 1) - 1
    BY <1>9, Geometry
  <2>2. Ordered(h, n + 1)'
    BY <1>8, <1>9, <2>1
  <2> QED BY <1>2, <1>3, <1>5, <1>9, <2>1, <2>2
<1>10. CASE n > 0 /\ w = h /\ j = n - 1
  <2>1. n \in 1..PerSector
    BY <1>10, Geometry
  <2> QED BY <1>2, <1>3, <1>5, <1>8, <1>10, <2>1
<1>11. CASE n = PerSector /\ w = After(h) /\ j = 0
  <2> DEFINE g == After(h)
  <2>1. /\ NumSectors # 1 /\ g # h /\ g \in Sectors /\ Blank(g)
        /\ Lapped(h) \/ (g = h + 1 /\ FirstLap(h))
    <3>1. Layout(h, PerSector) /\ ReadyAt(After(h), 0)
      BY <1>3, <1>11 DEF Ordered
    <3>2. h + 1 # h /\ After(h) \in Sectors
      BY AfterIs, Geometry
    <3> QED BY <3>1, <3>2, NextIsBlank
  <2>2. PICK u \in Sectors : u = g
    BY <2>1
  <2>3. \A s \in Sectors : s # u => \A i \in Indices : flash'[s][i] = flash[s][i]
    BY <1>3, <1>11, <2>2
  <2>4. \A i \in Indices : flash'[u][i] = IF i = 0 THEN total + 1 ELSE Erased
    BY <1>2, <1>3, <1>11, <2>1, <2>2 DEF Blank
  <2>5. FilledTo(u, 1)'
    BY <1>7, <2>4, Geometry DEF FilledTo
  <2>6. Full(h)
    BY <1>6, <1>11, Geometry DEF FilledTo, Full
  <2>7. FirstLap(u)' \/ Lapped(u)'
    <3>1. CASE Lapped(h)
      <4>1. \A s \in Sectors : s # u => Full(s)
        BY <2>1, <2>2, <2>6, <3>1 DEF Lapped
      <4>2. Lapped(u)'
        BY <2>3, <4>1 DEF Lapped, Full
      <4> QED BY <4>2
    <3>2. CASE u = h + 1 /\ FirstLap(h)
      <4>1. \A s \in Sectors : (s < u => Full(s)) /\ (s > u => Blank(s))
        BY <2>6, <3>2, Geometry DEF FirstLap
      <4>2. \A s \in Sectors : (s < u => s # u) /\ (s > u => s # u)
        BY <1>7
      <4>3. FirstLap(u)'
        BY <2>3, <4>1, <4>2 DEF FirstLap, Full, Blank
      <4> QED BY <4>3
    <3> QED BY <2>1, <2>2, <3>1, <3>2
  <2>8. \A s \in Sectors : /\ Back(s, h) \in Nat /\ Back(s, u) \in Nat
                           /\ s # u => Back(s, u) = Back(s, h) + 1
                           /\ s = u => Back(s, u) = 0
    <3> TAKE s \in Sectors
    <3>1. /\ Back(s, h) \in 0..(NumSectors - 1) /\ Back(s, u) \in 0..(NumSectors - 1)
          /\ Back(s, u) = 0 <=> s = u
      BY BackIs
    <3>2. s # After(h) => Back(s, After(h)) = Back(s, h) + 1
      BY BackIs
    <3>3. After(h) = u
      BY <2>2
    <3> QED BY <1>7, <3>1, <3>2, <3>3
  <2>9. InOrder(u)'
    <3> SUFFICES ASSUME NEW s \in Sectors, NEW t \in Sectors, NEW i \in Indices, NEW k \in Indices,
                        flash'[s][i] # Erased, flash'[t][k] # Erased,
                        Back(t, u) < Back(s, u) \/ (s = t /\ i < k)
                 PROVE  flash'[s][i] < flash'[t][k]
      BY DEF InOrder
    <3>1. s # u
      <4> SUFFICES ASSUME s = u PROVE FALSE
        OBVIOUS
      <4>1. i = 0 /\ Back(s, u) = 0 /\ Back(t, u) \in Nat
        BY <1>7, <2>4, <2>8
      <4>2. t = u /\ i < k
        BY <4>1
      <4>3. k = 0
        BY <1>7, <2>4, <4>2
      <4> QED BY <4>1, <4>2, <4>3
    <3>2. flash'[s][i] = flash[s][i]
      BY <2>3, <3>1
    <3>3. CASE t = u
      <4>1. flash'[t][k] = total + 1
        BY <2>4, <3>3
      <4>2. PICK x \in Nat : x = flash[s][i] /\ x <= total
        BY <1>4
      <4> QED BY <1>7, <3>2, <4>1, <4>2
    <3>4. CASE t # u
      <4>1. flash'[t][k] = flash[t][k]
        BY <2>3, <3>4
      <4>2. Back(t, h) < Back(s, h) \/ (s = t /\ i < k)
        BY <2>8, <3>1, <3>4
      <4> QED BY <1>6, <3>2, <4>1, <4>2 DEF InOrder
    <3> QED BY <3>3, <3>4
  <2>10. Ranked(u, 1)'
    <3> SUFFICES ASSUME NEW s \in Sectors, NEW i \in Indices, flash'[s][i] # Erased
                 PROVE  total' - flash'[s][i] >= Back(s, u) * PerSector + (1 - 1 - i)
      BY DEF Ranked
    <3>1. CASE s = u
      <4>1. i = 0 /\ flash'[s][i] = total' /\ Back(s, u) * PerSector = 0
        BY <1>7, <2>4, <2>8, <3>1
      <4> QED BY <1>7, <4>1
    <3>2. CASE s # u
      <4>1. flash'[s][i] = flash[s][i]
        BY <2>3, <3>2
      <4>2. total - flash[s][i] >= Back(s, h) * PerSector + (PerSector - 1 - i)
        BY <1>6, <1>11, <4>1 DEF Ranked
      <4>3. PICK a \in Nat, x \in Nat : a = Back(s, h) /\ x = flash[s][i]
        BY <1>4, <2>8
      <4>4. (a + 1) * PerSector = a * PerSector + PerSector
        BY <1>7
      <4>5. PICK b \in Nat : b = a * PerSector
        BY <1>7
      <4>6. total - x >= b + (PerSector - 1 - i) /\ Back(s, u) * PerSector = b + PerSector
        BY <2>8, <3>2, <4>2, <4>3, <4>4, <4>5
      <4>7. (total + 1) - x >= (b + PerSector) + (1 - 1 - i)
        BY <1>7, <4>6
      <4> QED BY <1>7, <4>1, <4>3, <4>6, <4>7
    <3> QED BY <3>1, <3>2
  <2>11. Ordered(u, 1)'
    BY <2>5, <2>7, <2>9, <2>10, Geometry DEF Ordered, Layout
  <2>12. 1 \in 1..PerSector /\ flash'[u][1 - 1] = total + 1
    BY <2>4, Geometry
  <2> QED BY <1>2, <1>5, <1>11, <2>2, <2>11, <2>12
<1> QED BY <1>2, <1>9, <1>10, <1>11 DEF HeadFollows

\* An empty log is in order.
LEMMA BlankIsOrdered ==
  ASSUME Assumptions
  PROVE  /\ (\A s \in Sectors : \A i \in Indices : flash[s][i] = Erased) => Ordered(0, 0)
         /\ (\A s \in Sectors : \A i \in Indices : flash'[s][i] = Erased) => Ordered(0, 0)'
<1>1. \A i \in Indices : ~(i < 0)
  BY Geometry
<1>2. \A s \in Sectors : ~(s < 0)
  BY Geometry
<1>3. ASSUME \A s \in Sectors : \A i \in Indices : flash[s][i] = Erased
      PROVE  Ordered(0, 0)
  <2>1. FilledTo(0, 0) /\ \A s \in Sectors : Blank(s)
    BY <1>1, <1>3, Geometry DEF FilledTo, Blank
  <2>2. FirstLap(0)
    BY <1>2, <2>1 DEF FirstLap
  <2>3. InOrder(0)
    BY <1>3 DEF InOrder
  <2>4. Ranked(0, 0)
    BY <1>3 DEF Ranked
  <2> QED BY <2>1, <2>2, <2>3, <2>4 DEF Ordered, Layout
<1>4. ASSUME \A s \in Sectors : \A i \in Indices : flash'[s][i] = Erased
      PROVE  Ordered(0, 0)'
  <2>1. FilledTo(0, 0)' /\ \A s \in Sectors : Blank(s)'
    BY <1>1, <1>4, Geometry DEF FilledTo, Blank
  <2>2. FirstLap(0)'
    BY <1>2, <2>1 DEF FirstLap
  <2>3. InOrder(0)'
    BY <1>4 DEF InOrder
  <2>4. Ranked(0, 0)'
    BY <1>4 DEF Ranked
  <2> QED BY <2>1, <2>2, <2>3, <2>4 DEF Ordered, Layout
<1> QED BY <1>3, <1>4

\* Of the entries written the log has lost those only that it may.
Kept == \A e \in ((wiped + 1)..total) \ failed :
          \/ e \in Entries
          \/ /\ total - e >= (NumSectors - 1) * PerSector - 1
             /\ \A o \in Entries : o > e

\* Programming an entry loses none of the newest.
LEMMA ProgrammedIsKept ==
  ASSUME Assumptions, PerSector > 1, WriteInv, mode = "prepared", flash' = Programmed, total' = total + 1,
         wiped' = wiped, failed \subseteq failed', Kept
  PROVE  Kept'
<1>1. FlashType /\ FlashInv /\ TypeOK /\ HeadInv /\ total \in Nat /\ wiped \in Nat
  <2>1. Mounted
    BY DEF Mounted
  <2>2. HeadInv /\ TypeOK /\ FlashInv
    BY <2>1 DEF WriteInv
  <2> QED BY <2>2, Geometry DEF TypeOK, FlashType
<1>2. PICK w \in Sectors, j \in Indices : w = WriteSector /\ j = WriteIndex
  BY <1>1, WritePlace
<1>3. /\ \A t \in Sectors : \A i \in Indices : t # w \/ i # j => flash'[t][i] = flash[t][i]
      /\ flash'[w][j] = total + 1
  BY <1>1, <1>2, ProgrammedKeeps
<1>4. flash[w][j] \in {Erased} \cup failed
  BY <1>1, <1>2 DEF HeadInv, ReadyAt
<1>5. total + 1 # Erased /\ Erased = 0 /\ PerSector \in Nat /\ NumSectors \in Nat
  BY <1>1, Geometry
<1> SUFFICES ASSUME NEW e \in ((wiped + 1)..(total + 1)) \ failed', e \notin Entries'
             PROVE  /\ (total + 1) - e >= (NumSectors - 1) * PerSector - 1
                    /\ \A o \in Entries' : o > e
  BY DEF Kept
<1>6. e # total + 1
  BY <1>3, <1>5, EntriesAre
<1>7. e \in ((wiped + 1)..total) \ failed /\ e \in Nat /\ e # Erased /\ e <= total
  BY <1>1, <1>5, <1>6
<1>8. e \notin Entries
  <2> SUFFICES ASSUME e \in Entries PROVE FALSE
    OBVIOUS
  <2>1. PICK s \in Sectors, i \in Indices : e = flash[s][i]
    BY EntriesAre
  <2>2. ~(s = w /\ i = j)
    BY <1>4, <1>7, <2>1
  <2>3. e = flash'[s][i]
    BY <1>3, <2>1, <2>2
  <2> QED BY <1>7, <2>3, EntriesAre
<1>9. total - e >= (NumSectors - 1) * PerSector - 1 /\ \A o \in Entries : o > e
  BY <1>7, <1>8 DEF Kept
<1>10. (total + 1) - e >= (NumSectors - 1) * PerSector - 1
  <2>1. PICK b \in Int : b = (NumSectors - 1) * PerSector - 1
    BY <1>5
  <2> QED BY <1>1, <1>7, <1>9, <2>1
<1>11. ASSUME NEW o \in Entries' PROVE o > e
  <2>1. PICK s \in Sectors, i \in Indices : o = flash'[s][i] /\ o # Erased
    BY EntriesAre
  <2>2. CASE s = w /\ i = j
    BY <1>1, <1>3, <1>7, <2>1, <2>2
  <2>3. CASE ~(s = w /\ i = j)
    <3>1. o \in Entries
      BY <1>3, <2>1, <2>3, EntriesAre
    <3> QED BY <1>9, <3>1
  <2> QED BY <2>2, <2>3
<1> QED BY <1>10, <1>11

\* Preparing to write erases the oldest sector, or one that is blank.
LEMMA ErasedIsOldest ==
  ASSUME Assumptions, PerSector > 1, WriteInv, flash' = EraseOf(After(WriteSector)),
         UNCHANGED past, WriteIndex = PerSector - 1, Kept,
         NEW h \in Sectors, NEW n \in 0..PerSector, Ordered(h, n), HeadFollows(h, n)
  PROVE  /\ Kept'
         /\ WriteSector = h /\ (n = PerSector - 1 \/ (n = PerSector /\ flash[h][n - 1] \in failed))
         /\ NumSectors = 1 => \A s \in Sectors : \A i \in Indices : flash'[s][i] = Erased
         /\ NumSectors # 1 => /\ Ordered(h, n)'
                              /\ \A i \in Indices : flash'[h][i] = flash[h][i]
<1>1. FlashType /\ TypeOK /\ total \in Nat /\ wiped \in Nat
  <2>1. TypeOK
    BY DEF WriteInv
  <2>2. FlashType /\ total \in 0..MaxWrites /\ wiped \in 0..total
    BY <2>1 DEF TypeOK, FlashType
  <2> QED BY <2>1, <2>2, Geometry
<1>2. /\ Erased = 0 /\ n \in Nat /\ n <= PerSector /\ PerSector \in Nat /\ NumSectors \in Nat \ {0}
      /\ \A i \in Indices : i \in Nat /\ i < PerSector
      /\ \A s \in Sectors : s \in Nat /\ s < NumSectors
  BY <1>1, Geometry
<1>3. WriteSector = h /\ (n = PerSector - 1 \/ (n = PerSector /\ flash[h][n - 1] \in failed))
  BY <1>2 DEF HeadFollows
<1>4. PICK g \in Sectors : g = After(h) /\ g = (IF h + 1 = NumSectors THEN 0 ELSE h + 1)
  BY AfterIs
<1>5. \A s \in Sectors : \A i \in Indices : flash'[s][i] = IF s = g THEN Erased ELSE flash[s][i]
  <2>1. flash' = [flash EXCEPT ![g] = [i \in Indices |-> Erased]]
    BY <1>3, <1>4 DEF EraseOf
  <2> QED BY <1>1, <2>1 DEF FlashType
<1>6. /\ FilledTo(h, n) /\ (n = 0 => h = 0 /\ \A s \in Sectors : Blank(s)) /\ (FirstLap(h) \/ Lapped(h))
      /\ InOrder(h) /\ Ranked(h, n)
  BY DEF Ordered, Layout
<1>7. UNCHANGED <<total, wiped, failed>>
  BY DEF past
<1>8. \A s \in Sectors : Back(s, h) \in Nat /\ (s # g => Back(s, h) < NumSectors - 1)
  <2> TAKE s \in Sectors
  <2>1. Back(s, h) \in 0..(NumSectors - 1)
    BY BackIs
  <2>2. s # After(h) => Back(s, h) < NumSectors - 1
    BY BackIs
  <2> QED BY <1>2, <1>4, <2>1, <2>2
<1>9. Back(g, h) = NumSectors - 1
  <2>1. Back(After(h), h) = NumSectors - 1
    BY BackIs
  <2> QED BY <1>4, <2>1
<1>10. Kept'
  <2> SUFFICES ASSUME NEW e \in ((wiped + 1)..total) \ failed, e \notin Entries'
               PROVE  /\ total - e >= (NumSectors - 1) * PerSector - 1
                      /\ \A o \in Entries' : o > e
    BY <1>7 DEF Kept
  <2>1. \A o \in Entries' : o \in Entries
    BY <1>5, EntriesAre
  <2>2. CASE e \notin Entries
    BY <2>1, <2>2 DEF Kept
  <2>3. CASE e \in Entries
    <3>1. PICK s \in Sectors, i \in Indices : e = flash[s][i] /\ e # Erased
      BY <2>3, EntriesAre
    <3>2. s = g
      BY <1>5, <3>1, EntriesAre
    <3>3. total - e >= (NumSectors - 1) * PerSector + (n - 1 - i)
      BY <1>6, <1>9, <3>1, <3>2 DEF Ranked
    <3>4. n - 1 - i >= -1 /\ e \in Int /\ i \in Nat
      BY <1>2, <1>3
    <3>5. PICK b \in Int : b = (NumSectors - 1) * PerSector
      BY <1>2
    <3>6. total - e >= b - 1
      BY <1>1, <1>2, <3>3, <3>4, <3>5
    <3>7. ASSUME NEW o \in Entries' PROVE o > e
      <4>1. PICK t \in Sectors, k \in Indices : o = flash'[t][k] /\ o # Erased
        BY EntriesAre
      <4>2. t # g /\ o = flash[t][k]
        BY <1>5, <4>1
      <4>3. Back(t, h) < Back(g, h)
        BY <1>8, <1>9, <4>2
      <4>4. flash[g][i] < flash[t][k]
        BY <1>6, <3>1, <3>2, <4>1, <4>2, <4>3 DEF InOrder
      <4>5. flash[t][k] \in Int
        <5>1. MaxWrites \in Nat
          BY Geometry
        <5>2. flash[t][k] \in 0..MaxWrites
          BY <1>1 DEF FlashType
        <5> QED BY <5>1, <5>2
      <4> QED BY <3>1, <3>2, <3>4, <4>2, <4>4, <4>5
    <3> QED BY <3>5, <3>6, <3>7
  <2> QED BY <2>2, <2>3
<1>11. ASSUME NumSectors = 1 PROVE \A s \in Sectors : \A i \in Indices : flash'[s][i] = Erased
  BY <1>2, <1>5, <1>11
<1>12. ASSUME NumSectors # 1
       PROVE  Ordered(h, n)' /\ \A i \in Indices : flash'[h][i] = flash[h][i]
  <2>1. g # h
    BY <1>2, <1>4, <1>12
  <2>2. \A i \in Indices : flash'[h][i] = flash[h][i]
    BY <1>5, <2>1
  <2>3. FilledTo(h, n)'
    BY <1>6, <2>2 DEF FilledTo
  <2>4. n # 0
    BY <1>2, <1>3
  <2>5. \A s \in Sectors : s # g => (Full(s) => Full(s)') /\ (Blank(s) => Blank(s)')
    BY <1>5 DEF Full, Blank
  <2>6. Blank(g)'
    BY <1>5 DEF Blank
  <2>7. FirstLap(h)' \/ Lapped(h)'
    <3>1. CASE Lapped(h)
      <4>1. Lapped(h)'
        BY <1>4, <2>5, <2>6, <3>1 DEF Lapped
      <4> QED BY <4>1
    <3>2. CASE FirstLap(h) /\ g = h + 1
      <4>1. \A s \in Sectors : s < h => s # g
        BY <1>2, <3>2
      <4>2. FirstLap(h)'
        BY <2>5, <2>6, <3>2, <4>1 DEF FirstLap
      <4> QED BY <4>2
    <3>3. CASE FirstLap(h) /\ h + 1 = NumSectors
      <4>1. \A s \in Sectors : s # h => s < h
        BY <1>2, <3>3
      <4>2. Lapped(h)'
        BY <1>4, <2>5, <2>6, <3>3, <4>1 DEF FirstLap, Lapped
      <4> QED BY <4>2
    <3> QED BY <1>4, <1>6, <3>1, <3>2, <3>3
  <2>8. \A s \in Sectors : \A i \in Indices : flash'[s][i] # Erased => flash'[s][i] = flash[s][i]
    BY <1>5
  <2>9. InOrder(h)'
    <3> SUFFICES ASSUME NEW s \in Sectors, NEW t \in Sectors, NEW i \in Indices, NEW k \in Indices,
                        flash'[s][i] # Erased, flash'[t][k] # Erased,
                        Back(t, h) < Back(s, h) \/ (s = t /\ i < k)
                 PROVE  flash'[s][i] < flash'[t][k]
      BY DEF InOrder
    <3>1. flash'[s][i] = flash[s][i] /\ flash'[t][k] = flash[t][k]
      BY <2>8
    <3> QED BY <1>6, <3>1 DEF InOrder
  <2>10. Ranked(h, n)'
    <3> SUFFICES ASSUME NEW s \in Sectors, NEW i \in Indices, flash'[s][i] # Erased
                 PROVE  total' - flash'[s][i] >= Back(s, h) * PerSector + (n - 1 - i)
      BY DEF Ranked
    <3>1. flash'[s][i] = flash[s][i] /\ total' = total
      BY <1>7, <2>8
    <3> QED BY <1>6, <3>1 DEF Ranked
  <2> QED BY <2>2, <2>3, <2>4, <2>7, <2>9, <2>10 DEF Ordered, Layout
<1> QED BY <1>3, <1>10, <1>11, <1>12

-----------------------------------------------------------------------------
(* The tail: the sector of the oldest entry.                                 *)

\* The tail is the sector in use that is farthest behind h, and 0 in an empty log.
Oldest(h) ==
  \/ tail = 0 /\ \A s \in Sectors : Blank(s)
  \/ ~Blank(tail) /\ \A s \in Sectors : Blank(s) \/ Back(s, h) <= Back(tail, h)

\* A sector is in use when it has an entry at its start.
LEMMA BlankIs ==
  ASSUME Assumptions, Packed, NEW s \in Sectors
  PROVE  Blank(s) <=> flash[s][0] = Erased
<1>1. ASSUME ~Blank(s) PROVE flash[s][0] # Erased
  <2>1. PICK i \in Indices : flash[s][i] # Erased
    BY <1>1 DEF Blank
  <2>2. 0 \in Indices /\ (i = 0 \/ 0 < i)
    BY Geometry
  <2> QED BY <2>1, <2>2 DEF Packed
<1> QED BY <1>1, Geometry DEF Blank

\* The d-th sector on from s is d short of a whole turn behind it.
LEMMA AheadIs ==
  ASSUME Assumptions, NEW s \in Sectors
  PROVE  /\ \A d \in 1..(NumSectors - 1) : /\ (s + d) % NumSectors \in Sectors \ {s}
                                           /\ Back((s + d) % NumSectors, s) = NumSectors - d
         /\ \A u \in Sectors : u # s => \E d \in 1..(NumSectors - 1) : u = (s + d) % NumSectors
<1>1. NumSectors \in Nat \ {0} /\ s \in Nat /\ s < NumSectors
  BY Geometry
<1>2. \A d \in 1..(NumSectors - 1) : (s + d) % NumSectors = IF s + d < NumSectors THEN s + d ELSE s + d - NumSectors
  <2> TAKE d \in 1..(NumSectors - 1)
  <2>1. CASE s + d < NumSectors
    <3>1. s + d \in 0..(NumSectors - 1)
      BY <1>1, <2>1
    <3>2. (0 * NumSectors + (s + d)) % NumSectors = s + d
      BY <1>1, <3>1, Quotient
    <3> QED BY <1>1, <2>1, <3>2
  <2>2. CASE s + d >= NumSectors
    <3>1. PICK r \in 0..(NumSectors - 1) : r = s + d - NumSectors /\ 1 * NumSectors + r = s + d
      BY <1>1, <2>2
    <3>2. (1 * NumSectors + r) % NumSectors = r
      <4>1. NumSectors \in Nat \ {0} /\ 1 \in Int
        BY <1>1
      <4> QED BY <4>1, Quotient
    <3> QED BY <1>1, <2>2, <3>1, <3>2
  <2> QED BY <1>1, <2>1, <2>2
<1>3. ASSUME NEW d \in 1..(NumSectors - 1)
      PROVE  /\ (s + d) % NumSectors \in Sectors \ {s}
             /\ Back((s + d) % NumSectors, s) = NumSectors - d
  <2>1. PICK r \in Int : r = (s + d) % NumSectors /\ r = IF s + d < NumSectors THEN s + d ELSE s + d - NumSectors
    BY <1>1, <1>2
  <2>2. r \in Sectors \ {s} /\ Back(r, s) = NumSectors - d
    BY <1>1, <2>1, Geometry DEF Back
  <2> QED BY <2>1, <2>2
<1>4. ASSUME NEW u \in Sectors, u # s PROVE \E d \in 1..(NumSectors - 1) : u = (s + d) % NumSectors
  <2> DEFINE d == IF s < u THEN u - s ELSE u - s + NumSectors
  <2>1. d \in 1..(NumSectors - 1) /\ u = IF s + d < NumSectors THEN s + d ELSE s + d - NumSectors
    BY <1>1, <1>4, Geometry
  <2> HIDE DEF d
  <2> QED BY <1>2, <2>1
<1> QED BY <1>3, <1>4

\* find_tail_sector finds the sector in use that is farthest behind, if any but the head's.
LEMMA FindTailIsFarthest ==
  ASSUME Assumptions, NEW o, NEW s \in Sectors, SectorOf(o) = s
  PROVE  /\ FindTail(o) \in Sectors
         /\ FindTail(o) = s \/ flash[FindTail(o)][0] # Erased
         /\ \A u \in Sectors : u # s /\ flash[u][0] # Erased
              => FindTail(o) # s /\ Back(u, s) <= Back(FindTail(o), s)
<1> DEFINE used == {d \in 1..(NumSectors - 1) : flash[(s + d) % NumSectors][0] # Erased}
           least == CHOOSE d \in used : \A e \in used : d <= e
<1>1. FindTail(o) = IF used = {} THEN s ELSE (s + least) % NumSectors
  BY DEF FindTail
<1>2. CASE used = {}
  <2>1. ASSUME NEW u \in Sectors, u # s PROVE flash[u][0] = Erased
    <3>1. PICK d \in 1..(NumSectors - 1) : u = (s + d) % NumSectors
      BY <2>1, AheadIs
    <3>2. d \notin used
      BY <1>2
    <3> QED BY <3>1, <3>2
  <2> QED BY <1>1, <1>2, <2>1
<1>3. CASE used # {}
  <2>1. used \in SUBSET Nat
    BY Geometry
  <2>2. \E d \in used : \A e \in used : d <= e
    BY <1>3, <2>1, Least
  <2>3. least \in used /\ \A e \in used : least <= e
    BY <2>2
  <2> HIDE DEF least
  <2>4. PICK t \in Sectors : t = (s + least) % NumSectors
    BY <2>3, AheadIs
  <2>5. t # s /\ flash[t][0] # Erased /\ Back(t, s) = NumSectors - least /\ least \in 1..(NumSectors - 1)
    BY <2>3, <2>4, AheadIs
  <2>6. ASSUME NEW u \in Sectors, u # s, flash[u][0] # Erased PROVE Back(u, s) <= Back(t, s)
    <3>1. PICK d \in 1..(NumSectors - 1) : u = (s + d) % NumSectors
      BY <2>6, AheadIs
    <3>2. d \in used /\ Back(u, s) = NumSectors - d
      BY <2>6, <3>1, AheadIs
    <3>3. least <= d
      BY <2>3, <3>2
    <3> QED BY <2>5, <3>2, <3>3, Geometry
  <2> HIDE DEF used
  <2> QED BY <1>1, <1>3, <2>4, <2>5, <2>6
<1> QED BY <1>2, <1>3

\* errlog_mount finds the tail.
LEMMA MountFindsOldest ==
  ASSUME Assumptions, PerSector > 1, FlashType, FlashInv, Mount,
         NEW h \in Sectors, NEW n \in 0..PerSector, Layout(h, n)
  PROVE  Oldest(h)'
<1>1. tail' = IF NumSectors = 1 \/ InUse = {} THEN 0 ELSE FindTail(head')
  BY DEF Mount, MountSingle, MountPartial, MountEmpty, MountOnBound, Partial
<1>2. flash' = flash
  BY DEF Mount
<1>3. FilledTo(h, n) /\ (n = 0 => h = 0 /\ \A t \in Sectors : Blank(t)) /\ (FirstLap(h) \/ Lapped(h))
  BY DEF Layout
<1>4. \A s \in Sectors : Blank(s) <=> flash[s][0] = Erased
  BY BlankIs DEF FlashInv
<1>5. 0 \in Sectors /\ 0 \in Indices /\ PerSector - 1 \in Indices /\ n \in Nat /\ PerSector \in Nat
  BY Geometry
<1> SUFFICES \/ tail' = 0 /\ \A s \in Sectors : Blank(s)
             \/ /\ tail' \in Sectors /\ ~Blank(tail')
                /\ \A s \in Sectors : Blank(s) \/ Back(s, h) <= Back(tail', h)
  BY <1>2 DEF Oldest, Blank
<1>6. CASE n = 0
  <2>1. InUse = {}
    BY <1>3, <1>4, <1>6 DEF InUse
  <2> QED BY <1>1, <1>3, <1>6, <2>1
<1>7. CASE n > 0
  <2>1. ~Blank(h) /\ InUse # {} /\ Back(h, h) = 0
    <3>1. flash[h][0] # Erased
      BY <1>3, <1>5, <1>7 DEF FilledTo
    <3> QED BY <1>4, <3>1, BackIs DEF InUse
  <2>2. CASE NumSectors = 1
    <3>1. Sectors = {0} /\ h = 0
      BY <2>2, Geometry
    <3> QED BY <1>1, <2>1, <2>2, <3>1
  <2>3. CASE NumSectors # 1 /\ n < PerSector
    <3>1. head' = ToOffset(h, n)
      BY <2>3, MountFollows
    <3>2. SectorOf(head') = h
      BY <1>5, <2>3, <3>1, OffsetOf, Geometry
    <3>3. PICK t \in Sectors : t = FindTail(head')
      BY <3>2, FindTailIsFarthest
    <3>4. /\ t = h \/ flash[t][0] # Erased
          /\ \A u \in Sectors : u # h /\ flash[u][0] # Erased => t # h /\ Back(u, h) <= Back(t, h)
      BY <3>2, <3>3, FindTailIsFarthest
    <3>5. tail' = t /\ ~Blank(t)
      BY <1>1, <1>4, <2>1, <2>3, <3>3, <3>4
    <3>6. ASSUME NEW s \in Sectors, ~Blank(s) PROVE Back(s, h) <= Back(t, h)
      <4>1. CASE s = h
        BY <2>1, <4>1, BackIs, Geometry
      <4> QED BY <1>4, <3>4, <3>6, <4>1
    <3> QED BY <3>5, <3>6
  <2>4. CASE NumSectors # 1 /\ n = PerSector
    <3>1. head' = ToOffset(After(h), 0)
      BY <2>4, MountFollows
    <3>2. PICK g \in Sectors : g = After(h)
      BY AfterIs
    <3>3. Full(h)
      BY <1>3, <2>4, Geometry DEF FilledTo, Full
    <3>4. Blank(g)
      <4>1. PICK s \in Sectors : flash[s][PerSector - 1] = Erased
        BY <2>4 DEF FlashInv, Solo
      <4>2. ~Full(s) /\ s # h
        BY <1>5, <3>3, <4>1 DEF Full
      <4>3. CASE FirstLap(h)
        <5>1. s > h
          BY <4>2, <4>3, Geometry DEF FirstLap
        <5>2. g > h
          BY <3>2, <5>1, AfterIs, Geometry
        <5> QED BY <4>3, <5>2 DEF FirstLap
      <4>4. CASE Lapped(h)
        BY <3>2, <4>2, <4>4 DEF Lapped
      <4> QED BY <1>3, <4>3, <4>4
    <3>5. SectorOf(head') = g
      <4>1. SectorOf(ToOffset(g, 0)) = g
        BY OffsetOf, Geometry
      <4> QED BY <3>1, <3>2, <4>1
    <3>6. PICK t \in Sectors : t = FindTail(head')
      BY <3>5, FindTailIsFarthest
    <3>7. /\ t = g \/ flash[t][0] # Erased
          /\ \A u \in Sectors : u # g /\ flash[u][0] # Erased => t # g /\ Back(u, g) <= Back(t, g)
      BY <3>5, <3>6, FindTailIsFarthest
    <3>8. g # h /\ t # g /\ flash[t][0] # Erased
      BY <1>4, <2>1, <3>4, <3>7
    <3>9. tail' = t /\ ~Blank(t)
      BY <1>1, <1>4, <2>1, <2>4, <3>6, <3>8
    <3>10. ASSUME NEW s \in Sectors, ~Blank(s) PROVE Back(s, h) <= Back(t, h)
      <4>1. s # g /\ Back(s, g) <= Back(t, g)
        BY <1>4, <3>4, <3>7, <3>10
      <4>2. Back(s, g) = Back(s, h) + 1 /\ Back(t, g) = Back(t, h) + 1
        BY <3>2, <3>8, <4>1, BackIs
      <4>3. Back(s, h) \in Int /\ Back(t, h) \in Int
        BY BackIs, Geometry
      <4> QED BY <4>1, <4>2, <4>3
    <3> QED BY <3>9, <3>10
  <2> QED BY <1>5, <2>2, <2>3, <2>4, Geometry
<1> QED BY <1>5, <1>6, <1>7

\* When the oldest sector is erased, the next one is the oldest.
LEMMA PrepareKeepsOldest ==
  ASSUME Assumptions, PerSector > 1, FlashType, FlashInv, Prepare, NumSectors # 1, tail \in Sectors,
         NEW h \in Sectors, NEW n \in 1..PerSector, Layout(h, n), Oldest(h),
         WriteSector = h, WriteIndex = PerSector - 1
  PROVE  Oldest(h)'
<1>1. PICK g \in Sectors : g = After(h) /\ g = IF h + 1 = NumSectors THEN 0 ELSE h + 1
  BY AfterIs
<1>2. PICK u \in Sectors : u = After(g) /\ u = IF g + 1 = NumSectors THEN 0 ELSE g + 1
  BY AfterIs
<1>3. flash' = EraseOf(g) /\ tail' = IF g = tail THEN After(tail) ELSE tail
  BY <1>1 DEF Prepare
<1>4. \A s \in Sectors : \A i \in Indices : flash'[s][i] = IF s = g THEN Erased ELSE flash[s][i]
  BY <1>3 DEF EraseOf, FlashType
<1>5. /\ g # h /\ Back(g, h) = NumSectors - 1 /\ Back(u, h) = NumSectors - 2
      /\ \A s \in Sectors : Back(s, h) \in 0..(NumSectors - 1) /\ (Back(s, h) = NumSectors - 1 => s = g)
  <2>1. /\ NumSectors \in Nat /\ NumSectors > 1 /\ h \in 0..(NumSectors - 1)
        /\ g = (IF h + 1 = NumSectors THEN 0 ELSE h + 1) /\ u = (IF g + 1 = NumSectors THEN 0 ELSE g + 1)
    BY <1>1, <1>2, Geometry
  <2>2. g # h /\ Back(g, h) = NumSectors - 1
    BY <2>1 DEF Back
  <2>3. Back(u, h) = NumSectors - 2
    BY <2>1 DEF Back
  <2>4. \A s \in 0..(NumSectors - 1) :
          Back(s, h) \in 0..(NumSectors - 1) /\ (Back(s, h) = NumSectors - 1 => s = g)
    BY <2>1 DEF Back
  <2> QED BY <2>2, <2>3, <2>4, Geometry
<1>6. FilledTo(h, n) /\ (FirstLap(h) \/ Lapped(h)) /\ 0 \in Indices /\ 0 < n
  BY Geometry DEF Layout
<1>7. ~Blank(h)
  BY <1>6 DEF FilledTo, Blank
<1>8. ~Blank(tail) /\ \A s \in Sectors : Blank(s) \/ Back(s, h) <= Back(tail, h)
  BY <1>7 DEF Oldest
<1>9. \A s \in Sectors : s # g => (Blank(s)' <=> Blank(s))
  BY <1>4 DEF Blank
<1>10. Blank(g)'
  BY <1>4 DEF Blank
<1>11. CASE g # tail
  BY <1>3, <1>8, <1>9, <1>10, <1>11 DEF Oldest
<1>12. CASE g = tail
  <2>1. tail' = u /\ u # g
    <3>1. u # g
      BY <1>2, AfterIsOther
    <3> QED BY <1>2, <1>3, <1>12, <3>1
  <2>2. ~Blank(u)
    <3>1. CASE u = h
      BY <1>7, <3>1
    <3>2. CASE u # h /\ FirstLap(h)
      <4>1. ~(g > h)
        BY <1>8, <1>12, <3>2 DEF FirstLap
      <4>2. u < h
        BY <1>1, <1>2, <3>2, <4>1, Geometry
      <4> QED BY <1>6, <3>2, <4>2 DEF FirstLap, Full, Blank
    <3>3. CASE u # h /\ Lapped(h)
      BY <1>1, <1>6, <2>1, <3>3 DEF Lapped, Full, Blank
    <3> QED BY <1>6, <3>1, <3>2, <3>3
  <2>3. ~Blank(u)'
    BY <1>9, <2>1, <2>2
  <2>4. ASSUME NEW s \in Sectors, ~Blank(s)' PROVE Back(s, h) <= Back(u, h)
    <3>1. s # g
      BY <1>10, <2>4
    <3>2. /\ Back(s, h) \in 0..(NumSectors - 1) /\ Back(s, h) # NumSectors - 1
          /\ Back(u, h) = NumSectors - 2
      BY <1>5, <3>1
    <3> QED BY <3>2, Geometry
  <2> QED BY <2>1, <2>3, <2>4 DEF Oldest
<1> QED BY <1>11, <1>12

\* A new entry comes behind the others.
LEMMA ProgramKeepsOldest ==
  ASSUME Assumptions, PerSector > 1, TypeOK, FlashInv, HeadInv, mode = "prepared",
         flash' = Programmed, tail' = tail,
         NEW h \in Sectors, NEW n \in 0..PerSector, Layout(h, n), HeadFollows(h, n), Oldest(h),
         NEW g \in Sectors, WriteSector = g
  PROVE  Oldest(g)'
<1>1. PICK j \in Indices : j = WriteIndex
  BY WritePlace
<1>2. /\ \A t \in Sectors : \A i \in Indices : t # g \/ i # j => flash'[t][i] = flash[t][i]
      /\ flash'[g][j] = total + 1
  BY <1>1, ProgrammedKeeps
<1>3. total + 1 # Erased /\ tail \in Sectors
  BY Geometry DEF TypeOK
<1>4. ~Blank(g)' /\ \A s \in Sectors : s # g => (Blank(s)' <=> Blank(s))
  BY <1>2, <1>3 DEF Blank
<1>5. /\ FilledTo(h, n) /\ (n = 0 => h = 0 /\ \A s \in Sectors : Blank(s))
      /\ 0 \in Indices /\ n \in Nat /\ PerSector \in Nat \ {0}
  BY Geometry DEF Layout
<1>6. n = 0 \/ ~Blank(h)
  BY <1>5 DEF FilledTo, Blank
<1>7. CASE tail = 0 /\ \A s \in Sectors : Blank(s)
  <2>1. n = 0 /\ g = 0
    BY <1>5, <1>6, <1>7 DEF HeadFollows
  <2>2. Back(0, 0) = 0
    BY Geometry DEF Back
  <2> QED BY <1>3, <1>4, <1>7, <2>1, <2>2 DEF Oldest
<1>8. CASE ~Blank(tail) /\ \A s \in Sectors : Blank(s) \/ Back(s, h) <= Back(tail, h)
  <2>1. ~Blank(h)
    BY <1>3, <1>5, <1>6, <1>8
  <2>2. CASE g = h
    BY <1>3, <1>4, <1>8, <2>1, <2>2 DEF Oldest
  <2>3. CASE n = PerSector /\ g = After(h) /\ WriteIndex = 0
    <3>1. ReadyAt(After(h), 0) /\ Layout(h, PerSector)
      BY <2>3 DEF HeadInv
    <3>2. g # h /\ Blank(g)
      BY <2>3, <3>1, NextIsBlank
    <3>3. tail # g
      BY <1>8, <3>2
    <3>4. ASSUME NEW s \in Sectors, ~Blank(s)' PROVE Back(s, g) <= Back(tail, g)
      <4>1. Back(tail, g) \in Nat /\ Back(tail, g) = Back(tail, h) + 1
        BY <1>3, <2>3, <3>3, BackIs, Geometry
      <4>2. CASE s = g
        BY <4>1, <4>2, BackIs
      <4>3. CASE s # g
        <5>1. Back(s, g) = Back(s, h) + 1 /\ Back(s, h) <= Back(tail, h)
          BY <1>4, <1>8, <2>3, <3>4, <4>3, BackIs
        <5>2. Back(s, h) \in Int /\ Back(tail, h) \in Int
          BY <1>3, BackIs, Geometry
        <5> QED BY <4>1, <5>1, <5>2
      <4> QED BY <4>2, <4>3
    <3>5. ~Blank(tail)'
      BY <1>3, <1>4, <1>8
    <3>6. \E t \in Sectors : t = tail' /\ ~Blank(t)' /\ \A s \in Sectors : Blank(s)' \/ Back(s, g) <= Back(t, g)
      BY <1>3, <1>4, <1>8, <3>3, <3>4
    <3> QED BY <3>6 DEF Oldest
  <2> QED BY <2>2, <2>3 DEF HeadFollows
<1> QED BY <1>7, <1>8 DEF Oldest

\* The first entry written, or a log that is empty again.
LEMMA EmptyIsOldest ==
  ASSUME tail' = 0, \A s \in Sectors : \A i \in Indices : flash'[s][i] = Erased
  PROVE  \A h \in Sectors : Oldest(h)'
BY DEF Oldest, Blank

-----------------------------------------------------------------------------
(* What the read iterator finds. *)

\* An offset is that of one slot only.
LEMMA SlotOf ==
  ASSUME Assumptions, NEW s \in Sectors, NEW i \in Indices
  PROVE  /\ Slot(ToOffset(s, i)) = flash[s][i]
         /\ \A t \in Sectors, j \in Indices : ToOffset(s, i) = ToOffset(t, j) <=> s = t /\ i = j
         /\ ToOffset(s, 0) = s * SectorSize
<1>1. \A t \in Sectors, j \in Indices : SectorOf(ToOffset(t, j)) = t /\ IndexOf(ToOffset(t, j)) = j
  <2> TAKE t \in Sectors, j \in Indices
  <2>1. t \in Nat /\ j \in Nat /\ j < PerSector
    BY Geometry
  <2> QED BY <2>1, OffsetOf
<1>2. ToOffset(s, 0) = s * SectorSize
  <2>1. s * SectorSize \in Int
    BY Geometry DEF SectorSize, EntrySize
  <2> QED BY <2>1 DEF ToOffset, EntrySize
<1> QED BY <1>1, <1>2 DEF Slot

\* The used offsets are those of entries.
LEMMA UsedIs ==
  ASSUME Assumptions
  PROVE  /\ \A o \in Used : \E s \in Sectors, i \in Indices : o = ToOffset(s, i) /\ flash[s][i] # Erased
         /\ \A s \in Sectors, i \in Indices : flash[s][i] # Erased => ToOffset(s, i) \in Used
BY SlotOf DEF Used

\* The sector after s is one less behind h, and no two sectors are equally far behind.
LEMMA BackOfAfter ==
  ASSUME Assumptions, NEW h \in Sectors, NEW s \in Sectors
  PROVE  /\ s # h => Back(After(s), h) = Back(s, h) - 1
         /\ \A t \in Sectors : Back(s, h) = Back(t, h) => s = t
<1>1. After(s) = (IF s + 1 = NumSectors THEN 0 ELSE s + 1) /\ After(s) \in Sectors
  BY AfterIs
<1>2. s # h => Back(After(s), h) = Back(s, h) - 1
  BY <1>1, Geometry DEF Back
<1>3. ASSUME NEW t \in Sectors, Back(s, h) = Back(t, h) PROVE s = t
  BY SMTT(30), <1>3, Geometry DEF Back
<1> QED BY <1>2, <1>3

\* An entry is newer than another exactly when it is nearer to the head.
LEMMA NewerIs ==
  ASSUME Assumptions, TypeOK, NEW h \in Sectors, InOrder(h),
         NEW s \in Sectors, NEW i \in Indices, NEW t \in Sectors, NEW j \in Indices,
         flash[s][i] # Erased, flash[t][j] # Erased
  PROVE  flash[s][i] < flash[t][j] <=> Back(t, h) < Back(s, h) \/ (s = t /\ i < j)
<1>1. flash[s][i] \in Nat /\ flash[t][j] \in Nat
  BY DEF TypeOK
<1>2. i \in Nat /\ j \in Nat /\ Back(s, h) \in Nat /\ Back(t, h) \in Nat
  BY BackIs, Geometry
<1>3. Back(t, h) < Back(s, h) \/ (s = t /\ i < j) => flash[s][i] < flash[t][j]
  BY DEF InOrder
<1>4. Back(s, h) < Back(t, h) \/ (s = t /\ j < i) => flash[t][j] < flash[s][i]
  BY DEF InOrder
<1>5. Back(s, h) = Back(t, h) => s = t
  BY BackOfAfter
<1> QED BY <1>1, <1>2, <1>3, <1>4, <1>5

\* Behind a sector in use other than the newest entry's the next one is in use as well.
LEMMA NextIsUsed ==
  ASSUME Assumptions, NEW h \in Sectors, NEW n \in 0..PerSector, Layout(h, n), n # 0,
         NEW s \in Sectors, s # h, ~Blank(s)
  PROVE  Full(s) /\ After(s) \in Sectors /\ flash[After(s)][0] # Erased
<1>1. After(s) = (IF s + 1 = NumSectors THEN 0 ELSE s + 1) /\ After(s) \in Sectors
  BY AfterIs
<1>2. 0 \in Indices /\ flash[h][0] # Erased
  BY Geometry DEF Layout, FilledTo
<1>3. \A t \in Sectors : Full(t) => flash[t][0] # Erased
  BY <1>2 DEF Full
<1>4. CASE FirstLap(h)
  <2>1. s < h
    BY <1>4, Geometry DEF FirstLap
  <2>2. After(s) = h \/ After(s) < h
    BY <1>1, <2>1, Geometry
  <2> QED BY <1>1, <1>2, <1>3, <1>4, <2>1, <2>2 DEF FirstLap
<1>5. CASE Lapped(h)
  <2>1. After(s) # After(h)
    <3>1. After(h) = IF h + 1 = NumSectors THEN 0 ELSE h + 1
      BY AfterIs
    <3>2. s \in Nat /\ h \in Nat /\ NumSectors \in Nat
      BY Geometry
    <3> QED BY <1>1, <3>1, <3>2
  <2>2. Full(s)
    <3>1. ASSUME s = After(h), Blank(s) PROVE FALSE
      BY <3>1
    <3> QED BY <1>5, <3>1 DEF Lapped
  <2>3. After(s) = h \/ Full(After(s))
    BY <1>1, <1>5, <2>1 DEF Lapped
  <2> QED BY <1>1, <1>2, <1>3, <2>2, <2>3
<1> QED BY <1>4, <1>5 DEF Layout

\* An iteration starts at the oldest entry there is.
LEMMA FirstIsOldest ==
  ASSUME Assumptions, WriteInv, NEW h \in Sectors, NEW n \in 0..PerSector, Ordered(h, n), Oldest(h)
  PROVE  FindsOldest(Found(ToOffset(tail, 0), TRUE), Used)
<1>1. TypeOK /\ Packed /\ tail \in Sectors /\ 0 \in Indices
  BY Geometry DEF WriteInv, FlashInv, TypeOK
<1> DEFINE o == ToOffset(tail, 0)
<1>2. Slot(o) = flash[tail][0] /\ Found(o, TRUE) = IF Slot(o) = Erased THEN None ELSE o
  BY <1>1, SlotOf DEF Found
<1>3. ASSUME NEW p \in Used PROVE Slot(o) # Erased /\ Slot(o) <= Slot(p)
  <2>1. PICK s \in Sectors, i \in Indices : p = ToOffset(s, i) /\ flash[s][i] # Erased
    BY UsedIs
  <2>2. ~Blank(tail) /\ Back(s, h) <= Back(tail, h)
    BY <2>1, Geometry DEF Oldest, Blank
  <2>3. flash[tail][0] # Erased
    BY <1>1, <2>2, BlankIs
  <2>4. ~(flash[s][i] < flash[tail][0])
    <3>1. i \in Nat /\ Back(s, h) \in Int /\ Back(tail, h) \in Int
      BY <1>1, BackIs, Geometry
    <3>2. ~(Back(tail, h) < Back(s, h)) /\ ~(s = tail /\ i < 0)
      BY <2>2, <3>1
    <3> QED BY <1>1, <2>1, <2>3, <3>2, NewerIs DEF Ordered
  <2>5. flash[s][i] \in Int /\ flash[tail][0] \in Int /\ Slot(p) = flash[s][i]
    BY <1>1, <2>1, SlotOf DEF TypeOK
  <2> QED BY <1>2, <2>3, <2>4, <2>5
<1>4. Slot(o) # Erased => o \in Used
  BY <1>1, <1>2, UsedIs
<1> HIDE DEF o
<1>5. FindsOldest(Found(o, TRUE), Used)
  <2>1. CASE Used = {}
    BY <1>2, <1>4, <2>1 DEF FindsOldest
  <2>2. CASE Used # {}
    BY <1>2, <1>3, <1>4, <2>2 DEF FindsOldest
  <2> QED BY <2>1, <2>2
<1> QED BY <1>5 DEF o

\* From an entry the iterator comes to the next newer one, or ends at the newest.
LEMMA NextIsNewer ==
  ASSUME Assumptions, WriteInv, NEW h \in Sectors, NEW n \in 0..PerSector, Ordered(h, n), Oldest(h),
         NEW o \in Used
  PROVE  FindsOldest(Found(NextRead(o), FALSE), {p \in Used : Slot(p) > Slot(o)})
<1>1. TypeOK /\ FlashInv /\ tail \in Sectors /\ 0 \in Indices /\ InOrder(h) /\ Layout(h, n)
  BY Geometry DEF WriteInv, TypeOK, Ordered
<1>2. PICK s \in Sectors, i \in Indices : o = ToOffset(s, i) /\ flash[s][i] # Erased
  BY UsedIs
<1> DEFINE New(t, j) == flash[t][j] # Erased /\ (Back(t, h) < Back(s, h) \/ (s = t /\ i < j))
<1>3. ASSUME NEW t \in Sectors, NEW j \in Indices
      PROVE  ToOffset(t, j) \in Used /\ Slot(ToOffset(t, j)) > Slot(o) <=> New(t, j)
  <2>1. Slot(ToOffset(t, j)) = flash[t][j] /\ Slot(o) = flash[s][i]
        /\ flash[t][j] \in Nat /\ flash[s][i] \in Nat
    BY <1>1, <1>2, SlotOf DEF TypeOK
  <2>2. ToOffset(t, j) \in Used <=> flash[t][j] # Erased
    BY <2>1, UsedIs DEF Used
  <2>3. flash[t][j] # Erased => (flash[s][i] < flash[t][j] <=> Back(t, h) < Back(s, h) \/ (s = t /\ i < j))
    BY <1>1, <1>2, NewerIs
  <2> QED BY <2>1, <2>2, <2>3
<1>4. ASSUME NEW t \in Sectors, NEW j \in Indices, New(t, j),
             NextRead(o) = ToOffset(t, j), ToOffset(t, j) # tail * SectorSize,
             \A u \in Sectors, k \in Indices : New(u, k) => Back(u, h) < Back(t, h) \/ (u = t /\ j <= k)
      PROVE  FindsOldest(Found(NextRead(o), FALSE), {p \in Used : Slot(p) > Slot(o)})
  <2> DEFINE q == ToOffset(t, j)
  <2>1. q \in Used /\ Slot(q) > Slot(o) /\ Slot(q) = flash[t][j] /\ Found(q, FALSE) = q
    BY <1>3, <1>4, SlotOf DEF Found, Used
  <2>2. ASSUME NEW p \in Used, Slot(p) > Slot(o) PROVE Slot(q) <= Slot(p)
    <3>1. PICK u \in Sectors, k \in Indices : p = ToOffset(u, k) /\ flash[u][k] # Erased
      BY UsedIs
    <3>2. New(u, k)
      BY <1>3, <2>2, <3>1
    <3>3. Back(u, h) < Back(t, h) \/ (u = t /\ j <= k)
      BY <1>4, <3>2
    <3>4. flash[t][j] # Erased
      BY <1>4
    <3>5. flash[t][j] < flash[u][k] \/ (u = t /\ k = j)
      <4>1. j \in Nat /\ k \in Nat
        BY Geometry
      <4>2. flash[t][j] < flash[u][k] <=> Back(u, h) < Back(t, h) \/ (t = u /\ j < k)
        BY <1>1, <3>1, <3>4, NewerIs
      <4> QED BY <3>3, <4>1, <4>2
    <3>6. Slot(p) = flash[u][k] /\ flash[u][k] \in Nat /\ flash[t][j] \in Nat
      BY <1>1, <3>1, SlotOf DEF TypeOK
    <3> QED BY <2>1, <3>5, <3>6
  <2>3. NextRead(o) = q
    BY <1>4
  <2> HIDE DEF q
  <2> QED BY <2>1, <2>2, <2>3 DEF FindsOldest
<1>5. ASSUME \A t \in Sectors, j \in Indices : ~New(t, j),
             Found(NextRead(o), FALSE) = None
      PROVE  FindsOldest(Found(NextRead(o), FALSE), {p \in Used : Slot(p) > Slot(o)})
  <2>1. ASSUME NEW p \in Used, Slot(p) > Slot(o) PROVE FALSE
    <3>1. PICK u \in Sectors, k \in Indices : p = ToOffset(u, k) /\ flash[u][k] # Erased
      BY UsedIs
    <3>2. New(u, k)
      BY <1>3, <2>1, <3>1
    <3> QED BY <1>5, <3>2
  <2> QED BY <1>5, <2>1 DEF FindsOldest
<1>6. /\ i \in Nat /\ PerSector \in Nat \ {0} /\ NumSectors \in Nat \ {0} /\ n \in Nat
      /\ \A t \in Sectors : Back(t, h) \in 0..(NumSectors - 1) /\ (Back(t, h) = 0 <=> t = h)
  <2>1. \A t \in Sectors : Back(t, h) \in 0..(NumSectors - 1) /\ (Back(t, h) = 0 <=> t = h)
    BY BackIs
  <2>2. i \in Nat /\ PerSector \in Nat \ {0} /\ NumSectors \in Nat \ {0} /\ n \in Nat
    BY Geometry
  <2> QED BY <2>1, <2>2
<1>7. NextRead(o) = IF i + 1 < PerSector THEN ToOffset(s, i + 1) ELSE ToOffset(After(s), 0)
  BY <1>2, NextReadIs
<1>8. tail * SectorSize = ToOffset(tail, 0)
  BY <1>1, SlotOf
<1>9. n # 0 /\ ~Blank(s)
  BY <1>1, <1>2 DEF Layout, Blank
<1>10. \A u \in Sectors, k \in Indices : Back(u, h) = Back(s, h) => u = s
  BY BackOfAfter
<1>11. CASE i + 1 < PerSector
  <2>1. i + 1 \in Indices /\ ToOffset(s, i + 1) # tail * SectorSize
    <3>1. i + 1 \in Indices /\ i + 1 # 0
      BY <1>6, <1>11, Geometry
    <3> QED BY <1>1, <1>8, <3>1, SlotOf
  <2>2. CASE flash[s][i + 1] # Erased
    <3>1. New(s, i + 1)
      BY <1>6, <2>2
    <3>2. ASSUME NEW u \in Sectors, NEW k \in Indices, New(u, k)
          PROVE  Back(u, h) < Back(s, h) \/ (u = s /\ i + 1 <= k)
      BY <1>6, <3>2, Geometry
    <3> QED BY <1>4, <1>7, <1>11, <2>1, <3>1, <3>2
  <2>3. CASE flash[s][i + 1] = Erased
    <3>1. s = h
      <4>1. ~Full(s)
        BY <2>1, <2>3 DEF Full
      <4> QED BY <1>1, <1>9, <4>1, NextIsUsed
    <3>2. \A t \in Sectors, j \in Indices : ~New(t, j)
      <4>1. \A j \in Indices : i < j => flash[h][j] = Erased
        <5>1. ~(i + 1 < n)
          BY <1>1, <2>1, <2>3, <3>1 DEF Layout, FilledTo
        <5> QED BY <1>1, <1>6, <5>1, Geometry DEF Layout, FilledTo
      <4>2. SUFFICES ASSUME NEW t \in Sectors, NEW j \in Indices, New(t, j)
                     PROVE  FALSE
        OBVIOUS
      <4>3. flash[t][j] # Erased /\ (Back(t, h) < Back(s, h) \/ (s = t /\ i < j))
        BY <4>2
      <4>4. ~(Back(t, h) < Back(s, h))
        <5>1. Back(t, h) \in 0..(NumSectors - 1) /\ Back(s, h) = 0
          BY <1>6, <3>1
        <5> QED BY <5>1
      <4>5. t = h /\ i < j
        BY <3>1, <4>3, <4>4
      <4> QED BY <4>1, <4>3, <4>5
    <3>3. Slot(NextRead(o)) = Erased
      BY <1>7, <1>11, <2>1, <2>3, SlotOf
    <3> QED BY <1>5, <3>2, <3>3 DEF Found
  <2> QED BY <2>2, <2>3
<1>12. CASE i + 1 = PerSector /\ s # h
  <2>1. After(s) \in Sectors /\ flash[After(s)][0] # Erased
    BY <1>1, <1>9, <1>12, NextIsUsed
  <2>2. Back(After(s), h) = Back(s, h) - 1
    BY <1>12, BackOfAfter
  <2>3. New(After(s), 0)
    BY <1>6, <2>1, <2>2
  <2>4. ToOffset(After(s), 0) # tail * SectorSize
    <3>1. Back(s, h) <= Back(tail, h)
      BY <1>9 DEF Oldest
    <3>2. After(s) # tail
      BY <1>1, <1>6, <2>2, <3>1
    <3> QED BY <1>1, <1>8, <2>1, <3>2, SlotOf
  <2>5. ASSUME NEW u \in Sectors, NEW k \in Indices, New(u, k)
        PROVE  Back(u, h) < Back(After(s), h) \/ (u = After(s) /\ 0 <= k)
    <3>1. ~(s = u /\ i < k)
      BY <1>6, <1>12, Geometry
    <3>2. Back(u, h) < Back(s, h)
      BY <2>5, <3>1
    <3>3. Back(u, h) = Back(After(s), h) => u = After(s)
      BY <2>1, BackOfAfter
    <3> QED BY <1>6, <2>1, <2>2, <3>2, <3>3, Geometry
  <2>6. NextRead(o) = ToOffset(After(s), 0)
    BY <1>6, <1>7, <1>12
  <2> HIDE DEF New
  <2> QED BY <1>1, <1>4, <2>1, <2>3, <2>4, <2>5, <2>6
<1>13. CASE i + 1 = PerSector /\ s = h
  <2>1. \A t \in Sectors, j \in Indices : ~New(t, j)
    BY <1>6, <1>13, Geometry
  <2>2. After(h) \in Sectors /\ Back(After(h), h) = NumSectors - 1
    BY AfterIs, BackIs
  <2>3. NextRead(o) = ToOffset(After(h), 0)
    BY <1>6, <1>7, <1>13
  <2>4. CASE Blank(After(h))
    <3>1. Slot(NextRead(o)) = Erased
      BY <1>1, <2>2, <2>3, <2>4, SlotOf DEF Blank
    <3> QED BY <1>5, <2>1, <3>1 DEF Found
  <2>5. CASE ~Blank(After(h))
    <3>1. Back(After(h), h) <= Back(tail, h)
      BY <2>2, <2>5 DEF Oldest
    <3>2. Back(After(h), h) = Back(tail, h)
      BY <1>1, <1>6, <2>2, <3>1
    <3>3. After(h) = tail
      BY <1>1, <2>2, <3>2, BackOfAfter
    <3>4. NextRead(o) = tail * SectorSize
      BY <1>8, <2>3, <3>3
    <3> QED BY <1>5, <2>1, <3>4 DEF Found
  <2> QED BY <2>4, <2>5
<1>14. i + 1 < PerSector \/ i + 1 = PerSector
  BY Geometry
<1> QED BY <1>11, <1>12, <1>13, <1>14

-----------------------------------------------------------------------------
(* The steps keep the order and the newest entries.                          *)

Bounded == \A s \in Sectors : \A i \in Indices : flash[s][i] <= total
InRing  == \E h \in Sectors, n \in 0..PerSector :
             Ordered(h, n) /\ (Mounted => HeadFollows(h, n) /\ Oldest(h))
Sound   == mode # "format" /\ ~half
LogInv  == WriteInv /\ (Sound => Bounded /\ InRing /\ Kept)

\* The order of entries holds at the start; then for each step.
LEMMA StartsInOrder ==
  ASSUME Assumptions, Init
  PROVE  LogInv
<1>1. \A s \in Sectors : \A i \in Indices : flash[s][i] = Erased
  BY DEF Init
<1>2. ~Mounted /\ total = 0 /\ wiped = 0
  BY DEF Init, Mounted
<1>3. Bounded
  BY <1>1, <1>2, Geometry DEF Bounded
<1>4. InRing
  <2>1. 0 \in Sectors /\ 0 \in 0..PerSector /\ Ordered(0, 0)
    BY <1>1, BlankIsOrdered, Geometry
  <2> QED BY <1>2, <2>1 DEF InRing
<1>5. Kept
  BY <1>2 DEF Kept
<1> QED BY <1>3, <1>4, <1>5, Starts DEF LogInv

\* The order and what is kept depend on the flash and the counters only.
LEMMA SameFlash ==
  ASSUME UNCHANGED <<flash, total, wiped, failed>>
  PROVE  /\ Bounded => Bounded'
         /\ Kept => Kept'
         /\ \A h \in Sectors, n \in 0..PerSector : Ordered(h, n) => Ordered(h, n)'
         /\ tail' = tail => \A h \in Sectors : Oldest(h) => Oldest(h)'
<1>1. Bounded => Bounded'
  BY DEF Bounded
<1>2. Kept => Kept'
  BY DEF Kept, Entries
<1>3. ASSUME NEW h \in Sectors, NEW n \in 0..PerSector, Ordered(h, n) PROVE Ordered(h, n)'
  BY <1>3 DEF Ordered, Layout, FilledTo, FirstLap, Lapped, Full, Blank, InOrder, Ranked
<1>4. ASSUME tail' = tail, NEW h \in Sectors, Oldest(h) PROVE Oldest(h)'
  BY <1>4 DEF Oldest, Blank
<1> QED BY <1>1, <1>2, <1>3, <1>4

LEMMA MountKeepsOrder ==
  ASSUME Assumptions, PerSector > 1, LogInv, Mount
  PROVE  LogInv'
<1>1. mode = "off" /\ mode' = "ready" /\ UNCHANGED <<flash, total, wiped, failed, half>>
  BY DEF Mount, past
<1> SUFFICES ASSUME Sound PROVE Bounded' /\ InRing' /\ Kept'
  BY <1>1, MountKeeps DEF LogInv, Sound
<1>2. Bounded /\ InRing /\ Kept /\ FlashType /\ FlashInv
  BY DEF LogInv, WriteInv, TypeOK, FlashType
<1>3. PICK h \in Sectors, n \in 0..PerSector : Ordered(h, n)
  BY <1>2 DEF InRing
<1>4. Layout(h, n)
  BY <1>3 DEF Ordered
<1>5. \/ n < PerSector /\ head' = ToOffset(h, n)
      \/ n = PerSector /\ head' = ToOffset(After(h), 0)
  BY <1>2, <1>4, MountFollows
<1>6. HeadFollows(h, n)'
  BY <1>5, PlaceIsFollowed
<1>7. Oldest(h)'
  BY <1>2, <1>4, MountFindsOldest
<1>8. InRing'
  BY <1>1, <1>3, <1>6, <1>7, SameFlash DEF InRing
<1> QED BY <1>1, <1>2, <1>8, SameFlash

LEMMA PrepareKeepsOrder ==
  ASSUME Assumptions, PerSector > 1, LogInv, Prepare
  PROVE  LogInv'
<1>1. mode = "ready" /\ mode' = "prepared" /\ UNCHANGED past /\ UNCHANGED <<total, wiped, failed, half>>
  BY DEF Prepare, past
<1> SUFFICES ASSUME Sound PROVE Bounded' /\ InRing' /\ Kept'
  BY <1>1, PrepareKeeps DEF LogInv, Sound
<1>2. Bounded /\ InRing /\ Kept /\ WriteInv /\ HeadInv /\ FlashType /\ total \in Nat
  <2>1. Mounted
    BY <1>1 DEF Mounted
  <2>2. HeadInv /\ TypeOK
    BY <2>1 DEF LogInv, WriteInv
  <2> QED BY <2>2, Geometry DEF LogInv, TypeOK, FlashType
<1>3. PICK h \in Sectors, n \in 0..PerSector : Ordered(h, n) /\ HeadFollows(h, n) /\ Oldest(h)
  BY <1>1, <1>2 DEF InRing, Mounted
<1>4. PICK w \in Sectors, j \in Indices : w = WriteSector /\ j = WriteIndex
  BY <1>2, WritePlace
<1>5. /\ PerSector \in Nat /\ n \in Nat /\ n <= PerSector /\ j \in 0..PerSector /\ j < PerSector /\ Erased = 0
      /\ 0 \in Sectors /\ 0 \in 0..PerSector /\ 0 < PerSector /\ NumSectors \in Nat
  BY <1>4, Geometry
<1>6. CASE j # PerSector - 1
  <2>1. head' = ToOffset(w, j) /\ UNCHANGED <<flash, tail>>
    BY <1>4, <1>6 DEF Prepare
  <2>2. WriteSector' = w /\ WriteIndex' = j
    BY <1>5, <2>1, PlaceIs, PlaceOfHead
  <2>3. HeadFollows(h, n)'
    BY <1>1, <1>3, <1>4, <2>1, <2>2 DEF HeadFollows
  <2>4. InRing'
    BY <1>1, <1>3, <2>1, <2>3, SameFlash DEF InRing
  <2> QED BY <1>1, <1>2, <2>1, <2>4, SameFlash
<1>7. CASE j = PerSector - 1
  <2>1. flash' = EraseOf(After(WriteSector)) /\ head' = IF NumSectors = 1 THEN 0 ELSE ToOffset(w, j)
    BY <1>4, <1>7 DEF Prepare
  <2>2. /\ Kept'
        /\ w = h /\ (n = PerSector - 1 \/ (n = PerSector /\ flash[h][n - 1] \in failed))
        /\ NumSectors = 1 => \A s \in Sectors : \A i \in Indices : flash'[s][i] = Erased
        /\ NumSectors # 1 => /\ Ordered(h, n)'
                             /\ \A i \in Indices : flash'[h][i] = flash[h][i]
    BY <1>1, <1>2, <1>3, <1>4, <1>7, <2>1, ErasedIsOldest
  <2>3. Bounded'
    <3> SUFFICES ASSUME NEW s \in Sectors, NEW i \in Indices PROVE flash'[s][i] <= total
      BY <1>1 DEF Bounded
    <3>1. flash'[s][i] = flash[s][i] \/ flash'[s][i] = Erased
      BY <1>2, <2>1 DEF EraseOf, FlashType
    <3>2. flash[s][i] <= total
      BY <1>2 DEF Bounded
    <3>3. Erased <= total
      BY <1>2, <1>5
    <3> QED BY <3>1, <3>2, <3>3
  <2>4. CASE NumSectors = 1
    <3>1. Ordered(0, 0)' /\ head' = ToOffset(0, 0)
      BY <2>1, <2>2, <2>4, BlankIsOrdered, OffsetOfZero
    <3>2. HeadFollows(0, 0)'
      BY <1>5, <3>1, PlaceIsFollowed
    <3>3. Oldest(0)'
      <4>1. tail' \in Sectors
        BY <1>2, PrepareKeeps DEF WriteInv, TypeOK
      <4>2. tail' = 0
        BY <2>4, <4>1, Geometry
      <4> QED BY <1>5, <2>2, <2>4, <4>2, EmptyIsOldest
    <3>4. InRing'
      BY <1>5, <3>1, <3>2, <3>3 DEF InRing
    <3> QED BY <2>2, <2>3, <3>4
  <2>5. CASE NumSectors # 1
    <3>1. WriteSector' = w /\ WriteIndex' = j
      BY <1>5, <2>1, <2>5, PlaceIs, PlaceOfHead
    <3>2. HeadFollows(h, n)'
      <4>1. CASE n = PerSector - 1
        BY <1>5, <1>7, <2>2, <3>1, <4>1 DEF HeadFollows
      <4>2. CASE n = PerSector /\ flash[h][n - 1] \in failed
        <5>1. n - 1 \in Indices /\ n > 0 /\ n - 1 = j
          BY <1>4, <1>5, <1>7, <4>2
        <5>2. flash'[h][n - 1] \in failed'
          BY <1>1, <2>2, <2>5, <4>2, <5>1
        <5> QED BY <2>2, <3>1, <5>1, <5>2 DEF HeadFollows
      <4> QED BY <2>2, <4>1, <4>2
    <3>3. Oldest(h)'
      <4>1. n \in 1..PerSector
        BY <1>5, <2>2
      <4>2. tail \in Sectors /\ FlashInv /\ Layout(h, n)
        BY <1>2, <1>3 DEF WriteInv, TypeOK, Ordered
      <4> QED BY <1>2, <1>3, <1>4, <1>7, <2>2, <2>5, <4>1, <4>2, PrepareKeepsOldest
    <3>4. InRing'
      BY <2>2, <2>5, <3>2, <3>3 DEF InRing
    <3> QED BY <2>2, <2>3, <3>4
  <2> QED BY <2>4, <2>5
<1> QED BY <1>6, <1>7

\* An entry is programmed, whoever hears of it.
LEMMA ProgrammedInOrder ==
  ASSUME Assumptions, PerSector > 1, LogInv, Sound, mode = "prepared", flash' = Programmed,
         total' = total + 1, wiped' = wiped, failed \subseteq failed'
  PROVE  /\ Bounded' /\ Kept' /\ head = ToOffset(WriteSector, WriteIndex)
         /\ \E g \in Sectors, m \in 1..PerSector :
              /\ Ordered(g, m)' /\ WriteSector = g /\ WriteIndex = m - 1 /\ flash'[g][m - 1] = total + 1
              /\ tail' = tail => Oldest(g)'
<1>1. Bounded /\ InRing /\ Kept /\ WriteInv /\ Mounted
  BY DEF LogInv, Mounted
<1>2. HeadInv /\ TypeOK /\ FlashInv
  BY <1>1 DEF WriteInv
<1>3. PICK h \in Sectors, n \in 0..PerSector : Ordered(h, n) /\ HeadFollows(h, n) /\ Oldest(h)
  BY <1>1 DEF InRing
<1>4. \A s \in Sectors : \A i \in Indices : flash[s][i] <= total
  BY <1>1 DEF Bounded
<1>5. /\ \A s \in Sectors : \A i \in Indices : flash'[s][i] <= total'
      /\ \E g \in Sectors, m \in 1..PerSector :
           Ordered(g, m)' /\ WriteSector = g /\ WriteIndex = m - 1 /\ flash'[g][m - 1] = total + 1
  BY <1>1, <1>3, <1>4, ProgrammedIsNewest
<1>6. head = ToOffset(WriteSector, WriteIndex)
  BY <1>2, WritePlace
<1>7. Kept'
  BY <1>1, ProgrammedIsKept
<1>8. ASSUME NEW g \in Sectors, WriteSector = g, tail' = tail PROVE Oldest(g)'
  BY <1>2, <1>3, <1>8, ProgramKeepsOldest DEF Ordered
<1> QED BY <1>5, <1>6, <1>7, <1>8 DEF Bounded

LEMMA ProgramKeepsOrder ==
  ASSUME Assumptions, PerSector > 1, LogInv, Program \/ ProgramFails
  PROVE  LogInv'
<1>1. mode = "prepared" /\ mode' = "ready" /\ UNCHANGED <<wiped, half>>
  BY DEF Program, ProgramFails
<1> SUFFICES ASSUME Sound PROVE Bounded' /\ InRing' /\ Kept'
  BY <1>1, ProgramKeeps DEF LogInv, Sound
<1>2. /\ PerSector \in Nat /\ EntrySize = 2 /\ SectorSize \in Nat
      /\ \A m \in 1..PerSector : m \in 0..PerSector /\ m > 0
  BY Geometry DEF SectorSize
<1>3. CASE Program
  <2>1. /\ flash' = Programmed /\ total' = total + 1 /\ head' = head + EntrySize /\ failed' = failed
        /\ tail' = tail
    BY <1>3 DEF Program
  <2>2. PICK g \in Sectors, m \in 1..PerSector :
          /\ Ordered(g, m)' /\ WriteSector = g /\ WriteIndex = m - 1 /\ flash'[g][m - 1] = total + 1
          /\ Oldest(g)'
    BY <1>1, <2>1, ProgrammedInOrder
  <2>3. head' = ToOffset(g, m)
    <3>1. head = ToOffset(g, m - 1)
      BY <1>1, <2>1, <2>2, ProgrammedInOrder
    <3>2. PICK b \in Int : b = g * SectorSize
      BY <1>2, Geometry
    <3> QED BY <1>2, <2>1, <3>1, <3>2 DEF ToOffset
  <2>4. HeadFollows(g, m)'
    BY <1>2, <2>3, PlaceIsFollowed
  <2>5. InRing'
    BY <1>2, <2>2, <2>4 DEF InRing
  <2> QED BY <1>1, <2>1, <2>5, ProgrammedInOrder
<1>4. CASE ProgramFails
  <2>1. /\ UNCHANGED ram
        /\ \/ UNCHANGED <<flash, total, failed>>
           \/ flash' = Programmed /\ total' = total + 1 /\ failed' = failed \cup {total + 1}
    BY <1>4 DEF ProgramFails
  <2>2. WriteSector' = WriteSector /\ WriteIndex' = WriteIndex /\ tail' = tail
    BY <2>1, PlaceOfHead DEF ram
  <2>3. CASE UNCHANGED <<flash, total, failed>>
    <3>1. Bounded /\ InRing /\ Kept /\ Mounted
      BY <1>1 DEF LogInv, Mounted
    <3>2. PICK h \in Sectors, n \in 0..PerSector : Ordered(h, n) /\ HeadFollows(h, n) /\ Oldest(h)
      BY <3>1 DEF InRing
    <3>3. HeadFollows(h, n)'
      BY <2>2, <2>3, <3>2 DEF HeadFollows
    <3>4. InRing'
      BY <1>1, <2>2, <2>3, <3>2, <3>3, SameFlash DEF InRing
    <3> QED BY <1>1, <2>3, <3>1, <3>4, SameFlash
  <2>4. CASE flash' = Programmed /\ total' = total + 1 /\ failed' = failed \cup {total + 1}
    <3>1. PICK g \in Sectors, m \in 1..PerSector :
            /\ Ordered(g, m)' /\ WriteSector = g /\ WriteIndex = m - 1 /\ flash'[g][m - 1] = total + 1
            /\ Oldest(g)'
      BY <1>1, <2>2, <2>4, ProgrammedInOrder
    <3>2. HeadFollows(g, m)'
      BY <1>2, <2>2, <2>4, <3>1 DEF HeadFollows
    <3>3. InRing'
      BY <1>2, <3>1, <3>2 DEF InRing
    <3> QED BY <1>1, <2>4, <3>3, ProgrammedInOrder
  <2> QED BY <2>1, <2>3, <2>4
<1> QED BY <1>3, <1>4

LEMMA ReadKeepsOrder ==
  ASSUME Assumptions, LogInv, ReadInit \/ ReadNext \/ UNCHANGED vars
  PROVE  LogInv'
<1>1. UNCHANGED <<flash, ram, mode, past>> /\ WriteInv'
  BY ReadKeeps, Steps DEF ReadInit, ReadNext, LogInv, vars
<1>2. /\ UNCHANGED <<flash, tail, mode, total, wiped, failed, half>>
      /\ WriteSector' = WriteSector /\ WriteIndex' = WriteIndex
  BY <1>1, PlaceOfHead DEF ram, past
<1> SUFFICES ASSUME Sound PROVE Bounded' /\ InRing' /\ Kept'
  BY <1>1, <1>2 DEF LogInv, Sound
<1>3. PICK h \in Sectors, n \in 0..PerSector : Ordered(h, n) /\ (Mounted => HeadFollows(h, n) /\ Oldest(h))
  BY DEF LogInv, InRing
<1>4. Ordered(h, n)' /\ (Mounted' => HeadFollows(h, n)' /\ Oldest(h)')
  BY <1>2, <1>3, SameFlash DEF Mounted, HeadFollows
<1> QED BY <1>2, <1>4, SameFlash DEF LogInv, InRing

LEMMA FormatKeepsOrder ==
  ASSUME Assumptions, LogInv, FormatBegin \/ FormatErase \/ FormatEnd
  PROVE  LogInv'
<1>1. WriteInv'
  BY FormatKeeps DEF LogInv
<1>2. CASE FormatBegin \/ FormatErase
  <2>1. mode' = "format"
    BY <1>2 DEF FormatBegin, FormatErase
  <2> QED BY <1>1, <2>1 DEF LogInv, Sound
<1>3. CASE FormatEnd
  <2>1. /\ mode = "format" /\ erasing = NumSectors /\ head' = 0 /\ tail' = 0 /\ wiped' = total
        /\ UNCHANGED <<flash, total, failed>>
    BY <1>3 DEF FormatEnd
  <2>2. FlashInv /\ TypeOK
    BY DEF LogInv, WriteInv
  <2>3. \A s \in Sectors : \A i \in Indices : flash'[s][i] = Erased
    BY <2>1, <2>2, Geometry DEF FlashInv, Blank
  <2>4. total \in Nat /\ Erased = 0 /\ 0 \in Sectors /\ 0 \in 0..PerSector /\ 0 < PerSector
    BY <2>2, Geometry DEF TypeOK
  <2>5. Bounded'
    BY <2>1, <2>3, <2>4 DEF Bounded
  <2>6. Kept'
    BY <2>1, <2>4 DEF Kept
  <2>7. InRing'
    <3>1. Ordered(0, 0)' /\ head' = ToOffset(0, 0)
      BY <2>1, <2>3, BlankIsOrdered, OffsetOfZero
    <3>2. HeadFollows(0, 0)'
      BY <2>4, <3>1, PlaceIsFollowed
    <3>3. Oldest(0)'
      BY <2>1, <2>3, <2>4, EmptyIsOldest
    <3> QED BY <2>4, <3>1, <3>2, <3>3 DEF InRing
  <2> QED BY <1>1, <2>5, <2>6, <2>7 DEF LogInv
<1> QED BY <1>2, <1>3

LEMMA CrashKeepsOrder ==
  ASSUME Assumptions, PerSector > 1, LogInv, Crash
  PROVE  LogInv'
<1>1. /\ mode' = "off" /\ half' = (half \/ mode = "format") /\ UNCHANGED <<wiped, failed>>
      /\ \/ UNCHANGED <<flash, total>>
         \/ mode = "prepared" /\ flash' = Programmed /\ total' = total + 1
  BY DEF Crash
<1>2. WriteInv'
  BY CrashKeeps DEF LogInv
<1>3. half \in BOOLEAN
  BY DEF LogInv, WriteInv, TypeOK
<1> SUFFICES ASSUME Sound PROVE Bounded' /\ InRing' /\ Kept'
  BY <1>1, <1>2, <1>3 DEF LogInv, Sound
<1>4. ~Mounted'
  BY <1>1 DEF Mounted
<1>5. \A m \in 1..PerSector : m \in 0..PerSector
  BY Geometry
<1>6. CASE UNCHANGED <<flash, total>>
  <2>1. PICK h \in Sectors, n \in 0..PerSector : Ordered(h, n)
    BY DEF LogInv, InRing
  <2>2. Ordered(h, n)'
    BY <1>1, <1>6, <2>1, SameFlash
  <2> QED BY <1>1, <1>4, <1>6, <2>2, SameFlash DEF LogInv, InRing
<1>7. CASE mode = "prepared" /\ flash' = Programmed /\ total' = total + 1
  <2>1. PICK g \in Sectors, m \in 1..PerSector : Ordered(g, m)'
    BY <1>1, <1>7, ProgrammedInOrder
  <2>2. InRing'
    BY <1>4, <1>5, <2>1 DEF InRing
  <2> QED BY <1>1, <1>7, <2>2, ProgrammedInOrder
<1> QED BY <1>1, <1>6, <1>7

\* Every step keeps the order of entries.
LEMMA StepsInOrder ==
  ASSUME Assumptions, PerSector > 1, LogInv, [Next]_vars
  PROVE  LogInv'
BY MountKeepsOrder, PrepareKeepsOrder, ProgramKeepsOrder, ReadKeepsOrder, FormatKeepsOrder,
   CrashKeepsOrder DEF Next

\* A log in its order reads back whole.
LEMMA ReadsAll ==
  ASSUME Assumptions, LogInv
  PROVE  ReadsAllInOrder
<1> SUFFICES ASSUME Mounted, ~half
             PROVE  /\ FindsOldest(Found(ToOffset(tail, 0), TRUE), Used)
                    /\ \A o \in Used : FindsOldest(Found(NextRead(o), FALSE), {p \in Used : Slot(p) > Slot(o)})
  BY DEF ReadsAllInOrder
<1>1. WriteInv /\ \E h \in Sectors, n \in 0..PerSector : Ordered(h, n) /\ Oldest(h)
  BY DEF LogInv, Sound, InRing, Mounted
<1>2. PICK h \in Sectors, n \in 0..PerSector : Ordered(h, n) /\ Oldest(h)
  BY <1>1
<1>3. FindsOldest(Found(ToOffset(tail, 0), TRUE), Used)
  BY <1>1, <1>2, FirstIsOldest
<1>4. ASSUME NEW o \in Used
      PROVE  FindsOldest(Found(NextRead(o), FALSE), {p \in Used : Slot(p) > Slot(o)})
  BY <1>1, <1>2, NextIsNewer
<1> QED BY <1>3, <1>4

-----------------------------------------------------------------------------
(* The steps keep an iteration going forward, whatever the writer does to the  *)
(* sector it is in.  This needs less than LogInv: within a sector and from its *)
(* end to the next one's start entries get newer, also where a format was cut  *)
(* short, and the iterator is at an erased slot, at an entry newer than the    *)
(* last one it delivered, or back at the tail, where it ends.                  *)

Increasing ==
  /\ \A s \in Sectors : \A i, j \in Indices : i < j /\ flash[s][j] # Erased => flash[s][i] < flash[s][j]
  /\ \A s \in Sectors : ~Solo /\ flash[s][PerSector - 1] # Erased /\ flash[After(s)][0] # Erased
       => flash[s][PerSector - 1] < flash[After(s)][0]

Advances ==
  /\ got <= total /\ (mode = "off" \/ start => got = 0)
  /\ got # 0 => \E s \in Sectors, i \in Indices :
                  /\ read = ToOffset(s, i)
                  /\ flash[s][i] = Erased \/ flash[s][i] > got \/ (s = tail /\ i = 0)

ReadInv == WriteInv /\ Bounded /\ Increasing /\ Advances

\* What is not written stays increasing.
LEMMA SameIncreases ==
  ASSUME Bounded, Increasing, UNCHANGED <<flash, total>>
  PROVE  Bounded' /\ Increasing'
BY DEF Bounded, Increasing

\* Erasing a sector leaves the others increasing.
LEMMA ErasedIncreases ==
  ASSUME Assumptions, FlashType, Bounded, Increasing, total \in Nat, NEW e \in Sectors,
         flash' = EraseOf(e), total' = total
  PROVE  /\ Bounded' /\ Increasing'
         /\ \A s \in Sectors, i \in Indices : flash'[s][i] = IF s = e THEN Erased ELSE flash[s][i]
<1>1. \A s \in Sectors, i \in Indices : flash'[s][i] = IF s = e THEN Erased ELSE flash[s][i]
  BY DEF EraseOf, FlashType
<1>2. Bounded'
  BY <1>1, Geometry DEF Bounded
<1>3. Increasing'
  <2>1. ASSUME NEW s \in Sectors, NEW i \in Indices, NEW j \in Indices, i < j, flash'[s][j] # Erased
        PROVE  flash'[s][i] < flash'[s][j]
    BY <1>1, <2>1 DEF Increasing
  <2>2. ASSUME NEW s \in Sectors, ~Solo, flash'[s][PerSector - 1] # Erased, flash'[After(s)][0] # Erased
        PROVE  flash'[s][PerSector - 1] < flash'[After(s)][0]
    <3>1. After(s) \in Sectors /\ 0 \in Indices /\ PerSector - 1 \in Indices
      BY AfterIs, Geometry
    <3> QED BY <1>1, <2>2, <3>1 DEF Increasing
  <2> QED BY <2>1, <2>2 DEF Increasing
<1> QED BY <1>1, <1>2, <1>3

\* A new entry is newer than all, and there is none behind it.
LEMMA ProgrammedIncreases ==
  ASSUME Assumptions, WriteInv, Bounded, Increasing, mode = "prepared",
         flash' = Programmed, total' = total + 1
  PROVE  /\ Bounded' /\ Increasing'
         /\ \A s \in Sectors, i \in Indices : flash'[s][i] = flash[s][i] \/ flash'[s][i] = total + 1
<1> DEFINE w == WriteSector
           j == WriteIndex
<1>1. TypeOK /\ FlashInv /\ HeadInv /\ w \in Sectors /\ j \in Indices /\ total \in Nat /\ ReadyAt(w, j)
      /\ \A s \in Sectors, i \in Indices : flash[s][i] \in Nat
  <2>1. TypeOK /\ FlashInv /\ HeadInv
    BY DEF WriteInv, Mounted
  <2>2. \A s \in Sectors, i \in Indices : flash[s][i] \in 0..MaxWrites
    BY <2>1 DEF TypeOK
  <2>3. total \in Nat /\ \A s \in Sectors, i \in Indices : flash[s][i] \in Nat
    <3>1. total \in 0..MaxWrites
      BY <2>1 DEF TypeOK
    <3> QED BY <2>2, <3>1, Geometry
  <2>4. w \in Sectors /\ j \in Indices /\ ReadyAt(w, j)
    BY <2>1, WritePlace DEF HeadInv
  <2> QED BY <2>1, <2>3, <2>4
<1>2. /\ \A s \in Sectors, i \in Indices : s # w \/ i # j => flash'[s][i] = flash[s][i]
      /\ flash'[w][j] = total + 1
      /\ j = PerSector - 1 => Solo \/ \A i \in Indices : flash'[After(w)][i] = Erased
  BY <1>1, ProgrammedKeeps
<1> HIDE DEF w, j
<1>3. Bounded'
  BY <1>1, <1>2 DEF Bounded
<1>4. ASSUME NEW s \in Sectors, NEW i \in Indices, NEW k \in Indices, i < k, flash'[s][k] # Erased
      PROVE  flash'[s][i] < flash'[s][k]
  <2>1. flash[s][i] <= total /\ i # k
    BY <1>4, Geometry DEF Bounded
  <2>2. CASE s = w /\ k = j
    BY <1>1, <1>2, <2>1, <2>2
  <2>3. CASE s = w /\ i = j
    <3>1. flash[w][k] = Erased
      BY <1>1, <1>4, <2>3 DEF ReadyAt
    <3> QED BY <1>2, <1>4, <2>1, <2>3, <3>1
  <2>4. CASE s # w \/ (k # j /\ i # j)
    BY <1>2, <1>4, <2>4 DEF Increasing
  <2> QED BY <2>2, <2>3, <2>4
<1>5. ASSUME NEW s \in Sectors, ~Solo, flash'[s][PerSector - 1] # Erased, flash'[After(s)][0] # Erased
      PROVE  flash'[s][PerSector - 1] < flash'[After(s)][0]
  <2>1. After(s) \in Sectors /\ 0 \in Indices /\ PerSector - 1 \in Indices
    BY AfterIs, Geometry
  <2>2. ~(s = w /\ j = PerSector - 1)
    BY <1>2, <1>5, <2>1
  <2>3. flash'[s][PerSector - 1] = flash[s][PerSector - 1] /\ flash[s][PerSector - 1] <= total
    BY <1>2, <2>1, <2>2 DEF Bounded
  <2>4. CASE After(s) = w /\ j = 0
    <3>1. flash'[After(s)][0] = total + 1
      BY <1>2, <2>4
    <3>2. flash[s][PerSector - 1] < total + 1
      BY <1>1, <2>1, <2>3
    <3> QED BY <2>3, <3>1, <3>2
  <2>5. CASE ~(After(s) = w /\ j = 0)
    <3>1. flash'[After(s)][0] = flash[After(s)][0]
      BY <1>2, <2>1, <2>5
    <3> QED BY <1>5, <2>3, <3>1 DEF Increasing
  <2> QED BY <2>4, <2>5
<1>6. Increasing'
  BY <1>4, <1>5 DEF Increasing
<1> QED BY <1>2, <1>3, <1>6

\* What errlog_read_next delivers is newer than what it delivered before.
LEMMA ReadsForward ==
  ASSUME Assumptions, ReadInv, ReadNext
  PROVE  got' > got /\ ReadInv'
<1>1. PICK s \in Sectors, i \in Indices : read = ToOffset(s, i)
  BY DEF ReadInv, WriteInv, IsSlot
<1>2. /\ tail \in Sectors /\ got \in Nat /\ total \in Nat /\ 0 \in Indices
      /\ \A t \in Sectors, j \in Indices : flash[t][j] \in Nat
  <2>1. TypeOK
    BY DEF ReadInv, WriteInv
  <2>2. \A t \in Sectors, j \in Indices : flash[t][j] \in 0..MaxWrites
    BY <2>1 DEF TypeOK
  <2>3. \A t \in Sectors, j \in Indices : flash[t][j] \in Nat
    BY <2>2, Geometry
  <2>4. tail \in Sectors /\ got \in Nat /\ total \in Nat /\ 0 \in Indices
    BY <2>1, Geometry DEF TypeOK
  <2> QED BY <2>3, <2>4
<1>3. Slot(read) = flash[s][i] /\ \A t \in Sectors, j \in Indices : read = ToOffset(t, j) => s = t /\ i = j
  BY <1>1, SlotOf
<1>4. tail * SectorSize = ToOffset(tail, 0)
  BY <1>2, SlotOf
<1>5. /\ UNCHANGED <<flash, ram, mode, erasing, past>>
      /\ got' = flash[s][i] /\ start' = FALSE /\ flash[s][i] # Erased
      /\ ~(s = tail /\ i = 0 /\ ~start) /\ mode # "off"
  BY <1>1, <1>3, <1>4 DEF ReadNext, Found, None, Mounted
<1>6. got' > got
  <2>1. CASE got = 0
    BY <1>2, <1>5, <2>1, Geometry
  <2>2. CASE got # 0
    <3>1. ~start /\ flash[s][i] > got
      BY <1>3, <1>5, <2>2 DEF ReadInv, Advances
    <3> QED BY <1>5, <3>1
  <2> QED BY <2>1, <2>2
<1>7. read' = IF i + 1 < PerSector THEN ToOffset(s, i + 1) ELSE ToOffset(After(s), 0)
  BY <1>1, NextReadIs DEF ReadNext
<1>8. UNCHANGED <<flash, tail, total, mode>> /\ After(s) \in Sectors
  BY <1>5, AfterIs DEF ram, past
<1>9. \E t \in Sectors, k \in Indices : /\ read' = ToOffset(t, k)
                                        /\ flash[t][k] = Erased \/ flash[t][k] > flash[s][i] \/ (t = tail /\ k = 0)
  <2>1. CASE i + 1 < PerSector
    <3>1. i + 1 \in Indices /\ i < i + 1
      BY <2>1, Geometry
    <3>2. flash[s][i + 1] = Erased \/ flash[s][i] < flash[s][i + 1]
      BY <3>1 DEF ReadInv, Increasing
    <3>3. flash[s][i + 1] = Erased \/ flash[s][i + 1] > flash[s][i]
      BY <1>2, <3>1, <3>2
    <3> QED BY <1>7, <2>1, <3>1, <3>3
  <2>2. CASE ~(i + 1 < PerSector)
    <3>1. i = PerSector - 1 /\ read' = ToOffset(After(s), 0)
      BY <1>7, <2>2, Geometry
    <3>2. CASE Solo
      <4>1. After(s) = tail
        BY <1>2, <1>8, <3>2, Geometry DEF Solo
      <4> QED BY <1>2, <1>8, <3>1, <4>1
    <3>3. CASE ~Solo
      <4>1. flash[After(s)][0] = Erased \/ flash[s][i] < flash[After(s)][0]
        BY <1>5, <3>1, <3>3 DEF ReadInv, Increasing
      <4>2. flash[After(s)][0] = Erased \/ flash[After(s)][0] > flash[s][i]
        BY <1>2, <1>8, <4>1
      <4> QED BY <1>2, <1>8, <3>1, <4>2
    <3> QED BY <3>2, <3>3
  <2> QED BY <2>1, <2>2
<1>10. Advances'
  <2>1. got' <= total'
    BY <1>2, <1>5, <1>8 DEF ReadInv, Bounded
  <2> QED BY <1>5, <1>8, <1>9, <2>1 DEF Advances
<1>11. WriteInv' /\ Bounded' /\ Increasing'
  BY <1>8, ReadKeeps, SameIncreases DEF ReadInv
<1> QED BY <1>6, <1>10, <1>11 DEF ReadInv

\* The reading invariant holds at the start and from step to step.
LEMMA StartsForward ==
  ASSUME Assumptions, Init
  PROVE  ReadInv
<1>1. \A s \in Sectors, i \in Indices : flash[s][i] = 0
  BY Geometry DEF Init
<1>2. total = 0 /\ got = 0 /\ 0 \in Indices /\ PerSector - 1 \in Indices
  BY Geometry DEF Init
<1>3. Bounded /\ Advances
  BY <1>1, <1>2 DEF Bounded, Advances
<1>4. Increasing
  BY <1>1, <1>2, Geometry DEF Increasing
<1> QED BY <1>3, <1>4, Starts DEF ReadInv

\* The writer leaves the iterator where it is, or erases the sector it is in.
LEMMA WritesForward ==
  ASSUME Assumptions, ReadInv, Prepare \/ Program \/ ProgramFails
  PROVE  ReadInv'
<1>1. /\ TypeOK /\ FlashType /\ HeadInv /\ total \in Nat /\ got \in Nat /\ tail \in Sectors
      /\ WriteSector \in Sectors
  <2>1. TypeOK /\ HeadInv
    BY DEF ReadInv, WriteInv, Prepare, Program, ProgramFails, Mounted
  <2>2. total \in Nat /\ got \in Nat /\ tail \in Sectors
    BY <2>1, Geometry DEF TypeOK
  <2> QED BY <2>1, <2>2, WritePlace DEF TypeOK, FlashType
<1>2. WriteInv' /\ UNCHANGED iter /\ mode # "off" /\ mode' # "off"
  BY PrepareKeeps, ProgramKeeps DEF ReadInv, Prepare, Program, ProgramFails
<1>3. CASE Prepare
  <2>1. PICK e \in Sectors : e = After(WriteSector)
    BY <1>1, AfterIs
  <2>2. total' = total
        /\ \/ UNCHANGED <<flash, tail>>
           \/ flash' = EraseOf(e) /\ (tail' = tail \/ e = tail)
    BY <1>3, <2>1 DEF Prepare, past
  <2>3. CASE UNCHANGED <<flash, tail>>
    <3>1. Bounded' /\ Increasing'
      BY <2>2, <2>3, SameIncreases DEF ReadInv
    <3>2. Advances'
      BY <1>2, <2>2, <2>3 DEF ReadInv, Advances, iter
    <3> QED BY <1>2, <3>1, <3>2 DEF ReadInv
  <2>4. CASE flash' = EraseOf(e) /\ (tail' = tail \/ e = tail)
    <3>1. /\ Bounded' /\ Increasing'
          /\ \A s \in Sectors, i \in Indices : flash'[s][i] = IF s = e THEN Erased ELSE flash[s][i]
      BY <1>1, <2>2, <2>4, ErasedIncreases DEF ReadInv
    <3>2. ASSUME got # 0
          PROVE  \E s \in Sectors, i \in Indices :
                   /\ read = ToOffset(s, i)
                   /\ flash'[s][i] = Erased \/ flash'[s][i] > got \/ (s = tail' /\ i = 0)
      <4>1. PICK s \in Sectors, i \in Indices :
                   /\ read = ToOffset(s, i)
                   /\ flash[s][i] = Erased \/ flash[s][i] > got \/ (s = tail /\ i = 0)
        BY <3>2 DEF ReadInv, Advances
      <4>2. flash'[s][i] = Erased \/ flash'[s][i] > got \/ (s = tail' /\ i = 0)
        BY <2>4, <3>1, <4>1
      <4> QED BY <4>1, <4>2
    <3>3. Advances'
      BY <1>2, <2>2, <3>2 DEF ReadInv, Advances, iter
    <3> QED BY <1>2, <3>1, <3>3 DEF ReadInv
  <2> QED BY <2>2, <2>3, <2>4
<1>4. CASE Program \/ ProgramFails
  <2>1. mode = "prepared" /\ tail' = tail
        /\ \/ UNCHANGED <<flash, total>>
           \/ flash' = Programmed /\ total' = total + 1
    BY <1>4 DEF Program, ProgramFails, ram
  <2>2. CASE UNCHANGED <<flash, total>>
    <3>1. Bounded' /\ Increasing'
      BY <2>2, SameIncreases DEF ReadInv
    <3>2. Advances'
      BY <1>2, <2>1, <2>2 DEF ReadInv, Advances, iter
    <3> QED BY <1>2, <3>1, <3>2 DEF ReadInv
  <2>3. CASE flash' = Programmed /\ total' = total + 1
    <3>1. /\ Bounded' /\ Increasing'
          /\ \A s \in Sectors, i \in Indices : flash'[s][i] = flash[s][i] \/ flash'[s][i] = total + 1
      BY <2>1, <2>3, ProgrammedIncreases DEF ReadInv
    <3>2. got <= total /\ total + 1 > got
      BY <1>1 DEF ReadInv, Advances
    <3>3. ASSUME got # 0
          PROVE  \E s \in Sectors, i \in Indices :
                   /\ read = ToOffset(s, i)
                   /\ flash'[s][i] = Erased \/ flash'[s][i] > got \/ (s = tail /\ i = 0)
      <4>1. PICK s \in Sectors, i \in Indices :
                   /\ read = ToOffset(s, i)
                   /\ flash[s][i] = Erased \/ flash[s][i] > got \/ (s = tail /\ i = 0)
        BY <3>3 DEF ReadInv, Advances
      <4>2. flash'[s][i] = Erased \/ flash'[s][i] > got \/ (s = tail /\ i = 0)
        BY <3>1, <3>2, <4>1
      <4> QED BY <4>1, <4>2
    <3>4. got <= total'
      BY <1>1, <2>3, <3>2
    <3>5. Advances'
      BY <1>2, <2>1, <3>3, <3>4 DEF ReadInv, Advances, iter
    <3> QED BY <1>2, <3>1, <3>5 DEF ReadInv
  <2> QED BY <2>1, <2>2, <2>3
<1> QED BY <1>3, <1>4

LEMMA StepsForward ==
  ASSUME Assumptions, ReadInv, [Next]_vars
  PROVE  ReadInv'
<1>1. WriteInv' /\ TypeOK /\ FlashType /\ total \in Nat
  <2>1. WriteInv'
    BY Steps DEF ReadInv
  <2>2. TypeOK
    BY DEF ReadInv, WriteInv
  <2> QED BY <2>1, <2>2, Geometry DEF TypeOK, FlashType
<1>2. ASSUME UNCHANGED <<flash, total>>, Advances'
      PROVE  ReadInv'
  BY <1>1, <1>2, SameIncreases DEF ReadInv
<1>3. ASSUME got' = 0
      PROVE  total' \in Nat => Advances'
  BY <1>3 DEF Advances
<1>4. total' \in Nat
  BY <1>1, Geometry DEF WriteInv, TypeOK
<1>5. CASE Mount
  <2>1. got = 0 /\ UNCHANGED <<flash, total, got>>
    BY <1>5 DEF Mount, ReadInv, Advances, iter, past
  <2> QED BY <1>2, <1>3, <1>4, <2>1
<1>6. CASE ReadInit \/ FormatEnd
  BY <1>2, <1>3, <1>4, <1>6 DEF ReadInit, FormatEnd, past
<1>7. CASE FormatBegin \/ UNCHANGED vars
  <2>1. UNCHANGED <<flash, total, tail, read, start, got>> /\ (mode' = "off" => mode = "off")
    BY <1>7 DEF FormatBegin, vars, ram, iter, past
  <2>2. Advances'
    BY <2>1 DEF ReadInv, Advances
  <2> QED BY <1>2, <2>1, <2>2
<1>8. CASE FormatErase
  <2>1. /\ UNCHANGED <<total, tail, read, start, got, mode>> /\ erasing \in Sectors
        /\ flash' = EraseOf(erasing)
    BY <1>1, <1>8, Geometry DEF FormatErase, TypeOK, ram, iter, past
  <2>2. /\ Bounded' /\ Increasing'
        /\ \A s \in Sectors, i \in Indices : flash'[s][i] = IF s = erasing THEN Erased ELSE flash[s][i]
    BY <1>1, <2>1, ErasedIncreases DEF ReadInv
  <2>3. Advances'
    <3>1. ASSUME got # 0
          PROVE  \E s \in Sectors, i \in Indices :
                   /\ read = ToOffset(s, i)
                   /\ flash'[s][i] = Erased \/ flash'[s][i] > got \/ (s = tail /\ i = 0)
      BY <2>2, <3>1 DEF ReadInv, Advances
    <3> QED BY <2>1, <3>1 DEF ReadInv, Advances
  <2> QED BY <1>1, <2>2, <2>3 DEF ReadInv
<1>9. CASE Crash
  <2>1. got' = 0 /\ \/ UNCHANGED <<flash, total>>
                    \/ mode = "prepared" /\ flash' = Programmed /\ total' = total + 1
    BY <1>9 DEF Crash
  <2>2. Bounded' /\ Increasing'
    BY <2>1, SameIncreases, ProgrammedIncreases DEF ReadInv
  <2> QED BY <1>1, <1>3, <1>4, <2>1, <2>2 DEF ReadInv
<1> QED BY <1>5, <1>6, <1>7, <1>8, <1>9, WritesForward, ReadsForward DEF Next

-----------------------------------------------------------------------------
(* The theorems. *)

\* The invariants hold in every state.
LEMMA Invariance ==
  ASSUME Assumptions
  PROVE  Spec => []WriteInv
<1>1. Init => WriteInv
  BY Starts
<1>2. WriteInv /\ [Next]_vars => WriteInv'
  BY Steps
<1> QED BY <1>1, <1>2, PTL DEF Spec

LEMMA OrderInvariance ==
  ASSUME Assumptions, PerSector > 1
  PROVE  Spec => []LogInv
<1>1. Init => LogInv
  BY StartsInOrder
<1>2. LogInv /\ [Next]_vars => LogInv'
  BY StepsInOrder
<1> QED BY <1>1, <1>2, PTL DEF Spec

\* Offsets stay in the log and sectors in the flash through every mount, write, format
\* and power failure.
THEOREM TypeCorrect ==
  ASSUME GeometryAssumption, BoundAssumption
  PROVE  Spec => []TypeOK
<1>1. Assumptions
  BY DEF Assumptions
<1>2. WriteInv => TypeOK
  BY DEF WriteInv
<1> QED BY <1>1, <1>2, Invariance, PTL

\* errlog_write never programs over an entry, wherever errlog_mount found the head, and
\* even in a log whose format was cut short.
THEOREM EntriesAreKept ==
  ASSUME GeometryAssumption, BoundAssumption
  PROVE  Spec => []NoEntryWrittenOver
<1>1. Assumptions
  BY DEF Assumptions
<1>2. WriteInv => NoEntryWrittenOver
  BY <1>1, InvWritten
<1> QED BY <1>1, <1>2, Invariance, PTL

\* The log gives up its oldest entries only, and no more than it must, when a sector
\* holds more than one of them.
THEOREM NewestAreKept ==
  ASSUME GeometryAssumption, BoundAssumption, PerSector > 1
  PROVE  Spec => []KeepsNewest
<1>1. Assumptions
  BY DEF Assumptions
<1>2. LogInv => KeepsNewest
  BY DEF LogInv, Sound, Kept, KeepsNewest
<1> QED BY <1>1, <1>2, OrderInvariance, PTL

\* A log that errlog_mount accepted reads back whole: errlog_read_init finds the oldest of
\* all its entries, and errlog_read_next goes on to the next newer one up to the newest,
\* over the end of the flash, a remainder at the end of a sector and an erased sector.
THEOREM AllAreRead ==
  ASSUME GeometryAssumption, BoundAssumption, PerSector > 1
  PROVE  Spec => []ReadsAllInOrder
<1>1. Assumptions
  BY DEF Assumptions
<1>2. LogInv => ReadsAllInOrder
  BY <1>1, ReadsAll
<1> QED BY <1>1, <1>2, OrderInvariance, PTL

\* An iteration never goes back to an older entry: not when errlog_write erases the sector
\* it is in, when power or a write fails meanwhile, nor where a format was cut short.
THEOREM ReadingGoesForward ==
  ASSUME GeometryAssumption, BoundAssumption
  PROVE  Spec => ReadsInOrder
<1>1. Assumptions
  BY DEF Assumptions
<1>2. Init => ReadInv
  BY <1>1, StartsForward
<1>3. ReadInv /\ [Next]_vars => ReadInv'
  BY <1>1, StepsForward
<1>4. ReadInv /\ ReadNext => got' > got
  BY <1>1, ReadsForward
<1>5. ReadInv /\ [Next]_vars => [ReadNext => got' > got]_vars
  BY <1>4
<1> QED BY <1>2, <1>3, <1>5, PTL DEF Spec, ReadsInOrder
=============================================================================
