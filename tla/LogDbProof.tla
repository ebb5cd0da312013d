----------------------------- MODULE LogDbProof -----------------------------
(***************************************************************************)
(* Proofs about LogDb: what logdb_mount finds after a power failure, where *)
(* logdb_write_block puts the next block, and what the iterator delivers.  *)
(*                                                                         *)
(* TypeInv is enough for the types, with torn blocks and without.  LogInv  *)
(* is about logs without torn blocks: a sector holds whole blocks from its *)
(* start on and is erased behind them, and there is a sector h, that of    *)
(* the newest block, so that the sectors up to h are of its generation and *)
(* the others of the one before, and blocks are the newer the nearer they  *)
(* come before the end of h, going round the ring.  This is about the      *)
(* flash alone: power may fail in every state, and logdb_mount has to find *)
(* h, the tail and the head from it.                                       *)
(***************************************************************************)
EXTENDS LogDb, WellFoundedInduction, TLAPS

Assumptions == GeometryAssumption /\ BoundAssumption

\* Two sectors are enough unless a block can fill one of them.
RoomAssumption == NumSectors > 1 /\ (NumSectors = 2 => SectorSize \notin Sizes)

-----------------------------------------------------------------------------
(* The inductive invariants. *)

Limit(s) == StartOf(s) + SectorSize
Headers  == {o \in Cells : ValidHeader(o)}

\* Blocks lie in one sector and have been counted; a block to be programmed fits at the head.
Fitting  == \A o \in Headers : EndOf(o) <= Limit(SectorOf(o)) /\ flash[o].block <= total
HeadFits == mode = "prepared" => /\ size \in Sizes /\ total < MaxWrites /\ head \in Cells
                                 /\ head + size <= Limit(SectorOf(head))

TypeInv == TypeOK /\ Fitting /\ HeadFits

\* A sector holds whole blocks from its start on and nothing behind them.
Whole  == \A o \in Headers : \A i \in (o + 1)..(EndOf(o) - 1) : flash[i] = Data(flash[o].block)
Packed == \A i, o \in Cells : SectorOf(i) = SectorOf(o) /\ i < o /\ flash[o] # Erased => flash[i] # Erased
Begun  == \A o \in Cells : /\ flash[o] # Erased
                           /\ o = StartOf(SectorOf(o)) \/ \E p \in Headers : EndOf(p) = o
                           => o \in Headers

\* Sector s comes before sector u when h is the last in the ring.
Older(h, s, u) == \/ s > h /\ u <= h
                  \/ (s > h <=> u > h) /\ s < u

InOrder(h) == \A o, p \in Headers : \/ Older(h, SectorOf(o), SectorOf(p))
                                    \/ SectorOf(o) = SectorOf(p) /\ o < p
                                    => flash[o].block < flash[p].block

Ring(h) == /\ h \in Used
           /\ \A s \in Used : GenOf(s) = GenOf(h) <=> s <= h
           /\ InOrder(h)

FlashInv == /\ Whole /\ Packed /\ Begun
            /\ Used = {} \/ \E h \in Sectors : Ring(h)
            /\ mode = "format" => \A s \in Used : s >= erasing

\* The RAM of a mounted log: it is empty,
NoBlocks == Used = {} /\ tail = 0 /\ head = 0 /\ ~tailFilled

\* or the newest block is in sector h, and the head behind it or at the next sector, erased;
\* the tail is at the oldest sector or before it.
AtEnd(h)  == head = EndOf(latest) /\ generation = GenOf(h) /\ (mode = "prepared" => SectorOf(head) = h)
AtNext(h) == /\ head = StartOf(After(h)) /\ After(h) \notin Used
             /\ generation = (GenOf(h) # (h = NumSectors - 1))
             /\ mode = "prepared" => tail # After(h)

Newest(h) == /\ latest \in Headers /\ SectorOf(latest) = h
             /\ \A o \in Headers : SectorOf(o) = h => o <= latest
TailIs(h) == /\ \A s \in Used : s = tail \/ Older(h, tail, s)
             /\ ~tailFilled => tail = h
             /\ tailFilled /\ tail = h => SectorOf(head) # h

Following(h) == Ring(h) /\ Newest(h) /\ (AtEnd(h) \/ AtNext(h)) /\ TailIs(h)

RamInv == /\ mode = "off" => ~tailFilled
          /\ Mounted => NoBlocks \/ \E h \in Sectors : Following(h)

\* The newest block is no older than the last that was written.
KeptInv == safe # 0 => /\ \E o \in Headers : flash[o].block >= safe
                       /\ mode = "format" => erasing = 0

LogInv == TypeInv /\ FlashInv /\ RamInv /\ KeptInv

-----------------------------------------------------------------------------
(* Arithmetic. *)

\* A set of numbers that is not empty has a smallest member.
LEMMA Least ==
  ASSUME NEW S \in SUBSET Nat, S # {}
  PROVE  \E m \in S : \A n \in S : m <= n
<1> DEFINE R == OpToRel(<, Nat)
<1>1. \A m, n \in Nat : <<n, m>> \in R <=> n < m
  BY DEF OpToRel
<1>2. IsWellFoundedOn(R, Nat)
  BY NatLessThanWellFounded
<1> HIDE DEF R
<1>3. \E m \in S : \A n \in S : ~(<<n, m>> \in R)
  BY <1>2, WFMin, Zenon
<1>4. PICK m \in S : \A n \in S : ~(<<n, m>> \in R)
  BY <1>3
<1>5. \A n \in S : ~(n < m)
  BY <1>1, <1>4
<1>6. \A n \in S : m <= n
  BY <1>5
<1> QED BY <1>6

\* The quotient and the remainder of q * k + r by k.
LEMMA Quotient ==
  ASSUME NEW k \in Nat \ {0}, NEW q \in Int, NEW r \in 0..(k - 1)
  PROVE  (q * k + r) \div k = q /\ (q * k + r) % k = r
<1> DEFINE d == (q * k + r) \div k
           m == (q * k + r) % k
<1>1. d \in Int /\ m \in 0..(k - 1) /\ q * k + r = k * d + m
  OBVIOUS
<1> HIDE DEF d, m
<1>2. ~(d >= q + 1)
  <2> SUFFICES ASSUME d >= q + 1 PROVE FALSE
    OBVIOUS
  <2>1. k * d >= k * (q + 1)
    BY <1>1
  <2> QED BY <1>1, <2>1
<1>3. ~(d <= q - 1)
  <2> SUFFICES ASSUME d <= q - 1 PROVE FALSE
    OBVIOUS
  <2>1. k * d <= k * (q - 1)
    BY <1>1
  <2> QED BY <1>1, <2>1
<1>4. d = q
  BY <1>1, <1>2, <1>3
<1>5. m = r
  BY <1>1, <1>4
<1> QED BY <1>4, <1>5 DEF d, m

\* What the assumptions say of the constants.
LEMMA Geometry ==
  ASSUME Assumptions
  PROVE  /\ NumSectors \in Nat \ {0} /\ SectorSize \in Nat \ {0} /\ Sizes \subseteq 1..SectorSize
         /\ Sectors = 0..(NumSectors - 1) /\ 0 \in Sectors /\ MaxWrites \in Nat /\ Torn \in BOOLEAN
BY DEF Assumptions, GeometryAssumption, BoundAssumption, Sectors

\* Sectors follow one another.
LEMMA StartIs ==
  ASSUME Assumptions, NEW s \in Nat
  PROVE  /\ StartOf(s) \in Nat /\ Limit(s) \in Nat /\ StartOf(s) < Limit(s)
         /\ Limit(s) = StartOf(s + 1) /\ Limit(s) = StartOf(s) + SectorSize
<1>1. SectorSize \in Nat \ {0}
  BY Geometry
<1>2. s * SectorSize \in Nat /\ (s + 1) * SectorSize = s * SectorSize + SectorSize
  BY <1>1
<1> QED BY <1>1, <1>2 DEF StartOf, Limit

\* A sector ends where, or before, any later one starts.
LEMMA StartsGrow ==
  ASSUME Assumptions, NEW s \in Nat, NEW t \in Nat, s < t
  PROVE  Limit(s) <= StartOf(t)
<1>1. SectorSize \in Nat \ {0} /\ s + 1 <= t
  BY Geometry
<1>2. (s + 1) * SectorSize <= t * SectorSize
  BY <1>1
<1> QED BY <1>2, StartIs DEF StartOf

\* An offset within the limits of a sector is in that sector.
LEMMA SectorIn ==
  ASSUME Assumptions, NEW s \in Nat, NEW o \in Nat, StartOf(s) <= o, o < Limit(s)
  PROVE  SectorOf(o) = s
<1>1. SectorSize \in Nat \ {0} /\ StartOf(s) = s * SectorSize /\ s * SectorSize \in Nat
  BY Geometry DEF StartOf
<1> DEFINE k == SectorSize
           r == o - s * SectorSize
<1>2. k \in Nat \ {0} /\ r \in 0..(k - 1) /\ o = s * k + r
  BY <1>1 DEF Limit
<1> HIDE DEF k, r
<1>3. (s * k + r) \div k = s
  BY <1>2, Quotient
<1> QED BY <1>2, <1>3 DEF SectorOf, k

\* Every offset is within the limits of its sector.
LEMMA SectorIs ==
  ASSUME Assumptions, NEW o \in Nat
  PROVE  /\ SectorOf(o) \in Nat /\ StartOf(SectorOf(o)) \in Nat /\ Limit(SectorOf(o)) \in Nat
         /\ StartOf(SectorOf(o)) <= o /\ o < Limit(SectorOf(o))
<1>1. SectorSize \in Nat \ {0}
  BY Geometry
<1> DEFINE k == SectorSize
           q == o \div k
<1>2. k \in Nat \ {0}
  BY <1>1
<1> HIDE DEF k
<1>3. q \in Int /\ (o % k) \in 0..(k - 1) /\ o = k * q + (o % k)
  BY <1>2
<1> HIDE DEF q
<1>4. q \in Nat
  <2> SUFFICES ASSUME q <= -1 PROVE FALSE
    BY <1>3
  <2>1. k * q <= k * (-1)
    BY <1>2, <1>3
  <2> QED BY <1>2, <1>3, <2>1
<1>5. k * q = q * k /\ q * k \in Nat
  BY <1>2, <1>4
<1>6. SectorOf(o) = q /\ StartOf(SectorOf(o)) = q * k /\ Limit(SectorOf(o)) = q * k + k
  BY DEF SectorOf, StartOf, Limit, q, k
<1> QED BY <1>2, <1>3, <1>4, <1>5, <1>6

\* A sector's start is in it.
LEMMA SectorOfStart ==
  ASSUME Assumptions, NEW s \in Nat
  PROVE  SectorOf(StartOf(s)) = s
BY StartIs, SectorIn

\* The cells are those of the sectors.
LEMMA TotalIs ==
  ASSUME Assumptions
  PROVE  /\ Total \in Nat \ {0} /\ Total = StartOf(NumSectors) /\ StartOf(0) = 0
         /\ Cells = 0..(Total - 1)
<1>1. NumSectors \in Nat \ {0} /\ SectorSize \in Nat \ {0}
  BY Geometry
<1>2. NumSectors * SectorSize \in Nat \ {0} /\ 0 * SectorSize = 0
  BY <1>1
<1> QED BY <1>2 DEF Total, StartOf, Cells

\* The log's offsets are those of its sectors.
LEMMA CellIs ==
  ASSUME Assumptions, NEW o \in Nat
  PROVE  o \in Cells <=> SectorOf(o) \in Sectors
<1>1. /\ NumSectors \in Nat \ {0} /\ Sectors = 0..(NumSectors - 1)
      /\ Total \in Nat /\ Total = StartOf(NumSectors) /\ Cells = 0..(Total - 1)
  BY Geometry, TotalIs
<1> DEFINE s == SectorOf(o)
<1>2. s \in Nat /\ StartOf(s) \in Nat /\ Limit(s) \in Nat /\ StartOf(s) <= o /\ o < Limit(s)
  BY SectorIs
<1> HIDE DEF s
<1>3. s < NumSectors => Limit(s) <= Total
  BY <1>1, <1>2, StartsGrow
<1>4. s >= NumSectors => Total <= StartOf(s)
  <2>1. CASE s = NumSectors
    BY <1>1, <1>2, <2>1
  <2>2. CASE s > NumSectors
    <3>1. Limit(NumSectors) <= StartOf(s) /\ StartOf(NumSectors) < Limit(NumSectors) /\ Limit(NumSectors) \in Nat
      BY <1>1, <1>2, <2>2, StartsGrow, StartIs
    <3> QED BY <1>1, <1>2, <3>1
  <2> QED BY <1>1, <1>2, <2>1, <2>2
<1>5. o \in Cells <=> s \in Sectors
  BY <1>1, <1>2, <1>3, <1>4
<1> QED BY <1>5 DEF s

\* A sector's offsets are the log's.
LEMMA StartCell ==
  ASSUME Assumptions, NEW s \in Sectors
  PROVE  /\ s \in Nat /\ StartOf(s) \in Cells /\ Limit(s) <= Total
         /\ \A o \in Nat : StartOf(s) <= o /\ o < Limit(s) => o \in Cells /\ SectorOf(o) = s
<1>1. s \in Nat /\ s < NumSectors /\ NumSectors \in Nat
  BY Geometry
<1>2. StartOf(s) \in Nat /\ SectorOf(StartOf(s)) = s
  BY <1>1, StartIs, SectorOfStart
<1>3. StartOf(s) \in Cells
  BY <1>2, CellIs
<1>4. Limit(s) <= Total
  BY <1>1, StartsGrow, TotalIs
<1>5. ASSUME NEW o \in Nat, StartOf(s) <= o, o < Limit(s) PROVE o \in Cells /\ SectorOf(o) = s
  BY <1>1, <1>5, SectorIn, CellIs
<1> QED BY <1>1, <1>3, <1>4, <1>5

\* A cell and its sector.
LEMMA CellSector ==
  ASSUME Assumptions, NEW o \in Cells
  PROVE  /\ o \in Nat /\ SectorOf(o) \in Sectors /\ SectorOf(o) \in Nat
         /\ StartOf(SectorOf(o)) <= o /\ o < Limit(SectorOf(o))
         /\ Limit(SectorOf(o)) \in Nat /\ StartOf(SectorOf(o)) \in Nat /\ Limit(SectorOf(o)) <= Total
         /\ Limit(SectorOf(o)) = StartOf(SectorOf(o)) + SectorSize
<1>1. o \in Nat
  BY TotalIs
<1>2. SectorOf(o) \in Sectors
  BY <1>1, CellIs
<1> QED BY <1>1, <1>2, SectorIs, StartCell, StartIs

\* The next sector.
LEMMA AfterIs ==
  ASSUME Assumptions, NEW s \in Sectors
  PROVE  After(s) = (IF s + 1 = NumSectors THEN 0 ELSE s + 1) /\ After(s) \in Sectors
<1>1. NumSectors \in Nat \ {0} /\ s \in Nat /\ s < NumSectors
  BY Geometry
<1>2. CASE s + 1 = NumSectors
  <2>1. (1 * NumSectors + 0) % NumSectors = 0
    BY <1>1, Quotient
  <2> QED BY <1>1, <1>2, <2>1, Geometry DEF After
<1>3. CASE s + 1 # NumSectors
  <2>1. (0 * NumSectors + (s + 1)) % NumSectors = s + 1
    <3>1. s + 1 \in 0..(NumSectors - 1)
      BY <1>1, <1>3
    <3> QED BY <1>1, <3>1, Quotient
  <2> QED BY <1>1, <1>3, <2>1, Geometry DEF After
<1> QED BY <1>2, <1>3

-----------------------------------------------------------------------------
(* Cells and headers. *)

FlashType == flash \in [Cells -> Contents]

\* The kinds of cells tell them apart.
LEMMA KindsDiffer ==
  ASSUME NEW b, NEW g, NEW n
  PROVE  /\ Header(b, g, n).kind = "header" /\ Header(b, g, n).block = b
         /\ Header(b, g, n).gen = g /\ Header(b, g, n).size = n
         /\ Data(b).kind = "data" /\ Erased.kind = "erased" /\ Junk.kind = "junk"
         /\ Data(b) # Erased /\ Header(b, g, n) # Erased /\ Junk # Erased
<1>1. /\ Header(b, g, n).kind = "header" /\ Header(b, g, n).block = b
      /\ Header(b, g, n).gen = g /\ Header(b, g, n).size = n
      /\ Data(b).kind = "data" /\ Erased.kind = "erased" /\ Junk.kind = "junk"
  BY DEF Header, Data, Erased, Junk
<1> QED BY <1>1

\* What a header says.
LEMMA HeaderIs ==
  ASSUME Assumptions, FlashType, NEW o \in Headers
  PROVE  /\ o \in Cells /\ o \in Nat /\ flash[o] # Erased
         /\ flash[o].block \in 1..MaxWrites /\ flash[o].block \in Nat
         /\ flash[o].gen \in BOOLEAN
         /\ flash[o].size \in Sizes /\ flash[o].size \in Nat /\ EndOf(o) \in Nat
         /\ EndOf(o) = o + flash[o].size /\ o < EndOf(o) /\ EndOf(o) <= o + SectorSize
<1>1. o \in Cells /\ o \in Nat /\ flash[o] \in Contents /\ flash[o].kind = "header"
  BY TotalIs DEF Headers, ValidHeader, FlashType
<1>2. PICK b \in 1..MaxWrites, g \in BOOLEAN, n \in Sizes : flash[o] = Header(b, g, n)
  BY <1>1, KindsDiffer DEF Contents
<1>3. n \in 1..SectorSize /\ SectorSize \in Nat /\ MaxWrites \in Nat
  BY Geometry
<1>4. flash[o].block = b /\ flash[o].gen = g /\ flash[o].size = n /\ flash[o] # Erased
  BY <1>2, KindsDiffer
<1> QED BY <1>1, <1>3, <1>4 DEF EndOf

\* The cells a sector has.
LEMMA CellsOfIs ==
  ASSUME Assumptions, NEW s \in Sectors
  PROVE  /\ CellsOf(s) \subseteq Cells
         /\ \A o \in Cells : o \in CellsOf(s) <=> SectorOf(o) = s
<1>1. s \in Nat /\ StartOf(s) \in Nat /\ Limit(s) = StartOf(s) + SectorSize /\ SectorSize \in Nat
  BY StartCell, StartIs, Geometry
<1>2. \A o \in Nat : StartOf(s) <= o /\ o < Limit(s) => o \in Cells /\ SectorOf(o) = s
  BY StartCell
<1>3. \A o \in CellsOf(s) : o \in Nat /\ StartOf(s) <= o /\ o < Limit(s)
  BY <1>1 DEF CellsOf
<1>4. ASSUME NEW o \in Cells, SectorOf(o) = s PROVE o \in CellsOf(s)
  <2>1. o \in Nat /\ StartOf(s) <= o /\ o < Limit(s)
    BY <1>4, CellSector
  <2> QED BY <1>1, <2>1 DEF CellsOf
<1> QED BY <1>2, <1>3, <1>4

\* The lowest and the highest of some numbers up to a limit.
LEMMA LowestIs ==
  ASSUME NEW S \in SUBSET Nat, S # {}
  PROVE  Lowest(S) \in S /\ \A t \in S : Lowest(S) <= t
<1>1. \E m \in S : \A n \in S : m <= n
  BY Least
<1> QED BY <1>1 DEF Lowest

\* Highest is the maximum of a set of numbers that is not empty.
LEMMA HighestIs ==
  ASSUME NEW k \in Nat, NEW S \in SUBSET (0..k), S # {}
  PROVE  Highest(S) \in S /\ \A t \in S : t <= Highest(S)
<1> DEFINE D == {k - s : s \in S}
<1>1. D \in SUBSET Nat /\ D # {}
  <2>1. \A s \in S : s \in 0..k
    OBVIOUS
  <2>2. \A s \in S : k - s \in Nat
    BY <2>1
  <2> QED BY <2>2
<1>2. PICK d \in D : \A e \in D : d <= e
  BY <1>1, Least
<1>3. PICK m \in S : d = k - m
  BY <1>2
<1>4. ASSUME NEW t \in S PROVE t <= m
  <2>1. k - t \in D
    OBVIOUS
  <2>2. t \in 0..k /\ m \in 0..k
    OBVIOUS
  <2> HIDE DEF D
  <2>3. k - m <= k - t
    BY <1>2, <1>3, <2>1
  <2> QED BY <2>2, <2>3
<1> QED BY <1>4 DEF Highest

-----------------------------------------------------------------------------
(* What logdb_mount computes. *)

\* A used sector starts with a header, with its generation.
LEMMA UsedIs ==
  ASSUME Assumptions, FlashType
  PROVE  /\ Used \subseteq Sectors /\ Used \in SUBSET Nat
         /\ \A s \in Used : StartOf(s) \in Headers /\ SectorOf(StartOf(s)) = s /\ GenOf(s) \in BOOLEAN
<1>1. Used \subseteq Sectors /\ Sectors \in SUBSET Nat
  BY Geometry DEF Used
<1>2. ASSUME NEW s \in Used
      PROVE  StartOf(s) \in Headers /\ SectorOf(StartOf(s)) = s /\ GenOf(s) \in BOOLEAN
  <2>1. StartOf(s) \in Headers
    BY DEF Used, ValidHeader, Headers
  <2>2. SectorOf(StartOf(s)) = s
    BY <1>1, SectorOfStart
  <2> QED BY <2>1, <2>2, HeaderIs DEF GenOf
<1> QED BY <1>1, <1>2

\* The scan of a sector goes from header to header, and ends where there is no more.
LEMMA ScannedIs ==
  ASSUME Assumptions, FlashType, NEW s \in Used
  PROVE  /\ LatestIn(s) \in Headers /\ SectorOf(LatestIn(s)) = s
         /\ HeadIn(s) = EndOf(LatestIn(s))
         /\ HeadIn(s) \in Headers => SectorOf(HeadIn(s)) # s
<1> DEFINE Closed(S) == /\ StartOf(s) \in S
                        /\ \A o \in S : ValidHeader(o) /\ ValidHeader(EndOf(o)) /\ SectorOf(EndOf(o)) = s
                                         => EndOf(o) \in S
           Here == {o \in Headers : SectorOf(o) = s}
<1>1. s \in Sectors /\ StartOf(s) \in Headers /\ SectorOf(StartOf(s)) = s
  BY UsedIs
<1>2. Scanned(s) = {o \in CellsOf(s) : \A S \in SUBSET CellsOf(s) : Closed(S) => o \in S}
  BY DEF Scanned
<1>3. Here \in SUBSET CellsOf(s)
  BY <1>1, CellsOfIs DEF Headers
<1>4. Closed(Here)
  <2>1. \A o : ValidHeader(o) => o \in Headers
    BY DEF ValidHeader, Headers
  <2> QED BY <1>1, <2>1
<1>5. Scanned(s) \subseteq Here
  BY <1>2, <1>3, <1>4
<1>6. StartOf(s) \in Scanned(s)
  BY <1>1, <1>2, <1>3
<1>7. \A o \in Scanned(s) : ValidHeader(o) /\ ValidHeader(EndOf(o)) /\ SectorOf(EndOf(o)) = s => EndOf(o) \in Scanned(s)
  <2> SUFFICES ASSUME NEW o \in Scanned(s), ValidHeader(o), ValidHeader(EndOf(o)), SectorOf(EndOf(o)) = s
               PROVE  EndOf(o) \in Scanned(s)
    OBVIOUS
  <2>1. EndOf(o) \in CellsOf(s)
    BY <1>1, CellsOfIs DEF ValidHeader
  <2>2. \A S \in SUBSET CellsOf(s) : Closed(S) => EndOf(o) \in S
    BY <1>2
  <2> QED BY <1>2, <2>1, <2>2
<1> HIDE DEF Closed, Here
<1>8. Scanned(s) \in SUBSET (0..Total) /\ Total \in Nat
  BY <1>1, <1>2, CellsOfIs, TotalIs
<1>9. LatestIn(s) \in Scanned(s) /\ \A o \in Scanned(s) : o <= LatestIn(s)
  BY <1>6, <1>8, HighestIs DEF LatestIn
<1>10. LatestIn(s) \in Headers /\ SectorOf(LatestIn(s)) = s
  BY <1>5, <1>9 DEF Here
<1>11. ASSUME HeadIn(s) \in Headers, SectorOf(HeadIn(s)) = s PROVE FALSE
  <2>1. ValidHeader(LatestIn(s)) /\ ValidHeader(EndOf(LatestIn(s)))
    BY <1>10, <1>11 DEF Headers, HeadIn
  <2>2. EndOf(LatestIn(s)) \in Scanned(s)
    BY <1>7, <1>9, <1>11, <2>1 DEF HeadIn
  <2>3. EndOf(LatestIn(s)) <= LatestIn(s)
    BY <1>9, <2>2
  <2> QED BY <1>10, <2>3, HeaderIs
<1> QED BY <1>10, <1>11 DEF HeadIn

\* The sectors found are in use.
LEMMA FoundIs ==
  ASSUME Assumptions, FlashType, Used # {}
  PROVE  /\ FoundTail \in Used /\ FoundHead \in Used
         /\ FoundTail = IF Wrapped = {} THEN Lowest(Used) ELSE Lowest(Wrapped)
         /\ Lowest(Used) \in Used /\ \A s \in Used : Lowest(Used) <= s
         /\ Wrapped # {} => Lowest(Wrapped) \in Wrapped /\ \A s \in Wrapped : Lowest(Wrapped) <= s
         /\ Wrapped = {s \in Used : GenOf(s) # GenOf(Lowest(Used))}
         /\ Wrapped = {} \/ FoundHead < Lowest(Wrapped)
         /\ \A s \in Used : (Wrapped = {} \/ s < Lowest(Wrapped)) => s <= FoundHead
<1>1. Used \in SUBSET Nat /\ Used \subseteq Sectors
  BY UsedIs
<1>2. Lowest(Used) \in Used /\ \A s \in Used : Lowest(Used) <= s
  BY <1>1, LowestIs
<1>3. Wrapped = {s \in Used : GenOf(s) # GenOf(Lowest(Used))}
  BY DEF Wrapped
<1>4. Wrapped # {} => Lowest(Wrapped) \in Wrapped /\ \A s \in Wrapped : Lowest(Wrapped) <= s
  BY <1>1, <1>3, LowestIs
<1>5. FoundTail \in Used
  BY <1>2, <1>3, <1>4 DEF FoundTail
<1> DEFINE B == {s \in Used : Wrapped = {} \/ s < Lowest(Wrapped)}
<1>6. Lowest(Used) \in B
  <2>1. CASE Wrapped = {}
    BY <1>2, <2>1
  <2>2. CASE Wrapped # {}
    <3>1. Lowest(Wrapped) \in Used /\ Lowest(Wrapped) # Lowest(Used)
      BY <1>3, <1>4, <2>2
    <3>2. Lowest(Used) <= Lowest(Wrapped) /\ Lowest(Wrapped) \in Nat /\ Lowest(Used) \in Nat
      BY <1>1, <1>2, <3>1
    <3> QED BY <1>2, <3>1, <3>2
  <2> QED BY <2>1, <2>2
<1>7. B \in SUBSET (0..NumSectors) /\ NumSectors \in Nat
  <2>1. B \subseteq Sectors
    BY <1>1
  <2>2. NumSectors \in Nat /\ Sectors = 0..(NumSectors - 1)
    BY Geometry
  <2>3. \A s \in Sectors : s \in 0..NumSectors
    BY <2>2
  <2> HIDE DEF B
  <2> QED BY <2>1, <2>2, <2>3
<1>8. FoundHead = Highest(B)
  BY DEF FoundHead
<1>9. FoundHead \in B /\ \A s \in B : s <= FoundHead
  <2> HIDE DEF B
  <2> QED BY <1>6, <1>7, <1>8, HighestIs
<1> QED BY <1>2, <1>3, <1>4, <1>5, <1>9 DEF FoundTail

-----------------------------------------------------------------------------
(* Where a block goes and what the flash is then. *)

WriteAt(n) == IF Place(n) >= Total THEN 0 ELSE Place(n)

\* A block goes to the head, or to the next sector if it would not fit.
LEMMA PlaceIs ==
  ASSUME Assumptions, head \in 0..Total, NEW n \in Sizes
  PROVE  /\ \/ head \in Cells /\ head + n <= Limit(SectorOf(head)) /\ Place(n) = head
            \/ /\ head \in Cells /\ head + n > Limit(SectorOf(head))
               /\ Place(n) = StartOf(SectorOf(head) + 1)
            \/ head = Total /\ Place(n) = Total
         /\ WriteAt(n) \in Cells /\ WriteAt(n) + n <= Limit(SectorOf(WriteAt(n)))
         /\ SectorOf(WriteAt(n)) \in Sectors
<1>1. /\ n \in Nat /\ n >= 1 /\ n <= SectorSize /\ SectorSize \in Nat /\ NumSectors \in Nat \ {0}
      /\ Sectors = 0..(NumSectors - 1)
  BY Geometry
<1>2. /\ Total \in Nat \ {0} /\ Total = StartOf(NumSectors) /\ StartOf(0) = 0 /\ Cells = 0..(Total - 1)
      /\ head \in Nat /\ head + n - 1 \in Nat
  BY <1>1, TotalIs
<1>3. 0 \in Cells /\ 0 + n <= Limit(SectorOf(0)) /\ SectorOf(0) \in Sectors
  <2>1. SectorOf(0) = 0 /\ Limit(0) = StartOf(0) + SectorSize
    BY <1>2, SectorOfStart, StartIs
  <2> QED BY <1>1, <1>2, <2>1
<1>4. CASE head = Total
  <2>1. SectorOf(head) = NumSectors /\ Limit(NumSectors) = Total + SectorSize
    BY <1>1, <1>2, <1>4, SectorOfStart, StartIs
  <2>2. SectorOf(head + n - 1) = NumSectors
    <3>1. StartOf(NumSectors) <= head + n - 1 /\ head + n - 1 < Limit(NumSectors)
      BY <1>1, <1>2, <1>4, <2>1
    <3> QED BY <1>1, <1>2, <3>1, SectorIn
  <2>3. Place(n) = Total
    BY <1>4, <2>1, <2>2 DEF Place
  <2>4. WriteAt(n) = 0
    BY <1>2, <2>3 DEF WriteAt
  <2> QED BY <1>3, <1>4, <2>3, <2>4
<1>5. CASE head # Total
  <2> DEFINE s == SectorOf(head)
  <2>1. head \in Cells
    BY <1>2, <1>5
  <2>2. /\ s \in Nat /\ s \in Sectors /\ StartOf(s) \in Nat /\ Limit(s) \in Nat
        /\ StartOf(s) <= head /\ head < Limit(s)
    BY <2>1, CellSector
  <2>3. Limit(s) = StartOf(s + 1) /\ StartOf(s + 1) \in Nat /\ Limit(s + 1) = StartOf(s + 1) + SectorSize
    BY <2>2, StartIs
  <2>4. CASE head + n <= Limit(s)
    <3>1. SectorOf(head + n - 1) = s
      <4>1. StartOf(s) <= head + n - 1 /\ head + n - 1 < Limit(s)
        BY <1>1, <1>2, <2>2, <2>4
      <4> HIDE DEF s
      <4> QED BY <1>2, <2>2, <4>1, SectorIn
    <3>2. Place(n) = head
      BY <3>1 DEF Place
    <3>3. WriteAt(n) = head
      BY <1>2, <2>1, <3>2 DEF WriteAt
    <3> QED BY <2>1, <2>2, <2>4, <3>2, <3>3
  <2>5. CASE head + n > Limit(s)
    <3>1. SectorOf(head + n - 1) = s + 1
      <4>1. StartOf(s + 1) <= head + n - 1 /\ head + n - 1 < Limit(s + 1)
        BY <1>1, <1>2, <2>2, <2>3, <2>5
      <4>2. s + 1 \in Nat
        BY <2>2
      <4> HIDE DEF s
      <4> QED BY <1>2, <4>1, <4>2, SectorIn
    <3>2. Place(n) = StartOf(s + 1)
      <4>1. s + 1 # s
        BY <2>2
      <4> QED BY <3>1, <4>1 DEF Place
    <3>3. CASE s + 1 = NumSectors
      <4>1. WriteAt(n) = 0
        BY <1>2, <3>2, <3>3 DEF WriteAt
      <4> QED BY <1>3, <2>1, <2>5, <3>2, <4>1
    <3>4. CASE s + 1 # NumSectors
      <4>1. s + 1 \in Sectors
        BY <1>1, <2>2, <3>4
      <4>2. StartOf(s + 1) \in Cells /\ SectorOf(StartOf(s + 1)) = s + 1
        BY <2>2, <4>1, StartCell, SectorOfStart
      <4>3. WriteAt(n) = StartOf(s + 1)
        BY <1>2, <3>2, <4>2 DEF WriteAt
      <4>4. StartOf(s + 1) + n <= Limit(s + 1)
        BY <1>1, <2>3
      <4> QED BY <2>1, <2>5, <3>2, <4>1, <4>2, <4>3, <4>4
    <3> QED BY <3>3, <3>4
  <2> QED BY <1>1, <2>2, <2>4, <2>5
<1> QED BY <1>4, <1>5

\* Erasing a sector takes the blocks in it.
LEMMA EraseIs ==
  ASSUME Assumptions, FlashType, NEW s \in Sectors, flash' = EraseOf(s)
  PROVE  /\ FlashType'
         /\ \A o \in Cells : flash'[o] = IF SectorOf(o) = s THEN Erased ELSE flash[o]
         /\ \A o : o \in Headers' <=> o \in Headers /\ SectorOf(o) # s
         /\ \A o \in Headers' : flash'[o] = flash[o] /\ EndOf(o)' = EndOf(o)
<1>1. \A o \in Cells : flash'[o] = IF SectorOf(o) = s THEN Erased ELSE flash[o]
  BY DEF EraseOf
<1>2. Erased \in Contents /\ Erased.kind = "erased"
  BY KindsDiffer DEF Contents
<1>3. FlashType'
  BY <1>2 DEF FlashType, EraseOf
<1>4. \A o : o \in Headers' <=> o \in Headers /\ SectorOf(o) # s
  BY <1>1, <1>2 DEF Headers, ValidHeader
<1>5. \A o \in Headers' : flash'[o] = flash[o] /\ EndOf(o)' = EndOf(o)
  BY <1>1, <1>4 DEF Headers, EndOf
<1> QED BY <1>1, <1>3, <1>4, <1>5

\* Programming adds at most the header at the head.
LEMMA ProgrammedIs ==
  ASSUME Assumptions, FlashType, NEW n \in Nat, NEW part \in BOOLEAN,
         total + 1 \in 1..MaxWrites, generation \in BOOLEAN, size \in Sizes, head \in Nat,
         flash' = Programmed(n, part)
  PROVE  /\ FlashType'
         /\ \A o \in Headers' : \/ o \in Headers /\ flash'[o] = flash[o] /\ EndOf(o)' = EndOf(o)
                                \/ /\ o = head /\ flash'[o] = Header(total + 1, generation, size)
                                   /\ EndOf(o)' = head + size
<1>1. \A o \in Cells :
        flash'[o] = IF o \in head..(head + n - 1)
                    THEN IF flash[o] # Erased THEN Junk
                         ELSE IF o = head THEN Header(total + 1, generation, size) ELSE Data(total + 1)
                    ELSE IF part /\ n < size /\ o = head + n THEN Junk ELSE flash[o]
  BY DEF Programmed
<1>2. Junk \in Contents /\ Header(total + 1, generation, size) \in Contents /\ Data(total + 1) \in Contents
  BY DEF Contents
<1>3. FlashType'
  <2>1. \A o \in Cells : flash[o] \in Contents
    BY DEF FlashType
  <2>2. \A o \in Cells : flash'[o] \in Contents
    BY <1>1, <1>2, <2>1
  <2>3. flash' = [o \in Cells |-> flash'[o]]
    BY DEF Programmed
  <2> QED BY <2>2, <2>3 DEF FlashType
<1>4. ASSUME NEW o \in Headers'
      PROVE  \/ o \in Headers /\ flash'[o] = flash[o] /\ EndOf(o)' = EndOf(o)
             \/ /\ o = head /\ flash'[o] = Header(total + 1, generation, size)
                /\ EndOf(o)' = head + size
  <2>1. o \in Cells /\ flash'[o].kind = "header"
    BY DEF Headers, ValidHeader
  <2>2. Junk.kind # "header" /\ Data(total + 1).kind # "header" /\ Header(total + 1, generation, size).size = size
    BY KindsDiffer
  <2>3. flash'[o] = flash[o] \/ (o = head /\ flash'[o] = Header(total + 1, generation, size))
    BY <1>1, <2>1, <2>2
  <2> QED BY <2>1, <2>2, <2>3 DEF Headers, ValidHeader, EndOf
<1> QED BY <1>3, <1>4

-----------------------------------------------------------------------------
(* What the iterator finds. *)

\* SeekSector finds the nearest of the sectors looked at that starts with a block.
LEMMA SeekSectorIs ==
  ASSUME Assumptions, NEW s \in Sectors
  PROVE  \/ /\ SeekSector(s) = None
            /\ \A t \in Open(s) : ~ValidBlock(StartOf(t))
         \/ \E t \in Open(s) : /\ SeekSector(s) = StartOf(t) /\ ValidBlock(StartOf(t))
                               /\ \A u \in Open(s) : ValidBlock(StartOf(u)) => Ahead(s, t) <= Ahead(s, u)
<1> DEFINE F == {t \in Open(s) : ValidBlock(StartOf(t))}
           D == {Ahead(s, t) : t \in F}
<1>1. SeekSector(s) = IF F = {} THEN None
                      ELSE StartOf(CHOOSE t \in F : \A u \in F : Ahead(s, t) <= Ahead(s, u))
  BY DEF SeekSector
<1>2. CASE F = {}
  BY <1>1, <1>2
<1>3. CASE F # {}
  <2>1. Sectors = 0..(NumSectors - 1) /\ NumSectors \in Nat
    BY Geometry
  <2>2. \A t \in Sectors : Ahead(s, t) \in Nat
    BY <2>1 DEF Ahead
  <2>3. F \subseteq Sectors
    BY DEF Open
  <2>4. D \in SUBSET Nat /\ D # {}
    BY <1>3, <2>2, <2>3
  <2>5. PICK d \in D : \A e \in D : d <= e
    BY <2>4, Least
  <2>6. PICK m \in F : d = Ahead(s, m)
    BY <2>5
  <2>7. \A u \in F : Ahead(s, m) <= Ahead(s, u)
    BY <2>5, <2>6
  <2> DEFINE c == CHOOSE t \in F : \A u \in F : Ahead(s, t) <= Ahead(s, u)
  <2>8. c \in F /\ \A u \in F : Ahead(s, c) <= Ahead(s, u)
    <3> HIDE DEF F
    <3> QED BY <2>7
  <2>9. SeekSector(s) = StartOf(c)
    BY <1>1, <1>3
  <2> QED BY <2>8, <2>9
<1> QED BY <1>2, <1>3

\* What Seek finds is a block.
LEMMA SeekFinds ==
  ASSUME Assumptions, NEW o \in Cells, NEW first \in BOOLEAN, Seek(o, first) # None
  PROVE  ValidBlock(Seek(o, first)) /\ Seek(o, first) \in Headers
<1>1. After(SectorOf(o)) \in Sectors
  BY CellSector, AfterIs
<1>2. ValidBlock(Seek(o, first))
  <2>1. (Seek(o, first) = o /\ ValidBlock(o)) \/ Seek(o, first) = SeekSector(After(SectorOf(o)))
    BY DEF Seek
  <2>2. SeekSector(After(SectorOf(o))) = None \/ ValidBlock(SeekSector(After(SectorOf(o))))
    BY <1>1, SeekSectorIs
  <2> QED BY <2>1, <2>2
<1> QED BY <1>2 DEF ValidBlock, ValidHeader, Headers

-----------------------------------------------------------------------------
(* The types, with torn blocks and without. *)

\* What the type invariant says of each variable.
LEMMA TypesAre ==
  ASSUME Assumptions, TypeOK
  PROVE  /\ FlashType /\ latest \in Cells /\ head \in 0..Total /\ read \in Cells
         /\ tail \in Sectors /\ tailFilled \in BOOLEAN /\ generation \in BOOLEAN /\ start \in BOOLEAN
         /\ size \in Sizes \cup {0} /\ erasing \in 0..NumSectors
         /\ total \in 0..MaxWrites /\ total \in Nat /\ safe \in 0..total /\ got \in 0..total
         /\ head \in Nat /\ latest \in Nat /\ safe \in Nat /\ got \in Nat
         /\ mode \in {"off", "ready", "prepared", "refused", "format"}
BY Geometry, TotalIs DEF TypeOK, FlashType

\* The values of an unmounted log are in the types.
LEMMA ZeroIs ==
  ASSUME Assumptions
  PROVE  /\ 0 \in Cells /\ 0 \in 0..Total /\ 0 \in Sectors /\ StartOf(0) = 0
         /\ 0 \in Sizes \cup {0} /\ 0 \in 0..NumSectors /\ SectorOf(0) = 0
BY Geometry, TotalIs, SectorOfStart

\* A step that leaves the flash alone.
LEMMA FlashStays ==
  ASSUME UNCHANGED flash
  PROVE  /\ FlashType' = FlashType /\ Headers' = Headers /\ Used' = Used
         /\ \A o : EndOf(o)' = EndOf(o) /\ ValidBlock(o)' = ValidBlock(o) /\ ValidHeader(o)' = ValidHeader(o)
         /\ \A s : GenOf(s)' = GenOf(s)
BY DEF FlashType, Headers, Used, EndOf, ValidBlock, ValidHeader, GenOf

\* What is not written stays fitting.
LEMMA FittingStays ==
  ASSUME Fitting, UNCHANGED flash, UNCHANGED total
  PROVE  Fitting'
BY FlashStays DEF Fitting

\* Each step keeps the type invariant.
LEMMA MountTypes ==
  ASSUME Assumptions, TypeInv, Mount
  PROVE  TypeInv'
<1>1. TypeOK /\ Fitting
  BY DEF TypeInv
<1>2. CASE MountValid
  <2>1. /\ Used # {} /\ FoundTail \in Used /\ FoundHead \in Used
    BY <1>1, <1>2, FoundIs, TypesAre DEF MountValid
  <2>2. /\ FoundTail \in Sectors /\ FoundHead \in Sectors /\ GenOf(FoundHead) \in BOOLEAN
    BY <1>1, <2>1, UsedIs, TypesAre
  <2>3. LatestIn(FoundHead) \in Headers /\ HeadIn(FoundHead) = EndOf(LatestIn(FoundHead))
    BY <1>1, <2>1, ScannedIs, TypesAre
  <2>4. LatestIn(FoundHead) \in Cells /\ HeadIn(FoundHead) \in Nat
        /\ HeadIn(FoundHead) <= Limit(SectorOf(LatestIn(FoundHead)))
    BY <1>1, <2>3, HeaderIs, TypesAre DEF Fitting
  <2>5. HeadIn(FoundHead) \in 0..Total
    BY <2>4, CellSector, TotalIs
  <2>6. StartOf(FoundTail) \in Cells
    BY <2>2, StartCell
  <2>7. /\ tail' = FoundTail /\ head' = HeadIn(FoundHead) /\ latest' = LatestIn(FoundHead)
        /\ generation' = GenOf(FoundHead) /\ tailFilled' \in BOOLEAN
        /\ read' = StartOf(FoundTail) /\ start' = TRUE /\ got' = 0
        /\ mode' \in {"ready", "refused"}
        /\ UNCHANGED <<flash, size, erasing, total, safe>>
    BY <1>2 DEF MountValid
  <2>8. 0 \in 0..total
    BY <1>1, TypesAre
  <2>9. TypeOK'
    BY <1>1, <2>2, <2>4, <2>5, <2>6, <2>7, <2>8 DEF TypeOK
  <2> QED BY <1>1, <2>7, <2>9, FittingStays DEF TypeInv, HeadFits
<1>3. CASE MountFormats
  <2>1. TypeOK'
    BY <1>1, <1>3, ZeroIs DEF MountFormats, TypeOK, ram, iter
  <2> QED BY <1>1, <1>3, <2>1, FittingStays DEF TypeInv, HeadFits, MountFormats, ram, iter
<1> QED BY <1>2, <1>3 DEF Mount

\* What Prepare does.
LEMMA PrepareIs ==
  ASSUME NEW n \in Sizes, Prepare(n)
  PROVE  /\ mode = "ready" /\ total < MaxWrites /\ mode' = "prepared" /\ size' = n
         /\ head' = WriteAt(n)
         /\ generation' = (generation # (Place(n) >= Total))
         /\ UNCHANGED <<latest, tailFilled, erasing, total, safe>>
         /\ \/ /\ Place(n) >= Total \/ (SectorOf(WriteAt(n)) = tail /\ tailFilled)
               /\ flash' = EraseOf(SectorOf(WriteAt(n)))
               /\ \/ /\ tail = SectorOf(WriteAt(n)) /\ tail' = After(tail)
                     /\ read' = StartOf(After(tail)) /\ start' = TRUE /\ got' = 0
                  \/ tail # SectorOf(WriteAt(n)) /\ UNCHANGED <<tail, iter>>
            \/ /\ ~(Place(n) >= Total) /\ ~(SectorOf(WriteAt(n)) = tail /\ tailFilled)
               /\ UNCHANGED <<flash, tail, iter>>
<1> DEFINE s == SectorOf(WriteAt(n))
           erase == Place(n) >= Total \/ (s = tail /\ tailFilled)
<1>1. /\ mode = "ready" /\ total < MaxWrites /\ mode' = "prepared" /\ size' = n
      /\ head' = WriteAt(n)
      /\ generation' = (generation # (Place(n) >= Total))
      /\ UNCHANGED <<latest, tailFilled, erasing, total, safe>>
      /\ flash' = IF erase THEN EraseOf(s) ELSE flash
      /\ IF erase /\ tail = s
         THEN tail' = After(s) /\ read' = StartOf(After(s)) /\ start' = TRUE /\ got' = 0
         ELSE UNCHANGED <<tail, iter>>
  BY DEF Prepare, WriteAt
<1>2. CASE erase
  BY <1>1, <1>2
<1>3. CASE ~erase
  BY <1>1, <1>3
<1> QED BY <1>2, <1>3

LEMMA PrepareTypes ==
  ASSUME Assumptions, TypeInv, NEW n \in Sizes, Prepare(n)
  PROVE  TypeInv'
<1>1. TypeOK /\ Fitting /\ FlashType
  BY TypesAre DEF TypeInv
<1>2. /\ mode' = "prepared" /\ size' = n /\ head' = WriteAt(n) /\ total < MaxWrites
      /\ UNCHANGED <<latest, tailFilled, erasing, total, safe>>
      /\ generation' \in BOOLEAN
  BY PrepareIs
<1>3. /\ WriteAt(n) \in Cells /\ WriteAt(n) + n <= Limit(SectorOf(WriteAt(n)))
      /\ SectorOf(WriteAt(n)) \in Sectors /\ WriteAt(n) \in 0..Total
  BY <1>1, TypesAre, PlaceIs, TotalIs
<1>4. HeadFits'
  BY <1>2, <1>3 DEF HeadFits, Limit, StartOf, SectorOf, Cells
<1>5. FlashType' /\ Fitting'
  <2>1. CASE UNCHANGED flash
    BY <1>1, <1>2, <2>1, FlashStays, FittingStays
  <2>2. CASE flash' = EraseOf(SectorOf(WriteAt(n)))
    <3>1. /\ FlashType' /\ \A o : o \in Headers' => o \in Headers
          /\ \A o \in Headers' : flash'[o] = flash[o] /\ EndOf(o)' = EndOf(o)
      BY <1>1, <1>3, <2>2, EraseIs
    <3>2. Fitting'
      BY <1>1, <1>2, <3>1 DEF Fitting, Limit, StartOf, SectorOf
    <3> QED BY <3>1, <3>2
  <2> QED BY <2>1, <2>2, PrepareIs
<1>6. tail' \in Sectors /\ read' \in Cells /\ start' \in BOOLEAN /\ got' \in 0..total
  <2>1. tail \in Sectors /\ read \in Cells /\ start \in BOOLEAN /\ got \in 0..total /\ 0 \in 0..total
    BY <1>1, TypesAre
  <2>2. After(tail) \in Sectors /\ StartOf(After(tail)) \in Cells
    BY <2>1, AfterIs, StartCell
  <2>3. \/ tail' = After(tail) /\ read' = StartOf(After(tail)) /\ start' = TRUE /\ got' = 0
        \/ UNCHANGED <<tail, iter>>
    BY PrepareIs
  <2> QED BY <2>1, <2>2, <2>3 DEF iter
<1>7. TypeOK'
  BY <1>1, <1>2, <1>3, <1>5, <1>6 DEF TypeOK, FlashType
<1> QED BY <1>4, <1>5, <1>7 DEF TypeInv

\* The flash when a block has been programmed in whole or in part.
LEMMA WritingTypes ==
  ASSUME Assumptions, TypeInv, mode = "prepared", total' = total + 1,
         NEW n \in Nat, NEW part \in BOOLEAN, flash' = Programmed(n, part)
  PROVE  FlashType' /\ Fitting' /\ total' \in 0..MaxWrites /\ total' \in Nat
<1>1. TypeOK /\ Fitting /\ FlashType /\ HeadFits
  BY TypesAre DEF TypeInv
<1>2. /\ generation \in BOOLEAN /\ size \in Sizes /\ head \in Cells /\ head \in Nat /\ total \in Nat
      /\ head + size <= Limit(SectorOf(head)) /\ total + 1 \in 1..MaxWrites /\ MaxWrites \in Nat
  BY <1>1, TypesAre, Geometry DEF HeadFits
<1>3. /\ FlashType'
      /\ \A o \in Headers' : \/ o \in Headers /\ flash'[o] = flash[o] /\ EndOf(o)' = EndOf(o)
                             \/ /\ o = head /\ flash'[o] = Header(total + 1, generation, size)
                                /\ EndOf(o)' = head + size
  BY <1>1, <1>2, ProgrammedIs
<1>4. ASSUME NEW o \in Headers' PROVE EndOf(o)' <= Limit(SectorOf(o)) /\ flash'[o].block <= total'
  <2>1. CASE o \in Headers /\ flash'[o] = flash[o] /\ EndOf(o)' = EndOf(o)
    <3>1. flash[o].block <= total /\ flash[o].block \in Nat /\ EndOf(o) <= Limit(SectorOf(o))
      BY <1>1, <2>1, HeaderIs DEF Fitting
    <3> QED BY <1>2, <2>1, <3>1
  <2>2. CASE o = head /\ flash'[o] = Header(total + 1, generation, size) /\ EndOf(o)' = head + size
    <3>1. flash'[o].block = total + 1
      BY <2>2, KindsDiffer
    <3> QED BY <1>2, <2>2, <3>1
  <2> QED BY <1>3, <2>1, <2>2
<1>5. Fitting'
  BY <1>4 DEF Fitting, Limit, StartOf, SectorOf
<1> QED BY <1>2, <1>3, <1>5

\* Blocks torn or whole.
LEMMA TornIs ==
  ASSUME Assumptions, TypeInv, mode = "prepared", flash' = Block \/ flash' \in TornBlocks
  PROVE  \E n \in Nat, part \in BOOLEAN : flash' = Programmed(n, part)
<1>1. size \in Nat /\ \A n \in 0..(size - 1) : n \in Nat
  BY Geometry DEF TypeInv, HeadFits
<1>2. CASE flash' = Block
  BY <1>1, <1>2 DEF Block
<1>3. CASE flash' \in TornBlocks
  <2>1. PICK n \in 0..(size - 1), part \in BOOLEAN : flash' = Programmed(n, part)
    BY <1>3 DEF TornBlocks
  <2> QED BY <1>1, <2>1
<1> QED BY <1>2, <1>3

\* A block that is written, whole or torn, leaves the flash well formed.
LEMMA WrittenTypes ==
  ASSUME Assumptions, TypeInv, mode = "prepared", total' = total + 1, flash' = Block \/ flash' \in TornBlocks
  PROVE  FlashType' /\ Fitting' /\ total' \in 0..MaxWrites /\ total' \in Nat
<1>1. PICK n \in Nat, part \in BOOLEAN : flash' = Programmed(n, part)
  BY TornIs
<1> QED BY <1>1, WritingTypes

LEMMA ProgramTypes ==
  ASSUME Assumptions, TypeInv, Program \/ ProgramFails
  PROVE  TypeInv'
<1>1. TypeOK /\ Fitting /\ FlashType /\ HeadFits /\ mode = "prepared"
  BY TypesAre DEF TypeInv, Program, ProgramFails
<1>2. CASE Program
  <2>1. /\ flash' = Block /\ total' = total + 1 /\ safe' = total' /\ latest' = head /\ head' = head + size
        /\ tailFilled' = (tailFilled \/ SectorOf(head') # tail) /\ mode' = "ready" /\ size' = 0
        /\ UNCHANGED <<tail, generation, iter, erasing>>
    BY <1>2 DEF Program
  <2>2. FlashType' /\ Fitting' /\ total' \in 0..MaxWrites /\ total' \in Nat
    BY <1>1, <2>1, WrittenTypes
  <2>3. head \in Cells /\ size \in Nat /\ head + size <= Limit(SectorOf(head))
    BY <1>1, Geometry DEF HeadFits
  <2>4. head' \in 0..Total /\ latest' \in Cells
    BY <2>1, <2>3, CellSector, TotalIs
  <2>5. safe' \in 0..total' /\ got' \in 0..total'
    <3>1. got' = got /\ got \in 0..total /\ total \in Nat
      BY <1>1, <2>1, TypesAre DEF iter
    <3> QED BY <2>1, <2>2, <3>1
  <2>6. TypeOK'
    BY <1>1, <2>1, <2>2, <2>4, <2>5 DEF TypeOK, FlashType, iter
  <2> QED BY <2>1, <2>2, <2>6 DEF TypeInv, HeadFits
<1>3. CASE ProgramFails
  <2>1. mode' = "ready" /\ size' = 0 /\ UNCHANGED <<ram, iter, erasing, safe>>
    BY <1>3 DEF ProgramFails
  <2>2. FlashType' /\ Fitting' /\ total' \in 0..MaxWrites /\ total' \in Nat /\ total <= total'
    <3>1. CASE UNCHANGED <<flash, total>>
      BY <1>1, <3>1, FlashStays, FittingStays, TypesAre
    <3>2. CASE flash' \in TornBlocks /\ total' = total + 1
      BY <1>1, <3>2, WrittenTypes, TypesAre
    <3> QED BY <1>3, <3>1, <3>2 DEF ProgramFails
  <2>3. safe' \in 0..total' /\ got' \in 0..total'
    <3>1. got' = got /\ got \in 0..total /\ safe' = safe /\ safe \in 0..total /\ total \in Nat
      BY <1>1, <2>1, TypesAre DEF iter
    <3> QED BY <2>2, <3>1
  <2>4. TypeOK'
    BY <1>1, <2>1, <2>2, <2>3 DEF TypeOK, FlashType, ram, iter
  <2> QED BY <2>1, <2>2, <2>4 DEF TypeInv, HeadFits
<1> QED BY <1>2, <1>3

LEMMA ReadTypes ==
  ASSUME Assumptions, TypeInv, ReadInit \/ ReadNext
  PROVE  TypeInv'
<1>1. TypeOK /\ Fitting /\ FlashType /\ HeadFits
  BY TypesAre DEF TypeInv
<1>2. UNCHANGED <<flash, ram, mode, size, erasing, total, safe>>
  BY DEF ReadInit, ReadNext
<1>3. read' \in Cells /\ start' \in BOOLEAN /\ got' \in 0..total
  <2>1. CASE ReadInit
    <3>1. tail \in Sectors /\ 0 \in 0..total
      BY <1>1, TypesAre
    <3> QED BY <2>1, <3>1, StartCell DEF ReadInit
  <2>2. CASE ReadNext
    <3>1. Seek(read, start) # None /\ got' = flash[Seek(read, start)].block
          /\ read' = Behind(Seek(read, start)) /\ start' = FALSE
      BY <2>2 DEF ReadNext
    <3>2. read \in Cells /\ start \in BOOLEAN /\ total \in Nat
      BY <1>1, TypesAre
    <3>3. Seek(read, start) \in Headers
      BY <3>1, <3>2, SeekFinds
    <3>4. got' \in 0..total
      BY <1>1, <3>1, <3>2, <3>3, HeaderIs DEF Fitting
    <3>5. EndOf(Seek(read, start)) \in Nat /\ Total \in Nat \ {0} /\ Cells = 0..(Total - 1)
      BY <1>1, <3>3, HeaderIs, TotalIs
    <3>6. \A i \in Nat, k \in Nat \ {0} : i % k \in 0..(k - 1)
      OBVIOUS
    <3> QED BY <3>1, <3>4, <3>5, <3>6 DEF Behind
  <2> QED BY <2>1, <2>2
<1>4. TypeOK'
  BY <1>1, <1>2, <1>3 DEF TypeOK, ram
<1> QED BY <1>1, <1>2, <1>4, FittingStays DEF TypeInv, HeadFits, ram

LEMMA FormatTypes ==
  ASSUME Assumptions, TypeInv, FormatBegin \/ FormatErase \/ FormatEnd
  PROVE  TypeInv'
<1>1. TypeOK /\ Fitting /\ FlashType /\ HeadFits
  BY TypesAre DEF TypeInv
<1>2. CASE FormatBegin
  <2>1. TypeOK'
    BY <1>1, <1>2, ZeroIs DEF FormatBegin, TypeOK, ram, iter
  <2> QED BY <1>1, <1>2, <2>1, FittingStays DEF TypeInv, HeadFits, FormatBegin, ram, iter
<1>3. CASE FormatErase
  <2>1. erasing \in Sectors /\ erasing + 1 \in 0..NumSectors /\ 0 \in 0..total
    BY <1>1, <1>3, TypesAre, Geometry DEF FormatErase
  <2>2. /\ flash' = EraseOf(erasing) /\ erasing' = erasing + 1 /\ safe' = 0 /\ mode' = "format"
        /\ UNCHANGED <<ram, iter, mode, size, total>>
    BY <1>3 DEF FormatErase
  <2>3. /\ FlashType' /\ \A o : o \in Headers' => o \in Headers
        /\ \A o \in Headers' : flash'[o] = flash[o] /\ EndOf(o)' = EndOf(o)
    BY <1>1, <2>1, <2>2, EraseIs
  <2>4. Fitting'
    BY <1>1, <2>2, <2>3 DEF Fitting, Limit, StartOf, SectorOf
  <2>5. TypeOK'
    BY <1>1, <2>1, <2>2, <2>3 DEF TypeOK, FlashType, ram, iter
  <2> QED BY <2>2, <2>4, <2>5 DEF TypeInv, HeadFits
<1>4. CASE FormatEnd
  <2>1. 0 \in 0..total
    BY <1>1, TypesAre
  <2>2. TypeOK'
    BY <1>1, <1>4, <2>1, ZeroIs DEF FormatEnd, TypeOK
  <2> QED BY <1>1, <1>4, <2>2, FittingStays DEF TypeInv, HeadFits, FormatEnd
<1> QED BY <1>2, <1>3, <1>4

LEMMA CrashTypes ==
  ASSUME Assumptions, TypeInv, Crash
  PROVE  TypeInv'
<1>1. TypeOK /\ Fitting /\ FlashType
  BY TypesAre DEF TypeInv
<1>2. /\ latest' = 0 /\ head' = 0 /\ tail' = 0 /\ tailFilled' = FALSE /\ generation' = FALSE
      /\ read' = 0 /\ start' = FALSE /\ got' = 0
      /\ mode' = "off" /\ size' = 0 /\ erasing' = 0 /\ safe' = safe
  BY DEF Crash
<1>3. FlashType' /\ Fitting' /\ total' \in 0..MaxWrites /\ total' \in Nat /\ total <= total'
  <2>1. CASE UNCHANGED <<flash, total>>
    BY <1>1, <2>1, FlashStays, FittingStays, TypesAre
  <2>2. CASE mode = "prepared" /\ (flash' = Block \/ flash' \in TornBlocks) /\ total' = total + 1
    BY <1>1, <2>2, WrittenTypes, TypesAre
  <2> QED BY <2>1, <2>2 DEF Crash
<1>4. safe' \in 0..total' /\ 0 \in 0..total'
  <2>1. safe \in 0..total /\ total \in Nat
    BY <1>1, TypesAre
  <2> QED BY <1>2, <1>3, <2>1
<1>5. TypeOK'
  BY <1>2, <1>3, <1>4, ZeroIs DEF TypeOK, FlashType
<1> QED BY <1>2, <1>3, <1>5 DEF TypeInv, HeadFits

\* The type invariant holds at the start and from step to step.
LEMMA TypesStart ==
  ASSUME Assumptions, Init
  PROVE  TypeInv
<1>1. Erased \in Contents
  BY DEF Contents
<1>2. TypeOK
  <2>1. flash \in [Cells -> Contents]
    BY <1>1 DEF Init
  <2>2. 0 \in 0..MaxWrites /\ 0 \in 0..0
    BY Geometry
  <2>3. /\ latest = 0 /\ head = 0 /\ tail = 0 /\ tailFilled = FALSE /\ generation = FALSE
        /\ read = 0 /\ start = FALSE /\ got = 0
        /\ mode = "off" /\ size = 0 /\ erasing = 0 /\ total = 0 /\ safe = 0
    BY DEF Init
  <2> QED BY <2>1, <2>2, <2>3, ZeroIs DEF TypeOK
<1>3. \A o \in Cells : flash[o].kind # "header"
  BY KindsDiffer DEF Init
<1>4. Fitting
  BY <1>3 DEF Fitting, Headers, ValidHeader
<1> QED BY <1>2, <1>4 DEF TypeInv, HeadFits, Init

LEMMA TypesStay ==
  ASSUME Assumptions, TypeInv, [Next]_vars
  PROVE  TypeInv'
<1>1. CASE UNCHANGED vars
  <2>1. TypeOK'
    BY <1>1 DEF TypeInv, TypeOK, vars, ram, iter
  <2> QED BY <1>1, <2>1, FittingStays DEF TypeInv, HeadFits, vars, ram, iter
<1> QED BY <1>1, MountTypes, PrepareTypes, ProgramTypes, ReadTypes, FormatTypes, CrashTypes DEF Next

-----------------------------------------------------------------------------
(* What a sector holds, without torn blocks. *)

Flat == FlashType /\ Fitting /\ Whole /\ Packed /\ Begun

\* A sector with a cell that is not erased is in use.
LEMMA InUse ==
  ASSUME Assumptions, Flat, NEW o \in Cells, flash[o] # Erased
  PROVE  SectorOf(o) \in Used
<1> DEFINE s == SectorOf(o)
<1>1. /\ s \in Sectors /\ s \in Nat /\ StartOf(s) <= o /\ StartOf(s) \in Cells /\ SectorOf(StartOf(s)) = s
      /\ o \in Nat /\ StartOf(s) \in Nat
  BY CellSector, StartCell, SectorOfStart
<1>2. flash[StartOf(s)] # Erased
  <2>1. CASE StartOf(s) = o
    BY <2>1
  <2>2. CASE StartOf(s) < o
    BY <1>1, <2>2 DEF Flat, Packed
  <2> QED BY <1>1, <2>1, <2>2
<1>3. StartOf(s) \in Headers
  BY <1>1, <1>2 DEF Flat, Begun
<1> QED BY <1>1, <1>3 DEF Used, Headers

\* Only used sectors have headers.
LEMMA HeaderUsed ==
  ASSUME Assumptions, Flat, NEW o \in Headers
  PROVE  SectorOf(o) \in Used
BY HeaderIs, InUse DEF Flat

\* A sector is used if it starts with a header.
LEMMA UsedHeader ==
  ASSUME Assumptions, NEW s \in Sectors
  PROVE  s \in Used <=> StartOf(s) \in Headers
BY DEF Used, Headers, ValidHeader

\* Blocks in one sector do not overlap.
LEMMA HeadersApart ==
  ASSUME Assumptions, Flat, NEW o \in Headers, NEW p \in Headers, o < p
  PROVE  EndOf(o) <= p
<1> SUFFICES ASSUME ~(EndOf(o) <= p) PROVE FALSE
  OBVIOUS
<1>1. p \in Nat /\ o \in Nat /\ EndOf(o) \in Nat
  BY HeaderIs DEF Flat
<1>2. p \in (o + 1)..(EndOf(o) - 1)
  BY <1>1
<1>3. flash[p] = Data(flash[o].block)
  BY <1>2 DEF Flat, Whole
<1>4. flash[p].kind = "header"
  BY DEF Headers, ValidHeader
<1> QED BY <1>3, <1>4, KindsDiffer

\* A cell of a block is not erased.
LEMMA BlockFilled ==
  ASSUME Assumptions, Flat, NEW p \in Headers, NEW o \in Nat, p <= o, o < EndOf(p)
  PROVE  o \in Cells /\ SectorOf(o) = SectorOf(p) /\ flash[o] # Erased
<1>1. p \in Cells /\ p \in Nat /\ EndOf(p) \in Nat /\ flash[p] # Erased
  BY HeaderIs DEF Flat
<1>2. EndOf(p) <= Limit(SectorOf(p))
  BY DEF Flat, Fitting
<1>3. /\ SectorOf(p) \in Sectors /\ StartOf(SectorOf(p)) \in Nat /\ Limit(SectorOf(p)) \in Nat
      /\ StartOf(SectorOf(p)) <= p
  BY <1>1, CellSector
<1>4. o \in Cells /\ SectorOf(o) = SectorOf(p)
  <2>1. StartOf(SectorOf(p)) <= o /\ o < Limit(SectorOf(p))
    BY <1>1, <1>2, <1>3
  <2> QED BY <1>3, <2>1, StartCell
<1>5. flash[o] # Erased
  <2>1. CASE o = p
    BY <1>1, <2>1
  <2>2. CASE o # p
    <3>1. o \in (p + 1)..(EndOf(p) - 1)
      BY <1>1, <2>2
    <3>2. flash[o] = Data(flash[p].block)
      BY <3>1 DEF Flat, Whole
    <3> QED BY <3>2, KindsDiffer
  <2> QED BY <2>1, <2>2
<1> QED BY <1>4, <1>5

\* Where the next block goes: what is before it in the sector is filled, the rest erased.
FreeFrom(a) == \A o \in Cells : SectorOf(o) = SectorOf(a) /\ o >= a => flash[o] = Erased
FullTo(a)   == \A o \in Cells : SectorOf(o) = SectorOf(a) /\ o < a => flash[o] # Erased

\* Behind a block with none behind it in its sector the sector is erased, and there are
\* no other blocks behind it.
LEMMA BehindLast ==
  ASSUME Assumptions, Flat, NEW l \in Headers,
         EndOf(l) \in Headers => SectorOf(EndOf(l)) # SectorOf(l)
  PROVE  /\ \A o \in Cells : SectorOf(o) = SectorOf(l) /\ o >= EndOf(l) => flash[o] = Erased
         /\ \A o \in Headers : SectorOf(o) = SectorOf(l) => o <= l
         /\ \A o \in Cells : SectorOf(o) = SectorOf(l) /\ o < EndOf(l) => flash[o] # Erased
<1> DEFINE s == SectorOf(l)
           e == EndOf(l)
<1>1. l \in Cells /\ l \in Nat /\ e \in Nat /\ flash[l] # Erased /\ l < e
  BY HeaderIs DEF Flat
<1>2. \A o \in Cells : o \in Nat
  BY TotalIs
<1>3. ASSUME NEW o \in Cells, SectorOf(o) = s, o >= e PROVE flash[o] = Erased
  <2> SUFFICES ASSUME flash[o] # Erased PROVE FALSE
    OBVIOUS
  <2>1. StartOf(s) \in Nat /\ StartOf(s) <= l /\ o < Limit(s) /\ s \in Sectors /\ Limit(s) \in Nat /\ o \in Nat
    BY <1>1, <1>3, CellSector
  <2>2. e \in Cells /\ SectorOf(e) = s
    <3>1. StartOf(s) <= e /\ e < Limit(s)
      BY <1>1, <1>3, <2>1
    <3> HIDE DEF s, e
    <3> QED BY <1>1, <2>1, <3>1, StartCell
  <2>3. flash[e] # Erased
    <3>1. CASE e = o
      BY <3>1
    <3>2. CASE e < o
      BY <1>3, <2>2, <3>2 DEF Flat, Packed
    <3> QED BY <1>1, <1>3, <2>1, <3>1, <3>2
  <2>4. e \in Headers
    BY <2>2, <2>3 DEF Flat, Begun
  <2> QED BY <2>2, <2>4
<1>4. ASSUME NEW o \in Headers, SectorOf(o) = s PROVE o <= l
  <2> SUFFICES ASSUME ~(o <= l) PROVE FALSE
    OBVIOUS
  <2>1. o \in Cells /\ o \in Nat /\ flash[o] # Erased
    BY HeaderIs DEF Flat
  <2>2. e <= o
    BY <1>1, <2>1, HeadersApart
  <2> QED BY <1>3, <1>4, <2>1, <2>2
<1>5. ASSUME NEW o \in Cells, SectorOf(o) = s, o < e PROVE flash[o] # Erased
  <2>1. CASE o < l
    BY <1>1, <1>5, <2>1 DEF Flat, Packed
  <2>2. CASE l <= o
    BY <1>2, <1>5, <2>2, BlockFilled
  <2> QED BY <1>1, <1>2, <2>1, <2>2
<1> QED BY <1>3, <1>4, <1>5

\* The newest block of a sector is such a block.
LEMMA BehindNewest ==
  ASSUME Assumptions, Flat, NEW h \in Sectors, Newest(h)
  PROVE  /\ \A o \in Cells : SectorOf(o) = h /\ o >= EndOf(latest) => flash[o] = Erased
         /\ \A o \in Cells : SectorOf(o) = h /\ o < EndOf(latest) => flash[o] # Erased
<1>1. latest \in Headers /\ SectorOf(latest) = h /\ \A o \in Headers : SectorOf(o) = h => o <= latest
  BY DEF Newest
<1>2. EndOf(latest) \in Headers => SectorOf(EndOf(latest)) # SectorOf(latest)
  <2>1. ~(EndOf(latest) <= latest)
    BY <1>1, HeaderIs DEF Flat
  <2> QED BY <1>1, <2>1
<1> QED BY <1>1, <1>2, BehindLast

-----------------------------------------------------------------------------
(* Erasing a sector and programming a block. *)

\* Erasing a sector leaves the others as they are.
LEMMA EraseKeeps ==
  ASSUME Assumptions, Flat, NEW s \in Sectors, flash' = EraseOf(s), UNCHANGED total
  PROVE  /\ Flat'
         /\ \A u \in Sectors : u \in Used' <=> u \in Used /\ u # s
         /\ \A u \in Used' : GenOf(u)' = GenOf(u)
<1>1. /\ FlashType'
      /\ \A o \in Cells : flash'[o] = IF SectorOf(o) = s THEN Erased ELSE flash[o]
      /\ \A o : o \in Headers' <=> o \in Headers /\ SectorOf(o) # s
      /\ \A o \in Headers' : flash'[o] = flash[o] /\ EndOf(o)' = EndOf(o)
  BY EraseIs DEF Flat
<1>2. Fitting'
  BY <1>1 DEF Flat, Fitting, Limit, StartOf, SectorOf
<1>3. Whole'
  <2> SUFFICES ASSUME NEW o \in Headers', NEW i \in (o + 1)..(EndOf(o)' - 1)
               PROVE  flash'[i] = Data(flash'[o].block)
    BY DEF Whole
  <2>1. o \in Headers /\ SectorOf(o) # s /\ flash'[o] = flash[o] /\ EndOf(o)' = EndOf(o)
    BY <1>1
  <2>2. o \in Nat /\ EndOf(o) \in Nat
    BY <2>1, HeaderIs DEF Flat
  <2>3. i \in (o + 1)..(EndOf(o) - 1) /\ i \in Nat /\ o <= i /\ i < EndOf(o)
    BY <2>1, <2>2
  <2>4. i \in Cells /\ SectorOf(i) = SectorOf(o)
    BY <2>1, <2>3, BlockFilled
  <2>5. flash[i] = Data(flash[o].block)
    BY <2>1, <2>3 DEF Flat, Whole
  <2> QED BY <1>1, <2>1, <2>4, <2>5
<1>4. Packed'
  <2> SUFFICES ASSUME NEW i \in Cells, NEW o \in Cells, SectorOf(i) = SectorOf(o), i < o, flash'[o] # Erased
               PROVE  flash'[i] # Erased
    BY DEF Packed, SectorOf, Cells, Total
  <2>1. SectorOf(o) # s /\ flash'[o] = flash[o] /\ flash'[i] = flash[i]
    BY <1>1
  <2> QED BY <2>1 DEF Flat, Packed
<1>5. Begun'
  <2> SUFFICES ASSUME NEW o \in Cells, flash'[o] # Erased,
                      o = StartOf(SectorOf(o)) \/ \E p \in Headers' : EndOf(p)' = o
               PROVE  o \in Headers'
    BY DEF Begun, SectorOf, StartOf, Cells, Total
  <2>1. SectorOf(o) # s /\ flash'[o] = flash[o]
    BY <1>1
  <2>2. o = StartOf(SectorOf(o)) \/ \E p \in Headers : EndOf(p) = o
    BY <1>1
  <2>3. o \in Headers
    BY <2>1, <2>2 DEF Flat, Begun
  <2> QED BY <1>1, <2>1, <2>3
<1>6. \A u \in Sectors : u \in Used' <=> u \in Used /\ u # s
  <2> SUFFICES ASSUME NEW u \in Sectors PROVE u \in Used' <=> u \in Used /\ u # s
    OBVIOUS
  <2>1. u \in Used' <=> StartOf(u) \in Headers'
    BY DEF Used, Headers, ValidHeader, StartOf, Sectors, Cells, Total
  <2>2. SectorOf(StartOf(u)) = u
    BY StartCell, SectorOfStart
  <2> QED BY <1>1, <2>1, <2>2, UsedHeader
<1>7. ASSUME NEW u \in Used' PROVE GenOf(u)' = GenOf(u)
  <2>1. u \in Sectors /\ StartOf(u) \in Headers'
    BY <1>7 DEF Used, Headers, ValidHeader, StartOf, Sectors
  <2> QED BY <1>1, <2>1 DEF GenOf, StartOf
<1> QED BY <1>1, <1>2, <1>3, <1>4, <1>5, <1>6, <1>7 DEF Flat

\* Programming a block where the sector is filled up to and erased from there on.
LEMMA BlockIs ==
  ASSUME Assumptions, TypeInv, Flat, mode = "prepared", FreeFrom(head), FullTo(head),
         flash' = Block, total' = total + 1
  PROVE  /\ Flat'
         /\ head \notin Headers
         /\ \A o : o \in Headers' <=> o \in Headers \/ o = head
         /\ \A o \in Headers : flash'[o] = flash[o] /\ EndOf(o)' = EndOf(o)
         /\ flash'[head].block = total + 1 /\ flash'[head].gen = generation
         /\ \A o : o = head => EndOf(o)' = head + size
         /\ \A u \in Sectors : u \in Used' <=> u \in Used \/ u = SectorOf(head)
         /\ \A u \in Used : GenOf(u)' = GenOf(u)
         /\ SectorOf(head) \notin Used => \A u : u = SectorOf(head) => GenOf(u)' = generation
<1>1. /\ size \in Sizes /\ size \in Nat /\ size >= 1 /\ head \in Cells /\ head \in Nat
      /\ head + size <= Limit(SectorOf(head)) /\ total \in Nat
      /\ SectorOf(head) \in Sectors /\ StartOf(SectorOf(head)) <= head /\ StartOf(SectorOf(head)) \in Nat
      /\ Limit(SectorOf(head)) \in Nat
  BY Geometry, TypesAre, CellSector, TotalIs DEF TypeInv, HeadFits
<1> DEFINE hd == Header(total + 1, generation, size)
           dt == Data(total + 1)
           k == head + size
<1>2. \A o \in Nat : head <= o /\ o < k => o \in Cells /\ SectorOf(o) = SectorOf(head) /\ flash[o] = Erased
  <2>1. \A o \in Nat : head <= o /\ o < k => StartOf(SectorOf(head)) <= o /\ o < Limit(SectorOf(head))
    BY <1>1
  <2>2. \A o \in Nat : head <= o /\ o < k => o \in Cells /\ SectorOf(o) = SectorOf(head)
    BY <1>1, <2>1, StartCell
  <2> QED BY <2>2 DEF FreeFrom
<1>3. \A o \in Cells : flash'[o] = IF o \in head..(head + size - 1)
                                   THEN IF flash[o] # Erased THEN Junk ELSE IF o = head THEN hd ELSE dt
                                   ELSE flash[o]
  BY DEF Block, Programmed
<1>4. \A o \in Cells : o \in Nat
  BY TotalIs
<1>5. \A o \in Cells : flash'[o] = IF o = head THEN hd
                                   ELSE IF head < o /\ o < k THEN dt ELSE flash[o]
  <2> SUFFICES ASSUME NEW o \in Cells
               PROVE  flash'[o] = IF o = head THEN hd ELSE IF head < o /\ o < k THEN dt ELSE flash[o]
    OBVIOUS
  <2>1. o \in head..(head + size - 1) <=> head <= o /\ o < k
    BY <1>1, <1>4
  <2>2. head <= o /\ o < k => flash[o] = Erased
    BY <1>2, <1>4
  <2>3. head <= o /\ o < k <=> o = head \/ (head < o /\ o < k)
    BY <1>1, <1>4
  <2> HIDE DEF hd, dt, k
  <2> QED BY <1>3, <2>1, <2>2, <2>3
<1>6. /\ hd.kind = "header" /\ hd.block = total + 1 /\ hd.gen = generation /\ hd.size = size
      /\ dt.kind = "data" /\ hd # Erased /\ dt # Erased /\ Erased.kind = "erased"
  BY KindsDiffer
<1>7. head \notin Headers /\ flash[head] = Erased
  BY <1>1, <1>2, <1>6 DEF Headers, ValidHeader
<1>8. \A o \in Headers : ~(head <= o /\ o < k)
  <2> SUFFICES ASSUME NEW o \in Headers, head <= o, o < k PROVE FALSE
    OBVIOUS
  <2>1. flash[o] = Erased
    BY <1>2, <1>4 DEF Headers
  <2> QED BY <2>1, HeaderIs DEF Flat
<1>9. \A o : o \in Headers' <=> o \in Headers \/ o = head
  <2>1. \A o \in Cells : flash'[o].kind = "header" <=> o = head \/ flash[o].kind = "header"
    <3> SUFFICES ASSUME NEW o \in Cells
                 PROVE  flash'[o].kind = "header" <=> o = head \/ flash[o].kind = "header"
      OBVIOUS
    <3>1. o # head /\ flash'[o] = dt => flash[o].kind # "header"
      <4> SUFFICES ASSUME o # head, flash'[o] = dt, flash[o].kind = "header" PROVE FALSE
        OBVIOUS
      <4>1. o \in Headers
        BY DEF Headers, ValidHeader
      <4>2. flash'[o] = flash[o]
        BY <1>1, <1>4, <1>5, <1>8, <4>1
      <4> QED BY <1>6, <4>2
    <3> HIDE DEF hd, dt, k
    <3> QED BY <1>5, <1>6, <3>1
  <2> QED BY <1>1, <2>1 DEF Headers, ValidHeader
<1>10. \A o \in Headers : flash'[o] = flash[o] /\ EndOf(o)' = EndOf(o)
  <2> SUFFICES ASSUME NEW o \in Headers PROVE flash'[o] = flash[o] /\ EndOf(o)' = EndOf(o)
    OBVIOUS
  <2>1. o \in Cells /\ o # head /\ ~(head < o /\ o < k)
    BY <1>1, <1>4, <1>7, <1>8 DEF Headers
  <2>2. flash'[o] = flash[o]
    BY <1>5, <2>1
  <2> QED BY <2>2 DEF EndOf
<1>11. flash'[head] = hd /\ \A o : o = head => EndOf(o)' = head + size
  <2>1. flash'[head] = hd
    BY <1>1, <1>5
  <2>2. flash'[head].size = size
    BY <1>6, <2>1
  <2> QED BY <2>1, <2>2 DEF EndOf
<1>12. FlashType' /\ Fitting'
  BY WrittenTypes
<1>13. \A o \in Cells : flash'[o] # Erased <=> flash[o] # Erased \/ (head <= o /\ o < k)
  <2> SUFFICES ASSUME NEW o \in Cells
               PROVE  flash'[o] # Erased <=> flash[o] # Erased \/ (head <= o /\ o < k)
    OBVIOUS
  <2>1. head <= o /\ o < k <=> o = head \/ (head < o /\ o < k)
    BY <1>1, <1>4
  <2> HIDE DEF hd, dt, k
  <2> QED BY <1>5, <1>6, <2>1
<1>14. Whole'
  <2> SUFFICES ASSUME NEW o \in Headers', NEW i \in (o + 1)..(EndOf(o)' - 1)
               PROVE  flash'[i] = Data(flash'[o].block)
    BY DEF Whole
  <2>1. CASE o = head
    <3>1. i \in Nat /\ head < i /\ i < k
      BY <1>1, <1>11, <2>1
    <3>2. flash'[i] = dt
      BY <1>1, <1>2, <1>5, <3>1
    <3>3. flash'[o].block = total + 1
      BY <1>6, <1>11, <2>1
    <3> QED BY <3>2, <3>3
  <2>2. CASE o # head
    <3>1. o \in Headers /\ flash'[o] = flash[o] /\ EndOf(o)' = EndOf(o)
      BY <1>9, <1>10, <2>2
    <3>2. o \in Nat /\ EndOf(o) \in Nat
      BY <3>1, HeaderIs DEF Flat
    <3>3. i \in (o + 1)..(EndOf(o) - 1) /\ i \in Nat /\ o <= i /\ i < EndOf(o)
      BY <3>1, <3>2
    <3>4. i \in Cells /\ flash[i] # Erased
      BY <3>1, <3>3, BlockFilled
    <3>5. flash'[i] = flash[i]
      <4>1. ~(head <= i /\ i < k)
        BY <1>2, <3>3, <3>4
      <4> QED BY <1>1, <1>5, <3>3, <3>4, <4>1
    <3>6. flash[i] = Data(flash[o].block)
      BY <3>1, <3>3 DEF Flat, Whole
    <3> QED BY <3>1, <3>5, <3>6
  <2> QED BY <2>1, <2>2
<1>15. Packed'
  <2> SUFFICES ASSUME NEW i \in Cells, NEW o \in Cells, SectorOf(i) = SectorOf(o), i < o, flash'[o] # Erased
               PROVE  flash'[i] # Erased
    BY DEF Packed, SectorOf, Cells, Total
  <2>1. CASE flash[o] # Erased
    BY <1>13, <2>1 DEF Flat, Packed
  <2>2. CASE flash[o] = Erased
    <3>1. head <= o /\ o < k /\ SectorOf(i) = SectorOf(head)
      BY <1>2, <1>4, <1>13, <2>2
    <3>2. CASE i < head
      BY <1>13, <3>1, <3>2 DEF FullTo
    <3>3. CASE head <= i
      <4>1. i < k
        BY <1>1, <1>4, <3>1
      <4> QED BY <1>13, <3>3, <4>1
    <3> QED BY <1>1, <1>4, <3>2, <3>3
  <2> QED BY <2>1, <2>2
<1>16. Begun'
  <2> SUFFICES ASSUME NEW o \in Cells, flash'[o] # Erased,
                      o = StartOf(SectorOf(o)) \/ \E p \in Headers' : EndOf(p)' = o
               PROVE  o \in Headers'
    BY DEF Begun, SectorOf, StartOf, Cells, Total
  <2>1. CASE flash[o] # Erased
    <3>1. CASE o = StartOf(SectorOf(o)) \/ \E p \in Headers : EndOf(p) = o
      <4>1. o \in Headers
        BY <2>1, <3>1 DEF Flat, Begun
      <4> QED BY <1>9, <4>1
    <3>2. CASE \E p \in Headers' : p = head /\ EndOf(p)' = o
      <4>1. o = k
        BY <1>11, <3>2
      <4>2. SectorOf(o) = SectorOf(head) => flash[o] = Erased
        <5>1. o >= head
          BY <1>1, <4>1
        <5> QED BY <5>1 DEF FreeFrom
      <4>3. SectorOf(o) # SectorOf(head)
        BY <2>1, <4>2
      <4>4. o = StartOf(SectorOf(head) + 1) /\ SectorOf(o) = SectorOf(head) + 1
        <5>1. ~(o < Limit(SectorOf(head)))
          <6> SUFFICES ASSUME o < Limit(SectorOf(head)) PROVE FALSE
            OBVIOUS
          <6>1. SectorOf(o) = SectorOf(head)
            BY <1>1, <1>4, <4>1, StartCell
          <6> QED BY <4>3, <6>1
        <5>2. o = Limit(SectorOf(head))
          BY <1>1, <1>4, <4>1, <5>1
        <5>3. SectorOf(head) \in Nat /\ SectorOf(head) + 1 \in Nat
          BY <1>1, Geometry
        <5> QED BY <5>2, <5>3, StartIs, SectorOfStart
      <4>5. o = StartOf(SectorOf(o))
        BY <4>4
      <4>6. o \in Headers
        BY <2>1, <4>5 DEF Flat, Begun
      <4> QED BY <1>9, <4>6
    <3> QED BY <1>9, <1>10, <3>1, <3>2
  <2>2. CASE flash[o] = Erased
    <3>1. head <= o /\ o < k /\ SectorOf(o) = SectorOf(head)
      BY <1>2, <1>4, <1>13, <2>2
    <3>2. CASE o = head
      BY <1>9, <3>2
    <3>3. CASE o # head
      <4>1. o # StartOf(SectorOf(o))
        BY <1>1, <1>4, <3>1, <3>3
      <4>2. PICK p \in Headers' : EndOf(p)' = o
        BY <4>1
      <4>3. p # head
        BY <1>1, <1>11, <3>1, <4>2
      <4>4. p \in Headers /\ EndOf(p) = o
        BY <1>9, <1>10, <4>2, <4>3
      <4>5. p \in Nat /\ p < o /\ p \in Cells /\ p # head
        BY <1>7, <4>4, HeaderIs DEF Flat
      <4>6. SectorOf(p) = SectorOf(o)
        <5>1. EndOf(p) - 1 \in Nat /\ p <= EndOf(p) - 1 /\ EndOf(p) - 1 < EndOf(p)
          BY <1>4, <4>4, <4>5
        <5>2. SectorOf(EndOf(p) - 1) = SectorOf(p)
          BY <4>4, <5>1, BlockFilled
        <5>3. head <= EndOf(p) - 1 /\ EndOf(p) - 1 < k
          BY <1>1, <1>4, <3>1, <3>3, <4>4
        <5>4. SectorOf(EndOf(p) - 1) = SectorOf(head)
          BY <1>2, <5>1, <5>3
        <5> QED BY <3>1, <5>2, <5>4
      <4>7. flash[p] # Erased
        BY <4>4, HeaderIs DEF Flat
      <4>8. p < head
        BY <1>1, <1>2, <3>1, <4>5, <4>7
      <4>9. EndOf(p) - 1 \in Nat /\ p <= EndOf(p) - 1 /\ EndOf(p) - 1 < EndOf(p) /\ head <= EndOf(p) - 1 /\ EndOf(p) - 1 < k
        BY <1>1, <1>4, <3>1, <3>3, <4>4, <4>5
      <4>10. flash[EndOf(p) - 1] # Erased
        BY <4>4, <4>9, BlockFilled
      <4>11. flash[EndOf(p) - 1] = Erased
        BY <1>2, <4>9
      <4> QED BY <4>10, <4>11
    <3> QED BY <3>2, <3>3
  <2> QED BY <2>1, <2>2
<1>17. \A u \in Sectors : u \in Used' <=> u \in Used \/ u = SectorOf(head)
  <2> SUFFICES ASSUME NEW u \in Sectors PROVE u \in Used' <=> u \in Used \/ u = SectorOf(head)
    OBVIOUS
  <2>1. u \in Used' <=> StartOf(u) \in Headers'
    BY DEF Used, Headers, ValidHeader, StartOf, Sectors, Cells, Total
  <2>2. SectorOf(StartOf(u)) = u /\ StartOf(u) \in Cells /\ StartOf(u) \in Nat
    BY StartCell, SectorOfStart, StartIs
  <2>3. CASE u = SectorOf(head)
    <3>1. CASE StartOf(u) = head
      BY <1>9, <2>1, <2>3, <3>1
    <3>2. CASE StartOf(u) < head
      <4>1. flash[StartOf(u)] # Erased
        BY <2>2, <2>3, <3>2 DEF FullTo
      <4>2. StartOf(u) \in Headers
        BY <2>2, <4>1 DEF Flat, Begun
      <4> QED BY <1>9, <2>1, <2>3, <4>2
    <3> QED BY <1>1, <2>2, <2>3, <3>1, <3>2
  <2>4. CASE u # SectorOf(head)
    BY <1>9, <2>1, <2>2, <2>4, UsedHeader
  <2> QED BY <2>3, <2>4
<1>18. \A u \in Used : GenOf(u)' = GenOf(u)
  <2> SUFFICES ASSUME NEW u \in Used PROVE GenOf(u)' = GenOf(u)
    OBVIOUS
  <2>1. StartOf(u) \in Headers
    BY DEF Used, Headers, ValidHeader
  <2> QED BY <1>10, <2>1 DEF GenOf, StartOf
<1>19. ASSUME SectorOf(head) \notin Used, NEW u, u = SectorOf(head) PROVE GenOf(u)' = generation
  <2>1. SectorOf(StartOf(u)) = u /\ StartOf(u) \in Cells /\ StartOf(u) \in Nat
    BY <1>1, <1>19, StartCell, SectorOfStart, StartIs
  <2>2. StartOf(u) = head
    <3> SUFFICES ASSUME StartOf(u) # head PROVE FALSE
      OBVIOUS
    <3>1. StartOf(u) < head
      BY <1>1, <1>4, <1>19, <2>1
    <3>2. flash[StartOf(u)] # Erased
      BY <1>19, <2>1, <3>1 DEF FullTo
    <3>3. u \in Used
      BY <2>1, <3>2, InUse
    <3> QED BY <1>19, <3>3
  <2>3. GenOf(u)' = flash'[StartOf(u)].gen
    BY DEF GenOf, StartOf
  <2> QED BY <1>6, <1>11, <2>2, <2>3
<1> QED BY <1>6, <1>7, <1>9, <1>10, <1>11, <1>12, <1>14, <1>15, <1>16, <1>17, <1>18, <1>19 DEF Flat

-----------------------------------------------------------------------------
(* The order of the sectors, round the ring up to h. *)

\* Seen from the newest sector, the sectors are totally ordered by age.
LEMMA OlderIs ==
  ASSUME Assumptions, NEW h \in Sectors, NEW s \in Sectors
  PROVE  /\ ~Older(h, s, s) /\ ~Older(h, h, s)
         /\ s # h => Older(h, s, h)
         /\ \A u \in Sectors : s # u => (Older(h, s, u) <=> ~Older(h, u, s))
         /\ \A u, v \in Sectors : Older(h, s, u) /\ Older(h, u, v) => Older(h, s, v)
<1>1. Sectors = 0..(NumSectors - 1) /\ NumSectors \in Nat
  BY Geometry
<1> QED BY <1>1 DEF Older

\* The sector after h is the oldest, the one after that the next.
LEMMA OlderAfter ==
  ASSUME Assumptions, NEW h \in Sectors, NEW a \in Sectors, a = After(h), NEW s \in Sectors, s # a
  PROVE  /\ Older(h, a, s) /\ ~Older(h, s, a) /\ Older(a, s, a) /\ ~Older(a, a, s)
         /\ s # After(a) => Older(h, After(a), s)
<1>1. Sectors = 0..(NumSectors - 1) /\ NumSectors \in Nat
  BY Geometry
<1>2. a = (IF h + 1 = NumSectors THEN 0 ELSE h + 1)
  BY AfterIs
<1>3. Older(h, a, s) /\ ~Older(h, s, a) /\ Older(a, s, a) /\ ~Older(a, a, s)
  BY <1>1, <1>2 DEF Older
<1> DEFINE b == After(a)
<1>4. b = (IF a + 1 = NumSectors THEN 0 ELSE a + 1) /\ b \in Sectors
  BY AfterIs
<1> HIDE DEF b
<1>5. s # b => Older(h, b, s)
  BY <1>1, <1>2, <1>4 DEF Older
<1> QED BY <1>3, <1>5 DEF b

\* The order of the others stays when the newest block is in the sector after h.
LEMMA OlderStays ==
  ASSUME Assumptions, NEW h \in Sectors, NEW a \in Sectors, a = After(h),
         NEW s \in Sectors, NEW u \in Sectors, s # a, u # a
  PROVE  Older(a, s, u) <=> Older(h, s, u)
<1>1. Sectors = 0..(NumSectors - 1) /\ NumSectors \in Nat
  BY Geometry
<1>2. a = (IF h + 1 = NumSectors THEN 0 ELSE h + 1)
  BY AfterIs
<1> QED BY <1>1, <1>2 DEF Older

\* There is another sector to go on to.
LEMMA AfterApart ==
  ASSUME Assumptions, RoomAssumption, NEW s \in Sectors
  PROVE  After(s) \in Sectors /\ After(s) # s
<1>1. NumSectors > 1 /\ NumSectors \in Nat /\ s \in Nat /\ After(s) = (IF s + 1 = NumSectors THEN 0 ELSE s + 1)
  BY AfterIs, Geometry DEF RoomAssumption
<1> QED BY <1>1, AfterIs

\* The newest block in sector h is the newest of all.
LEMMA NewestIs ==
  ASSUME Assumptions, Flat, NEW h \in Sectors, Ring(h), Newest(h), NEW o \in Headers
  PROVE  /\ latest \in Headers /\ SectorOf(latest) = h
         /\ flash[o].block <= flash[latest].block
         /\ o # latest => flash[o].block < flash[latest].block
<1>1. latest \in Headers /\ SectorOf(latest) = h /\ (SectorOf(o) = h => o <= latest)
  BY DEF Newest
<1>2. o \in Nat /\ latest \in Nat /\ SectorOf(o) \in Sectors /\ flash[o].block \in Nat /\ flash[latest].block \in Nat
  BY <1>1, HeaderIs, CellSector DEF Flat
<1>3. ASSUME o # latest PROVE flash[o].block < flash[latest].block
  <2>1. CASE SectorOf(o) = h
    <3>1. o < latest
      BY <1>1, <1>2, <1>3, <2>1
    <3> QED BY <1>1, <2>1, <3>1 DEF Ring, InOrder
  <2>2. CASE SectorOf(o) # h
    <3>1. Older(h, SectorOf(o), SectorOf(latest))
      BY <1>1, <1>2, <2>2, OlderIs
    <3> QED BY <1>1, <3>1 DEF Ring, InOrder
  <2> QED BY <2>1, <2>2
<1> QED BY <1>1, <1>2, <1>3

-----------------------------------------------------------------------------
(* Where the head of a mounted log is. *)

\* A log that is about to be written to has room at its head.
LEMMA HeadIsFree ==
  ASSUME Assumptions, TypeInv, Flat, RamInv, mode = "prepared"
  PROVE  FreeFrom(head) /\ FullTo(head) /\ head \in Cells
<1>1. head \in Cells /\ head \in Nat
  BY TotalIs DEF TypeInv, HeadFits
<1>2. NoBlocks \/ \E h \in Sectors : Following(h)
  BY DEF RamInv, Mounted
<1>3. CASE NoBlocks
  <2>1. \A o \in Cells : flash[o] = Erased
    BY <1>3, InUse DEF NoBlocks
  <2>2. \A o \in Cells : ~(o < head)
    BY <1>3, TotalIs DEF NoBlocks
  <2> QED BY <1>1, <2>1, <2>2 DEF FreeFrom, FullTo
<1>4. CASE \E h \in Sectors : Following(h)
  <2>1. PICK h \in Sectors : Following(h)
    BY <1>4
  <2>2. Newest(h) /\ (AtEnd(h) \/ AtNext(h))
    BY <2>1 DEF Following
  <2>3. CASE AtEnd(h)
    <3>1. head = EndOf(latest) /\ SectorOf(head) = h
      BY <2>3 DEF AtEnd
    <3> QED BY <1>1, <2>2, <3>1, BehindNewest DEF FreeFrom, FullTo
  <2>4. CASE AtNext(h)
    <3>1. head = StartOf(After(h)) /\ After(h) \notin Used /\ After(h) \in Sectors
      BY <2>4, AfterIs DEF AtNext
    <3>2. SectorOf(head) = After(h)
      BY <3>1, SectorOfStart, StartCell
    <3>3. \A o \in Cells : SectorOf(o) = SectorOf(head) => flash[o] = Erased
      BY <3>1, <3>2, InUse
    <3>4. \A o \in Cells : SectorOf(o) = SectorOf(head) => o \in Nat /\ StartOf(SectorOf(o)) <= o
      BY CellSector
    <3>5. \A o \in Cells : SectorOf(o) = SectorOf(head) => ~(o < head)
      BY <1>1, <3>1, <3>2, <3>4
    <3> QED BY <1>1, <3>3, <3>5 DEF FreeFrom, FullTo
  <2> QED BY <2>2, <2>3, <2>4
<1> QED BY <1>2, <1>3, <1>4

\* The log is as LogInv says, but for the RAM.
LEMMA FlatIs ==
  ASSUME Assumptions, TypeInv, FlashInv
  PROVE  Flat
BY TypesAre DEF TypeInv, FlashInv, Flat

\* A block is programmed into erased cells.
LEMMA ErasedAhead ==
  ASSUME Assumptions, TypeInv, Flat, RamInv
  PROVE  WritesToErased
<1> SUFFICES ASSUME mode = "prepared", NEW o \in head..(head + size - 1) PROVE flash[o] = Erased
  BY DEF WritesToErased
<1>1. /\ size \in Nat /\ head \in Cells /\ head \in Nat /\ head + size <= Limit(SectorOf(head))
      /\ SectorOf(head) \in Sectors /\ StartOf(SectorOf(head)) <= head
      /\ Limit(SectorOf(head)) \in Nat /\ StartOf(SectorOf(head)) \in Nat
  BY Geometry, CellSector DEF TypeInv, HeadFits
<1>2. o \in Nat /\ o >= head /\ StartOf(SectorOf(head)) <= o /\ o < Limit(SectorOf(head))
  BY <1>1
<1>3. o \in Cells /\ SectorOf(o) = SectorOf(head)
  BY <1>1, <1>2, StartCell
<1> QED BY <1>2, <1>3, HeadIsFree DEF FreeFrom

-----------------------------------------------------------------------------
(* The steps of the program and of a power failure keep LogInv. *)

\* What a step that leaves the flash alone leaves of the invariant.
LEMMA FlashInvStays ==
  ASSUME UNCHANGED flash
  PROVE  /\ Whole => Whole'
         /\ Packed => Packed'
         /\ Begun => Begun'
         /\ \A h : Ring(h) => Ring(h)'
         /\ \A h : Newest(h) /\ UNCHANGED latest => Newest(h)'
         /\ \A h : TailIs(h) /\ UNCHANGED <<head, tail, tailFilled>> => TailIs(h)'
         /\ (\E o \in Headers : flash[o].block >= safe) /\ UNCHANGED safe
              => \E o \in Headers' : flash'[o].block >= safe'
<1>1. /\ Headers' = Headers /\ Used' = Used /\ flash' = flash
      /\ \A o : EndOf(o)' = EndOf(o)
      /\ \A s : GenOf(s)' = GenOf(s)
  BY FlashStays
<1>2. Whole => Whole'
  BY <1>1 DEF Whole
<1>3. Packed => Packed'
  BY <1>1 DEF Packed, SectorOf, Cells, Total
<1>4. Begun => Begun'
  BY <1>1 DEF Begun, SectorOf, StartOf, Cells, Total
<1>5. \A h : Ring(h) => Ring(h)'
  BY <1>1 DEF Ring, InOrder, Older, SectorOf
<1>6. \A h : Newest(h) /\ UNCHANGED latest => Newest(h)'
  BY <1>1 DEF Newest, SectorOf
<1>7. \A h : TailIs(h) /\ UNCHANGED <<head, tail, tailFilled>> => TailIs(h)'
  BY <1>1 DEF TailIs, Older, SectorOf
<1> QED BY <1>1, <1>2, <1>3, <1>4, <1>5, <1>6, <1>7

\* logdb_mount finds the sector of the newest block and the oldest sector in use.
LEMMA FoundAre ==
  ASSUME Assumptions, FlashType, NEW h \in Sectors, Ring(h)
  PROVE  FoundHead = h /\ \A s \in Used : s = FoundTail \/ Older(h, FoundTail, s)
<1>1. h \in Used /\ \A s \in Used : GenOf(s) = GenOf(h) <=> s <= h
  BY DEF Ring
<1>2. /\ FoundTail \in Used /\ FoundHead \in Used
      /\ FoundTail = IF Wrapped = {} THEN Lowest(Used) ELSE Lowest(Wrapped)
      /\ Lowest(Used) \in Used /\ \A s \in Used : Lowest(Used) <= s
      /\ Wrapped # {} => Lowest(Wrapped) \in Wrapped /\ \A s \in Wrapped : Lowest(Wrapped) <= s
      /\ Wrapped = {s \in Used : GenOf(s) # GenOf(Lowest(Used))}
      /\ Wrapped = {} \/ FoundHead < Lowest(Wrapped)
      /\ \A s \in Used : (Wrapped = {} \/ s < Lowest(Wrapped)) => s <= FoundHead
  BY <1>1, FoundIs
<1>3. \A s \in Used : s \in Nat
  BY UsedIs
<1>4. GenOf(Lowest(Used)) = GenOf(h)
  BY <1>1, <1>2
<1>5. \A s \in Used : s \in Wrapped <=> s > h
  BY <1>1, <1>2, <1>3, <1>4
<1>6. FoundHead <= h
  <2>1. FoundHead \notin Wrapped
    <3> SUFFICES ASSUME FoundHead \in Wrapped PROVE FALSE
      OBVIOUS
    <3>1. FoundHead < Lowest(Wrapped) /\ Lowest(Wrapped) <= FoundHead
      BY <1>2
    <3>2. Lowest(Wrapped) \in Nat /\ FoundHead \in Nat
      BY <1>2, <1>3
    <3> QED BY <3>1, <3>2
  <2> QED BY <1>1, <1>2, <1>3, <1>5, <2>1
<1>7. h <= FoundHead
  <2>1. Wrapped # {} => h < Lowest(Wrapped)
    BY <1>1, <1>2, <1>3, <1>5
  <2> QED BY <1>1, <1>2, <2>1
<1>8. FoundHead = h
  BY <1>1, <1>2, <1>3, <1>6, <1>7
<1>9. ASSUME NEW s \in Used PROVE s = FoundTail \/ Older(h, FoundTail, s)
  <2>1. CASE Wrapped = {}
    <3>1. FoundTail \in Used /\ FoundTail <= s /\ ~(s > h) /\ ~(FoundTail > h)
      BY <1>2, <1>5, <2>1
    <3> QED BY <1>3, <3>1 DEF Older
  <2>2. CASE Wrapped # {}
    <3>1. FoundTail \in Used /\ FoundTail > h /\ (s > h => FoundTail <= s)
      BY <1>2, <1>5, <2>2
    <3> QED BY <1>1, <1>3, <3>1 DEF Older
  <2> QED BY <2>1, <2>2
<1> QED BY <1>8, <1>9

\* Each step keeps what the log promises.
LEMMA MountKeeps ==
  ASSUME Assumptions, LogInv, Mount
  PROVE  FlashInv' /\ RamInv' /\ KeptInv'
<1>1. TypeInv /\ FlashInv /\ RamInv /\ KeptInv /\ Flat /\ mode = "off" /\ ~tailFilled
  BY FlatIs DEF LogInv, Mount, RamInv
<1>2. UNCHANGED <<flash, safe>> /\ Headers' = Headers /\ Used' = Used
  BY FlashStays DEF Mount, MountValid, MountFormats
<1>3. Whole' /\ Packed' /\ Begun'
  BY <1>1, <1>2, FlashInvStays DEF FlashInv
<1>4. safe' # 0 => \E o \in Headers' : flash'[o].block >= safe'
  BY <1>1, <1>2, FlashInvStays DEF KeptInv
<1>5. CASE MountFormats
  <2>1. Used = {} /\ mode' = "format" /\ erasing' = 0
    BY <1>5 DEF MountFormats
  <2> QED BY <1>2, <1>3, <1>4, <2>1 DEF FlashInv, RamInv, KeptInv, Mounted
<1>6. CASE MountValid
  <2>1. /\ Used # {} /\ mode' \in {"ready", "refused"}
        /\ tail' = FoundTail /\ head' = HeadIn(FoundHead) /\ latest' = LatestIn(FoundHead)
        /\ generation' = GenOf(FoundHead) /\ tailFilled' = (tailFilled \/ FoundHead # FoundTail)
    BY <1>6 DEF MountValid
  <2>2. PICK h \in Sectors : Ring(h)
    BY <1>1, <2>1 DEF FlashInv
  <2>3. FoundHead = h /\ (\A s \in Used : s = FoundTail \/ Older(h, FoundTail, s)) /\ h \in Used
    BY <1>1, <2>2, FoundAre DEF Flat, Ring
  <2>4. /\ LatestIn(h) \in Headers /\ SectorOf(LatestIn(h)) = h
        /\ HeadIn(h) = EndOf(LatestIn(h))
        /\ HeadIn(h) \in Headers => SectorOf(HeadIn(h)) # h
    BY <1>1, <2>3, ScannedIs DEF Flat
  <2>5. \A o \in Headers : SectorOf(o) = h => o <= LatestIn(h)
    BY <1>1, <2>4, BehindLast
  <2>6. Ring(h)'
    BY <1>2, <2>2, FlashInvStays
  <2>7. latest' = LatestIn(h) /\ head' = EndOf(LatestIn(h)) /\ generation' = GenOf(h)
    BY <2>1, <2>3, <2>4
  <2>8. Newest(h)'
    BY <1>2, <2>4, <2>5, <2>7 DEF Newest, SectorOf
  <2>9. AtEnd(h)'
    BY <1>2, <2>1, <2>7 DEF AtEnd, EndOf, GenOf
  <2>10. TailIs(h)'
    BY <1>1, <1>2, <2>1, <2>3 DEF TailIs, Older
  <2>11. Following(h)'
    BY <2>6, <2>8, <2>9, <2>10 DEF Following
  <2> QED BY <1>2, <1>3, <1>4, <2>1, <2>6, <2>11 DEF FlashInv, RamInv, KeptInv, Mounted
<1> QED BY <1>5, <1>6 DEF Mount

\* Reading, a failing operation and the start of a format leave the log as it is.
LEMMA StayingKeeps ==
  ASSUME LogInv, ReadInit \/ ReadNext \/ (ProgramFails /\ UNCHANGED <<flash, total>>) \/ FormatBegin
  PROVE  FlashInv' /\ RamInv' /\ KeptInv'
<1>1. FlashInv /\ RamInv /\ KeptInv
  BY DEF LogInv
<1>2. UNCHANGED <<flash, latest, head, tail, tailFilled, generation, safe>>
  BY DEF ReadInit, ReadNext, ProgramFails, FormatBegin, ram, iter
<1>3. Headers' = Headers /\ Used' = Used /\ (\A o : EndOf(o)' = EndOf(o)) /\ (\A s : GenOf(s)' = GenOf(s))
  BY <1>2, FlashStays
<1>4. Whole' /\ Packed' /\ Begun'
  BY <1>1, <1>2, FlashInvStays DEF FlashInv
<1>5. \A h : Ring(h) => Ring(h)'
  BY <1>2, FlashInvStays
<1>6. \/ UNCHANGED <<mode, erasing>> /\ Mounted
      \/ mode = "prepared" /\ mode' = "ready" /\ Mounted
      \/ mode' = "format" /\ erasing' = 0
  BY DEF ReadInit, ReadNext, ProgramFails, FormatBegin, ram, iter, Mounted
<1>7. ASSUME NEW h \in Sectors, Following(h), mode' # "format" PROVE Following(h)'
  <2>1. Ring(h)' /\ Newest(h)' /\ TailIs(h)'
    BY <1>2, <1>7, FlashInvStays DEF Following
  <2>2. AtEnd(h)' \/ AtNext(h)'
    BY <1>2, <1>3, <1>6, <1>7 DEF Following, AtEnd, AtNext, SectorOf, StartOf, After
  <2> QED BY <2>1, <2>2 DEF Following
<1>8. NoBlocks => NoBlocks'
  BY <1>2, <1>3 DEF NoBlocks
<1>9. FlashInv'
  <2>1. Used' = {} \/ \E h \in Sectors : Ring(h)'
    BY <1>1, <1>3, <1>5 DEF FlashInv
  <2>2. mode' = "format" => \A s \in Used' : s >= erasing'
    <3>1. \A s \in Used : s \in Sectors
      BY DEF Used
    <3>2. CASE mode' = "format" /\ erasing' = 0
      BY <1>3, <3>1, <3>2 DEF Sectors
    <3> QED BY <1>6, <3>2 DEF Mounted
  <2> QED BY <1>4, <2>1, <2>2 DEF FlashInv
<1>10. RamInv'
  BY <1>1, <1>6, <1>7, <1>8 DEF RamInv, Mounted
<1>11. KeptInv'
  <2>1. safe' # 0 => \E o \in Headers' : flash'[o].block >= safe'
    BY <1>1, <1>2, FlashInvStays DEF KeptInv
  <2> QED BY <1>6, <2>1 DEF KeptInv, Mounted
<1> QED BY <1>9, <1>10, <1>11

\* Where logdb__prep_for_write puts a block in a log with the newest one in sector h: behind
\* that, or at the start of the sector after h, which it erases if it is in use.
LEMMA PrepareFinds ==
  ASSUME Assumptions, RoomAssumption, TypeInv, Flat, NEW h \in Sectors, Following(h),
         NEW n \in Sizes, Prepare(n)
  PROVE  \/ /\ AtEnd(h) /\ head' = head /\ SectorOf(head) = h
            /\ UNCHANGED <<flash, tail, generation, iter>>
         \/ /\ head' = StartOf(After(h)) /\ After(h) \in Sectors /\ After(h) # h
            /\ generation' = (GenOf(h) # (h = NumSectors - 1))
            /\ \/ After(h) \notin Used /\ tail # After(h) /\ UNCHANGED <<flash, tail, iter>>
               \/ /\ flash' = EraseOf(After(h))
                  /\ \/ tail = After(h) /\ tail' = After(tail)
                     \/ tail # After(h) /\ UNCHANGED <<tail, iter>>
<1>1. Ring(h) /\ Newest(h) /\ (AtEnd(h) \/ AtNext(h)) /\ TailIs(h)
  BY DEF Following
<1>2. /\ h \in Nat /\ NumSectors \in Nat /\ Sectors = 0..(NumSectors - 1) /\ head \in 0..Total
      /\ n \in Nat /\ n >= 1 /\ n <= SectorSize /\ SectorSize \in Nat
      /\ tail \in Sectors /\ tailFilled \in BOOLEAN /\ GenOf(h) \in BOOLEAN
  <2>1. GenOf(h) \in BOOLEAN
    BY <1>1, UsedIs DEF Flat, Ring
  <2> QED BY <2>1, Geometry, TypesAre DEF TypeInv
<1> DEFINE a == After(h)
           at == WriteAt(n)
           wraps == Place(n) >= Total
<1>3. a = (IF h + 1 = NumSectors THEN 0 ELSE h + 1) /\ a \in Sectors /\ a # h /\ a \in Nat
  BY <1>2, AfterIs, AfterApart
<1>4. /\ mode = "ready" /\ mode' = "prepared" /\ head' = at
      /\ generation' = (generation # wraps)
      /\ \/ /\ wraps \/ (SectorOf(at) = tail /\ tailFilled)
            /\ flash' = EraseOf(SectorOf(at))
            /\ \/ /\ tail = SectorOf(at) /\ tail' = After(tail)
                  /\ read' = StartOf(After(tail)) /\ start' = TRUE /\ got' = 0
               \/ tail # SectorOf(at) /\ UNCHANGED <<tail, iter>>
         \/ /\ ~wraps /\ ~(SectorOf(at) = tail /\ tailFilled)
            /\ UNCHANGED <<flash, tail, iter>>
  BY PrepareIs
<1>5. /\ \/ head \in Cells /\ head + n <= Limit(SectorOf(head)) /\ Place(n) = head
         \/ /\ head \in Cells /\ head + n > Limit(SectorOf(head))
            /\ Place(n) = StartOf(SectorOf(head) + 1)
         \/ head = Total /\ Place(n) = Total
      /\ at \in Cells /\ at = IF wraps THEN 0 ELSE Place(n)
  BY <1>2, PlaceIs DEF WriteAt
<1>6. /\ Total \in Nat \ {0} /\ Cells = 0..(Total - 1) /\ StartOf(0) = 0 /\ StartOf(NumSectors) = Total
      /\ StartOf(h) \in Nat /\ Limit(h) \in Nat /\ Limit(h) = StartOf(h + 1) /\ Limit(h) = StartOf(h) + SectorSize
      /\ head \in Nat /\ SectorOf(StartOf(a)) = a /\ StartOf(a) \in Cells
      /\ Limit(a) = StartOf(a) + SectorSize /\ StartOf(a) \in Nat /\ Limit(a) \in Nat
  <2>1. Total \in Nat \ {0} /\ Cells = 0..(Total - 1) /\ StartOf(0) = 0 /\ StartOf(NumSectors) = Total
    BY TotalIs
  <2>2. /\ StartOf(h) \in Nat /\ Limit(h) \in Nat /\ Limit(h) = StartOf(h + 1)
        /\ Limit(h) = StartOf(h) + SectorSize
    BY <1>2, StartIs
  <2> HIDE DEF a, at, wraps
  <2>3. Limit(a) = StartOf(a) + SectorSize /\ StartOf(a) \in Nat /\ Limit(a) \in Nat
    BY <1>3, StartIs
  <2>4. SectorOf(StartOf(a)) = a /\ StartOf(a) \in Cells
    BY <1>3, SectorOfStart, StartCell
  <2> QED BY <1>2, <2>1, <2>2, <2>3, <2>4
<1> HIDE DEF a, at, wraps
<1>7. h = NumSectors - 1 => StartOf(a) = 0 /\ Limit(h) = Total
  BY <1>2, <1>3, <1>6
<1>8. h # NumSectors - 1 => StartOf(a) = Limit(h) /\ Limit(h) < Total
  <2>1. h # NumSectors - 1 => a = h + 1 /\ StartOf(a) = Limit(h)
    BY <1>2, <1>3, <1>6
  <2> QED BY <1>6, <2>1
\* Where the block goes, in the three cases.
<1>9. CASE AtEnd(h) /\ Place(n) = head /\ SectorOf(head) = h /\ head \in Cells
  <2>1. wraps = FALSE /\ at = head
    BY <1>5, <1>6, <1>9 DEF wraps
  <2>2. ~(SectorOf(at) = tail /\ tailFilled)
    BY <1>1, <1>9, <2>1 DEF TailIs
  <2>3. generation' = generation
    <3>1. generation \in BOOLEAN
      BY TypesAre DEF TypeInv
    <3> QED BY <1>4, <2>1, <3>1
  <2> QED BY <1>4, <1>9, <2>1, <2>2, <2>3
<1>10. ASSUME at = StartOf(a), generation' = (GenOf(h) # (h = NumSectors - 1))
       PROVE  /\ head' = StartOf(After(h)) /\ After(h) \in Sectors /\ After(h) # h
              /\ generation' = (GenOf(h) # (h = NumSectors - 1))
              /\ \/ After(h) \notin Used /\ tail # After(h) /\ UNCHANGED <<flash, tail, iter>>
                 \/ /\ flash' = EraseOf(After(h))
                    /\ \/ tail = After(h) /\ tail' = After(tail)
                       \/ tail # After(h) /\ UNCHANGED <<tail, iter>>
  <2>1. SectorOf(at) = a
    BY <1>6, <1>10
  <2>2. ASSUME ~(a = tail /\ tailFilled) PROVE a \notin Used /\ tail # a
    <3>1. tail # a
      BY <1>1, <1>2, <1>3, <2>2 DEF TailIs
    <3>2. ~Older(h, tail, a)
      BY <1>2, <1>3, <3>1, OlderAfter DEF a
    <3> QED BY <1>1, <3>1, <3>2 DEF TailIs
  <2>3. head' = StartOf(a)
    BY <1>4, <1>10
  <2>4. \/ a \notin Used /\ tail # a /\ UNCHANGED <<flash, tail, iter>>
        \/ /\ flash' = EraseOf(a)
           /\ \/ tail = a /\ tail' = After(tail)
              \/ tail # a /\ UNCHANGED <<tail, iter>>
    BY <1>4, <2>1, <2>2
  <2> QED BY <1>3, <1>10, <2>3, <2>4 DEF a
<1>11. CASE AtEnd(h) /\ ~(Place(n) = head /\ SectorOf(head) = h /\ head \in Cells)
  <2>1. generation = GenOf(h) /\ head = EndOf(latest) /\ latest \in Headers /\ SectorOf(latest) = h
    BY <1>1, <1>11 DEF AtEnd, Newest
  <2>2. StartOf(h) < head /\ head <= Limit(h)
    <3>1. latest < EndOf(latest) /\ latest \in Nat /\ EndOf(latest) \in Nat /\ EndOf(latest) <= Limit(SectorOf(latest))
      BY <2>1, HeaderIs DEF Flat, Fitting
    <3>2. StartOf(SectorOf(latest)) <= latest
      BY <2>1, CellSector DEF Headers
    <3> QED BY <1>6, <2>1, <3>1, <3>2
  <2>3. Place(n) = Limit(h)
    <3>1. CASE head < Limit(h)
      <4>1. SectorOf(head) = h /\ head \in Cells
        <5>1. StartOf(h) <= head
          BY <1>6, <2>2
        <5> QED BY <1>6, <3>1, <5>1, StartCell
      <4> QED BY <1>5, <1>6, <1>11, <4>1
    <3>2. CASE head = Limit(h)
      <4>1. CASE h = NumSectors - 1
        BY <1>5, <1>6, <1>7, <3>2, <4>1
      <4>2. CASE h # NumSectors - 1
        <5>1. head = StartOf(a) /\ SectorOf(head) = a
          BY <1>6, <1>8, <3>2, <4>2
        <5>2. head + n <= Limit(SectorOf(head)) /\ head # Total
          BY <1>2, <1>6, <5>1
        <5>3. ~(head + n > Limit(SectorOf(head)))
          BY <1>2, <1>6, <5>1
        <5> QED BY <1>5, <3>2, <5>2, <5>3
      <4> QED BY <4>1, <4>2
    <3> QED BY <1>6, <2>2, <3>1, <3>2
  <2>4. CASE h = NumSectors - 1
    <3>1. wraps = TRUE
      BY <1>6, <1>7, <2>3, <2>4 DEF wraps
    <3>2. at = StartOf(a)
      BY <1>5, <1>7, <2>4, <3>1
    <3>3. generation' = (GenOf(h) # (h = NumSectors - 1))
      BY <1>4, <2>1, <2>4, <3>1
    <3> QED BY <1>10, <3>2, <3>3
  <2>5. CASE h # NumSectors - 1
    <3>1. wraps = FALSE
      BY <1>6, <1>8, <2>3, <2>5 DEF wraps
    <3>2. at = StartOf(a)
      BY <1>5, <1>8, <2>3, <2>5, <3>1
    <3>3. generation' = (GenOf(h) # (h = NumSectors - 1))
      <4>1. (h = NumSectors - 1) = FALSE
        BY <2>5
      <4> QED BY <1>4, <2>1, <3>1, <4>1
    <3> QED BY <1>10, <3>2, <3>3
  <2> QED BY <2>4, <2>5
<1>12. CASE AtNext(h)
  <2>1. head = StartOf(a) /\ generation = (GenOf(h) # (h = NumSectors - 1))
    BY <1>12 DEF AtNext, a
  <2>2. SectorOf(head) = a /\ ~(head + n > Limit(SectorOf(head))) /\ head # Total
    BY <1>2, <1>6, <2>1
  <2>3. Place(n) = head
    BY <1>5, <2>2
  <2>4. wraps = FALSE
    BY <1>6, <2>1, <2>3 DEF wraps
  <2>5. at = StartOf(a)
    BY <1>5, <2>1, <2>3, <2>4
  <2>6. generation' = (GenOf(h) # (h = NumSectors - 1))
    <3>1. generation \in BOOLEAN
      BY TypesAre DEF TypeInv
    <3> QED BY <1>4, <2>1, <2>4, <3>1
  <2> QED BY <1>10, <2>5, <2>6
<1> QED BY <1>1, <1>9, <1>11, <1>12

\* In an empty log it goes to the start.
LEMMA PrepareEmpty ==
  ASSUME Assumptions, TypeInv, NoBlocks, NEW n \in Sizes, Prepare(n)
  PROVE  head' = 0 /\ UNCHANGED <<flash, tail, generation, iter>>
<1>1. /\ head = 0 /\ ~tailFilled /\ n \in Nat /\ n <= SectorSize /\ SectorSize \in Nat
      /\ head \in 0..Total /\ generation \in BOOLEAN
  BY Geometry, TypesAre DEF NoBlocks, TypeInv
<1>2. SectorOf(0) = 0 /\ Limit(0) = StartOf(0) + SectorSize /\ StartOf(0) = 0 /\ Total \in Nat \ {0}
  BY TotalIs, SectorOfStart, StartIs
<1>3. Place(n) = 0
  <2>1. ~(head + n > Limit(SectorOf(head))) /\ head # Total
    BY <1>1, <1>2
  <2> QED BY <1>1, <2>1, PlaceIs
<1>4. (Place(n) >= Total) = FALSE /\ WriteAt(n) = 0
  BY <1>2, <1>3 DEF WriteAt
<1>5. generation' = (generation # FALSE) /\ head' = 0 /\ UNCHANGED <<flash, tail, iter>>
  BY <1>1, <1>4, PrepareIs
<1> QED BY <1>1, <1>5

\* A sector without the newest block can be erased.
LEMMA EraseRing ==
  ASSUME Assumptions, Flat, NEW h \in Sectors, Ring(h), NEW a \in Sectors, a # h,
         flash' = EraseOf(a), UNCHANGED total
  PROVE  /\ Flat' /\ Ring(h)'
         /\ Newest(h) /\ UNCHANGED latest => Newest(h)'
         /\ GenOf(h)' = GenOf(h)
         /\ \A u \in Sectors : u \in Used' <=> u \in Used /\ u # a
         /\ \A o : o \in Headers' <=> o \in Headers /\ SectorOf(o) # a
         /\ \A o \in Headers' : flash'[o] = flash[o] /\ EndOf(o)' = EndOf(o)
<1>1. /\ Flat'
      /\ \A u \in Sectors : u \in Used' <=> u \in Used /\ u # a
      /\ \A u \in Used' : GenOf(u)' = GenOf(u)
  BY EraseKeeps
<1>2. /\ \A o : o \in Headers' <=> o \in Headers /\ SectorOf(o) # a
      /\ \A o \in Headers' : flash'[o] = flash[o] /\ EndOf(o)' = EndOf(o)
  BY EraseIs DEF Flat
<1>3. h \in Used' /\ GenOf(h)' = GenOf(h) /\ \A s \in Used' : s \in Used /\ GenOf(s)' = GenOf(s)
  <2>1. h \in Used'
    BY <1>1 DEF Ring
  <2>2. \A s \in Used' : s \in Sectors
    BY DEF Used, Sectors
  <2> QED BY <1>1, <2>1, <2>2
<1>4. \A s \in Used' : GenOf(s)' = GenOf(h)' <=> s <= h
  BY <1>3 DEF Ring
<1>5. InOrder(h)'
  BY <1>2 DEF Ring, InOrder, Older, SectorOf
<1>6. Ring(h)'
  BY <1>3, <1>4, <1>5 DEF Ring
<1>7. Newest(h) /\ UNCHANGED latest => Newest(h)'
  BY <1>2 DEF Newest, SectorOf
<1> QED BY <1>1, <1>2, <1>3, <1>6, <1>7

LEMMA PrepareKeeps ==
  ASSUME Assumptions, RoomAssumption, LogInv, NEW n \in Sizes, Prepare(n)
  PROVE  FlashInv' /\ RamInv' /\ KeptInv'
<1>1. TypeInv /\ FlashInv /\ RamInv /\ KeptInv /\ Flat
  BY FlatIs DEF LogInv
<1>2. mode = "ready" /\ mode' = "prepared" /\ UNCHANGED <<latest, tailFilled, total, safe>>
  BY PrepareIs
<1>3. NoBlocks \/ \E h \in Sectors : Following(h)
  BY <1>1, <1>2 DEF RamInv, Mounted
<1>4. KeptInv' <=> (safe # 0 => \E o \in Headers' : flash'[o].block >= safe)
  BY <1>2 DEF KeptInv
<1>5. CASE NoBlocks
  <2>1. head' = 0 /\ UNCHANGED <<flash, tail, generation, iter>>
    BY <1>1, <1>5, PrepareEmpty
  <2>2. Used' = {} /\ NoBlocks'
    BY <1>2, <1>5, <2>1, FlashStays DEF NoBlocks
  <2>3. Whole' /\ Packed' /\ Begun'
    BY <1>1, <2>1, FlashInvStays DEF FlashInv
  <2>4. safe # 0 => \E o \in Headers' : flash'[o].block >= safe
    BY <1>1, <1>2, <2>1, FlashInvStays DEF KeptInv
  <2> QED BY <1>2, <1>4, <2>2, <2>3, <2>4 DEF FlashInv, RamInv
<1>6. CASE \E h \in Sectors : Following(h)
  <2>1. PICK h \in Sectors : Following(h)
    BY <1>6
  <2>2. Ring(h) /\ Newest(h) /\ TailIs(h)
    BY <2>1 DEF Following
  <2> SUFFICES /\ Whole' /\ Packed' /\ Begun' /\ Following(h)'
               /\ safe # 0 => \E o \in Headers' : flash'[o].block >= safe
    BY <1>2, <1>4, <2>1 DEF FlashInv, RamInv, Following, Sectors
  <2>3. CASE AtEnd(h) /\ head' = head /\ SectorOf(head) = h /\ UNCHANGED <<flash, tail, generation, iter>>
    <3>1. Whole' /\ Packed' /\ Begun' /\ Ring(h)' /\ Newest(h)' /\ TailIs(h)'
      BY <1>1, <1>2, <2>2, <2>3, FlashInvStays DEF FlashInv
    <3>2. AtEnd(h)'
      BY <1>2, <2>3, FlashStays DEF AtEnd, SectorOf
    <3>3. safe # 0 => \E o \in Headers' : flash'[o].block >= safe
      BY <1>1, <1>2, <2>3, FlashInvStays DEF KeptInv
    <3> QED BY <3>1, <3>2, <3>3 DEF Following
  <2>4. CASE /\ head' = StartOf(After(h)) /\ After(h) \in Sectors /\ After(h) # h
             /\ generation' = (GenOf(h) # (h = NumSectors - 1))
             /\ \/ After(h) \notin Used /\ tail # After(h) /\ UNCHANGED <<flash, tail, iter>>
                \/ /\ flash' = EraseOf(After(h))
                   /\ \/ tail = After(h) /\ tail' = After(tail)
                      \/ tail # After(h) /\ UNCHANGED <<tail, iter>>
    <3>1. PICK a \in Sectors : a = After(h)
      BY <2>4
    <3>2. a # h /\ SectorOf(StartOf(a)) = a /\ head' = StartOf(a) /\ tail \in Sectors
      BY <1>1, <2>4, <3>1, StartCell, SectorOfStart, TypesAre DEF TypeInv
    <3>3. CASE a \notin Used /\ tail # a /\ UNCHANGED <<flash, tail, iter>>
      <4>1. Whole' /\ Packed' /\ Begun' /\ Ring(h)' /\ Newest(h)'
        BY <1>1, <1>2, <2>2, <3>3, FlashInvStays DEF FlashInv
      <4>2. AtNext(h)'
        <5>1. GenOf(h)' = GenOf(h) /\ Used' = Used
          BY <3>3, FlashStays
        <5> QED BY <2>4, <3>1, <3>3, <5>1 DEF AtNext, StartOf, After
      <4>3. TailIs(h)'
        <5>1. Used' = Used /\ SectorOf(head)' # h
          BY <3>2, <3>3, FlashStays DEF SectorOf
        <5> QED BY <1>2, <2>2, <3>3, <5>1 DEF TailIs, Older
      <4>4. safe # 0 => \E o \in Headers' : flash'[o].block >= safe
        BY <1>1, <1>2, <3>3, FlashInvStays DEF KeptInv
      <4> QED BY <4>1, <4>2, <4>3, <4>4 DEF Following
    <3>4. CASE /\ flash' = EraseOf(a)
               /\ \/ tail = a /\ tail' = After(tail)
                  \/ tail # a /\ UNCHANGED <<tail, iter>>
      <4>1. /\ Flat' /\ Ring(h)' /\ Newest(h)' /\ GenOf(h)' = GenOf(h)
            /\ \A u \in Sectors : u \in Used' <=> u \in Used /\ u # a
            /\ \A o : o \in Headers' <=> o \in Headers /\ SectorOf(o) # a
            /\ \A o \in Headers' : flash'[o] = flash[o] /\ EndOf(o)' = EndOf(o)
        BY <1>1, <1>2, <2>2, <3>2, <3>4, EraseRing
      <4>2. tail' # a /\ tail' \in Sectors
        <5>1. After(a) # a /\ After(a) \in Sectors
          BY AfterApart
        <5> QED BY <3>2, <3>4, <5>1
      <4>3. AtNext(h)'
        BY <2>4, <3>1, <4>1, <4>2 DEF AtNext, StartOf, After
      <4>4. TailIs(h)'
        <5>1. ~tailFilled' => tail' = h
          BY <1>2, <2>2, <3>2, <3>4 DEF TailIs
        <5>2. SectorOf(head)' # h
          BY <3>2 DEF SectorOf
        <5>3. ASSUME NEW s \in Used' PROVE s = tail' \/ Older(h, tail', s)
          <6>1. s \in Used /\ s # a /\ s \in Sectors
            <7>1. s \in Sectors
              BY DEF Used, Sectors
            <7> QED BY <4>1, <7>1
          <6>2. CASE tail = a /\ tail' = After(tail)
            BY <3>1, <6>1, <6>2, OlderAfter
          <6>3. CASE tail # a /\ UNCHANGED <<tail, iter>>
            BY <2>2, <6>1, <6>3 DEF TailIs
          <6> QED BY <3>4, <6>2, <6>3
        <5> QED BY <5>1, <5>2, <5>3 DEF TailIs, Older
      <4>5. safe # 0 => \E o \in Headers' : flash'[o].block >= safe
        <5> SUFFICES ASSUME safe # 0 PROVE \E o \in Headers' : flash'[o].block >= safe
          OBVIOUS
        <5>1. PICK o \in Headers : flash[o].block >= safe
          BY <1>1 DEF KeptInv
        <5>2. latest \in Headers /\ SectorOf(latest) = h /\ flash[o].block <= flash[latest].block
          BY <1>1, <2>2, NewestIs
        <5>3. flash[o].block \in Nat /\ flash[latest].block \in Nat /\ safe \in Nat
          BY <1>1, <5>2, HeaderIs, TypesAre DEF Flat, TypeInv
        <5>4. latest \in Headers' /\ flash'[latest] = flash[latest]
          BY <3>2, <4>1, <5>2
        <5> QED BY <5>1, <5>2, <5>3, <5>4
      <4> QED BY <4>1, <4>3, <4>4, <4>5 DEF Following, Flat
    <3> QED BY <2>4, <3>1, <3>3, <3>4
  <2> QED BY <1>1, <2>1, <2>3, <2>4, PrepareFinds
<1> QED BY <1>3, <1>5, <1>6

\* The block programmed is the newest, and its sector the one of the newest block.
LEMMA BlockRing ==
  ASSUME Assumptions, LogInv, mode = "prepared", flash' = Block, total' = total + 1,
         NEW c, c = SectorOf(head)
  PROVE  /\ Flat' /\ c \in Sectors /\ head \in Headers' /\ flash'[head].block = total + 1
         /\ head \notin Headers
         /\ \A o : o \in Headers' <=> o \in Headers \/ o = head
         /\ \A o \in Headers : flash'[o] = flash[o] /\ EndOf(o)' = EndOf(o)
         /\ \A o : o = head => EndOf(o)' = head + size
         /\ \A u \in Sectors : u \in Used' <=> u \in Used \/ u = c
         /\ Ring(c)' /\ GenOf(c)' = generation
         /\ \A o \in Headers' : SectorOf(o) = c => o <= head
<1>1. TypeInv /\ FlashInv /\ RamInv /\ Flat
  BY FlatIs DEF LogInv
<1>2. FreeFrom(head) /\ FullTo(head) /\ head \in Cells /\ head \in Nat /\ c \in Sectors
  BY <1>1, HeadIsFree, CellSector
<1>3. /\ Flat'
      /\ head \notin Headers
      /\ \A o : o \in Headers' <=> o \in Headers \/ o = head
      /\ \A o \in Headers : flash'[o] = flash[o] /\ EndOf(o)' = EndOf(o)
      /\ flash'[head].block = total + 1 /\ flash'[head].gen = generation
      /\ \A o : o = head => EndOf(o)' = head + size
      /\ \A u \in Sectors : u \in Used' <=> u \in Used \/ u = c
      /\ \A u \in Used : GenOf(u)' = GenOf(u)
      /\ c \notin Used => GenOf(c)' = generation
  BY <1>1, <1>2, BlockIs
<1>4. \A o \in Headers : flash[o].block < total + 1 /\ o \in Nat /\ SectorOf(o) \in Used
  <2> SUFFICES ASSUME NEW o \in Headers PROVE flash[o].block < total + 1 /\ o \in Nat /\ SectorOf(o) \in Used
    OBVIOUS
  <2>1. flash[o].block <= total /\ flash[o].block \in Nat /\ o \in Nat /\ total \in Nat
    BY <1>1, HeaderIs, TypesAre DEF Flat, Fitting, TypeInv
  <2> QED BY <1>1, <2>1, HeaderUsed
<1>5. \A o \in Headers : SectorOf(o) = c => o < head
  <2> SUFFICES ASSUME NEW o \in Headers, SectorOf(o) = c, ~(o < head) PROVE FALSE
    BY <1>2, <1>4
  <2>1. o \in Cells /\ o >= head /\ flash[o] # Erased
    BY <1>1, <1>2, <1>4, HeaderIs DEF Flat
  <2> QED BY <1>2, <2>1 DEF FreeFrom
<1>6. \A s \in Used : s \in Sectors /\ s \in Nat
  BY <1>1, UsedIs DEF Flat
\* The order of the blocks in the flash, if that of the sectors in use is the same as before.
<1>7. ASSUME \A o, p \in Headers : \/ Older(c, SectorOf(o), SectorOf(p))
                                   \/ SectorOf(o) = SectorOf(p) /\ o < p
                                   => flash[o].block < flash[p].block
      PROVE  InOrder(c)'
  <2> SUFFICES ASSUME NEW o \in Headers', NEW p \in Headers',
                      Older(c, SectorOf(o), SectorOf(p)) \/ (SectorOf(o) = SectorOf(p) /\ o < p)
               PROVE  flash'[o].block < flash'[p].block
    BY DEF InOrder, Older, SectorOf
  <2>1. CASE o \in Headers /\ p \in Headers
    BY <1>3, <1>7, <2>1
  <2>2. CASE o \in Headers /\ p = head
    BY <1>3, <1>4, <2>2
  <2>3. CASE o = head /\ p = head
    BY <1>2, <2>3, OlderIs
  <2>4. CASE o = head /\ p \in Headers
    <3>1. SectorOf(p) \in Sectors /\ SectorOf(o) = c /\ p \in Nat
      BY <1>4, <1>6, <2>4
    <3>2. ~Older(c, SectorOf(o), SectorOf(p))
      BY <1>2, <3>1, OlderIs
    <3> QED BY <1>2, <1>5, <2>4, <3>1, <3>2
  <2> QED BY <1>3, <2>1, <2>2, <2>3, <2>4
<1>8. c \in Used' /\ \A s \in Used' : s \in Sectors
  <2>1. \A s \in Used' : s \in Sectors
    BY DEF Used, Sectors
  <2> QED BY <1>2, <1>3, <2>1
<1>9. ASSUME InOrder(c)', GenOf(c)' = generation, \A s \in Used : GenOf(s) = generation <=> s <= c
      PROVE  Ring(c)' /\ GenOf(c)' = generation
  <2>1. \A s \in Used' : GenOf(s)' = GenOf(c)' <=> s <= c
    <3> SUFFICES ASSUME NEW s \in Used' PROVE GenOf(s)' = GenOf(c)' <=> s <= c
      OBVIOUS
    <3>1. CASE s = c
      BY <1>2, <3>1 DEF Sectors
    <3>2. CASE s # c
      <4>1. s \in Used
        BY <1>3, <1>8, <3>2
      <4> QED BY <1>3, <1>9, <4>1
    <3> QED BY <3>1, <3>2
  <2> QED BY <1>8, <1>9, <2>1 DEF Ring
<1>10. \A o \in Headers' : SectorOf(o) = c => o <= head
  BY <1>2, <1>3, <1>4, <1>5
<1> SUFFICES Ring(c)' /\ GenOf(c)' = generation
  BY <1>2, <1>3, <1>10
<1>11. NoBlocks \/ \E h \in Sectors : Following(h)
  BY <1>1 DEF RamInv, Mounted
<1>12. CASE NoBlocks
  <2>1. Used = {} /\ \A o \in Headers : FALSE
    BY <1>4, <1>12 DEF NoBlocks
  <2>2. InOrder(c)' /\ GenOf(c)' = generation
    BY <1>3, <1>7, <2>1
  <2> QED BY <1>9, <2>1, <2>2
<1>13. CASE \E h \in Sectors : Following(h)
  <2>1. PICK h \in Sectors : Following(h)
    BY <1>13
  <2>2. Ring(h) /\ (AtEnd(h) \/ AtNext(h))
    BY <2>1 DEF Following
  <2>3. CASE AtEnd(h)
    <3>1. c = h /\ generation = GenOf(h)
      BY <2>3 DEF AtEnd
    <3>2. InOrder(c)'
      BY <1>7, <2>2, <3>1 DEF Ring, InOrder
    <3>3. c \in Used /\ \A s \in Used : GenOf(s) = generation <=> s <= c
      BY <2>2, <3>1 DEF Ring
    <3>4. GenOf(c)' = generation
      BY <1>3, <3>1, <3>3
    <3> QED BY <1>9, <3>2, <3>3, <3>4
  <2>4. CASE AtNext(h)
    <3>1. c = After(h) /\ c \notin Used /\ generation = (GenOf(h) # (h = NumSectors - 1))
      <4>1. After(h) \in Sectors /\ head = StartOf(After(h)) /\ After(h) \notin Used
        BY <2>4, AfterIs DEF AtNext
      <4>2. c = After(h)
        BY <4>1, SectorOfStart, StartCell
      <4> QED BY <2>4, <4>1, <4>2 DEF AtNext
    <3>2. InOrder(c)'
      <4>1. ASSUME NEW o \in Headers, NEW p \in Headers,
                   Older(c, SectorOf(o), SectorOf(p)) \/ (SectorOf(o) = SectorOf(p) /\ o < p)
            PROVE  flash[o].block < flash[p].block
        <5>1. SectorOf(o) \in Sectors /\ SectorOf(p) \in Sectors /\ SectorOf(o) # c /\ SectorOf(p) # c
          BY <1>4, <1>6, <3>1
        <5>2. Older(h, SectorOf(o), SectorOf(p)) \/ (SectorOf(o) = SectorOf(p) /\ o < p)
          BY <1>2, <3>1, <4>1, <5>1, OlderStays
        <5> QED BY <2>2, <5>2 DEF Ring, InOrder
      <4> QED BY <1>7, <4>1
    <3>3. ASSUME NEW s \in Used PROVE GenOf(s) = generation <=> s <= c
      <4>1. (GenOf(s) = GenOf(h) <=> s <= h) /\ s # c /\ h \in Used
        BY <2>2, <3>1, <3>3 DEF Ring
      <4>2. GenOf(s) \in BOOLEAN /\ GenOf(h) \in BOOLEAN /\ s \in Nat /\ s < NumSectors
        BY <1>1, <4>1, UsedIs, Geometry DEF Flat
      <4>3. /\ c = (IF h + 1 = NumSectors THEN 0 ELSE h + 1)
            /\ h \in Nat /\ NumSectors \in Nat /\ h < NumSectors
        BY <3>1, AfterIs, Geometry
      <4>4. CASE h = NumSectors - 1
        <5>1. GenOf(s) = GenOf(h) /\ ~(s <= c)
          BY <4>1, <4>2, <4>3, <4>4
        <5>2. generation = ~GenOf(h)
          BY <3>1, <4>2, <4>4
        <5> QED BY <4>2, <5>1, <5>2
      <4>5. CASE h # NumSectors - 1
        <5>1. s <= h <=> s <= c
          BY <4>1, <4>2, <4>3, <4>5
        <5>2. generation = GenOf(h)
          BY <3>1, <4>2, <4>5
        <5> QED BY <4>1, <5>1, <5>2
      <4> QED BY <4>4, <4>5
    <3>4. GenOf(c)' = generation
      BY <1>3, <3>1
    <3> QED BY <1>9, <3>2, <3>3, <3>4
  <2> QED BY <2>2, <2>3, <2>4
<1> QED BY <1>11, <1>12, <1>13

\* A block of a log that keeps one as new as the last acknowledged is kept.
LEMMA KeptStays ==
  ASSUME NEW o \in Headers, o \in Headers', flash'[o] = flash[o], flash[o].block >= safe, UNCHANGED safe
  PROVE  \E p \in Headers' : flash'[p].block >= safe'
OBVIOUS

LEMMA ProgramKeeps ==
  ASSUME Assumptions, RoomAssumption, LogInv, Program
  PROVE  FlashInv' /\ RamInv' /\ KeptInv'
<1>1. TypeInv /\ FlashInv /\ RamInv /\ Flat
  BY FlatIs DEF LogInv
<1>2. /\ mode = "prepared" /\ flash' = Block /\ total' = total + 1 /\ safe' = total + 1
      /\ latest' = head /\ head' = head + size
      /\ tailFilled' = (tailFilled \/ SectorOf(head') # tail) /\ mode' = "ready"
      /\ UNCHANGED <<tail, generation>>
  BY DEF Program
<1>3. /\ size \in Sizes /\ size \in Nat /\ size >= 1 /\ size <= SectorSize /\ head \in Cells /\ head \in Nat
      /\ head + size <= Limit(SectorOf(head)) /\ total \in Nat
      /\ tail \in Sectors /\ tailFilled \in BOOLEAN
  <2>1. size \in Sizes /\ head \in Cells /\ head + size <= Limit(SectorOf(head))
    BY <1>1, <1>2 DEF TypeInv, HeadFits
  <2>2. total \in Nat /\ tail \in Sectors /\ tailFilled \in BOOLEAN /\ head \in Nat
    BY <1>1, TypesAre DEF TypeInv
  <2> QED BY <2>1, <2>2, Geometry
<1>4. PICK c \in Sectors : c = SectorOf(head)
  BY <1>3, CellSector
<1>5. /\ Flat' /\ head \in Headers' /\ flash'[head].block = total + 1
      /\ \A o : o \in Headers' <=> o \in Headers \/ o = head
      /\ \A o : o = head => EndOf(o)' = head + size
      /\ \A u \in Sectors : u \in Used' <=> u \in Used \/ u = c
      /\ Ring(c)' /\ GenOf(c)' = generation
      /\ \A o \in Headers' : SectorOf(o) = c => o <= head
  BY <1>2, <1>4, BlockRing
<1>6. Newest(c)'
  <2>1. latest' \in Headers' /\ SectorOf(head) = c /\ \A o \in Headers' : SectorOf(o) = c => o <= latest'
    BY <1>2, <1>4, <1>5
  <2> QED BY <1>2, <2>1 DEF Newest, SectorOf
<1>7. AtEnd(c)'
  <2>1. \A o : o = latest' => EndOf(o)' = head'
    BY <1>2, <1>5
  <2>2. head' = EndOf(latest)'
    BY <2>1
  <2> QED BY <1>2, <1>5, <2>2 DEF AtEnd
<1>8. ASSUME NEW k, k = SectorOf(head + size), TailIs(c)' PROVE FlashInv' /\ RamInv' /\ KeptInv'
  <2>1. Following(c)'
    BY <1>5, <1>6, <1>7, <1>8 DEF Following
  <2>2. FlashInv'
    BY <1>2, <1>4, <1>5 DEF FlashInv, Flat, Sectors
  <2>3. RamInv'
    BY <1>2, <1>4, <2>1 DEF RamInv, Sectors
  <2>4. KeptInv'
    <3>1. flash'[head].block >= safe'
      BY <1>2, <1>3, <1>5
    <3> QED BY <1>2, <1>5, <3>1 DEF KeptInv
  <2> QED BY <2>2, <2>3, <2>4
\* What is left is the tail.
<1>9. ASSUME \A s \in Used : s = tail \/ Older(c, tail, s),
             c = tail \/ Older(c, tail, c),
             tail = c \/ tailFilled \/ SectorOf(head + size) # tail,
             tail = c => ~tailFilled
      PROVE  TailIs(c)'
  <2>1. SectorOf(head)' = SectorOf(head + size)
    BY <1>2 DEF SectorOf
  <2>2. \A s \in Used' : s = tail \/ Older(c, tail, s)
    <3>1. \A s \in Used' : s \in Sectors
      BY DEF Used, Sectors
    <3> QED BY <1>5, <1>9, <3>1
  <2>3. tailFilled' = (tailFilled \/ SectorOf(head + size) # tail)
    BY <1>2
  <2>4. ~tailFilled' => tail' = c
    BY <1>2, <1>3, <1>9, <2>3
  <2>5. tailFilled' /\ tail' = c => SectorOf(head)' # c
    BY <1>2, <1>3, <1>9, <2>1, <2>3
  <2> QED BY <1>2, <2>2, <2>4, <2>5 DEF TailIs, Older
<1>10. NoBlocks \/ \E h \in Sectors : Following(h)
  BY <1>1, <1>2 DEF RamInv, Mounted
<1>11. CASE NoBlocks
  <2>1. Used = {} /\ tail = 0 /\ head = 0 /\ ~tailFilled /\ c = 0
    BY <1>4, <1>11, ZeroIs DEF NoBlocks
  <2> QED BY <1>8, <1>9, <2>1
<1>12. CASE \E h \in Sectors : Following(h)
  <2>1. PICK h \in Sectors : Following(h)
    BY <1>12
  <2>2. TailIs(h) /\ (AtEnd(h) \/ AtNext(h))
    BY <2>1 DEF Following
  <2>3. CASE AtEnd(h)
    <3>1. c = h
      BY <1>2, <1>4, <2>3 DEF AtEnd
    <3>2. \A s \in Used : s = tail \/ Older(c, tail, s)
      BY <2>2, <3>1 DEF TailIs
    <3>3. c = tail \/ Older(c, tail, c)
      BY <1>3, OlderIs
    <3>4. (tail = c => ~tailFilled) /\ (tail = c \/ tailFilled)
      BY <1>4, <2>2, <3>1 DEF TailIs
    <3> QED BY <1>8, <1>9, <3>2, <3>3, <3>4
  <2>4. CASE AtNext(h)
    <3>1. head = StartOf(After(h)) /\ After(h) \notin Used /\ tail # After(h) /\ After(h) \in Sectors
      BY <1>2, <2>4, AfterIs DEF AtNext
    <3>2. c = After(h)
      BY <1>4, <3>1, SectorOfStart, StartCell
    <3>3. \A s \in Used : s \in Sectors /\ s # c
      BY <1>1, <3>1, <3>2, UsedIs DEF Flat
    <3>4. \A s \in Used : s = tail \/ Older(c, tail, s)
      BY <1>3, <2>2, <3>1, <3>2, <3>3, OlderStays DEF TailIs
    <3>5. Older(c, tail, c)
      BY <1>3, <3>1, <3>2, OlderIs
    <3>6. tailFilled \/ SectorOf(head + size) # tail
      <4> SUFFICES ASSUME ~tailFilled, SectorOf(head + size) = tail PROVE FALSE
        OBVIOUS
      <4>1. tail = h
        BY <2>2 DEF TailIs
      <4>2. /\ c = (IF h + 1 = NumSectors THEN 0 ELSE h + 1) /\ c # h
            /\ h \in Nat /\ NumSectors \in Nat /\ h < NumSectors /\ c \in Nat
        BY <3>2, AfterIs, AfterApart, Geometry
      <4>3. /\ StartOf(c) \in Nat /\ Limit(c) \in Nat /\ Limit(c) = StartOf(c + 1)
            /\ Limit(c) = StartOf(c) + SectorSize /\ head = StartOf(c) /\ SectorSize \in Nat
        BY <3>1, <3>2, <4>2, StartIs, Geometry
      <4>4. head + size = Limit(c) /\ size = SectorSize
        <5> SUFFICES ASSUME size # SectorSize PROVE FALSE
          BY <1>3, <4>3
        <5>1. head + size \in Nat /\ StartOf(c) <= head + size /\ head + size < Limit(c)
          BY <1>3, <4>3
        <5>2. SectorOf(head + size) = c
          BY <4>2, <5>1, SectorIn
        <5> QED BY <4>1, <4>2, <5>2
      <4>5. SectorOf(head + size) = c + 1
        BY <4>2, <4>3, <4>4, SectorOfStart
      <4>6. NumSectors = 2
        BY <4>1, <4>2, <4>5
      <4> QED BY <1>3, <4>4, <4>6 DEF RoomAssumption
    <3> QED BY <1>8, <1>9, <3>1, <3>2, <3>4, <3>5, <3>6
  <2> QED BY <2>2, <2>3, <2>4
<1> QED BY <1>10, <1>11, <1>12

LEMMA EraseStepKeeps ==
  ASSUME Assumptions, LogInv, FormatErase
  PROVE  FlashInv' /\ RamInv' /\ KeptInv'
<1>1. TypeInv /\ FlashInv /\ RamInv /\ Flat
  BY FlatIs DEF LogInv
<1>2. /\ mode = "format" /\ mode' = "format" /\ erasing < NumSectors
      /\ flash' = EraseOf(erasing) /\ erasing' = erasing + 1 /\ safe' = 0 /\ UNCHANGED total
  BY DEF FormatErase
<1>3. erasing \in Sectors /\ erasing \in Nat /\ Sectors = 0..(NumSectors - 1) /\ NumSectors \in Nat
  BY <1>1, <1>2, TypesAre, Geometry DEF TypeInv
<1>4. /\ Flat'
      /\ \A u \in Sectors : u \in Used' <=> u \in Used /\ u # erasing
      /\ \A u \in Used' : GenOf(u)' = GenOf(u)
  BY <1>1, <1>2, <1>3, EraseKeeps
<1>5. /\ \A o : o \in Headers' <=> o \in Headers /\ SectorOf(o) # erasing
      /\ \A o \in Headers' : flash'[o] = flash[o] /\ EndOf(o)' = EndOf(o)
  BY <1>1, <1>2, <1>3, EraseIs DEF Flat
<1>6. \A s \in Used' : s \in Used /\ s # erasing /\ s \in Sectors
  <2>1. \A s \in Used' : s \in Sectors
    BY DEF Used, Sectors
  <2> QED BY <1>4, <2>1
<1>7. \A s \in Used' : s >= erasing'
  BY <1>1, <1>2, <1>3, <1>6 DEF FlashInv
<1>8. Used' = {} \/ \E h \in Sectors : Ring(h)'
  <2> SUFFICES ASSUME Used' # {} PROVE \E h \in Sectors : Ring(h)'
    OBVIOUS
  <2>1. PICK h \in Sectors : Ring(h)
    BY <1>1, <1>6 DEF FlashInv
  <2>2. CASE h # erasing
    BY <1>1, <1>2, <1>3, <2>1, <2>2, EraseRing
  <2>3. CASE h = erasing
    <3>1. Used' \in SUBSET (0..NumSectors)
      BY <1>3, <1>6
    <3>2. PICK m \in Used' : \A s \in Used' : s <= m
      BY <1>3, <3>1, HighestIs
    <3>3. m \in Sectors /\ \A s \in Used' : s > h
      BY <1>2, <1>3, <1>6, <1>7, <2>3
    <3>4. \A s \in Used' : GenOf(s)' = GenOf(m)' <=> s <= m
      <4> SUFFICES ASSUME NEW s \in Used' PROVE GenOf(s)' = GenOf(m)'
        BY <3>2
      <4>1. /\ GenOf(s)' = GenOf(s) /\ GenOf(m)' = GenOf(m)
            /\ s \in Used /\ m \in Used /\ h \in Used
        BY <1>4, <1>6, <2>1 DEF Ring
      <4>2. GenOf(s) # GenOf(h) /\ GenOf(m) # GenOf(h)
        BY <1>3, <2>1, <3>3, <4>1 DEF Ring
      <4>3. GenOf(s) \in BOOLEAN /\ GenOf(m) \in BOOLEAN /\ GenOf(h) \in BOOLEAN
        BY <1>1, <4>1, UsedIs DEF Flat
      <4> QED BY <4>1, <4>2, <4>3
    <3>5. InOrder(m)'
      <4> SUFFICES ASSUME NEW o \in Headers', NEW p \in Headers',
                          Older(m, SectorOf(o), SectorOf(p)) \/ (SectorOf(o) = SectorOf(p) /\ o < p)
                   PROVE  flash'[o].block < flash'[p].block
        BY DEF InOrder, Older, SectorOf
      <4>1. /\ o \in Headers /\ p \in Headers /\ flash'[o] = flash[o] /\ flash'[p] = flash[p]
            /\ SectorOf(o) # erasing /\ SectorOf(p) # erasing
        BY <1>5
      <4>2. SectorOf(o) \in Used' /\ SectorOf(p) \in Used' /\ SectorOf(o) \in Sectors /\ SectorOf(p) \in Sectors
        <5>1. SectorOf(o) \in Used /\ SectorOf(p) \in Used
          BY <1>1, <4>1, HeaderUsed
        <5>2. SectorOf(o) \in Sectors /\ SectorOf(p) \in Sectors
          BY <1>1, <5>1, UsedIs DEF Flat
        <5> QED BY <1>4, <4>1, <5>1, <5>2
      <4>3. Older(h, SectorOf(o), SectorOf(p)) \/ (SectorOf(o) = SectorOf(p) /\ o < p)
        <5>1. SectorOf(o) <= m /\ SectorOf(p) <= m /\ SectorOf(o) > h /\ SectorOf(p) > h
          BY <3>2, <3>3, <4>2
        <5> QED BY <1>3, <3>3, <4>2, <5>1 DEF Older
      <4> QED BY <2>1, <4>1, <4>3 DEF Ring, InOrder
    <3>6. Ring(m)'
      BY <3>2, <3>4, <3>5 DEF Ring
    <3> QED BY <3>3, <3>6
  <2> QED BY <2>2, <2>3
<1>9. FlashInv'
  BY <1>4, <1>7, <1>8 DEF FlashInv, Flat, Sectors
<1> QED BY <1>2, <1>9 DEF RamInv, KeptInv, Mounted

LEMMA FormatEndKeeps ==
  ASSUME Assumptions, LogInv, FormatEnd
  PROVE  FlashInv' /\ RamInv' /\ KeptInv'
<1>1. TypeInv /\ FlashInv /\ KeptInv /\ Flat
  BY FlatIs DEF LogInv
<1>2. /\ mode = "format" /\ mode' = "ready" /\ erasing = NumSectors /\ UNCHANGED <<flash, safe>>
      /\ head' = 0 /\ tail' = 0 /\ tailFilled' = FALSE
  BY DEF FormatEnd
<1>3. Used = {}
  <2>1. \A s \in Used : s \in Nat /\ s < NumSectors /\ NumSectors \in Nat
    BY <1>1, UsedIs, Geometry DEF Flat
  <2> QED BY <1>1, <1>2, <2>1 DEF FlashInv
<1>4. Used' = {} /\ Whole' /\ Packed' /\ Begun'
  BY <1>1, <1>2, <1>3, FlashStays, FlashInvStays DEF FlashInv
<1>5. safe' = 0
  BY <1>1, <1>2, Geometry DEF KeptInv
<1> QED BY <1>2, <1>4, <1>5 DEF FlashInv, RamInv, NoBlocks, KeptInv

LEMMA CrashKeeps ==
  ASSUME Assumptions, LogInv, ~Torn, Crash
  PROVE  FlashInv' /\ RamInv' /\ KeptInv'
<1>1. TypeInv /\ FlashInv /\ KeptInv /\ Flat
  BY FlatIs DEF LogInv
<1>2. mode' = "off" /\ tailFilled' = FALSE /\ erasing' = 0 /\ UNCHANGED safe
  BY DEF Crash
<1>3. RamInv'
  BY <1>2 DEF RamInv, Mounted
<1>4. CASE UNCHANGED <<flash, total>>
  <2>1. Used' = Used /\ Whole' /\ Packed' /\ Begun' /\ \A h : Ring(h) => Ring(h)'
    BY <1>1, <1>4, FlashStays, FlashInvStays DEF FlashInv
  <2>2. FlashInv'
    BY <1>1, <1>2, <2>1 DEF FlashInv, Sectors
  <2>3. safe' # 0 => \E o \in Headers' : flash'[o].block >= safe'
    BY <1>1, <1>2, <1>4, FlashInvStays DEF KeptInv
  <2> QED BY <1>2, <1>3, <2>2, <2>3 DEF KeptInv
<1>5. CASE mode = "prepared" /\ flash' = Block /\ total' = total + 1
  <2>1. PICK c : c = SectorOf(head)
    OBVIOUS
  <2>2. /\ Flat' /\ c \in Sectors /\ Ring(c)'
        /\ \A o : o \in Headers' <=> o \in Headers \/ o = head
        /\ \A o \in Headers : flash'[o] = flash[o]
    BY <1>5, <2>1, BlockRing
  <2>3. FlashInv'
    BY <1>2, <2>2 DEF FlashInv, Flat, Sectors
  <2>4. safe' # 0 => \E o \in Headers' : flash'[o].block >= safe'
    BY <1>1, <1>2, <2>2, KeptStays DEF KeptInv
  <2> QED BY <1>2, <1>3, <2>3, <2>4 DEF KeptInv
<1> QED BY <1>4, <1>5 DEF Crash

\* The invariant holds at the start and from step to step.
LEMMA LogStarts ==
  ASSUME Assumptions, Init
  PROVE  LogInv
<1>1. \A o \in Cells : flash[o] = Erased
  BY DEF Init
<1>2. \A o \in Cells : flash[o].kind # "header"
  BY <1>1, KindsDiffer
<1>3. Headers = {} /\ Used = {}
  BY <1>2 DEF Headers, Used, ValidHeader
<1>4. Whole /\ Packed /\ Begun
  BY <1>1, <1>3 DEF Whole, Packed, Begun
<1> QED BY <1>3, <1>4, TypesStart DEF LogInv, FlashInv, RamInv, KeptInv, Init, Mounted

LEMMA LogStays ==
  ASSUME Assumptions, RoomAssumption, ~Torn, LogInv, [Next]_vars
  PROVE  LogInv'
<1>1. TypeInv'
  BY TypesStay DEF LogInv
<1>2. CASE Mount
  BY <1>1, <1>2, MountKeeps DEF LogInv
<1>3. CASE \E n \in Sizes : Prepare(n)
  BY <1>1, <1>3, PrepareKeeps DEF LogInv
<1>4. CASE Program
  BY <1>1, <1>4, ProgramKeeps DEF LogInv
<1>5. CASE ReadInit \/ ReadNext \/ ProgramFails \/ FormatBegin
  <2>1. ProgramFails => UNCHANGED <<flash, total>>
    BY DEF ProgramFails
  <2> QED BY <1>1, <1>5, <2>1, StayingKeeps DEF LogInv
<1>6. CASE FormatErase
  BY <1>1, <1>6, EraseStepKeeps DEF LogInv
<1>7. CASE FormatEnd
  BY <1>1, <1>7, FormatEndKeeps DEF LogInv
<1>8. CASE Crash
  BY <1>1, <1>8, CrashKeeps DEF LogInv
<1>9. CASE UNCHANGED vars
  <2>1. UNCHANGED <<flash, latest, head, tail, tailFilled, generation, mode, erasing, safe>>
    BY <1>9 DEF vars, ram
  <2>2. /\ Headers' = Headers /\ Used' = Used /\ (\A o : EndOf(o)' = EndOf(o)) /\ (\A s : GenOf(s)' = GenOf(s))
    BY <2>1, FlashStays
  <2>3. \A h : Following(h) => Following(h)'
    BY <2>1, <2>2, FlashInvStays DEF Following, AtEnd, AtNext, SectorOf, StartOf, After
  <2>4. RamInv'
    BY <2>1, <2>2, <2>3 DEF LogInv, RamInv, NoBlocks, Mounted, Sectors
  <2>5. FlashInv'
    BY <2>1, <2>2, FlashInvStays DEF LogInv, FlashInv, Sectors
  <2>6. KeptInv'
    BY <2>1, FlashInvStays DEF LogInv, KeptInv
  <2> QED BY <1>1, <2>4, <2>5, <2>6 DEF LogInv
<1> QED BY <1>2, <1>3, <1>4, <1>5, <1>6, <1>7, <1>8, <1>9 DEF Next

-----------------------------------------------------------------------------
(* What the iterator delivers. *)

\* Without torn blocks every header is that of a whole block.
LEMMA ValidIs ==
  ASSUME Assumptions, Flat
  PROVE  /\ \A o : ValidBlock(o) <=> o \in Headers
         /\ ValidBlocks = Headers
<1>1. ASSUME NEW o PROVE ValidBlock(o) <=> o \in Headers
  <2>1. ASSUME o \in Headers PROVE ValidBlock(o)
    <3>1. \A i \in (o + 1)..(o + flash[o].size - 1) : flash[i] = Data(flash[o].block)
      <4>1. (o + 1)..(EndOf(o) - 1) = (o + 1)..(o + flash[o].size - 1)
        BY <2>1, HeaderIs DEF Flat
      <4>2. \A i \in (o + 1)..(EndOf(o) - 1) : flash[i] = Data(flash[o].block)
        BY <2>1 DEF Flat, Whole
      <4> QED BY <4>1, <4>2, Zenon
    <3> QED BY <2>1, <3>1 DEF Headers, ValidHeader, ValidBlock
  <2> QED BY <2>1 DEF Headers, ValidHeader, ValidBlock
<1>2. ValidBlocks = Headers
  BY <1>1 DEF ValidBlocks, Headers
<1> QED BY <1>1, <1>2

\* The place of a sector in the order, from the oldest to that of the newest block, h.
Rank(h, s) == Ahead(After(h), s)

\* The age order, counted: a sector's rank, and what the reader has ahead of it.
LEMMA RankIs ==
  ASSUME Assumptions, NEW h \in Sectors, NEW s \in Sectors
  PROVE  /\ NumSectors \in Nat \ {0} /\ Rank(h, s) \in Nat /\ Rank(h, s) < NumSectors
         /\ Rank(h, h) = NumSectors - 1 /\ Rank(h, After(h)) = 0
         /\ s # h => Rank(h, s) < NumSectors - 1 /\ Rank(h, After(s)) = Rank(h, s) + 1
         /\ \A u \in Sectors : /\ Older(h, s, u) <=> Rank(h, s) < Rank(h, u)
                               /\ Rank(h, s) = Rank(h, u) => s = u
                               /\ Ahead(s, u) = IF Rank(h, s) <= Rank(h, u)
                                                THEN Rank(h, u) - Rank(h, s)
                                                ELSE Rank(h, u) + NumSectors - Rank(h, s)
<1>1. Sectors = 0..(NumSectors - 1) /\ NumSectors \in Nat \ {0}
  BY Geometry
<1> DEFINE a == After(h)
           b == After(s)
<1>2. /\ a = (IF h + 1 = NumSectors THEN 0 ELSE h + 1) /\ a \in Sectors
      /\ b = (IF s + 1 = NumSectors THEN 0 ELSE s + 1) /\ b \in Sectors
  BY AfterIs
<1> HIDE DEF a, b
<1>3. /\ Ahead(a, s) \in Nat /\ Ahead(a, s) < NumSectors
      /\ Ahead(a, h) = NumSectors - 1 /\ Ahead(a, a) = 0
      /\ s # h => Ahead(a, s) < NumSectors - 1 /\ Ahead(a, b) = Ahead(a, s) + 1
  BY <1>1, <1>2 DEF Ahead
<1>4. ASSUME NEW u \in Sectors
      PROVE  /\ Older(h, s, u) <=> Ahead(a, s) < Ahead(a, u)
             /\ Ahead(a, s) = Ahead(a, u) => s = u
             /\ Ahead(s, u) = IF Ahead(a, s) <= Ahead(a, u) THEN Ahead(a, u) - Ahead(a, s)
                              ELSE Ahead(a, u) + NumSectors - Ahead(a, s)
  BY <1>1, <1>2 DEF Ahead, Older
<1> QED BY <1>1, <1>3, <1>4 DEF Rank, a, b

\* Where the head is: in the sector of the newest block, in the next one, or past the last.
LEMMA HeadSector ==
  ASSUME Assumptions, TypeInv, Flat, NEW h \in Sectors, Following(h)
  PROVE  \/ AtEnd(h) /\ head < Limit(h) /\ SectorOf(head) = h
         \/ head = StartOf(After(h)) /\ SectorOf(head) = After(h)
         \/ /\ AtEnd(h) /\ head = Limit(h) /\ h = NumSectors - 1 /\ SectorOf(head) = NumSectors
<1>1. Newest(h) /\ (AtEnd(h) \/ AtNext(h))
  BY DEF Following
<1>2. h \in Nat /\ NumSectors \in Nat \ {0} /\ After(h) \in Sectors /\ SectorOf(StartOf(After(h))) = After(h)
  BY Geometry, AfterIs, SectorOfStart, StartCell
<1>3. CASE AtNext(h)
  BY <1>2, <1>3 DEF AtNext
<1>4. CASE AtEnd(h)
  <2>1. head = EndOf(latest) /\ latest \in Headers /\ SectorOf(latest) = h
    BY <1>1, <1>4 DEF AtEnd, Newest
  <2>2. /\ latest < EndOf(latest) /\ latest \in Nat /\ EndOf(latest) \in Nat /\ EndOf(latest) <= Limit(h)
        /\ StartOf(h) <= latest /\ StartOf(h) \in Nat /\ Limit(h) \in Nat
    <3>1. latest < EndOf(latest) /\ latest \in Nat /\ EndOf(latest) \in Nat
      BY <2>1, HeaderIs DEF Flat
    <3>2. EndOf(latest) <= Limit(h)
      BY <2>1 DEF Flat, Fitting
    <3>3. StartOf(h) <= latest
      BY <2>1, CellSector DEF Headers
    <3> QED BY <1>2, <3>1, <3>2, <3>3, StartIs
  <2>3. CASE head < Limit(h)
    <3>1. StartOf(h) <= head /\ head \in Nat
      BY <2>1, <2>2
    <3> QED BY <1>4, <2>3, <3>1, StartCell
  <2>4. CASE head = Limit(h)
    <3>1. head = StartOf(h + 1) /\ SectorOf(head) = h + 1
      BY <1>2, <2>4, StartIs, SectorOfStart
    <3>2. CASE h = NumSectors - 1
      BY <1>2, <1>4, <2>4, <3>1, <3>2
    <3>3. CASE h # NumSectors - 1
      <4>1. After(h) = h + 1
        BY <1>2, <3>3, AfterIs
      <4> QED BY <3>1, <4>1
    <3> QED BY <3>2, <3>3
  <2> QED BY <2>1, <2>2, <2>3, <2>4
<1> QED BY <1>1, <1>3, <1>4

\* From the sector behind s on, which is at the tail or behind, the iterator comes to the
\* first sector in use behind s.
LEMMA NextUsed ==
  ASSUME Assumptions, TypeInv, Flat, NEW h \in Sectors, Following(h),
         NEW s \in Sectors, s # h, s = tail \/ Older(h, tail, s)
  PROVE  \E t \in Used : /\ SeekSector(After(s)) = StartOf(t) /\ Older(h, s, t)
                         /\ \A u \in Used : Older(h, s, u) => u = t \/ Older(h, t, u)
<1> DEFINE x == After(s)
           c == SectorOf(head)
           N == NumSectors
           R(t) == Rank(h, t)
<1>1. /\ x \in Sectors /\ tail \in Sectors /\ h \in Used /\ After(h) \in Sectors
      /\ \A u \in Used : u \in Sectors /\ (u = tail \/ Older(h, tail, u))
  BY AfterIs, UsedIs, TypesAre DEF Following, TailIs, Ring, TypeInv, Flat
<1>2. /\ N \in Nat \ {0}
      /\ R(h) = N - 1 /\ R(After(h)) = 0 /\ R(x) = R(s) + 1
      /\ \A t \in Sectors : R(t) \in Nat /\ R(t) < N
  BY RankIs
<1>3. \A t, u \in Sectors :
        /\ Older(h, t, u) <=> R(t) < R(u)
        /\ R(t) = R(u) => t = u
        /\ Ahead(t, u) = IF R(t) <= R(u) THEN R(u) - R(t) ELSE R(u) + N - R(t)
  BY RankIs
<1>4. c = h \/ c = After(h) \/ c = N
  BY HeadSector
<1>5. \A t \in Sectors : ValidBlock(StartOf(t)) <=> t \in Used
  BY ValidIs, UsedHeader
<1> HIDE DEF x, c, N, R
<1>6. R(tail) <= R(s)
  BY <1>1, <1>2, <1>3
<1>7. \A u \in Used : u \in Open(x) <=> Older(h, s, u)
  <2> SUFFICES ASSUME NEW u \in Used PROVE u \in Open(x) <=> Older(h, s, u)
    OBVIOUS
  <2>1. u \in Open(x) <=> /\ Ahead(x, u) < Ahead(x, tail)
                          /\ c < N => Ahead(x, u) <= Ahead(x, c)
    BY <1>1 DEF Open, c, N
  <2>2. /\ R(u) \in Nat /\ R(u) < N /\ R(s) \in Nat /\ R(tail) \in Nat /\ R(tail) < N
        /\ R(tail) <= R(u) /\ (Older(h, s, u) <=> R(s) < R(u))
    BY <1>1, <1>2, <1>3
  <2>3. Ahead(x, tail) = R(tail) + N - R(x)
    BY <1>1, <1>2, <1>3, <1>6, <2>2
  <2>4. Ahead(x, u) = IF R(x) <= R(u) THEN R(u) - R(x) ELSE R(u) + N - R(x)
    BY <1>1, <1>3
  <2>5. c < N => Ahead(x, c) >= N - 1 - R(x)
    <3>1. CASE c = h
      <4>1. Ahead(x, h) = IF R(x) <= R(h) THEN R(h) - R(x) ELSE R(h) + N - R(x)
        BY <1>1, <1>3
      <4> QED BY <1>2, <2>2, <3>1, <4>1
    <3>2. CASE c = After(h)
      <4>1. Ahead(x, After(h)) = IF R(x) <= R(After(h)) THEN R(After(h)) - R(x) ELSE R(After(h)) + N - R(x)
        BY <1>1, <1>3
      <4>2. Ahead(x, After(h)) = N - R(x)
        BY <1>2, <2>2, <4>1
      <4> QED BY <1>2, <2>2, <3>2, <4>2
    <3>3. CASE c = N
      BY <1>2, <3>3
    <3> QED BY <1>4, <3>1, <3>2, <3>3
  <2>6. CASE R(s) < R(u)
    <3>1. Ahead(x, u) = R(u) - R(x)
      BY <1>2, <2>2, <2>4, <2>6
    <3>2. Ahead(x, u) < Ahead(x, tail)
      BY <1>2, <2>2, <2>3, <3>1
    <3>3. c < N => Ahead(x, u) <= Ahead(x, c)
      <4> SUFFICES ASSUME c < N PROVE Ahead(x, u) <= Ahead(x, c)
        OBVIOUS
      <4>1. Ahead(x, c) \in Int
        <5>1. c \in Sectors
          BY <1>1, <1>2, <1>4
        <5>2. Ahead(x, c) = IF R(x) <= R(c) THEN R(c) - R(x) ELSE R(c) + N - R(x)
          BY <1>1, <1>3, <5>1
        <5> QED BY <1>1, <1>2, <5>1, <5>2
      <4> QED BY <1>2, <2>2, <2>5, <3>1, <4>1
    <3> QED BY <2>1, <2>2, <2>6, <3>2, <3>3
  <2>7. CASE ~(R(s) < R(u))
    <3>1. Ahead(x, u) = R(u) + N - R(x)
      BY <1>2, <2>2, <2>4, <2>7
    <3>2. ~(Ahead(x, u) < Ahead(x, tail))
      BY <1>2, <2>2, <2>3, <3>1
    <3> QED BY <2>1, <2>2, <2>7, <3>2
  <2> QED BY <2>6, <2>7
<1>8. h \in Open(x) /\ ValidBlock(StartOf(h))
  <2>1. Older(h, s, h)
    BY OlderIs
  <2> QED BY <1>1, <1>5, <1>7, <2>1
<1>9. PICK t \in Open(x) : /\ SeekSector(x) = StartOf(t) /\ ValidBlock(StartOf(t))
                           /\ \A u \in Open(x) : ValidBlock(StartOf(u)) => Ahead(x, t) <= Ahead(x, u)
  BY <1>1, <1>8, SeekSectorIs
<1>10. t \in Used /\ Older(h, s, t)
  <2>1. t \in Sectors
    BY DEF Open
  <2> QED BY <1>5, <1>7, <1>9, <2>1
<1>11. ASSUME NEW u \in Used, Older(h, s, u) PROVE u = t \/ Older(h, t, u)
  <2>1. Ahead(x, t) <= Ahead(x, u)
    BY <1>1, <1>5, <1>7, <1>9, <1>11
  <2>2. /\ R(s) < R(u) /\ R(s) < R(t) /\ R(u) \in Nat /\ R(t) \in Nat /\ R(s) \in Nat
        /\ u \in Sectors /\ t \in Sectors
    BY <1>1, <1>2, <1>3, <1>10, <1>11
  <2>3. Ahead(x, t) = R(t) - R(x) /\ Ahead(x, u) = R(u) - R(x)
    <3>1. R(x) <= R(t) /\ R(x) <= R(u)
      BY <1>2, <2>2
    <3> QED BY <1>1, <1>3, <2>2, <3>1
  <2>4. R(t) <= R(u)
    BY <1>2, <2>1, <2>2, <2>3
  <2>5. R(t) = R(u) \/ R(t) < R(u)
    BY <2>2, <2>4
  <2> QED BY <1>3, <2>2, <2>5
<1> QED BY <1>9, <1>10, <1>11 DEF x

\* Block p comes behind block o, round the ring.
Before(h, o, p) == Older(h, SectorOf(o), SectorOf(p)) \/ (SectorOf(o) = SectorOf(p) /\ o < p)

\* The newer of two blocks is the one that comes behind.
LEMMA NewerIs ==
  ASSUME Assumptions, Flat, NEW h \in Sectors, Ring(h), NEW o \in Headers, NEW p \in Headers
  PROVE  /\ flash[o].block \in Nat /\ flash[p].block \in Nat
         /\ flash[o].block < flash[p].block <=> Before(h, o, p)
<1>1. /\ flash[o].block \in Nat /\ flash[p].block \in Nat /\ o \in Nat /\ p \in Nat
      /\ SectorOf(o) \in Sectors /\ SectorOf(p) \in Sectors
  BY HeaderIs, CellSector DEF Flat
<1>2. Before(h, o, p) => flash[o].block < flash[p].block
  BY DEF Ring, InOrder, Before
<1>3. Before(h, p, o) => flash[p].block < flash[o].block
  BY DEF Ring, InOrder, Before
<1>4. o = p \/ Before(h, o, p) \/ Before(h, p, o)
  <2>1. CASE SectorOf(o) = SectorOf(p)
    BY <1>1, <2>1 DEF Before
  <2>2. CASE SectorOf(o) # SectorOf(p)
    BY <1>1, <2>2, OlderIs DEF Before
  <2> QED BY <2>1, <2>2
<1>5. ~Before(h, o, o)
  BY <1>1, OlderIs DEF Before
<1> QED BY <1>1, <1>2, <1>3, <1>4, <1>5

\* The one that all others come behind is the oldest.
LEMMA OldestIs ==
  ASSUME Assumptions, Flat, NEW h \in Sectors, Ring(h), NEW B \in SUBSET Headers, NEW q \in B,
         \A p \in B : p = q \/ Before(h, q, p)
  PROVE  FindsOldest(q, B)
<1>1. \A p \in B : flash[q].block <= flash[p].block
  <2> SUFFICES ASSUME NEW p \in B PROVE flash[q].block <= flash[p].block
    OBVIOUS
  <2>1. flash[q].block \in Nat /\ flash[p].block \in Nat /\ (p = q \/ flash[q].block < flash[p].block)
    BY NewerIs
  <2> QED BY <2>1
<1> QED BY <1>1 DEF FindsOldest

\* A sector in use starts with its first block.
LEMMA FirstIs ==
  ASSUME Assumptions, Flat, NEW t \in Used
  PROVE  /\ StartOf(t) \in Headers /\ t \in Sectors /\ SectorOf(StartOf(t)) = t /\ ValidBlock(StartOf(t))
         /\ \A p \in Headers : SectorOf(p) = t => p = StartOf(t) \/ StartOf(t) < p
<1>1. StartOf(t) \in Headers /\ t \in Sectors /\ SectorOf(StartOf(t)) = t
  BY UsedIs DEF Flat
<1>2. \A p \in Headers : p \in Nat /\ StartOf(SectorOf(p)) <= p /\ StartOf(SectorOf(p)) \in Nat
  BY CellSector DEF Headers
<1> QED BY <1>1, <1>2, ValidIs

\* Where the iterator goes on behind block o.
LEMMA BehindIs ==
  ASSUME Assumptions, TypeInv, Flat, NEW o \in Headers, NEW s \in Sectors, s = SectorOf(o)
  PROVE  \/ /\ EndOf(o) < Limit(s) /\ Behind(o) = EndOf(o)
            /\ EndOf(o) \in Cells /\ SectorOf(EndOf(o)) = s /\ \A t \in Sectors : EndOf(o) # StartOf(t)
         \/ EndOf(o) = Limit(s) /\ Behind(o) = StartOf(After(s)) /\ SectorOf(Behind(o)) = After(s)
<1>1. o \in Nat /\ EndOf(o) \in Nat /\ o < EndOf(o)
  BY HeaderIs DEF Flat
<1>2. EndOf(o) <= Limit(s) /\ StartOf(s) <= o /\ StartOf(s) \in Nat /\ Limit(s) \in Nat
  BY CellSector, StartIs DEF Flat, Fitting, Headers
<1>3. Total \in Nat \ {0} /\ Limit(s) <= Total /\ StartOf(0) = 0 /\ Total = StartOf(NumSectors) /\ s \in Nat
  BY TotalIs, StartCell
<1>4. CASE EndOf(o) < Limit(s)
  <2>1. EndOf(o) \in Cells /\ SectorOf(EndOf(o)) = s
    BY <1>1, <1>2, <1>4, StartCell
  <2>2. ASSUME NEW t \in Sectors, EndOf(o) = StartOf(t) PROVE FALSE
    <3>1. t = s
      BY <2>1, <2>2, StartCell, SectorOfStart
    <3> QED BY <1>1, <1>2, <2>2, <3>1
  <2>3. EndOf(o) % Total = EndOf(o)
    <3>1. EndOf(o) \in 0..(Total - 1)
      BY <1>1, <1>2, <1>3, <1>4
    <3>2. (0 * Total + EndOf(o)) % Total = EndOf(o)
      BY <1>3, <3>1, Quotient
    <3> QED BY <1>1, <1>3, <3>2
  <2> QED BY <1>4, <2>1, <2>2, <2>3 DEF Behind
<1>5. CASE EndOf(o) = Limit(s)
  <2>1. After(s) = (IF s + 1 = NumSectors THEN 0 ELSE s + 1) /\ After(s) \in Sectors
    BY AfterIs
  <2>2. Behind(o) = StartOf(After(s))
    <3>1. CASE s + 1 = NumSectors
      <4>1. EndOf(o) = Total
        BY <1>3, <1>5, <3>1, StartIs
      <4>2. (1 * Total + 0) % Total = 0
        BY <1>3, Quotient
      <4> QED BY <1>3, <2>1, <3>1, <4>1, <4>2 DEF Behind
    <3>2. CASE s + 1 # NumSectors
      <4>1. EndOf(o) = StartOf(After(s)) /\ StartOf(After(s)) \in Cells
        BY <1>3, <1>5, <2>1, <3>2, StartIs, StartCell
      <4>2. EndOf(o) \in 0..(Total - 1)
        BY <4>1, TotalIs
      <4>3. (0 * Total + EndOf(o)) % Total = EndOf(o)
        BY <1>3, <4>2, Quotient
      <4> QED BY <1>1, <1>3, <4>1, <4>3 DEF Behind
    <3> QED BY <3>1, <3>2
  <2> QED BY <1>5, <2>1, <2>2, SectorOfStart, StartCell
<1> QED BY <1>1, <1>2, <1>4, <1>5

\* Seek from the next sector in use behind s finds the oldest block behind s.
LEMMA SectorNext ==
  ASSUME Assumptions, TypeInv, Flat, NEW h \in Sectors, Following(h),
         NEW s \in Sectors, s # h, NEW t \in Used, Older(h, s, t),
         \A u \in Used : Older(h, s, u) => u = t \/ Older(h, t, u),
         NEW B, B = {p \in Headers : Older(h, s, SectorOf(p))}
  PROVE  FindsOldest(StartOf(t), B)
<1>1. /\ StartOf(t) \in Headers /\ SectorOf(StartOf(t)) = t
      /\ \A p \in Headers : SectorOf(p) = t => p = StartOf(t) \/ StartOf(t) < p
  BY FirstIs
<1>2. ASSUME NEW p \in B PROVE p = StartOf(t) \/ Before(h, StartOf(t), p)
  <2>1. p \in Headers /\ SectorOf(p) \in Used
    BY HeaderUsed
  <2> QED BY <1>1, <2>1 DEF Before
<1>3. StartOf(t) \in B /\ B \in SUBSET Headers
  BY <1>1
<1> QED BY <1>2, <1>3, OldestIs DEF Following

\* Before the sector of the newest block the next sector is neither the tail nor, when it
\* is not in use, the one with the head.
LEMMA AfterInside ==
  ASSUME Assumptions, RoomAssumption, TypeInv, Flat, NEW h \in Sectors, Following(h), ~HeadAtTail,
         NEW s \in Used, s # h
  PROVE  /\ s = tail \/ Older(h, tail, s)
         /\ SectorOf(head) # s
         /\ After(s) \in Sectors /\ After(s) # tail
         /\ After(s) \notin Used => After(s) # SectorOf(head) /\ After(s) # h /\ Older(h, tail, After(s))
         /\ \A u \in Used : Older(h, s, u) => u = After(s) \/ Older(h, After(s), u)
         /\ Older(h, s, After(s))
<1>1. /\ TailIs(h) /\ h \in Used /\ tail \in Sectors /\ s \in Sectors /\ \A u \in Used : u \in Sectors
      /\ tailFilled \in BOOLEAN
  BY UsedIs, TypesAre DEF Following, Ring, TypeInv, Flat
<1>2. s = tail \/ Older(h, tail, s)
  BY <1>1 DEF TailIs
<1>3. /\ NumSectors \in Nat /\ Rank(h, h) = NumSectors - 1 /\ Rank(h, After(h)) = 0
      /\ Rank(h, After(s)) = Rank(h, s) + 1 /\ After(s) \in Sectors /\ After(h) \in Sectors
      /\ \A u \in Sectors : Rank(h, u) \in Nat /\ Rank(h, u) < NumSectors
      /\ \A t, u \in Sectors : /\ Older(h, t, u) <=> Rank(h, t) < Rank(h, u)
                               /\ Rank(h, t) = Rank(h, u) => t = u
  <2>1. /\ NumSectors \in Nat /\ Rank(h, h) = NumSectors - 1 /\ Rank(h, After(h)) = 0
        /\ Rank(h, After(s)) = Rank(h, s) + 1
    BY <1>1, RankIs
  <2>2. After(s) \in Sectors /\ After(h) \in Sectors
    BY <1>1, AfterIs
  <2>3. ASSUME NEW u \in Sectors PROVE Rank(h, u) \in Nat /\ Rank(h, u) < NumSectors
    BY RankIs
  <2>4. ASSUME NEW t \in Sectors, NEW u \in Sectors
        PROVE  /\ Older(h, t, u) <=> Rank(h, t) < Rank(h, u)
               /\ Rank(h, t) = Rank(h, u) => t = u
    BY RankIs
  <2> QED BY <2>1, <2>2, <2>3, <2>4
<1>4. Rank(h, tail) <= Rank(h, s) /\ Rank(h, tail) \in Nat /\ Rank(h, s) \in Nat
  BY <1>1, <1>2, <1>3
<1>5. After(s) # tail /\ Older(h, s, After(s)) /\ Older(h, tail, After(s))
  BY <1>1, <1>3, <1>4
<1>6. ASSUME NEW u \in Used, Older(h, s, u) PROVE u = After(s) \/ Older(h, After(s), u)
  <2>1. Rank(h, s) < Rank(h, u) /\ Rank(h, u) \in Nat /\ u \in Sectors
    BY <1>1, <1>3, <1>6
  <2>2. Rank(h, After(s)) = Rank(h, u) \/ Rank(h, After(s)) < Rank(h, u)
    BY <1>3, <1>4, <2>1
  <2> QED BY <1>3, <2>1, <2>2
<1>7. SectorOf(head) = h \/ SectorOf(head) = NumSectors \/ (head = StartOf(After(h)) /\ SectorOf(head) = After(h))
  BY HeadSector
<1>8. SectorOf(head) # s
  <2> SUFFICES ASSUME SectorOf(head) = s PROVE FALSE
    OBVIOUS
  <2>1. s = After(h) /\ head = StartOf(s)
    BY <1>1, <1>7, Geometry
  <2>2. tail = s
    BY <1>1, <1>3, <1>4, <2>1
  <2>3. ~tailFilled
    BY <1>1, <2>1, <2>2 DEF HeadAtTail
  <2> QED BY <1>1, <2>2, <2>3 DEF TailIs
<1>9. ASSUME After(s) \notin Used PROVE After(s) # SectorOf(head) /\ After(s) # h
  <2>1. After(s) # h
    BY <1>1, <1>9
  <2>2. After(s) # After(h)
    BY <1>3, <1>4
  <2>3. After(s) # NumSectors
    BY <1>3, Geometry
  <2> QED BY <1>7, <2>1, <2>2, <2>3
<1> QED BY <1>2, <1>3, <1>5, <1>6, <1>8, <1>9

\* With the head at the start of the sector after h, or past the last sector, there is
\* nothing to be found behind h.
LEMMA NoneBehind ==
  ASSUME Assumptions, RoomAssumption, TypeInv, Flat, NEW h \in Sectors, Following(h)
  PROVE  /\ After(h) # tail => After(h) \notin Used
         /\ SectorOf(head) = After(h) => SeekSector(After(h)) = None
         /\ SectorOf(head) = NumSectors /\ After(h) # tail => SeekSector(After(After(h))) = None
<1> DEFINE a == After(h)
           x == After(a)
<1>1. /\ a \in Sectors /\ a # h /\ x \in Sectors /\ tail \in Sectors
      /\ \A u \in Used : u \in Sectors /\ (u = tail \/ Older(h, tail, u))
  BY AfterApart, UsedIs, TypesAre DEF Following, TailIs, TypeInv, Flat
<1>2. /\ NumSectors \in Nat \ {0} /\ Rank(h, a) = 0 /\ Rank(h, x) = 1
      /\ \A u \in Sectors : Rank(h, u) \in Nat
      /\ \A t, u \in Sectors : /\ Older(h, t, u) <=> Rank(h, t) < Rank(h, u)
                               /\ Rank(h, t) = Rank(h, u) => t = u
                               /\ Ahead(t, u) = IF Rank(h, t) <= Rank(h, u) THEN Rank(h, u) - Rank(h, t)
                                                ELSE Rank(h, u) + NumSectors - Rank(h, t)
  <2>1. a # h /\ Rank(h, a) = 0
    BY <1>1, RankIs
  <2>2. Rank(h, x) = Rank(h, a) + 1
    BY <1>1, <2>1, RankIs
  <2>3. Rank(h, x) = 1
    BY <2>1, <2>2
  <2> HIDE DEF a, x
  <2> QED BY <2>1, <2>3, RankIs
<1>3. \A u \in Sectors : ValidBlock(StartOf(u)) <=> u \in Used
  BY ValidIs, UsedHeader
<1> HIDE DEF a, x
<1>4. a # tail => a \notin Used
  BY <1>1, <1>2
<1>5. ASSUME SectorOf(head) = a PROVE SeekSector(a) = None
  <2>1. ASSUME NEW t \in Open(a), ValidBlock(StartOf(t)) PROVE FALSE
    <3>1. /\ t \in Sectors /\ Ahead(a, t) < Ahead(a, tail)
          /\ SectorOf(head) < NumSectors => Ahead(a, t) <= Ahead(a, SectorOf(head))
      BY <2>1 DEF Open
    <3>2. Ahead(a, t) <= Ahead(a, a)
      BY <1>1, <1>5, <3>1, Geometry
    <3>3. Ahead(a, a) = 0 /\ Ahead(a, t) = Rank(h, t) /\ Ahead(a, tail) = Rank(h, tail)
      BY <1>1, <1>2, <3>1
    <3>4. t = a /\ tail # a
      BY <1>1, <1>2, <3>1, <3>2, <3>3
    <3> QED BY <1>3, <1>4, <2>1, <3>1, <3>4
  <2> QED BY <1>1, <2>1, SeekSectorIs
<1>6. ASSUME SectorOf(head) = NumSectors, a # tail PROVE SeekSector(x) = None
  <2>1. ASSUME NEW t \in Open(x), ValidBlock(StartOf(t)) PROVE FALSE
    <3>1. t \in Used /\ t \in Sectors /\ Ahead(x, t) < Ahead(x, tail)
      BY <1>3, <2>1 DEF Open
    <3>2. Rank(h, t) >= Rank(h, tail) /\ Rank(h, tail) >= 1 /\ Rank(h, t) \in Nat /\ Rank(h, tail) \in Nat
      <4>1. Rank(h, t) \in Nat /\ Rank(h, tail) \in Nat /\ Rank(h, tail) # 0
        BY <1>1, <1>2, <1>6, <3>1
      <4>2. t = tail \/ Rank(h, tail) < Rank(h, t)
        BY <1>1, <1>2, <3>1
      <4> QED BY <4>1, <4>2
    <3>3. Ahead(x, t) = Rank(h, t) - 1 /\ Ahead(x, tail) = Rank(h, tail) - 1
      BY <1>1, <1>2, <3>1, <3>2
    <3> QED BY <3>1, <3>2, <3>3
  <2> QED BY <1>1, <2>1, SeekSectorIs
<1> QED BY <1>4, <1>5, <1>6 DEF a, x

\* Behind the newest block of all the iterator finds none.
LEMMA ReadsToEnd ==
  ASSUME Assumptions, RoomAssumption, TypeInv, Flat, NEW h \in Sectors, Following(h)
  PROVE  Seek(Behind(latest), FALSE) = None
<1>1. /\ latest \in Headers /\ SectorOf(latest) = h /\ Newest(h)
  BY DEF Following, Newest
<1> DEFINE e == EndOf(latest)
           a == After(h)
<1>2. a \in Sectors /\ tail \in Sectors /\ h \in Nat /\ NumSectors \in Nat /\ a # h
  BY AfterApart, TypesAre, Geometry DEF TypeInv
<1>3. \/ AtEnd(h) /\ head < Limit(h) /\ SectorOf(head) = h
      \/ head = StartOf(a) /\ SectorOf(head) = a
      \/ AtEnd(h) /\ head = Limit(h) /\ h = NumSectors - 1 /\ SectorOf(head) = NumSectors
  BY HeadSector
<1>4. AtEnd(h) => head = e
  BY DEF AtEnd
<1>5. /\ a # tail => a \notin Used
      /\ SectorOf(head) = a => SeekSector(a) = None
      /\ SectorOf(head) = NumSectors /\ a # tail => SeekSector(After(a)) = None
  BY NoneBehind
<1>6. \/ /\ e < Limit(h) /\ Behind(latest) = e
         /\ e \in Cells /\ SectorOf(e) = h /\ \A t \in Sectors : e # StartOf(t)
      \/ e = Limit(h) /\ Behind(latest) = StartOf(a) /\ SectorOf(Behind(latest)) = a
  BY <1>1, BehindIs
<1>7. Seek(Behind(latest), FALSE) =
        IF Behind(latest) = StartOf(tail) THEN None
        ELSE IF ValidBlock(Behind(latest)) THEN Behind(latest)
        ELSE IF SectorOf(Behind(latest)) = SectorOf(head) THEN None
        ELSE SeekSector(After(SectorOf(Behind(latest))))
  BY DEF Seek
<1>8. CASE /\ e < Limit(h) /\ Behind(latest) = e
           /\ e \in Cells /\ SectorOf(e) = h /\ \A t \in Sectors : e # StartOf(t)
  <2>1. ~ValidBlock(e)
    <3>1. flash[e] = Erased /\ e \in Nat
      BY <1>1, <1>8, BehindNewest, TotalIs
    <3> QED BY <3>1, KindsDiffer DEF ValidBlock, ValidHeader
  <2>2. e # StartOf(tail)
    BY <1>2, <1>8
  <2>3. SectorOf(head) = h \/ SectorOf(head) = a
    <3>1. ~(AtEnd(h) /\ head = Limit(h))
      <4>1. e \in Nat /\ Limit(h) \in Nat
        BY <1>2, <1>8, TotalIs, StartIs
      <4> QED BY <1>4, <1>8, <4>1
    <3> QED BY <1>3, <3>1
  <2> HIDE DEF e, a
  <2>4. Seek(Behind(latest), FALSE) = IF h = SectorOf(head) THEN None ELSE SeekSector(After(h))
    BY <1>7, <1>8, <2>1, <2>2
  <2> QED BY <1>5, <2>3, <2>4 DEF a
<1>9. CASE e = Limit(h) /\ Behind(latest) = StartOf(a) /\ SectorOf(Behind(latest)) = a
  <2>1. CASE a = tail
    BY <1>7, <1>9, <2>1
  <2>2. CASE a # tail
    <3>1. ~ValidBlock(StartOf(a))
      BY <1>2, <1>5, <2>2, ValidIs, UsedHeader
    <3>2. StartOf(a) # StartOf(tail)
      BY <1>2, <2>2, StartCell, SectorOfStart
    <3>3. SectorOf(head) = a \/ SectorOf(head) = NumSectors
      <4>1. ~(AtEnd(h) /\ head < Limit(h))
        <5>1. Limit(h) \in Nat
          BY <1>2, StartIs
        <5> QED BY <1>4, <1>9, <5>1
      <4> QED BY <1>3, <4>1
    <3> HIDE DEF e, a
    <3>4. Seek(Behind(latest), FALSE) = IF a = SectorOf(head) THEN None ELSE SeekSector(After(a))
      BY <1>7, <1>9, <3>1, <3>2
    <3> QED BY <1>5, <2>2, <3>3, <3>4
  <2> QED BY <2>1, <2>2
<1> QED BY <1>6, <1>8, <1>9

\* Behind any other block it finds the next newer one.
LEMMA ReadsOn ==
  ASSUME Assumptions, RoomAssumption, TypeInv, Flat, NEW h \in Sectors, Following(h), ~HeadAtTail,
         NEW o \in Headers, NEW B, B = {p \in Headers : flash[p].block > flash[o].block}
  PROVE  FindsOldest(Seek(Behind(o), FALSE), B)
<1>1. Ring(h) /\ Newest(h) /\ B \in SUBSET Headers
  BY DEF Following
<1>2. PICK s \in Used : s = SectorOf(o)
  BY HeaderUsed
<1>3. s \in Sectors /\ tail \in Sectors /\ \A p \in Headers : p \in Nat /\ SectorOf(p) \in Used
  BY <1>2, UsedIs, TypesAre, HeaderUsed, HeaderIs DEF TypeInv, Flat
<1>4. \A p \in Headers : p \in B <=> Before(h, o, p)
  <2> SUFFICES ASSUME NEW p \in Headers PROVE p \in B <=> Before(h, o, p)
    OBVIOUS
  <2>1. flash[o].block \in Nat /\ flash[p].block \in Nat /\ (flash[o].block < flash[p].block <=> Before(h, o, p))
    BY <1>1, NewerIs
  <2> QED BY <2>1
<1>5. \/ /\ EndOf(o) < Limit(s) /\ Behind(o) = EndOf(o)
         /\ EndOf(o) \in Cells /\ SectorOf(EndOf(o)) = s /\ \A t \in Sectors : EndOf(o) # StartOf(t)
      \/ EndOf(o) = Limit(s) /\ Behind(o) = StartOf(After(s)) /\ SectorOf(Behind(o)) = After(s)
  BY <1>2, <1>3, BehindIs
<1>6. Seek(Behind(o), FALSE) = IF Behind(o) = StartOf(tail) THEN None
                               ELSE IF ValidBlock(Behind(o)) THEN Behind(o)
                               ELSE IF SectorOf(Behind(o)) = SectorOf(head) THEN None
                               ELSE SeekSector(After(SectorOf(Behind(o))))
  BY DEF Seek
\* There is another block behind it in its sector.
<1>7. CASE EndOf(o) \in Headers /\ SectorOf(EndOf(o)) = s
  <2> DEFINE e == EndOf(o)
  <2>1. Behind(o) = e /\ \A t \in Sectors : e # StartOf(t)
    <3> SUFFICES ASSUME e = Limit(s) PROVE FALSE
      BY <1>5
    <3>1. e = StartOf(s + 1) /\ s + 1 \in Nat /\ s \in Nat
      BY <1>3, StartIs, Geometry
    <3>2. SectorOf(e) = s + 1
      BY <3>1, SectorOfStart
    <3> QED BY <1>7, <3>1, <3>2
  <2>2. ValidBlock(e)
    BY <1>7, ValidIs
  <2>3. Seek(Behind(o), FALSE) = e
    BY <1>3, <1>6, <2>1, <2>2
  <2>4. o < e
    BY HeaderIs DEF Flat
  <2>5. e \in B
    BY <1>2, <1>4, <1>7, <2>4 DEF Before
  <2>6. ASSUME NEW p \in B PROVE p = e \/ Before(h, e, p)
    <3>1. p \in Headers /\ Before(h, o, p)
      BY <1>4
    <3>2. CASE SectorOf(p) = s
      <4>1. o < p
        BY <1>2, <1>3, <3>1, <3>2, OlderIs DEF Before
      <4>2. e <= p
        BY <3>1, <4>1, HeadersApart
      <4> QED BY <1>3, <1>7, <3>1, <3>2, <4>2 DEF Before
    <3>3. CASE SectorOf(p) # s
      BY <1>2, <1>7, <3>1, <3>3 DEF Before
    <3> QED BY <3>2, <3>3
  <2> HIDE DEF e
  <2> QED BY <1>1, <2>3, <2>5, <2>6, OldestIs
\* It is the last of its sector.
<1>8. CASE ~(EndOf(o) \in Headers /\ SectorOf(EndOf(o)) = s)
  <2>1. /\ \A p \in Cells : SectorOf(p) = s /\ p >= EndOf(o) => flash[p] = Erased
        /\ \A p \in Headers : SectorOf(p) = s => p <= o
    BY <1>2, <1>8, BehindLast
  <2>2. B = {p \in Headers : Older(h, s, SectorOf(p))}
    <3>1. ASSUME NEW p \in Headers PROVE Before(h, o, p) <=> Older(h, s, SectorOf(p))
      BY <1>2, <1>3, <2>1 DEF Before
    <3> QED BY <1>1, <1>4, <3>1
  <2>3. CASE s = h
    <3>1. o = latest
      <4>1. latest \in Headers /\ SectorOf(latest) = h /\ o <= latest
        BY <1>1, <1>2, <2>3 DEF Newest
      <4>2. latest <= o /\ latest \in Nat /\ o \in Nat
        BY <1>3, <2>1, <2>3, <4>1
      <4> QED BY <4>1, <4>2
    <3>2. \A p \in Headers : SectorOf(p) \in Sectors
      BY <1>3, UsedIs DEF Flat
    <3>3. B = {}
      BY <2>2, <2>3, <3>2, OlderIs
    <3> QED BY <3>1, <3>3, ReadsToEnd DEF FindsOldest
  <2>4. CASE s # h
    <3>1. /\ s = tail \/ Older(h, tail, s)
          /\ SectorOf(head) # s
          /\ After(s) \in Sectors /\ After(s) # tail
          /\ After(s) \notin Used => After(s) # SectorOf(head) /\ After(s) # h /\ Older(h, tail, After(s))
          /\ \A u \in Used : Older(h, s, u) => u = After(s) \/ Older(h, After(s), u)
          /\ Older(h, s, After(s))
      BY <2>4, AfterInside
    <3>2. CASE /\ EndOf(o) < Limit(s) /\ Behind(o) = EndOf(o)
               /\ EndOf(o) \in Cells /\ SectorOf(EndOf(o)) = s /\ \A t \in Sectors : EndOf(o) # StartOf(t)
      <4>1. ~ValidBlock(EndOf(o))
        <5>1. flash[EndOf(o)] = Erased
          BY <2>1, <3>2, TotalIs
        <5> QED BY <5>1, KindsDiffer DEF ValidBlock, ValidHeader
      <4>2. Seek(Behind(o), FALSE) = SeekSector(After(s))
        BY <1>3, <1>6, <3>1, <3>2, <4>1
      <4>3. PICK t \in Used : /\ SeekSector(After(s)) = StartOf(t) /\ Older(h, s, t)
                              /\ \A u \in Used : Older(h, s, u) => u = t \/ Older(h, t, u)
        BY <1>3, <2>4, <3>1, NextUsed
      <4>4. FindsOldest(StartOf(t), B)
        BY <1>3, <2>2, <2>4, <4>3, SectorNext
      <4> QED BY <4>2, <4>3, <4>4
    <3>3. CASE EndOf(o) = Limit(s) /\ Behind(o) = StartOf(After(s)) /\ SectorOf(Behind(o)) = After(s)
      <4>1. StartOf(After(s)) # StartOf(tail)
        BY <1>3, <3>1, StartCell, SectorOfStart
      <4>2. CASE After(s) \in Used
        <5>1. Seek(Behind(o), FALSE) = StartOf(After(s))
          BY <1>6, <3>3, <4>1, <4>2, FirstIs
        <5>2. FindsOldest(StartOf(After(s)), B)
          BY <1>3, <2>2, <2>4, <3>1, <4>2, SectorNext
        <5> QED BY <5>1, <5>2
      <4>3. CASE After(s) \notin Used
        <5>1. ~ValidBlock(StartOf(After(s)))
          BY <3>1, <4>3, ValidIs, UsedHeader
        <5>2. Seek(Behind(o), FALSE) = SeekSector(After(After(s)))
          BY <1>6, <3>1, <3>3, <4>1, <4>3, <5>1
        <5>3. PICK a \in Sectors : a = After(s)
          BY <3>1
        <5>4. PICK t \in Used : /\ SeekSector(After(a)) = StartOf(t) /\ Older(h, a, t)
                                /\ \A u \in Used : Older(h, a, u) => u = t \/ Older(h, t, u)
          BY <3>1, <4>3, <5>3, NextUsed
        <5>5. Older(h, s, t) /\ \A u \in Used : Older(h, s, u) => u = t \/ Older(h, t, u)
          <6>1. t \in Sectors
            BY UsedIs DEF Flat
          <6>2. Older(h, s, t)
            BY <1>3, <3>1, <5>3, <5>4, <6>1, OlderIs
          <6> QED BY <3>1, <4>3, <5>3, <5>4, <6>2
        <5>6. FindsOldest(StartOf(t), B)
          BY <1>3, <2>2, <2>4, <5>5, SectorNext
        <5> QED BY <5>2, <5>3, <5>4, <5>6
      <4> QED BY <4>2, <4>3
    <3> QED BY <1>5, <3>2, <3>3
  <2> QED BY <2>3, <2>4
<1> QED BY <1>7, <1>8

\* From the tail on the iterator finds the oldest block of all.
LEMMA ReadsFirst ==
  ASSUME Assumptions, RoomAssumption, TypeInv, Flat, NEW h \in Sectors, Following(h), ~HeadAtTail
  PROVE  FindsOldest(Seek(StartOf(tail), TRUE), Headers)
<1>1. Ring(h) /\ TailIs(h) /\ h \in Used /\ Headers \in SUBSET Headers
  BY DEF Following, Ring
<1>2. tail \in Sectors /\ tailFilled \in BOOLEAN /\ SectorOf(StartOf(tail)) = tail
  BY TypesAre, StartCell, SectorOfStart DEF TypeInv
<1>3. Seek(StartOf(tail), TRUE) = IF ValidBlock(StartOf(tail)) THEN StartOf(tail)
                                  ELSE IF tail = SectorOf(head) THEN None
                                  ELSE SeekSector(After(tail))
  BY <1>2 DEF Seek
<1>4. \A p \in Headers : SectorOf(p) \in Used /\ (SectorOf(p) = tail \/ Older(h, tail, SectorOf(p)))
  BY <1>1, HeaderUsed DEF TailIs
<1>5. CASE tail \in Used
  <2>1. /\ StartOf(tail) \in Headers /\ ValidBlock(StartOf(tail))
        /\ \A p \in Headers : SectorOf(p) = tail => p = StartOf(tail) \/ StartOf(tail) < p
    BY <1>5, FirstIs
  <2>2. \A p \in Headers : p = StartOf(tail) \/ Before(h, StartOf(tail), p)
    BY <1>2, <1>4, <2>1 DEF Before
  <2>3. FindsOldest(StartOf(tail), Headers)
    BY <1>1, <2>1, <2>2, OldestIs
  <2> QED BY <1>3, <2>1, <2>3
<1>6. CASE tail \notin Used
  <2>1. tail # h /\ tailFilled
    BY <1>1, <1>2, <1>6 DEF TailIs
  <2>2. ~ValidBlock(StartOf(tail))
    BY <1>2, <1>6, ValidIs, UsedHeader
  <2>3. tail # SectorOf(head)
    <3> SUFFICES ASSUME tail = SectorOf(head) PROVE FALSE
      OBVIOUS
    <3>1. tail # NumSectors
      BY <1>2, Geometry
    <3>2. head = StartOf(tail)
      BY <2>1, <3>1, HeadSector
    <3> QED BY <2>1, <3>2 DEF HeadAtTail
  <2>4. PICK t \in Used : /\ SeekSector(After(tail)) = StartOf(t) /\ Older(h, tail, t)
                          /\ \A u \in Used : Older(h, tail, u) => u = t \/ Older(h, t, u)
    BY <1>2, <2>1, NextUsed
  <2>5. Headers = {p \in Headers : Older(h, tail, SectorOf(p))}
    BY <1>4, <1>6
  <2>6. FindsOldest(StartOf(t), Headers)
    BY <1>2, <2>1, <2>4, <2>5, SectorNext
  <2> QED BY <1>3, <2>2, <2>3, <2>4, <2>6
<1> QED BY <1>5, <1>6

\* Reading back, of an empty log and of one with blocks.
LEMMA ReadsAll ==
  ASSUME Assumptions, RoomAssumption, LogInv
  PROVE  ReadsAllInOrder
<1>1. TypeInv /\ FlashInv /\ RamInv /\ Flat
  BY FlatIs DEF LogInv
<1>2. ValidBlocks = Headers
  BY <1>1, ValidIs
<1> SUFFICES ASSUME Mounted, ~HeadAtTail PROVE WholeLogIsRead
  BY DEF ReadsAllInOrder
<1>3. CASE NoBlocks
  <2>1. Headers = {}
    BY <1>1, <1>3, HeaderUsed DEF NoBlocks
  <2>2. ~ValidBlock(StartOf(0))
    BY <1>1, <2>1, ValidIs
  <2>3. Seek(StartOf(0), TRUE) = None
    BY <1>3, <2>2, ZeroIs DEF Seek, NoBlocks
  <2> QED BY <1>2, <1>3, <2>1, <2>3 DEF WholeLogIsRead, FindsOldest, NoBlocks
<1>4. CASE \E h \in Sectors : Following(h)
  <2>1. PICK h \in Sectors : Following(h)
    BY <1>4
  <2>2. FindsOldest(Seek(StartOf(tail), TRUE), ValidBlocks)
    BY <1>1, <1>2, <2>1, ReadsFirst
  <2>3. ASSUME NEW o \in ValidBlocks
        PROVE  FindsOldest(Seek(Behind(o), FALSE), {p \in ValidBlocks : flash[p].block > flash[o].block})
    BY <1>1, <1>2, <2>1, ReadsOn
  <2> QED BY <2>2, <2>3 DEF WholeLogIsRead
<1> QED BY <1>1, <1>3, <1>4 DEF RamInv

\* The last acknowledged block or a newer one is there, and read back first.
LEMMA KeepsSafe ==
  ASSUME Assumptions, LogInv
  PROVE  SafeIsKept
<1>1. TypeInv /\ RamInv /\ KeptInv /\ Flat
  BY FlatIs DEF LogInv
<1> SUFFICES ASSUME safe # 0
             PROVE  (\E b \in Blocks : b >= safe) /\ (Mounted => ReadLast >= safe)
  BY DEF SafeIsKept
<1>2. PICK o \in Headers : flash[o].block >= safe
  BY <1>1 DEF KeptInv
<1>3. \E b \in Blocks : b >= safe
  <2>1. o \in ValidBlocks
    BY <1>1, ValidIs
  <2>2. flash[o].block \in Blocks
    BY <2>1 DEF Blocks
  <2> QED BY <1>2, <2>2
<1>4. ASSUME Mounted PROVE ReadLast >= safe
  <2>1. ~NoBlocks
    BY <1>1, <1>2, HeaderUsed DEF NoBlocks
  <2>2. PICK h \in Sectors : Following(h)
    BY <1>1, <1>4, <2>1 DEF RamInv
  <2>3. latest \in Headers /\ flash[o].block <= flash[latest].block
    BY <1>1, <2>2, NewestIs DEF Following
  <2>4. flash[o].block \in Nat /\ flash[latest].block \in Nat /\ safe \in Nat
    BY <1>1, <2>3, HeaderIs, TypesAre DEF Flat, TypeInv
  <2>5. ReadLast = flash[latest].block
    BY <1>1, <2>3, ValidIs DEF ReadLast
  <2> QED BY <1>2, <2>3, <2>4, <2>5
<1> QED BY <1>3, <1>4

-----------------------------------------------------------------------------
(* The log is a history of the blocks written. *)

\* What History calls the records, as the headers say it.
Held == Blocks = {flash[o].block : o \in Headers}

\* And what logdb_read_last delivers.
ReadsNewest == Mounted /\ ReadLast # 0 => \A b \in Blocks : b <= ReadLast

\* The invariant gives the mapping to the history: what is held, and that the newest is read last.
LEMMA HeldIs ==
  ASSUME Assumptions, LogInv
  PROVE  Held /\ ReadsNewest
<1>1. TypeInv /\ RamInv /\ Flat
  BY FlatIs DEF LogInv
<1>2. ValidBlocks = Headers /\ Held
  BY <1>1, ValidIs DEF Held, Blocks
<1>3. ASSUME Mounted, ReadLast # 0, NEW b \in Blocks PROVE b <= ReadLast
  <2>1. PICK o \in Headers : flash[o].block = b
    BY <1>2, <1>3 DEF Held
  <2>2. PICK h \in Sectors : Following(h)
    BY <1>1, <1>3, <2>1, HeaderUsed DEF RamInv, NoBlocks
  <2>3. latest \in Headers /\ flash[o].block <= flash[latest].block
    BY <1>1, <2>2, NewestIs DEF Following
  <2>4. ReadLast = flash[latest].block
    BY <1>1, <2>3, ValidIs DEF ReadLast
  <2> QED BY <2>1, <2>3, <2>4
<1> QED BY <1>2, <1>3 DEF ReadsNewest

\* A step that leaves the flash alone at most starts or ends the wiping.
LEMMA HistoryStays ==
  ASSUME UNCHANGED flash
  PROVE  [H!Next]_(H!vars)
<1>1. Blocks' = Blocks
  BY FlashStays DEF Blocks, ValidBlocks, Cells, Total
<1>2. CASE (mode = "format") = (mode' = "format")
  BY <1>1, <1>2 DEF H!vars
<1>3. CASE mode = "format" /\ mode' # "format"
  BY <1>1, <1>3 DEF H!Next, H!StopWipe
<1>4. CASE mode # "format" /\ mode' = "format"
  BY <1>1, <1>4 DEF H!Next, H!StartWipe
<1> QED BY <1>2, <1>3, <1>4

\* Programming a block adds the newest.
LEMMA HistoryWrites ==
  ASSUME Assumptions, LogInv, Held, Held', mode = "prepared", mode' # "format",
         flash' = Block, total' = total + 1
  PROVE  H!Next
<1>1. TypeInv /\ Flat
  BY FlatIs DEF LogInv
<1>2. PICK c : c = SectorOf(head)
  OBVIOUS
<1>3. /\ flash'[head].block = total + 1 /\ head \in Headers'
      /\ \A o : o \in Headers' <=> o \in Headers \/ o = head
      /\ \A o \in Headers : flash'[o] = flash[o]
  BY <1>2, BlockRing
<1>4. \A o \in Headers : flash[o].block < total + 1
  <2> SUFFICES ASSUME NEW o \in Headers PROVE flash[o].block < total + 1
    OBVIOUS
  <2>1. flash[o].block <= total /\ flash[o].block \in Nat /\ total \in Nat
    BY <1>1, HeaderIs, TypesAre DEF Flat, Fitting, TypeInv
  <2> QED BY <2>1
<1>5. \A b : b \in Blocks' <=> b \in Blocks \/ b = total + 1
  BY <1>3 DEF Held
<1>6. \A b \in Blocks : b < total + 1
  BY <1>4 DEF Held
<1>7. total + 1 \in Blocks' /\ total + 1 \notin Blocks
  <2>1. total \in Nat /\ ~(total + 1 < total + 1)
    BY <1>1, TypesAre DEF TypeInv
  <2> QED BY <1>5, <1>6, <2>1
<1>8. Blocks' = Blocks \cup {total + 1}
  BY <1>5
<1>9. H!Write
  BY <1>6, <1>7, <1>8 DEF H!Write
<1> QED BY <1>9 DEF H!Next

\* Erasing the sector after that of the newest block gives up the oldest.
LEMMA HistoryGivesUp ==
  ASSUME Assumptions, LogInv, Held, Held', mode # "format", mode' # "format",
         NEW h \in Sectors, Following(h), NEW a \in Sectors, a = After(h), a # h,
         flash' = EraseOf(a)
  PROVE  H!Next
<1>1. Flat /\ Ring(h) /\ Newest(h)
  BY FlatIs DEF LogInv, Following
<1>2. /\ \A o : o \in Headers' <=> o \in Headers /\ SectorOf(o) # a
      /\ \A o \in Headers' : flash'[o] = flash[o]
  BY <1>1, EraseIs DEF Flat
<1>3. \A o \in Headers : SectorOf(o) \in Sectors
  BY <1>1, HeaderUsed, UsedIs DEF Flat
<1>4. Blocks' \subseteq Blocks
  BY <1>2 DEF Held
<1>5. ASSUME NEW old \in Blocks \ Blocks', NEW kept \in Blocks' PROVE old < kept
  <2>1. PICK o \in Headers : flash[o].block = old
    BY DEF Held
  <2>2. PICK p \in Headers' : flash'[p].block = kept
    BY DEF Held
  <2>3. SectorOf(o) = a
    BY <1>2, <1>5, <2>1 DEF Held
  <2>4. p \in Headers /\ SectorOf(p) # a /\ flash[p].block = kept
    BY <1>2, <2>2
  <2>5. Older(h, SectorOf(o), SectorOf(p))
    BY <1>3, <2>3, <2>4, OlderAfter
  <2> QED BY <1>1, <2>1, <2>4, <2>5 DEF Ring, InOrder
<1>6. Blocks' # {}
  <2>1. latest \in Headers'
    BY <1>1, <1>2 DEF Newest
  <2> QED BY <2>1 DEF Held
<1>7. H!GiveUp
  BY <1>4, <1>5, <1>6 DEF H!GiveUp
<1> QED BY <1>7 DEF H!Next

\* Every step of the log is one of the history.
LEMMA HistorySteps ==
  ASSUME Assumptions, RoomAssumption, ~Torn, LogInv, Held, Held', [Next]_vars
  PROVE  [H!Next]_(H!vars)
<1>1. TypeInv /\ Flat /\ RamInv
  BY FlatIs DEF LogInv
<1>2. CASE UNCHANGED flash
  BY <1>2, HistoryStays
<1>3. CASE mode = "prepared" /\ mode' # "format" /\ flash' = Block /\ total' = total + 1
  BY <1>3, HistoryWrites
<1>4. CASE \E n \in Sizes : Prepare(n)
  <2>1. PICK n \in Sizes : Prepare(n)
    BY <1>4
  <2>2. mode = "ready" /\ mode' = "prepared"
    BY <2>1, PrepareIs
  <2>3. CASE NoBlocks
    BY <1>1, <1>2, <2>1, <2>3, PrepareEmpty
  <2>4. CASE \E h \in Sectors : Following(h)
    <3>1. PICK h \in Sectors : Following(h)
      BY <2>4
    <3>2. \/ UNCHANGED flash
          \/ After(h) \in Sectors /\ After(h) # h /\ flash' = EraseOf(After(h))
      BY <1>1, <2>1, <3>1, PrepareFinds
    <3>3. CASE After(h) \in Sectors /\ After(h) # h /\ flash' = EraseOf(After(h))
      BY <2>2, <3>1, <3>3, HistoryGivesUp
    <3> QED BY <1>2, <3>2, <3>3
  <2> QED BY <1>1, <2>2, <2>3, <2>4 DEF RamInv, Mounted
<1>5. CASE FormatErase
  <2>1. erasing \in Sectors /\ flash' = EraseOf(erasing) /\ mode = "format" /\ mode' = "format"
    BY <1>1, <1>5, TypesAre, Geometry DEF FormatErase, TypeInv
  <2>2. \A o \in Headers' : o \in Headers /\ flash'[o] = flash[o]
    BY <1>1, <2>1, EraseIs DEF Flat
  <2>3. Blocks' \subseteq Blocks
    BY <2>2 DEF Held
  <2>4. H!Wipe
    BY <2>1, <2>3 DEF H!Wipe
  <2> QED BY <2>4 DEF H!Next
<1>6. CASE Program
  BY <1>3, <1>6 DEF Program
<1>7. CASE Crash
  <2>1. mode' = "off" /\ (UNCHANGED flash \/ (mode = "prepared" /\ flash' = Block /\ total' = total + 1))
    BY <1>7 DEF Crash
  <2> QED BY <1>2, <1>3, <2>1
<1>8. CASE Mount \/ ProgramFails \/ ReadInit \/ ReadNext \/ FormatBegin \/ FormatEnd \/ UNCHANGED vars
  <2>1. UNCHANGED flash
    BY <1>8 DEF Mount, MountValid, MountFormats, ProgramFails, ReadInit, ReadNext, FormatBegin, FormatEnd, vars
  <2> QED BY <1>2, <2>1
<1> QED BY <1>4, <1>5, <1>6, <1>7, <1>8 DEF Next

\* An empty log is an empty history.
LEMMA HistoryStarts ==
  ASSUME Assumptions, Init
  PROVE  H!Init
<1>1. LogInv
  BY LogStarts
<1>2. Held
  BY <1>1, HeldIs
<1>3. Headers = {}
  BY KindsDiffer DEF Init, Headers, ValidHeader
<1>4. Blocks = {}
  BY <1>2, <1>3 DEF Held
<1>5. mode # "format"
  BY DEF Init
<1> QED BY <1>4, <1>5 DEF H!Init

-----------------------------------------------------------------------------
(* The theorems. *)

\* Offsets stay in the log, the cells hold what is written and the tail is a sector, also
\* when power fails in the middle of programming a block.
THEOREM TypeCorrect ==
  ASSUME Assumptions
  PROVE  Spec => []TypeOK
<1>1. Init => TypeInv
  BY TypesStart
<1>2. TypeInv /\ [Next]_vars => TypeInv'
  BY TypesStay
<1>3. TypeInv => TypeOK
  BY DEF TypeInv
<1> QED BY <1>1, <1>2, <1>3, PTL DEF Spec

\* A log of two sectors or more, in which no block fills one of only two, keeps to the
\* invariant through every power failure that tears no block.
THEOREM LogCorrect ==
  ASSUME Assumptions, RoomAssumption, ~Torn
  PROVE  Spec => []LogInv
<1>1. Init => LogInv
  BY LogStarts
<1>2. LogInv /\ [Next]_vars => LogInv'
  BY LogStays
<1> QED BY <1>1, <1>2, PTL DEF Spec

\* logdb_write_block only ever programs cells that are erased.
THEOREM WriteErased ==
  ASSUME Assumptions, RoomAssumption, ~Torn
  PROVE  Spec => []WritesToErased
<1>1. LogInv => WritesToErased
  BY FlatIs, ErasedAhead DEF LogInv
<1> QED BY <1>1, LogCorrect, PTL

\* A block whose write was acknowledged, or a newer one, is what logdb_read_last delivers.
THEOREM SafeKept ==
  ASSUME Assumptions, RoomAssumption, ~Torn
  PROVE  Spec => []SafeIsKept
<1>1. LogInv => SafeIsKept
  BY KeepsSafe
<1> QED BY <1>1, LogCorrect, PTL

\* The iterator delivers every block in the flash, oldest first.
THEOREM AllRead ==
  ASSUME Assumptions, RoomAssumption, ~Torn
  PROVE  Spec => []ReadsAllInOrder
<1>1. LogInv => ReadsAllInOrder
  BY ReadsAll
<1> QED BY <1>1, LogCorrect, PTL

\* logdb_mount finds the newest block; that is untrue of torn blocks.
THEOREM NewestFound ==
  ASSUME Assumptions, RoomAssumption, ~Torn
  PROVE  Spec => MountFindsNewest
<1>1. LogInv => ReadsNewest
  BY HeldIs
<1>2. ReadsNewest' /\ [Next]_vars => [mode = "off" /\ mode' = "ready" /\ ReadLast' # 0
                                        => \A b \in Blocks : b <= ReadLast']_vars
  <2> SUFFICES ASSUME ReadsNewest', Next, mode = "off", mode' = "ready", ReadLast' # 0, NEW b \in Blocks
               PROVE  b <= ReadLast'
    OBVIOUS
  <2>1. UNCHANGED flash
    BY DEF Next, Mount, MountValid, MountFormats, Prepare, Program, ProgramFails, ReadInit, ReadNext, Mounted,
           FormatBegin, FormatErase, FormatEnd, Crash
  <2>2. Blocks' = Blocks
    BY <2>1, FlashStays DEF Blocks, ValidBlocks, Cells, Total
  <2>3. Mounted'
    BY DEF Mounted
  <2> QED BY <2>2, <2>3 DEF ReadsNewest
<1> QED BY <1>1, <1>2, LogCorrect, PTL DEF Spec, MountFindsNewest

\* The log implements History: blocks are given up oldest first and never the newest one,
\* and a power failure at any moment, short of tearing a block, gives up none.
THEOREM Implementation ==
  ASSUME Assumptions, RoomAssumption, ~Torn
  PROVE  Spec => ImplementsHistory
<1>1. Init => H!Init
  BY HistoryStarts
<1>2. LogInv => Held
  BY HeldIs
<1>3. LogInv /\ Held /\ Held' /\ [Next]_vars => [H!Next]_(H!vars)
  BY HistorySteps
<1> QED BY <1>1, <1>2, <1>3, LogCorrect, PTL DEF Spec, ImplementsHistory, H!Spec
=============================================================================
