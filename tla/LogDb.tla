------------------------------- MODULE LogDb -------------------------------
(***************************************************************************)
(* The block log of src/src/log_db.c, which keeps the persistent           *)
(* properties: blocks of varying size appended round a ring of flash       *)
(* sectors, never across a sector boundary.  Every block carries its       *)
(* length, a CRC and a generation bit that flips when the log wraps; from  *)
(* these alone logdb_mount finds the oldest and the newest block after a   *)
(* restart.  Power may fail between any two storage operations and, with   *)
(* Torn, in the middle of programming a block.                             *)
(*                                                                         *)
(* The flash is an array of cells.  A block is a header cell and data      *)
(* cells; its number is that of the logdb_write_block call that wrote it.  *)
(* A cell that is programmed twice or only in part is junk.  CRCs are      *)
(* perfect: a header or data that is not what was written never passes.    *)
(***************************************************************************)
EXTENDS Integers, Sequences, FiniteSets

CONSTANTS NumSectors,   \* storage.num_sectors
          SectorSize,   \* storage.sector_size, in cells
          Sizes,        \* sizes of the blocks written, header included
          MaxWrites,    \* bound: blocks ever written
          Torn          \* programming a block may stop half-way

GeometryAssumption == /\ NumSectors \in Nat \ {0}
                      /\ SectorSize \in Nat \ {0}
                      /\ Sizes \subseteq 1..SectorSize
BoundAssumption == MaxWrites \in Nat /\ Torn \in BOOLEAN

Total   == NumSectors * SectorSize
Sectors == 0..(NumSectors - 1)
Cells   == 0..(Total - 1)

Erased == [kind |-> "erased"]
Junk   == [kind |-> "junk"]
Header(b, gen, size) == [kind |-> "header", block |-> b, gen |-> gen, size |-> size]
Data(b)              == [kind |-> "data", block |-> b]

VARIABLES flash,
          latest, head,       \* latest_offset and head_offset
          tail, tailFilled,   \* tail_sector and tail_filled
          generation,
          read, start,        \* read_offset and read_iter_start
          mode,     \* "off", "ready", "prepared" to write, "refused" by mount, "format"
          size,     \* the block being written: its size
          erasing,  \* logdb_format: the sector it is at
          total,    \* number of the last block written
          safe,     \* history: the last block whose write returned true, 0 after a format
          got       \* history: the last block the present iteration delivered

ram  == <<latest, head, tail, tailFilled, generation>>
iter == <<read, start, got>>
vars == <<flash, ram, iter, mode, size, erasing, total, safe>>

SectorOf(o) == o \div SectorSize
StartOf(s)  == s * SectorSize
CellsOf(s)  == StartOf(s)..(StartOf(s) + SectorSize - 1)
After(s)    == (s + 1) % NumSectors
EraseOf(s)  == [o \in Cells |-> IF SectorOf(o) = s THEN Erased ELSE flash[o]]

\* logdb_validate_header and logdb__validate_block, on what is at offset o.
ValidHeader(o) == o \in Cells /\ flash[o].kind = "header"
ValidBlock(o)  == /\ ValidHeader(o)
                  /\ \A i \in (o + 1)..(o + flash[o].size - 1) : flash[i] = Data(flash[o].block)

Init == /\ flash = [o \in Cells |-> Erased]
        /\ latest = 0 /\ head = 0 /\ tail = 0 /\ tailFilled = FALSE /\ generation = FALSE
        /\ read = 0 /\ start = FALSE /\ got = 0
        /\ mode = "off" /\ size = 0 /\ erasing = 0 /\ total = 0 /\ safe = 0

-----------------------------------------------------------------------------
(* logdb_mount. *)

Used == {s \in Sectors : ValidHeader(StartOf(s))}
GenOf(s) == flash[StartOf(s)].gen
Lowest(S)  == CHOOSE s \in S : \A t \in S : s <= t
Highest(S) == CHOOSE s \in S : \A t \in S : t <= s

\* The first sector of another generation than the lowest in use, if there is one.
Wrapped   == {s \in Used : GenOf(s) # GenOf(Lowest(Used))}
FoundTailLowest == Lowest(Used)   \* mutant: the wrap point is not looked for
FoundTail == IF Wrapped = {} THEN Lowest(Used) ELSE Lowest(Wrapped)
FoundHead == Highest({s \in Used : Wrapped = {} \/ s < Lowest(Wrapped)})

\* The blocks a sector starts with, each right behind the one before it: the least set
\* that holds the start and with a header the one behind its block.
EndOf(o) == o + flash[o].size
Scanned(s) ==
  LET Closed(S) == /\ StartOf(s) \in S
                   /\ \A o \in S : ValidHeader(o) /\ ValidHeader(EndOf(o)) /\ SectorOf(EndOf(o)) = s
                                     => EndOf(o) \in S
  IN  {o \in CellsOf(s) : \A S \in SUBSET CellsOf(s) : Closed(S) => o \in S}

LatestIn(s) == Highest(Scanned(s))
HeadIn(s)   == EndOf(LatestIn(s))

MountValid ==
  /\ Used # {}
  /\ tail' = FoundTail
  /\ head' = HeadIn(FoundHead)
  /\ latest' = LatestIn(FoundHead)
  /\ generation' = GenOf(FoundHead)
  /\ tailFilled' = (tailFilled \/ FoundHead # FoundTail)
  /\ read' = StartOf(FoundTail) /\ start' = TRUE /\ got' = 0
  /\ mode' = IF \A o \in Cells : SectorOf(o) = FoundHead /\ o >= head' => flash[o] = Erased
             THEN "ready" ELSE "refused"
  /\ UNCHANGED <<flash, size, erasing, total, safe>>

\* Nothing valid at the start of any sector: format.
MountFormats == /\ Used = {}
                /\ mode' = "format" /\ erasing' = 0
                /\ UNCHANGED <<flash, ram, iter, size, total, safe>>

Mount == mode = "off" /\ (MountValid \/ MountFormats)

-----------------------------------------------------------------------------
(* logdb_write_block, in its two storage operations. *)

\* Where a block of n cells goes: the head, or the next sector if it would cross into it.
\* Past the last sector the offset is Total.
Place(n) == IF SectorOf(head + n - 1) = SectorOf(head) THEN head
            ELSE StartOf(SectorOf(head + n - 1))

\* mutants: the tail sector is not erased, the generation kept, the tail not advanced.
PrepareWith(n, erasesTail, flips, advances) ==
  LET wraps == Place(n) >= Total
      at    == IF wraps THEN 0 ELSE Place(n)
      s     == SectorOf(at)
      erase == wraps \/ (erasesTail /\ s = tail /\ tailFilled)
  IN  /\ mode = "ready" /\ total < MaxWrites
      /\ mode' = "prepared" /\ size' = n
      /\ generation' = (generation # (wraps /\ flips))
      /\ head' = at
      /\ flash' = IF erase THEN EraseOf(s) ELSE flash
      /\ IF erase /\ tail = s
         THEN tail' = (IF advances THEN After(s) ELSE s + 1)
              /\ read' = StartOf(tail') /\ start' = TRUE /\ got' = 0
         ELSE UNCHANGED <<tail, iter>>
      /\ UNCHANGED <<latest, tailFilled, erasing, total, safe>>
PrepareNoErase(n)   == PrepareWith(n, FALSE, TRUE, TRUE)
PrepareNoFlip(n)    == PrepareWith(n, TRUE, FALSE, TRUE)
PrepareUnwrapped(n) == PrepareWith(n, TRUE, TRUE, FALSE)

\* logdb__prep_for_write.
Prepare(n) ==
  LET wraps == Place(n) >= Total
      at    == IF wraps THEN 0 ELSE Place(n)
      s     == SectorOf(at)
      erase == wraps \/ (s = tail /\ tailFilled)
  IN  /\ mode = "ready" /\ total < MaxWrites
      /\ mode' = "prepared" /\ size' = n
      /\ generation' = (generation # wraps)
      /\ head' = at
      /\ flash' = IF erase THEN EraseOf(s) ELSE flash
      /\ IF erase /\ tail = s
         THEN tail' = After(s) /\ read' = StartOf(After(s)) /\ start' = TRUE /\ got' = 0
         ELSE UNCHANGED <<tail, iter>>
      /\ UNCHANGED <<latest, tailFilled, erasing, total, safe>>

\* The flash when the first n cells of the block are programmed, and if n is not all of
\* them the next one perhaps in part.
Programmed(n, part) ==
  [o \in Cells |->
     IF o \in head..(head + n - 1)
     THEN IF flash[o] # Erased THEN Junk
          ELSE IF o = head THEN Header(total + 1, generation, size) ELSE Data(total + 1)
     ELSE IF part /\ n < size /\ o = head + n THEN Junk ELSE flash[o]]

Block == Programmed(size, FALSE)
TornBlocks == {Programmed(n, part) : n \in 0..(size - 1), part \in BOOLEAN}

\* write_block succeeds ...
Program ==
  /\ mode = "prepared"
  /\ flash' = Block
  /\ total' = total + 1 /\ safe' = total'
  /\ latest' = head /\ head' = head + size
  /\ tailFilled' = (tailFilled \/ SectorOf(head') # tail)
  /\ mode' = "ready" /\ size' = 0
  /\ UNCHANGED <<tail, generation, iter, erasing>>

\* ... or reports a failure; a number is not used again for another block.
ProgramFails ==
  /\ mode = "prepared"
  /\ \/ UNCHANGED <<flash, total>>
     \/ Torn /\ flash' \in TornBlocks /\ total' = total + 1
  /\ mode' = "ready" /\ size' = 0
  /\ UNCHANGED <<ram, iter, erasing, safe>>

-----------------------------------------------------------------------------
(* The read iterator. *)

Mounted == mode \in {"ready", "prepared"}
None == Total

\* How many sectors t comes behind s, round the ring.
Ahead(s, t) == IF s <= t THEN t - s ELSE t + NumSectors - s

\* The sectors looked at from s on: none at the tail or behind, nor behind the head.
Open(s) == {t \in Sectors : /\ Ahead(s, t) < Ahead(s, tail)
                            /\ SectorOf(head) < NumSectors => Ahead(s, t) <= Ahead(s, SectorOf(head))}

\* Where the next block is, looking from the start of sector s; None when there is none.
SeekSector(s) ==
  LET found == {t \in Open(s) : ValidBlock(StartOf(t))}
  IN  IF found = {} THEN None
      ELSE StartOf(CHOOSE t \in found : \A u \in found : Ahead(s, t) <= Ahead(s, u))

\* The same from offset o, which is skipped with the rest of its sector if not valid.
Seek(o, first) ==
  IF o = StartOf(tail) /\ ~first THEN None
  ELSE IF ValidBlock(o) THEN o
  ELSE IF SectorOf(o) = SectorOf(head) THEN None
  ELSE SeekSector(After(SectorOf(o)))

Behind(o) == EndOf(o) % Total

ReadInit == /\ Mounted
            /\ read' = StartOf(tail) /\ start' = TRUE /\ got' = 0
            /\ UNCHANGED <<flash, ram, mode, size, erasing, total, safe>>

\* logdb_read_next, when it delivers a block.
ReadNext == /\ Mounted
            /\ Seek(read, start) # None
            /\ got' = flash[Seek(read, start)].block
            /\ read' = Behind(Seek(read, start)) /\ start' = FALSE
            /\ UNCHANGED <<flash, ram, mode, size, erasing, total, safe>>

\* logdb_read_last: the block it delivers, 0 if it fails.
ReadLast == IF ValidBlock(latest) THEN flash[latest].block ELSE 0

-----------------------------------------------------------------------------
(* logdb_format, sector by sector. *)

FormatBegin == /\ mode \in {"ready", "refused"}
               /\ mode' = "format" /\ erasing' = 0
               /\ UNCHANGED <<flash, ram, iter, size, total, safe>>

FormatErase == /\ mode = "format" /\ erasing < NumSectors
               /\ flash' = EraseOf(erasing)
               /\ erasing' = erasing + 1
               /\ safe' = 0
               /\ UNCHANGED <<ram, iter, mode, size, total>>

FormatEnd == /\ mode = "format" /\ erasing = NumSectors
             /\ latest' = 0 /\ head' = 0 /\ tail' = 0
             /\ tailFilled' = FALSE /\ generation' = FALSE
             /\ read' = 0 /\ start' = TRUE /\ got' = 0
             /\ mode' = "ready" /\ erasing' = 0
             /\ UNCHANGED <<flash, size, total, safe>>

-----------------------------------------------------------------------------
\* Power fails: a block being programmed is there, or not, or in part.  logdb_init
\* clears the RAM at the restart.
Crash ==
  /\ mode # "off"
  /\ \/ UNCHANGED <<flash, total>>
     \/ mode = "prepared" /\ flash' = Block /\ total' = total + 1
     \/ mode = "prepared" /\ Torn /\ flash' \in TornBlocks /\ total' = total + 1
  /\ latest' = 0 /\ head' = 0 /\ tail' = 0 /\ tailFilled' = FALSE /\ generation' = FALSE
  /\ read' = 0 /\ start' = FALSE /\ got' = 0
  /\ mode' = "off" /\ size' = 0 /\ erasing' = 0
  /\ UNCHANGED safe

Next == \/ Mount
        \/ \E n \in Sizes : Prepare(n)
        \/ Program \/ ProgramFails
        \/ ReadInit \/ ReadNext
        \/ FormatBegin \/ FormatErase \/ FormatEnd
        \/ Crash

Spec == Init /\ [][Next]_vars

-----------------------------------------------------------------------------
(* Properties. *)

Contents == {Erased, Junk}
              \cup {Data(b) : b \in 1..MaxWrites}
              \cup {Header(b, g, n) : b \in 1..MaxWrites, g \in BOOLEAN, n \in Sizes}

\* Offsets stay in the log, cells hold what is written, the tail is a sector.
TypeOK ==
  /\ flash \in [Cells -> Contents]
  /\ latest \in Cells /\ head \in 0..Total /\ read \in Cells
  /\ tail \in Sectors /\ tailFilled \in BOOLEAN /\ generation \in BOOLEAN
  /\ start \in BOOLEAN
  /\ mode \in {"off", "ready", "prepared", "refused", "format"}
  /\ size \in Sizes \cup {0} /\ erasing \in 0..NumSectors
  /\ total \in 0..MaxWrites /\ safe \in 0..total /\ got \in 0..total

ValidBlocks == {o \in Cells : ValidBlock(o)}
Blocks == {flash[o].block : o \in ValidBlocks}

\* A block is only ever programmed into erased flash: the ring never runs into its tail.
WritesToErased == mode = "prepared" => \A o \in head..(head + size - 1) : flash[o] = Erased

\* The head is at the start of the tail sector, the last block having filled its own.
HeadAtTail == tailFilled /\ head = StartOf(tail)

\* What logdb_read_next finds, at o, is the oldest of the blocks S, or nothing if there is none.
FindsOldest(o, S) == IF S = {} THEN o = None
                     ELSE o \in S /\ \A p \in S : flash[o].block <= flash[p].block

\* After logdb_read_init it finds the oldest of all, and after each block the next newer one.
WholeLogIsRead ==
  /\ FindsOldest(Seek(StartOf(tail), TRUE), ValidBlocks)
  /\ \A o \in ValidBlocks :
       FindsOldest(Seek(Behind(o), FALSE), {p \in ValidBlocks : flash[p].block > flash[o].block})

\* Wherever power failed, a mounted log reads back every block there is, oldest first,
\* unless the head is at the start of the tail sector.
ReadsAllInOrder == Mounted /\ ~HeadAtTail => WholeLogIsRead

\* With no exception: an iteration ends where there are "No more blocks" (log_db.c:321).
ReadsAllAlways == Mounted => WholeLogIsRead

\* A block whose write returned true is never lost to a power failure: it is in the
\* flash until a newer one is, and the one logdb_read_last restores the properties from.
SafeIsKept == safe # 0 => /\ \E b \in Blocks : b >= safe
                          /\ Mounted => ReadLast >= safe

\* Mount is to "find the most recent one" of the valid blocks (log_db.c:110): what
\* logdb_read_last then delivers, if anything, is no older block.
MountFindsNewest == [][mode = "off" /\ mode' = "ready" /\ ReadLast' # 0
                         => \A b \in Blocks : b <= ReadLast']_vars

\* An iteration that meets no change of the tail delivers each block after older ones.
ReadsInOrder == [][ReadNext => got' > got]_vars

H == INSTANCE History WITH Keep <- NumSectors > 1,
                           records <- Blocks, wiping <- mode = "format"

\* The log is a history of the blocks written, oldest given up first, to which power
\* failures do nothing; with two sectors or more it never gives up its newest block.
ImplementsHistory == H!Spec
====
