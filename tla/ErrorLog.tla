------------------------------ MODULE ErrorLog ------------------------------
(***************************************************************************)
(* The error log of src/src/error_log.c: fixed-size entries written round  *)
(* a ring of flash sectors.  Nothing but the entries is stored: after a    *)
(* restart errlog_mount has to work out from which slots are erased where  *)
(* the log starts and ends.  Power may fail between any two storage        *)
(* operations; the console may read the log while the error monitor        *)
(* writes it.                                                              *)
(*                                                                         *)
(* An entry is the number of the errlog_write call that wrote it; Erased   *)
(* is what is_valid_entry rejects.  Offsets are the code's, in units of    *)
(* half an entry so that a sector may end in a remainder too small for an  *)
(* entry.  One erase is one step, as is one programming of an entry.       *)
(***************************************************************************)
EXTENDS Integers, Sequences, FiniteSets

CONSTANTS NumSectors,    \* storage.num_sectors
          PerSector,     \* entries_per_sector
          Remainder,     \* sector_size - PerSector * EntrySize, below EntrySize
          MaxWrites,     \* bound: entries ever written
          MaxFailures    \* bound: writes that fail half-way

GeometryAssumption == /\ NumSectors \in Nat \ {0}
                      /\ PerSector \in Nat \ {0}
                      /\ Remainder \in {0, 1}
BoundAssumption == MaxWrites \in Nat /\ MaxFailures \in Nat

EntrySize  == 2
SectorSize == PerSector * EntrySize + Remainder
Sectors    == 0..(NumSectors - 1)
Indices    == 0..(PerSector - 1)
Erased     == 0

VARIABLES flash,         \* the entry in each slot of each sector
          latest, head,  \* latest_offset and head_offset
          tail,          \* tail_sector
          read, start,   \* read_offset and read_iter_start
          mode,          \* "off", "ready", "prepared" to write, or "format"
          erasing,       \* errlog_format: the sector it is at
          total,         \* number of the last entry written
          wiped, failed, \* history: total at the last format, writes that failed
          half,          \* history: the last format was cut short by a power failure
          got            \* history: the last entry the present iteration delivered

ram  == <<latest, head, tail>>
iter == <<read, start, got>>
past == <<total, wiped, failed, half>>
vars == <<flash, ram, iter, mode, erasing, past>>

SectorOf(offset) == offset \div SectorSize
IndexOf(offset)  == (offset - SectorOf(offset) * SectorSize) \div EntrySize
ToOffset(s, i)   == s * SectorSize + i * EntrySize
After(s)         == (s + 1) % NumSectors
Slot(offset)     == flash[SectorOf(offset)][IndexOf(offset)]
EraseOf(s)       == [flash EXCEPT ![s] = [i \in Indices |-> Erased]]

Init == /\ flash = [s \in Sectors |-> [i \in Indices |-> Erased]]
        /\ latest = 0 /\ head = 0 /\ tail = 0 /\ read = 0 /\ start = FALSE
        /\ mode = "off" /\ erasing = 0 /\ got = 0
        /\ total = 0 /\ wiped = 0 /\ failed = {} /\ half = FALSE

-----------------------------------------------------------------------------
(* errlog_mount. *)

\* find_last_entry: the last of the valid entries a sector starts with, or -1.
LastEntry(s) == Cardinality({i \in Indices : \A j \in 0..i : flash[s][j] # Erased}) - 1

FindTailFromZero(h) ==   \* mutant: the scan starts at sector 0, not after the head
  LET used == {s \in Sectors : flash[s][0] # Erased} IN CHOOSE s \in used : \A t \in used : s <= t

\* find_tail_sector: the first sector in use from the one after the head's on.
FindTail(h) ==
  LET used == {d \in 1..(NumSectors - 1) : flash[(SectorOf(h) + d) % NumSectors][0] # Erased}
  IN  IF used = {} THEN SectorOf(h)
      ELSE (SectorOf(h) + CHOOSE d \in used : \A e \in used : d <= e) % NumSectors

InUse   == {s \in Sectors : flash[s][0] # Erased}
Partial == {s \in InUse : flash[s][PerSector - 1] = Erased}
Lowest(S) == CHOOSE s \in S : \A t \in S : s <= t

MountSingle ==
  /\ latest' = IF LastEntry(0) < 0 THEN 0 ELSE ToOffset(0, LastEntry(0))
  /\ head' = IF LastEntry(0) < 0 THEN 0 ELSE ToOffset(0, LastEntry(0)) + EntrySize
  /\ tail' = 0

MountPartialOnLatest ==   \* mutant: the head is the latest entry, not after it
  LET s == Lowest(Partial)
  IN  /\ latest' = ToOffset(s, LastEntry(s)) /\ head' = ToOffset(s, LastEntry(s))
      /\ tail' = FindTail(ToOffset(s, LastEntry(s)) + EntrySize)

MountPartial ==
  LET s == Lowest(Partial)
  IN  /\ latest' = ToOffset(s, LastEntry(s))
      /\ head' = ToOffset(s, LastEntry(s)) + EntrySize
      /\ tail' = FindTail(ToOffset(s, LastEntry(s)) + EntrySize)

MountEmpty == latest' = 0 /\ head' = 0 /\ tail' = 0

MountOnBound ==
  LET first_empty == IF Sectors \ InUse = {} THEN NumSectors ELSE Lowest(Sectors \ InUse)
      last_full == (first_empty + NumSectors - 1) % NumSectors
  IN  /\ latest' = last_full * SectorSize
      /\ head' = first_empty * SectorSize
      /\ tail' = FindTail(first_empty * SectorSize)

Mount == /\ mode = "off"
         /\ IF NumSectors = 1 THEN MountSingle
            ELSE IF Partial # {} THEN MountPartial
            ELSE IF InUse = {} THEN MountEmpty
            ELSE MountOnBound
         /\ mode' = "ready"
         /\ UNCHANGED <<flash, iter, erasing, past>>

-----------------------------------------------------------------------------
(* errlog_write, in its two storage operations. *)

\* The slot the next entry goes to, past the end of a sector or of the log.
WriteSector == LET s == IF SectorOf(head) >= NumSectors THEN 0 ELSE SectorOf(head)
                   i == IF SectorOf(head) >= NumSectors THEN 0 ELSE IndexOf(head)
               IN  IF i >= PerSector THEN After(s) ELSE s
WriteIndex == IF SectorOf(head) >= NumSectors \/ IndexOf(head) >= PerSector
              THEN 0 ELSE IndexOf(head)

PrepareErasing(when, reset, next) ==   \* mutants: erase at another entry, head not reset, no wrap
  /\ mode = "ready" /\ total < MaxWrites
  /\ mode' = "prepared"
  /\ IF WriteIndex = when
     THEN /\ flash' = EraseOf(After(WriteSector))
          /\ tail' = IF After(WriteSector) = tail THEN next ELSE tail
          /\ head' = IF reset /\ NumSectors = 1 THEN 0 ELSE ToOffset(WriteSector, WriteIndex)
          /\ latest' = IF NumSectors = 1 THEN 0 ELSE latest
     ELSE head' = ToOffset(WriteSector, WriteIndex) /\ UNCHANGED <<flash, tail, latest>>
  /\ UNCHANGED <<iter, erasing, past>>
PrepareTooEarly == PrepareErasing(0, TRUE, After(tail))
PrepareNoReset  == PrepareErasing(PerSector - 1, FALSE, After(tail))
PrepareUnwrapped == PrepareErasing(PerSector - 1, TRUE, tail + 1)

\* errlog__prep_for_write: the next sector is erased before this one is full.
Prepare ==
  /\ mode = "ready" /\ total < MaxWrites
  /\ mode' = "prepared"
  /\ IF WriteIndex = PerSector - 1
     THEN /\ flash' = EraseOf(After(WriteSector))
          /\ tail' = IF After(WriteSector) = tail THEN After(tail) ELSE tail
          /\ head' = IF NumSectors = 1 THEN 0 ELSE ToOffset(WriteSector, WriteIndex)
          /\ latest' = IF NumSectors = 1 THEN 0 ELSE latest
     ELSE head' = ToOffset(WriteSector, WriteIndex) /\ UNCHANGED <<flash, tail, latest>>
  /\ UNCHANGED <<iter, erasing, past>>

Programmed == [flash EXCEPT ![SectorOf(head)][IndexOf(head)] = total + 1]

\* write_block succeeds ...
Program ==
  /\ mode = "prepared"
  /\ flash' = Programmed /\ total' = total + 1
  /\ latest' = head /\ head' = head + EntrySize
  /\ mode' = "ready"
  /\ UNCHANGED <<tail, iter, erasing, wiped, failed, half>>

\* ... or reports a failure, the entry being in the flash or not.
ProgramFails ==
  /\ mode = "prepared"
  /\ \/ UNCHANGED <<flash, total, failed>>
     \/ /\ Cardinality(failed) < MaxFailures
        /\ flash' = Programmed /\ total' = total + 1
        /\ failed' = failed \cup {total'}
  /\ mode' = "ready"
  /\ UNCHANGED <<ram, iter, erasing, wiped, half>>

-----------------------------------------------------------------------------
(* The read iterator, which another task may use between any two steps. *)

Mounted == mode \in {"ready", "prepared"}

ReadInit == /\ Mounted
            /\ read' = ToOffset(tail, 0) /\ start' = TRUE /\ got' = 0
            /\ UNCHANGED <<flash, ram, mode, erasing, past>>

NextReadStuck(offset) ==   \* mutant: from the remainder back to the start of the sector
  LET next == offset + EntrySize
  IN  IF next >= NumSectors * SectorSize THEN 0
      ELSE IF IndexOf(next) >= PerSector THEN SectorOf(next) * SectorSize
      ELSE next

\* The slot after offset, round the end of the log and over a remainder.
NextRead(offset) ==
  LET next == offset + EntrySize
  IN  IF next >= NumSectors * SectorSize THEN 0
      ELSE IF IndexOf(next) >= PerSector THEN After(SectorOf(next)) * SectorSize
      ELSE next

None == -1

\* Where errlog_read_next finds an entry: at the offset itself, but not at the start of the
\* tail sector when the iteration comes back there.
Found(offset, first) ==
  IF (offset = tail * SectorSize /\ ~first) \/ Slot(offset) = Erased THEN None ELSE offset

ReadNext == /\ Mounted
            /\ Found(read, start) # None
            /\ got' = Slot(read)
            /\ start' = FALSE
            /\ read' = NextRead(read)
            /\ UNCHANGED <<flash, ram, mode, erasing, past>>

-----------------------------------------------------------------------------
(* errlog_format, sector by sector. *)

FormatBegin == /\ mode = "ready"
               /\ mode' = "format" /\ erasing' = 0
               /\ UNCHANGED <<flash, ram, iter, past>>

FormatErase == /\ mode = "format" /\ erasing < NumSectors
               /\ flash' = EraseOf(erasing)
               /\ erasing' = erasing + 1
               /\ UNCHANGED <<ram, iter, mode, past>>

FormatEnd == /\ mode = "format" /\ erasing = NumSectors
             /\ latest' = 0 /\ head' = 0 /\ tail' = 0
             /\ read' = 0 /\ start' = TRUE /\ got' = 0
             /\ mode' = "ready" /\ erasing' = 0
             /\ wiped' = total /\ half' = FALSE
             /\ UNCHANGED <<flash, total, failed>>

-----------------------------------------------------------------------------
\* Power fails; an entry that was being programmed may be there, whole or garbled.
Crash ==
  /\ mode # "off"
  /\ \/ UNCHANGED <<flash, total>>
     \/ mode = "prepared" /\ flash' = Programmed /\ total' = total + 1
  /\ mode' = "off" /\ erasing' = 0
  /\ latest' = 0 /\ head' = 0 /\ tail' = 0 /\ read' = 0 /\ start' = FALSE /\ got' = 0
  /\ half' = (half \/ mode = "format")
  /\ UNCHANGED <<wiped, failed>>

Next == \/ Mount \/ Prepare \/ Program \/ ProgramFails
        \/ ReadInit \/ ReadNext
        \/ FormatBegin \/ FormatErase \/ FormatEnd
        \/ Crash

Spec == Init /\ [][Next]_vars

-----------------------------------------------------------------------------
(* Properties. *)

Offsets == 0..(NumSectors * SectorSize)

\* Offsets stay in the log, the entries are those written, the tail is a sector.
TypeOK ==
  /\ flash \in [Sectors -> [Indices -> 0..MaxWrites]]
  /\ latest \in Offsets /\ head \in Offsets /\ read \in Offsets
  /\ tail \in Sectors
  /\ start \in BOOLEAN
  /\ mode \in {"off", "ready", "prepared", "format"}
  /\ erasing \in 0..NumSectors
  /\ total \in 0..MaxWrites /\ wiped \in 0..total /\ got \in 0..MaxWrites
  /\ failed \subseteq 1..total /\ half \in BOOLEAN

Entries == {flash[s][i] : s \in Sectors, i \in Indices} \ {Erased}

Used == {o \in {ToOffset(s, i) : s \in Sectors, i \in Indices} : Slot(o) # Erased}

\* It is the oldest of the entries at S, or nothing if there is none.
FindsOldest(o, S) == IF S = {} THEN o = None ELSE o \in S /\ \A p \in S : Slot(o) <= Slot(p)

\* However often power failed or a write did, and wherever but inside errlog_format, a
\* mounted log reads back every entry in the flash, oldest first: after errlog_read_init it
\* finds the oldest of all, and after each entry the next newer one.
ReadsAllInOrder ==
  Mounted /\ ~half =>
    /\ FindsOldest(Found(ToOffset(tail, 0), TRUE), Used)
    /\ \A o \in Used : FindsOldest(Found(NextRead(o), FALSE), {p \in Used : Slot(p) > Slot(o)})

\* What errlog_write programs is an erased slot, or one where programming failed, even
\* in a log whose format was cut short.
NoEntryWrittenOver == mode = "prepared" => Slot(head) \in {Erased} \cup failed

\* Only the oldest entries are ever given up, a sector at a time: of those written
\* since the format the flash holds the newest, and all of (NumSectors - 1) sectors less one.
KeepsNewest ==
  mode # "format" /\ ~half =>
    \A e \in ((wiped + 1)..total) \ failed :
      \/ e \in Entries
      \/ /\ total - e >= (NumSectors - 1) * PerSector - 1
         /\ \A o \in Entries : o > e

\* An iteration overtaken by the writer, which erases the sector it is in, may end
\* early or skip, but never goes back to an entry older than one it delivered.
ReadsInOrder == [][ReadNext => got' > got]_vars
====
