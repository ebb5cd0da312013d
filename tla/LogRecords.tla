----------------------------- MODULE LogRecords -----------------------------
(***************************************************************************)
(* What is written to the property log and found in it again: the blocks     *)
(* save_props_to_log writes and restore_props_from_log reads                 *)
(* (src/src/log_props.c), compressed when that helps (src/src/log_compress.c), *)
(* and the index that finds the newest block of a kind (src/src/log_index.c). *)
(*                                                                         *)
(* The properties are the bytes prop_db_serialize makes of them; of the log  *)
(* only its newest block is kept here.  The compressing library is external. *)
(***************************************************************************)
EXTENDS Integers, Sequences, SequencesExt, FiniteSets, TLC

CONSTANTS Encode,        \* heatshrink: the code of some bytes,
          Decode,        \* and the bytes of a code
          SectorRoom     \* bytes of data in a block that fills a sector

LOCAL PropDbKind == 1
LOCAL NoBlock == [kind |-> 0, compressed |-> FALSE, data |-> <<>>]

LOCAL Length(n) == <<n % 256, n \div 256>>
LOCAL Code(block) == SubSeq(block.data, 3, Len(block.data))

LOCAL Compressed(block, code) == [block EXCEPT !.compressed = TRUE, !.data = Length(Len(block.data)) \o code]

\* An encoder that is not there leaves the sizes it should return unset, and the output as it
\* was allocated: any number of its cells, but not all.
LOCAL Uncoded(block) == {<<>>} \cup {[i \in 1..n |-> 0] : n \in 1 .. Len(block.data) - 1}

\* What it may return: the code with the length of the data before it; NoBlock when the output
\* reaches the length of the data, without memory for it, or for a block that is compressed
\* already.  That there is an encoder is not checked (log_compress.c:48).
logdb_compress_block(block, memory) ==
    LET code == Encode[block.data]
    IN  IF block.compressed \/ "compress" \notin memory THEN {NoBlock}
        ELSE IF "encoder" \notin memory THEN {NoBlock} \cup {Compressed(block, c) : c \in Uncoded(block)}
        ELSE IF code # <<>> /\ Len(code) >= Len(block.data) THEN {NoBlock}
        ELSE {Compressed(block, code)}

logdb_uncompressed_size(block) == IF block.compressed THEN block.data[1] + 256 * block.data[2] ELSE 0

\* What is decoded, cut to the length it should have; nothing when that is not reached.
logdb_decompress_block(block, can_alloc) ==
    LET out == Decode[Code(block)]
        len == logdb_uncompressed_size(block)
    IN  IF ~block.compressed \/ ~can_alloc \/ Len(out) < len THEN <<>> ELSE SubSeq(out, 1, len)

\* logdb_write_block refuses what will never fit, and may fail.
LOCAL Written(log, block, works) == IF works /\ Len(block.data) <= SectorRoom THEN block ELSE log

\* What it may do; `memory` are the allocations that succeed.  The result says nothing about
\* the write.
save_props_to_log(log, props, compress, memory, works) ==
    LET block  == [kind |-> PropDbKind, compressed |-> FALSE, data |-> props]
        smalls == IF compress THEN logdb_compress_block(block, memory) ELSE {NoBlock}
    IN  IF "serialize" \notin memory THEN {[log |-> log, rval |-> FALSE]}
        ELSE {[log |-> Written(log, IF small # NoBlock THEN small ELSE block, works), rval |-> TRUE] : small \in smalls}

\* What prop_db_deserialize is given: the data of the newest block, if it is of the kind.
restore_props_from_log(log, memory) ==
    IF log.data = <<>> \/ "block" \notin memory \/ log.kind # PropDbKind THEN <<>>
    ELSE IF log.compressed THEN logdb_decompress_block(log, "decompress" \in memory)
    ELSE log.data

----------------------------------------------------------------------------
(* The index: kind -> where the newest block of it starts.                 *)
\* dh_insert replaces an entry; a new kind needs memory.
logdb_index_update(index, header, block_start, max_kinds) ==
    LET item == [data_len |-> Len(header.data), block_start |-> block_start]
    IN  IF header.kind \in DOMAIN index \/ Cardinality(DOMAIN index) < max_kinds
        THEN (header.kind :> item) @@ index ELSE index

\* Over all headers, from the oldest block on: `log` are the blocks by their order, `at` where
\* they start.  The data is not looked at, and the result of an update not either.
logdb_index_create(log, at, max_kinds) ==
    FoldLeft(LAMBDA index, k : logdb_index_update(index, log[k], at[k], max_kinds), << >>, [k \in DOMAIN log |-> k])

\* The header, when there is a valid one, with the data if the buffer has room for it;
\* neither the kind nor the data are checked.
logdb_index_read(flash, index, kind, buf_data_len) ==
    IF kind \notin DOMAIN index THEN [ok |-> FALSE, data_len |-> 0, data |-> <<>>]
    ELSE LET block == flash[index[kind].block_start]
         IN  IF block = NoBlock THEN [ok |-> FALSE, data_len |-> 0, data |-> <<>>]
             ELSE [ok |-> TRUE, data_len |-> Len(block.data),
                   data |-> IF Len(block.data) <= buf_data_len THEN block.data ELSE <<>>]

----------------------------------------------------------------------------
(* Properties.                                                             *)
\* What was saved is restored whole or what was there before is, compressed or not, whichever
\* writes and allocations fail but that of the encoder alone: without it a block of anything
\* may take the place of the old one, and nothing is claimed (log_compress.c:48).  A save that
\* works replaces the block, unless the two bytes of a length take a block over the end of
\* the sector.
SavedIsRestored(old, props, compress) ==
    \A before \in {s.log : s \in save_props_to_log(NoBlock, old, compress, {"serialize", "compress", "encoder"}, TRUE)},
       memory \in SUBSET {"serialize", "compress", "encoder"}, works \in BOOLEAN :
    (compress /\ {"serialize", "compress"} \subseteq memory => "encoder" \in memory) =>
    \A saved \in save_props_to_log(before, props, compress, memory, works) :
       LET all  == {"block", "decompress"}
           back == restore_props_from_log(saved.log, all)
       IN  /\ back \in {props, restore_props_from_log(before, all)}
           /\ works /\ saved.rval /\ Len(props) < SectorRoom => back = props
           /\ saved.log.compressed => Len(saved.log.data) <= Len(props) + 1 \/ props = <<>> \/ saved.log = before
           /\ \A part \in SUBSET all : restore_props_from_log(saved.log, part) \in {<<>>, back}

\* A new index finds the newest block of every kind, and of no other.
IndexFindsNewest(log, buf_data_len) ==
    LET at    == [k \in DOMAIN log |-> 100 + FoldLeft(LAMBDA n, j : n + 6 + Len(log[j].data), 0, [j \in 1 .. k - 1 |-> j])]
        flash == [o \in Range(at) |-> log[CHOOSE k \in DOMAIN log : at[k] = o]]
        index == logdb_index_create(log, at, 8)
    IN  \A kind \in 1..4 :
           LET of   == {k \in DOMAIN log : log[k].kind = kind}
               last == CHOOSE k \in of : \A j \in of : j <= k
               read == logdb_index_read(flash, index, kind, buf_data_len)
           IN  /\ read.ok <=> of # {}
               /\ read.ok => /\ read.data_len = Len(log[last].data)
                             /\ read.data = IF Len(log[last].data) <= buf_data_len THEN log[last].data ELSE <<>>

=============================================================================
