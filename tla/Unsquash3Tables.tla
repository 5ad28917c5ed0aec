-------------------------- MODULE Unsquash3Tables --------------------------
(***************************************************************************)
(* Superblock decoding and filesystem-table loading of a version 1/2/3     *)
(* squashfs image (unsquash-3.c: read_super_3, read_filesystem_tables,     *)
(* parse_exports_table, read_fragment_table, salloc_index_table).          *)
(*                                                                         *)
(* The image is untrusted: every superblock field, and the first entry of  *)
(* each index table, is whatever the image holds.  Offsets and counts are  *)
(* drawn from the CONSTANT sets Offsets, InodeCounts, FragmentCounts and   *)
(* IdCounts; record sizes are CONSTANTS scaled down from the C sizeofs.    *)
(* read_filesystem_tables is one C function; it is modelled as a sequence  *)
(* of steps, one per block of the function, ordered by the control state   *)
(* pc, so that nothing can be skipped and nothing interleaves.             *)
(***************************************************************************)
EXTENDS Integers

CONSTANTS
    Offsets,             \* byte offsets an untrusted field may hold
    InodeCounts,         \* values of sBlk.s.inodes
    FragmentCounts,      \* values of sBlk.s.fragments
    IdCounts,            \* values of sBlk.no_uids and sBlk.no_guids
    METADATA_SIZE,       \* SQUASHFS_METADATA_SIZE (8192)
    FRAGMENT_ENTRY_SIZE, \* sizeof(squashfs_fragment_entry_3) (16)
    LOOKUP_ENTRY_SIZE,   \* sizeof(squashfs_inode_t) (8)
    INDEX_ENTRY_SIZE     \* sizeof(long long) (8)

ASSUME DomainsAssumption ==
    /\ Offsets \subseteq Nat
    /\ InodeCounts \subseteq Nat
    /\ FragmentCounts \subseteq Nat
    /\ IdCounts \subseteq Nat

ASSUME SizesAssumption ==
    /\ METADATA_SIZE \in Nat \ {0}
    /\ \E k \in 0 .. METADATA_SIZE : METADATA_SIZE = 2^k
    /\ FRAGMENT_ENTRY_SIZE \in Nat \ {0}
    /\ METADATA_SIZE % FRAGMENT_ENTRY_SIZE = 0
    /\ LOOKUP_ENTRY_SIZE \in Nat \ {0}
    /\ INDEX_ENTRY_SIZE \in Nat \ {0}

SQUASHFS_INVALID_BLK == -1

(* The superblock magic, as the bytes read from the image: the native     *)
(* magic, its byte-reversed form, or anything else.                        *)
SQUASHFS_MAGIC == "magic"
SQUASHFS_MAGIC_SWAP == "cigam"
Magics == {SQUASHFS_MAGIC, SQUASHFS_MAGIC_SWAP, "other"}
SwapMagic(m) ==
    CASE m = SQUASHFS_MAGIC      -> SQUASHFS_MAGIC_SWAP
      [] m = SQUASHFS_MAGIC_SWAP -> SQUASHFS_MAGIC
      [] OTHER                   -> m
Majors == {2, 3}
Minors == {0, 1, 2}

(* The fields of sBlk that unsquash-3.c reads after read_super_3.         *)
Superblocks ==
    [inodes : InodeCounts, fragments : FragmentCounts,
     no_uids : IdCounts, no_guids : IdCounts,
     bytes_used : Offsets, inode_table_start : Offsets,
     directory_table_start : Offsets, fragment_table_start : Offsets,
     lookup_table_start : Offsets \cup {SQUASHFS_INVALID_BLK},
     uid_start : Offsets, guid_start : Offsets]

SuperblockType ==
    [inodes : Nat, fragments : Nat, no_uids : Nat, no_guids : Nat,
     bytes_used : Nat, inode_table_start : Nat,
     directory_table_start : Nat, fragment_table_start : Nat,
     lookup_table_start : Nat \cup {SQUASHFS_INVALID_BLK},
     uid_start : Nat, guid_start : Nat]

(* sBlk is a zero-initialised global.                                      *)
ZeroSuperblock ==
    [inodes |-> 0, fragments |-> 0, no_uids |-> 0, no_guids |-> 0,
     bytes_used |-> 0, inode_table_start |-> 0,
     directory_table_start |-> 0, fragment_table_start |-> 0,
     lookup_table_start |-> 0, uid_start |-> 0, guid_start |-> 0]

(* Table geometry (the SQUASHFS_*_3 macros used at lines 89-91, 542-543). *)
CeilDiv(a, b) == (a + b - 1) \div b
FragmentBytes(n) == n * FRAGMENT_ENTRY_SIZE
FragmentIndexes(n) == CeilDiv(FragmentBytes(n), METADATA_SIZE)
FragmentIndexBytes(n) == FragmentIndexes(n) * INDEX_ENTRY_SIZE
LookupBlocks(n) == CeilDiv(n * LOOKUP_ENTRY_SIZE, METADATA_SIZE)
LookupBlockBytes(n) == LookupBlocks(n) * INDEX_ENTRY_SIZE
EntriesPerBlock == METADATA_SIZE \div FRAGMENT_ENTRY_SIZE

(* salloc_index_table(indexes): the capacity, in bytes, of the reused     *)
(* scratch index buffer after the call; it grows only when too small and  *)
(* is released by a request for zero indexes.  alloc_index_table keeps    *)
(* the same contract.                                                     *)
IndexTableSize(allocSize, indexes) ==
    LET length == indexes * INDEX_ENTRY_SIZE
    IN  IF allocSize < length \/ length = 0 THEN length ELSE allocSize

(* read_block(fd, start, NULL, expected, dest): the decompressed lengths  *)
(* it can return on success.  An expected length of 0 asks for a block of *)
(* unknown length, at most SQUASHFS_METADATA_SIZE.                        *)
ReadBlockLengths(expected) ==
    {len \in 1..METADATA_SIZE : expected = 0 \/ len = expected}

Phases == {"super", "gids", "uids", "exports", "fragments",
           "fragment_blocks", "table_checks",
           "loaded", "corrupt", "not_squashfs3", "read_failed"}
Finished == {"loaded", "corrupt", "not_squashfs3", "read_failed"}

VARIABLES
    pc,                  \* the step of read_super_3/read_filesystem_tables
    sBlk,                \* the decoded superblock
    swap,                \* the foreign-endian flag
    tableStart,          \* table_start: upper bound of the next region
    exportBlocksStart,   \* export_index_table[0] as read from the image
    fragmentBlocksStart, \* fragment_table_index[0] as read from the image
    fragWritten,         \* fragment_table entries filled from the image
    blk,                 \* i of the block loop of read_fragment_table
    readFailed,          \* some read of the I/O layer has failed
    allocSize,           \* capacity of the alloc_index_table buffer
    sallocSize           \* capacity of the salloc_index_table buffer

vars == <<pc, sBlk, swap, tableStart, exportBlocksStart, fragmentBlocksStart,
          fragWritten, blk, readFailed, allocSize, sallocSize>>

TypeOK ==
    /\ pc \in Phases
    /\ sBlk \in SuperblockType
    /\ swap \in BOOLEAN
    /\ tableStart \in Int
    /\ exportBlocksStart \in Nat
    /\ fragmentBlocksStart \in Nat
    /\ fragWritten \subseteq Nat
    /\ blk \in Nat
    /\ readFailed \in BOOLEAN
    /\ allocSize \in Nat
    /\ sallocSize \in Nat

Init ==
    /\ pc = "super"
    /\ sBlk = ZeroSuperblock
    /\ swap = FALSE
    /\ tableStart = 0
    /\ exportBlocksStart = 0
    /\ fragmentBlocksStart = 0
    /\ fragWritten = {}
    /\ blk = 0
    /\ readFailed = FALSE
    /\ allocSize = 0
    /\ sallocSize = 0
-----------------------------------------------------------------------------
(* The corrupted: label of read_filesystem_tables: both scratch index     *)
(* buffers are released and the load fails.  failedRead records whether   *)
(* the failure came from the I/O layer rather than from a sanity check.   *)
(* Mutant of Corrupted: the swap staging buffer is not released.          *)
CorruptedKeepsScratch(failedRead) ==
    /\ pc' = "corrupt"
    /\ allocSize' = IndexTableSize(allocSize, 0)
    /\ readFailed' = (readFailed \/ failedRead)
    /\ UNCHANGED <<sBlk, swap, tableStart, exportBlocksStart,
                   fragmentBlocksStart, fragWritten, blk, sallocSize>>

Corrupted(failedRead) ==
    /\ pc' = "corrupt"
    /\ allocSize' = IndexTableSize(allocSize, 0)
    /\ sallocSize' = IndexTableSize(sallocSize, 0)
    /\ readFailed' = (readFailed \/ failedRead)
    /\ UNCHANGED <<sBlk, swap, tableStart, exportBlocksStart,
                   fragmentBlocksStart, fragWritten, blk>>

(* read_super_3: read the superblock, detect and undo a foreign byte      *)
(* order, and accept only major 3, minor 0 or 1.                          *)
ReadSuper ==
    /\ pc = "super"
    /\ \/ /\ pc' = "read_failed"
          /\ readFailed' = TRUE
          /\ UNCHANGED <<sBlk, swap>>
       \/ \E m \in Magics, major \in Majors, minor \in Minors :
             LET swapped == m = SQUASHFS_MAGIC_SWAP
                 magic == IF swapped THEN SwapMagic(m) ELSE m
                 accept == magic = SQUASHFS_MAGIC /\ major = 3 /\ minor <= 1
             IN  /\ swap' = swapped
                 /\ readFailed' = readFailed
                 /\ \/ /\ accept
                       /\ pc' = "gids"
                       /\ sBlk' \in Superblocks
                    \/ /\ ~accept
                       /\ pc' = "not_squashfs3"
                       /\ UNCHANGED sBlk
    /\ UNCHANGED <<tableStart, exportBlocksStart, fragmentBlocksStart,
                   fragWritten, blk, allocSize, sallocSize>>

(* read_filesystem_tables, gid table: with gids, guid_start lies before   *)
(* bytes_used and the table is read; without, guid_start must be 0.       *)
ReadGidTable ==
    /\ pc = "gids"
    /\ \/ /\ sBlk.no_guids # 0
          /\ \/ /\ sBlk.guid_start >= sBlk.bytes_used
                /\ Corrupted(FALSE)
             \/ /\ sBlk.guid_start < sBlk.bytes_used
                /\ Corrupted(TRUE)
             \/ /\ sBlk.guid_start < sBlk.bytes_used
                /\ tableStart' = sBlk.guid_start
                /\ pc' = "uids"
                /\ UNCHANGED <<readFailed, allocSize, sallocSize>>
       \/ /\ sBlk.no_guids = 0
          /\ \/ /\ sBlk.guid_start # 0
                /\ Corrupted(FALSE)
             \/ /\ sBlk.guid_start = 0
                /\ tableStart' = sBlk.bytes_used
                /\ pc' = "uids"
                /\ UNCHANGED <<readFailed, allocSize, sallocSize>>
    /\ UNCHANGED <<sBlk, swap, exportBlocksStart, fragmentBlocksStart,
                   fragWritten, blk>>

(* Mutant of ReadUidTable: uid_start may equal table_start.              *)
ReadUidTableAllowsEqual ==
    /\ pc = "uids"
    /\ \/ /\ sBlk.uid_start > tableStart \/ sBlk.no_uids = 0
          /\ Corrupted(FALSE)
       \/ /\ sBlk.uid_start <= tableStart
          /\ sBlk.no_uids # 0
          /\ \/ Corrupted(TRUE)
             \/ /\ tableStart' = sBlk.uid_start
                /\ pc' = "exports"
                /\ UNCHANGED <<sBlk, swap, exportBlocksStart,
                               fragmentBlocksStart, fragWritten, blk,
                               readFailed, allocSize, sallocSize>>

(* read_filesystem_tables, uid table: uid_start lies before table_start,  *)
(* there is at least one uid, and the table is read.                      *)
ReadUidTable ==
    /\ pc = "uids"
    /\ \/ /\ sBlk.uid_start >= tableStart \/ sBlk.no_uids = 0
          /\ Corrupted(FALSE)
       \/ /\ sBlk.uid_start < tableStart
          /\ sBlk.no_uids # 0
          /\ \/ Corrupted(TRUE)
             \/ /\ tableStart' = sBlk.uid_start
                /\ pc' = "exports"
                /\ UNCHANGED <<sBlk, swap, exportBlocksStart,
                               fragmentBlocksStart, fragWritten, blk,
                               readFailed, allocSize, sallocSize>>

(* read_filesystem_tables and parse_exports_table: an export table, when  *)
(* present, starts before table_start and its index fills the gap up to   *)
(* it exactly; table_start becomes export_index_table[0].                 *)
ReadExportTable ==
    /\ pc = "exports"
    /\ LET lookup == sBlk.lookup_table_start
           indexes == LookupBlocks(sBlk.inodes)
       IN  \/ /\ lookup = SQUASHFS_INVALID_BLK
              /\ pc' = "fragments"
              /\ UNCHANGED <<tableStart, exportBlocksStart, readFailed,
                             allocSize, sallocSize>>
           \/ /\ lookup # SQUASHFS_INVALID_BLK
              /\ lookup >= tableStart
              /\ Corrupted(FALSE)
           \/ /\ lookup # SQUASHFS_INVALID_BLK
              /\ lookup < tableStart
              /\ LookupBlockBytes(sBlk.inodes) # tableStart - lookup
              /\ Corrupted(FALSE)
           \/ /\ lookup # SQUASHFS_INVALID_BLK
              /\ lookup < tableStart
              /\ LookupBlockBytes(sBlk.inodes) = tableStart - lookup
              /\ \/ Corrupted(TRUE)
                 \/ \E first \in Offsets :
                       /\ exportBlocksStart' = first
                       /\ tableStart' = first
                       /\ pc' = "fragments"
                       /\ allocSize' = IndexTableSize(allocSize, indexes)
                       /\ sallocSize' = IF swap
                                          THEN IndexTableSize(sallocSize, indexes)
                                          ELSE sallocSize
                       /\ UNCHANGED readFailed
    /\ UNCHANGED <<sBlk, swap, fragmentBlocksStart, fragWritten, blk>>

(* read_filesystem_tables and read_fragment_table, up to the index read:  *)
(* with no fragments the table must start exactly at table_start; else it *)
(* starts before it, fragments do not outnumber inodes, and the index     *)
(* fills the gap up to table_start exactly.                               *)
ReadFragmentTable ==
    /\ pc = "fragments"
    /\ LET n == sBlk.fragments
           start == sBlk.fragment_table_start
           indexes == FragmentIndexes(n)
       IN  \/ /\ n = 0
              /\ start # tableStart
              /\ Corrupted(FALSE)
           \/ /\ n = 0
              /\ start = tableStart
              /\ pc' = "table_checks"
              /\ UNCHANGED <<fragmentBlocksStart, fragWritten, readFailed,
                             allocSize, sallocSize>>
           \/ /\ n # 0
              /\ \/ start >= tableStart
                 \/ n > sBlk.inodes
                 \/ FragmentIndexBytes(n) # tableStart - start
              /\ Corrupted(FALSE)
           \/ /\ n # 0
              /\ start < tableStart
              /\ n <= sBlk.inodes
              /\ FragmentIndexBytes(n) = tableStart - start
              /\ \/ Corrupted(TRUE)
                 \/ \E first \in Offsets :
                       /\ fragmentBlocksStart' = first
                       /\ fragWritten' = {}
                       /\ pc' = "fragment_blocks"
                       /\ allocSize' = IndexTableSize(allocSize, indexes)
                       /\ sallocSize' = IF swap
                                          THEN IndexTableSize(sallocSize, indexes)
                                          ELSE sallocSize
                       /\ UNCHANGED readFailed
    /\ UNCHANGED <<sBlk, swap, tableStart, exportBlocksStart, blk>>

(* Mutant of BlockExpected: the last block is recognised by i != indexes *)
(* and so is expected to be a full block.                                 *)
BlockExpectedAllFull(i, n) ==
    IF i # FragmentIndexes(n) THEN METADATA_SIZE
    ELSE FragmentBytes(n) % METADATA_SIZE

(* The length read_fragment_table expects of block i of n fragments: a    *)
(* full block except for the last, which expects                          *)
(* bytes & (SQUASHFS_METADATA_SIZE - 1).                                  *)
BlockExpected(i, n) ==
    IF i + 1 # FragmentIndexes(n) THEN METADATA_SIZE
    ELSE FragmentBytes(n) % METADATA_SIZE

(* read_fragment_table, one turn of the block loop: block blk is read     *)
(* into fragment_table at blk * SQUASHFS_METADATA_SIZE and fills as many  *)
(* entries as the decompressed length covers.                             *)
ReadFragmentBlock ==
    /\ pc = "fragment_blocks"
    /\ LET n == sBlk.fragments
           indexes == FragmentIndexes(n)
           expected == BlockExpected(blk, n)
       IN  /\ blk < indexes
           /\ \/ Corrupted(TRUE)
              \/ \E len \in ReadBlockLengths(expected) :
                    /\ fragWritten' =
                          fragWritten \cup
                            {blk * EntriesPerBlock + k :
                               k \in 0 .. (len \div FRAGMENT_ENTRY_SIZE) - 1}
                    /\ blk' = blk + 1
                    /\ UNCHANGED <<pc, readFailed, allocSize, sallocSize>>
    /\ UNCHANGED <<sBlk, swap, tableStart, exportBlocksStart,
                   fragmentBlocksStart>>

(* read_fragment_table after the loop: the entries are byte-swapped in    *)
(* place when swap is set (which does not make garbage into image data),  *)
(* and table_start becomes fragment_table_index[0].                       *)
FinishFragmentTable ==
    /\ pc = "fragment_blocks"
    /\ blk = FragmentIndexes(sBlk.fragments)
    /\ tableStart' = fragmentBlocksStart
    /\ pc' = "table_checks"
    /\ UNCHANGED <<sBlk, swap, exportBlocksStart, fragmentBlocksStart,
                   fragWritten, blk, readFailed, allocSize, sallocSize>>

(* Mutant of CheckTableStarts: the inode table may start where the      *)
(* directory table starts.                                                *)
CheckTableStartsAllowsEqual ==
    /\ pc = "table_checks"
    /\ \/ /\ sBlk.directory_table_start > tableStart
          /\ Corrupted(FALSE)
       \/ /\ sBlk.directory_table_start <= tableStart
          /\ sBlk.inode_table_start > sBlk.directory_table_start
          /\ Corrupted(FALSE)
       \/ /\ sBlk.directory_table_start <= tableStart
          /\ sBlk.inode_table_start <= sBlk.directory_table_start
          /\ pc' = "loaded"
          /\ allocSize' = IndexTableSize(allocSize, 0)
          /\ sallocSize' = IndexTableSize(sallocSize, 0)
          /\ UNCHANGED <<sBlk, swap, tableStart, exportBlocksStart,
                         fragmentBlocksStart, fragWritten, blk, readFailed>>

(* read_filesystem_tables, last checks: the directory table starts at or  *)
(* before table_start and the inode table strictly before it; on success  *)
(* the scratch index buffers are released too.                            *)
CheckTableStarts ==
    /\ pc = "table_checks"
    /\ \/ /\ sBlk.directory_table_start > tableStart
          /\ Corrupted(FALSE)
       \/ /\ sBlk.directory_table_start <= tableStart
          /\ sBlk.inode_table_start >= sBlk.directory_table_start
          /\ Corrupted(FALSE)
       \/ /\ sBlk.directory_table_start <= tableStart
          /\ sBlk.inode_table_start < sBlk.directory_table_start
          /\ pc' = "loaded"
          /\ allocSize' = IndexTableSize(allocSize, 0)
          /\ sallocSize' = IndexTableSize(sallocSize, 0)
          /\ UNCHANGED <<sBlk, swap, tableStart, exportBlocksStart,
                         fragmentBlocksStart, fragWritten, blk, readFailed>>

Next ==
    \/ ReadSuper
    \/ ReadGidTable
    \/ ReadUidTable
    \/ ReadExportTable
    \/ ReadFragmentTable
    \/ ReadFragmentBlock
    \/ FinishFragmentTable
    \/ CheckTableStarts

Spec == Init /\ [][Next]_vars
-----------------------------------------------------------------------------
(* Where the region after each table ends, as the loader derives it: the  *)
(* gid table ends at bytes_used, the uid table at the gid table, the      *)
(* export index at the uid table; the export blocks and the fragment      *)
(* blocks start where their index's first entry says.                     *)
GidEnd ==
    IF sBlk.no_guids # 0 THEN sBlk.guid_start ELSE sBlk.bytes_used
ExportEnd ==
    IF sBlk.lookup_table_start = SQUASHFS_INVALID_BLK
      THEN sBlk.uid_start ELSE exportBlocksStart
FragmentEnd ==
    IF sBlk.fragments = 0 THEN ExportEnd ELSE fragmentBlocksStart

(* The conditions under which a superblock is accepted (section 4.3 of    *)
(* the design), stated of the superblock and of the two index entries     *)
(* rather than step by step.                                              *)
LayoutAccepted ==
    /\ IF sBlk.no_guids # 0 THEN sBlk.guid_start < sBlk.bytes_used
                            ELSE sBlk.guid_start = 0
    /\ sBlk.uid_start < GidEnd
    /\ sBlk.no_uids # 0
    /\ sBlk.lookup_table_start # SQUASHFS_INVALID_BLK =>
          /\ sBlk.lookup_table_start < sBlk.uid_start
          /\ LookupBlockBytes(sBlk.inodes)
                = sBlk.uid_start - sBlk.lookup_table_start
    /\ IF sBlk.fragments = 0
         THEN sBlk.fragment_table_start = ExportEnd
         ELSE /\ sBlk.fragment_table_start < ExportEnd
              /\ sBlk.fragments <= sBlk.inodes
              /\ FragmentIndexBytes(sBlk.fragments)
                    = ExportEnd - sBlk.fragment_table_start
    /\ sBlk.directory_table_start <= FragmentEnd
    /\ sBlk.inode_table_start < sBlk.directory_table_start

(* The start of the region that follows the directory table, and of the  *)
(* one that follows the fragment index, in the back-to-front layout.      *)
AfterDirectoryTable ==
    IF sBlk.fragments # 0 THEN sBlk.fragment_table_start
    ELSE IF sBlk.lookup_table_start # SQUASHFS_INVALID_BLK
           THEN sBlk.lookup_table_start ELSE sBlk.uid_start
AfterFragmentIndex ==
    IF sBlk.lookup_table_start # SQUASHFS_INVALID_BLK
      THEN sBlk.lookup_table_start ELSE sBlk.uid_start

(* The regions of the image lie back to front: inode table, directory    *)
(* table, fragment index, export index, uid table, gid table, each        *)
(* starting strictly before the next, all before bytes_used.              *)
RegionsInOrder ==
    /\ sBlk.inode_table_start < sBlk.directory_table_start
    /\ sBlk.directory_table_start <= AfterDirectoryTable
    /\ sBlk.fragments # 0 => sBlk.fragment_table_start < AfterFragmentIndex
    /\ sBlk.lookup_table_start # SQUASHFS_INVALID_BLK =>
          sBlk.lookup_table_start < sBlk.uid_start
    /\ sBlk.uid_start < GidEnd
    /\ GidEnd <= sBlk.bytes_used

(* The first entry of each index read points back, below the index: the  *)
(* compressed blocks precede their index, as in an image mksquashfs made. *)
IndexesPointBack ==
    /\ sBlk.lookup_table_start # SQUASHFS_INVALID_BLK =>
          exportBlocksStart <= sBlk.lookup_table_start
    /\ sBlk.fragments # 0 =>
          fragmentBlocksStart <= sBlk.fragment_table_start

-----------------------------------------------------------------------------
(* PROPERTY (read_filesystem_tables): when no read of the I/O layer has  *)
(* failed, loading the tables succeeds exactly when the superblock and    *)
(* the index entries satisfy every region-ordering and count condition    *)
(* of the design, whichever check of the code rejects it first.           *)
LoadIffLayoutAccepted ==
    (pc \in {"loaded", "corrupt"} /\ ~readFailed) =>
        (pc = "loaded" <=> LayoutAccepted)

(* PROPERTY (read_filesystem_tables): a successful load leaves the       *)
(* regions in back-to-front order, for every image whose index entries   *)
(* point back below their index.                                          *)
LoadedRegionsInOrder ==
    (pc = "loaded" /\ IndexesPointBack) => RegionsInOrder

(* PROPERTY (the design's layout invariant, section 3): a successful load *)
(* leaves the regions in back-to-front order, whatever the image holds.   *)
LoadedLayoutOrdered ==
    pc = "loaded" => RegionsInOrder

(* PROPERTY (read_fragment_table block loop): every block read writes     *)
(* inside the fragment_table buffer of bytes = fragments * entry size.    *)
FragmentReadsInBounds ==
    fragWritten \subseteq 0 .. sBlk.fragments - 1

(* PROPERTY (read_fragment_table, the design's section 4.4): after a      *)
(* successful load every fragment entry holds data read from the image,   *)
(* none is left as uninitialised malloc memory.                           *)
FragmentTableFilled ==
    pc = "loaded" => fragWritten = 0 .. sBlk.fragments - 1

(* PROPERTY (read_filesystem_tables, both exits, and the corrupted: label *)
(* reached after a partial read): once loading has ended, however, both   *)
(* scratch index buffers are released.                                    *)
ScratchReleased ==
    pc \in Finished => allocSize = 0 /\ sallocSize = 0
=============================================================================
