----------------------- MODULE Unsquash3TablesProofs -----------------------
(***************************************************************************)
(* Proofs about Unsquash3Tables, for every value of the constants that    *)
(* satisfies DomainsAssumption and SizesAssumption.                       *)
(***************************************************************************)
EXTENDS Unsquash3Tables, TLAPS

(* The geometry of an index table is a natural number of blocks.           *)
LEMMA GeometryNat ==
    ASSUME NEW n \in Nat
    PROVE  /\ FragmentIndexes(n) \in Nat
           /\ FragmentIndexBytes(n) \in Nat
           /\ LookupBlocks(n) \in Nat
           /\ LookupBlockBytes(n) \in Nat
           /\ FragmentBytes(n) \in Nat
<1>1. FragmentBytes(n) \in Nat
  BY SizesAssumption DEF FragmentBytes
<1>2. \A a \in Nat : CeilDiv(a, METADATA_SIZE) \in Nat
  BY SizesAssumption DEF CeilDiv
<1>3. QED
  BY <1>1, <1>2, SizesAssumption
     DEF FragmentIndexes, FragmentIndexBytes, LookupBlocks, LookupBlockBytes

(* A reserved scratch index buffer has a natural capacity.               *)
LEMMA IndexTableSizeNat ==
    ASSUME NEW a \in Nat, NEW n \in Nat
    PROVE  IndexTableSize(a, n) \in Nat
BY SizesAssumption DEF IndexTableSize

(* The fields of a well-typed superblock are numbers.                     *)
LEMMA SuperblockFields ==
    ASSUME NEW sb \in SuperblockType
    PROVE  /\ sb.inodes \in Nat /\ sb.fragments \in Nat
           /\ sb.no_uids \in Nat /\ sb.no_guids \in Nat
           /\ sb.bytes_used \in Nat /\ sb.inode_table_start \in Nat
           /\ sb.directory_table_start \in Nat
           /\ sb.fragment_table_start \in Nat
           /\ sb.lookup_table_start \in Int
           /\ sb.uid_start \in Nat /\ sb.guid_start \in Nat
BY DEF SuperblockType, SQUASHFS_INVALID_BLK

(* TypeOK split into its Boolean part, for Zenon, and the rest, for SMT. *)
TypeBools == swap \in BOOLEAN /\ readFailed \in BOOLEAN
TypeRest ==
    /\ pc \in Phases
    /\ sBlk \in SuperblockType
    /\ tableStart \in Int
    /\ exportBlocksStart \in Nat
    /\ fragmentBlocksStart \in Nat
    /\ fragWritten \subseteq Nat
    /\ blk \in Nat
    /\ allocSize \in Nat
    /\ sallocSize \in Nat

LEMMA TypeSplit == TypeOK <=> TypeBools /\ TypeRest
BY Zenon DEF TypeOK, TypeBools, TypeRest

(* The Boolean variables stay Boolean.                                    *)
LEMMA BoolsInvariant == TypeBools /\ [Next]_vars => TypeBools'
<1> SUFFICES ASSUME TypeBools, [Next]_vars PROVE TypeBools'
  OBVIOUS
<1>a. ASSUME NEW f \in BOOLEAN, Corrupted(f) PROVE TypeBools'
  BY <1>a, Zenon DEF Corrupted, TypeBools
<1>1. CASE ReadSuper
  BY <1>1, Zenon DEF ReadSuper, TypeBools
<1>2. CASE ReadGidTable
  BY <1>2, <1>a, Zenon DEF ReadGidTable, TypeBools
<1>3. CASE ReadUidTable
  BY <1>3, <1>a, Zenon DEF ReadUidTable, TypeBools
<1>4. CASE ReadExportTable
  BY <1>4, <1>a, Zenon DEF ReadExportTable, TypeBools
<1>5. CASE ReadFragmentTable
  BY <1>5, <1>a, Zenon DEF ReadFragmentTable, TypeBools
<1>6. CASE ReadFragmentBlock
  BY <1>6, <1>a, Zenon DEF ReadFragmentBlock, TypeBools
<1>7. CASE FinishFragmentTable
  BY <1>7, Zenon DEF FinishFragmentTable, TypeBools
<1>8. CASE CheckTableStarts
  BY <1>8, <1>a, Zenon DEF CheckTableStarts, TypeBools
<1>9. CASE UNCHANGED vars
  BY <1>9, Zenon DEF vars, TypeBools
<1>10. QED
  BY <1>1, <1>2, <1>3, <1>4, <1>5, <1>6, <1>7, <1>8, <1>9 DEF Next

(* The other variables keep their types.  Each action either ends in   *)
(* Corrupted, handled once in <1>a, or takes its success branch, whose   *)
(* new values are shown to be numbers first and then assembled by Zenon. *)
LEMMA RestInvariant == TypeRest /\ [Next]_vars => TypeRest'
<1> SUFFICES ASSUME TypeRest, [Next]_vars PROVE TypeRest'
  OBVIOUS
<1>. USE DEF TypeRest, Phases
<1>a. ASSUME NEW f, Corrupted(f) PROVE TypeRest'
  BY <1>a, IndexTableSizeNat DEF Corrupted
<1>b. sBlk.guid_start \in Nat /\ sBlk.bytes_used \in Nat
      /\ sBlk.uid_start \in Nat /\ sBlk.inodes \in Nat
      /\ sBlk.fragments \in Nat
      /\ sBlk.guid_start \in Int /\ sBlk.bytes_used \in Int
      /\ sBlk.uid_start \in Int
      /\ Offsets \subseteq Nat /\ Offsets \subseteq Int
  BY SuperblockFields, DomainsAssumption
<1>1. CASE ReadSuper
  <2>1. Superblocks \subseteq SuperblockType
    BY DomainsAssumption DEF Superblocks, SuperblockType
  <2>2. QED
    BY <1>1, <2>1 DEF ReadSuper
<1>2. CASE ReadGidTable
  <2>1. CASE \E f : Corrupted(f)
    BY <2>1, <1>a
  <2>2. CASE ~\E f : Corrupted(f)
    BY <1>2, <2>2, <1>b, Zenon DEF ReadGidTable
  <2>3. QED
    BY <2>1, <2>2
<1>3. CASE ReadUidTable
  <2>1. CASE \E f : Corrupted(f)
    BY <2>1, <1>a
  <2>2. CASE ~\E f : Corrupted(f)
    BY <1>3, <2>2, <1>b, Zenon DEF ReadUidTable
  <2>3. QED
    BY <2>1, <2>2
<1>4. CASE ReadExportTable
  <2>1. CASE \E f : Corrupted(f)
    BY <2>1, <1>a
  <2>2. CASE ~\E f : Corrupted(f)
    <3>1. LookupBlocks(sBlk.inodes) \in Nat
      BY <1>b, GeometryNat
    <3>2. /\ IndexTableSize(allocSize, LookupBlocks(sBlk.inodes)) \in Nat
          /\ IndexTableSize(sallocSize, LookupBlocks(sBlk.inodes)) \in Nat
      BY <3>1, IndexTableSizeNat
    <3>4. QED
      BY <1>4, <2>2, <1>b, <3>2, Zenon DEF ReadExportTable
  <2>3. QED
    BY <2>1, <2>2
<1>5. CASE ReadFragmentTable
  <2>1. CASE \E f : Corrupted(f)
    BY <2>1, <1>a
  <2>2. CASE ~\E f : Corrupted(f)
    <3>1. FragmentIndexes(sBlk.fragments) \in Nat
      BY <1>b, GeometryNat
    <3>2. /\ IndexTableSize(allocSize, FragmentIndexes(sBlk.fragments)) \in Nat
          /\ IndexTableSize(sallocSize, FragmentIndexes(sBlk.fragments)) \in Nat
      BY <3>1, IndexTableSizeNat
    <3>3. Offsets \subseteq Nat
      BY DomainsAssumption
    <3>4. {} \subseteq Nat /\ 0 \in Nat
      OBVIOUS
    <3>5. QED
      BY <1>5, <2>2, <3>2, <3>3, <3>4, Zenon DEF ReadFragmentTable
  <2>3. QED
    BY <2>1, <2>2
<1>6. CASE ReadFragmentBlock
  <2>1. CASE \E f : Corrupted(f)
    BY <2>1, <1>a
  <2>2. CASE ~\E f : Corrupted(f)
    <3>1. EntriesPerBlock \in Nat
      BY SizesAssumption DEF EntriesPerBlock
    <3>2. \A x \in Int :
             fragWritten \cup {blk * EntriesPerBlock + k : k \in 0 .. x - 1}
               \subseteq Nat
      <4> TAKE x \in Int
      <4>1. \A k \in 0 .. x - 1 : blk * EntriesPerBlock + k \in Nat
        BY <3>1
      <4>2. QED
        BY <4>1, Zenon
    <3>3. blk + 1 \in Nat
      OBVIOUS
    <3>4. \A len \in ReadBlockLengths(BlockExpected(blk, sBlk.fragments)) :
             len \div FRAGMENT_ENTRY_SIZE \in Int
      BY SizesAssumption DEF ReadBlockLengths
    <3>5. QED
      BY <1>6, <2>2, <3>2, <3>3, <3>4, Zenon DEF ReadFragmentBlock
  <2>3. QED
    BY <2>1, <2>2
<1>7. CASE FinishFragmentTable
  BY <1>7 DEF FinishFragmentTable
<1>8. CASE CheckTableStarts
  <2>1. CASE \E f : Corrupted(f)
    BY <2>1, <1>a
  <2>2. CASE ~\E f : Corrupted(f)
    <3>1. IndexTableSize(allocSize, 0) \in Nat
          /\ IndexTableSize(sallocSize, 0) \in Nat
      BY IndexTableSizeNat
    <3>2. QED
      BY <1>8, <2>2, <3>1, Zenon DEF CheckTableStarts
  <2>3. QED
    BY <2>1, <2>2
<1>9. CASE UNCHANGED vars
  BY <1>9 DEF vars
<1>10. QED
  BY <1>1, <1>2, <1>3, <1>4, <1>5, <1>6, <1>7, <1>8, <1>9 DEF Next

-----------------------------------------------------------------------------
(* The checks of read_filesystem_tables, one per table, as facts of the  *)
(* superblock and of the index entries read.                              *)
GidOK ==
    IF sBlk.no_guids # 0 THEN sBlk.guid_start < sBlk.bytes_used
                         ELSE sBlk.guid_start = 0
UidOK == sBlk.uid_start < GidEnd /\ sBlk.no_uids # 0
ExportOK ==
    sBlk.lookup_table_start # SQUASHFS_INVALID_BLK =>
        /\ sBlk.lookup_table_start < sBlk.uid_start
        /\ LookupBlockBytes(sBlk.inodes)
              = sBlk.uid_start - sBlk.lookup_table_start
FragOK ==
    IF sBlk.fragments = 0
      THEN sBlk.fragment_table_start = ExportEnd
      ELSE /\ sBlk.fragment_table_start < ExportEnd
           /\ sBlk.fragments <= sBlk.inodes
           /\ FragmentIndexBytes(sBlk.fragments)
                 = ExportEnd - sBlk.fragment_table_start
TablesOK ==
    /\ sBlk.directory_table_start <= FragmentEnd
    /\ sBlk.inode_table_start < sBlk.directory_table_start

Accepted == GidOK /\ UidOK /\ ExportOK /\ FragOK /\ TablesOK

(* The inductive invariant: at each step of the loader, every check of   *)
(* the earlier steps has passed and table_start is the end of the region *)
(* that the next table must lie before; a load that failed without an    *)
(* I/O error failed some check.                                           *)
LayoutInv ==
    /\ pc = "uids" => GidOK /\ tableStart = GidEnd
    /\ pc = "exports" => GidOK /\ UidOK /\ tableStart = sBlk.uid_start
    /\ pc = "fragments" =>
          GidOK /\ UidOK /\ ExportOK /\ tableStart = ExportEnd
    /\ pc = "fragment_blocks" =>
          /\ GidOK /\ UidOK /\ ExportOK /\ FragOK
          /\ sBlk.fragments # 0
    /\ pc = "table_checks" =>
          GidOK /\ UidOK /\ ExportOK /\ FragOK /\ tableStart = FragmentEnd
    /\ pc = "loaded" => Accepted
    /\ (pc = "corrupt" /\ ~readFailed) => ~Accepted

(* TypeOK holds initially and is preserved by every step.                *)
THEOREM TypeCorrect == Spec => []TypeOK
<1>1. Init => TypeBools
  BY Zenon DEF Init, TypeBools
<1>2. Init => TypeRest
  <2>1. ZeroSuperblock \in SuperblockType
    BY Zenon DEF ZeroSuperblock, SuperblockType
  <2>2. QED
    BY <2>1 DEF Init, TypeRest, Phases
<1>3. TypeOK /\ [Next]_vars => TypeOK'
  BY BoolsInvariant, RestInvariant, Zenon DEF TypeOK, TypeBools, TypeRest
<1>4. QED
  BY <1>1, <1>2, <1>3, TypeSplit, PTL DEF Spec

-----------------------------------------------------------------------------
(* The facts the layout checks are stated in are those of the superblock *)
(* and of the two index entries, which Corrupted leaves alone.            *)
LEMMA CorruptedKeepsLayout ==
    ASSUME NEW f, Corrupted(f)
    PROVE  /\ Accepted' = Accepted
           /\ pc' = "corrupt"
           /\ readFailed' = (readFailed \/ f)
BY DEF Corrupted, Accepted, GidOK, UidOK, ExportOK, FragOK, TablesOK,
       GidEnd, ExportEnd, FragmentEnd

(* A step into corrupted: after an I/O error, or after a failed check,   *)
(* keeps the last conjunct of LayoutInv.                                  *)
LEMMA CorruptedInv ==
    ASSUME NEW f \in BOOLEAN, Corrupted(f), f \/ ~Accepted
    PROVE  LayoutInv'
<1>1. pc' = "corrupt" /\ (readFailed' = (readFailed \/ f)) /\ Accepted' = Accepted
  BY CorruptedKeepsLayout
<1>2. ~readFailed' => ~Accepted'
  BY <1>1, Zenon
<1>3. QED
  BY <1>1, <1>2 DEF LayoutInv

(* A step that leaves the superblock and both index entries alone leaves *)
(* every layout check with the value it had.                              *)
LayoutVarsUnchanged == UNCHANGED <<sBlk, exportBlocksStart, fragmentBlocksStart>>

LEMMA ChecksUnchanged ==
    ASSUME LayoutVarsUnchanged
    PROVE  /\ GidOK' = GidOK /\ UidOK' = UidOK /\ ExportOK' = ExportOK
           /\ FragOK' = FragOK /\ TablesOK' = TablesOK
           /\ GidEnd' = GidEnd /\ ExportEnd' = ExportEnd
           /\ FragmentEnd' = FragmentEnd
BY DEF LayoutVarsUnchanged, GidOK, UidOK, ExportOK, FragOK, TablesOK,
       GidEnd, ExportEnd, FragmentEnd

(* Every step of the loader preserves LayoutInv.                          *)
LEMMA LayoutStep == TypeRest /\ LayoutInv /\ [Next]_vars => LayoutInv'
<1> SUFFICES ASSUME TypeRest, LayoutInv, [Next]_vars PROVE LayoutInv'
  OBVIOUS
<1>b. /\ sBlk.guid_start \in Nat /\ sBlk.bytes_used \in Nat
      /\ sBlk.uid_start \in Nat /\ sBlk.inodes \in Nat
      /\ sBlk.fragments \in Nat /\ sBlk.no_guids \in Nat
      /\ sBlk.no_uids \in Nat /\ sBlk.lookup_table_start \in Int
      /\ sBlk.fragment_table_start \in Nat
      /\ sBlk.directory_table_start \in Nat
      /\ sBlk.inode_table_start \in Nat
  BY SuperblockFields DEF TypeRest
<1>t. tableStart \in Int
  BY DEF TypeRest
<1>1. CASE ReadSuper
  <2>1. pc' \in {"read_failed", "gids", "not_squashfs3"}
    BY <1>1, Zenon DEF ReadSuper
  <2>2. QED
    BY <2>1 DEF LayoutInv
<1>2. CASE ReadGidTable
  <2>u. UNCHANGED <<sBlk, exportBlocksStart, fragmentBlocksStart>>
    BY <1>2 DEF ReadGidTable
  <2>1. ASSUME NEW f \in BOOLEAN, Corrupted(f),
               f \/ (sBlk.no_guids # 0 /\ sBlk.guid_start >= sBlk.bytes_used)
                 \/ (sBlk.no_guids = 0 /\ sBlk.guid_start # 0)
        PROVE  LayoutInv'
    <3>1. f \/ ~GidOK
      BY <2>1, <1>b DEF GidOK
    <3>2. QED
      BY <2>1, <3>1, CorruptedInv DEF Accepted
  <2>2. ASSUME pc' = "uids", GidOK, tableStart' = GidEnd PROVE LayoutInv'
    BY <2>u, <2>2, ChecksUnchanged DEF LayoutInv, LayoutVarsUnchanged
  <2>3. ASSUME sBlk.no_guids # 0, sBlk.guid_start < sBlk.bytes_used,
               tableStart' = sBlk.guid_start, pc' = "uids"
        PROVE  LayoutInv'
    BY <2>3, <2>2 DEF GidOK, GidEnd
  <2>4. ASSUME sBlk.no_guids = 0, sBlk.guid_start = 0,
               tableStart' = sBlk.bytes_used, pc' = "uids"
        PROVE  LayoutInv'
    BY <2>4, <2>2 DEF GidOK, GidEnd
  <2>5. QED
    BY <1>2, <2>1, <2>3, <2>4, Zenon DEF ReadGidTable
<1>3. CASE ReadUidTable
  <2>0. tableStart = GidEnd /\ GidOK
    BY <1>3 DEF ReadUidTable, LayoutInv
  <2>1. ASSUME NEW f \in BOOLEAN, Corrupted(f),
               f \/ sBlk.uid_start >= tableStart \/ sBlk.no_uids = 0
        PROVE  LayoutInv'
    <3>1. f \/ ~UidOK
      BY <2>0, <2>1, <1>b, <1>t DEF UidOK
    <3>2. QED
      BY <2>1, <3>1, CorruptedInv DEF Accepted
  <2>2. ASSUME sBlk.uid_start < tableStart, sBlk.no_uids # 0,
               tableStart' = sBlk.uid_start, pc' = "exports",
               LayoutVarsUnchanged
        PROVE  LayoutInv'
    <3>1. UidOK
      BY <2>0, <2>2 DEF UidOK
    <3>2. QED
      BY <2>0, <2>2, <3>1, ChecksUnchanged DEF LayoutInv, LayoutVarsUnchanged
  <2>3. QED
    BY <1>3, <2>1, <2>2, Zenon DEF ReadUidTable, LayoutVarsUnchanged
<1>4. CASE ReadExportTable
  <2>0. tableStart = sBlk.uid_start /\ GidOK /\ UidOK
    BY <1>4 DEF ReadExportTable, LayoutInv
  <2>u. UNCHANGED <<sBlk, fragmentBlocksStart>>
    BY <1>4 DEF ReadExportTable
  <2>1. ASSUME NEW f \in BOOLEAN, Corrupted(f),
               \/ f
               \/ /\ sBlk.lookup_table_start # SQUASHFS_INVALID_BLK
                  /\ sBlk.lookup_table_start >= tableStart
               \/ /\ sBlk.lookup_table_start # SQUASHFS_INVALID_BLK
                  /\ LookupBlockBytes(sBlk.inodes)
                       # tableStart - sBlk.lookup_table_start
        PROVE  LayoutInv'
    <3>1. f \/ ~ExportOK
      BY <2>0, <2>1, <1>b DEF ExportOK
    <3>2. QED
      BY <2>1, <3>1, CorruptedInv DEF Accepted
  <2>2. ASSUME pc' = "fragments", ExportOK, tableStart' = ExportEnd'
        PROVE  LayoutInv'
    <3>1. GidOK' /\ UidOK' /\ ExportOK'
      BY <2>0, <2>u, <2>2 DEF GidOK, UidOK, ExportOK, GidEnd
    <3>2. QED
      BY <2>2, <3>1 DEF LayoutInv
  <2>3. ASSUME sBlk.lookup_table_start = SQUASHFS_INVALID_BLK,
               pc' = "fragments", UNCHANGED <<tableStart, exportBlocksStart>>
        PROVE  LayoutInv'
    BY <2>0, <2>u, <2>3, <2>2 DEF ExportOK, ExportEnd
  <2>4. ASSUME sBlk.lookup_table_start # SQUASHFS_INVALID_BLK,
               sBlk.lookup_table_start < tableStart,
               LookupBlockBytes(sBlk.inodes)
                 = tableStart - sBlk.lookup_table_start,
               NEW first, exportBlocksStart' = first, tableStart' = first,
               pc' = "fragments"
        PROVE  LayoutInv'
    BY <2>0, <2>u, <2>4, <2>2 DEF ExportOK, ExportEnd
  <2>5. QED
    BY <1>4, <2>1, <2>3, <2>4, Zenon DEF ReadExportTable
<1>5. CASE ReadFragmentTable
  <2>0. tableStart = ExportEnd /\ GidOK /\ UidOK /\ ExportOK
    BY <1>5 DEF ReadFragmentTable, LayoutInv
  <2>u. UNCHANGED <<sBlk, exportBlocksStart>>
    BY <1>5 DEF ReadFragmentTable
  <2>1. ASSUME NEW f \in BOOLEAN, Corrupted(f),
               \/ f
               \/ sBlk.fragments = 0 /\ sBlk.fragment_table_start # tableStart
               \/ /\ sBlk.fragments # 0
                  /\ \/ sBlk.fragment_table_start >= tableStart
                     \/ sBlk.fragments > sBlk.inodes
                     \/ FragmentIndexBytes(sBlk.fragments)
                          # tableStart - sBlk.fragment_table_start
        PROVE  LayoutInv'
    <3>1. f \/ ~FragOK
      BY <2>0, <2>1, <1>b, <1>t DEF FragOK
    <3>2. QED
      BY <2>1, <3>1, CorruptedInv DEF Accepted
  <2>2. ASSUME sBlk.fragments = 0, sBlk.fragment_table_start = tableStart,
               pc' = "table_checks",
               UNCHANGED <<tableStart, fragmentBlocksStart>>
        PROVE  LayoutInv'
    <3>1. FragOK /\ tableStart = FragmentEnd
      BY <2>0, <2>2 DEF FragOK, FragmentEnd
    <3>2. QED
      BY <2>0, <2>u, <2>2, <3>1, ChecksUnchanged
         DEF LayoutInv, LayoutVarsUnchanged
  <2>3. ASSUME sBlk.fragments # 0, sBlk.fragment_table_start < tableStart,
               sBlk.fragments <= sBlk.inodes,
               FragmentIndexBytes(sBlk.fragments)
                 = tableStart - sBlk.fragment_table_start,
               pc' = "fragment_blocks"
        PROVE  LayoutInv'
    <3>1. FragOK
      BY <2>0, <2>3 DEF FragOK
    <3>2. GidOK' /\ UidOK' /\ ExportOK' /\ FragOK'
      BY <2>u, <3>1, <2>0 DEF GidOK, UidOK, ExportOK, FragOK, GidEnd, ExportEnd
    <3>3. QED
      BY <2>u, <2>3, <3>2 DEF LayoutInv
  <2>4. QED
    BY <1>5, <2>1, <2>2, <2>3, Zenon DEF ReadFragmentTable
<1>6. CASE ReadFragmentBlock
  <2>1. CASE Corrupted(TRUE)
    BY <2>1, CorruptedInv
  <2>2. CASE pc' = pc /\ LayoutVarsUnchanged
    BY <1>6, <2>2, ChecksUnchanged DEF ReadFragmentBlock, LayoutInv
  <2>3. QED
    BY <1>6, <2>1, <2>2, Zenon DEF ReadFragmentBlock, LayoutVarsUnchanged
<1>7. CASE FinishFragmentTable
  <2>1. GidOK /\ UidOK /\ ExportOK /\ FragOK /\ sBlk.fragments # 0
    BY <1>7 DEF FinishFragmentTable, LayoutInv
  <2>2. tableStart' = FragmentEnd /\ LayoutVarsUnchanged
    BY <1>7, <2>1 DEF FinishFragmentTable, FragmentEnd, LayoutVarsUnchanged
  <2>3. QED
    BY <1>7, <2>1, <2>2, ChecksUnchanged DEF FinishFragmentTable, LayoutInv
<1>8. CASE CheckTableStarts
  <2>0. tableStart = FragmentEnd /\ GidOK /\ UidOK /\ ExportOK /\ FragOK
    BY <1>8 DEF CheckTableStarts, LayoutInv
  <2>1. ASSUME Corrupted(FALSE),
               \/ sBlk.directory_table_start > tableStart
               \/ sBlk.inode_table_start >= sBlk.directory_table_start
        PROVE  LayoutInv'
    <3>1. ~TablesOK
      BY <2>0, <2>1, <1>b, <1>t DEF TablesOK
    <3>2. QED
      BY <2>1, <3>1, CorruptedInv DEF Accepted
  <2>2. ASSUME sBlk.directory_table_start <= tableStart,
               sBlk.inode_table_start < sBlk.directory_table_start,
               pc' = "loaded", LayoutVarsUnchanged
        PROVE  LayoutInv'
    <3>1. TablesOK
      BY <2>0, <2>2 DEF TablesOK
    <3>2. QED
      BY <2>0, <2>2, <3>1, ChecksUnchanged DEF LayoutInv, Accepted
  <2>3. QED
    BY <1>8, <2>1, <2>2, Zenon DEF CheckTableStarts, LayoutVarsUnchanged
<1>9. CASE UNCHANGED vars
  BY <1>9 DEF vars, LayoutInv, Accepted, GidOK, UidOK, ExportOK, FragOK,
              TablesOK, GidEnd, ExportEnd, FragmentEnd
<1>10. QED
  BY <1>1, <1>2, <1>3, <1>4, <1>5, <1>6, <1>7, <1>8, <1>9 DEF Next

(* TypeOK and LayoutInv together hold in every reachable state.          *)
THEOREM LayoutInvariant == Spec => [](TypeOK /\ LayoutInv)
<1>1. Init => LayoutInv
  BY DEF Init, LayoutInv
<1>2. TypeOK /\ LayoutInv /\ [Next]_vars => LayoutInv'
  BY LayoutStep, TypeSplit
<1>3. QED
  BY <1>1, <1>2, TypeCorrect, PTL DEF Spec

(* The conjunction of the checks is the design's acceptance condition.   *)
LEMMA AcceptedIsLayoutAccepted == Accepted <=> LayoutAccepted
BY DEF Accepted, LayoutAccepted, GidOK, UidOK, ExportOK, FragOK, TablesOK

(* PROPERTY LoadIffLayoutAccepted, for every value of the constants:     *)
(* without an I/O error, read_filesystem_tables succeeds exactly when the *)
(* superblock and index entries satisfy the acceptance conditions.        *)
THEOREM LoadIffLayoutAcceptedTheorem == Spec => []LoadIffLayoutAccepted
<1>1. LayoutInv => LoadIffLayoutAccepted
  BY AcceptedIsLayoutAccepted DEF LayoutInv, LoadIffLayoutAccepted
<1>2. QED
  BY <1>1, LayoutInvariant, PTL

(* Accepted checks, with index entries that point back, put the regions  *)
(* in back-to-front order.                                                *)
LEMMA AcceptedInOrder ==
    ASSUME TypeRest, Accepted, IndexesPointBack
    PROVE  RegionsInOrder
<1>b. /\ sBlk.guid_start \in Nat /\ sBlk.bytes_used \in Nat
      /\ sBlk.uid_start \in Nat /\ sBlk.fragments \in Nat
      /\ sBlk.lookup_table_start \in Int
      /\ sBlk.fragment_table_start \in Nat
      /\ sBlk.directory_table_start \in Nat
      /\ sBlk.inode_table_start \in Nat
      /\ exportBlocksStart \in Nat /\ fragmentBlocksStart \in Nat
  BY SuperblockFields DEF TypeRest
<1>1. GidEnd <= sBlk.bytes_used /\ sBlk.uid_start < GidEnd
  BY <1>b DEF Accepted, GidOK, UidOK, GidEnd
<1>2. ExportEnd <= AfterFragmentIndex
  BY <1>b DEF Accepted, IndexesPointBack, ExportEnd, AfterFragmentIndex
<1>c. /\ ExportEnd \in Int /\ FragmentEnd \in Int
      /\ AfterFragmentIndex \in Int /\ AfterDirectoryTable \in Int
  BY <1>b DEF ExportEnd, FragmentEnd, AfterFragmentIndex, AfterDirectoryTable
<1>3. sBlk.fragments # 0 => sBlk.fragment_table_start < AfterFragmentIndex
  <2>1. sBlk.fragments # 0 => sBlk.fragment_table_start < ExportEnd
    BY DEF Accepted, FragOK
  <2>2. QED
    BY <1>b, <1>c, <1>2, <2>1
<1>4. FragmentEnd <= AfterDirectoryTable
  <2>1. CASE sBlk.fragments = 0
    <3>1. FragmentEnd = ExportEnd /\ AfterDirectoryTable = AfterFragmentIndex
      BY <2>1 DEF FragmentEnd, AfterDirectoryTable, AfterFragmentIndex
    <3>2. QED
      BY <1>2, <1>c, <3>1
  <2>2. CASE sBlk.fragments # 0
    <3>1. FragmentEnd = fragmentBlocksStart
          /\ AfterDirectoryTable = sBlk.fragment_table_start
      BY <2>2 DEF FragmentEnd, AfterDirectoryTable
    <3>2. QED
      BY <1>b, <2>2, <3>1 DEF IndexesPointBack
  <2>3. QED
    BY <2>1, <2>2
<1>5. QED
  <2>1. /\ sBlk.inode_table_start < sBlk.directory_table_start
        /\ sBlk.directory_table_start <= FragmentEnd
        /\ sBlk.lookup_table_start # SQUASHFS_INVALID_BLK
              => sBlk.lookup_table_start < sBlk.uid_start
    BY DEF Accepted, ExportOK, TablesOK
  <2>2. sBlk.directory_table_start <= AfterDirectoryTable
    BY <1>b, <1>c, <1>4, <2>1
  <2>3. QED
    BY <1>1, <1>3, <2>1, <2>2 DEF RegionsInOrder

(* PROPERTY LoadedRegionsInOrder, for every value of the constants: a    *)
(* successful read_filesystem_tables leaves the regions back to front     *)
(* whenever the two index entries point back below their index.          *)
THEOREM LoadedRegionsInOrderTheorem == Spec => []LoadedRegionsInOrder
<1>1. TypeOK /\ LayoutInv => LoadedRegionsInOrder
  BY AcceptedInOrder, TypeSplit DEF LayoutInv, LoadedRegionsInOrder
<1>2. QED
  BY <1>1, LayoutInvariant, PTL
-----------------------------------------------------------------------------
(* Integer division is determined by a quotient and a remainder in range. *)
LEMMA DivUnique ==
    ASSUME NEW x \in Int, NEW d \in Nat \ {0}, NEW a \in Int, NEW r \in 0 .. d - 1,
           x = a * d + r
    PROVE  x \div d = a /\ x % d = r
BY SMT

(* The arithmetic of read_fragment_table's block loop: block b of the    *)
(* index of n entries of F bytes, in blocks of M = E * F bytes, with the  *)
(* length read_block may return for it, writes only entries below n.      *)
LEMMA BlockFits ==
    ASSUME NEW F \in Nat \ {0}, NEW E \in Nat \ {0}, NEW n \in Nat,
           NEW b \in Nat, NEW len \in 1 .. E * F,
           b < (n * F + E * F - 1) \div (E * F),
           b + 1 # (n * F + E * F - 1) \div (E * F) => len = E * F,
           b + 1 = (n * F + E * F - 1) \div (E * F) =>
              ((n * F) % (E * F) = 0 \/ len = (n * F) % (E * F))
    PROVE  b * E + len \div F <= n
<1> DEFINE M == E * F
           q == n \div E
           s == n % E
           idx == (n * F + M - 1) \div M
<1>0. /\ b < idx
      /\ b + 1 # idx => len = M
      /\ b + 1 = idx => ((n * F) % M = 0 \/ len = (n * F) % M)
      /\ len \in 1 .. M
  OBVIOUS
<1>1. M \in Nat \ {0} /\ q \in Nat /\ s \in 0 .. E - 1 /\ n = q * E + s
      /\ M = E * F
  BY SMT
<1> HIDE DEF M, q, s, idx
<1>2. n * F = q * M + s * F /\ s * F \in 0 .. M - 1
  <2>1. n * F = (q * E) * F + s * F
    BY <1>1, SMT
  <2>2. (q * E) * F = q * M
    BY <1>1, SMT
  <2>3. s * F <= (E - 1) * F /\ (E - 1) * F = M - F
    BY <1>1, SMT
  <2>4. QED
    BY <1>1, <2>1, <2>2, <2>3, SMT
<1>3. (n * F) % M = s * F
  <2>1. n * F \in Int
    BY SMT
  <2>2. M \in Nat \ {0}
    BY <1>1
  <2>3. q \in Int
    BY <1>1
  <2>4. s * F \in 0 .. M - 1
    BY <1>2
  <2>5. n * F = q * M + s * F
    BY <1>2
  <2>6. (n * F) \div M = q /\ (n * F) % M = s * F
    BY <2>1, <2>2, <2>3, <2>4, <2>5, DivUnique, ZenonT(60)
  <2>7. QED
    BY <2>6
<1>4. len \div F <= E
  <2>1. len <= E * F
    BY <1>0, <1>1, SMT
  <2>2. QED
    BY <1>1, <2>1, SMT
<1>5. CASE s = 0
  <2>1. n * F + M - 1 = q * M + (M - 1)
    BY <1>1, <1>2, <1>5, SMT
  <2>2. idx = q
    <3>1. M - 1 \in 0 .. M - 1 /\ n * F + M - 1 \in Int
      BY <1>1, SMT
    <3>2. QED
      BY <1>1, <2>1, <3>1, DivUnique DEF idx
  <2>3. CASE b + 1 # idx
    <3>1. len = M /\ b + 1 <= q - 1
      BY <1>0, <1>1, <2>2, <2>3, SMT
    <3>2. len \div F = E
      BY <1>1, <3>1, SMT
    <3>3. (b + 1) * E <= q * E
      BY <1>1, <3>1, SMT
    <3>4. QED
      BY <1>1, <1>5, <3>2, <3>3, SMT
  <2>4. CASE b + 1 = idx
    <3>1. b * E + E = q * E
      BY <1>1, <2>2, <2>4, SMT
    <3>2. QED
      BY <1>1, <1>4, <1>5, <3>1, SMT
  <2>5. QED
    BY <2>3, <2>4
<1>6. CASE s # 0
  <2>1. n * F + M - 1 = (q + 1) * M + (s * F - 1) /\ s * F - 1 \in 0 .. M - 1
    <3>1. s * F >= 1
      BY <1>1, <1>6, SMT
    <3>2. (q + 1) * M = q * M + M
      BY <1>1, SMT
    <3>3. QED
      BY <1>1, <1>2, <3>1, <3>2, SMT
  <2>2. idx = q + 1
    <3>1. q + 1 \in Int /\ n * F + M - 1 \in Int
      BY <1>1, SMT
    <3>2. QED
      BY <1>1, <2>1, <3>1, DivUnique DEF idx
  <2>3. CASE b + 1 # idx
    <3>1. len = M /\ b + 1 <= q
      BY <1>0, <1>1, <2>2, <2>3, SMT
    <3>2. len \div F = E
      BY <1>1, <3>1, SMT
    <3>3. (b + 1) * E <= q * E
      BY <1>1, <3>1, SMT
    <3>4. QED
      BY <1>1, <3>2, <3>3, SMT
  <2>4. CASE b + 1 = idx
    <3>1. b = q /\ s * F # 0
      BY <1>0, <1>1, <1>6, <2>2, <2>4, SMT
    <3>2. len = s * F
      BY <1>0, <1>3, <2>4, <3>1
    <3>3. len \div F = s
      BY <1>1, <3>2, SMT
    <3>4. QED
      BY <1>1, <3>1, <3>3, SMT
  <2>5. QED
    BY <2>3, <2>4
<1>7. QED
  BY <1>5, <1>6
-----------------------------------------------------------------------------
(* The strengthening of FragmentReadsInBounds that is inductive: before   *)
(* the superblock is read, no fragment entry has been written (the bound  *)
(* sBlk.fragments is only set by read_super_3).                           *)
FragInv ==
    /\ FragmentReadsInBounds
    /\ pc = "super" => fragWritten = {}

(* The geometry the block loop is written in: a metadata block holds a    *)
(* whole number of fragment entries.                                      *)
LEMMA EntriesGeometry ==
    /\ EntriesPerBlock \in Nat \ {0}
    /\ METADATA_SIZE = EntriesPerBlock * FRAGMENT_ENTRY_SIZE
<1>1. /\ METADATA_SIZE \in Nat \ {0} /\ FRAGMENT_ENTRY_SIZE \in Nat \ {0}
      /\ METADATA_SIZE % FRAGMENT_ENTRY_SIZE = 0
  BY SizesAssumption
<1>2. METADATA_SIZE = EntriesPerBlock * FRAGMENT_ENTRY_SIZE
  BY <1>1, SMT DEF EntriesPerBlock
<1>3. EntriesPerBlock \in Nat
  BY <1>1, SMT DEF EntriesPerBlock
<1>4. EntriesPerBlock # 0
  BY <1>1, <1>2, SMT
<1>5. QED
  BY <1>2, <1>3, <1>4

(* One turn of read_fragment_table's block loop writes only entries below *)
(* sBlk.s.fragments, the last block at an exact multiple included.        *)
LEMMA BlockStep ==
    ASSUME TypeRest, FragmentReadsInBounds, ReadFragmentBlock
    PROVE  FragmentReadsInBounds'
<1> DEFINE n == sBlk.fragments
           E == EntriesPerBlock
           F == FRAGMENT_ENTRY_SIZE
           M == METADATA_SIZE
<1>1. n \in Nat /\ blk \in Nat /\ sBlk' = sBlk /\ pc = "fragment_blocks"
      /\ fragWritten \subseteq 0 .. n - 1
  BY SuperblockFields DEF TypeRest, ReadFragmentBlock, FragmentReadsInBounds
<1>2. E \in Nat \ {0} /\ M = E * F /\ F \in Nat \ {0}
  BY EntriesGeometry, SizesAssumption
<1>3. blk < (n * F + M - 1) \div M
  BY DEF ReadFragmentBlock, FragmentIndexes, CeilDiv, FragmentBytes
<1>4. CASE pc' = "corrupt"
  <2>1. fragWritten' = fragWritten
    BY <1>1, <1>4 DEF ReadFragmentBlock, Corrupted
  <2>2. QED
    BY <1>1, <2>1 DEF FragmentReadsInBounds
<1>5. CASE pc' # "corrupt"
  <2>1. PICK len \in ReadBlockLengths(BlockExpected(blk, n)) :
          fragWritten' = fragWritten \cup
             {blk * E + k : k \in 0 .. (len \div F) - 1}
    BY <1>5, Zenon DEF ReadFragmentBlock, Corrupted
  <2>2. /\ len \in 1 .. M
        /\ blk + 1 # (n * F + M - 1) \div M => len = M
        /\ blk + 1 = (n * F + M - 1) \div M =>
              ((n * F) % M = 0 \/ len = (n * F) % M)
    BY <2>1, <1>2 DEF ReadBlockLengths, BlockExpected, FragmentIndexes,
                      CeilDiv, FragmentBytes
  <2> HIDE DEF n, E, F, M
  <2>3. /\ len \in 1 .. E * F
        /\ blk < (n * F + E * F - 1) \div (E * F)
        /\ blk + 1 # (n * F + E * F - 1) \div (E * F) => len = E * F
        /\ blk + 1 = (n * F + E * F - 1) \div (E * F) =>
              ((n * F) % (E * F) = 0 \/ len = (n * F) % (E * F))
    BY <1>2, <1>3, <2>2
  <2>7. blk * E + len \div F <= n
    BY <1>1, <1>2, <2>3, BlockFits, Zenon
  <2>8. blk * E \in Nat /\ len \div F \in Nat
    BY <1>1, <1>2, <2>3, SMT
  <2>4. \A k \in 0 .. (len \div F) - 1 : blk * E + k \in 0 .. n - 1
    BY <1>1, <2>7, <2>8, SMT
  <2>5. {blk * E + k : k \in 0 .. (len \div F) - 1} \subseteq 0 .. n - 1
    BY <2>4
  <2>6. fragWritten' \subseteq 0 .. n - 1
    BY <1>1, <2>1, <2>5, Zenon
  <2>9. QED
    BY <1>1, <2>6 DEF FragmentReadsInBounds, n
<1>6. QED
  BY <1>4, <1>5

(* Every step of the loader keeps FragInv.                                *)
LEMMA FragStep == TypeRest /\ FragInv /\ [Next]_vars => FragInv'
<1> SUFFICES ASSUME TypeRest, FragInv, [Next]_vars PROVE FragInv'
  OBVIOUS
<1>1. CASE ReadSuper
  <2>1. fragWritten = {} /\ fragWritten' = fragWritten /\ pc' # "super"
    BY <1>1 DEF ReadSuper, FragInv
  <2>2. QED
    BY <2>1 DEF FragInv, FragmentReadsInBounds
<1>2. CASE ReadFragmentBlock
  <2>1. pc' # "super"
    BY <1>2 DEF ReadFragmentBlock, Corrupted
  <2>2. QED
    BY <1>2, <2>1, BlockStep DEF FragInv
<1>3. CASE ReadFragmentTable
  <2>1. pc' # "super" /\ sBlk' = sBlk
        /\ (fragWritten' = fragWritten \/ fragWritten' = {})
    BY <1>3 DEF ReadFragmentTable, Corrupted
  <2>2. fragWritten' \subseteq fragWritten \/ fragWritten' = {}
    BY <2>1
  <2>3. fragWritten \subseteq 0 .. sBlk.fragments - 1
    BY DEF FragInv, FragmentReadsInBounds
  <2>4. fragWritten' \subseteq 0 .. sBlk'.fragments - 1
    BY <2>1, <2>2, <2>3, Zenon
  <2>5. QED
    BY <2>1, <2>4 DEF FragInv, FragmentReadsInBounds
<1>4. CASE ReadGidTable \/ ReadUidTable \/ ReadExportTable
           \/ FinishFragmentTable \/ CheckTableStarts
  <2>1. pc' # "super" /\ sBlk' = sBlk /\ fragWritten' = fragWritten
    BY <1>4 DEF ReadGidTable, ReadUidTable, ReadExportTable,
                FinishFragmentTable, CheckTableStarts, Corrupted
  <2>2. QED
    BY <2>1 DEF FragInv, FragmentReadsInBounds
<1>5. CASE UNCHANGED vars
  BY <1>5 DEF vars, FragInv, FragmentReadsInBounds
<1>6. QED
  BY <1>1, <1>2, <1>3, <1>4, <1>5 DEF Next

(* PROPERTY FragmentReadsInBounds, for every value of the constants: no   *)
(* block of read_fragment_table writes past the fragment_table buffer of  *)
(* sBlk.s.fragments entries, whatever length read_block returns for it.   *)
THEOREM FragmentReadsInBoundsTheorem == Spec => []FragmentReadsInBounds
<1>1. Init => FragInv
  BY DEF Init, FragInv, FragmentReadsInBounds
<1>2. TypeOK /\ FragInv /\ [Next]_vars => FragInv'
  BY FragStep, TypeSplit
<1>3. FragInv => FragmentReadsInBounds
  BY DEF FragInv
<1>4. QED
  BY <1>1, <1>2, <1>3, TypeCorrect, PTL DEF Spec
-----------------------------------------------------------------------------
(* What salloc_index_table leaves after a request for no indexes: the    *)
(* length == 0 clause of its grow test frees the buffer whatever it held. *)
LEMMA IndexTableReleased ==
    ASSUME NEW a \in Nat
    PROVE  IndexTableSize(a, 0) = 0
BY SizesAssumption DEF IndexTableSize

(* The inductive form of ScratchReleased: before the superblock is read,  *)
(* neither scratch buffer is allocated.                                   *)
ScratchInv ==
    /\ ScratchReleased
    /\ pc = "super" => allocSize = 0 /\ sallocSize = 0

(* A step into corrupted: releases both buffers and keeps ScratchInv.     *)
LEMMA CorruptedScratch ==
    ASSUME TypeRest, Corrupted(TRUE) \/ Corrupted(FALSE)
    PROVE  ScratchInv'
<1>1. pc' = "corrupt" /\ allocSize' = 0 /\ sallocSize' = 0
  <2>1. allocSize \in Nat /\ sallocSize \in Nat
    BY DEF TypeRest
  <2>2. QED
    BY <2>1, IndexTableReleased DEF Corrupted
<1>2. QED
  BY <1>1 DEF ScratchInv, ScratchReleased, Finished

(* A step to a phase where loading has neither begun nor ended keeps      *)
(* ScratchInv whatever it does to the buffers.                            *)
LEMMA MidPhaseScratch ==
    ASSUME pc' \in {"gids", "uids", "exports", "fragments",
                    "fragment_blocks", "table_checks"}
    PROVE  ScratchInv'
BY DEF ScratchInv, ScratchReleased, Finished

(* Every step of the loader keeps ScratchInv.                             *)
LEMMA ScratchStep == TypeRest /\ TypeBools /\ ScratchInv /\ [Next]_vars => ScratchInv'
<1> SUFFICES ASSUME TypeRest, TypeBools, ScratchInv, [Next]_vars PROVE ScratchInv'
  OBVIOUS
<1>n. allocSize \in Nat /\ sallocSize \in Nat
  BY DEF TypeRest
<1>1. CASE ReadSuper
  <2>1. allocSize = 0 /\ sallocSize = 0
    BY <1>1 DEF ReadSuper, ScratchInv
  <2>2. /\ pc' \in {"read_failed", "gids", "not_squashfs3"}
        /\ UNCHANGED <<allocSize, sallocSize>>
    BY <1>1, Zenon DEF ReadSuper
  <2>3. QED
    BY <2>1, <2>2 DEF ScratchInv, ScratchReleased, Finished
<1>2. CASE ReadGidTable \/ ReadUidTable \/ ReadExportTable
           \/ ReadFragmentTable \/ ReadFragmentBlock
  <2>1. CASE pc' = "corrupt"
    <3>1. Corrupted(TRUE) \/ Corrupted(FALSE)
      BY <1>2, <2>1, Zenon DEF ReadGidTable, ReadUidTable, ReadExportTable,
                               ReadFragmentTable, ReadFragmentBlock
    <3>2. QED
      BY <3>1, CorruptedScratch, Zenon
  <2>2. CASE pc' # "corrupt"
    <3>1. pc' \in {"uids", "exports", "fragments", "fragment_blocks",
                   "table_checks"}
      BY <1>2, <2>2 DEF ReadGidTable, ReadUidTable, ReadExportTable,
                        ReadFragmentTable, ReadFragmentBlock, Corrupted
    <3>2. QED
      BY <3>1, MidPhaseScratch
  <2>3. QED
    BY <2>1, <2>2
<1>3. CASE FinishFragmentTable
  <2>1. pc' = "table_checks"
    BY <1>3 DEF FinishFragmentTable
  <2>2. QED
    BY <2>1, MidPhaseScratch
<1>4. CASE CheckTableStarts
  <2>1. CASE pc' = "corrupt"
    <3>1. Corrupted(TRUE) \/ Corrupted(FALSE)
      BY <1>4, <2>1, Zenon DEF CheckTableStarts
    <3>2. QED
      BY <3>1, CorruptedScratch, Zenon
  <2>2. CASE pc' # "corrupt"
    <3>1. pc' = "loaded" /\ allocSize' = 0 /\ sallocSize' = 0
      BY <1>4, <2>2, <1>n, IndexTableReleased DEF CheckTableStarts, Corrupted
    <3>2. QED
      BY <3>1 DEF ScratchInv, ScratchReleased, Finished
  <2>3. QED
    BY <2>1, <2>2
<1>5. CASE UNCHANGED vars
  BY <1>5 DEF vars, ScratchInv, ScratchReleased
<1>6. QED
  BY <1>1, <1>2, <1>3, <1>4, <1>5 DEF Next

(* PROPERTY ScratchReleased, for every value of the constants: every exit *)
(* of read_super_3 and read_filesystem_tables, the corrupted: label after *)
(* a partial read included, leaves both scratch buffers released.         *)
THEOREM ScratchReleasedTheorem == Spec => []ScratchReleased
<1>1. Init => ScratchInv
  BY DEF Init, ScratchInv, ScratchReleased, Finished
<1>2. TypeOK /\ ScratchInv /\ [Next]_vars => ScratchInv'
  BY ScratchStep, TypeSplit
<1>3. ScratchInv => ScratchReleased
  BY DEF ScratchInv
<1>4. QED
  BY <1>1, <1>2, <1>3, TypeCorrect, PTL DEF Spec
=============================================================================
