------------------------ MODULE Unsquash3InodeProofs ------------------------
(***************************************************************************)
(* Proofs about Unsquash3Inode, for every value of the constants that     *)
(* satisfies InodeAssumption and WidthsAssumption: the static inode keeps *)
(* its type, and a regular file inode's block count and tail are always   *)
(* the ones section 8 of the design specifies.                            *)
(***************************************************************************)
EXTENDS Unsquash3Inode, TLAPS

(* A quotient by a positive divisor is below h when the dividend is      *)
(* below divisor * h.                                                     *)
LEMMA DivBelow ==
    ASSUME NEW x \in Nat, NEW b \in Nat \ {0}, NEW h \in Nat, x < b * h
    PROVE  x \div b \in 0 .. h - 1
<1>1. x \div b \in Nat
  BY SMT
<1>2. (x \div b) * b <= x
  BY SMT
<1>3. x \div b < h
  <2>1. SUFFICES ASSUME x \div b >= h PROVE FALSE
    BY <1>1, SMT
  <2>2. (x \div b) * b >= h * b
    BY <1>1, <2>1, SMT
  <2>3. QED
    BY <1>2, <2>2, SMT
<1>4. QED
  BY <1>1, <1>3, SMT

(* Conversion to int keeps every value of the int range's upper half.    *)
LEMMA ToIntKeeps ==
    ASSUME NEW x \in 0 .. INT_HALF - 1
    PROVE  ToSigned(x, INT_BITS) = x
<1>1. INT_HALF \in Nat \ {0}
  BY WidthsAssumption
<1>2. (x + INT_HALF) % (2 * INT_HALF) = x + INT_HALF
  BY <1>1, SMT
<1>3. ToSigned(x, INT_BITS) = ((x + INT_HALF) % (2 * INT_HALF)) - INT_HALF
  BY DEF ToSigned, INT_HALF
<1>4. QED
  BY <1>1, <1>2, <1>3, SMT

(* What RegExtent computes, for every 32-bit file_size and fragment.     *)
LEMMA RegExtentDesigned ==
    ASSUME NEW size \in RegSizes, NEW frag
    PROVE  LET e == RegExtent(size, frag) IN
             /\ e.data = size
             /\ e.blocks = IF frag = SQUASHFS_INVALID_FRAG
                             THEN (size + BLOCK_SIZE - 1) \div BLOCK_SIZE
                             ELSE size \div BLOCK_SIZE
             /\ e.frag_bytes = IF frag = SQUASHFS_INVALID_FRAG THEN 0
                               ELSE size % BLOCK_SIZE
<1> DEFINE bs == BLOCK_SIZE
<1>1. /\ bs \in Nat \ {0}
      /\ INT_HALF \in Nat \ {0}
      /\ bs <= INT_HALF
      /\ size \in Nat
      /\ size + bs - 1 < bs * INT_HALF
  BY WidthsAssumption, SMT DEF RegSizes
<1>2. (size + bs - 1) \div bs \in 0 .. INT_HALF - 1
  <2>1. size + bs - 1 \in Nat
    BY <1>1, SMT
  <2>2. QED
    BY <1>1, <2>1, DivBelow, Zenon
<1>3. size \div bs \in 0 .. INT_HALF - 1
  <2>1. size < bs * INT_HALF
    BY <1>1, SMT
  <2>2. QED
    BY <1>1, <2>1, DivBelow, Zenon
<1>4. size % bs \in 0 .. INT_HALF - 1
  BY <1>1, SMT
<1>5. CRem(size, bs) = size % bs
  BY <1>1, SMT DEF CRem
<1>6. /\ ShiftRight(size + bs - 1, BLOCK_LOG) = (size + bs - 1) \div bs
      /\ ShiftRight(size, BLOCK_LOG) = size \div bs
  BY DEF ShiftRight, BLOCK_SIZE
<1>7. QED
  BY <1>2, <1>3, <1>4, <1>5, <1>6, ToIntKeeps DEF RegExtent, FileExtent

(* A conversion to a signed type yields an integer.                      *)
LEMMA ToSignedInt ==
    ASSUME NEW x \in Int, NEW w \in Int, 2^(w - 1) \in Nat \ {0}
    PROVE  ToSigned(x, w) \in Int
<1> DEFINE h == 2^(w - 1)
<1>1. ToSigned(x, w) = ((x + h) % (2 * h)) - h
  BY DEF ToSigned
<1>2. QED
  BY <1>1, SMT

(* Every field read_inode computes for a file is an integer.             *)
LEMMA FileExtentInt ==
    ASSUME NEW size \in Int, NEW sum \in Int, NEW frag
    PROVE  /\ FileExtent(size, sum, frag).data \in Int
           /\ FileExtent(size, sum, frag).frag_bytes \in Int
           /\ FileExtent(size, sum, frag).blocks \in Int
<1>1. /\ BLOCK_SIZE \in Nat \ {0}
      /\ 2^(INT_BITS - 1) \in Nat \ {0}
      /\ INT_BITS \in Int
  BY WidthsAssumption, InodeAssumption DEF INT_HALF
<1>2. CRem(size, BLOCK_SIZE) \in Int
  BY <1>1, SMT DEF CRem
<1>3. /\ ShiftRight(sum, BLOCK_LOG) \in Int
      /\ ShiftRight(size, BLOCK_LOG) \in Int
  BY <1>1, SMT DEF ShiftRight, BLOCK_SIZE
<1>4. /\ ToSigned(CRem(size, BLOCK_SIZE), INT_BITS) \in Int
      /\ ToSigned(ShiftRight(sum, BLOCK_LOG), INT_BITS) \in Int
      /\ ToSigned(ShiftRight(size, BLOCK_LOG), INT_BITS) \in Int
  BY <1>1, <1>2, <1>3, ToSignedInt
<1>5. QED
  BY <1>4 DEF FileExtent

(* The sums of the two file types are integers.                          *)
LEMMA SumsInt ==
    ASSUME NEW size \in Int
    PROVE  /\ size + BLOCK_SIZE - 1 \in Int
           /\ ToSigned(size + BLOCK_SIZE - 1, LLONG_BITS) \in Int
<1>1. /\ BLOCK_SIZE \in Nat \ {0}
      /\ 2^(LLONG_BITS - 1) \in Nat \ {0}
      /\ LLONG_BITS \in Int
  BY WidthsAssumption, InodeAssumption
<1>2. size + BLOCK_SIZE - 1 \in Int
  BY <1>1, SMT
<1>3. QED
  BY <1>1, <1>2, ToSignedInt

(* The common fields of a valid base header keep the record well typed.  *)
LEMMA WithBaseType ==
    ASSUME TypeOK,
           NEW uid \in IdFields, NEW guid \in IdFields,
           NEW type \in TypeFields, NEW num \in InodeNumbers
    PROVE  /\ WithBase(uid, guid, type, num) \in InodeRecords
           /\ WithBase(uid, guid, type, num).type = type
<1>1. uid \in Nat /\ guid \in Nat /\ type \in Nat /\ num \in Nat
  BY InodeAssumption
<1>2. 2 * uid \in Int /\ 2 * guid + 1 \in Int /\ type \in Int /\ num \in Int
  BY <1>1, SMT
<1>3. QED
  BY <1>2 DEF TypeOK, WithBase, InodeRecords, Fields

Inv == TypeOK /\ RegExtentAsDesigned

(* A record that EXCEPT updates keeps its type when the values are ints. *)
LEMMA DecodeKeepsType ==
    ASSUME NEW ci \in InodeRecords, NEW type \in Int, ci.type = type,
           DecodeTypeHeader(ci, type)
    PROVE  /\ i' \in InodeRecords
           /\ fresh' \subseteq Fields
           /\ i'.type = type
           /\ type = SQUASHFS_FILE_TYPE => ExtentAsDesigned'
<1>1. CommonFields \subseteq Fields /\ FileFields \subseteq Fields
  BY DEF CommonFields, FileFields, Fields
<1>2. CASE type \in {SQUASHFS_DIR_TYPE, SQUASHFS_LDIR_TYPE} /\ DecodeDirInode(ci)
  <2>1. PICK size \in DirSizes, start \in Locs, off \in Offs :
          i' = [ci EXCEPT !.data = size, !.offset = off, !.start = start]
    BY <1>2 DEF DecodeDirInode
  <2>2. size \in Int /\ start \in Int /\ off \in Int
    BY InodeAssumption
  <2>3. type # SQUASHFS_FILE_TYPE
    BY <1>2 DEF SQUASHFS_DIR_TYPE, SQUASHFS_LDIR_TYPE, SQUASHFS_FILE_TYPE
  <2>4. QED
    BY <1>1, <1>2, <2>1, <2>2, <2>3 DEF DecodeDirInode, InodeRecords, Fields
<1>3. CASE type = SQUASHFS_FILE_TYPE /\ DecodeRegInode(ci)
  <2>1. PICK size \in RegSizes, frag \in FragmentFields, start \in Locs,
             off \in Offs :
          DecodeFile(ci, RegExtent(size, frag), frag, start, off)
    BY <1>3 DEF DecodeRegInode
  <2> DEFINE e == RegExtent(size, frag)
  <2>2. size \in Nat /\ frag \in Int /\ start \in Int /\ off \in Int
    BY InodeAssumption, SMT DEF RegSizes
  <2>3. e.data \in Int /\ e.frag_bytes \in Int /\ e.blocks \in Int
    BY <2>2, SumsInt, FileExtentInt DEF RegExtent
  <2>4. i' = [ci EXCEPT !.data = e.data, !.frag_bytes = e.frag_bytes,
                        !.fragment = frag, !.offset = off,
                        !.blocks = e.blocks, !.start = start, !.sparse = 1]
    BY <2>1 DEF DecodeFile
  <2>5. /\ i' \in InodeRecords
        /\ i'.type = type
        /\ i'.data = e.data /\ i'.blocks = e.blocks
        /\ i'.frag_bytes = e.frag_bytes /\ i'.fragment = frag
    <3>0. 1 \in Int
      OBVIOUS
    <3>1. i' \in InodeRecords
      BY <3>0, <2>3, <2>2, <2>4, Zenon DEF InodeRecords, Fields
    <3>2. QED
      BY <3>1, <2>4, Zenon DEF InodeRecords, Fields
  <2>6. ExtentAsDesigned'
    BY <2>2, <2>5, RegExtentDesigned DEF ExtentAsDesigned
  <2>7. QED
    BY <1>1, <2>1, <2>5, <2>6 DEF DecodeFile
<1>4. CASE type = SQUASHFS_LREG_TYPE /\ DecodeLregInode(ci)
  <2>1. PICK size \in LregSizeFields, frag \in FragmentFields, start \in Locs,
             off \in Offs :
          DecodeFile(ci, LregExtent(size, frag), frag, start, off)
    BY <1>4 DEF DecodeLregInode
  <2> DEFINE e == LregExtent(size, frag)
  <2>2. size \in Int /\ frag \in Int /\ start \in Int /\ off \in Int
    BY InodeAssumption, SMT
  <2>3. e.data \in Int /\ e.frag_bytes \in Int /\ e.blocks \in Int
    BY <2>2, SumsInt, FileExtentInt DEF LregExtent
  <2>4. i' \in InodeRecords /\ i'.type = type
    <3>0. 1 \in Int
      OBVIOUS
    <3>1. QED
      BY <3>0, <2>1, <2>2, <2>3, Zenon DEF DecodeFile, InodeRecords, Fields
  <2>5. type # SQUASHFS_FILE_TYPE
    BY <1>4 DEF SQUASHFS_LREG_TYPE, SQUASHFS_FILE_TYPE
  <2>6. QED
    BY <1>1, <2>1, <2>4, <2>5 DEF DecodeFile
<1>5. CASE type = SQUASHFS_SYMLINK_TYPE /\ DecodeSymlinkInode(ci)
  <2>1. PICK size \in SymlinkSizes : i' = [ci EXCEPT !.symlink = size, !.data = size]
    BY <1>5 DEF DecodeSymlinkInode
  <2>2. size \in Int
    BY InodeAssumption
  <2>3. type # SQUASHFS_FILE_TYPE
    BY <1>5 DEF SQUASHFS_SYMLINK_TYPE, SQUASHFS_FILE_TYPE
  <2>4. QED
    BY <1>1, <1>5, <2>1, <2>2, <2>3 DEF DecodeSymlinkInode, InodeRecords, Fields
<1>6. CASE type \in {SQUASHFS_BLKDEV_TYPE, SQUASHFS_CHRDEV_TYPE} /\ DecodeDevInode(ci)
  <2>1. PICK rdev \in Rdevs : i' = [ci EXCEPT !.data = rdev]
    BY <1>6 DEF DecodeDevInode
  <2>2. rdev \in Int
    BY InodeAssumption
  <2>3. type # SQUASHFS_FILE_TYPE
    BY <1>6 DEF SQUASHFS_BLKDEV_TYPE, SQUASHFS_CHRDEV_TYPE, SQUASHFS_FILE_TYPE
  <2>4. QED
    BY <1>1, <1>6, <2>1, <2>2, <2>3 DEF DecodeDevInode, InodeRecords, Fields
<1>7. CASE type \in {SQUASHFS_FIFO_TYPE, SQUASHFS_SOCKET_TYPE} /\ DecodeIpcInode(ci)
  <2>1. type # SQUASHFS_FILE_TYPE
    BY <1>7 DEF SQUASHFS_FIFO_TYPE, SQUASHFS_SOCKET_TYPE, SQUASHFS_FILE_TYPE
  <2>2. QED
    BY <1>1, <1>7, <2>1 DEF DecodeIpcInode, InodeRecords, Fields
<1>8. QED
  BY <1>2, <1>3, <1>4, <1>5, <1>6, <1>7 DEF DecodeTypeHeader

(* A step that leaves the static inode and fresh alone keeps Inv.        *)
LEMMA InodeUnchanged ==
    ASSUME Inv, pc' \in {"ready", "exited"}, UNCHANGED <<i, fresh>>,
           fragRead' \in Int, listRead' \in Int
    PROVE  Inv'
BY DEF Inv, TypeOK, RegExtentAsDesigned, ExtentAsDesigned

(* read_inode keeps Inv: every EXIT leaves the record as it is, and a     *)
(* decoded regular file gets the designed extent.                         *)
LEMMA ReadInodeInv ==
    ASSUME Inv, ReadInode
    PROVE  Inv'
<1>1. NULL \in Int /\ "exited" \in {"ready", "exited"}
  BY DEF NULL
<1>2. CASE Exit
  BY <1>1, <1>2, InodeUnchanged DEF Exit, Inv, TypeOK
<1>3. CASE \E uid, guid \in IdFields, type \in TypeFields, num \in InodeNumbers :
            \/ ~BaseHeaderValid(uid, guid, type, num) /\ Exit
            \/ /\ BaseHeaderValid(uid, guid, type, num)
               /\ type \notin {SQUASHFS_FIFO_TYPE, SQUASHFS_SOCKET_TYPE}
               /\ Exit
            \/ /\ BaseHeaderValid(uid, guid, type, num)
               /\ pc' = "ready"
               /\ fragRead' = NULL
               /\ listRead' = NULL
               /\ DecodeTypeHeader(WithBase(uid, guid, type, num), type)
  <2>1. PICK uid, guid \in IdFields, type \in TypeFields, num \in InodeNumbers :
            \/ ~BaseHeaderValid(uid, guid, type, num) /\ Exit
            \/ /\ BaseHeaderValid(uid, guid, type, num)
               /\ type \notin {SQUASHFS_FIFO_TYPE, SQUASHFS_SOCKET_TYPE}
               /\ Exit
            \/ /\ BaseHeaderValid(uid, guid, type, num)
               /\ pc' = "ready"
               /\ fragRead' = NULL
               /\ listRead' = NULL
               /\ DecodeTypeHeader(WithBase(uid, guid, type, num), type)
    BY <1>3
  <2>2. CASE Exit
    BY <1>1, <2>2, InodeUnchanged DEF Exit, Inv, TypeOK
  <2>3. CASE /\ pc' = "ready"
             /\ fragRead' = NULL
             /\ listRead' = NULL
             /\ DecodeTypeHeader(WithBase(uid, guid, type, num), type)
    <3> DEFINE ci == WithBase(uid, guid, type, num)
    <3>1. ci \in InodeRecords /\ ci.type = type
      BY WithBaseType DEF Inv
    <3>2. type \in Int
      BY InodeAssumption
    <3>3. /\ i' \in InodeRecords
          /\ fresh' \subseteq Fields
          /\ i'.type = type
          /\ type = SQUASHFS_FILE_TYPE => ExtentAsDesigned'
      BY <2>3, <3>1, <3>2, DecodeKeepsType
    <3>4. TypeOK'
      BY <1>1, <2>3, <3>3 DEF TypeOK
    <3>5. RegExtentAsDesigned'
      BY <3>3 DEF RegExtentAsDesigned
    <3>6. QED
      BY <3>4, <3>5 DEF Inv
  <2>4. QED
    BY <2>1, <2>2, <2>3
<1>4. QED
  BY <1>2, <1>3 DEF ReadInode

(* Inv is an inductive invariant of the inode decoder and its readers.   *)
LEMMA InvStep == Inv /\ [INext]_ivars => Inv'
<1> SUFFICES ASSUME Inv, [INext]_ivars PROVE Inv'
  OBVIOUS
<1>1. CASE ReadInode
  BY <1>1, ReadInodeInv
<1>2. CASE ReadFragment
  <2>1. i.fragment \in Int
    BY DEF Inv, TypeOK, InodeRecords, Fields
  <2>2. QED
    BY <1>2, <2>1, InodeUnchanged DEF ReadFragment, Inv, TypeOK
<1>3. CASE ReadBlockList
  <2>1. i.blocks \in Int /\ "exited" \in {"ready", "exited"}
    BY DEF Inv, TypeOK, InodeRecords, Fields
  <2>2. QED
    BY <1>3, <2>1, InodeUnchanged DEF ReadBlockList, Exit, Inv, TypeOK
<1>4. CASE UNCHANGED ivars
  BY <1>4 DEF ivars, Inv, TypeOK, RegExtentAsDesigned, ExtentAsDesigned
<1>5. QED
  BY <1>1, <1>2, <1>3, <1>4 DEF INext

LEMMA InitInv == Init => Inv
<1> SUFFICES ASSUME Init PROVE Inv
  OBVIOUS
<1>1. i \in InodeRecords /\ i.type = 0
  BY DEF Init, InodeRecords, Fields, NULL
<1>2. QED
  BY <1>1 DEF Init, Inv, TypeOK, NULL, RegExtentAsDesigned, SQUASHFS_FILE_TYPE

(* THEOREM (read_inode's static struct inode): every field of the         *)
(* decoder's state keeps its type, whatever the image holds.              *)
THEOREM InodeTypeCorrect == ISpec => []TypeOK
<1>1. Inv => TypeOK
  BY DEF Inv
<1>2. QED
  BY InitInv, InvStep, <1>1, PTL DEF ISpec

(* THEOREM (read_inode, SQUASHFS_FILE_TYPE, section 8 of the design): for *)
(* every block size and every width of the 32-bit file_size that keeps a  *)
(* block count inside an int, the static inode, while it holds a regular  *)
(* file decoded by the last call, holds ceil(size / block_size) blocks    *)
(* and no tail without a fragment, and floor(size / block_size) blocks    *)
(* with size mod block_size tail bytes with one.                          *)
THEOREM RegExtentTheorem == ISpec => []RegExtentAsDesigned
<1>1. Inv => RegExtentAsDesigned
  BY DEF Inv
<1>2. QED
  BY InitInv, InvStep, <1>1, PTL DEF ISpec
=============================================================================
