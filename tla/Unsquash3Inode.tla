--------------------------- MODULE Unsquash3Inode ---------------------------
(***************************************************************************)
(* The inode decoder of unsquash-3.c (read_inode) and the two readers that *)
(* consume the inode it returns (read_fragment, read_block_list).          *)
(*                                                                         *)
(* read_inode decodes into ONE static struct inode and returns a pointer   *)
(* to it, so each call overwrites only the fields its inode type sets and  *)
(* leaves the others as the previous call left them.  The model keeps     *)
(* that record as the variable i, and the set of fields the last call      *)
(* wrote as the history variable fresh.                                    *)
(*                                                                         *)
(* Every header field is untrusted: each call draws it from the CONSTANT   *)
(* set of the values its on-disk field can hold.  Field widths are scaled  *)
(* down and keep their relations: the 32-bit file_size of a regular inode  *)
(* yields a block count that fits an int, the signed 64-bit file_size of   *)
(* an extended regular inode does not.  EXIT_UNSQUASH ends the program:    *)
(* pc becomes "exited".  mode, mtime and xattr are plain copies and are    *)
(* left out.                                                               *)
(***************************************************************************)
EXTENDS Integers

CONSTANTS
    NO_UIDS, NO_GUIDS,     \* sBlk.no_uids, sBlk.no_guids after the load
    INODES, FRAGMENTS,     \* sBlk.s.inodes, sBlk.s.fragments
    BLOCK_LOG,             \* sBlk.s.block_log
    SQUASHFS_GUIDS,        \* guid field value meaning "same as uid"
    SQUASHFS_INVALID_FRAG, \* fragment field value meaning "no fragment"
    IdFields,              \* values of the uid and guid header fields
    TypeFields,            \* values of the inode_type header field
    InodeNumbers,          \* values of the inode_number header field
    FragmentFields,        \* values of the fragment header field
    DirSizes,              \* values of the file_size of a directory inode
    Locs,                  \* values of start_block header fields
    Offs,                  \* values of offset header fields
    LregSizeFields,        \* values of the file_size of an extended regular inode
    SymlinkSizes,          \* values of symlink_size
    Rdevs,                 \* values of rdev
    REG_SIZE_BITS,         \* width of the unsigned file_size of a regular inode
    LLONG_BITS,            \* width of long long
    INT_BITS               \* width of int

ASSUME InodeAssumption ==
    /\ {NO_UIDS, NO_GUIDS, INODES, FRAGMENTS, BLOCK_LOG} \subseteq Nat
    /\ {REG_SIZE_BITS, LLONG_BITS, INT_BITS} \subseteq Nat \ {0}
    /\ IdFields \cup InodeNumbers \cup FragmentFields \cup DirSizes
         \cup Locs \cup Offs \cup SymlinkSizes \cup Rdevs \subseteq Nat
    /\ TypeFields \subseteq Nat
    /\ LregSizeFields \subseteq -(2^(LLONG_BITS - 1)) .. 2^(LLONG_BITS - 1) - 1
    /\ SQUASHFS_GUIDS \in IdFields
    /\ SQUASHFS_INVALID_FRAG \in FragmentFields

(* The caller checks, when it reads the superblock, that block_size is   *)
(* 2^block_log; read_inode uses both.                                     *)
BLOCK_SIZE == 2^BLOCK_LOG

(* The widths relate as in the code, where block_log is at least 12: a    *)
(* block is smaller than the int range, and the block count of the        *)
(* largest 32-bit file_size fits an int.                                  *)
INT_HALF == 2^(INT_BITS - 1)
ASSUME WidthsAssumption ==
    /\ BLOCK_SIZE \in Nat \ {0}
    /\ INT_HALF \in Nat \ {0}
    /\ 2^(LLONG_BITS - 1) \in Nat \ {0}
    /\ BLOCK_SIZE <= INT_HALF
    /\ 2^REG_SIZE_BITS \in Nat \ {0}
    /\ 2^REG_SIZE_BITS + BLOCK_SIZE - 1 < BLOCK_SIZE * INT_HALF

(* Inode type codes (SQUASHFS_*_TYPE).                                     *)
SQUASHFS_DIR_TYPE == 1
SQUASHFS_FILE_TYPE == 2
SQUASHFS_SYMLINK_TYPE == 3
SQUASHFS_BLKDEV_TYPE == 4
SQUASHFS_CHRDEV_TYPE == 5
SQUASHFS_FIFO_TYPE == 6
SQUASHFS_SOCKET_TYPE == 7
SQUASHFS_LDIR_TYPE == 8
SQUASHFS_LREG_TYPE == 9

NULL == -1

(* C integer semantics: conversion to a signed type of w bits (gcc keeps  *)
(* the low w bits), >> of a signed value (an arithmetic shift), and %     *)
(* (the remainder takes the sign of the dividend).                        *)
ToSigned(x, w) == LET h == 2^(w - 1) IN ((x + h) % (2 * h)) - h
ShiftRight(x, k) == x \div 2^k
CRem(a, b) == IF a >= 0 THEN a % b ELSE -((-a) % b)

RegSizes == 0 .. 2^REG_SIZE_BITS - 1
LregSizes == -(2^(LLONG_BITS - 1)) .. 2^(LLONG_BITS - 1) - 1

(* The fields of struct inode that read_inode sets.                        *)
Fields == {"uid", "gid", "type", "inode_number", "data", "start", "offset",
           "fragment", "frag_bytes", "blocks", "symlink", "sparse"}
CommonFields == {"uid", "gid", "type", "inode_number"}

VARIABLES
    pc,        \* "ready", or "exited" after EXIT_UNSQUASH
    i,         \* the static struct inode of read_inode
    fresh,     \* the fields of i written by the last read_inode call
    fragRead,  \* fragment_table index read for the current inode, or NULL
    listRead   \* block count read_block_list read for it, or NULL

ivars == <<pc, i, fresh, fragRead, listRead>>

InodeRecords == [Fields -> Int]

TypeOK ==
    /\ pc \in {"ready", "exited"}
    /\ i \in InodeRecords
    /\ fresh \subseteq Fields
    /\ fragRead \in Int
    /\ listRead \in Int

(* static struct inode i is zero-initialised.                              *)
Init ==
    /\ pc = "ready"
    /\ i = [f \in Fields |-> IF f = "symlink" THEN NULL ELSE 0]
    /\ fresh = {}
    /\ fragRead = NULL
    /\ listRead = NULL

Exit == pc' = "exited" /\ UNCHANGED <<i, fresh, fragRead, listRead>>

(* The block count and tail of a regular or extended regular file, as    *)
(* read_inode computes them from size, sum = size + block_size - 1       *)
(* evaluated in the width the code uses.                                 *)
FileExtent(size, sum, frag) ==
    [data |-> size,
     frag_bytes |-> IF frag = SQUASHFS_INVALID_FRAG THEN 0
                    ELSE ToSigned(CRem(size, BLOCK_SIZE), INT_BITS),
     blocks |-> ToSigned(IF frag = SQUASHFS_INVALID_FRAG
                           THEN ShiftRight(sum, BLOCK_LOG)
                           ELSE ShiftRight(size, BLOCK_LOG), INT_BITS)]

(* The checks of the base header, in the code's order: the uid index,    *)
(* the gid index unless it is SQUASHFS_GUIDS ("same as uid"), the type    *)
(* and the inode number.                                                  *)
BaseHeaderValid(uid, guid, type, num) ==
    /\ uid < NO_UIDS
    /\ guid = SQUASHFS_GUIDS \/ guid < NO_GUIDS
    /\ type \in 1 .. 9
    /\ num \in 1 .. INODES

(* The common fields read_inode sets from a valid base header.  The ids   *)
(* stand for the table entries: uid_table[k] is 2k, guid_table[k] 2k+1.   *)
WithBase(uid, guid, type, num) ==
    [i EXCEPT !.uid = 2 * uid,
              !.gid = IF guid = SQUASHFS_GUIDS THEN 2 * uid ELSE 2 * guid + 1,
              !.type = type, !.inode_number = num]

(* SQUASHFS_DIR_TYPE, SQUASHFS_LDIR_TYPE: the directory locator and size. *)
DecodeDirInode(ci) ==
    /\ \E size \in DirSizes, start \in Locs, off \in Offs :
         i' = [ci EXCEPT !.data = size, !.offset = off, !.start = start]
    /\ fresh' = CommonFields \cup {"data", "offset", "start"}

(* Mutant of RegExtent: size + block_size - 1 computed in the 32-bit       *)
(* unsigned type of the file_size field, so that it wraps.                 *)
RegExtentNarrow(size, frag) ==
    FileExtent(size, (size + BLOCK_SIZE - 1) % 2^REG_SIZE_BITS, frag)

(* SQUASHFS_FILE_TYPE: i.data is a long long, so the sum cannot wrap.     *)
RegExtent(size, frag) == FileExtent(size, size + BLOCK_SIZE - 1, frag)

(* SQUASHFS_LREG_TYPE: file_size is a signed long long and the sum is     *)
(* computed in that type.                                                 *)
LregExtent(size, frag) ==
    FileExtent(size, ToSigned(size + BLOCK_SIZE - 1, LLONG_BITS), frag)

FileFields == {"data", "frag_bytes", "fragment", "offset", "blocks",
               "start", "sparse"}

DecodeFile(ci, ext, frag, start, off) ==
    /\ i' = [ci EXCEPT !.data = ext.data, !.frag_bytes = ext.frag_bytes,
                       !.fragment = frag, !.offset = off,
                       !.blocks = ext.blocks, !.start = start, !.sparse = 1]
    /\ fresh' = CommonFields \cup FileFields

DecodeRegInode(ci) ==
    \E size \in RegSizes, frag \in FragmentFields, start \in Locs, off \in Offs :
        DecodeFile(ci, RegExtent(size, frag), frag, start, off)

DecodeLregInode(ci) ==
    \E size \in LregSizeFields, frag \in FragmentFields, start \in Locs,
       off \in Offs :
        DecodeFile(ci, LregExtent(size, frag), frag, start, off)

(* SQUASHFS_SYMLINK_TYPE: i.symlink = malloc(symlink_size + 1) holding    *)
(* the name (a failed malloc or read exits), i.data = symlink_size.  The  *)
(* buffer is represented by the name's length.                            *)
DecodeSymlinkInode(ci) ==
    /\ \E size \in SymlinkSizes : i' = [ci EXCEPT !.symlink = size, !.data = size]
    /\ fresh' = CommonFields \cup {"symlink", "data"}

(* SQUASHFS_BLKDEV_TYPE, SQUASHFS_CHRDEV_TYPE: i.data = rdev.             *)
DecodeDevInode(ci) ==
    /\ \E rdev \in Rdevs : i' = [ci EXCEPT !.data = rdev]
    /\ fresh' = CommonFields \cup {"data"}

(* SQUASHFS_FIFO_TYPE, SQUASHFS_SOCKET_TYPE: no header to read, data 0.   *)
DecodeIpcInode(ci) ==
    /\ i' = [ci EXCEPT !.data = 0]
    /\ fresh' = CommonFields \cup {"data"}

(* The switch on the inode type.                                          *)
DecodeTypeHeader(ci, type) ==
    \/ type \in {SQUASHFS_DIR_TYPE, SQUASHFS_LDIR_TYPE} /\ DecodeDirInode(ci)
    \/ type = SQUASHFS_FILE_TYPE /\ DecodeRegInode(ci)
    \/ type = SQUASHFS_LREG_TYPE /\ DecodeLregInode(ci)
    \/ type = SQUASHFS_SYMLINK_TYPE /\ DecodeSymlinkInode(ci)
    \/ type \in {SQUASHFS_BLKDEV_TYPE, SQUASHFS_CHRDEV_TYPE} /\ DecodeDevInode(ci)
    \/ type \in {SQUASHFS_FIFO_TYPE, SQUASHFS_SOCKET_TYPE} /\ DecodeIpcInode(ci)

(* read_inode(start_block, offset): read the base header, check it, then  *)
(* read and decode the type-specific header.  A failed read or check is   *)
(* EXIT_UNSQUASH; fifo and socket inodes have no second header to read.   *)
ReadInode ==
    /\ pc = "ready"
    /\ \/ Exit                                   \* base header read fails
       \/ \E uid, guid \in IdFields, type \in TypeFields, num \in InodeNumbers :
            \/ ~BaseHeaderValid(uid, guid, type, num) /\ Exit
            \/ /\ BaseHeaderValid(uid, guid, type, num)
               /\ type \notin {SQUASHFS_FIFO_TYPE, SQUASHFS_SOCKET_TYPE}
               /\ Exit                           \* type header read fails
            \/ /\ BaseHeaderValid(uid, guid, type, num)
               /\ pc' = "ready"
               /\ fragRead' = NULL
               /\ listRead' = NULL
               /\ DecodeTypeHeader(WithBase(uid, guid, type, num), type)

(* The caller of read_fragment: a regular file with a tail in a fragment *)
(* looks up i->fragment; read_fragment reads fragment_table[fragment]     *)
(* with no bounds check.                                                  *)
ReadFragment ==
    /\ pc = "ready"
    /\ i.type \in {SQUASHFS_FILE_TYPE, SQUASHFS_LREG_TYPE}
    /\ "frag_bytes" \in fresh
    /\ i.frag_bytes # 0
    /\ fragRead' = i.fragment
    /\ UNCHANGED <<pc, i, fresh, listRead>>

(* read_block_list(block_list, i->block_start, i->block_offset,          *)
(* i->blocks): one read of blocks * sizeof(unsigned int) bytes; a failed *)
(* read, or the malloc of the swap staging buffer failing, exits.  A      *)
(* negative block count becomes a huge size_t, which no read satisfies.   *)
ReadBlockList ==
    /\ pc = "ready"
    /\ i.type \in {SQUASHFS_FILE_TYPE, SQUASHFS_LREG_TYPE}
    /\ "blocks" \in fresh
    /\ \/ Exit
       \/ /\ i.blocks >= 0
          /\ listRead' = i.blocks
          /\ UNCHANGED <<pc, i, fresh, fragRead>>

INext == ReadInode \/ ReadFragment \/ ReadBlockList

ISpec == Init /\ [][INext]_ivars
-----------------------------------------------------------------------------
(* PROPERTY (read_inode, SQUASHFS_FILE_TYPE; section 8 of the design):    *)
(* a regular file has ceil(size / block_size) blocks and no tail without  *)
(* a fragment, floor(size / block_size) blocks and size mod block_size    *)
(* tail bytes with one, although the code computes them with shifts in    *)
(* fixed-width integers.                                                  *)
ExtentAsDesigned ==
    /\ i.data >= 0
    /\ i.blocks = IF i.fragment = SQUASHFS_INVALID_FRAG
                    THEN (i.data + BLOCK_SIZE - 1) \div BLOCK_SIZE
                    ELSE i.data \div BLOCK_SIZE
    /\ i.frag_bytes = IF i.fragment = SQUASHFS_INVALID_FRAG THEN 0
                      ELSE i.data % BLOCK_SIZE

(* PROPERTY (read_inode, SQUASHFS_FILE_TYPE case): while the static inode *)
(* holds a regular file the last call decoded, its extent is as designed. *)
RegExtentAsDesigned ==
    (i.type = SQUASHFS_FILE_TYPE /\ "blocks" \in fresh) => ExtentAsDesigned

(* PROPERTY (the same, for every file inode): extended regular inodes     *)
(* too get the designed block count and tail.                             *)
FileExtentAsDesigned ==
    (i.type \in {SQUASHFS_FILE_TYPE, SQUASHFS_LREG_TYPE} /\ "blocks" \in fresh)
        => ExtentAsDesigned

(* PROPERTY (read_fragment; section 4.7 of the design says the index is  *)
(* validated by the inode decoder): every fragment_table read is inside   *)
(* the table of sBlk.s.fragments entries.                                 *)
FragmentLookupInBounds ==
    fragRead # NULL => fragRead \in 0 .. FRAGMENTS - 1
=============================================================================
