---------------------------- MODULE Unsquash3Dir ----------------------------
(***************************************************************************)
(* The directory stream decoder of unsquash-3.c (squashfs_opendir),       *)
(* composed with the inode decoder it calls first.  opendir reads the     *)
(* inode at the locator it is given into the static inode of read_inode,  *)
(* then walks the directory table from that inode's start/offset over a   *)
(* budget of data - 3 bytes: a header (count + 1 entries follow), then    *)
(* each entry with its name, until the budget is used.  The names are     *)
(* checked one by one (check_name) and the whole list once at the end     *)
(* (check_directory); any failure releases the directory (closedir) and   *)
(* returns NULL.  Between opendir calls the rest of unsquash decodes      *)
(* other inodes (ReadInode, ReadFragment, ReadBlockList of the inode       *)
(* module), which overwrite the same static inode.                        *)
(*                                                                         *)
(* Names are naturals ordered as the names are ordered by strcmp; a name  *)
(* carries its size field (its length minus one).  check_name and         *)
(* check_directory live outside src/ and are modelled from their          *)
(* contracts in the design: BadNames are the names check_name rejects.    *)
(***************************************************************************)
EXTENDS Unsquash3Inode, Sequences, SequencesExt

CONSTANTS
    CountFields,         \* values of the count field of a directory header
    NameFields,          \* the names an entry can hold
    NameSize,            \* NameSize[n]: the size field of an entry named n
    BadNames,            \* the names check_name rejects
    DIR_HEADER_SIZE,     \* sizeof(squashfs_dir_header_3)
    DIR_ENTRY_SIZE,      \* sizeof(squashfs_dir_entry_3)
    SQUASHFS_DIR_COUNT,  \* most entries one header may announce
    SQUASHFS_NAME_LEN,   \* bound on the size field of an entry
    MAX_ENTRIES          \* bound of the model on the entries of one walk

(* The count and size fields are one byte wide, so the two corruption    *)
(* checks on them (dir_count > SQUASHFS_DIR_COUNT, size >= NAME_LEN)     *)
(* can never fail: the model keeps them as guards that always hold.      *)
ASSUME DirAssumption ==
    /\ CountFields \subseteq 0 .. SQUASHFS_DIR_COUNT - 1
    /\ NameFields \subseteq Nat /\ BadNames \subseteq NameFields
    /\ NameSize \in [NameFields -> 0 .. SQUASHFS_NAME_LEN - 1]
    /\ {DIR_HEADER_SIZE, DIR_ENTRY_SIZE} \subseteq Nat \ {0}
    /\ MAX_ENTRIES \in Nat

VARIABLES
    dpc,       \* "idle", "walk" (at while(bytes < size)), "entries" (in
               \* the entry loop), "opened" (returned dir), "failed" (NULL)
    bytes,     \* int bytes: the directory bytes consumed
    size,      \* int size: the byte budget, data - 3
    dirCount,  \* entries still to read under the current header
    entries,   \* names of dir->dirs, in list order
    dirLive    \* the struct dir of this call is allocated

dvars == <<dpc, bytes, size, dirCount, entries, dirLive>>
vars == <<ivars, dvars>>

DirTypeOK ==
    /\ TypeOK
    /\ dpc \in {"idle", "walk", "entries", "opened", "failed"}
    /\ bytes \in Int /\ size \in Int /\ dirCount \in Nat
    /\ entries \in Seq(NameFields)
    /\ dirLive \in BOOLEAN

DirInit ==
    /\ Init
    /\ dpc = "idle"
    /\ bytes = 0 /\ size = 0 /\ dirCount = 0
    /\ entries = <<>>
    /\ dirLive = FALSE

(* check_name (outside src/): the name is not empty, ".", ".." and holds *)
(* no '/'.                                                                *)
CheckName(n) == n \notin BadNames

(* check_directory (outside src/): the names are strictly sorted, hence   *)
(* also free of duplicates.                                               *)
CheckDirectory(s) == IsSorted(s, <)

(* squashfs_closedir (outside src/) frees every entry and the dir.        *)
Closedir == entries' = <<>> /\ dirLive' = FALSE

(* Mutant of Corrupted: return NULL without squashfs_closedir.             *)
CorruptedKeepsDir ==
    dpc' = "failed" /\ UNCHANGED <<ivars, bytes, size, dirCount, entries, dirLive>>

(* corrupted: squashfs_closedir(dir); return NULL;                        *)
Corrupted == dpc' = "failed" /\ Closedir /\ UNCHANGED <<ivars, bytes, size, dirCount>>

(* opendir: read_inode (which may exit), malloc the dir (MEM_ERROR exits  *)
(* too, which the exit of read_inode stands for) and copy the inode's     *)
(* attributes, return it empty when data == 3, else set the               *)
(* budget size = data + bytes - 3 in an int.  The struct inode is not     *)
(* checked to be a directory.  A caller that got a dir before keeps it.   *)
OpenDir ==
    /\ dpc \in {"idle", "opened", "failed"}
    /\ ReadInode
    /\ \/ pc' = "exited" /\ UNCHANGED dvars
       \/ /\ pc' = "ready"
          /\ dirLive' = TRUE
          /\ entries' = <<>>
          /\ bytes' = 0
          /\ dirCount' = 0
          /\ \/ i'.data = 3 /\ dpc' = "opened" /\ UNCHANGED size
             \/ /\ i'.data # 3
                /\ size' = ToSigned(i'.data - 3, INT_BITS)
                /\ dpc' = "walk"

(* One turn of while(bytes < size): read a header (a failed read is       *)
(* corruption), dir_count = count + 1, bytes += sizeof(dirh).             *)
ReadDirHeader ==
    /\ pc = "ready"
    /\ dpc = "walk"
    /\ bytes < size
    /\ \/ Corrupted
       \/ \E count \in CountFields :
            /\ count + 1 <= SQUASHFS_DIR_COUNT
            /\ dirCount' = count + 1
            /\ bytes' = ToSigned(bytes + DIR_HEADER_SIZE, INT_BITS)
            /\ dpc' = "entries"
            /\ UNCHANGED <<ivars, size, entries, dirLive>>

(* One turn of while(dir_count--): read the entry and its size + 1 name   *)
(* bytes (a failed read is corruption), check the name, malloc the entry  *)
(* (MEM_ERROR exits), append it and add its bytes.  The loop runs         *)
(* count + 1 times whatever the budget.                                   *)
ReadDirEntry ==
    /\ pc = "ready"
    /\ dpc = "entries"
    /\ Len(entries) < MAX_ENTRIES
    /\ \/ Corrupted
       \/ \E n \in NameFields :
            /\ NameSize[n] < SQUASHFS_NAME_LEN
            /\ \/ ~CheckName(n) /\ Corrupted
               \/ CheckName(n) /\ Exit /\ UNCHANGED dvars
               \/ /\ CheckName(n)
                  /\ entries' = Append(entries, n)
                  /\ bytes' = ToSigned(bytes + DIR_ENTRY_SIZE + NameSize[n] + 1,
                                       INT_BITS)
                  /\ dirCount' = dirCount - 1
                  /\ dpc' = IF dirCount = 1 THEN "walk" ELSE "entries"
                  /\ UNCHANGED <<ivars, size, dirLive>>

(* After the loop: check_directory, then return dir or go to corrupted.   *)
FinishDir ==
    /\ pc = "ready"
    /\ dpc = "walk"
    /\ bytes >= size
    /\ \/ CheckDirectory(entries) /\ dpc' = "opened"
          /\ UNCHANGED <<ivars, bytes, size, dirCount, entries, dirLive>>
       \/ ~CheckDirectory(entries) /\ Corrupted

(* The rest of unsquash between opendir calls: it decodes other inodes    *)
(* into the same static inode, and hands a returned dir to its caller     *)
(* (closedir when it is done with it).                                    *)
OtherInode ==
    /\ dpc \in {"idle", "opened", "failed"}
    /\ ReadInode \/ ReadFragment \/ ReadBlockList
    /\ UNCHANGED dvars

CloseDir ==
    /\ pc = "ready"
    /\ dpc = "opened"
    /\ dpc' = "idle"
    /\ Closedir
    /\ UNCHANGED <<ivars, bytes, size, dirCount>>

Walk == ReadDirHeader \/ ReadDirEntry \/ FinishDir

DirNext == OpenDir \/ Walk \/ OtherInode \/ CloseDir

DirSpec == DirInit /\ [][DirNext]_vars
-----------------------------------------------------------------------------
(* PROPERTY (section 4.6 of the design, "accumulating consumed bytes      *)
(* until the declared total is reached"): a returned dir is the empty     *)
(* directory of size 3, or its entries used exactly the declared bytes.   *)
OpenedDirExactSize ==
    dpc = "opened" => (i.data = 3 /\ entries = <<>>) \/ bytes = size

(* PROPERTY (section 4.5: an inode is decoded fresh on every lookup):     *)
(* opendir reads the directory table only from a start/offset that the    *)
(* read_inode of this call wrote.                                         *)
WalkFromFreshLocator ==
    (dpc = "entries" \/ (dpc = "walk" /\ bytes < size))
        => {"start", "offset"} \subseteq fresh

(* The abstract directory decoder, implemented by the walk: opendir is   *)
(* one step that exits, fails with nothing held, or returns a held dir   *)
(* whose names are valid, sorted and distinct.                            *)
Abstract == INSTANCE Unsquash3DirAbstract
    WITH Names <- NameFields, BadNames <- BadNames,
         astate <- IF pc = "exited" THEN "exited"
                   ELSE IF dpc \in {"walk", "entries"} THEN "idle" ELSE dpc,
         listing <- IF dpc = "opened" THEN entries ELSE <<>>,
         held <- IF dpc \in {"walk", "entries"} THEN FALSE ELSE dirLive

(* PROPERTY (squashfs_opendir with check_name, check_directory and the   *)
(* corrupted: label): the decoder implements the abstract one.            *)
ImplementsAbstract == Abstract!ASpec
=============================================================================
