--------------------------- MODULE MC_Unsquash3Dir ---------------------------
(* Model-checking instance of Unsquash3Dir: the inode instance of         *)
(* MC_Unsquash3Inode with fewer size and fragment values, one-bit count   *)
(* and size fields (SQUASHFS_DIR_COUNT and NAME_LEN 2), a 2-byte header   *)
(* and a 1-byte entry.  Directory sizes 0 (below the minimum 3), 3        *)
(* (empty), 5 and 8 give budgets of -3, 2 and 5 bytes: one header whose   *)
(* entries fill it or overrun it, or two headers.  A budget is at most 7  *)
(* (int is 4 bits), so a walk reads at most two headers of two entries.   *)
EXTENDS Unsquash3Dir

MCDirIdFields == {0, 2}
MCDirTypeFields == {0, 1, 2, 3, 4, 6, 9}
MCDirInodeNumbers == {1}
MCDirFragmentFields == {0, 3}
MCDirDirSizes == {0, 3, 5, 8}
MCDirLocs == {0}
MCDirOffs == {0}
MCDirLregSizeFields == {-3}
MCDirSymlinkSizes == {1}
MCDirRdevs == {7}
MCCountFields == {0, 1}
MCNameFields == {1, 2, 3}
MCNameSize == [n \in MCNameFields |-> n % 2]
MCBadNames == {3}
=============================================================================
