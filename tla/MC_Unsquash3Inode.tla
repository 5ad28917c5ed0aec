-------------------------- MODULE MC_Unsquash3Inode --------------------------
(* Model-checking instance of Unsquash3Inode: block_size 2, a 3-bit       *)
(* regular file_size, a 6-bit signed extended file_size and a 4-bit int,  *)
(* so that a block count fits an int exactly when the width of the size   *)
(* field says it should.  One uid, one guid and one inode; the id, type,  *)
(* inode-number and fragment fields can hold values past each bound.      *)
EXTENDS Unsquash3Inode

MCIdFields == 0 .. 2
MCTypeFields == 0 .. 10
MCInodeNumbers == 0 .. 2
MCFragmentFields == 0 .. 3
MCDirSizes == {0, 3, 5}
MCLocs == {0, 1}
MCOffs == {0, 1}
MCLregSizeFields == {-3, 0, 1, 2, 3, 20, 31}
MCSymlinkSizes == {1}
MCRdevs == {7}
=============================================================================
