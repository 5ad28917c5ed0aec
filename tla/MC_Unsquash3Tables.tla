------------------------- MODULE MC_Unsquash3Tables -------------------------
(* Model-checking instance of Unsquash3Tables: byte offsets 0..4 and the  *)
(* record sizes scaled so that a fragment metadata block holds two        *)
(* entries and an index entry takes one byte.                             *)
EXTENDS Unsquash3Tables

MCOffsets == 0 .. 4
MCInodeCounts == {1, 2}
MCFragmentCounts == {0, 1, 2}
MCIdCounts == {0, 1}

(* Fragment tables of two metadata blocks: 3 fragments end in a partial  *)
(* block, 4 fill both blocks exactly; the fragment index then needs two   *)
(* entries, more than the one-entry export index left in the buffer.      *)
MCMultiOffsets == 0 .. 6
MCMultiInodeCounts == {4}
MCMultiFragmentCounts == {3, 4}
MCMultiIdCounts == {1}
=============================================================================
