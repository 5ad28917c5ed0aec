------------------------ MODULE Unsquash3DirAbstract ------------------------
(***************************************************************************)
(* What the directory stream decoder promises (section 4.6 and the        *)
(* Directory invariant of section 3 of the design), with no byte stream:  *)
(* open-directory is one step that either ends the program (a fatal       *)
(* error of the inode decoder), or fails and holds nothing, or returns a  *)
(* directory, held by the caller until it releases it, whose names are    *)
(* all valid, strictly sorted and so duplicate-free.                      *)
(***************************************************************************)
EXTENDS Integers, Sequences, SequencesExt

CONSTANTS Names, BadNames

VARIABLES
    astate,   \* "idle", "opened", "failed" or "exited"
    listing,  \* the names of the returned directory
    held      \* a directory is allocated and not released

avars == <<astate, listing, held>>

(* The listings a directory may have: sorted sequences of valid names.    *)
IsListing(s) == s \in Seq(Names \ BadNames) /\ IsSorted(s, <)

AInit == astate = "idle" /\ listing = <<>> /\ held = FALSE

(* open-directory returns a directory or fails.                           *)
AOpen ==
    /\ astate \in {"idle", "opened", "failed"}
    /\ \/ astate' = "failed" /\ listing' = <<>> /\ held' = FALSE
       \/ astate' = "opened" /\ IsListing(listing') /\ held' = TRUE

(* The caller releases the result it got, or keeps it and starts over.    *)
ARelease ==
    /\ astate \in {"opened", "failed"}
    /\ astate' = "idle" /\ listing' = <<>> /\ held' = FALSE

(* A fatal error ends the program.                                        *)
AExit ==
    /\ astate # "exited"
    /\ astate' = "exited"
    /\ UNCHANGED <<listing, held>>

ANext == AOpen \/ ARelease \/ AExit

ASpec == AInit /\ [][ANext]_avars
=============================================================================
