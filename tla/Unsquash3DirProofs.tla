------------------------- MODULE Unsquash3DirProofs -------------------------
(***************************************************************************)
(* Proof that the directory stream decoder, composed with the inode       *)
(* decoder, implements Unsquash3DirAbstract under the refinement mapping  *)
(* of Unsquash3Dir, for every value of the constants.                     *)
(***************************************************************************)
EXTENDS Unsquash3Dir, TLAPS

Walking == {"walk", "entries"}

(* The invariant the mapping needs: the names built so far are all valid, *)
(* a walk runs with its dir allocated, and no dir                         *)
(* is held between calls or after a failed one.                           *)
DirInv ==
    /\ pc \in {"ready", "exited"}
    /\ dpc \in {"idle", "walk", "entries", "opened", "failed"}
    /\ entries \in Seq(NameFields \ BadNames)
    /\ dirLive \in BOOLEAN
    /\ dpc \in Walking => dirLive = TRUE
    /\ dpc \in {"idle", "failed"} => dirLive = FALSE

(* Every step of the inode module leaves pc "ready" or "exited".          *)
LEMMA InodeStepPc ==
    ASSUME ReadInode \/ ReadFragment \/ ReadBlockList
    PROVE  pc' \in {"ready", "exited"}
<1>1. CASE ReadInode
  BY <1>1, Zenon DEF ReadInode, Exit
<1>2. CASE ReadFragment
  BY <1>2 DEF ReadFragment
<1>3. CASE ReadBlockList
  BY <1>3, Zenon DEF ReadBlockList, Exit
<1>4. QED
  BY <1>1, <1>2, <1>3

(* The empty listing is a listing of the abstract decoder.                *)
LEMMA EmptyListing == Abstract!IsListing(<<>>)
<1>1. 1 .. Len(<<>>) = {}
  BY SMT
<1>2. <<>> \in Seq(NameFields \ BadNames)
  OBVIOUS
<1>3. QED
  BY <1>1, <1>2, Zenon DEF Abstract!IsListing, Abstract!IsSorted

(* corrupted: from a walk is the abstract failure, and keeps DirInv.      *)
LEMMA CorruptedStep ==
    ASSUME DirInv, pc = "ready", dpc \in Walking, Corrupted
    PROVE  DirInv' /\ Abstract!AOpen
<1>1. pc' = "ready" /\ dpc' = "failed" /\ entries' = <<>> /\ dirLive' = FALSE
  BY DEF DirInv, Corrupted, Closedir, ivars
<1>2. <<>> \in Seq(NameFields \ BadNames)
  OBVIOUS
<1>3. DirInv'
  BY <1>1, <1>2 DEF DirInv, Walking
<1>4. Abstract!AOpen
  BY <1>1 DEF DirInv, Walking, Abstract!AOpen
<1>5. QED
  BY <1>3, <1>4

(* DirInv is inductive, and each step of the decoder is a step of the     *)
(* abstract decoder or leaves its image unchanged.                        *)
LEMMA DirStep ==
    ASSUME DirInv, [DirNext]_vars
    PROVE  DirInv' /\ [Abstract!ANext]_Abstract!avars
<1> USE DEF Walking
<1>1. CASE OpenDir
  <2>1. pc = "ready" /\ dpc \in {"idle", "opened", "failed"}
    BY <1>1 DEF OpenDir, ReadInode
  <2>2. CASE pc' = "exited" /\ UNCHANGED dvars
    <3>1. DirInv'
      BY <2>1, <2>2 DEF DirInv, dvars
    <3>2. Abstract!AExit
      BY <2>1, <2>2 DEF dvars, Abstract!AExit
    <3>3. QED
      BY <3>1, <3>2 DEF Abstract!ANext
  <2>3. CASE /\ pc' = "ready"
             /\ dirLive' = TRUE
             /\ entries' = <<>>
             /\ i'.data = 3 /\ dpc' = "opened"
    <3>1. DirInv'
      BY <2>3 DEF DirInv
    <3>2. Abstract!AOpen
      BY <2>1, <2>3, EmptyListing DEF Abstract!AOpen
    <3>3. QED
      BY <3>1, <3>2 DEF Abstract!ANext
  <2>4. CASE /\ pc' = "ready"
             /\ dirLive' = TRUE
             /\ entries' = <<>>
             /\ dpc' = "walk"
    <3>1. DirInv'
      BY <2>4 DEF DirInv
    <3>2. CASE dpc = "idle"
      <4>1. dirLive = FALSE
        BY <3>2 DEF DirInv
      <4>2. UNCHANGED Abstract!avars
        BY <2>1, <2>4, <3>2, <4>1 DEF Abstract!avars
      <4>3. QED
        BY <3>1, <4>2
    <3>3. CASE dpc \in {"opened", "failed"}
      <4>1. Abstract!ARelease
        BY <2>1, <2>4, <3>3 DEF Abstract!ARelease
      <4>2. QED
        BY <3>1, <4>1 DEF Abstract!ANext
    <3>4. QED
      BY <2>1, <3>2, <3>3
  <2>5. QED
    BY <1>1, <2>2, <2>3, <2>4, Zenon DEF OpenDir
<1>2. CASE ReadDirHeader
  <2>1. pc = "ready" /\ dpc = "walk"
    BY <1>2 DEF ReadDirHeader
  <2>2. CASE Corrupted
    BY <2>1, <2>2, CorruptedStep DEF Abstract!ANext
  <2>3. CASE dpc' = "entries" /\ UNCHANGED <<ivars, size, entries, dirLive>>
    <3>1. DirInv'
      BY <2>1, <2>3 DEF DirInv, ivars
    <3>2. UNCHANGED Abstract!avars
      BY <2>1, <2>3 DEF DirInv, ivars, Abstract!avars
    <3>3. QED
      BY <3>1, <3>2
  <2>4. QED
    BY <1>2, <2>2, <2>3, Zenon DEF ReadDirHeader
<1>3. CASE ReadDirEntry
  <2>1. pc = "ready" /\ dpc = "entries"
    BY <1>3 DEF ReadDirEntry
  <2>2. CASE Corrupted
    BY <2>1, <2>2, CorruptedStep DEF Abstract!ANext
  <2>3. CASE \E n \in NameFields :
               /\ CheckName(n)
               /\ entries' = Append(entries, n)
               /\ dpc' \in Walking
               /\ UNCHANGED <<ivars, dirLive>>
    <3>1. PICK n \in NameFields :
               /\ CheckName(n)
               /\ entries' = Append(entries, n)
               /\ dpc' \in Walking
               /\ UNCHANGED <<ivars, dirLive>>
      BY <2>3
    <3>2. n \in NameFields \ BadNames
      BY <3>1 DEF CheckName
    <3>3. entries' \in Seq(NameFields \ BadNames)
      BY <3>1, <3>2 DEF DirInv
    <3>4. DirInv'
      BY <2>1, <3>1, <3>3 DEF DirInv, ivars
    <3>5. UNCHANGED Abstract!avars
      BY <2>1, <3>1 DEF DirInv, ivars, Abstract!avars
    <3>6. QED
      BY <3>4, <3>5
  <2>4. CASE Exit /\ UNCHANGED dvars
    <3>1. DirInv'
      BY <2>1, <2>4 DEF DirInv, Exit, dvars
    <3>2. Abstract!AExit
      BY <2>1, <2>4 DEF Exit, dvars, Abstract!AExit
    <3>3. QED
      BY <3>1, <3>2 DEF Abstract!ANext
  <2>5. QED
    BY <1>3, <2>2, <2>3, <2>4, Zenon DEF ReadDirEntry
<1>4. CASE FinishDir
  <2>1. pc = "ready" /\ dpc = "walk"
    BY <1>4 DEF FinishDir
  <2>2. CASE Corrupted
    BY <2>1, <2>2, CorruptedStep DEF Abstract!ANext
  <2>3. CASE /\ CheckDirectory(entries) /\ dpc' = "opened"
             /\ UNCHANGED <<ivars, bytes, size, dirCount, entries, dirLive>>
    <3>1. DirInv'
      BY <2>1, <2>3 DEF DirInv, ivars
    <3>2. Abstract!IsListing(entries')
      BY <2>3, Zenon DEF DirInv, CheckDirectory, IsSorted, Abstract!IsListing,
                          Abstract!IsSorted
    <3>3. Abstract!AOpen
      BY <2>1, <2>3, <3>2 DEF DirInv, ivars, Abstract!AOpen
    <3>4. QED
      BY <3>1, <3>3 DEF Abstract!ANext
  <2>4. QED
    BY <1>4, <2>2, <2>3, Zenon DEF FinishDir
<1>5. CASE OtherInode
  <2>1. dpc \in {"idle", "opened", "failed"} /\ UNCHANGED dvars /\ pc = "ready"
    BY <1>5 DEF OtherInode, ReadInode, ReadFragment, ReadBlockList
  <2>2. pc' \in {"ready", "exited"}
    BY <1>5, InodeStepPc DEF OtherInode
  <2>3. DirInv'
    BY <2>1, <2>2 DEF DirInv, dvars
  <2>4. CASE pc' = "ready"
    <3>1. UNCHANGED Abstract!avars
      BY <2>1, <2>4, Zenon DEF dvars, Abstract!avars
    <3>2. QED
      BY <2>3, <3>1
  <2>5. CASE pc' = "exited"
    <3>1. Abstract!AExit
      BY <2>1, <2>5 DEF dvars, Abstract!AExit
    <3>2. QED
      BY <2>3, <3>1 DEF Abstract!ANext
  <2>6. QED
    BY <2>2, <2>4, <2>5
<1>6. CASE CloseDir
  <2>0. <<>> \in Seq(NameFields \ BadNames)
    OBVIOUS
  <2>1. DirInv'
    BY <1>6, <2>0, Zenon DEF CloseDir, Closedir, DirInv, ivars
  <2>2. Abstract!ARelease
    BY <1>6 DEF CloseDir, Closedir, ivars, Abstract!ARelease
  <2>3. QED
    BY <2>1, <2>2 DEF Abstract!ANext
<1>7. CASE UNCHANGED vars
  BY <1>7 DEF vars, ivars, dvars, DirInv, Abstract!avars
<1>8. QED
  BY <1>1, <1>2, <1>3, <1>4, <1>5, <1>6, <1>7 DEF DirNext, Walk

(* THEOREM (squashfs_opendir with check_name, check_directory and the     *)
(* corrupted: label, composed with read_inode): ImplementsAbstract, for   *)
(* every value of the constants.  Every returned dir holds valid, sorted, *)
(* distinct names; a NULL return holds nothing; exits end everything.     *)
THEOREM ImplementsAbstractTheorem == DirSpec => ImplementsAbstract
<1>1. DirInit => DirInv /\ Abstract!AInit
  <2> SUFFICES ASSUME DirInit PROVE DirInv /\ Abstract!AInit
    OBVIOUS
  <2>1. <<>> \in Seq(NameFields \ BadNames)
    OBVIOUS
  <2>2. DirInv
    BY <2>1, Zenon DEF DirInit, Init, DirInv, Walking
  <2>3. Abstract!AInit
    BY Zenon DEF DirInit, Init, Abstract!AInit
  <2>4. QED
    BY <2>2, <2>3
<1>2. QED
  BY <1>1, DirStep, PTL DEF DirSpec, ImplementsAbstract, Abstract!ASpec
=============================================================================
