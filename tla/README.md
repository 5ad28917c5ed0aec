# Formal models of `unsquash-3.c`

This directory holds TLA+ models of the legacy (version 1/2/3) squashfs
decoder in `src/squashfs-tools/unsquash-3.c`, the TLC configurations that
model-check them, and TLAPS proofs about them. `PROJECT.json` maps every
modelled definition to the source lines it translates. It also lists the
runs, the mutants that show each property can fail, the findings and the
hazards of the code.

## The system

`unsquash-3.c` is one C unit with these parts (the component names of
`spec.md` are used):

| Part | Code | State it changes |
|---|---|---|
| Scratch Index Allocator | `salloc_index_table` 33-50 (and `alloc_index_table`, outside `src/`) | a static buffer and its size, reused across calls, released by a request for 0 |
| Superblock Decoder | `read_super_3` 699-754 | `swap`, the global `sBlk`, the ops table, the compressor |
| Filesystem Table Orchestrator | `read_filesystem_tables` 590-696 | `table_start`, the uid/gid/fragment tables, both scratch buffers |
| Export Table Reader | `parse_exports_table` 533-587 | `table_start` := `export_index_table[0]` |
| Fragment Table Reader | `read_fragment_table` 79-162 | `fragment_table` (malloc'd), `table_start` := `fragment_table_index[0]` |
| Inode Decoder | `read_inode` 175-390 | one static `struct inode`, returned by pointer |
| Directory Stream Decoder | `squashfs_opendir` 393-530 | a freshly built `struct dir` |
| Block-List Decoder / Fragment Locator | `read_block_list` 53-76, `read_fragment` 165-172 | caller buffers |
| Superblock report | `squashfs_stat` 757-811 | none (printing only) |

They interact through process-wide state. `read_super_3` fills `sBlk` and
`swap`. `read_filesystem_tables` then walks the image from its end
(`bytes_used`) toward its start. Each table's start becomes the upper bound,
`table_start`, for the table before it. For the export and fragment tables,
that bound is the first entry of the index the image holds. Inodes,
directories and fragments are decoded later against the loaded tables.
Everything runs in one thread, and every read is blocking. The only
interleaving is of calls: between two `opendir` calls, the rest of unsquash
decodes other inodes into the same static record. The hard behaviours
come from the untrusted image: each field and each index entry can hold anything. Each I/O read can also
fail at any point, and the numeric edges of the block arithmetic matter.

## Modules

* `Unsquash3Tables.tla` models the superblock decoder, the table
  orchestrator, the export and fragment readers, and the scratch allocator.
  * **State.**
    * `pc` is the position in `read_super_3`/`read_filesystem_tables`.
    * `sBlk` holds the superblock fields the loader reads.
    * `swap`, `tableStart`, `exportBlocksStart` and `fragmentBlocksStart`
      hold the two index entries the image supplies.
    * `fragWritten` is the set of fragment entries written.
    * `blk` is the loop index of the fragment block loop.
    * `readFailed` records that the I/O layer failed.
    * `allocSize` and `sallocSize` are the capacities of the two scratch
      buffers.
  * **Actions.** `read_filesystem_tables` is one C function. It becomes one
    action per block of that function, ordered by `pc`:
    * `ReadGidTable`, `ReadUidTable`;
    * `ReadExportTable`, which includes `parse_exports_table`;
    * `ReadFragmentTable`, which includes `read_fragment_table` up to the
      index read;
    * `ReadFragmentBlock`, one turn of the block loop;
    * `FinishFragmentTable`;
    * `CheckTableStarts`;
    * `Corrupted`, the `corrupted:` label, which releases both scratch
      buffers.
  * **Control.** Every guard and early return of the C code is a disjunct,
    in the code's order. Every read of the I/O layer may fail: it is then a
    `Corrupted(TRUE)` disjunct.
  * **Data.** It is abstracted as follows:
    * offsets and counts come from small CONSTANT sets;
    * record sizes are CONSTANTS scaled down (`METADATA_SIZE` 4 in place of
      8192, fragment entry 2 in place of 16, lookup and index entries 1);
    * the superblock fields arrive already decoded, so the byte swap is
      not modelled;
    * the fragment entries are tracked only as which indexes were written.
* `MC_Unsquash3Tables.tla` gives the CONSTANT sets for TLC.
* `Unsquash3TablesProofs.tla` holds the TLAPS proofs.
* `Unsquash3Inode.tla` models the inode decoder and its two readers.
  * **State.**
    * `i` is the one `static struct inode` of `read_inode` (line 181), a
      record of integer fields. It is kept across calls: a case of the
      switch writes only the fields it writes in C.
    * `fresh` is a ghost variable: the fields the last successful call
      wrote. Properties use it to tell a fresh field from a stale one.
    * `fragRead` and `listRead` record the last `read_fragment` index and
      the last `read_block_list` count since the last `read_inode` (`NULL`
      when none).
    * `pc` is `ready`, or `exited` after an `EXIT_UNSQUASH`.
  * **Actions.**
    * `ReadInode` is the whole of `read_inode`: the base header read
      failure, the uid, gid, type and inode-number checks in the code's
      order (each exits), the `SQUASHFS_GUIDS` sentinel, then one decoder
      per case (`DecodeDirInode`, `DecodeRegInode`, `DecodeLregInode`,
      `DecodeSymlinkInode`, `DecodeDevInode`, `DecodeIpcInode`). Each
      case's header read may fail and exit.
    * `ReadFragment` is `read_fragment` on a file inode with a fragment.
    * `ReadBlockList` is `read_block_list` of `i.blocks` entries; the read
      succeeds or exits.
  * **Data.** The uid/gid tables map index `k` to `2k` and `2k + 1`, so
    the sentinel's `gid = uid` is visible. Header fields come from small
    CONSTANT sets. The width of each C integer is kept where it matters:
    `file_size` of a reg inode is an unsigned `REG_SIZE_BITS` value, the
    lreg `file_size` a signed `LLONG_BITS` one, and `frag_bytes`/`blocks`
    go through `ToSigned(_, INT_BITS)`, C's conversion to `int`. `>>` is
    `ShiftRight`, and `%` on a signed value is C's truncating `CRem`.
    The swap branches decode the same header and are collapsed into the
    read.
* `Unsquash3Dir.tla` EXTENDS the inode module and composes
  `squashfs_opendir` with it.
  * **State.** `dpc` is the position in `opendir` (`idle`, `walk` at
    `while(bytes < size)`, `entries` inside `while(dir_count--)`, `opened`
    for a returned dir, `failed` for NULL). `bytes`, `size` and `dirCount`
    are the C locals. `entries` is the list `dir->dirs`, and `dirLive` says
    the `struct dir` is allocated.
  * **Actions.**
    * `OpenDir`: `read_inode` (which may exit), the dir malloc, the
      `data == 3` early return, and `size = data + bytes - 3` in an int.
      It does not check the inode's type, as the code does not.
    * `ReadDirHeader`: one header; a failed read is `Corrupted`.
    * `ReadDirEntry`: one entry and its name; a failed read or a name
      `check_name` rejects is `Corrupted`; the entry malloc may exit.
    * `FinishDir`: `check_directory`, then return or `Corrupted`.
    * `Corrupted`: the `corrupted:` label, `squashfs_closedir` and NULL.
    * `OtherInode` and `CloseDir` are the callers in `unsquash.c`
      (outside `src/`): between two `opendir` calls they decode other
      inodes into the same static record, and release a returned dir.
  * The `dir_count > SQUASHFS_DIR_COUNT` and `size >= SQUASHFS_NAME_LEN`
    checks can never fail, because the count and size fields are 8 bits
    wide. `DirAssumption` says so, and the model keeps them as guards.
  * `check_name`, `check_directory` and `squashfs_closedir` are outside
    `src/`: `CheckName` is membership outside `BadNames`, `CheckDirectory`
    is `IsSorted(_, <)`, `Closedir` frees every entry and the dir.
* `Unsquash3DirAbstract.tla` is what `opendir` promises (design 4.6),
  with no byte stream: `AOpen` fails holding nothing or returns a held
  listing of valid, strictly sorted names; `ARelease` frees it; `AExit`
  ends the program. `Unsquash3Dir` instantiates it with a refinement
  mapping: a walk in progress maps to `idle`, and the listing is visible
  only once the dir is returned.
* `MC_Unsquash3Inode.tla`, `MC_Unsquash3Dir.tla` give the CONSTANT sets.
* `Unsquash3InodeProofs.tla` and `Unsquash3DirProofs.tla` hold the proofs.

The code outside `src/` is modelled from its contract in `spec.md` and is
marked `spec_modelled` in the map:
* `read_block`: `ReadBlockLengths`, where an expected length of 0 admits
  any length up to a full block;
* the zero initialisation of the global `sBlk`;
* `read_ids` and `read_fs_bytes`, whose only effect is success or failure.

## Runs

### Table loader runs

Every table-loader run uses `METADATA_SIZE = 4` and
`FRAGMENT_ENTRY_SIZE = 2`, so a metadata block holds two fragment
entries, and an index entry and a lookup entry take one byte.

`tables_pass` uses offsets `0..4`, inode counts `{1,2}`, fragment counts
`{0,1,2}` and id counts `{0,1}`:
* With 2 fragments the entries fill a block exactly, so the last block's
  expected length is 0.
* With 1 fragment the last block is partial.
* Offsets 0..4 allow each region check to pass, to fail by one, and to
  fail by equality.
* An index of one entry exactly fills a gap of 1 byte.

With at most 2 fragments, though, the fragment table is never longer than
one block. So `tables_pass` never reads a full block that is not the last
one, and never needs the index buffer to grow for the fragment index.
`tables_multiblock_pass` (`MC_Unsquash3TablesMulti.cfg`) covers these
cases. It uses offsets `0..6`, 4 inodes (fragments may not outnumber
them), one uid, and fragment counts `{3,4}`:
* 3 fragments give a full first block and a partial last one;
* 4 fill both blocks exactly;
* the fragment index then has two entries, one more than the export
  index left in the shared buffer.
The theorems below cover every size.

Deadlock checking is off: the loader is a terminating procedure, and every
final phase (`loaded`, `corrupt`, `not_squashfs3`, `read_failed`) has no
successor. No fairness is assumed and no liveness is checked. Termination
is immediate, since each action advances `pc` or `blk`, and `blk` is
bounded by the number of indexes.

| Run | Expect | Checks |
|---|---|---|
| `tables_pass` (`MC_Unsquash3Tables.cfg`) | pass, about 12M states | `LoadIffLayoutAccepted`, `LoadedRegionsInOrder`, `FragmentReadsInBounds`, `ScratchReleased` |
| `tables_multiblock_pass` (`MC_Unsquash3TablesMulti.cfg`) | pass, about 13M states | `FragmentReadsInBounds` |
| `layout_order_violation` (`MC_LoadedLayoutOrdered.cfg`) | violation | `LoadedLayoutOrdered` |
| `fragment_fill_violation` (`MC_FragmentTableFilled.cfg`) | violation | `FragmentTableFilled` |

* `LoadIffLayoutAccepted`: when no read failed, the load ends `loaded`
  exactly when `LayoutAccepted` holds. `LayoutAccepted` states the
  conditions of design section 4.3 declaratively, over the superblock and
  the two index entries. The code checks them step by step, on several
  branches (gids or none, export table or none, fragments or none), and
  the property says the two agree.
* `LoadedRegionsInOrder`: a successful load, of an image whose index
  entries point back below their index, leaves every region strictly back
  to front.
* `FragmentReadsInBounds`: every fragment block writes only entries below
  `sBlk.fragments`. It would fail if the last block's expected length were
  taken as a full block.
* `ScratchReleased`: every finished load, successful or corrupt, has
  released both static index buffers (`allocSize = sallocSize = 0`).
* Each property has a mutant in `PROJECT.json`: an off-by-one in a check
  (`>=` relaxed to `>`), a wrong test for the last block (checked in
  both runs), or a `goto corrupted` path that skips `salloc_index_table(0)`. TLC finds the
  property violated under each mutant.

### Inode and directory runs

| Run | Expect | Checks |
|---|---|---|
| `inode_pass` (`MC_Unsquash3Inode.cfg`) | pass, 18,610 states | `RegExtentAsDesigned` |
| `file_extent_violation` (`MC_FileExtentAsDesigned.cfg`) | violation | `FileExtentAsDesigned` |
| `fragment_lookup_violation` (`MC_FragmentLookupInBounds.cfg`) | violation | `FragmentLookupInBounds` |
| `dir_pass` (`MC_Unsquash3Dir.cfg`) | pass, 47,998 states | `ImplementsAbstract` |
| `dir_size_violation` (`MC_OpenedDirExactSize.cfg`) | violation | `OpenedDirExactSize` |
| `stale_locator_violation` (`MC_WalkFromFreshLocator.cfg`) | violation | `WalkFromFreshLocator` |

Bounds. A block of 2 bytes (`BLOCK_LOG = 1`) makes every size either a
whole number of blocks or one with a tail. A 3-bit reg size and a 4-bit
int make the int too narrow for some counts. The lreg sizes include -3 and
values past the int range. Two fragments with the sentinel 3 let an
inode name the entry just past the table. The uid and gid fields reach
the sentinel and one index too many. Types 0 and 10 reach the type check.
The directory run uses dir sizes 0, 3, 5 and 8: below 3, exactly 3, and
budgets of 2 and 5 bytes, which one header fills, or which a header and
its entries fill exactly or overshoot. It uses names of size
fields 0 and 1, one bad name, header counts 0 and 1, and a 6-bit int, so
that `bytes` cannot wrap within `MAX_ENTRIES = 4` entries. With a 4-bit
int it would, which is an artifact of the scaling: a 1-byte size field
cannot wrap the real 32-bit `bytes`.

Deadlock checking is off in both runs: after `EXIT_UNSQUASH` the program
has stopped, and `exited` has no successor.

No fairness is assumed and no liveness is checked. The walk of `opendir`
ends by construction: each header and each entry adds a fixed positive
number of bytes to `bytes`, and the budget is far below the int range, so
a termination property would hold whatever the loop test.

* `RegExtentAsDesigned`: after a reg inode is decoded, `blocks` is
  `ceil(size / block_size)` without a fragment and `floor` with one, and
  `frag_bytes` is `size mod block_size`, although the code uses shifts in
  fixed-width integers. Mutant: the sum `size + block_size - 1` taken in
  the 32 bits of `file_size`.
* `ImplementsAbstract`: every step of `opendir` and its callers is a step
  of the abstract decoder or a stutter. Mutant: `corrupted:` without
  `squashfs_closedir` (the abstract failure holds nothing).

### Findings

1. **Untrusted index entries become region bounds.**
   `parse_exports_table` (line 584) and `read_fragment_table` (line 160)
   set `table_start` to the first entry of the index, without checking it.
   An image whose entry points forward is loaded with its regions out of
   order. `LoadedLayoutOrdered` (the layout invariant of design section 3)
   is violated. `LoadedRegionsInOrder` shows that exactly the entries that
   point back are needed to restore it.
2. **The last fragment block is unchecked at an exact multiple.**
   The last block's expected length is `bytes & (METADATA_SIZE - 1)`
   (line 136). It is 0 when the entries fill whole blocks, and `read_block`
   reads 0 as "unknown length". A short last block is then accepted and
   the load succeeds with fragment entries never written.
   `FragmentTableFilled` is violated.
3. **The lreg extent is not checked.** Lines 321-324 compute the block
   count and the tail on the signed 64-bit `file_size`. The tail uses C's
   truncating `%`, and the count is stored in an `int`. Nothing checks the
   size. `FileExtentAsDesigned` (the test of design section 8) is
   violated.
   * TLC's shortest trace decodes an lreg inode of size -3 with
     fragment 0. Its count, `-3 >> 1 = -2`, is the designed
     `floor(size / block_size)` for a file with a fragment tail.
   * What breaks the design is the negative size, and `frag_bytes = -1`
     where `size mod block_size` is 1.
   * The run also reaches fragment-less sizes whose count does not fit
     the `int`: size 20 with a 4-bit int gives -6 blocks instead of 10.
   * The reg case, whose size is unsigned 32 bits, is proved correct.
4. **The fragment index is never validated.** `read_fragment` (line 169)
   indexes `fragment_table` with the inode's fragment number, and
   `read_inode` does not compare it with the fragment count, though design
   section 4.7 says the inode decoder validates it.
   `FragmentLookupInBounds` is violated.
5. **A directory's size is not enforced.** `opendir` (line 424) treats only
   `data == 3` as empty. A `data` below 3 gives a negative budget and an
   empty dir. An entry that crosses the budget ends the loop past it. Both
   return a dir, and `OpenedDirExactSize` is violated.
6. **opendir walks a stale locator.** `opendir` does not check that the
   inode is a directory (line 409). For a device, symlink, fifo or socket
   inode, `read_inode` does not set `start`/`offset` of the static inode
   (line 181). They keep what a previous call left, or their zero
   initialisation before any call, and line 433 walks the directory table
   from them. TLC's trace is the program's first call: `opendir` on a
   block-device inode walks from start 0, offset 0, which no `read_inode`
   wrote.
   `WalkFromFreshLocator` (design section 3: an inode is decoded fresh on
   every lookup) is violated.

## Proofs

### Table loader proofs

These proofs are in `Unsquash3TablesProofs.tla` and are checked by
`tlapm Unsquash3TablesProofs.tla`. They assume only the named assumptions
of `Unsquash3Tables`:
* `DomainsAssumption`: offsets and counts are naturals;
* `SizesAssumption`: the sizes are positive, `METADATA_SIZE` is a power
  of 2, and it is a multiple of the fragment entry size.

* `TypeCorrect`: `Spec => []TypeOK`. `TypeOK` is split into its Boolean
  and its numeric part (`TypeBools`, `TypeRest`), because each part suits
  a different backend. Each action is split into its `Corrupted` branch
  and its success branch.
* `LayoutInvariant`: `Spec => [](TypeOK /\ LayoutInv)`. Neither property
  is inductive by itself: at `loaded`, nothing says why the checks held.
  `LayoutInv` records, for each phase, the conjunction of the checks
  already passed (`GidOK`, `UidOK`, `ExportOK`, `FragOK`, `TablesOK`). It
  also records what `table_start` equals there (`GidEnd`, `uid_start`,
  `ExportEnd`, `FragmentEnd`), and that a load which failed without an I/O
  error failed one of the checks. The step proof has one case per action
  and one sub-case per branch of the code. Two lemmas carry it:
  `CorruptedInv` covers every `goto corrupted`, and `ChecksUnchanged`
  covers steps that leave the superblock and index entries alone.
  TLC checked `LayoutInv` on the `tables_pass` instance before it was
  proved.
* `LoadIffLayoutAcceptedTheorem`: `Spec => []LoadIffLayoutAccepted`,
  because `Accepted` is `LayoutAccepted`.
* `LoadedRegionsInOrderTheorem`: `Spec => []LoadedRegionsInOrder`, from
  `LayoutInv` and the arithmetic lemma `AcceptedInOrder`.
* `FragmentReadsInBoundsTheorem`: `Spec => []FragmentReadsInBounds`. The
  inductive invariant `FragInv` adds that nothing is written before the
  superblock is read. The step for a block read rests on `BlockFits`:
  with `E` entries of `F` bytes per block and `n` fragments, block `b`
  below the block count, of a full length `E*F` or (for the last block)
  of length `(n*F) % (E*F)` when that is nonzero, ends at entry
  `b*E + len \div F <= n`. Its proof writes `n = q*E + s` and uses
  `DivUnique`, the uniqueness of quotient and remainder. This is the
  arithmetic behind `read_fragment_table`'s choice of the last block's
  expected length. `EntriesGeometry` gives `METADATA_SIZE = E*F` from
  `SizesAssumption`.
* `ScratchReleasedTheorem`: `Spec => []ScratchReleased`, from the
  inductive invariant `ScratchInv`. It conjoins the property with the fact
  that both buffers are empty before the superblock is read. The phases
  in between are unconstrained. `IndexTableReleased` states that a request
  for no indexes frees `salloc_index_table`'s buffer whatever it held.
  `CorruptedScratch` covers every `goto corrupted`.

Every invariant of `tables_pass` and `tables_multiblock_pass` is proved. Only TLC checks the two violations.
Liveness and termination are not stated, since the loader terminates by
construction.

### Inode and directory proofs

`Unsquash3InodeProofs.tla` assumes `InodeAssumption` (field sets are
naturals, the sentinels lie in their sets) and `WidthsAssumption` (the
powers of two used are positive, a block fits in an int, and the largest
`REG_SIZE_BITS` size rounded up still gives a block count that fits in an int).
* `InodeTypeCorrect`: `ISpec => []TypeOK`.
* `RegExtentTheorem`: `ISpec => []RegExtentAsDesigned`, for every block
  size and width. The inductive invariant is `TypeOK /\ RegExtentAsDesigned`:
  `fresh` is what makes it inductive, since a non-file decode resets
  `fresh` and an exit leaves both the record and `fresh` alone. The
  arithmetic rests on `DivBelow` (a quotient stays below the int bound)
  and `ToIntKeeps` (the conversion to `int` keeps a value in range), which
  give `RegExtentDesigned`: the shift and the C `%` compute the designed
  quotient and remainder.

`Unsquash3DirProofs.tla` proves `ImplementsAbstractTheorem`:
`DirSpec => ImplementsAbstract`. The invariant `DirInv` says that `entries`
holds only names `check_name` accepted, that a walk holds its dir, and
that `idle` and `failed` hold none. `DirStep` shows that each action keeps
`DirInv` and maps to `AOpen`, `ARelease`, `AExit` or a stutter.
`CorruptedStep` covers every `goto corrupted`. A returned listing is
sorted because `FinishDir` returns only after `check_directory`.

Only TLC shows the four violations. No liveness property is stated, so
nothing is left out of the proofs for lack of temporal reasoning. No module
with a theorem uses a RECURSIVE operator.

## Not modelled

* **Block-List Decoder / Fragment Locator** is only partly modelled.
  `read_fragment` reads the inode's fragment number but not the table's
  contents. `read_block_list` is a read that succeeds or exits, and the
  swap branch's malloc and element swap are collapsed into it. The
  fragment table the loader fills (`Unsquash3Tables`) and the inode
  decoder are separate modules. The unchecked index is visible without
  composing them, and the composed state space would be too large for a
  useful run.
* **Fields not tracked.** `mode`, `time` and `xattr` of the inode and the
  copies `opendir` makes of them carry no property. Neither do the
  `start_block`, `offset` and `type` of a directory entry, or the symlink
  text beyond its presence.
* **strdup** at line 504 is unchecked: a failed allocation leaves a NULL
  name. Names are model values, so this hazard is listed without a
  property.
* **Not planned.** `squashfs_stat` is pure formatting. The byte swap of
  each record is a bijection on the fields, and the model takes the
  decoded values directly. Negative `long long` superblock fields are also
  left out: offsets are naturals in this model, except for the
  `SQUASHFS_INVALID_BLK` sentinel.
