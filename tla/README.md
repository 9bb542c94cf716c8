# A verification of libfs

`libfs` (src/libfs) is a FAT file system in a virtual disk, a file of 4096-byte blocks:
superblock, FAT, one root directory block, data blocks. A program links it and calls the
functions of `fs.h`. The library has one thread and no locks; what makes it hard is that its
state lives in two places. The *volume* (FAT, directory, data) outlives a mount; the
*descriptor table* is in memory and keeps copies of what the directory said when a file was
opened. Every call relates the two, and what a call leaves behind is trusted, unchecked, by
the calls after it.

## Inventory

| component | state | operations | what makes it correct |
|---|---|---|---|
| File API, `fs.c` | `disk_mounted`, `fd_table`, `data_blocks`, `root_directory_index` | `fs_mount` ... `fs_read` | a client sees files that are byte sequences; a refused call changes nothing |
| Allocator, `disk.c:154-403` | the FAT and data blocks | `first_block_available`, `allocate_more_blocks`, `add_file_to_disk`, `erase_file`, `skip_blocks`, `total_file_blocks` | no block in two chains, every chain ends, none is lost |
| Descriptor table, `fdTable.c` | nodes, `fdsOccupied` | `addFd`, `removeFd`, `isOpenByName`, `isOpenByFd`, `table_is_full` | the count is the number of nodes in use; a node stands for a listed file; a closed node keeps nothing |
| Block device, `disk.c:36-152` | the host descriptor, the block count | open, close, read and write of a block | open exactly while mounted; in-bounds |
| Volume validation and creation, `isValidMetadata`, `create_disk` | the superblock | - | what is created is accepted; what is accepted fits the image |
| Scratch buffers | `bounce_buffer`, `disk_buffer`, `utilities_buffer` | - | no routine keeps a buffer over a call that reuses it |
| Utilities, `utilities.c` | - | `erase_all_files`, `free_blocks`, dumps | refused with open files |
| Command line client, `apps/test_fs.c` | the script interpreter's `mounted` and `fs_fd` | commands, script lines | its flag and descriptor agree with the library; it unmounts what it mounted |
| Test and demo programs, `apps/` | - | fixed sequences of calls | - |

Interaction: `fs.c` calls `fdTable.c` for descriptors and `disk.c` for chains; `disk.c`
writes the directory itself when a file gets its first block (`add_file_to_disk`), through
the node of the descriptor. `fs_delete` asks the table whether a file is open before it lets
`erase_file` free the chain. `fs_mount` lets `block_disk_open` take a host descriptor, reads
the superblock into `diskMetadata`, asks `isValidMetadata`, and closes the disk again when one
of these two fails; when `block_disk_open` fails after `open(2)`, nobody closes. `test_fs.c` is a process per command, and decides what to call next from
what the library returned. There are no callbacks.

Hard behaviours, each with its line in PROJECT.json under `hazards`:

- **stale copies**: a node's size, first block and directory slot against the directory;
- **boundaries**: loops by block with an offset anywhere in a block, a disk that fills up
  during a write;
- **long sequences of calls**: chains scattered over the disk by files that grow in turns and
  are deleted; nodes reused after `fs_close`; table count against flags;
- **two descriptors on one file**, which `fs.h:134-136` allows;
- **kills** between the block writes of one call, and between the writes of `create_disk`;
  the torn chains some of them leave, on which the next process works unawares;
- **half-failed mounts**, and images that `isValidMetadata` should or should not accept;
- **a client's copy of the library's state**, the flag and descriptor of `test_fs.c script`.

## Modules

| module | models |
|---|---|
| `Iteration` | n turns of a loop body, as a recursive function |
| `Fat` | the allocator: the FAT as a function from slots to links, walks, allocation, erasure |
| `FdTable` | the descriptor table as a record of nodes and a count |
| `FileSystem` | `fs.c`: one action per call, over the volume, the table and what the last call returned |
| `FileStore` | the abstract specification: what `fs.h` promises, without blocks |
| `StoreRefinement` | the refinement mapping from `FileSystem` to `FileStore` |
| `Volume` | images on the host, `create_disk` write by write, the open disk, `isValidMetadata`, `fs_mount` and `fs_umount` with every way to fail, kills, the process's host descriptors |
| `CrashFS` | `FileSystem` with `fs_write`, `fs_delete` and `erase_all_files` taken apart at their block writes, and kills |
| `TestFs` | `test_fs.c`: one process after another, each a sequence of `FileSystem`'s calls |
| `MCFileSystem`, `MCVolume`, `MCCrashFS`, `MCTestFs` | the instances TLC checks |
| `IterationProofs`, `FatProofs` | proofs about loops, and about what the allocator does to chains |
| `FileSystemProofs` | proofs for every client: types, chains, table, where a write goes |
| `SpaceProofs`, `ContentProofs` | proofs for clients that open no file twice: descriptors agree with the directory, no block is lost; sizes fit the blocks, bytes are in place |
| `CrashProofs` | proofs about calls that are killed between two block writes |
| `VolumeProofs`, `TestFsProofs` | proofs about mounting and about the command line client |

`Volume` ends where `FileSystem` begins, at a mounted volume; `CrashFS` and `TestFs` extend
`FileSystem` and use its actions for the calls they do not take apart.

**Correspondence.** `root` is the directory block, `fat` the FAT blocks, `data` the data
blocks; `volume` is the three. `fd_table` is the structure of `fdTable.h`. An action has the
name of its function and is the whole call, its refusals (a `Return(-1)` that changes nothing
else), its early returns and its writes. Loops are `Iterate(body)[turns]` with the body as a
function on a record of the loop's variables: `WriteTurn` and `ReadTurn` are the loops of
`fs_write` and `fs_read`, `AllocateOne`, `EraseOne`, `CountTurn` and `Follow` those of
`disk.c`. A loop that has ended stays where it is. The walks that have no bound in the code
are given `DataBlocks` turns, as many as there are blocks; `WalksEnd` says that this is
enough. `WriteOutcome` puts the phases of `fs_write` together in their order: first
block, extension, clamp, transfer, directory.

In `Volume`, `host` is the image in every file, of which only what a mount looks at is
kept: whether its size is a multiple of `BLOCK_SIZE`, its blocks, its superblock, and whether
FAT entry 0 is `FAT_EOC`. `held` says what the host descriptors of the process are open on;
`forgotten` is a ghost, the descriptors that `block_disk_open` took and failed without closing;
`disk` and `diskMetadata` are those of `disk.c` and `fs.c`, `job` is a `create_disk`
between two of its writes. The fields of the superblock have the width of `struct
DiskMetadata`: `U16` and `U8` are the casts. `fs_mount` is the disjunction of its six
outcomes: no descriptor is taken (`MountRefused`, which includes an `open(2)` that fails); one
is taken and forgotten, since `fstat(2)` fails on whatever image (`MountUnstatable`) or the image
is misaligned (`MountMisaligned`); the superblock cannot be read (`MountUnreadable`), or is not
one (`MountInvalid`), and the disk is closed; or the volume is mounted (`MountAccepted`). What
the host refuses has no guard: it may refuse any call.

In `CrashFS`, `job` is a call between two block writes, with the local variables it will
still use; `pc` names the next write, and the job's step does that write and the
computation up to the next one. The walks of `total_file_blocks` in `fs_write`, which write
nothing, are part of a step that is not taken when the chain has no end (`ChainHasEnd`): the
call then stays where it is. `add_file_to_disk` is clear, directory, FAT; one
turn of `allocate_more_blocks` is clear, link, mark; the write loop is a block a step and
the directory's size comes last; `fs_delete` is the entry and then a FAT write for each
block; `erase_all_files` is a FAT write for each block and then the directory. `before`
and `damage` are ghosts: what the call found, and what kills have left. No other call of
`fs.h` writes more than one block, so those stay actions of `FileSystem`.

In `TestFs`, `proc` is the process: its command, where in the command's function it is, and
the local variables. A command is a chain of library calls, each of which goes on, or to
`bail` (unmount and die), or to `die`. Script lines come in any order. `opened` and `remounted`
are ghosts: the last name `fs_open` took, and whether a MOUNT found the disk mounted. At its end the host
closes what the process left open.

The descriptors a client tries are all of the table's and one past either end; offsets go one
byte past the largest file; names are those that exist, those that do not, and `Null` for
every name `isValidFileName` refuses.

**Data abstraction.** The library never looks at the bytes it moves, so a byte is
`<<file, position, version>>`: whatever turns up at another file's or another position's
place is noticed. `fs_ls` and `fs_info` are kept as the values they print, without layout,
order, and the constants of the superblock.

**Not modelled**, and why.

- The scratch buffers `bounce_buffer`, `disk_buffer` and `utilities_buffer`: each of the three
  files fills its own and writes it back before it calls a routine that uses the same one, so
  the models read and write the volume.
- Host reads and writes that fail once the superblock has been read, and those of `create_disk`
  that fail. `disk.c` and most of `fs.c` ignore them, and what then happens depends on what a
  buffer happened to hold. `open(2)`, `fstat(2)` and the read of the superblock may fail. The bounds test that makes
  `block_read` and `block_write` fail by themselves is in `Volume` (`in_bounds`).
- Memory management (`strdup`, `free`, failing `malloc` and `calloc`).
- 64-bit overflow of `offset + count`.
- The dump routines of `utilities.c`, which change nothing and print.
- The programs `tester`, `simple_reader`, `simple_writer`, `read_write` and
  `file_allocation_test`: fixed sequences of calls without state of their own, each of which
  is a behaviour of `FileSystem`'s client.
- Two processes on one image at once: nothing in the library expects it.
- In `TestFs`: incomplete command lines and script lines, a disk that does not mount, host files
  that cannot be read, and the comparison of `READ`, which only prints. A WRITE without data and a
  READ with an invalid description or a negative length are there.

FAT slots are 16 bits wide and a valid volume has fewer than 65535 blocks, so a link never
equals `FAT_EOC` by accident: `FatAssumption` says so. A file of the largest volume is
smaller than 2^32 bytes, so the 32-bit size in the directory does not overflow.

## Properties and runs

The runs with `SharedOpens = TRUE` let a client open a file that it has open already. The
others do not: with two descriptors on one file the library keeps no promise about contents
(the caches of the two go apart), and what it keeps is the structure, which is what the first
run is about.

| run | instance | shows |
|---|---|---|
| `shared_opens` | 2 names, 2 descriptors, 3 usable blocks of 1 byte, writes of up to 2 bytes, shared opens | `TypeOK`, `ChainInv` (the inductive invariant), `ChainsDisjoint`, `WalksEnd`, `WritesStayInOwnChain` |
| `fragments` | 2 names, 2 descriptors, 3 usable blocks of 2 bytes | `NoBlockLeaks`, `BlocksMatchSize`, `BytesInPlace`, `CacheIsCurrent` |
| `two_open` | 2 names, 2 descriptors, 2 usable blocks of 2 bytes | `ImplementsFileStore` |
| `one_file` | 1 name, 2 versions of every byte, 3 usable blocks of 2 bytes, calls of up to 5 bytes | `ImplementsFileStore` |
| `volume` | 2 files, 2 host descriptors, FAT blocks of 2 entries, disks of up to 3 data blocks, all foreign images of up to 7 blocks with counts right or one off | `TypeOK`, `MountIsAllOrNothing`, `DescriptorsAccounted`, `RegionsApart`, `CreatedDisks` |
| `crash` | `CarefulSpec`: 2 names, 1 descriptor, 3 usable blocks of 1 byte, writes of up to 2 bytes, kills | `TornExactly`, `ChainsSurviveKill`, `BytesSurviveKill`, `LeaksOnlyByDelete`, `CallsAreAtomic` |
| `crash_live` | the same with 2 usable blocks | `CallsReturn` |
| `client` | 2 names, 2 descriptors, 3 usable blocks of 2 bytes, scripts of up to 4 lines | `FlagAgrees`, `EndsUnmounted`, `FdIsLastOpened`, `CatPrintsTheFile`, `AddCutsOnlyWhenFull` |
| `umount` | expected violation | `UmountRefusedWhileOpen` |
| `stat` | expected violation | `StatIsCurrent` |
| `torn` | `CrashSpec`: 1 name, 1 descriptor, 2 usable blocks of 1 byte, kills, expected violation | `CallsReturn` |
| `misfit` | the instance of `volume`, expected violation | `DataOnDisk` |

**Refinement.** `FileStore` has byte sequences by name and offsets by descriptor. It says
what every call answers, including the number of bytes a write is cut short to when the disk
is full: the blocks of a file are those its size needs, and all the files share the capacity.
`StoreRefinement` reads a file's bytes off its chain. Every call of the detailed
specification is a step of the abstract one or leaves it alone.

`CallsAreAtomic` is the second refinement: `CrashFS` implements `FileSystem`. While a call is
under way the mapping shows the volume and the table as the call found them; the step
that ends it must be the same `FileSystem` call, with the same arguments and the same
answer. Kills aside, this also holds on volumes that earlier kills have left with blocks
beyond a file's size or blocks of no file.

**Kills.** A kill ends the process between two block writes; the writes it has made stay, in
their order (the page cache outlives the process), and a block is written whole. `crash`
finds out what that leaves:

- `fs_write` tears a file, so that its chain leads to a free block, when it is killed after
  the directory names a first block that the FAT does not yet claim (`disk.c:175-179`), or
  after a block is linked and before it is marked as the end (`disk.c:317-319`).
  Anywhere else it leaves at most blocks the size does not need, and every byte old or new.
- `erase_all_files` tears every file it has begun to erase, since the directory comes last.
- `fs_delete` tears nothing: it clears the entry first. What it has not freed is lost.
- `create_disk` killed between the superblock and the FAT leaves a disk that `fs_mount`
  accepts with block 0 not set aside (`CreatedDisks`).

`TornExactly` says that these are all. The library has neither check nor repair, so a volume with
a torn file can be mounted again, and the next call then works on a FAT that none of its routines
is written for. `CrashSpec` is the code, and has this; the run `torn` shows what it can come to,
a call that never returns. `CarefulSpec` adds a client that throws a volume away once a kill has
torn a file on it (`CarefulNext`), and the other properties of `CrashFS` are about that
client: they say nothing of what happens after a torn volume has been mounted again.

**Bounds and why they are enough.** Four data blocks (block 0 is never handed out) let two
files grow in turns, one of them be deleted and its blocks be reused in a different order, so
chains run up and down and skip. Two bytes to a block give every case of the loops: start and
end at, inside and across a boundary; calls of three to five bytes span up to three
blocks. Two directory entries and two descriptors make both full. Two descriptors on one file
are the least with stale copies. `FatCapacity` exceeds `DataBlocks`, so the padding slots of
the last FAT block are there (`fs_info` counts them, `first_block_available` does not).
In `volume`, two entries to a FAT block and up to five data blocks make one, two and three FAT
blocks, with the last one full and not; two host descriptors are few enough for a process to
forget all it has. In `crash`, blocks of one byte make every write that matters (a first
block, an extension by one and by two, a disk that fills up, a deletion of several blocks) with
the fewest bytes, and nothing bounds the number of kills. In `client`, a file of three bytes
has two blocks and two of them overfill the disk; four lines are MOUNT, OPEN of one
file, OPEN of another and a line that uses `fs_fd`, or CLOSE and a line after it. A process
starts on what all the earlier ones have left, so commands build up longer histories than
a script does.
In `one_file` a write of five bytes takes all three blocks, a read goes through them, and the
two versions tell an overwritten byte from an old one. In `torn` one file of one block and two kills
are enough.
`MaxCount` and `OffsetArgs` bound what a client passes. Names are symmetric, and so are versions. Where no
property looks at `result`, a VIEW leaves it out of the state; no action reads it.

**Mutants.** Beside some definitions stands a variant marked `mutant`, with the mistake a
programmer could make there (a scan that stops at `fdsOccupied`, blocks taken for contiguous,
a new end of a chain not marked...). No specification uses them. PROJECT.json pairs each with
the property that TLC finds violated when the variant takes the definition's place.

**Fairness and liveness.** `CrashSpec` and `CarefulSpec` have weak fairness of `JobStep`: a call that has begun waits
for nothing, neither a lock nor another process, so a process that is not killed runs it on.
There is none for a client's decision to call, for `Kill`, or anywhere else; `FileSystem`,
`Volume` and `TestFs` have no fairness, as nothing obliges a client to call. Under it
`CallsReturn` says that every call returns or its process is killed: the loops of `disk.c` have no
bound of their own. It holds for `CarefulSpec`, on every volume that kills can leave without a torn
file (`crash_live`), and not for `CrashSpec` (`torn`). A loop that goes round for ever is a call
none of whose steps can be taken any more (`total_file_blocks`), or one whose step changes nothing
(`erase_file` from block 0 to block 0). In `FileSystem` a call is
one step and the same is the invariant `WalksEnd`. No run stops: every state has a call
to make.

**What disagrees with the documentation.**

- `fs_umount` succeeds with descriptors open; `fs.h:76-77` says it returns -1 (`umount`).
- `fs_stat` answers from the copy in the descriptor, which a write through another descriptor
  does not refresh; `fs.h:161` says it is the current size (`stat`). The same copies make two
  descriptors on one empty file each start a chain (`fs.c:428`): the first one's blocks are
  then out of the directory's reach.
- `fs_mount` accepts an image that does not hold all the data blocks its superblock promises,
  since `isValidMetadata` (`fs.c:678`) bounds data and FAT blocks one by one and never adds them
  up; `fs.h:65-66` says it fails if no valid file system can be located (`misfit`). No disk of
  `create_disk` is of that kind (`CreatedDisks`).
- A call may never return on a volume that a kill has torn, which `fs_mount` does not refuse;
  `fs.h:112-114` has -1 and 0 as the only outcomes of `fs_delete` (`torn`). One way there: `fs_write`
  is killed after the directory names a first block and before the FAT claims it;
  `erase_all_files` of the next process frees the block, takes its 0 for the next block, frees block
  0 too, and is killed before it writes the directory; the next process erases the same file,
  comes to block 0, and goes from block 0 to block 0 (`disk.c:191-204`).

## What is proved

By TLAPS, for every number of blocks, names, entries and descriptors, every block size, and
with or without shared opens, about `FileSystem` (assumptions: `FatAssumption`,
`TableAssumption`, `ClientAssumption`, each in the module that declares the constants):

- `TypeCorrect`: `Spec => []TypeOK`. No block number outside the data region is ever stored
  or followed, and `fdsOccupied` stays in `0 .. FS_OPEN_MAX_COUNT`.
- `ChainsSound`: `Spec => []ChainInv`.
- `FilesDisjoint`: `Spec => []ChainsDisjoint`.
- `EveryWalkEnds`: `Spec => []WalksEnd`.
- `WritesStayInside`: `Spec => WritesStayInOwnChain`.

And under `~SharedOpens`, for clients that open no file twice:

- `CacheCurrent`: `Spec => []CacheIsCurrent`.
- `NothingLeaks`: `Spec => []NoBlockLeaks`.
- `SizesMatchBlocks`: `Spec => []BlocksMatchSize`.
- `BytesStayInPlace`: `Spec => []BytesInPlace`.

**The argument.** `ChainsDisjoint` is not inductive: it says nothing of where a free block
may be linked from. `ChainInv` is what is kept. The FAT is *well linked* when no link leads
to a free block or to block 0 and no two blocks link to the same one; a *head*, where the
directory or a descriptor starts a walk, is allocated and linked to by nobody. Then a
free block is reached by nothing (`FreeBlockUnlinked`), so the allocator may link it
(`NewChain`, `LinkFreeBlock`, `AllocateMore`); erasing from a head unlinks one block at a
time and passes headship down the chain (`UnlinkFirst`, `EraseFile`); and two walks from
different heads can not meet, since the place where they did would have two predecessors
or be a head with one (`ChainsApart`). The rest of `ChainInv` ties the table to the
directory: the count is right, so `isOpenByName` finds exactly the open files
(`OpenByName`) and `fs_delete` frees no chain of a descriptor; a closed node is reset, so
`fs_open` of a file without blocks does not inherit a first block; a descriptor's slot is
still its file's, so `fs_write` writes the right entry. `IInv` is `TypeOK /\ ChainInv`:
`fs_write` stores bytes of a listed file only because `OpenFilesListed` holds. There is one
lemma for each call, and one for each phase of `fs_write` and each loop body.

`EveryWalkEnds` counts: as long as a chain does not end it meets another block at each hop,
since the first place it came back to would have two predecessors or be a head with one, and
it never meets block 0; so it cannot make as many hops as there are blocks
(`ChainEnds`). Hence a chain is closed under links (`ChainClosed`).

`WritesStayInside` follows a write through its phases. Allocation touches free blocks only and
makes links lead to nothing else (`Grown`, `AllocateGrows`); after it, the walk of the
write loop meets blocks of the descriptor's old chain and blocks that were free
(`GrownChain`), and a turn of the loop stores into the block it is at (`WriteTurnInside`).

`CacheCurrent` needs two things that the property does not say (`CacheInv`). No two
descriptors stand for one name, so the entry a write changes is kept by nobody else. And
an entry without blocks has size 0: `fs_open` copies nothing from such an entry, and
leaves the 0 that the constructor or `fs_close` put there.

`NothingLeaks` needs more of the allocator than that it keeps chains sound, and `FatProofs`
has it. `total_file_blocks` stops at the end of a chain (`TotalIsLength`), so
`allocate_more_blocks` links behind the last block and every block it takes is reached from the
first (`AllocateAppends`); `erase_file` frees the chain it is given, all of it and nothing
else (`EraseExact`): a block it had left would need a predecessor that it left too, and
so on up to the head. The inductive invariant is `NoOrphans`, that the directory reaches
everything that is taken. Only with `CacheCurrent` is it kept: the first block of the node is
then that of the entry, and the blocks a write takes are reached through it. With two
descriptors on one empty file each can start a chain, and the first one's blocks are
lost to the directory; `NothingLeaks` therefore assumes `~SharedOpens`.

`SizesMatchBlocks` counts blocks. `total_file_blocks` is the length of the walk
(`TotalIsLength`), and `allocate_more_blocks` makes the chain longer by exactly the number it
returns, which is at most the number it was asked for (`AllocateCounts`). So the clamp of
`end_offset` in `fs_write` puts it inside the blocks the file has, in the last of them if any was
added (`SizeFits`). The write loop gets to `end_offset`, because each turn moves at least one
byte as long as it is not there (`TransferredSize`), and what it leaves in the offset is the
size that goes to the entry. The inductive invariant is `FilesFit`, the property without
a division (`FitsBlockSize`); it needs `CacheInv`, since the size that is written is the
descriptor's.

`BytesStayInPlace` needs all of this. At the top of the write loop the block is the one of the
offset and every byte up to the size is where it was written (`Writing`): a turn stores into
one block of the chain, and no other place of the file is in that block, since a walk does not
meet a block twice before the end of the chain (`WalkDistinct`); it goes on only if it got to
the end of its block (`TurnReaches`). Before the loop, allocation puts blocks behind those the
file has and changes none of them (`ExtendedBytes`); a byte outside the file, in a block that
was cleared or not, is outside the size. For the other files `SameChain` and `WritesStayInside`
say that their walks and blocks are as before. `FilesHeld` and `FilesFit` are one inductive
invariant, `ContentInv`, because the loop stays in the chain only if the size fits it.

Loops are reasoned about with `IterateInvariant`: what the body preserves holds after any
number of turns. It rests on an induction over the naturals for sets (`NatSetInduction`),
proved in `IterationProofs` from the fact that the recursive function exists.

About `Volume`, for any files, foreign images and host descriptors, and for disks of any size
(`VolumeAssumption`, `ForeignAssumption`):

- `SizesFit`: with 2048 entries to a FAT block and 8198 data blocks, the numbers of the code,
  the counts fit the fields of the superblock, as `VolumeAssumption` asks.
- `CreatedValid`: what `create_disk` writes is what `isValidMetadata` accepts, and the data fits.
- `VolumeTypeCorrect`, `MountAllOrNothing`, `NoOtherLeak`, `MountedRegions`,
  `CreatedDisksSound`: the five invariants of the run `volume`.

The inductive invariant (`VolumeInvariance`) adds to them what a disk under construction looks
like before each of its writes: until the superblock is there its signature is missing, so
that no mount takes it, and from then on superblock and size are those of a finished
disk. What remains
is arithmetic: rounding up in `isValidMetadata` and in `create_disk` agree
(`FatBlocksEnough`), and quotient and remainder of a block number determine it
(`EntriesApart`). `MountedRegions` is why `FileSystem` may have the FAT as one function.

`NoOtherLeak` says which host descriptors the process holds: that of the open disk, that of the
disk under construction, and those `block_disk_open` has forgotten on a failed `fstat` or a misaligned
image, and no other.

About `TestFs`, for scripts of any length (`ScriptAssumption`): `FlagsAgree`,
`ProcessesEndUnmounted`, `ScriptDescriptor` and `ClientFilesDisjoint`, and under
`~SharedOpens`, for scripts that OPEN no file they have open (the interpreter lets them,
`test_fs.c:125-135`), `CatPrints` (`TestSpec => []CatPrintsTheFile`), `AddCuts` (`TestSpec =>
[]AddCutsOnlyWhenFull`) and `ClientFilesIntact`. `ProcessesEndUnmounted` is an equivalence: a
process ends with the disk mounted exactly if it is cat and `fs_stat` said 0, or a script died of a
MOUNT of the disk it had mounted. The invariant
(`ClientInvariance`) is `IInv` of `FileSystem`, which every step keeps because it makes at most
one call, `ProcInv`, which says how far each command may have come and what it knows there,
and the three properties. `EndsUnmounted` is inductive with what `ProcInv` says of the two ghosts
and of what `fs_stat` answered as long as the process has not ended. `ScriptDescriptor` needs that no call renames an open node and that
`fs_open` names the one it takes; a CLOSE or a UMOUNT leaves `fs_fd` a number that
`isOpenByFd` refuses until `fs_open` gives it out again, to the name in `opened`.

`CatPrints` and `AddCuts` need to know what a command has at hand at each of its calls
(`CommandInv`): a descriptor that has just been opened is at offset 0 and has the size of its
entry (`OpenedFresh`), what `fs_stat` said is still the size when `fs_read` is called, and the file
`add` writes to was created empty. Then the read loop fills the buffer: at the top of it `buf` has
the bytes of the file from the start to the offset (`Reading`, `ReadTurnBytes`), and the loop gets
to `end_offset` (`ReadOutcomeBytes`); that these bytes are the file's is `FilesHeld` of
`BytesStayInPlace`. And `fs_write` stops before the end of what it was given only if
`allocate_more_blocks` was cut short, which happens on a full disk only (`AllocateCounts`,
`WriteOutcomeSize`). Both hold between any processes, so the volume's own invariants have to be
kept by every step of the client: each is a call of `FileSystem.Next`, or the `fs_read` of cat
with a count of any size (`ClientCalls`).

About `CrashFS`, for every number of kills and for clients that mount no torn volume:
`SoundAfterKill` (`CarefulSpec => []ChainsSurviveKill`), and under `~SharedOpens`

- `KillTearsExactly`: `CarefulSpec => []TornExactly`,
- `BytesSurvive`: `CarefulSpec => []BytesSurviveKill`,
- `OnlyDeletesLeak`: `CarefulSpec => []LeaksOnlyByDelete`.

A call that is taken apart breaks `FileSystem`'s invariant on its way, so the invariant
(`CrashInv`) has what no step of a call breaks (`TableInv`) and, for each `pc`, what is
true of the FAT there (`AtSomePoint`). Between naming a first block and claiming it, the FAT
is sound but for that head (`Unclaimed`); between linking a block and marking it, the FAT is
the one it will be when the mark is there (`Marked`), and that one is sound; `fs_delete` has the
rest of the chain as one more head that the directory does not have; `erase_all_files`
has behind it entries whose first block is free and before it entries whose chains are whole. A
torn volume is not mounted by this client, so nothing happens to it (`WreckedStep`). `KillSpares` is the
heart of `SoundAfterKill`: where `Torn` is empty, the chains the directory starts are sound.

The contents need a second invariant (`KeptInv`), about the FAT as `Marked` has it. An entry
is *intact* when its first block is claimed there. The bytes of every intact file are in
its blocks (`FilesKept`), since a step that changes the FAT leaves its chain as it was or makes
it longer at the end (`Longer`, `HeldKept`), and the steps that clear a block clear a free one.
Every taken block is in a chain that starts at an *owner*: the entries, and the block the call
under way will erase next (`BlocksOwned`), as long as no kill has cut a deletion. All
descriptors agree with their entries except the one a write goes through, which is ahead of its
entry by a first block at one point and by a size at another (`AheadOf`); and during the
transfer the invariant of the write loop holds (`Moving`, the same `Writing` as in
`BytesStayInPlace`, one block at a time). `TornFiles` then says that the files of `Torn` are those
that are not intact and the one whose last block is to be marked: for `TornExactly` a
chain of any other intact file meets no free block (`TornIsExact`), and the chain that is to
be marked does (`TailReached`). The calls of one step keep all this because they are
calls of `FileSystem` (`NextInv`, `CacheNext`, `LeakNext`) which write no chain there.

`CallsAtomic` is the second refinement, `CarefulSpec => CallsAreAtomic`, with or without shared
opens and for any number of kills. The mapping hides what a call under way has written, so the step that ends
it has to be explained by everything the call has done since it started, and `CrashInv` has
forgotten that. The history invariant (`Follows`) says, for each `pc`, that what is there is what
the call found after as many turns as it has made of the loop `FileSystem` runs in one step: of
`allocate_more_blocks` (`InTurn`, up to one block taken and not yet linked or marked), of the
transfer (`OnTransfer`), of `erase_file` (`ErasingFrom`) and of `erase_all_files`
(`OnSweep`, `OnErase`), with the first block of an empty file placed before them (`Placed`).
A block write is then the next turn or a part of it, and a call returns where the loop stands
still: a loop that has come to a state which a turn leaves alone stays there, and there is one
such state (`IterateStays`, `IterateSettles`), so the turns the call has made are as good as
the number of them `FileSystem` takes. That `FileSystem`'s walks of the chain find the same
blocks needs `TableInv`, so the theorem rests on `CrashInv` too. TLC found `Follows` to hold in
every state of `crash` before it was proved.

**Only model-checked.** The refinement of `FileStore`, whose sum over the files is an induction
over data. `CallsReturn` is liveness and out of the prover's reach.

## Plan

1. Done: `FileSystem` with its parts, `FileStore` and the refinement; `Volume`; `CrashFS`;
   `TestFs`; the proofs above.
2. The refinement of `FileStore`: its sum stated as the cardinality of a set of blocks by
   file and position, so that the library's facts on finite sets replace the induction; then a
   step of each call to the same call of `FileStore`.
