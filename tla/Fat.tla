--------------------------------- MODULE Fat ---------------------------------
(***************************************************************************)
(* The allocator of libfs/disk.c: the file allocation table (FAT) and the   *)
(* routines that walk, extend and erase the block chains of files.          *)
(*                                                                          *)
(* The FAT is a function from slots to 16-bit values.  Slot b describes     *)
(* data block b: 0 means free, FAT_EOC ends a chain, anything else is the   *)
(* next data block.  0 is therefore both "free" and "block 0"; block 0 is   *)
(* set aside when a disk is made (its slot holds FAT_EOC), and the code     *)
(* never tests a walked value against 0.  The slots past the last data      *)
(* block pad the last FAT block.                                            *)
(***************************************************************************)
EXTENDS Integers, FiniteSets, Iteration

CONSTANTS
  DataBlocks,   \* data_blocks: how many data blocks the volume has
  FatCapacity,  \* how many slots its FAT blocks hold together
  BlockSize,    \* BLOCK_SIZE, in bytes
  Names,        \* the file names isValidFileName accepts
  Versions,     \* what tells apart the bytes of two writes to the same place
  Zero          \* the byte that calloc and memset leave behind

FAT_EOC == 65535

\* isValidMetadata accepts only 16-bit counts, with room for the superblock,
\* the root directory and a FAT block, so a block number never equals FAT_EOC.
ASSUME FatAssumption ==
  /\ DataBlocks \in 1 .. FAT_EOC - 3
  /\ FatCapacity \in Nat /\ FatCapacity >= DataBlocks
  /\ BlockSize \in Nat \ {0}

Blocks == 0 .. DataBlocks - 1
Slots == 0 .. FatCapacity - 1
Links == Blocks \cup {FAT_EOC}

\* The code never looks at the bytes it moves, so a byte is known by where and
\* when it was written: the file, the position in it and the version of the
\* write.  A byte that turns up anywhere else is out of place.
Byte == {Zero} \cup (Names \X Nat \X Versions)

FatType == [Slots -> Links]
DataType == [Blocks -> [0 .. BlockSize - 1 -> Byte]]

-----------------------------------------------------------------------------
(* One entry, one block.                                                   *)

get_fat_entry(fat, b) == fat[b]
set_fat_entry(fat, b, value) == [fat EXCEPT ![b] = value]
clear_block(data, b) == [data EXCEPT ![b] = [i \in 0 .. BlockSize - 1 |-> Zero]]

\* mutant: the blocks that are filled, not those that are started.
total_block_size_FilledOnly(size_in_bytes) == size_in_bytes \div BlockSize

total_block_size(size_in_bytes) ==
  size_in_bytes \div BlockSize + (IF size_in_bytes % BlockSize # 0 THEN 1 ELSE 0)

current_block_offset(byte_offset) == byte_offset \div BlockSize

-----------------------------------------------------------------------------
(* Walking a chain.                                                        *)

\* One turn of the walking loops: follow the link, or stay at the end.
Follow(fat) ==
  [b \in Blocks |-> IF get_fat_entry(fat, b) = FAT_EOC THEN b ELSE get_fat_entry(fat, b)]

skip_blocks(fat, b, n) ==
  IF b = FAT_EOC THEN b ELSE Iterate(Follow(fat), b)[n]

CountState == [block : Blocks, count : Nat]

CountTurn(fat) ==
  [s \in CountState |->
     LET next == get_fat_entry(fat, s.block)
     IN  IF next = FAT_EOC THEN s ELSE [block |-> next, count |-> s.count + 1]]

\* A chain has at most DataBlocks blocks, so the loop is over after that many turns.
total_file_blocks(fat, b) ==
  IF b = FAT_EOC THEN 0 ELSE Iterate(CountTurn(fat), [block |-> b, count |-> 1])[DataBlocks].count

\* The blocks of the chain that starts at b.
ChainOf(fat, b) == {skip_blocks(fat, b, n) : n \in Blocks}

-----------------------------------------------------------------------------
(* A FAT whose chains are sound.                                           *)

HasNext(fat, b) == fat[b] \notin {0, FAT_EOC}

\* Block 0 is never handed out, and no link leads to a free block.
LinksLeadToAllocated(fat) ==
  /\ fat[0] = FAT_EOC
  /\ \A b \in Blocks : HasNext(fat, b) => fat[fat[b]] # 0

LinksAreInjective(fat) ==
  \A b, c \in Blocks : HasNext(fat, b) /\ fat[b] = fat[c] => b = c

WellLinked(fat) == LinksLeadToAllocated(fat) /\ LinksAreInjective(fat)

\* An allocated block that no other block links to.
StartsChain(fat, h) ==
  h \in Blocks \ {0} /\ fat[h] # 0 /\ \A b \in Blocks : fat[b] # h

-----------------------------------------------------------------------------
(* Allocation: the free block with the smallest number, always.            *)

FreeBlocks(fat) == {b \in Blocks : fat[b] = 0}

DiskFull(fat) == FreeBlocks(fat) = {}

first_block_available(fat) ==
  CHOOSE b \in FreeBlocks(fat) : \A c \in FreeBlocks(fat) : b <= c

AllocState == [fat : FatType, data : DataType, end_block : Blocks, new_blocks : Nat]

\* mutant: the new end is not marked, so it still counts as free.
AllocateOne_EndNotMarked ==
  [s \in AllocState |->
     IF DiskFull(s.fat) THEN s
     ELSE LET b == first_block_available(s.fat)
          IN  [fat        |-> set_fat_entry(s.fat, s.end_block, b),
               data       |-> clear_block(s.data, b),
               end_block  |-> b,
               new_blocks |-> s.new_blocks + 1]]

\* One turn of the allocation loop.  A block is zeroed, linked behind the end of
\* the chain and only then marked as the new end.
AllocateOne ==
  [s \in AllocState |->
     IF DiskFull(s.fat) THEN s
     ELSE LET b == first_block_available(s.fat)
          IN  [fat        |-> set_fat_entry(set_fat_entry(s.fat, s.end_block, b), b, FAT_EOC),
               data       |-> clear_block(s.data, b),
               end_block  |-> b,
               new_blocks |-> s.new_blocks + 1]]

\* mutant: the new blocks are linked behind the first block, not behind the last.
allocate_more_blocks_BehindFirst(fat, data, first, needed_blocks) ==
  Iterate(AllocateOne, [fat |-> fat, data |-> data, end_block |-> first, new_blocks |-> 0]
         )[needed_blocks]

allocate_more_blocks(fat, data, first, needed_blocks) ==
  LET end_block == skip_blocks(fat, first, total_file_blocks(fat, first) - 1)
  IN  Iterate(AllocateOne,
              [fat |-> fat, data |-> data, end_block |-> end_block, new_blocks |-> 0]
             )[needed_blocks]

-----------------------------------------------------------------------------
(* Erasure: zero the entries of a chain from its head to its end.          *)

EraseState == [fat : FatType, block : Blocks, done : BOOLEAN]

EraseOne ==
  [s \in EraseState |->
     IF s.done THEN s
     ELSE LET next == get_fat_entry(s.fat, s.block)
          IN  [fat   |-> set_fat_entry(s.fat, s.block, 0),
               block |-> IF next = FAT_EOC THEN s.block ELSE next,
               done  |-> next = FAT_EOC]]

\* mutant: the rest of the chain is forgotten.
erase_file_FirstOnly(fat, b) == IF b = FAT_EOC THEN fat ELSE set_fat_entry(fat, b, 0)

\* Each turn frees a block, so a chain is gone after at most DataBlocks turns.
erase_file(fat, b) ==
  IF b = FAT_EOC THEN fat
  ELSE Iterate(EraseOne, [fat |-> fat, block |-> b, done |-> FALSE])[DataBlocks].fat

-----------------------------------------------------------------------------
(* What fs_info reports.  It counts the slots of every FAT block, padding   *)
(* included.                                                               *)

fat_available(fat) == DataBlocks - Cardinality({s \in Slots : fat[s] # 0})

==============================================================================
