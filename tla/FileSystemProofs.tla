--------------------------- MODULE FileSystemProofs ---------------------------
(***************************************************************************)
(* Proofs about FileSystem: that its types and the structure of its chains  *)
(* and its descriptor table are preserved by every call, for any number of  *)
(* files, descriptors and blocks, and whether or not a file may be open     *)
(* under several descriptors.                                               *)
(***************************************************************************)
EXTENDS FileSystem, FatProofs, FiniteSetTheorems

\* Neither half is inductive by itself: the bytes that fs_write stores are those of
\* a listed file because OpenFilesListed says so.
IInv == TypeOK /\ ChainInv

-----------------------------------------------------------------------------
(* Arithmetic of the loops.                                                *)

LEMMA DivMod ==
  ASSUME NEW n \in Nat
  PROVE  /\ n \div BlockSize \in Nat
         /\ n % BlockSize \in Nat
         /\ n % BlockSize \in 0 .. BlockSize - 1
         /\ n = BlockSize * (n \div BlockSize) + (n % BlockSize)
BY Sizes

\* A turn of the loops of fs_write and fs_read moves at least one byte, and none
\* past the end of the block or past end_offset.
LEMMA TurnFits ==
  ASSUME NEW offset \in Nat, NEW end_offset \in Nat, offset < end_offset
  PROVE  /\ TurnLength(offset, end_offset) \in Nat \ {0}
         /\ (offset % BlockSize) + TurnLength(offset, end_offset) <= BlockSize
         /\ offset + TurnLength(offset, end_offset) <= end_offset
<1> DEFINE q == offset \div BlockSize
           r == offset % BlockSize
           qq == end_offset \div BlockSize
           rr == end_offset % BlockSize
<1>1. /\ q \in Nat /\ r \in Nat /\ r < BlockSize /\ offset = BlockSize * q + r
      /\ qq \in Nat /\ rr \in Nat /\ rr < BlockSize /\ end_offset = BlockSize * qq + rr
  BY DivMod, Sizes
<1>2. TurnLength(offset, end_offset) = IF q < qq THEN BlockSize - r ELSE rr - r
  BY DEF TurnLength, current_block_offset
<1> SUFFICES TurnLength(offset, end_offset) \in Nat \ {0}
             /\ r + TurnLength(offset, end_offset) <= BlockSize
             /\ offset + TurnLength(offset, end_offset) <= end_offset
  OBVIOUS
<1> HIDE DEF q, r, qq, rr
<1>3. CASE q < qq
  <2>1. BlockSize * (q + 1) <= BlockSize * qq /\ BlockSize * (q + 1) = BlockSize * q + BlockSize
    BY <1>1, <1>3, Sizes
  <2>2. BlockSize * q \in Nat /\ BlockSize * qq \in Nat
    BY <1>1, Sizes
  <2>3. QED
    BY <1>1, <1>2, <1>3, <2>1, <2>2, Sizes
<1>4. CASE ~(q < qq)
  <2>1. q >= qq /\ BlockSize * q >= BlockSize * qq
    BY <1>1, <1>4, Sizes
  <2>2. BlockSize * q \in Nat /\ BlockSize * qq \in Nat
    BY <1>1, Sizes
  <2>3. r < rr
    BY <1>1, <2>1, <2>2
  <2>4. QED
    BY <1>1, <1>2, <1>4, <2>1, <2>2, <2>3, Sizes
<1>5. QED
  BY <1>3, <1>4

LEMMA BlockCountType ==
  ASSUME NEW n \in Nat
  PROVE  total_block_size(n) \in Nat /\ current_block_offset(n) \in Nat
BY DivMod DEF total_block_size, current_block_offset

LEMMA ProductType ==
  ASSUME NEW n \in Nat
  PROVE  n * BlockSize \in Nat
BY Sizes

-----------------------------------------------------------------------------
(* The steps of fs_write.                                                  *)

WState == [fat : FatType, data : DataType, root : [DirSlots -> DirEntry], node : NodeType]

\* One turn of the write loop keeps to the data region and to the bytes of buf.
LEMMA WriteTurnType ==
  ASSUME NEW table \in FatType, NEW end_offset \in Nat, NEW buf \in [Nat -> Byte],
         NEW start \in Nat, NEW s \in WriteState, s.offset >= start
  PROVE  /\ WriteTurn(table, end_offset, buf, start)[s] \in WriteState
         /\ WriteTurn(table, end_offset, buf, start)[s].offset >= start
<1> DEFINE t == WriteTurn(table, end_offset, buf, start)[s]
           length == TurnLength(s.offset, end_offset)
           first == s.offset % BlockSize
           last == s.offset + length
           stored == [i \in 0 .. BlockSize - 1 |->
                        IF i \in first .. first + length - 1
                        THEN buf[s.offset - start + i - first]
                        ELSE s.data[s.block][i]]
<1>1. s.offset \in Nat /\ s.size \in Nat /\ s.block \in Blocks /\ s.data \in DataType
  BY DEF WriteState
<1>2. CASE s.offset >= end_offset
  BY <1>1, <1>2 DEF WriteTurn
<1>3. CASE ~(s.offset >= end_offset)
  <2>1. length \in Nat /\ first \in Nat /\ last \in Nat /\ last >= start
    <3>1. length \in Nat
      BY <1>1, <1>3, TurnFits
    <3>2. first \in Nat
      BY <1>1, DivMod
    <3> HIDE DEF length, first
    <3>3. QED
      BY <1>1, <3>1, <3>2
  <2>2. t = [offset |-> last,
             size   |-> IF last > s.size THEN last ELSE s.size,
             block  |-> NextBlock(table, s.block, last, end_offset),
             data   |-> [s.data EXCEPT ![s.block] = stored]]
    BY <1>3 DEF WriteTurn
  <2>3. stored \in [0 .. BlockSize - 1 -> Byte]
    <3>1. ASSUME NEW i \in 0 .. BlockSize - 1
          PROVE  s.data[s.block][i] \in Byte
      BY <1>1 DEF DataType
    <3>2. ASSUME NEW i \in 0 .. BlockSize - 1, i \in first .. first + length - 1
          PROVE  buf[s.offset - start + i - first] \in Byte
      <4>1. s.offset - start + i - first \in Nat
        BY <1>1, <2>1, <3>2, Sizes
      <4>2. QED
        BY <4>1
    <3>3. QED
      BY <3>1, <3>2
  <2> HIDE DEF stored, length, first, last, t
  <2>4. [s.data EXCEPT ![s.block] = stored] \in DataType
    BY <1>1, <2>3 DEF DataType
  <2>5. NextBlock(table, s.block, last, end_offset) \in Blocks
    BY <1>1, SkipStep DEF NextBlock
  <2>6. QED
    BY <1>1, <2>1, <2>2, <2>4, <2>5 DEF WriteState, t
<1>4. QED
  BY <1>2, <1>3

\* What fs_write does to the node and the directory leaves the names, the entry the
\* node stands for and the first blocks as they are.
SameFile(w, v) ==
  /\ v.node.in_use = w.node.in_use
  /\ v.node.filename = w.node.filename
  /\ v.node.dir_entry_index = w.node.dir_entry_index
  /\ \A i \in DirSlots : v.root[i].filename = w.root[i].filename

\* The write loop changes no chain.
LEMMA TransferredType ==
  ASSUME NEW w \in WState, w.node.first_data_block \in Blocks,
         NEW end_offset \in Nat, NEW buf \in [Nat -> Byte],
         NEW v, v = Transferred(w, end_offset, buf)
  PROVE  /\ v \in WState
         /\ SameFile(w, v)
         /\ v.fat = w.fat
         /\ v.node.first_data_block = w.node.first_data_block
         /\ \A i \in DirSlots : v.root[i].index = w.root[i].index
<1> DEFINE start == w.node.offset
           block == skip_blocks(w.fat, w.node.first_data_block, current_block_offset(start))
           s0 == [offset |-> start, size |-> w.node.size, block |-> block, data |-> w.data]
           T == {s \in WriteState : s.offset >= start}
           f == WriteTurn(w.fat, end_offset, buf, start)
<1>1. /\ w.fat \in FatType /\ w.data \in DataType /\ w.root \in [DirSlots -> DirEntry]
      /\ w.node \in NodeType /\ start \in Nat /\ w.node.size \in Nat
      /\ w.node.dir_entry_index \in DirSlots
  BY DEF WState, NodeType
<1>2. s0 \in T
  <2>1. block \in Blocks
    BY <1>1, SkipStep, BlockCountType
  <2> HIDE DEF block
  <2>2. QED
    BY <1>1, <2>1 DEF WriteState
<1>3. ASSUME NEW s \in T
      PROVE  f[s] \in T
  <2>1. s \in WriteState /\ s.offset >= start
    OBVIOUS
  <2>2. QED
    BY <1>1, <2>1, WriteTurnType
<1> HIDE DEF s0, T, f
<1>4. \A n \in Nat : Iterate(f, s0)[n] \in T
  BY <1>2, <1>3, IterateInvariant
<1> DEFINE s == Iterate(f, s0)[end_offset]
<1>5. s.offset \in Nat /\ s.size \in Nat /\ s.data \in DataType
  BY <1>4 DEF T, WriteState
<1>6. v = [w EXCEPT !.data = s.data,
                    !.node = [@ EXCEPT !.offset = s.offset, !.size = s.size],
                    !.root = [@ EXCEPT ![w.node.dir_entry_index].size = s.size]]
  BY DEF Transferred, f, s0
<1> HIDE DEF s
<1> DEFINE node == [w.node EXCEPT !.offset = s.offset, !.size = s.size]
           dir == [w.root EXCEPT ![w.node.dir_entry_index].size = s.size]
<1>7. node \in NodeType /\ node.in_use = w.node.in_use /\ node.filename = w.node.filename
      /\ node.dir_entry_index = w.node.dir_entry_index
      /\ node.first_data_block = w.node.first_data_block
  BY <1>1, <1>5 DEF NodeType
<1>8. dir \in [DirSlots -> DirEntry]
      /\ \A i \in DirSlots : dir[i].filename = w.root[i].filename /\ dir[i].index = w.root[i].index
  BY <1>1, <1>5 DEF DirEntry
<1>9. v = [fat |-> w.fat, data |-> s.data, root |-> dir, node |-> node]
  BY <1>6 DEF WState
<1> HIDE DEF node, dir
<1>10. QED
  BY <1>1, <1>5, <1>7, <1>8, <1>9 DEF WState, SameFile

\* A file without blocks gets a chain of its own.
LEMMA AddFile ==
  ASSUME NEW w \in WState, WellLinked(w.fat), ~DiskFull(w.fat),
         NEW v, v = add_file_to_disk(w)
  PROVE  /\ v \in WState
         /\ SameFile(w, v)
         /\ WellLinked(v.fat)
         /\ \A h : StartsChain(w.fat, h) => StartsChain(v.fat, h)
         /\ StartsChain(v.fat, v.node.first_data_block)
         /\ w.fat[v.node.first_data_block] = 0
         /\ \A i \in DirSlots :
              v.root[i].index = IF i = w.node.dir_entry_index THEN v.node.first_data_block
                                ELSE w.root[i].index
<1> DEFINE b == first_block_available(w.fat)
           new == set_fat_entry(w.fat, b, FAT_EOC)
           blocks == clear_block(w.data, b)
           dir == [w.root EXCEPT ![w.node.dir_entry_index].index = b]
           node == [w.node EXCEPT !.first_data_block = b]
<1>1. /\ w.fat \in FatType /\ w.data \in DataType /\ w.root \in [DirSlots -> DirEntry]
      /\ w.node \in NodeType /\ w.node.dir_entry_index \in DirSlots
  BY DEF WState, NodeType
<1>2. b \in Blocks /\ w.fat[b] = 0 /\ b \in Links /\ FAT_EOC \in Links
  BY FirstAvailable DEF Links
<1>3. v = [fat |-> new, data |-> blocks, root |-> dir, node |-> node]
  BY DEF add_file_to_disk
<1> HIDE DEF b
<1>4. new \in FatType /\ \A c \in Blocks : new[c] = IF c = b THEN FAT_EOC ELSE w.fat[c]
  BY <1>1, <1>2, SetEntryType
<1>5. blocks \in DataType
  BY <1>1, <1>2, ClearType
<1>6. dir \in [DirSlots -> DirEntry]
      /\ \A i \in DirSlots : /\ dir[i].filename = w.root[i].filename
                             /\ dir[i].index = IF i = w.node.dir_entry_index THEN b
                                               ELSE w.root[i].index
  BY <1>1, <1>2 DEF DirEntry
<1>7. node \in NodeType /\ node.in_use = w.node.in_use /\ node.filename = w.node.filename
      /\ node.dir_entry_index = w.node.dir_entry_index /\ node.first_data_block = b
  BY <1>1, <1>2 DEF NodeType
<1> HIDE DEF new, blocks, dir, node
<1>8. /\ WellLinked(new)
      /\ \A h : StartsChain(w.fat, h) => StartsChain(new, h)
      /\ StartsChain(new, b)
  BY <1>1, <1>2, <1>4, NewChain
<1>9. QED
  BY <1>2, <1>3, <1>4, <1>5, <1>6, <1>7, <1>8 DEF WState, SameFile

\* A chain that is made longer disturbs no other.
LEMMA ExtendedType ==
  ASSUME NEW w \in WState, WellLinked(w.fat), StartsChain(w.fat, w.node.first_data_block),
         NEW end_offset \in Nat, NEW x, x = Extended(w, end_offset)
  PROVE  /\ x.w \in WState
         /\ x.w.node = w.node /\ x.w.root = w.root
         /\ WellLinked(x.w.fat)
         /\ \A h : StartsChain(w.fat, h) => StartsChain(x.w.fat, h)
<1> DEFINE first == w.node.first_data_block
           total_bytes == total_file_blocks(w.fat, first) * BlockSize
           needed_blocks == IF end_offset > total_bytes
                            THEN total_block_size(end_offset - total_bytes) ELSE 0
           a == allocate_more_blocks(w.fat, w.data, first, needed_blocks)
<1>1. /\ w.fat \in FatType /\ w.data \in DataType /\ w.root \in [DirSlots -> DirEntry]
      /\ w.node \in NodeType
  BY DEF WState
<1>2. first \in Blocks \ {0} /\ w.fat[first] # 0
  BY DEF StartsChain
<1>3. total_bytes \in Nat
  BY <1>1, <1>2, TotalType, ProductType
<1> HIDE DEF total_bytes
<1>4. needed_blocks \in Nat
  BY <1>3, BlockCountType
<1> HIDE DEF needed_blocks, first
<1>5. /\ a.fat \in FatType /\ a.data \in DataType
      /\ WellLinked(a.fat)
      /\ \A h : StartsChain(w.fat, h) => StartsChain(a.fat, h)
  BY <1>1, <1>2, <1>4, AllocateMore
<1>6. x.w = [w EXCEPT !.fat = a.fat, !.data = a.data]
  BY DEF Extended, first, total_bytes, needed_blocks
<1> HIDE DEF a
<1>7. x.w = [fat |-> a.fat, data |-> a.data, root |-> w.root, node |-> w.node]
  BY <1>1, <1>6 DEF WState
<1>8. QED
  BY <1>1, <1>5, <1>7 DEF WState

\* What fs_write leaves behind: the chains of other files are as they were, and if
\* the node had no first block, it and its directory entry may now have one that
\* was free before.
WriteEffect(w, v) ==
  /\ v \in WState
  /\ SameFile(w, v)
  /\ WellLinked(v.fat)
  /\ \A h : StartsChain(w.fat, h) => StartsChain(v.fat, h)
  /\ \/ /\ v.node.first_data_block = w.node.first_data_block
        /\ \A i \in DirSlots : v.root[i].index = w.root[i].index
     \/ LET b == v.node.first_data_block
        IN  /\ w.fat[b] = 0
            /\ StartsChain(v.fat, b)
            /\ \A i \in DirSlots :
                 v.root[i].index = IF i = w.node.dir_entry_index THEN b ELSE w.root[i].index

LEMMA WriteOutcomeEffect ==
  ASSUME NEW w0 \in WState, WellLinked(w0.fat),
         w0.node.first_data_block # FAT_EOC => StartsChain(w0.fat, w0.node.first_data_block),
         NEW buf \in [Nat -> Byte], NEW count \in Nat,
         NEW o, o = WriteOutcome(w0, buf, count)
  PROVE  WriteEffect(w0, o.w) /\ o.code \in Int
<1>1. CASE w0.node.first_data_block = FAT_EOC /\ DiskFull(w0.fat)
  BY <1>1 DEF WriteOutcome, WriteEffect, SameFile
<1>2. CASE ~(w0.node.first_data_block = FAT_EOC /\ DiskFull(w0.fat))
  <2> DEFINE w1 == IF w0.node.first_data_block = FAT_EOC THEN add_file_to_disk(w0) ELSE w0
             wanted == w1.node.offset + count
             x == Extended(w1, wanted)
             room == total_file_blocks(x.w.fat, x.w.node.first_data_block) * BlockSize
             end_offset == IF wanted > room THEN room ELSE wanted
             w2 == Transferred(x.w, end_offset, buf)
  <2>1. o = IF x.at_end THEN [w |-> x.w, code |-> 0]
            ELSE [w |-> w2, code |-> w2.node.offset - w1.node.offset]
    BY <1>2 DEF WriteOutcome
  <2>2. WriteEffect(w0, w1) /\ StartsChain(w1.fat, w1.node.first_data_block)
    <3>1. CASE w0.node.first_data_block = FAT_EOC
      <4>1. ~DiskFull(w0.fat) /\ w1 = add_file_to_disk(w0)
        BY <1>2, <3>1
      <4> HIDE DEF w1
      <4>2. QED
        BY <4>1, AddFile DEF WriteEffect
    <3>2. CASE w0.node.first_data_block # FAT_EOC
      <4>1. w1 = w0
        BY <3>2
      <4> HIDE DEF w1
      <4>2. QED
        BY <3>2, <4>1 DEF WriteEffect, SameFile
    <3>3. QED
      BY <3>1, <3>2
  <2> HIDE DEF w1
  <2>3. w1 \in WState /\ WellLinked(w1.fat) /\ w1.node.offset \in Nat
    BY <2>2 DEF WriteEffect, WState, NodeType
  <2>4. wanted \in Nat
    BY <2>3
  <2> HIDE DEF wanted
  <2>5. /\ x.w \in WState
        /\ x.w.node = w1.node /\ x.w.root = w1.root
        /\ WellLinked(x.w.fat)
        /\ \A h : StartsChain(w1.fat, h) => StartsChain(x.w.fat, h)
    BY <2>2, <2>3, <2>4, ExtendedType
  <2> HIDE DEF x
  <2>6. WriteEffect(w0, x.w)
    BY <2>2, <2>5 DEF WriteEffect, SameFile
  <2>7. x.w.node.first_data_block \in Blocks /\ x.w.fat \in FatType
    BY <2>2, <2>5 DEF StartsChain, WState
  <2>8. room \in Nat
    BY <2>7, TotalType, ProductType
  <2> HIDE DEF room
  <2>9. end_offset \in Nat
    BY <2>4, <2>8
  <2> HIDE DEF end_offset
  <2>10. /\ w2 \in WState
         /\ SameFile(x.w, w2)
         /\ w2.fat = x.w.fat
         /\ w2.node.first_data_block = x.w.node.first_data_block
         /\ \A i \in DirSlots : w2.root[i].index = x.w.root[i].index
    BY <2>5, <2>7, <2>9, TransferredType
  <2> HIDE DEF w2
  <2>11. WriteEffect(w0, w2)
    BY <2>6, <2>10 DEF WriteEffect, SameFile
  <2>12. w2.node.offset - w1.node.offset \in Int
    BY <2>3, <2>10 DEF WState, NodeType
  <2>13. CASE x.at_end
    BY <2>1, <2>6, <2>13
  <2>14. CASE ~x.at_end
    BY <2>1, <2>11, <2>12, <2>14
  <2>15. QED
    BY <2>13, <2>14
<1>3. QED
  BY <1>1, <1>2

-----------------------------------------------------------------------------
(* Which bytes fs_write touches.                                           *)

\* One turn of the write loop changes no block but the one it is at, and moves on.
LEMMA WriteTurnInside ==
  ASSUME NEW table \in FatType, NEW end_offset \in Nat, NEW buf, NEW start \in Nat,
         NEW s \in WriteState, NEW W \in SUBSET Blocks, s.block \in W,
         \A b \in W : table[b] # FAT_EOC => table[b] \in W,
         NEW t, t = WriteTurn(table, end_offset, buf, start)[s]
  PROVE  /\ t.block \in W
         /\ t.offset >= s.offset
         /\ \A b \in Blocks : t.data[b] # s.data[b] => b = s.block /\ t.offset > s.offset
<1> DEFINE length == TurnLength(s.offset, end_offset)
           last == s.offset + length
           next == NextBlock(table, s.block, last, end_offset)
           first == s.offset % BlockSize
           stored == [i \in 0 .. BlockSize - 1 |->
                        IF i \in first .. first + length - 1
                        THEN buf[s.offset - start + i - first]
                        ELSE s.data[s.block][i]]
           blocks == [s.data EXCEPT ![s.block] = stored]
<1>1. s.offset \in Nat /\ s.block \in Blocks /\ s.data \in DataType
  BY DEF WriteState
<1>2. CASE s.offset >= end_offset
  BY <1>1, <1>2 DEF WriteTurn
<1>3. CASE ~(s.offset >= end_offset)
  <2>1. /\ t.offset = last /\ t.block = next /\ t.data = blocks
    BY <1>3 DEF WriteTurn
  <2>2. length \in Nat \ {0}
    BY <1>1, <1>3, TurnFits
  <2>3. next \in W
    BY SkipInside DEF NextBlock
  <2> HIDE DEF next, stored, length
  <2>4. \A b \in Blocks : b # s.block => blocks[b] = s.data[b]
    BY <1>1 DEF DataType
  <2>5. QED
    BY <1>1, <2>1, <2>2, <2>3, <2>4
<1>4. QED
  BY <1>2, <1>3

\* The write loop changes no block that a walk from the first one does not meet, and none
\* without moving the offset.
LEMMA TransferredInside ==
  ASSUME NEW w \in WState, NEW end_offset \in Nat, NEW buf \in [Nat -> Byte],
         NEW W \in SUBSET Blocks, w.node.first_data_block \in W,
         \A b \in W : w.fat[b] # FAT_EOC => w.fat[b] \in W,
         NEW v, v = Transferred(w, end_offset, buf)
  PROVE  \A b \in Blocks :
           v.data[b] # w.data[b] => b \in W /\ v.node.offset > w.node.offset
<1> DEFINE start == w.node.offset
           block == skip_blocks(w.fat, w.node.first_data_block, current_block_offset(start))
           s0 == [offset |-> start, size |-> w.node.size, block |-> block, data |-> w.data]
           T == {s \in WriteState :
                   /\ s.offset >= start
                   /\ s.block \in W
                   /\ \A b \in Blocks : s.data[b] # w.data[b] => b \in W /\ s.offset > start}
           f == WriteTurn(w.fat, end_offset, buf, start)
<1>1. /\ w.fat \in FatType /\ w.data \in DataType /\ w.root \in [DirSlots -> DirEntry]
      /\ w.node \in NodeType /\ start \in Nat /\ w.node.size \in Nat
      /\ w.node.dir_entry_index \in DirSlots
  BY DEF WState, NodeType
<1>2. s0 \in T
  <2>1. block \in W
    BY <1>1, BlockCountType, SkipInside
  <2> HIDE DEF block
  <2>2. QED
    BY <1>1, <2>1 DEF WriteState
<1>3. ASSUME NEW s \in T
      PROVE  f[s] \in T
  <2>1. /\ s \in WriteState /\ s.offset >= start /\ s.block \in W /\ s.offset \in Nat
        /\ \A b \in Blocks : s.data[b] # w.data[b] => b \in W /\ s.offset > start
    BY DEF WriteState
  <2>2. f[s] \in WriteState /\ f[s].offset >= start /\ f[s].offset \in Nat
    BY <1>1, <2>1, WriteTurnType DEF WriteState
  <2>3. /\ f[s].block \in W
        /\ f[s].offset >= s.offset
        /\ \A b \in Blocks : f[s].data[b] # s.data[b] => b = s.block /\ f[s].offset > s.offset
    BY <1>1, <2>1, WriteTurnInside
  <2> HIDE DEF f
  <2>4. \A b \in Blocks : f[s].data[b] # w.data[b] => b \in W /\ f[s].offset > start
    BY <1>1, <2>1, <2>2, <2>3
  <2>5. QED
    BY <2>2, <2>3, <2>4
<1> HIDE DEF s0, T, f
<1>4. \A n \in Nat : Iterate(f, s0)[n] \in T
  BY <1>2, <1>3, IterateInvariant
<1> DEFINE s == Iterate(f, s0)[end_offset]
<1>5. \A b \in Blocks : s.data[b] # w.data[b] => b \in W /\ s.offset > start
  BY <1>4 DEF T
<1>6. v = [w EXCEPT !.data = s.data,
                    !.node = [@ EXCEPT !.offset = s.offset, !.size = s.size],
                    !.root = [@ EXCEPT ![w.node.dir_entry_index].size = s.size]]
  BY DEF Transferred, f, s0
<1> HIDE DEF s
<1>7. v.data = s.data /\ v.node.offset = s.offset
  BY <1>1, <1>6 DEF WState, NodeType
<1>8. QED
  BY <1>5, <1>7

\* add_file_to_disk touches one free block.
LEMMA AddFileGrows ==
  ASSUME NEW w \in WState, WellLinked(w.fat), ~DiskFull(w.fat),
         NEW v, v = add_file_to_disk(w)
  PROVE  Grown(w.fat, w.data, v.fat, v.data) /\ v.node.offset = w.node.offset
<1> DEFINE b == first_block_available(w.fat)
           new == set_fat_entry(w.fat, b, FAT_EOC)
           blocks == clear_block(w.data, b)
<1>1. w.fat \in FatType /\ w.data \in DataType /\ w.node \in NodeType
  BY DEF WState
<1>2. b \in Blocks /\ w.fat[b] = 0 /\ FAT_EOC \in Links /\ FAT_EOC # 0
  BY FirstAvailable, Sizes DEF Links
<1>3. v.fat = new /\ v.data = blocks /\ v.node = [w.node EXCEPT !.first_data_block = b]
  BY DEF add_file_to_disk
<1> HIDE DEF b
<1>4. \A c \in Blocks : new[c] = IF c = b THEN FAT_EOC ELSE w.fat[c]
  BY <1>1, <1>2, SetEntryType
<1>5. \A c \in Blocks : c # b => blocks[c] = w.data[c]
  BY <1>1, <1>2 DEF clear_block, DataType
<1>6. v.node.offset = w.node.offset
  BY <1>1, <1>3 DEF NodeType
<1> HIDE DEF new, blocks
<1>7. QED
  BY <1>2, <1>3, <1>4, <1>5, <1>6 DEF Grown

LEMMA ExtendedGrows ==
  ASSUME NEW w \in WState, WellLinked(w.fat), StartsChain(w.fat, w.node.first_data_block),
         NEW end_offset \in Nat, NEW x, x = Extended(w, end_offset)
  PROVE  Grown(w.fat, w.data, x.w.fat, x.w.data)
<1> DEFINE first == w.node.first_data_block
           total_bytes == total_file_blocks(w.fat, first) * BlockSize
           needed_blocks == IF end_offset > total_bytes
                            THEN total_block_size(end_offset - total_bytes) ELSE 0
           a == allocate_more_blocks(w.fat, w.data, first, needed_blocks)
<1>1. w.fat \in FatType /\ w.data \in DataType
  BY DEF WState
<1>2. first \in Blocks \ {0} /\ w.fat[first] # 0
  BY DEF StartsChain
<1>3. total_bytes \in Nat
  BY <1>1, <1>2, TotalType, ProductType
<1> HIDE DEF total_bytes
<1>4. needed_blocks \in Nat
  BY <1>3, BlockCountType
<1> HIDE DEF needed_blocks, first
<1>5. Grown(w.fat, w.data, a.fat, a.data)
  BY <1>1, <1>2, <1>4, AllocateGrows
<1>6. x.w = [w EXCEPT !.fat = a.fat, !.data = a.data]
  BY DEF Extended, first, total_bytes, needed_blocks
<1> HIDE DEF a
<1>7. x.w.fat = a.fat /\ x.w.data = a.data
  BY <1>6 DEF WState
<1>8. QED
  BY <1>5, <1>7

\* The blocks fs_write changes were free, or are of the chain of its node; those of the
\* chain only if it moves the offset.
LEMMA WriteOutcomeInside ==
  ASSUME NEW w0 \in WState, WellLinked(w0.fat),
         w0.node.first_data_block # FAT_EOC => StartsChain(w0.fat, w0.node.first_data_block),
         NEW buf \in [Nat -> Byte], NEW count \in Nat,
         NEW o, o = WriteOutcome(w0, buf, count)
  PROVE  \A b \in Blocks : o.w.data[b] # w0.data[b] =>
           \/ w0.fat[b] = 0
           \/ /\ b \in ChainOf(w0.fat, w0.node.first_data_block)
              /\ o.w.node.offset > w0.node.offset
<1>1. CASE w0.node.first_data_block = FAT_EOC /\ DiskFull(w0.fat)
  BY <1>1 DEF WriteOutcome
<1>2. CASE ~(w0.node.first_data_block = FAT_EOC /\ DiskFull(w0.fat))
  <2> DEFINE first == w0.node.first_data_block
             w1 == IF first = FAT_EOC THEN add_file_to_disk(w0) ELSE w0
             wanted == w1.node.offset + count
             x == Extended(w1, wanted)
             room == total_file_blocks(x.w.fat, x.w.node.first_data_block) * BlockSize
             end_offset == IF wanted > room THEN room ELSE wanted
             w2 == Transferred(x.w, end_offset, buf)
             C == IF first = FAT_EOC THEN {} ELSE ChainOf(w0.fat, first)
             W == {b \in Blocks : x.w.fat[b] # 0 /\ (w0.fat[b] = 0 \/ b \in C)}
  <2>1. o = IF x.at_end THEN [w |-> x.w, code |-> 0]
            ELSE [w |-> w2, code |-> w2.node.offset - w1.node.offset]
    BY <1>2 DEF WriteOutcome
  <2>2. /\ w0.fat \in FatType
        /\ C \in SUBSET Blocks
        /\ \A b \in C : w0.fat[b] # FAT_EOC => w0.fat[b] \in C
        /\ first # FAT_EOC => first \in C
    <3>1. w0.fat \in FatType
      BY DEF WState
    <3>2. CASE first = FAT_EOC
      BY <3>1, <3>2
    <3>3. CASE first # FAT_EOC
      <4>1. StartsChain(w0.fat, first) /\ first \in Blocks
        BY <3>3 DEF StartsChain
      <4>2. first \in ChainOf(w0.fat, first)
        BY <3>1, <4>1, SkipStep, Sizes DEF ChainOf
      <4> HIDE DEF first
      <4>3. \A b \in ChainOf(w0.fat, first) :
              b \in Blocks /\ (w0.fat[b] # FAT_EOC => w0.fat[b] \in ChainOf(w0.fat, first))
        BY <3>1, <4>1, ChainClosed
      <4>4. QED
        BY <3>1, <3>3, <4>2, <4>3
    <3>4. QED
      BY <3>2, <3>3
  <2>3. /\ w1 \in WState /\ WellLinked(w1.fat) /\ StartsChain(w1.fat, w1.node.first_data_block)
        /\ Grown(w0.fat, w0.data, w1.fat, w1.data) /\ w1.node.offset = w0.node.offset
        /\ w1.node.first_data_block = first \/ w0.fat[w1.node.first_data_block] = 0
        /\ w1.node.first_data_block = first => first # FAT_EOC
    <3>1. CASE first = FAT_EOC
      <4>1. ~DiskFull(w0.fat) /\ w1 = add_file_to_disk(w0)
        BY <1>2, <3>1
      <4> HIDE DEF w1
      <4>2. /\ w1 \in WState /\ WellLinked(w1.fat) /\ StartsChain(w1.fat, w1.node.first_data_block)
            /\ w0.fat[w1.node.first_data_block] = 0
        BY <4>1, AddFile
      <4>3. Grown(w0.fat, w0.data, w1.fat, w1.data) /\ w1.node.offset = w0.node.offset
        BY <4>1, AddFileGrows
      <4>4. w1.node.first_data_block # FAT_EOC
        BY <4>2, Sizes DEF StartsChain
      <4>5. QED
        BY <3>1, <4>2, <4>3, <4>4
    <3>2. CASE first # FAT_EOC
      <4>1. w1 = w0
        BY <3>2
      <4> HIDE DEF w1
      <4>2. QED
        BY <3>2, <4>1 DEF Grown
    <3>3. QED
      BY <3>1, <3>2
  <2> HIDE DEF w1
  <2>4. w1.node.offset \in Nat
    BY <2>3 DEF WState, NodeType
  <2>5. wanted \in Nat
    BY <2>4
  <2> HIDE DEF wanted
  <2>6. /\ x.w \in WState
        /\ x.w.node = w1.node
        /\ WellLinked(x.w.fat)
        /\ StartsChain(x.w.fat, w1.node.first_data_block)
    BY <2>3, <2>5, ExtendedType
  <2>7. Grown(w1.fat, w1.data, x.w.fat, x.w.data)
    BY <2>3, <2>5, ExtendedGrows
  <2> HIDE DEF x
  <2>8. Grown(w0.fat, w0.data, x.w.fat, x.w.data)
    BY <2>3, <2>7, GrownTwice
  <2>9. /\ x.w.node.first_data_block \in Blocks /\ x.w.fat \in FatType
        /\ x.w.fat[x.w.node.first_data_block] # 0
    BY <2>6 DEF StartsChain, WState
  <2>10. room \in Nat
    BY <2>9, TotalType, ProductType
  <2> HIDE DEF room
  <2>11. end_offset \in Nat
    BY <2>5, <2>10
  <2> HIDE DEF end_offset, C
  <2>12. x.w.node.first_data_block \in W
    BY <2>2, <2>3, <2>6, <2>9
  <2>13. \A b \in W : x.w.fat[b] # FAT_EOC => x.w.fat[b] \in W
    <3> DEFINE new == x.w.fat
    <3>1. /\ new \in FatType /\ WellLinked(new)
          /\ Grown(w0.fat, w0.data, new, x.w.data)
          /\ W = {b \in Blocks : new[b] # 0 /\ (w0.fat[b] = 0 \/ b \in C)}
      BY <2>6, <2>8, <2>9
    <3> HIDE DEF W, new
    <3>2. \A b \in W : new[b] # FAT_EOC => new[b] \in W
      BY <2>2, <3>1, GrownChain
    <3>3. QED
      BY <3>2 DEF new
  <2>14. W \in SUBSET Blocks /\ \A b \in W : w0.fat[b] = 0 \/ b \in C
    OBVIOUS
  <2>15. \A b \in C : b \in ChainOf(w0.fat, first)
    BY DEF C
  <2> HIDE DEF W
  <2>16. \A b \in Blocks : w2.data[b] # x.w.data[b] =>
           b \in W /\ w2.node.offset > x.w.node.offset
    BY <2>6, <2>11, <2>12, <2>13, <2>14, TransferredInside
  <2> HIDE DEF w2
  <2>17. \A b \in Blocks : x.w.data[b] # w0.data[b] => w0.fat[b] = 0
    BY <2>8 DEF Grown
  <2>18. CASE x.at_end
    BY <2>1, <2>17, <2>18
  <2>19. CASE ~x.at_end
    <3>1. o.w = w2
      BY <2>1, <2>19
    <3>2. x.w.node.offset = w0.node.offset
      BY <2>3, <2>6
    <3>3. QED
      BY <2>14, <2>15, <2>16, <2>17, <3>1, <3>2
  <2>20. QED
    BY <2>18, <2>19
<1>3. QED
  BY <1>1, <1>2

-----------------------------------------------------------------------------
(* The table and the directory.                                            *)

LEMMA FdsFinite ==
  IsFiniteSet(Fds) /\ Cardinality(Fds) = OpenMax /\ OpenMax \in Nat \ {0} /\ Fds \subseteq Nat
<1>1. OpenMax \in Nat \ {0}
  BY TableAssumption
<1>2. QED
  BY <1>1, FS_Interval DEF Fds

LEMMA NodeFacts ==
  ASSUME TypeOK
  PROVE  /\ fd_table.nodes \in [Fds -> NodeType]
         /\ fd_table.fdsOccupied \in 0 .. OpenMax
         /\ \A fd \in Fds : /\ Node(fd) = fd_table.nodes[fd]
                            /\ Node(fd) \in NodeType
                            /\ fd \in Open <=> Node(fd).in_use
         /\ Open \subseteq Fds /\ IsFiniteSet(Open)
<1>1. fd_table.nodes \in [Fds -> NodeType] /\ fd_table.fdsOccupied \in 0 .. OpenMax
  BY DEF TypeOK, TableType
<1>2. Open \subseteq Fds
  BY DEF Open, InUse
<1>3. IsFiniteSet(Open)
  BY <1>2, FdsFinite, FS_Subset
<1>4. QED
  BY <1>1, <1>2, <1>3 DEF Node, Open, InUse

\* isOpenByName finds exactly the open files, because fdsOccupied is their number.
LEMMA OpenByName ==
  ASSUME TypeOK, TableCounted, NEW name
  PROVE  isOpenByName(fd_table, name) <=> \E fd \in Open : Node(fd).filename = name
<1>1. fd_table.fdsOccupied = 0 <=> Open = {}
  BY NodeFacts, FS_EmptySet DEF TableCounted
<1>2. QED
  BY <1>1 DEF isOpenByName, Open, InUse, Node

\* addFd finds a free node unless the table is full.
LEMMA AddFdFound ==
  ASSUME TypeOK, TableCounted, ~table_is_full(fd_table)
  PROVE  addFd(fd_table) \in Fds \ Open
<1>1. Open # Fds
  BY FdsFinite DEF TableCounted, table_is_full
<1>2. Unused(fd_table) = Fds \ Open
  BY DEF Unused, Open, InUse
<1>3. Unused(fd_table) # {} /\ Unused(fd_table) \subseteq Nat
  BY <1>1, <1>2, NodeFacts, FdsFinite
<1>4. PICK m \in Unused(fd_table) : \A other \in Unused(fd_table) : m <= other
  BY <1>3, NatMinimum
<1>5. addFd(fd_table) \in Unused(fd_table)
  BY <1>3, <1>4 DEF addFd
<1>6. QED
  BY <1>2, <1>5

\* A scan of the directory stops at an entry of the name it looks for.
LEMMA FirstEntryFound ==
  ASSUME NEW name, Entries(name) # {}
  PROVE  FirstEntry(name) \in DirSlots /\ root[FirstEntry(name)].filename = name
<1>1. Entries(name) \subseteq Nat
  BY TableAssumption DEF Entries, DirSlots
<1>2. PICK m \in Entries(name) : \A j \in Entries(name) : m <= j
  BY <1>1, NatMinimum
<1>3. FirstEntry(name) \in Entries(name)
  BY <1>2 DEF FirstEntry
<1>4. QED
  BY <1>3 DEF Entries

-----------------------------------------------------------------------------
(* The initial state, and the calls that change neither table nor volume.  *)

LEMMA EmptyTable ==
  /\ fd_table_constructor \in TableType
  /\ fd_table_constructor.fdsOccupied = 0
  /\ InUse(fd_table_constructor) = {}
  /\ \A fd \in Fds : fd_table_constructor.nodes[fd] = fdNode_constructor
<1>1. fdNode_constructor \in NodeType /\ ~fdNode_constructor.in_use
  BY TableAssumption DEF fdNode_constructor, NodeType, Links, DirSlots
<1>2. 0 \in 0 .. OpenMax
  BY FdsFinite
<1>3. QED
  BY <1>1, <1>2 DEF fd_table_constructor, TableType, InUse

LEMMA InitInv == Init => IInv
<1> SUFFICES ASSUME Init PROVE IInv
  OBVIOUS
<1> USE DEF Init
<1>1. TypeOK
  <2>1. root \in [DirSlots -> DirEntry]
    BY Sizes DEF EmptyEntry, DirEntry, Links
  <2>2. fat \in FatType
    BY Sizes DEF FatType, Links
  <2>3. data \in DataType
    BY DEF DataType, Byte
  <2>4. result.code \in Int
    BY DEF Outcome
  <2>5. QED
    BY <2>1, <2>2, <2>3, <2>4, EmptyTable DEF TypeOK
<1>2. Open = {} /\ Listed = {} /\ Heads = {}
  <2>1. Open = {}
    BY EmptyTable DEF Open
  <2>2. Listed = {}
    BY DEF Listed, Entries, EmptyEntry
  <2>3. QED
    BY <2>1, <2>2 DEF Heads, DirHeads, FdHeads
<1>3. TableCounted /\ ClosedNodesReset
  BY <1>2, EmptyTable, FS_EmptySet DEF TableCounted, ClosedNodesReset, Node
<1>4. ChainsWellLinked
  <2>1. \A b \in Blocks : fat[b] = IF b = 0 THEN FAT_EOC ELSE 0
    BY Sizes
  <2>2. QED
    BY <2>1, Sizes DEF ChainsWellLinked, WellLinked, LinksLeadToAllocated, LinksAreInjective, HasNext
<1>5. QED
  BY <1>1, <1>2, <1>3, <1>4
  DEF IInv, ChainInv, NamesUnique, OpenFilesListed, HeadsStartChains, HeadsBelongToOneEntry

LEMMA OnlyResult ==
  ASSUME IInv, UNCHANGED <<fd_table, root, fat, data>>,
         disk_mounted' \in BOOLEAN, result'.code \in Int
  PROVE  IInv'
<1>1. Open' = Open /\ Listed' = Listed /\ Heads' = Heads /\ \A fd : Node(fd)' = Node(fd)
  BY DEF Open, Listed, Entries, Heads, DirHeads, FdHeads, Node
<1>2. QED
  BY <1>1 DEF IInv, TypeOK, ChainInv, TableCounted, ClosedNodesReset, NamesUnique, OpenFilesListed,
    ChainsWellLinked, HeadsStartChains, HeadsBelongToOneEntry

\* Nothing is open after fs_mount and after fs_umount.
LEMMA FreshTable ==
  ASSUME IInv, fd_table' = fd_table_constructor, UNCHANGED <<root, fat, data>>,
         disk_mounted' \in BOOLEAN, result'.code \in Int
  PROVE  IInv'
<1>1. Open' = {} /\ Listed' = Listed /\ fd_table'.fdsOccupied = 0 /\ fd_table' \in TableType
  BY EmptyTable DEF Open, Listed, Entries
<1>2. Heads' \subseteq Heads
  BY <1>1 DEF Heads, DirHeads, FdHeads
<1>3. TypeOK'
  BY <1>1 DEF IInv, TypeOK
<1>4. TableCounted' /\ ClosedNodesReset'
  BY <1>1, EmptyTable, FS_EmptySet DEF TableCounted, ClosedNodesReset, Node
<1>5. QED
  BY <1>1, <1>2, <1>3, <1>4 DEF IInv, ChainInv, NamesUnique, OpenFilesListed,
    ChainsWellLinked, HeadsStartChains, HeadsBelongToOneEntry

LEMMA OutcomeCode == \A c : Outcome(c).code = c
BY DEF Outcome

LEMMA ReadOnlyCalls ==
  ASSUME IInv,
         \/ fs_mount
         \/ fs_umount
         \/ fs_info
         \/ fs_ls
         \/ free_blocks
         \/ \E fd \in FdArgs : fs_stat(fd)
  PROVE  IInv'
<1>1. TypeOK
  BY DEF IInv
<1>2. CASE fs_mount
  <2>1. UNCHANGED <<root, fat, data>>
    BY <1>2 DEF fs_mount, volume
  <2>2. CASE disk_mounted
    <3>1. disk_mounted' \in BOOLEAN /\ result' = Outcome(-1)
      BY <1>1, <1>2, <2>2 DEF fs_mount, Return, TypeOK
    <3>2. result'.code \in Int
      BY <3>1, OutcomeCode
    <3>3. QED
      BY <1>2, <2>1, <2>2, <3>1, <3>2, OnlyResult DEF fs_mount
  <2>3. CASE ~disk_mounted
    <3>1. disk_mounted' \in BOOLEAN /\ result' = Outcome(0)
      BY <1>1, <1>2, <2>3 DEF fs_mount, Return, TypeOK
    <3>2. result'.code \in Int
      BY <3>1, OutcomeCode
    <3>3. QED
      BY <1>2, <2>1, <2>3, <3>1, <3>2, FreshTable DEF fs_mount
  <2>4. QED
    BY <2>2, <2>3
<1>3. CASE fs_umount
  <2>1. UNCHANGED <<root, fat, data>>
    BY <1>3 DEF fs_umount, volume
  <2>2. CASE disk_mounted
    <3>1. disk_mounted' \in BOOLEAN /\ result' = Outcome(0)
      BY <1>1, <1>3, <2>2 DEF fs_umount, Return, TypeOK
    <3>2. result'.code \in Int
      BY <3>1, OutcomeCode
    <3>3. QED
      BY <1>3, <2>1, <2>2, <3>1, <3>2, FreshTable DEF fs_umount
  <2>3. CASE ~disk_mounted
    <3>1. disk_mounted' \in BOOLEAN /\ result' = Outcome(-1)
      BY <1>1, <1>3, <2>3 DEF fs_umount, Return, TypeOK
    <3>2. result'.code \in Int
      BY <3>1, OutcomeCode
    <3>3. QED
      BY <1>3, <2>1, <2>3, <3>1, <3>2, OnlyResult DEF fs_umount
  <2>4. QED
    BY <2>2, <2>3
<1>4. CASE fs_info
  <2>1. disk_mounted' \in BOOLEAN /\ result'.code \in Int
    BY <1>1, <1>4, OutcomeCode DEF fs_info, Return, Outcome, TypeOK
  <2>2. QED
    BY <1>4, <2>1, OnlyResult DEF fs_info, volume
<1>5. CASE fs_ls
  <2>1. disk_mounted' \in BOOLEAN /\ result'.code \in Int
    BY <1>1, <1>5, OutcomeCode DEF fs_ls, Return, Outcome, TypeOK
  <2>2. QED
    BY <1>5, <2>1, OnlyResult DEF fs_ls, volume
<1>6. ASSUME NEW fd \in FdArgs, fs_stat(fd)
      PROVE  IInv'
  <2>1. isUsable(fd) => Node(fd).size \in Int
    BY <1>1, NodeFacts DEF isUsable, NodeType
  <2>2. disk_mounted' \in BOOLEAN /\ result'.code \in Int
    BY <1>1, <1>6, <2>1, OutcomeCode DEF fs_stat, Return, TypeOK
  <2>3. QED
    BY <1>6, <2>2, OnlyResult DEF fs_stat, volume
<1>7. CASE free_blocks
  <2>1. Cardinality(FreeBlocks(fat)) \in Nat
    <3>1. IsFiniteSet(Blocks) /\ FreeBlocks(fat) \subseteq Blocks
      BY Sizes, FS_Interval DEF Blocks, FreeBlocks
    <3>2. QED
      BY <3>1, FS_Subset, FS_CardinalityType
  <2>2. disk_mounted' \in BOOLEAN /\ result'.code \in Int
    BY <1>1, <1>7, <2>1, OutcomeCode DEF free_blocks, Return, TypeOK
  <2>3. QED
    BY <1>7, <2>2, OnlyResult DEF free_blocks, volume
<1>8. QED
  BY <1>2, <1>3, <1>4, <1>5, <1>6, <1>7

-----------------------------------------------------------------------------
(* The directory.                                                          *)

LEMMA CreateStep ==
  ASSUME IInv, NEW name \in NameArgs, fs_create(name)
  PROVE  IInv'
<1>1. disk_mounted' = disk_mounted /\ result'.code \in Int
  BY OutcomeCode DEF fs_create, Return
<1>2. CASE UNCHANGED root
  BY <1>1, <1>2, OnlyResult DEF fs_create, IInv, TypeOK
<1>3. CASE ~(UNCHANGED root)
  <2> DEFINE i == FirstEntry(Null)
             entry == [filename |-> name, size |-> 0, index |-> FAT_EOC]
  <2>1. /\ isValidFileName(name) /\ Entries(name) = {} /\ Entries(Null) # {}
        /\ root' = [root EXCEPT ![i] = entry]
        /\ UNCHANGED <<fd_table, fat, data>>
    BY <1>3 DEF fs_create
  <2>2. i \in DirSlots /\ root[i].filename = Null
    BY <2>1, FirstEntryFound
  <2>3. TypeOK /\ root \in [DirSlots -> DirEntry] /\ name \in Names
    BY <2>1 DEF IInv, TypeOK, isValidFileName, NameArgs
  <2> HIDE DEF i
  <2>4. /\ root' \in [DirSlots -> DirEntry]
        /\ \A j \in DirSlots : root'[j] = IF j = i THEN entry ELSE root[j]
    BY <2>1, <2>2, <2>3 DEF DirEntry, Links
  <2>5. Open' = Open /\ \A fd : Node(fd)' = Node(fd)
    BY <2>1 DEF Open, Node
  <2>6. Listed' = Listed \cup {i} /\ i \notin Listed /\ Listed \subseteq DirSlots
    BY <2>2, <2>3, <2>4, TableAssumption DEF Listed, Entries
  <2>7. \A fd \in Open : Node(fd).dir_entry_index \in DirSlots /\ Node(fd).dir_entry_index # i
    BY <2>2, <2>3, NodeFacts DEF IInv, ChainInv, OpenFilesListed, NodeType
  <2>8. Heads' = Heads
    <3>1. DirHeads' = DirHeads
      <4>1. \A j \in Listed : root'[j].index = root[j].index
        BY <2>4, <2>6
      <4>2. root'[i].index = FAT_EOC
        BY <2>2, <2>4
      <4>3. QED
        BY <2>6, <4>1, <4>2 DEF DirHeads
    <3>2. FdHeads' = FdHeads
      BY <2>5 DEF FdHeads
    <3>3. QED
      BY <3>1, <3>2 DEF Heads
  <2>9. TypeOK'
    BY <1>1, <2>1, <2>3, <2>4 DEF TypeOK
  <2>10. TableCounted' /\ ClosedNodesReset' /\ ChainsWellLinked' /\ HeadsStartChains'
    BY <2>1, <2>5, <2>8 DEF IInv, ChainInv, TableCounted, ClosedNodesReset, ChainsWellLinked,
      HeadsStartChains
  <2>11. NamesUnique'
    BY <2>1, <2>4, <2>6 DEF IInv, ChainInv, NamesUnique, Entries
  <2>12. OpenFilesListed'
    BY <2>4, <2>5, <2>7 DEF IInv, ChainInv, OpenFilesListed
  <2>13. HeadsBelongToOneEntry'
    <3>1. \A j \in Listed' : root'[j].index # FAT_EOC => j \in Listed /\ root'[j] = root[j]
      BY <2>2, <2>4, <2>6
    <3>2. QED
      BY <2>5, <3>1 DEF IInv, ChainInv, HeadsBelongToOneEntry
  <2>14. QED
    BY <2>9, <2>10, <2>11, <2>12, <2>13 DEF IInv, ChainInv
<1>4. QED
  BY <1>2, <1>3

LEMMA DeleteStep ==
  ASSUME IInv, NEW name \in NameArgs, fs_delete(name)
  PROVE  IInv'
<1>1. disk_mounted' = disk_mounted /\ result'.code \in Int
  BY OutcomeCode DEF fs_delete, Return
<1>2. CASE UNCHANGED <<root, fat>>
  BY <1>1, <1>2, OnlyResult DEF fs_delete, IInv, TypeOK
<1>3. CASE ~(UNCHANGED <<root, fat>>)
  <2> DEFINE i == FirstEntry(name)
             head == root[i].index
  <2>1. /\ isValidFileName(name) /\ Entries(name) # {} /\ ~isOpenByName(fd_table, name)
        /\ root' = [root EXCEPT ![i] = EmptyEntry]
        /\ fat' = erase_file(fat, head)
        /\ UNCHANGED <<fd_table, data>>
    BY <1>3 DEF fs_delete
  <2>2. i \in DirSlots /\ root[i].filename = name /\ name # Null
    BY <2>1, FirstEntryFound DEF isValidFileName
  <2>3. TypeOK /\ TableCounted /\ root \in [DirSlots -> DirEntry] /\ fat \in FatType
        /\ WellLinked(fat)
    BY DEF IInv, ChainInv, TypeOK, ChainsWellLinked
  <2> HIDE DEF i
  <2>4. /\ root' \in [DirSlots -> DirEntry]
        /\ \A j \in DirSlots : root'[j] = IF j = i THEN EmptyEntry ELSE root[j]
    BY <2>1, <2>2, <2>3, Sizes DEF DirEntry, EmptyEntry, Links
  <2>5. Open' = Open /\ \A fd : Node(fd)' = Node(fd)
    BY <2>1 DEF Open, Node
  <2>6. Listed' = Listed \ {i} /\ i \in Listed /\ Listed \subseteq DirSlots
    BY <2>2, <2>3, <2>4 DEF Listed, Entries, EmptyEntry
  <2>7. \A fd \in Open : Node(fd).dir_entry_index \in DirSlots /\ Node(fd).dir_entry_index # i
    BY <2>1, <2>2, <2>3, NodeFacts, OpenByName DEF IInv, ChainInv, OpenFilesListed, NodeType
  <2>8. Heads' \subseteq Heads /\ (head # FAT_EOC => head \notin Heads')
    <3>1. DirHeads' \subseteq DirHeads /\ (head # FAT_EOC => head \notin DirHeads')
      BY <2>4, <2>6 DEF DirHeads, IInv, ChainInv, HeadsBelongToOneEntry
    <3>2. FdHeads' = FdHeads
      BY <2>5 DEF FdHeads
    <3>3. head # FAT_EOC => head \notin FdHeads
      BY <2>6, <2>7 DEF FdHeads, IInv, ChainInv, HeadsBelongToOneEntry
    <3>4. QED
      BY <3>1, <3>2, <3>3 DEF Heads
  <2>9. fat' \in FatType /\ WellLinked(fat') /\ \A h \in Heads' : StartsChain(fat', h)
    <3>1. \A h \in Heads : StartsChain(fat, h)
      BY DEF IInv, ChainInv, HeadsStartChains
    <3>2. CASE head = FAT_EOC
      BY <2>1, <2>3, <2>8, <3>1, <3>2 DEF erase_file
    <3>3. CASE head # FAT_EOC
      <4>1. head \in Heads
        BY <2>6, <3>3 DEF Heads, DirHeads
      <4> HIDE DEF head
      <4>2. QED
        BY <2>1, <2>3, <2>8, <3>1, <3>3, <4>1, EraseFile
    <3>4. QED
      BY <3>2, <3>3
  <2>10. TypeOK'
    BY <1>1, <2>1, <2>3, <2>4, <2>9 DEF TypeOK
  <2>11. TableCounted' /\ ClosedNodesReset' /\ ChainsWellLinked' /\ HeadsStartChains'
    BY <2>1, <2>3, <2>5, <2>9 DEF IInv, ChainInv, TableCounted, ClosedNodesReset, ChainsWellLinked,
      HeadsStartChains
  <2>12. NamesUnique'
    BY <2>4, <2>6 DEF IInv, ChainInv, NamesUnique
  <2>13. OpenFilesListed'
    BY <2>4, <2>5, <2>7 DEF IInv, ChainInv, OpenFilesListed
  <2>14. HeadsBelongToOneEntry'
    BY <2>4, <2>5, <2>6, <2>7 DEF IInv, ChainInv, HeadsBelongToOneEntry
  <2>15. QED
    BY <2>10, <2>11, <2>12, <2>13, <2>14 DEF IInv, ChainInv
<1>4. QED
  BY <1>2, <1>3

\* The loop over the directory erases one chain after the other.  The chains it has
\* not come to yet are still sound when it gets there, because no two entries share
\* a first block.
LEMMA EraseAllLoop ==
  ASSUME IInv, NEW n \in Nat
  PROVE  /\ Iterate(EraseEntry, [fat |-> fat, slot |-> 0])[n].fat \in FatType
         /\ WellLinked(Iterate(EraseEntry, [fat |-> fat, slot |-> 0])[n].fat)
<1> DEFINE s0 == [fat |-> fat, slot |-> 0]
           Later(s) == {i \in Listed : i >= s.slot /\ root[i].index # FAT_EOC}
           T == {s \in EraseAllState :
                   WellLinked(s.fat) /\ \A i \in Later(s) : StartsChain(s.fat, root[i].index)}
<1>1. /\ fat \in FatType /\ WellLinked(fat) /\ root \in [DirSlots -> DirEntry]
      /\ \A i \in Listed : root[i].index # FAT_EOC => StartsChain(fat, root[i].index)
      /\ \A i, j \in Listed : root[i].index = root[j].index /\ root[i].index # FAT_EOC => i = j
  BY DEF IInv, TypeOK, ChainInv, ChainsWellLinked, HeadsStartChains, HeadsBelongToOneEntry,
    Heads, DirHeads
<1>2. s0 \in T
  BY <1>1, TableAssumption DEF EraseAllState
<1>3. ASSUME NEW s \in T
      PROVE  EraseEntry[s] \in T
  <2>1. s \in EraseAllState /\ WellLinked(s.fat) /\ s.fat \in FatType /\ s.slot \in 0 .. FileMax
        /\ \A i \in Later(s) : StartsChain(s.fat, root[i].index)
    BY DEF EraseAllState
  <2>2. CASE s.slot = FileMax
    BY <2>1, <2>2 DEF EraseEntry
  <2>3. CASE s.slot # FileMax
    <3>1. PICK i : i = s.slot
      OBVIOUS
    <3>2. PICK table : table = IF root[i].filename = Null THEN s.fat
                               ELSE erase_file(s.fat, root[i].index)
      OBVIOUS
    <3>3. i \in DirSlots /\ i + 1 \in 0 .. FileMax
          /\ EraseEntry[s] = [fat |-> table, slot |-> i + 1]
      BY <2>1, <2>3, <3>1, <3>2, TableAssumption DEF EraseEntry, DirSlots
    <3>4. \A j \in Listed : j >= i + 1 => j >= i /\ j # i
      BY <3>3, TableAssumption DEF Listed, DirSlots
    <3>5. CASE root[i].filename = Null \/ root[i].index = FAT_EOC
      <4>1. table = s.fat
        BY <3>2, <3>5 DEF erase_file
      <4>2. QED
        BY <2>1, <3>1, <3>3, <3>4, <4>1 DEF EraseAllState
    <3>6. CASE ~(root[i].filename = Null \/ root[i].index = FAT_EOC)
      <4>1. i \in Listed /\ table = erase_file(s.fat, root[i].index)
        BY <3>2, <3>3, <3>6 DEF Listed, Entries
      <4>2. StartsChain(s.fat, root[i].index)
        BY <2>1, <3>1, <3>3, <3>6, <4>1, TableAssumption DEF DirSlots
      <4>3. /\ table \in FatType /\ WellLinked(table)
            /\ \A h : StartsChain(s.fat, h) /\ h # root[i].index => StartsChain(table, h)
        BY <2>1, <4>1, <4>2, EraseFile
      <4>4. \A j \in Listed : j >= i + 1 /\ root[j].index # FAT_EOC
                              => StartsChain(table, root[j].index)
        BY <1>1, <2>1, <3>1, <3>4, <4>1, <4>3
      <4>5. QED
        BY <3>3, <4>3, <4>4 DEF EraseAllState
    <3>7. QED
      BY <3>5, <3>6
  <2>4. QED
    BY <2>2, <2>3
<1> HIDE DEF s0, T
<1>4. Iterate(EraseEntry, s0)[n] \in T
  BY <1>2, <1>3, IterateInvariant
<1>5. QED
  BY <1>4 DEF T, s0, EraseAllState

\* erase_all_files leaves no descriptor and no entry that a chain could start at.
LEMMA EraseAllStep ==
  ASSUME IInv, erase_all_files
  PROVE  IInv'
<1>1. disk_mounted' = disk_mounted /\ result'.code \in Int
  BY OutcomeCode DEF erase_all_files, Return
<1>2. CASE UNCHANGED <<root, fat>>
  BY <1>1, <1>2, OnlyResult DEF erase_all_files, IInv, TypeOK
<1>3. CASE ~(UNCHANGED <<root, fat>>)
  <2>1. /\ fd_table.fdsOccupied = 0
        /\ fat' = Iterate(EraseEntry, [fat |-> fat, slot |-> 0])[FileMax].fat
        /\ root' = [i \in DirSlots |-> EmptyEntry]
        /\ UNCHANGED <<fd_table, data>>
    BY <1>3 DEF erase_all_files
  <2>2. fat' \in FatType /\ WellLinked(fat')
    BY <2>1, EraseAllLoop, TableAssumption
  <2>3. TypeOK /\ TableCounted
    BY DEF IInv, ChainInv
  <2>4. Open = {} /\ Open' = {}
    <3>1. IsFiniteSet(Open)
      BY <2>3, NodeFacts
    <3>2. Cardinality(Open) = 0
      BY <2>1, <2>3 DEF TableCounted
    <3>3. Open = {}
      BY <3>1, <3>2, FS_EmptySet
    <3>4. QED
      BY <2>1, <3>3 DEF Open
  <2>5. root' \in [DirSlots -> DirEntry] /\ Listed' = {}
    BY <2>1, Sizes DEF DirEntry, EmptyEntry, Links, Listed, Entries
  <2>6. TypeOK'
    BY <1>1, <2>1, <2>2, <2>3, <2>5 DEF TypeOK
  <2>7. TableCounted' /\ ClosedNodesReset' /\ ChainsWellLinked'
    BY <2>1, <2>2, <2>4 DEF IInv, ChainInv, TableCounted, ClosedNodesReset, Node, ChainsWellLinked
  <2>8. HeadsStartChains' /\ HeadsBelongToOneEntry' /\ NamesUnique' /\ OpenFilesListed'
    BY <2>4, <2>5 DEF HeadsStartChains, Heads, DirHeads, FdHeads, HeadsBelongToOneEntry,
      NamesUnique, OpenFilesListed
  <2>9. QED
    BY <2>6, <2>7, <2>8 DEF IInv, ChainInv
<1>4. QED
  BY <1>2, <1>3

-----------------------------------------------------------------------------
(* Descriptors.                                                            *)

\* A call that changes fields of one open node, and not what file it is open on,
\* leaves the table counted.
LEMMA NodeUpdate ==
  ASSUME TypeOK, TableCounted, ClosedNodesReset, NEW fd \in Open, NEW node \in NodeType,
         node.in_use = Node(fd).in_use,
         fd_table' = [fd_table EXCEPT !.nodes[fd] = node]
  PROVE  /\ fd_table' \in TableType
         /\ TableCounted' /\ ClosedNodesReset'
         /\ Open' = Open
         /\ \A x \in Fds : Node(x)' = IF x = fd THEN node ELSE Node(x)
<1>1. fd \in Fds /\ fd_table.nodes \in [Fds -> NodeType] /\ fd_table \in TableType
  BY NodeFacts DEF TypeOK
<1>2. /\ fd_table'.nodes = [fd_table.nodes EXCEPT ![fd] = node]
      /\ fd_table'.fdsOccupied = fd_table.fdsOccupied
      /\ fd_table' = [nodes |-> fd_table'.nodes, fdsOccupied |-> fd_table'.fdsOccupied]
  BY <1>1 DEF TableType
<1>3. \A x \in Fds : fd_table'.nodes[x] = IF x = fd THEN node ELSE fd_table.nodes[x]
  BY <1>1, <1>2
<1>4. fd_table' \in TableType
  BY <1>1, <1>2 DEF TableType
<1>5. \A x \in Fds : Node(x)' = IF x = fd THEN node ELSE Node(x)
  BY <1>3 DEF Node
<1>6. Open' = Open
  BY <1>3 DEF Open, InUse, Node
<1>7. TableCounted'
  BY <1>2, <1>6 DEF TableCounted
<1>8. ClosedNodesReset'
  BY <1>5, <1>6 DEF ClosedNodesReset
<1>9. QED
  BY <1>4, <1>5, <1>6, <1>7, <1>8

\* fs_lseek and fs_read move an offset.
LEMMA OffsetMoved ==
  ASSUME IInv, NEW fd, isUsable(fd), NEW offset \in Nat,
         fd_table' = [fd_table EXCEPT !.nodes[fd].offset = offset],
         UNCHANGED <<disk_mounted, root, fat, data>>, result'.code \in Int
  PROVE  IInv'
<1> DEFINE node == [Node(fd) EXCEPT !.offset = offset]
<1>1. TypeOK /\ TableCounted /\ ClosedNodesReset /\ fd \in Open /\ Node(fd) \in NodeType /\ fd \in Fds
  BY NodeFacts DEF IInv, ChainInv, isUsable, isOpenByFd, Node
<1>2. /\ node \in NodeType
      /\ node.in_use = Node(fd).in_use /\ node.filename = Node(fd).filename
      /\ node.dir_entry_index = Node(fd).dir_entry_index
      /\ node.first_data_block = Node(fd).first_data_block
  BY <1>1 DEF NodeType
<1>3. fd_table' = [fd_table EXCEPT !.nodes[fd] = node]
  BY <1>1 DEF Node
<1> HIDE DEF node
<1>4. /\ fd_table' \in TableType
      /\ TableCounted' /\ ClosedNodesReset'
      /\ Open' = Open
      /\ \A x \in Fds : Node(x)' = IF x = fd THEN node ELSE Node(x)
  BY <1>1, <1>2, <1>3, NodeUpdate
<1>5. \A x \in Open : /\ Node(x)'.filename = Node(x).filename
                      /\ Node(x)'.dir_entry_index = Node(x).dir_entry_index
                      /\ Node(x)'.first_data_block = Node(x).first_data_block
  BY <1>1, <1>2, <1>4, NodeFacts
<1>6. Listed' = Listed /\ DirHeads' = DirHeads /\ FdHeads' = FdHeads
  BY <1>4, <1>5 DEF Listed, Entries, DirHeads, FdHeads
<1>7. TypeOK'
  BY <1>4, <1>1 DEF TypeOK
<1>8. ChainInv'
  BY <1>4, <1>5, <1>6 DEF IInv, ChainInv, NamesUnique, OpenFilesListed,
    ChainsWellLinked, HeadsStartChains, Heads, HeadsBelongToOneEntry
<1>9. QED
  BY <1>7, <1>8 DEF IInv

LEMMA SeekStep ==
  ASSUME IInv, NEW fd \in FdArgs, NEW offset \in OffsetArgs, fs_lseek(fd, offset)
  PROVE  IInv'
<1>1. disk_mounted' = disk_mounted /\ UNCHANGED <<root, fat, data>> /\ result'.code \in Int
  BY OutcomeCode DEF fs_lseek, Return, volume
<1>2. CASE ~isUsable(fd) \/ offset > Node(fd).size
  BY <1>1, <1>2, OnlyResult DEF fs_lseek, IInv, TypeOK
<1>3. CASE ~(~isUsable(fd) \/ offset > Node(fd).size)
  <2>1. offset \in Nat
    BY DEF OffsetArgs
  <2>2. fd_table' = [fd_table EXCEPT !.nodes[fd].offset = offset]
    BY <1>3 DEF fs_lseek
  <2>3. QED
    BY <1>1, <1>3, <2>1, <2>2, OffsetMoved
<1>4. QED
  BY <1>2, <1>3

\* One turn of the read loop stays in the data region and before end_offset.
LEMMA ReadTurnType ==
  ASSUME NEW table \in FatType, NEW blocks \in DataType, NEW end_offset \in Nat,
         NEW s \in ReadState, NEW t, t = ReadTurn(table, blocks, end_offset)[s]
  PROVE  /\ t \in ReadState
         /\ s.offset <= end_offset => t.offset <= end_offset
<1> DEFINE length == TurnLength(s.offset, end_offset)
           first == s.offset % BlockSize
           last == s.offset + length
           bytes == [i \in 1 .. length |-> blocks[s.block][first + i - 1]]
<1>1. s.offset \in Nat /\ s.block \in Blocks /\ s.buf \in Seq(Byte)
  BY DEF ReadState
<1>2. CASE s.offset >= end_offset
  BY <1>2 DEF ReadTurn
<1>3. CASE ~(s.offset >= end_offset)
  <2>1. /\ length \in Nat /\ first \in Nat /\ last \in Nat /\ first + length <= BlockSize
        /\ last <= end_offset
    <3>1. s.offset < end_offset
      BY <1>1, <1>3
    <3>2. length \in Nat /\ first + length <= BlockSize /\ s.offset + length <= end_offset
      BY <1>1, <3>1, TurnFits
    <3>3. first \in Nat
      BY <1>1, DivMod
    <3> HIDE DEF length, first
    <3>4. QED
      BY <1>1, <3>2, <3>3
  <2>2. t = [offset |-> last,
             block  |-> NextBlock(table, s.block, last, end_offset),
             buf    |-> s.buf \o bytes]
    BY <1>3 DEF ReadTurn
  <2>3. bytes \in Seq(Byte)
    <3>1. ASSUME NEW i \in 1 .. length
          PROVE  blocks[s.block][first + i - 1] \in Byte
      <4>1. first + i - 1 \in 0 .. BlockSize - 1
        BY <2>1, Sizes
      <4>2. QED
        BY <1>1, <4>1 DEF DataType
    <3>2. QED
      BY <2>1, <3>1
  <2> HIDE DEF bytes, length, first, last
  <2>4. NextBlock(table, s.block, last, end_offset) \in Blocks
    BY <1>1, SkipStep DEF NextBlock
  <2>5. s.buf \o bytes \in Seq(Byte)
    BY <1>1, <2>3
  <2>6. QED
    BY <2>1, <2>2, <2>4, <2>5 DEF ReadState
<1>4. QED
  BY <1>2, <1>3

\* The read loop counts the bytes it collects, and stops at the end of the file.
LEMMA ReadOutcomeType ==
  ASSUME TypeOK, NEW node \in NodeType, node.first_data_block # FAT_EOC, NEW count \in Nat
  PROVE  /\ ReadOutcome(node, count) \in ReadState
         /\ node.offset <= node.size => ReadOutcome(node, count).offset <= node.size
<1> DEFINE wanted == node.offset + count
           end_offset == IF wanted > node.size THEN node.size ELSE wanted
           block == skip_blocks(fat, node.first_data_block, current_block_offset(node.offset))
           s0 == [offset |-> node.offset, block |-> block, buf |-> <<>>]
           f == ReadTurn(fat, data, end_offset)
           T == {s \in ReadState : node.offset <= node.size => s.offset <= end_offset}
<1>1. /\ fat \in FatType /\ data \in DataType /\ node.offset \in Nat /\ node.size \in Nat
      /\ node.first_data_block \in Blocks /\ end_offset \in Nat /\ end_offset <= node.size
      /\ node.offset <= node.size => node.offset <= end_offset
  BY DEF TypeOK, NodeType, Links
<1>2. block \in Blocks
  BY <1>1, SkipStep, BlockCountType
<1>3. ReadOutcome(node, count) = Iterate(f, s0)[end_offset]
  BY DEF ReadOutcome
<1> HIDE DEF block, end_offset
<1>4. s0 \in T
  BY <1>1, <1>2 DEF ReadState
<1>5. ASSUME NEW s \in T
      PROVE  f[s] \in T
  BY <1>1, ReadTurnType
<1> HIDE DEF s0, f, T
<1>6. \A n \in Nat : Iterate(f, s0)[n] \in T
  BY <1>4, <1>5, IterateInvariant
<1>7. ReadOutcome(node, count) \in T
  BY <1>1, <1>3, <1>6
<1>8. ReadOutcome(node, count).offset \in Nat
  BY <1>7 DEF T, ReadState
<1>9. QED
  BY <1>1, <1>7, <1>8 DEF T

LEMMA ReadStep ==
  ASSUME IInv, NEW fd \in FdArgs, NEW buf, NEW count \in Nat, fs_read(fd, buf, count)
  PROVE  IInv'
<1>1. disk_mounted' = disk_mounted /\ UNCHANGED <<root, fat, data>>
  BY DEF fs_read, volume
<1> DEFINE refused == buf = Null \/ ~isUsable(fd)
           nothing == count = 0 \/ Node(fd).first_data_block = FAT_EOC
                        \/ Node(fd).offset >= Node(fd).size
<1>2. CASE refused \/ nothing
  BY <1>1, <1>2, OnlyResult, OutcomeCode DEF fs_read, Return, IInv, TypeOK
<1>3. CASE ~(refused \/ nothing)
  <2> DEFINE s == ReadOutcome(Node(fd), count)
  <2>1. /\ isUsable(fd) /\ Node(fd).first_data_block # FAT_EOC
        /\ fd_table' = [fd_table EXCEPT !.nodes[fd].offset = s.offset]
        /\ result' = [Outcome(Len(s.buf)) EXCEPT !.buf = s.buf]
    BY <1>3 DEF fs_read
  <2>2. TypeOK /\ Node(fd) \in NodeType /\ count \in Nat
    BY <2>1, NodeFacts DEF IInv, isUsable
  <2>3. s \in ReadState
    BY <2>1, <2>2, ReadOutcomeType
  <2> HIDE DEF s
  <2>4. s.offset \in Nat /\ Len(s.buf) \in Int
    BY <2>3 DEF ReadState
  <2>5. result'.code \in Int
    BY <2>1, <2>4 DEF Outcome
  <2>6. QED
    BY <1>1, <2>1, <2>4, <2>5, OffsetMoved
<1>4. QED
  BY <1>2, <1>3

\* A descriptor that addFd hands out now stands for the entry the scan stopped at.
LEMMA OpenStep ==
  ASSUME IInv, NEW name \in NameArgs, fs_open(name)
  PROVE  IInv'
<1>1. disk_mounted' = disk_mounted /\ UNCHANGED <<root, fat, data>>
  BY DEF fs_open, volume
<1> DEFINE refused == \/ ~disk_mounted
                      \/ ~isValidFileName(name)
                      \/ table_is_full(fd_table)
                      \/ Entries(name) = {}
<1>2. CASE refused
  BY <1>1, <1>2, OnlyResult, OutcomeCode DEF fs_open, Return, IInv, TypeOK
<1>3. CASE ~refused
  <2>1. TypeOK /\ TableCounted /\ root \in [DirSlots -> DirEntry]
    BY DEF IInv, ChainInv, TypeOK
  <2>2. PICK fd, i : fd = addFd(fd_table) /\ i = FirstEntry(name)
    OBVIOUS
  <2>3. /\ name # Null /\ ~table_is_full(fd_table) /\ Entries(name) # {}
        /\ fd_table' = Occupied(fd_table, fd, name, CacheEntry(Node(fd), i))
        /\ result' = Outcome(fd)
    BY <1>3, <2>2 DEF fs_open, Return, isValidFileName
  <2>4. fd \in Fds /\ fd \notin Open
    BY <2>1, <2>2, <2>3, AddFdFound
  <2>5. i \in DirSlots /\ root[i].filename = name /\ i \in Listed
    BY <2>2, <2>3, FirstEntryFound DEF Listed, Entries
  <2>6. result'.code \in Int
    BY <2>3, <2>4, OutcomeCode, FdsFinite
  <2>7. PICK node : node = [CacheEntry(Node(fd), i) EXCEPT !.in_use = TRUE, !.filename = name]
    OBVIOUS
  <2>8. /\ node \in NodeType /\ node.in_use = TRUE /\ node.filename = name
        /\ node.dir_entry_index = i /\ node.first_data_block = root[i].index
    <3>1. Node(fd).first_data_block = FAT_EOC /\ Node(fd) \in NodeType
      BY <2>1, <2>4, NodeFacts DEF IInv, ChainInv, ClosedNodesReset, fdNode_constructor
    <3>2. QED
      BY <2>1, <2>5, <2>7, <3>1 DEF CacheEntry, NodeType, DirEntry, NameArgs
  <2>9. /\ fd_table' = [nodes |-> [fd_table.nodes EXCEPT ![fd] = node],
                        fdsOccupied |-> fd_table.fdsOccupied + 1]
        /\ fd_table.nodes \in [Fds -> NodeType]
    BY <2>1, <2>3, <2>7, NodeFacts DEF Occupied
  <2>10. \A x \in Fds : Node(x)' = IF x = fd THEN node ELSE Node(x)
    BY <2>4, <2>9 DEF Node
  <2>11. Open' = Open \cup {fd} /\ Node(fd)' = node /\ \A x \in Open : Node(x)' = Node(x)
    <3>1. Open' = Open \cup {fd}
      BY <2>1, <2>4, <2>8, <2>10, NodeFacts DEF Open, InUse, Node
    <3>2. QED
      BY <2>1, <2>4, <2>10, <3>1, NodeFacts
  <2>12. TableCounted' /\ fd_table' \in TableType
    <3>1. IsFiniteSet(Open) /\ Cardinality(Open) \in Nat /\ Cardinality(Open') = Cardinality(Open) + 1
      BY <2>1, <2>4, <2>11, NodeFacts, FS_AddElement, FS_CardinalityType
    <3>2. fd_table'.fdsOccupied = Cardinality(Open')
      BY <2>1, <2>9, <3>1 DEF TableCounted
    <3>3. Open' \subseteq Fds
      BY <2>1, <2>4, <2>11, NodeFacts
    <3>4. Cardinality(Open') <= OpenMax
      BY <3>3, FdsFinite, FS_Subset
    <3>5. fd_table'.fdsOccupied \in 0 .. OpenMax
      BY <3>1, <3>2, <3>4, FdsFinite
    <3>6. fd_table'.nodes \in [Fds -> NodeType]
      BY <2>4, <2>8, <2>9
    <3>7. QED
      BY <2>9, <3>2, <3>5, <3>6 DEF TableCounted, TableType
  <2>13. ClosedNodesReset'
    BY <2>10, <2>11 DEF IInv, ChainInv, ClosedNodesReset
  <2>14. OpenFilesListed'
    <3>1. \A x \in Open : /\ Node(x)'.filename # Null
                         /\ root'[Node(x)'.dir_entry_index].filename = Node(x)'.filename
      BY <1>1, <2>11 DEF IInv, ChainInv, OpenFilesListed
    <3>2. /\ Node(fd)'.filename # Null
          /\ root'[Node(fd)'.dir_entry_index].filename = Node(fd)'.filename
      BY <1>1, <2>3, <2>5, <2>8, <2>11
    <3>3. QED
      BY <2>11, <3>1, <3>2 DEF OpenFilesListed
  <2>15. Listed' = Listed /\ DirHeads' = DirHeads
    BY <1>1 DEF Listed, Entries, DirHeads
  <2>16. Heads' = Heads
    <3>1. FdHeads' \subseteq FdHeads \cup DirHeads
      BY <2>5, <2>8, <2>11 DEF FdHeads, DirHeads
    <3>2. FdHeads \subseteq FdHeads'
      BY <2>11 DEF FdHeads
    <3>3. QED
      BY <2>15, <3>1, <3>2 DEF Heads
  <2>17. HeadsBelongToOneEntry'
    <3>1. \A j, k \in Listed : root[j].index = root[k].index /\ root[j].index # FAT_EOC => j = k
      BY DEF IInv, ChainInv, HeadsBelongToOneEntry
    <3>2. \A x \in Open', j \in Listed :
            Node(x)'.first_data_block = root[j].index /\ root[j].index # FAT_EOC
              => Node(x)'.dir_entry_index = j
      BY <2>5, <2>8, <2>11, <3>1 DEF IInv, ChainInv, HeadsBelongToOneEntry
    <3>3. \A x, y \in Open' :
            Node(x)'.first_data_block = Node(y)'.first_data_block
              /\ Node(x)'.first_data_block # FAT_EOC
              => Node(x)'.dir_entry_index = Node(y)'.dir_entry_index
      BY <2>5, <2>8, <2>11, <3>2 DEF IInv, ChainInv, HeadsBelongToOneEntry
    <3>4. QED
      BY <1>1, <2>15, <3>1, <3>2, <3>3 DEF HeadsBelongToOneEntry
  <2>18. TypeOK' /\ NamesUnique' /\ ChainsWellLinked' /\ HeadsStartChains'
    BY <1>1, <2>1, <2>6, <2>12, <2>15, <2>16
    DEF IInv, ChainInv, TypeOK, NamesUnique, ChainsWellLinked, HeadsStartChains
  <2>19. QED
    BY <2>12, <2>13, <2>14, <2>17, <2>18 DEF IInv, ChainInv
<1>4. QED
  BY <1>2, <1>3

\* fs_close gives the node back as the constructor made it, and takes it off the
\* count, which was not zero.
LEMMA CloseStep ==
  ASSUME IInv, NEW fd \in FdArgs, fs_close(fd)
  PROVE  IInv'
<1>1. disk_mounted' = disk_mounted /\ UNCHANGED <<root, fat, data>> /\ result'.code \in Int
  BY OutcomeCode DEF fs_close, Return, volume
<1>2. CASE ~isUsable(fd)
  BY <1>1, <1>2, OnlyResult DEF fs_close, IInv, TypeOK
<1>3. CASE isUsable(fd)
  <2>1. TypeOK /\ TableCounted
    BY DEF IInv, ChainInv
  <2>2. /\ fd \in Open /\ fd \in Fds
        /\ fd_table' = [nodes |-> [fd_table.nodes EXCEPT ![fd] = fdNode_constructor],
                        fdsOccupied |-> fd_table.fdsOccupied - 1]
    BY <1>3, <2>1, NodeFacts DEF fs_close, removeFd, isUsable, isOpenByFd, Node
  <2>3. /\ fdNode_constructor \in NodeType
        /\ ~fdNode_constructor.in_use
    BY TableAssumption DEF fdNode_constructor, NodeType, Links, DirSlots
  <2>4. \A x \in Fds : Node(x)' = IF x = fd THEN fdNode_constructor ELSE Node(x)
    BY <2>1, <2>2, NodeFacts DEF Node
  <2>5. Open' = Open \ {fd} /\ \A x \in Open' : Node(x)' = Node(x)
    <3>1. Open' = Open \ {fd}
      BY <2>1, <2>2, <2>3, <2>4, NodeFacts DEF Open, InUse, Node
    <3>2. QED
      BY <2>1, <2>4, <3>1, NodeFacts
  <2>6. TableCounted' /\ fd_table' \in TableType
    <3>1. Cardinality(Open') \in Nat /\ Cardinality(Open') = Cardinality(Open) - 1
      BY <2>1, <2>2, <2>5, NodeFacts, FS_RemoveElement, FS_CardinalityType
    <3>2. fd_table'.fdsOccupied = Cardinality(Open')
      BY <2>1, <2>2, <3>1 DEF TableCounted
    <3>3. fd_table'.fdsOccupied \in 0 .. OpenMax
      BY <2>1, <2>2, <3>1, <3>2, NodeFacts, FdsFinite
    <3>4. fd_table'.nodes \in [Fds -> NodeType]
      BY <2>1, <2>2, <2>3, NodeFacts
    <3>5. QED
      BY <2>2, <3>2, <3>3, <3>4 DEF TableCounted, TableType
  <2>7. ClosedNodesReset'
    BY <2>4, <2>5 DEF IInv, ChainInv, ClosedNodesReset
  <2>8. OpenFilesListed'
    BY <1>1, <2>5 DEF IInv, ChainInv, OpenFilesListed
  <2>9. Listed' = Listed /\ DirHeads' = DirHeads
    BY <1>1 DEF Listed, Entries, DirHeads
  <2>10. Heads' \subseteq Heads
    BY <2>5, <2>9 DEF Heads, FdHeads
  <2>11. HeadsBelongToOneEntry'
    BY <1>1, <2>5, <2>9 DEF IInv, ChainInv, HeadsBelongToOneEntry
  <2>12. TypeOK' /\ NamesUnique' /\ ChainsWellLinked' /\ HeadsStartChains'
    BY <1>1, <2>1, <2>6, <2>9, <2>10
    DEF IInv, ChainInv, TypeOK, NamesUnique, ChainsWellLinked, HeadsStartChains
  <2>13. QED
    BY <2>6, <2>7, <2>8, <2>11, <2>12 DEF IInv, ChainInv
<1>4. QED
  BY <1>2, <1>3

\* fs_write changes the node of fd and the entry it stands for.  If they get a first
\* block, no descriptor and no other entry had it, because it was free.
LEMMA WriteStep ==
  ASSUME IInv, NEW fd \in FdArgs, NEW buf \in BufArgs, NEW count \in CountArgs,
         fs_write(fd, buf, count)
  PROVE  IInv' /\ Node(fd)'.filename = Node(fd).filename
<1>1. disk_mounted' = disk_mounted
  BY DEF fs_write
<1> DEFINE refused == buf = Null \/ ~isUsable(fd) \/ count = 0
<1>2. CASE refused
  <2>1. UNCHANGED <<fd_table, root, fat, data>> /\ result'.code \in Int
    BY <1>2, OutcomeCode DEF fs_write, Return, volume
  <2>2. Node(fd)' = Node(fd)
    BY <2>1 DEF Node
  <2>3. QED
    BY <1>1, <2>1, <2>2, OnlyResult DEF IInv, TypeOK
<1>3. CASE ~refused
  <2>1. /\ TypeOK /\ TableCounted /\ ClosedNodesReset /\ WellLinked(fat)
        /\ fd \in Open /\ fd \in Fds /\ Node(fd) \in NodeType /\ count \in Nat
    BY <1>3, NodeFacts, ClientAssumption
    DEF IInv, ChainInv, ChainsWellLinked, isUsable, isOpenByFd, Node, CountArgs
  <2>2. PICK w0 : w0 = [fat |-> fat, data |-> data, root |-> root, node |-> Node(fd)]
    OBVIOUS
  <2>3. PICK bytes : bytes = Bytes(Node(fd).filename, Node(fd).offset, buf)
    OBVIOUS
  <2>4. PICK o : o = WriteOutcome(w0, bytes, count)
    OBVIOUS
  <2>5. /\ fat' = o.w.fat /\ data' = o.w.data /\ root' = o.w.root
        /\ fd_table' = [fd_table EXCEPT !.nodes[fd] = o.w.node]
        /\ result' = Outcome(o.code)
    BY <1>3, <2>2, <2>3, <2>4 DEF fs_write, Return
  <2>6. w0 \in WState
    BY <2>1, <2>2 DEF TypeOK, WState
  <2>7. bytes \in [Nat -> Byte]
    <3>1. Node(fd).filename \in Names /\ Node(fd).offset \in Nat /\ buf \in Versions
      BY <1>3, <2>1 DEF IInv, ChainInv, OpenFilesListed, NodeType, BufArgs
    <3>2. QED
      BY <2>3, <3>1 DEF Bytes, Byte
  <2>8. w0.node.first_data_block # FAT_EOC => StartsChain(w0.fat, w0.node.first_data_block)
    BY <2>1, <2>2 DEF IInv, ChainInv, HeadsStartChains, Heads, FdHeads
  <2>9. WriteEffect(w0, o.w) /\ o.code \in Int
    BY <2>1, <2>2, <2>4, <2>6, <2>7, <2>8, WriteOutcomeEffect
  <2>10. PICK node : node = o.w.node
    OBVIOUS
  <2>11. /\ node \in NodeType
         /\ node.in_use = Node(fd).in_use /\ node.filename = Node(fd).filename
         /\ node.dir_entry_index = Node(fd).dir_entry_index
    BY <2>2, <2>9, <2>10 DEF WriteEffect, WState, SameFile
  <2>12. /\ fd_table' \in TableType
         /\ TableCounted' /\ ClosedNodesReset'
         /\ Open' = Open
         /\ \A x \in Fds : Node(x)' = IF x = fd THEN node ELSE Node(x)
    BY <2>1, <2>5, <2>10, <2>11, NodeUpdate
  <2>13. /\ Node(fd)' = node
         /\ \A x \in Open : /\ x # fd => Node(x)' = Node(x)
                            /\ Node(x)'.filename = Node(x).filename
                            /\ Node(x)'.dir_entry_index = Node(x).dir_entry_index
                            /\ Node(x).dir_entry_index \in DirSlots
    BY <2>1, <2>11, <2>12, NodeFacts DEF NodeType
  <2>14. /\ root' \in [DirSlots -> DirEntry] /\ fat' \in FatType /\ data' \in DataType
         /\ WellLinked(fat')
         /\ \A i \in DirSlots : root'[i].filename = root[i].filename
         /\ \A h : StartsChain(fat, h) => StartsChain(fat', h)
    BY <2>2, <2>5, <2>9 DEF WriteEffect, WState, SameFile
  <2>15. Listed' = Listed /\ Listed \subseteq DirSlots
    BY <2>14 DEF Listed, Entries
  <2>16. NamesUnique' /\ ChainsWellLinked'
    BY <2>14, <2>15 DEF IInv, ChainInv, NamesUnique, ChainsWellLinked
  <2>17. OpenFilesListed'
    BY <2>12, <2>13, <2>14 DEF IInv, ChainInv, OpenFilesListed
  <2>18. TypeOK'
    BY <1>1, <2>1, <2>5, <2>9, <2>12, <2>14, OutcomeCode DEF TypeOK
  <2>19. /\ \A h \in Heads : StartsChain(fat, h)
         /\ HeadsBelongToOneEntry
         /\ Node(fd).dir_entry_index \in Listed
    <3>1. Node(fd).dir_entry_index \in Listed
      BY <2>1, <2>13 DEF IInv, ChainInv, OpenFilesListed, Listed, Entries
    <3>2. QED
      BY <3>1 DEF IInv, ChainInv, HeadsStartChains
  <2>20. CASE /\ node.first_data_block = Node(fd).first_data_block
              /\ \A i \in DirSlots : root'[i].index = root[i].index
    <3>1. \A x \in Open : Node(x)'.first_data_block = Node(x).first_data_block
      BY <2>13, <2>20
    <3>2. Heads' = Heads
      BY <2>12, <2>15, <2>20, <3>1 DEF Heads, DirHeads, FdHeads
    <3>3. HeadsStartChains'
      BY <2>14, <2>19, <3>2 DEF HeadsStartChains
    <3>4. HeadsBelongToOneEntry'
      BY <2>12, <2>13, <2>15, <2>19, <2>20, <3>1 DEF HeadsBelongToOneEntry
    <3>5. QED
      BY <2>11, <2>12, <2>13, <2>16, <2>17, <2>18, <3>3, <3>4 DEF IInv, ChainInv
  <2>21. CASE ~( /\ node.first_data_block = Node(fd).first_data_block
                 /\ \A i \in DirSlots : root'[i].index = root[i].index)
    <3>1. PICK b : b = node.first_data_block
      OBVIOUS
    <3>2. PICK e : e = Node(fd).dir_entry_index
      OBVIOUS
    <3>3. /\ fat[b] = 0
          /\ StartsChain(fat', b)
          /\ \A i \in DirSlots : root'[i].index = IF i = e THEN b ELSE root[i].index
      BY <2>2, <2>5, <2>9, <2>10, <2>21, <3>1, <3>2 DEF WriteEffect
    <3>4. b \notin Heads /\ b # FAT_EOC
      <4>1. b \notin Heads
        BY <2>19, <3>3 DEF StartsChain
      <4>2. b # FAT_EOC
        BY <3>3, Sizes DEF StartsChain
      <4>3. QED
        BY <4>1, <4>2
    <3>5. /\ \A i \in Listed : root[i].index # b
          /\ \A x \in Open : Node(x).first_data_block # b
      BY <3>4 DEF Heads, DirHeads, FdHeads
    <3>6. Heads' \subseteq Heads \cup {b}
      BY <2>12, <2>13, <2>15, <3>1, <3>3 DEF Heads, DirHeads, FdHeads
    <3>7. HeadsStartChains'
      BY <2>14, <2>19, <3>3, <3>6 DEF HeadsStartChains
    <3>8. HeadsBelongToOneEntry'
      <4>1. \A i, j \in Listed : root'[i].index = root'[j].index /\ root'[i].index # FAT_EOC => i = j
        BY <2>15, <2>19, <3>3, <3>5 DEF HeadsBelongToOneEntry
      <4>2. \A x \in Open, i \in Listed :
              Node(x)'.first_data_block = root'[i].index /\ root'[i].index # FAT_EOC
                => Node(x)'.dir_entry_index = i
        BY <2>13, <2>15, <2>19, <3>1, <3>2, <3>3, <3>5 DEF HeadsBelongToOneEntry
      <4>3. \A x, y \in Open :
              Node(x)'.first_data_block = Node(y)'.first_data_block
                /\ Node(x)'.first_data_block # FAT_EOC
                => Node(x)'.dir_entry_index = Node(y)'.dir_entry_index
        BY <2>13, <2>19, <3>1, <3>5 DEF HeadsBelongToOneEntry
      <4>4. QED
        BY <2>12, <2>15, <4>1, <4>2, <4>3 DEF HeadsBelongToOneEntry
    <3>9. QED
      BY <2>11, <2>12, <2>13, <2>16, <2>17, <2>18, <3>7, <3>8 DEF IInv, ChainInv
  <2>22. QED
    BY <2>20, <2>21
<1>4. QED
  BY <1>2, <1>3

-----------------------------------------------------------------------------
(* Which bytes a call touches.                                             *)

WritesInside ==
  \A b \in Blocks : data'[b] # data[b] =>
    \/ b \in FreeBlocks(fat)
    \/ \E fd \in Open : /\ b \in ChainOf(fat, Node(fd).first_data_block)
                        /\ Node(fd)'.offset > Node(fd).offset

LEMMA WriteInside ==
  ASSUME IInv, NEW fd \in FdArgs, NEW buf \in BufArgs, NEW count \in CountArgs,
         fs_write(fd, buf, count)
  PROVE  WritesInside
<1> DEFINE refused == buf = Null \/ ~isUsable(fd) \/ count = 0
<1>1. CASE refused
  BY <1>1 DEF fs_write, volume, WritesInside
<1>2. CASE ~refused
  <2>1. /\ TypeOK /\ WellLinked(fat)
        /\ fd \in Open /\ fd \in Fds /\ Node(fd) \in NodeType /\ count \in Nat
    BY <1>2, NodeFacts, ClientAssumption
    DEF IInv, ChainInv, ChainsWellLinked, isUsable, isOpenByFd, Node, CountArgs
  <2>2. PICK w0 : w0 = [fat |-> fat, data |-> data, root |-> root, node |-> Node(fd)]
    OBVIOUS
  <2>3. PICK bytes : bytes = Bytes(Node(fd).filename, Node(fd).offset, buf)
    OBVIOUS
  <2>4. PICK o : o = WriteOutcome(w0, bytes, count)
    OBVIOUS
  <2>5. data' = o.w.data /\ fd_table' = [fd_table EXCEPT !.nodes[fd] = o.w.node]
    BY <1>2, <2>2, <2>3, <2>4 DEF fs_write
  <2>6. w0 \in WState
    BY <2>1, <2>2 DEF TypeOK, WState
  <2>7. bytes \in [Nat -> Byte]
    <3>1. Node(fd).filename \in Names /\ Node(fd).offset \in Nat /\ buf \in Versions
      BY <1>2, <2>1 DEF IInv, ChainInv, OpenFilesListed, NodeType, BufArgs
    <3>2. QED
      BY <2>3, <3>1 DEF Bytes, Byte
  <2>8. w0.node.first_data_block # FAT_EOC => StartsChain(w0.fat, w0.node.first_data_block)
    BY <2>1, <2>2 DEF IInv, ChainInv, HeadsStartChains, Heads, FdHeads
  <2>9. \A b \in Blocks : o.w.data[b] # w0.data[b] =>
          \/ w0.fat[b] = 0
          \/ /\ b \in ChainOf(w0.fat, w0.node.first_data_block)
             /\ o.w.node.offset > w0.node.offset
    BY <2>1, <2>2, <2>4, <2>6, <2>7, <2>8, WriteOutcomeInside
  <2>10. Node(fd)' = o.w.node
    BY <2>1, <2>5 DEF Node, TypeOK, TableType
  <2>11. QED
    BY <2>1, <2>2, <2>5, <2>9, <2>10 DEF WritesInside, FreeBlocks
<1>3. QED
  BY <1>1, <1>2

LEMMA NextInside == IInv /\ [Next]_vars => WritesInside
<1> SUFFICES ASSUME IInv, [Next]_vars PROVE WritesInside
  OBVIOUS
<1>1. ASSUME UNCHANGED data
      PROVE  WritesInside
  BY <1>1 DEF WritesInside
<1>2. ASSUME NEW fd \in FdArgs, NEW buf \in BufArgs, NEW count \in CountArgs,
             fs_write(fd, buf, count)
      PROVE  WritesInside
  BY <1>2, WriteInside
<1>3. CASE \/ UNCHANGED vars \/ fs_mount \/ fs_umount \/ fs_info \/ fs_ls \/ free_blocks
           \/ erase_all_files
           \/ \E name \in NameArgs : fs_create(name)
           \/ \E name \in NameArgs : fs_delete(name)
  BY <1>1, <1>3
  DEF vars, volume, fs_mount, fs_umount, fs_info, fs_ls, free_blocks, erase_all_files,
      fs_create, fs_delete
<1>4. CASE \/ \E name \in NameArgs : fs_open(name)
           \/ \E fd \in FdArgs : fs_close(fd)
           \/ \E fd \in FdArgs : fs_stat(fd)
           \/ \E fd \in FdArgs, offset \in OffsetArgs : fs_lseek(fd, offset)
           \/ \E fd \in FdArgs, buf \in BufArgs, count \in CountArgs : fs_read(fd, buf, count)
  BY <1>1, <1>4 DEF volume, fs_open, fs_close, fs_stat, fs_lseek, fs_read
<1>5. QED
  BY <1>2, <1>3, <1>4 DEF Next

-----------------------------------------------------------------------------
(* The theorems.                                                           *)

LEMMA NextInv == IInv /\ [Next]_vars => IInv'
<1> SUFFICES ASSUME IInv, [Next]_vars PROVE IInv'
  OBVIOUS
<1>1. CASE UNCHANGED vars
  BY <1>1, OnlyResult DEF vars, IInv, TypeOK
<1>2. CASE fs_mount \/ fs_umount \/ fs_info \/ fs_ls \/ free_blocks \/ \E fd \in FdArgs : fs_stat(fd)
  BY <1>2, ReadOnlyCalls
<1>3. ASSUME NEW name \in NameArgs, fs_create(name)
      PROVE  IInv'
  BY <1>3, CreateStep
<1>4. ASSUME NEW name \in NameArgs, fs_delete(name)
      PROVE  IInv'
  BY <1>4, DeleteStep
<1>5. ASSUME NEW name \in NameArgs, fs_open(name)
      PROVE  IInv'
  BY <1>5, OpenStep
<1>6. ASSUME NEW fd \in FdArgs, fs_close(fd)
      PROVE  IInv'
  BY <1>6, CloseStep
<1>7. ASSUME NEW fd \in FdArgs, NEW offset \in OffsetArgs, fs_lseek(fd, offset)
      PROVE  IInv'
  BY <1>7, SeekStep
<1>8. ASSUME NEW fd \in FdArgs, NEW buf \in BufArgs, NEW count \in CountArgs,
             fs_write(fd, buf, count)
      PROVE  IInv'
  BY <1>8, WriteStep
<1>9. ASSUME NEW fd \in FdArgs, NEW buf \in BufArgs, NEW count \in CountArgs,
             fs_read(fd, buf, count)
      PROVE  IInv'
  <2>1. count \in Nat
    BY ClientAssumption DEF CountArgs
  <2>2. QED
    BY <1>9, <2>1, ReadStep
<1>10. CASE erase_all_files
  BY <1>10, EraseAllStep
<1>11. QED
  BY <1>1, <1>2, <1>3, <1>4, <1>5, <1>6, <1>7, <1>8, <1>9, <1>10 DEF Next

\* Every state a client can bring libfs to has IInv (all calls of fs.c).
THEOREM Invariance == Spec => []IInv
<1>1. Init => IInv
  BY InitInv
<1>2. IInv /\ [Next]_vars => IInv'
  BY NextInv
<1>3. QED
  BY <1>1, <1>2, PTL DEF Spec

\* No call stores a block number that is out of the data region, in the FAT, in the
\* directory or in a descriptor, and fdsOccupied is never decremented below zero.
THEOREM TypeCorrect == Spec => []TypeOK
<1>1. IInv => TypeOK
  BY DEF IInv
<1>2. QED
  BY <1>1, Invariance, PTL

\* The structure of the chains and of the descriptor table outlives every sequence of
\* calls, two descriptors on one file included: what is allocated (disk.c,
\* first_block_available) is reached by nothing, and a descriptor's directory slot is
\* still that of its file.
THEOREM ChainsSound == Spec => []ChainInv
<1>1. IInv => ChainInv
  BY DEF IInv
<1>2. QED
  BY <1>1, Invariance, PTL

\* No two files ever share a block, whoever walks their chains (disk.c, skip_blocks).
THEOREM FilesDisjoint == Spec => []ChainsDisjoint
<1>1. IInv => ChainsDisjoint
  BY ChainsApart
  DEF IInv, TypeOK, ChainInv, ChainsWellLinked, HeadsStartChains, ChainsDisjoint
<1>2. QED
  BY <1>1, Invariance, PTL


\* No walk from the directory or a descriptor goes round for ever (disk.c,
\* total_file_blocks and erase_file), on a volume of any size.
THEOREM EveryWalkEnds == Spec => []WalksEnd
<1>1. IInv => WalksEnd
  BY ChainEnds DEF IInv, TypeOK, ChainInv, ChainsWellLinked, HeadsStartChains, WalksEnd
<1>2. QED
  BY <1>1, Invariance, PTL

\* No call changes a byte of a block that was taken, unless it is in the chain of a
\* descriptor whose offset it moves (fs_write), two descriptors on one file included.
THEOREM WritesStayInside == Spec => WritesStayInOwnChain
<1>1. Init => IInv
  BY InitInv
<1>2. IInv /\ [Next]_vars => IInv'
  BY NextInv
<1>3. IInv /\ [Next]_vars => [WritesInside]_vars
  BY NextInside
<1>4. QED
  BY <1>1, <1>2, <1>3, PTL DEF Spec, WritesStayInOwnChain, WritesInside

==============================================================================
