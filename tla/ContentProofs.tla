---------------------------- MODULE ContentProofs ----------------------------
(***************************************************************************)
(* Proofs about what is in a file, for clients that open no file a second   *)
(* time while it is open: it has the blocks that its size needs, and its    *)
(* bytes are where they were written.                                       *)
(***************************************************************************)
EXTENDS SpaceProofs, SequenceTheorems

-----------------------------------------------------------------------------
(* Sizes.                                                                  *)

\* n bytes fill k blocks, the last one at least in part.
Fits(n, k) ==
  /\ k \in Nat
  /\ n <= k * BlockSize
  /\ k # 0 => (k - 1) * BlockSize < n

LEMMA ProductGrows ==
  ASSUME NEW i \in Nat, NEW j \in Nat, i <= j
  PROVE  i * BlockSize \in Nat /\ j * BlockSize \in Nat /\ i * BlockSize <= j * BlockSize
<1>1. PICK d \in Nat : j = i + d
  <2>1. j - i \in Nat /\ j = i + (j - i)
    OBVIOUS
  <2>2. QED
    BY <2>1
<1>2. j * BlockSize = i * BlockSize + d * BlockSize
  BY <1>1, Sizes
<1>3. QED
  BY <1>2, ProductType

\* total_block_size is the number of blocks that n bytes fill, and nothing else is.
LEMMA FitsBlockSize ==
  ASSUME NEW n \in Nat
  PROVE  Fits(n, total_block_size(n))
<1> DEFINE q == n \div BlockSize
           r == n % BlockSize
<1>1. /\ q \in Nat /\ r \in Nat /\ r < BlockSize /\ n = BlockSize * q + r
      /\ BlockSize \in Nat \ {0}
  BY DivMod, Sizes
<1>2. total_block_size(n) = IF r # 0 THEN q + 1 ELSE q
  BY <1>1 DEF total_block_size
<1> HIDE DEF q, r
<1>3. PICK m \in Nat : m = q * BlockSize
  BY <1>1, ProductType
<1>4. n = m + r /\ (q + 1) * BlockSize = m + BlockSize /\ (q - 1) * BlockSize = m - BlockSize
  BY <1>1, <1>3
<1>5. CASE r # 0
  <2>1. total_block_size(n) = q + 1 /\ (q + 1) - 1 = q
    BY <1>1, <1>2, <1>5
  <2>2. QED
    BY <1>1, <1>3, <1>4, <1>5, <2>1 DEF Fits
<1>6. CASE r = 0
  BY <1>1, <1>2, <1>3, <1>4, <1>6 DEF Fits
<1>7. QED
  BY <1>5, <1>6

LEMMA FitsUnique ==
  ASSUME NEW n \in Nat, NEW k, NEW m, Fits(n, k), Fits(n, m)
  PROVE  k = m
<1>1. ASSUME NEW i, NEW j, Fits(n, i), Fits(n, j), i < j
      PROVE  FALSE
  <2>1. i \in Nat /\ j \in Nat /\ j - 1 \in Nat /\ i <= j - 1 /\ j # 0
    BY <1>1 DEF Fits
  <2>2. /\ i * BlockSize <= (j - 1) * BlockSize
        /\ i * BlockSize \in Nat /\ (j - 1) * BlockSize \in Nat
    BY <2>1, ProductGrows
  <2>3. n <= i * BlockSize /\ (j - 1) * BlockSize < n
    BY <1>1, <2>1 DEF Fits
  <2>4. QED
    BY <2>2, <2>3
<1>2. k \in Nat /\ m \in Nat /\ ~(k < m) /\ ~(m < k)
  BY <1>1 DEF Fits
<1>3. QED
  BY <1>2

\* As Fits, but a file that has just got its first block may be empty.
FitsOrNew(size, t) ==
  /\ t \in Nat \ {0}
  /\ size <= t * BlockSize
  /\ (t - 1) * BlockSize < size \/ (t = 1 /\ size = 0)

\* needed blocks past t hold the bytes up to end_offset.
Sought(end_offset, t, needed) ==
  /\ end_offset <= t * BlockSize => needed = 0
  /\ end_offset > t * BlockSize => Fits(end_offset - t * BlockSize, needed)

\* The chains but that of first are as before.
OtherChainsKept(table, new, first) ==
  \A h : StartsChain(table, h) /\ h # first => SameChain(table, new, h)

\* fs_write stops at wanted or at the end of the blocks that it got, t + got of them, and
\* then the larger of size and offset fills these blocks.
LEMMA SizeFits ==
  ASSUME NEW t, NEW size \in Nat, FitsOrNew(size, t), NEW wanted \in Nat \ {0},
         NEW needed \in Nat, Sought(wanted, t, needed), NEW got \in Nat, got <= needed,
         NEW room, room = (t + got) * BlockSize,
         NEW end_offset, end_offset = IF wanted > room THEN room ELSE wanted,
         NEW new_size, new_size = IF end_offset > size THEN end_offset ELSE size
  PROVE  Fits(new_size, t + got)
<1> DEFINE T == t * BlockSize
           below == (t - 1) * BlockSize
           G == got * BlockSize
           previous == ((t + got) - 1) * BlockSize
<1>0. /\ t \in Nat \ {0} /\ size <= t * BlockSize
      /\ (t - 1) * BlockSize < size \/ (t = 1 /\ size = 0)
      /\ wanted <= t * BlockSize => needed = 0
      /\ wanted > t * BlockSize => Fits(wanted - t * BlockSize, needed)
  BY DEF FitsOrNew, Sought
<1>1. /\ T \in Nat /\ G \in Nat /\ below \in Nat /\ BlockSize \in Nat \ {0}
      /\ T = below + BlockSize /\ room = T + G /\ previous = below + G
      /\ t + got \in Nat /\ t + got # 0
  BY <1>0, ProductType, Sizes
<1>2. size <= T /\ (below < size \/ (below = 0 /\ size = 0))
  BY <1>0, Sizes
<1> SUFFICES new_size <= room /\ previous < new_size
  BY <1>1 DEF Fits
<1>3. CASE wanted <= T
  <2>1. got = 0 /\ G = 0
    BY <1>0, <1>3, Sizes
  <2> HIDE DEF T, G, below, previous
  <2>2. QED
    BY <1>1, <1>2, <1>3, <2>1
<1>4. CASE wanted > T
  <2> DEFINE N == needed * BlockSize
             N1 == (needed - 1) * BlockSize
  <2>1. Fits(wanted - T, needed)
    BY <1>0, <1>4
  <2>2. needed # 0 /\ wanted - T <= N /\ N1 < wanted - T
    <3>1. needed = 0 => N = 0
      BY Sizes
    <3>2. QED
      BY <1>1, <1>4, <2>1, <3>1 DEF Fits
  <2>3. N \in Nat /\ N1 \in Nat /\ N = N1 + BlockSize
    BY <2>2, ProductType, Sizes
  <2>4. got = needed => G = N
    OBVIOUS
  <2>5. got # needed => G <= N1
    <3>1. got # needed => got <= needed - 1 /\ needed - 1 \in Nat
      BY <2>2
    <3>2. QED
      BY <3>1, ProductGrows
  <2> HIDE DEF T, G, below, previous, N, N1
  <2>6. CASE got = needed
    BY <1>1, <1>2, <1>4, <2>2, <2>3, <2>4, <2>6
  <2>7. CASE got # needed
    BY <1>1, <1>2, <1>4, <2>2, <2>3, <2>5, <2>7
  <2>8. QED
    BY <2>6, <2>7
<1>5. QED
  BY <1>1, <1>3, <1>4

\* A new first block is a chain of one.
LEMMA AddFileChains ==
  ASSUME NEW w \in WState, WellLinked(w.fat), ~DiskFull(w.fat),
         NEW v, v = add_file_to_disk(w)
  PROVE  /\ total_file_blocks(v.fat, v.node.first_data_block) = 1
         /\ \A h : StartsChain(w.fat, h) => SameChain(w.fat, v.fat, h)
         /\ v.node.size = w.node.size /\ v.node.offset = w.node.offset
<1> DEFINE table == w.fat
           b == first_block_available(table)
           new == set_fat_entry(table, b, FAT_EOC)
<1>1. table \in FatType /\ w.node \in NodeType /\ FAT_EOC \in Links /\ WellLinked(table)
  BY DEF WState, Links
<1>2. b \in Blocks /\ table[b] = 0
  BY FirstAvailable
<1>3. v.fat = new /\ v.node = [w.node EXCEPT !.first_data_block = b]
  BY DEF add_file_to_disk
<1> HIDE DEF table, b
<1>4. new \in FatType /\ \A c \in Blocks : new[c] = IF c = b THEN FAT_EOC ELSE table[c]
  BY <1>1, <1>2, SetEntryType
<1>5. /\ v.node.first_data_block = b
      /\ v.node.size = w.node.size /\ v.node.offset = w.node.offset
  BY <1>1, <1>3 DEF NodeType
<1> HIDE DEF new
<1>6. WellLinked(new) /\ StartsChain(new, b) /\ \A h : StartsChain(table, h) => StartsChain(new, h)
  BY <1>1, <1>2, <1>4, NewChain
<1>7. HasLength(new, b, 1)
  <2>1. skip_blocks(new, b, 1 - 1) = b
    BY <1>2, <1>4, SkipStep
  <2>2. QED
    BY <1>2, <1>4, <2>1 DEF HasLength
<1>8. total_file_blocks(new, b) = 1
  BY <1>4, <1>6, <1>7, TotalIsLength, LengthUnique
<1>9. ASSUME NEW h, StartsChain(table, h)
      PROVE  SameChain(table, new, h)
  <2>1. \A c \in ChainOf(table, h) : new[c] = table[c]
    BY <1>1, <1>2, <1>4, <1>9, ChainClosed
  <2>2. QED
    BY <1>1, <1>4, <1>6, <1>9, <2>1, ChainUnchanged
<1>10. QED
  BY <1>3, <1>5, <1>8, <1>9 DEF table

\* Extended asked for as many blocks as end_offset needs; its file got some of them behind
\* those it had, and no other file did.
MoreBlocks(w, end_offset, x) ==
  LET first == w.node.first_data_block
      t == total_file_blocks(w.fat, first)
  IN  /\ \E needed, got \in Nat :
           /\ got <= needed /\ Sought(end_offset, t, needed)
           /\ total_file_blocks(x.w.fat, first) = t + got
           /\ x.at_end => got = 0 /\ w.node.offset = t * BlockSize
           /\ got < needed => DiskFull(x.w.fat)
      /\ \A m \in Nat : m < t => skip_blocks(x.w.fat, first, m) = skip_blocks(w.fat, first, m)
      /\ OtherChainsKept(w.fat, x.w.fat, first)

LEMMA ExtendedChains ==
  ASSUME NEW w \in WState, WellLinked(w.fat), StartsChain(w.fat, w.node.first_data_block),
         NEW end_offset \in Nat, NEW x, x = Extended(w, end_offset)
  PROVE  MoreBlocks(w, end_offset, x)
<1> DEFINE first == w.node.first_data_block
           t == total_file_blocks(w.fat, first)
           total_bytes == t * BlockSize
           needed_blocks == IF end_offset > total_bytes
                            THEN total_block_size(end_offset - total_bytes) ELSE 0
           a == allocate_more_blocks(w.fat, w.data, first, needed_blocks)
<1>1. w.fat \in FatType /\ w.data \in DataType /\ first \in Blocks /\ StartsChain(w.fat, first)
      /\ WellLinked(w.fat)
  BY DEF WState, StartsChain
<1>2. total_bytes \in Nat
  BY <1>1, TotalType, ProductType
<1>3. /\ x.w = [w EXCEPT !.fat = a.fat, !.data = a.data]
      /\ x.at_end => a.new_blocks = 0 /\ w.node.offset = total_bytes
  BY DEF Extended
<1> HIDE DEF total_bytes
<1>4. /\ needed_blocks \in Nat
      /\ end_offset <= total_bytes => needed_blocks = 0
      /\ end_offset > total_bytes => Fits(end_offset - total_bytes, needed_blocks)
  BY <1>2, BlockCountType, FitsBlockSize
<1> HIDE DEF needed_blocks, first
<1>5. /\ a.new_blocks \in Nat /\ a.new_blocks <= needed_blocks
      /\ total_file_blocks(a.fat, first) = t + a.new_blocks
      /\ \A m \in Nat : m < t => skip_blocks(a.fat, first, m) = skip_blocks(w.fat, first, m)
      /\ OtherChainsKept(w.fat, a.fat, first)
      /\ a.new_blocks < needed_blocks => DiskFull(a.fat)
  BY <1>1, <1>4, AllocateCounts DEF OtherChainsKept
<1> HIDE DEF a
<1>6. x.w.fat = a.fat
  BY <1>3 DEF WState
<1>7. Sought(end_offset, t, needed_blocks)
  BY <1>4 DEF Sought, total_bytes
<1>8. QED
  BY <1>3, <1>4, <1>5, <1>6, <1>7 DEF MoreBlocks, first, total_bytes

\* The write loop gets to end_offset: each turn moves it by a byte or more.
LEMMA TransferredSize ==
  ASSUME NEW w \in WState, w.node.first_data_block \in Blocks,
         NEW end_offset \in Nat, w.node.offset <= w.node.size, w.node.offset <= end_offset,
         NEW buf \in [Nat -> Byte], NEW v, v = Transferred(w, end_offset, buf)
  PROVE  v.node.size = IF end_offset > w.node.size THEN end_offset ELSE w.node.size
<1> DEFINE start == w.node.offset
           size == w.node.size
           block == skip_blocks(w.fat, w.node.first_data_block, current_block_offset(start))
           s0 == [offset |-> start, size |-> size, block |-> block, data |-> w.data]
           f == WriteTurn(w.fat, end_offset, buf, start)
           x(n) == Iterate(f, s0)[n]
           S == {n \in Nat :
                   /\ x(n) \in WriteState
                   /\ x(n).offset >= start /\ x(n).offset <= end_offset
                   /\ x(n).offset >= n \/ x(n).offset = end_offset
                   /\ x(n).size = IF x(n).offset > size THEN x(n).offset ELSE size}
<1>1. /\ w.fat \in FatType /\ w.data \in DataType
      /\ w.node \in NodeType /\ start \in Nat /\ size \in Nat
  BY DEF WState, NodeType
<1>2. block \in Blocks
  BY <1>1, SkipStep, BlockCountType
<1>3. x(0) = s0 /\ \A n \in Nat : x(n + 1) = f[x(n)]
  BY IterateDef
<1>4. v.node = [w.node EXCEPT !.offset = x(end_offset).offset, !.size = x(end_offset).size]
  BY DEF Transferred, WState
<1> HIDE DEF block, x
<1>5. 0 \in S
  BY <1>1, <1>2, <1>3 DEF WriteState
<1>6. ASSUME NEW n \in S
      PROVE  n + 1 \in S
  <2>1. PICK s : s = x(n)
    OBVIOUS
  <2>2. /\ s \in WriteState /\ s.offset >= start /\ s.offset <= end_offset
        /\ s.offset >= n \/ s.offset = end_offset
        /\ s.size = IF s.offset > size THEN s.offset ELSE size
        /\ s.offset \in Nat /\ n \in Nat
    BY <2>1 DEF WriteState
  <2>3. x(n + 1) = f[s] /\ f[s] \in WriteState
    BY <1>1, <1>3, <2>1, <2>2, WriteTurnType
  <2>4. CASE s.offset >= end_offset
    <3>1. f[s] = s /\ s.offset = end_offset
      BY <2>2, <2>4 DEF WriteTurn
    <3>2. QED
      BY <2>2, <2>3, <3>1
  <2>5. CASE ~(s.offset >= end_offset)
    <3>1. PICK length : length = TurnLength(s.offset, end_offset)
      OBVIOUS
    <3>2. length \in Nat \ {0} /\ s.offset + length <= end_offset
      BY <2>2, <2>5, <3>1, TurnFits
    <3>3. /\ f[s].offset = s.offset + length
          /\ f[s].size = IF s.offset + length > s.size THEN s.offset + length ELSE s.size
      BY <2>2, <2>5, <3>1 DEF WriteTurn
    <3> HIDE DEF f
    <3>4. QED
      BY <1>1, <2>2, <2>3, <2>5, <3>2, <3>3
  <2>6. QED
    BY <2>4, <2>5
<1>7. S = Nat
  BY <1>5, <1>6, NatSetInduction
<1>8. PICK s : s = x(end_offset)
  OBVIOUS
<1>9. /\ s \in WriteState /\ s.offset <= end_offset
      /\ s.offset >= end_offset \/ s.offset = end_offset
      /\ s.size = IF s.offset > size THEN s.offset ELSE size
  BY <1>7, <1>8
<1>10. s.offset = end_offset
  BY <1>9 DEF WriteState
<1>11. v.node.size = s.size
  BY <1>1, <1>4, <1>8 DEF NodeType
<1>12. QED
  BY <1>9, <1>10, <1>11

-----------------------------------------------------------------------------
(* Bytes.                                                                  *)

LEMMA DivUnique ==
  ASSUME NEW n \in Nat, NEW q \in Nat, NEW r \in Nat, r < BlockSize, n = BlockSize * q + r
  PROVE  n \div BlockSize = q /\ n % BlockSize = r
<1> DEFINE qq == n \div BlockSize
           rr == n % BlockSize
<1>1. /\ qq \in Nat /\ rr \in Nat /\ rr < BlockSize /\ n = BlockSize * qq + rr
      /\ BlockSize \in Nat \ {0}
  BY DivMod, Sizes
<1> HIDE DEF qq, rr
<1>2. ASSUME NEW i \in Nat, NEW j \in Nat, i < j
      PROVE  BlockSize * i + BlockSize <= BlockSize * j
  <2>1. i + 1 <= j /\ i + 1 \in Nat
    BY <1>2
  <2>2. (i + 1) * BlockSize <= j * BlockSize
    BY <1>2, <2>1, ProductGrows
  <2>3. (i + 1) * BlockSize = BlockSize * i + BlockSize /\ j * BlockSize = BlockSize * j
    BY <1>1, <1>2
  <2>4. QED
    BY <2>2, <2>3
<1>3. BlockSize * q \in Nat /\ BlockSize * qq \in Nat
  BY <1>1
<1>4. ~(q < qq)
  BY <1>1, <1>2, <1>3
<1>5. ~(qq < q)
  BY <1>1, <1>2, <1>3
<1>6. q = qq
  BY <1>1, <1>4, <1>5
<1>7. r = rr
  BY <1>1, <1>3, <1>6
<1>8. QED
  BY <1>6, <1>7 DEF qq, rr

\* A byte below the end of n blocks is in one of them.
LEMMA PlaceOfByte ==
  ASSUME NEW n \in Nat, NEW p \in Nat, p < n * BlockSize
  PROVE  /\ current_block_offset(p) \in Nat /\ current_block_offset(p) < n
         /\ p % BlockSize \in 0 .. BlockSize - 1
         /\ p = BlockSize * current_block_offset(p) + (p % BlockSize)
<1> DEFINE q == p \div BlockSize
<1>1. /\ q \in Nat /\ p % BlockSize \in Nat /\ p % BlockSize \in 0 .. BlockSize - 1
      /\ p = BlockSize * q + (p % BlockSize)
  BY DivMod
<1>2. current_block_offset(p) = q
  BY DEF current_block_offset
<1> HIDE DEF q
<1>3. n <= q => n * BlockSize <= q * BlockSize
  BY <1>1, ProductGrows
<1>4. q * BlockSize \in Nat /\ q * BlockSize = BlockSize * q /\ n * BlockSize \in Nat
  BY <1>1, ProductType, Sizes
<1>5. ~(n <= q)
  BY <1>1, <1>3, <1>4
<1>6. QED
  BY <1>1, <1>2, <1>5

\* A turn that does not get to end_offset gets to the end of its block.
LEMMA TurnReaches ==
  ASSUME NEW offset \in Nat, NEW end_offset \in Nat, offset < end_offset,
         offset + TurnLength(offset, end_offset) < end_offset
  PROVE  current_block_offset(offset + TurnLength(offset, end_offset))
           = current_block_offset(offset) + 1
<1> DEFINE q == offset \div BlockSize
           r == offset % BlockSize
           qq == end_offset \div BlockSize
           rr == end_offset % BlockSize
<1>1. /\ q \in Nat /\ r \in Nat /\ r < BlockSize /\ offset = BlockSize * q + r
      /\ qq \in Nat /\ rr \in Nat /\ rr < BlockSize /\ end_offset = BlockSize * qq + rr
      /\ BlockSize \in Nat \ {0}
  BY DivMod, Sizes
<1>2. TurnLength(offset, end_offset) = IF q < qq THEN BlockSize - r ELSE rr - r
  BY DEF TurnLength, current_block_offset
<1> HIDE DEF q, r, qq, rr
<1>3. BlockSize * q \in Nat /\ BlockSize * qq \in Nat
  BY <1>1
<1>4. q < qq
  <2>1. SUFFICES ASSUME qq <= q
                 PROVE  FALSE
    BY <1>1
  <2>2. qq * BlockSize <= q * BlockSize
    BY <1>1, <2>1, ProductGrows
  <2>3. qq * BlockSize = BlockSize * qq /\ q * BlockSize = BlockSize * q
    BY <1>1
  <2>4. QED
    BY <1>1, <1>2, <1>3, <2>1, <2>2, <2>3
<1>5. offset + TurnLength(offset, end_offset) = BlockSize * (q + 1) + 0
  <2>1. BlockSize * (q + 1) = BlockSize * q + BlockSize
    BY <1>1
  <2>2. QED
    BY <1>1, <1>2, <1>3, <1>4, <2>1
<1>6. (offset + TurnLength(offset, end_offset)) \div BlockSize = q + 1
  <2>1. PICK n : n = offset + TurnLength(offset, end_offset)
    OBVIOUS
  <2>2. n \in Nat /\ n = BlockSize * (q + 1) + 0 /\ q + 1 \in Nat
    BY <1>1, <1>5, <2>1
  <2>3. n \div BlockSize = q + 1
    BY <1>1, <2>2, DivUnique
  <2>4. QED
    BY <2>1, <2>3
<1>7. QED
  BY <1>6 DEF current_block_offset, q

\* Byte p of the file that starts at h.
ByteAt(table, blocks, h, p) ==
  blocks[skip_blocks(table, h, current_block_offset(p))][p % BlockSize]

\* The bytes that some write put at p of the file name.
WrittenAt(name, p) == {<<name, p, v>> : v \in Versions}

\* The first size bytes from h on are where they were written.
Held(table, blocks, h, name, size) ==
  \A p \in Nat : p < size => ByteAt(table, blocks, h, p) \in WrittenAt(name, p)

\* buf is what the client writes to the file name from start on.
BytesFor(buf, name, start) ==
  /\ buf \in [Nat -> Byte]
  /\ \A p \in Nat : p >= start => buf[p - start] \in WrittenAt(name, p)

\* At the top of the write loop block is the one of offset, and nothing is out of place.
Writing(table, first, n, name, start, end_offset, s) ==
  /\ s \in WriteState
  /\ start <= s.offset /\ s.offset <= s.size /\ s.size <= n * BlockSize
  /\ s.offset < end_offset =>
       s.block = skip_blocks(table, first, current_block_offset(s.offset))
  /\ Held(table, s.data, first, name, s.size)

\* One turn of the write loop puts bytes of buf in place and moves no other.
LEMMA WriteTurnBytes ==
  ASSUME NEW table \in FatType, NEW first \in Blocks, NEW n, HasLength(table, first, n),
         NEW name, NEW start \in Nat, NEW buf, BytesFor(buf, name, start),
         NEW end_offset \in Nat, end_offset <= n * BlockSize,
         NEW s, Writing(table, first, n, name, start, end_offset, s),
         NEW t, t = WriteTurn(table, end_offset, buf, start)[s]
  PROVE  Writing(table, first, n, name, start, end_offset, t)
<1>1. /\ s \in WriteState /\ s.offset \in Nat /\ s.size \in Nat /\ s.block \in Blocks
      /\ s.data \in DataType /\ start <= s.offset /\ s.offset <= s.size
      /\ s.size <= n * BlockSize /\ n \in Nat /\ n * BlockSize \in Nat
      /\ BlockSize \in Nat \ {0}
  BY ProductType, Sizes DEF Writing, WriteState, HasLength
<1>2. CASE s.offset >= end_offset
  <2>1. t = s
    BY <1>1, <1>2 DEF WriteTurn
  <2>2. QED
    BY <2>1
<1>3. CASE ~(s.offset >= end_offset)
  <2> DEFINE q == current_block_offset(s.offset)
             r == s.offset % BlockSize
             length == TurnLength(s.offset, end_offset)
             last == s.offset + length
             stored == [i \in 0 .. BlockSize - 1 |->
                          IF i \in r .. r + length - 1
                          THEN buf[s.offset - start + i - r]
                          ELSE s.data[s.block][i]]
             H(m) == skip_blocks(table, first, m)
  <2>1. /\ t.offset = last
        /\ t.size = IF last > s.size THEN last ELSE s.size
        /\ t.block = NextBlock(table, s.block, last, end_offset)
        /\ t.data = [s.data EXCEPT ![s.block] = stored]
    BY <1>1, <1>3 DEF WriteTurn
  <2>2. t \in WriteState
    BY <1>1, WriteTurnType DEF BytesFor
  <2>3. /\ length \in Nat \ {0} /\ r + length <= BlockSize /\ last <= end_offset
        /\ last < end_offset => current_block_offset(last) = q + 1
    BY <1>1, <1>3, TurnFits, TurnReaches
  <2>4. /\ q \in Nat /\ q < n /\ r \in 0 .. BlockSize - 1 /\ r \in Nat
        /\ s.offset = BlockSize * q + r
    <3>1. PICK p \in Nat : p = s.offset /\ p < n * BlockSize
      BY <1>1, <1>3
    <3>2. /\ current_block_offset(p) \in Nat /\ current_block_offset(p) < n
          /\ p % BlockSize \in 0 .. BlockSize - 1
          /\ p = BlockSize * current_block_offset(p) + (p % BlockSize)
      BY <1>1, <3>1, PlaceOfByte
    <3>3. p % BlockSize \in Nat
      BY DivMod
    <3>4. QED
      BY <3>1, <3>2, <3>3
  <2>5. s.block = H(q) /\ Held(table, s.data, first, name, s.size)
    BY <1>1, <1>3 DEF Writing
  <2>6. \A m \in Nat : H(m) \in Blocks
                       /\ H(m + 1) = IF table[H(m)] = FAT_EOC THEN H(m) ELSE table[H(m)]
    BY SkipStep
  <2>7. last < end_offset => t.block = H(q + 1)
    <3>1. skip_blocks(table, s.block, 1)
            = IF table[s.block] = FAT_EOC THEN s.block ELSE table[s.block]
      <4>1. PICK b \in Blocks : b = s.block
        BY <1>1
      <4>2. PICK z \in Nat : z = 0
        OBVIOUS
      <4>3. skip_blocks(table, b, z) = b
        BY <4>2, SkipStep
      <4>4. skip_blocks(table, b, z + 1)
              = IF table[skip_blocks(table, b, z)] = FAT_EOC THEN skip_blocks(table, b, z)
                ELSE table[skip_blocks(table, b, z)]
        BY SkipStep
      <4>5. z + 1 = 1
        BY <4>2
      <4>6. QED
        BY <4>1, <4>3, <4>4, <4>5
    <3>2. H(q + 1) = IF table[H(q)] = FAT_EOC THEN H(q) ELSE table[H(q)]
      BY <2>4, <2>6
    <3> HIDE DEF H, q
    <3>3. H(q + 1) = skip_blocks(table, s.block, 1)
      BY <2>5, <3>1, <3>2
    <3>4. last < end_offset => t.block = skip_blocks(table, s.block, 1)
      BY <2>1 DEF NextBlock
    <3>5. QED
      BY <3>3, <3>4
  <2>8. \A m \in Nat : m < n /\ m # q => H(m) # H(q)
    BY <2>4, WalkDistinct
  <2>9. \A b \in Blocks : t.data[b] = IF b = s.block THEN stored ELSE s.data[b]
    BY <1>1, <2>1 DEF DataType
  <2> HIDE DEF H, q, r, length
  <2>10. BlockSize * q \in Nat
    BY <1>1, <2>4
  <2>11. ASSUME NEW p \in Nat, p < t.size
         PROVE  ByteAt(table, t.data, first, p) \in WrittenAt(name, p)
    <3> DEFINE pq == current_block_offset(p)
               pr == p % BlockSize
    <3>1. p < n * BlockSize
      BY <1>1, <1>3, <2>1, <2>3, <2>11
    <3>2. /\ pq \in Nat /\ pq < n /\ pr \in 0 .. BlockSize - 1 /\ pr \in Nat
          /\ p = BlockSize * pq + pr
      BY <1>1, <3>1, PlaceOfByte
    <3>3. ByteAt(table, t.data, first, p) = t.data[H(pq)][pr]
      BY DEF ByteAt, H
    <3>4. p < s.size => s.data[H(pq)][pr] \in WrittenAt(name, p)
      BY <2>5 DEF Held, ByteAt, H
    <3>5. s.offset <= p /\ p < last => pq = q
      <4>1. SUFFICES ASSUME s.offset <= p, p < last
                     PROVE  pq = q
        OBVIOUS
      <4>2. PICK z \in Nat : z = BlockSize * q
        BY <2>10
      <4>3. /\ s.offset = z + r /\ r \in Nat /\ length \in Nat /\ BlockSize \in Nat
            /\ r + length <= BlockSize /\ last = s.offset + length
        BY <1>1, <2>3, <2>4, <4>2
      <4>4. p - z \in Nat /\ p - z < BlockSize /\ p = z + (p - z)
        BY <4>1, <4>3
      <4>5. PICK d \in Nat : d < BlockSize /\ p = BlockSize * q + d
        BY <4>2, <4>4
      <4>6. QED
        BY <2>4, <4>5, DivUnique DEF current_block_offset
    <3> HIDE DEF pq, pr, stored
    <3>6. CASE pq # q
      <4>1. H(pq) \in Blocks /\ H(pq) # s.block
        BY <2>5, <2>6, <2>8, <3>2, <3>6
      <4>2. t.data[H(pq)] = s.data[H(pq)]
        BY <2>9, <4>1
      <4>3. p < s.size
        BY <1>1, <2>1, <2>3, <2>11, <3>5, <3>6
      <4>4. QED
        BY <3>3, <3>4, <4>2, <4>3
    <3>7. CASE pq = q /\ pr \in r .. r + length - 1
      <4>1. s.offset - start + pr - r = p - start /\ p >= start
        BY <1>1, <2>3, <2>4, <2>10, <3>2, <3>7
      <4>2. t.data[H(pq)] = stored
        BY <1>1, <2>5, <2>9, <3>7
      <4>3. stored[pr] = buf[s.offset - start + pr - r]
        BY <3>2, <3>7 DEF stored
      <4>4. QED
        BY <3>3, <4>1, <4>2, <4>3 DEF BytesFor
    <3>8. CASE pq = q /\ pr \notin r .. r + length - 1
      <4>1. t.data[H(pq)] = stored
        BY <1>1, <2>5, <2>9, <3>8
      <4>2. stored[pr] = s.data[H(pq)][pr]
        BY <2>5, <3>2, <3>8 DEF stored
      <4>3. p < s.size
        BY <1>1, <2>1, <2>3, <2>4, <2>10, <2>11, <3>2, <3>8
      <4>4. QED
        BY <3>3, <3>4, <4>1, <4>2, <4>3
    <3>9. QED
      BY <3>6, <3>7, <3>8
  <2>12. /\ start <= t.offset /\ t.offset <= t.size /\ t.size <= n * BlockSize
         /\ t.offset < end_offset =>
              t.block = skip_blocks(table, first, current_block_offset(t.offset))
    BY <1>1, <1>3, <2>1, <2>3, <2>7 DEF H
  <2>13. QED
    BY <2>2, <2>11, <2>12 DEF Writing, Held
<1>4. QED
  BY <1>2, <1>3

\* The write loop leaves every byte up to the new size where it was written.
LEMMA TransferredBytes ==
  ASSUME NEW w \in WState, NEW first, first = w.node.first_data_block, first \in Blocks,
         NEW n, HasLength(w.fat, first, n), w.node.size <= n * BlockSize,
         w.node.offset <= w.node.size, NEW name,
         Held(w.fat, w.data, first, name, w.node.size),
         NEW end_offset \in Nat, end_offset <= n * BlockSize,
         NEW buf, BytesFor(buf, name, w.node.offset),
         NEW v, v = Transferred(w, end_offset, buf)
  PROVE  Held(w.fat, v.data, first, name, v.node.size)
<1> DEFINE start == w.node.offset
           block == skip_blocks(w.fat, first, current_block_offset(start))
           s0 == [offset |-> start, size |-> w.node.size, block |-> block, data |-> w.data]
           f == WriteTurn(w.fat, end_offset, buf, start)
           T == {s \in WriteState : Writing(w.fat, first, n, name, start, end_offset, s)}
<1>1. /\ w.fat \in FatType /\ w.data \in DataType
      /\ w.node \in NodeType /\ start \in Nat /\ w.node.size \in Nat
  BY DEF WState, NodeType
<1>2. block \in Blocks
  BY <1>1, SkipStep, BlockCountType
<1>3. s0 \in T
  <2>1. s0 \in WriteState
    BY <1>1, <1>2 DEF WriteState
  <2>2. QED
    BY <1>1, <2>1 DEF Writing
<1>4. ASSUME NEW s \in T
      PROVE  f[s] \in T
  <2>1. Writing(w.fat, first, n, name, start, end_offset, s)
    OBVIOUS
  <2>2. Writing(w.fat, first, n, name, start, end_offset, f[s])
    BY <1>1, <2>1, WriteTurnBytes
  <2>3. QED
    BY <2>2 DEF Writing
<1> HIDE DEF T, f, s0
<1>5. \A m \in Nat : Iterate(f, s0)[m] \in T
  BY <1>3, <1>4, IterateInvariant
<1> DEFINE s == Iterate(f, s0)[end_offset]
<1>6. Held(w.fat, s.data, first, name, s.size)
  BY <1>5 DEF T, Writing
<1>7. v = [w EXCEPT !.data = s.data,
                    !.node = [@ EXCEPT !.offset = s.offset, !.size = s.size],
                    !.root = [@ EXCEPT ![w.node.dir_entry_index].size = s.size]]
  BY DEF Transferred, f, s0
<1> HIDE DEF s
<1>8. v.data = s.data /\ v.node.size = s.size
  BY <1>1, <1>7 DEF WState, NodeType
<1>9. QED
  BY <1>6, <1>8

-----------------------------------------------------------------------------
(* fs_write.                                                               *)

\* w is what fs_write has when it starts to move bytes, from w0: the blocks of w0 first and
\* those it got behind them.  It will stop at end_offset, before wanted only if the disk is full.
Prepared(w0, wanted, w, end_offset) ==
  LET first == w.node.first_data_block
      n == total_file_blocks(w.fat, first)
      size == w.node.size
  IN  /\ w \in WState /\ WellLinked(w.fat) /\ StartsChain(w.fat, first)
      /\ size = w0.node.size /\ w.node.offset = w0.node.offset
      /\ w.node.offset <= size /\ size <= n * BlockSize
      /\ end_offset \in Nat /\ w.node.offset <= end_offset /\ end_offset <= n * BlockSize
      /\ end_offset <= wanted
      /\ end_offset < wanted => DiskFull(w.fat)
      /\ Fits(IF end_offset > size THEN end_offset ELSE size, n)
      /\ OtherChainsKept(w0.fat, w.fat, w0.node.first_data_block)
      /\ \A p \in Nat : p < size =>
           ByteAt(w.fat, w.data, first, p) = ByteAt(w0.fat, w0.data, w0.node.first_data_block, p)

\* Allocation moves no byte that the file has.
LEMMA ExtendedBytes ==
  ASSUME NEW w \in WState, WellLinked(w.fat), NEW first, first = w.node.first_data_block,
         StartsChain(w.fat, first), NEW n, n = total_file_blocks(w.fat, first),
         NEW end_offset \in Nat, NEW x, x = Extended(w, end_offset),
         NEW p \in Nat, p < n * BlockSize
  PROVE  ByteAt(x.w.fat, x.w.data, first, p) = ByteAt(w.fat, w.data, first, p)
<1> DEFINE m == current_block_offset(p)
<1>1. w.fat \in FatType /\ first \in Blocks /\ n \in Nat
  BY TotalType DEF WState, StartsChain
<1>2. m \in Nat /\ m < n
  BY <1>1, PlaceOfByte
<1> HIDE DEF m
<1>3. skip_blocks(x.w.fat, first, m) = skip_blocks(w.fat, first, m)
  BY <1>2, ExtendedChains DEF MoreBlocks
<1>4. skip_blocks(w.fat, first, m) \in Blocks /\ w.fat[skip_blocks(w.fat, first, m)] # 0
  BY <1>1, <1>2, ChainReached, ChainClosed
<1>5. Grown(w.fat, w.data, x.w.fat, x.w.data)
  BY ExtendedGrows
<1>6. x.w.data[skip_blocks(w.fat, first, m)] = w.data[skip_blocks(w.fat, first, m)]
  BY <1>4, <1>5 DEF Grown
<1>7. QED
  BY <1>3, <1>6 DEF ByteAt, m

\* fs_write stops before it has done anything, or gets its blocks; then it is at the end of
\* a file that has got none, or moves the bytes up to where it is to stop.
LEMMA WriteOutcomePrepared ==
  ASSUME NEW w0 \in WState, WellLinked(w0.fat), NodeCurrent(w0),
         w0.node.first_data_block # FAT_EOC => StartsChain(w0.fat, w0.node.first_data_block),
         Fits(w0.node.size, total_file_blocks(w0.fat, w0.node.first_data_block)),
         NEW buf, NEW count \in Nat \ {0}, NEW o, o = WriteOutcome(w0, buf, count)
  PROVE  \/ o.w = w0 /\ DiskFull(w0.fat)
         \/ \E w, end_offset :
              /\ Prepared(w0, w0.node.offset + count, w, end_offset)
              /\ \/ o.w = w /\ end_offset <= w.node.size
                 \/ o.w = Transferred(w, end_offset, buf)
<1>1. CASE w0.node.first_data_block = FAT_EOC /\ DiskFull(w0.fat)
  BY <1>1 DEF WriteOutcome
<1>2. CASE ~(w0.node.first_data_block = FAT_EOC /\ DiskFull(w0.fat))
  <2> DEFINE w1 == IF w0.node.first_data_block = FAT_EOC THEN add_file_to_disk(w0) ELSE w0
             first == w1.node.first_data_block
             t == total_file_blocks(w1.fat, first)
             size == w1.node.size
             wanted == w1.node.offset + count
             x == Extended(w1, wanted)
             room == total_file_blocks(x.w.fat, x.w.node.first_data_block) * BlockSize
             end_offset == IF wanted > room THEN room ELSE wanted
  <2>1. o.w = IF x.at_end THEN x.w ELSE Transferred(x.w, end_offset, buf)
    BY <1>2 DEF WriteOutcome
  <2>2. w0.node \in NodeType /\ w0.node.offset <= w0.node.size
    BY DEF NodeCurrent, WState
  <2>3. /\ w1 \in WState /\ WellLinked(w1.fat) /\ StartsChain(w1.fat, first)
        /\ size = w0.node.size /\ w1.node.offset = w0.node.offset
        /\ \A h : StartsChain(w0.fat, h) /\ h # w0.node.first_data_block =>
             StartsChain(w1.fat, h) /\ h # first /\ SameChain(w0.fat, w1.fat, h)
        /\ t \in Nat \ {0} /\ FitsOrNew(size, t)
        /\ size = 0 \/ w1 = w0
    <3>1. CASE w0.node.first_data_block = FAT_EOC
      <4>1. ~DiskFull(w0.fat) /\ w1 = add_file_to_disk(w0)
        BY <1>2, <3>1
      <4>2. w0.node.size = 0
        BY <3>1 DEF NodeCurrent
      <4> HIDE DEF w1
      <4>3. /\ w1 \in WState /\ WellLinked(w1.fat) /\ StartsChain(w1.fat, first)
            /\ w0.fat[first] = 0
            /\ \A h : StartsChain(w0.fat, h) => StartsChain(w1.fat, h)
        BY <4>1, AddFile
      <4>4. /\ t = 1 /\ size = w0.node.size /\ w1.node.offset = w0.node.offset
            /\ \A h : StartsChain(w0.fat, h) => SameChain(w0.fat, w1.fat, h)
        BY <4>1, AddFileChains
      <4>5. \A h : StartsChain(w0.fat, h) => h # first
        BY <4>3 DEF StartsChain
      <4> HIDE DEF first, t, size
      <4>6. FitsOrNew(0, 1)
        BY Sizes DEF FitsOrNew
      <4>7. QED
        BY <4>2, <4>3, <4>4, <4>5, <4>6
    <3>2. CASE w0.node.first_data_block # FAT_EOC
      <4>1. w1 = w0
        BY <3>2
      <4> HIDE DEF w1
      <4>2. w0.fat \in FatType /\ w0.node.first_data_block \in Blocks
        BY <3>2 DEF WState, StartsChain
      <4>3. t \in Nat \ {0}
        BY <4>1, <4>2, TotalType
      <4>4. Fits(size, t)
        BY <4>1
      <4> HIDE DEF t
      <4>5. FitsOrNew(size, t)
        BY <4>3, <4>4 DEF Fits, FitsOrNew
      <4>6. \A h : SameChain(w0.fat, w1.fat, h)
        BY <4>1 DEF SameChain
      <4>7. QED
        BY <3>2, <4>1, <4>3, <4>5, <4>6
    <3>3. QED
      BY <3>1, <3>2
  <2> HIDE DEF w1
  <2>4. w1.node.offset \in Nat /\ size \in Nat /\ w1.node.offset <= size
    BY <2>2, <2>3 DEF WState, NodeType
  <2>5. wanted \in Nat \ {0} /\ w1.node.offset <= wanted
    BY <2>4
  <2>6. wanted = w0.node.offset + count
    BY <2>3
  <2> HIDE DEF wanted
  <2>7. /\ x.w \in WState /\ x.w.node = w1.node /\ WellLinked(x.w.fat)
        /\ StartsChain(x.w.fat, first)
    BY <2>3, <2>5, ExtendedType
  <2>8. MoreBlocks(w1, wanted, x)
    BY <2>3, <2>5, ExtendedChains
  <2>9. \A p \in Nat : p < t * BlockSize =>
          ByteAt(x.w.fat, x.w.data, first, p) = ByteAt(w1.fat, w1.data, first, p)
    BY <2>3, <2>5, ExtendedBytes
  <2> HIDE DEF x
  <2>10. PICK needed, got \in Nat :
          /\ got <= needed /\ Sought(wanted, t, needed)
          /\ total_file_blocks(x.w.fat, first) = t + got
          /\ x.at_end => got = 0 /\ w1.node.offset = t * BlockSize
          /\ got < needed => DiskFull(x.w.fat)
    BY <2>8 DEF MoreBlocks
  <2>11. OtherChainsKept(w0.fat, x.w.fat, w0.node.first_data_block)
    <3>1. OtherChainsKept(w1.fat, x.w.fat, first)
      BY <2>8 DEF MoreBlocks
    <3>2. QED
      BY <2>3, <3>1 DEF OtherChainsKept, SameChain
  <2>12. x.w.node.first_data_block = first /\ x.w.node.size = size
    BY <2>7
  <2>13. size = 0 \/ (w1 = w0 /\ first = w0.node.first_data_block)
    BY <2>3
  <2>14. room = (t + got) * BlockSize /\ room \in Nat /\ t * BlockSize <= room
         /\ t * BlockSize \in Nat
    <3>1. room = (t + got) * BlockSize
      BY <2>10, <2>12
    <3>2. t + got \in Nat /\ t <= t + got
      BY <2>3, <2>10
    <3>3. QED
      BY <2>3, <3>1, <3>2, ProductGrows
  <2> HIDE DEF first, t, size, room
  <2>15. size <= t * BlockSize
    BY <2>3 DEF FitsOrNew
  <2>16. end_offset \in Nat /\ w1.node.offset <= end_offset /\ end_offset <= room
    BY <2>4, <2>5, <2>14, <2>15
  <2>17. Fits(IF end_offset > size THEN end_offset ELSE size, t + got)
    <3>1. end_offset = IF wanted > room THEN room ELSE wanted
      OBVIOUS
    <3>2. PICK new_size : new_size = IF end_offset > size THEN end_offset ELSE size
      OBVIOUS
    <3> HIDE DEF end_offset
    <3>3. Fits(new_size, t + got)
      BY <2>3, <2>4, <2>5, <2>10, <2>14, <3>1, <3>2, SizeFits
    <3>4. QED
      BY <3>2, <3>3
  <2>18. end_offset <= wanted /\ (end_offset < wanted => DiskFull(x.w.fat))
    <3>1. wanted > room => got < needed
      <4>1. SUFFICES ASSUME got = needed
                     PROVE  wanted <= room
        BY <2>5, <2>10, <2>14
      <4>2. PICK T \in Nat, G \in Nat : T = t * BlockSize /\ G = got * BlockSize
        BY <2>3, <2>10, ProductType
      <4>3. room = T + G
        <5>1. (t + got) * BlockSize = t * BlockSize + got * BlockSize
          BY <2>3, <2>10, Sizes
        <5>2. QED
          BY <2>14, <4>2, <5>1
      <4>4. wanted > T => wanted - T <= G
        BY <2>10, <4>1, <4>2 DEF Sought, Fits
      <4>5. QED
        BY <2>5, <4>2, <4>3, <4>4
    <3>2. QED
      BY <2>5, <2>10, <2>14, <3>1
  <2> HIDE DEF end_offset
  <2>19. \A p \in Nat : p < size =>
           ByteAt(x.w.fat, x.w.data, first, p)
             = ByteAt(w0.fat, w0.data, w0.node.first_data_block, p)
    <3>1. CASE size = 0
      BY <3>1
    <3>2. CASE w1 = w0 /\ first = w0.node.first_data_block
      <4>1. \A p \in Nat : p < size => p < t * BlockSize
        BY <2>4, <2>14, <2>15
      <4>2. QED
        BY <2>9, <3>2, <4>1
    <3>3. QED
      BY <2>13, <3>1, <3>2
  <2>20. Prepared(w0, wanted, x.w, end_offset)
    <3>1. size <= room
      BY <2>4, <2>14, <2>15
    <3>2. QED
      BY <2>3, <2>4, <2>7, <2>10, <2>11, <2>12, <2>14, <2>16, <2>17, <2>18, <2>19, <3>1
      DEF Prepared
  <2>21. x.at_end => end_offset <= x.w.node.size
    <3>1. SUFFICES ASSUME x.at_end
                   PROVE  end_offset <= size
      BY <2>12
    <3>2. got = 0 /\ w1.node.offset = t * BlockSize /\ t + got = t
      BY <2>3, <2>10, <3>1
    <3>3. QED
      BY <2>4, <2>14, <2>16, <3>2
  <2>22. QED
    BY <2>1, <2>6, <2>20, <2>21
<1>3. QED
  BY <1>1, <1>2

\* fs_write makes its file no longer than to where it was to end, and shorter only if the
\* disk is full.
LEMMA WriteOutcomeSize ==
  ASSUME NEW w0 \in WState, WellLinked(w0.fat), NodeCurrent(w0),
         w0.node.first_data_block # FAT_EOC => StartsChain(w0.fat, w0.node.first_data_block),
         Fits(w0.node.size, total_file_blocks(w0.fat, w0.node.first_data_block)),
         NEW buf \in [Nat -> Byte], NEW count \in Nat \ {0},
         NEW o, o = WriteOutcome(w0, buf, count),
         NEW wanted \in Nat, wanted = w0.node.offset + count, w0.node.size <= wanted
  PROVE  /\ o.w.node.size <= wanted
         /\ o.w.node.size < wanted => DiskFull(o.w.fat)
<1>1. CASE o.w = w0 /\ DiskFull(w0.fat)
  BY <1>1
<1>2. ASSUME NEW w, NEW end_offset, Prepared(w0, wanted, w, end_offset),
             \/ o.w = w /\ end_offset <= w.node.size
             \/ o.w = Transferred(w, end_offset, buf)
      PROVE  /\ o.w.node.size <= wanted
             /\ o.w.node.size < wanted => DiskFull(o.w.fat)
  <2>1. /\ w \in WState /\ w.node.first_data_block \in Blocks
        /\ w.node.size = w0.node.size /\ w.node.size \in Nat
        /\ w.node.offset <= w.node.size /\ w.node.offset <= end_offset
        /\ end_offset \in Nat /\ end_offset <= wanted
        /\ end_offset < wanted => DiskFull(w.fat)
    BY <1>2 DEF Prepared, WState, NodeType, StartsChain
  <2>2. CASE o.w = w /\ end_offset <= w.node.size
    BY <2>1, <2>2
  <2>3. CASE o.w = Transferred(w, end_offset, buf)
    <3>1. o.w.fat = w.fat
      BY <2>1, <2>3, TransferredType
    <3>2. o.w.node.size = IF end_offset > w.node.size THEN end_offset ELSE w.node.size
      BY <2>1, <2>3, TransferredSize
    <3>3. QED
      BY <2>1, <3>1, <3>2
  <2>4. QED
    BY <1>2, <2>2, <2>3
<1>3. QED
  BY <1>1, <1>2, WriteOutcomePrepared

\* fs_write leaves its file as many blocks as its size needs and every byte where it was
\* written, and the chains of the others as they were.
LEMMA WriteOutcomeContent ==
  ASSUME NEW w0 \in WState, WellLinked(w0.fat), NodeCurrent(w0),
         w0.node.first_data_block # FAT_EOC => StartsChain(w0.fat, w0.node.first_data_block),
         Fits(w0.node.size, total_file_blocks(w0.fat, w0.node.first_data_block)),
         NEW name, Held(w0.fat, w0.data, w0.node.first_data_block, name, w0.node.size),
         NEW buf, BytesFor(buf, name, w0.node.offset),
         NEW count \in Nat \ {0}, NEW o, o = WriteOutcome(w0, buf, count)
  PROVE  /\ Fits(o.w.node.size, total_file_blocks(o.w.fat, o.w.node.first_data_block))
         /\ Held(o.w.fat, o.w.data, o.w.node.first_data_block, name, o.w.node.size)
         /\ OtherChainsKept(w0.fat, o.w.fat, w0.node.first_data_block)
<1>1. CASE o.w = w0
  BY <1>1 DEF OtherChainsKept, SameChain
<1>2. ASSUME NEW w, NEW end_offset, Prepared(w0, w0.node.offset + count, w, end_offset),
             \/ o.w = w /\ end_offset <= w.node.size
             \/ o.w = Transferred(w, end_offset, buf)
      PROVE  /\ Fits(o.w.node.size, total_file_blocks(o.w.fat, o.w.node.first_data_block))
             /\ Held(o.w.fat, o.w.data, o.w.node.first_data_block, name, o.w.node.size)
             /\ OtherChainsKept(w0.fat, o.w.fat, w0.node.first_data_block)
  <2> DEFINE first == w.node.first_data_block
             n == total_file_blocks(w.fat, first)
             size == w.node.size
  <2>1. /\ w \in WState /\ WellLinked(w.fat) /\ StartsChain(w.fat, first)
        /\ size = w0.node.size /\ w.node.offset = w0.node.offset
        /\ w.node.offset <= size /\ size <= n * BlockSize
        /\ end_offset \in Nat /\ w.node.offset <= end_offset /\ end_offset <= n * BlockSize
        /\ Fits(IF end_offset > size THEN end_offset ELSE size, n)
        /\ OtherChainsKept(w0.fat, w.fat, w0.node.first_data_block)
        /\ \A p \in Nat : p < size =>
             ByteAt(w.fat, w.data, first, p)
               = ByteAt(w0.fat, w0.data, w0.node.first_data_block, p)
    BY <1>2 DEF Prepared
  <2>2. /\ first \in Blocks /\ w.fat \in FatType /\ size \in Nat
        /\ buf \in [Nat -> Byte]
    BY <2>1 DEF WState, NodeType, StartsChain, BytesFor
  <2>3. Held(w.fat, w.data, first, name, size)
    BY <2>1 DEF Held
  <2>4. CASE o.w = w /\ end_offset <= w.node.size
    <3>1. ~(end_offset > size)
      BY <2>1, <2>2, <2>4
    <3>2. QED
      BY <2>1, <2>3, <2>4, <3>1
  <2>5. CASE o.w = Transferred(w, end_offset, buf)
    <3> DEFINE v == Transferred(w, end_offset, buf)
    <3>1. HasLength(w.fat, first, n)
      BY <2>1, <2>2, TotalIsLength
    <3> HIDE DEF n
    <3>2. v.fat = w.fat /\ v.node.first_data_block = first
      BY <2>1, <2>2, TransferredType
    <3>3. v.node.size = IF end_offset > size THEN end_offset ELSE size
      BY <2>1, <2>2, TransferredSize
    <3>4. Held(w.fat, v.data, first, name, v.node.size)
      BY <2>1, <2>2, <2>3, <3>1, TransferredBytes
    <3> HIDE DEF v, first, size
    <3>5. Fits(v.node.size, n)
      BY <2>1, <3>3
    <3>6. o.w = v /\ n = total_file_blocks(v.fat, v.node.first_data_block)
      BY <2>5, <3>2 DEF v, n
    <3>7. QED
      BY <2>1, <3>2, <3>4, <3>5, <3>6
  <2>6. QED
    BY <1>2, <2>4, <2>5
<1>3. QED
  BY <1>1, <1>2, WriteOutcomePrepared

-----------------------------------------------------------------------------
(* fs_read.                                                                *)

\* A step of the walk from the block it has come to.
LEMMA WalkOn ==
  ASSUME NEW table \in FatType, NEW h \in Blocks, NEW q \in Nat,
         NEW b, b = skip_blocks(table, h, q)
  PROVE  skip_blocks(table, b, 1) = skip_blocks(table, h, q + 1)
<1>1. b \in Blocks
  BY SkipStep
<1>2. skip_blocks(table, h, q + 1) = IF table[b] = FAT_EOC THEN b ELSE table[b]
  BY SkipStep
<1>3. PICK z \in Nat : z = 0
  OBVIOUS
<1>4. skip_blocks(table, b, z) = b
  BY <1>1, <1>3, SkipStep
<1>5. skip_blocks(table, b, z + 1)
        = IF table[skip_blocks(table, b, z)] = FAT_EOC THEN skip_blocks(table, b, z)
          ELSE table[skip_blocks(table, b, z)]
  BY <1>1, SkipStep
<1>6. z + 1 = 1
  BY <1>3
<1>7. QED
  BY <1>2, <1>4, <1>5, <1>6

\* The bytes of a turn are in one block.
LEMMA TurnInBlock ==
  ASSUME NEW offset \in Nat, NEW end_offset \in Nat, offset < end_offset,
         NEW i \in Nat, i < TurnLength(offset, end_offset)
  PROVE  /\ current_block_offset(offset + i) = current_block_offset(offset)
         /\ (offset + i) % BlockSize = (offset % BlockSize) + i
<1> DEFINE q == offset \div BlockSize
           r == offset % BlockSize
<1>1. /\ q \in Nat /\ r \in Nat /\ r < BlockSize /\ offset = BlockSize * q + r
      /\ BlockSize \in Nat \ {0}
  BY DivMod, Sizes
<1>2. PICK length \in Nat : length = TurnLength(offset, end_offset) /\ r + length <= BlockSize
  BY TurnFits
<1> HIDE DEF q, r
<1>3. BlockSize * q \in Nat
  BY <1>1
<1>4. PICK p \in Nat, d \in Nat : p = offset + i /\ d = r + i
  BY <1>1
<1>5. d < BlockSize /\ p = BlockSize * q + d
  BY <1>1, <1>2, <1>3, <1>4
<1>6. p \div BlockSize = q /\ p % BlockSize = d
  BY <1>1, <1>5, DivUnique
<1>7. QED
  BY <1>4, <1>6 DEF current_block_offset, q, r

\* At the top of the read loop buf has the bytes of the file from start to offset.
Reading(table, blocks, first, start, end_offset, s) ==
  /\ s \in ReadState
  /\ start <= s.offset /\ s.offset <= end_offset
  /\ s.offset < end_offset =>
       s.block = skip_blocks(table, first, current_block_offset(s.offset))
  /\ Len(s.buf) = s.offset - start
  /\ \A p \in Nat : start <= p /\ p < s.offset =>
       s.buf[p - start + 1] = ByteAt(table, blocks, first, p)

LEMMA ReadTurnBytes ==
  ASSUME NEW table \in FatType, NEW blocks \in DataType, NEW first \in Blocks,
         NEW start \in Nat, NEW end_offset \in Nat,
         NEW s, Reading(table, blocks, first, start, end_offset, s),
         NEW t, t = ReadTurn(table, blocks, end_offset)[s]
  PROVE  /\ Reading(table, blocks, first, start, end_offset, t)
         /\ s.offset < end_offset => t.offset > s.offset
         /\ s.offset >= end_offset => t = s
<1>1. /\ s \in ReadState /\ s.offset \in Nat /\ s.block \in Blocks /\ s.buf \in Seq(Byte)
      /\ start <= s.offset /\ s.offset <= end_offset /\ Len(s.buf) = s.offset - start
  BY DEF Reading, ReadState
<1>2. CASE s.offset >= end_offset
  <2>1. t = s
    BY <1>1, <1>2 DEF ReadTurn
  <2>2. QED
    BY <1>1, <1>2, <2>1
<1>3. CASE s.offset < end_offset
  <2>1. PICK length, r, last, bytes :
          /\ length = TurnLength(s.offset, end_offset)
          /\ r = s.offset % BlockSize
          /\ last = s.offset + length
          /\ bytes = [i \in 1 .. length |-> blocks[s.block][r + i - 1]]
    OBVIOUS
  <2>2. /\ t.offset = last
        /\ t.block = NextBlock(table, s.block, last, end_offset)
        /\ t.buf = s.buf \o bytes
    <3>1. ~(s.offset >= end_offset)
      BY <1>1, <1>3
    <3>2. t = [offset |-> last,
               block  |-> NextBlock(table, s.block, last, end_offset),
               buf    |-> s.buf \o bytes]
      BY <1>1, <2>1, <3>1 DEF ReadTurn
    <3>3. QED
      BY <3>2
  <2>3. t \in ReadState
    BY <1>1, ReadTurnType
  <2>4. /\ length \in Nat \ {0} /\ last \in Nat /\ last <= end_offset /\ last > s.offset
        /\ last < end_offset => current_block_offset(last) = current_block_offset(s.offset) + 1
    <3>1. length \in Nat \ {0} /\ s.offset + length <= end_offset
      BY <1>1, <1>3, <2>1, TurnFits
    <3>2. last \in Nat /\ last > s.offset
      BY <1>1, <2>1, <3>1
    <3>3. last < end_offset => current_block_offset(last) = current_block_offset(s.offset) + 1
      BY <1>1, <1>3, <2>1, TurnReaches
    <3>4. QED
      BY <2>1, <3>1, <3>2, <3>3
  <2>5. PICK q \in Nat : q = current_block_offset(s.offset)
    BY <1>1, BlockCountType
  <2>6. s.block = skip_blocks(table, first, q)
    BY <1>3, <2>5 DEF Reading
  <2>7. last < end_offset => t.block = skip_blocks(table, first, current_block_offset(last))
    BY <2>2, <2>4, <2>5, <2>6, WalkOn DEF NextBlock
  <2>8. /\ bytes \in Seq(Byte) /\ Len(bytes) = length
        /\ \A i \in 1 .. length : bytes[i] = blocks[s.block][r + i - 1]
    <3>1. r \in Nat /\ r + length <= BlockSize
      BY <1>1, <1>3, <2>1, TurnFits, DivMod
    <3>2. ASSUME NEW i \in 1 .. length
          PROVE  blocks[s.block][r + i - 1] \in Byte
      <4>1. r + i - 1 \in 0 .. BlockSize - 1
        BY <2>4, <3>1, Sizes
      <4>2. QED
        BY <1>1, <4>1 DEF DataType
    <3>3. QED
      BY <2>1, <2>4, <3>2
  <2>9. /\ Len(t.buf) = Len(s.buf) + length
        /\ \A i \in 1 .. Len(s.buf) : t.buf[i] = s.buf[i]
        /\ \A i \in 1 .. length : t.buf[Len(s.buf) + i] = bytes[i]
    <3>1. PICK front : front = s.buf
      OBVIOUS
    <3>2. /\ front \in Seq(Byte) /\ bytes \in Seq(Byte) /\ Len(bytes) = length /\ length \in Nat
          /\ t.buf = front \o bytes
      BY <1>1, <2>2, <2>4, <2>8, <3>1
    <3>3. /\ Len(front \o bytes) = Len(front) + Len(bytes)
          /\ \A i \in 1 .. Len(front) + Len(bytes) :
               (front \o bytes)[i] = IF i <= Len(front) THEN front[i] ELSE bytes[i - Len(front)]
      BY <3>2, ConcatProperties
    <3>4. PICK joined : joined = front \o bytes
      OBVIOUS
    <3>5. PICK k \in Nat : k = Len(front)
      BY <3>2
    <3>6. PICK m \in Nat : m = Len(bytes)
      BY <3>2
    <3>7. /\ \A i \in 1 .. k : joined[i] = front[i]
          /\ \A i \in 1 .. m : joined[k + i] = bytes[i]
      <4>1. \A i \in 1 .. k + m : joined[i] = IF i <= k THEN front[i] ELSE bytes[i - k]
        BY <3>3, <3>4, <3>5, <3>6
      <4>2. ASSUME NEW i \in 1 .. m
            PROVE  joined[k + i] = bytes[i]
        <5>1. PICK j \in 1 .. k + m : j = k + i /\ ~(j <= k) /\ j - k = i
          BY <4>2
        <5>2. QED
          BY <4>1, <5>1
      <4>3. QED
        BY <4>1, <4>2
    <3>8. QED
      BY <3>1, <3>2, <3>3, <3>4, <3>5, <3>6, <3>7
  <2>10. ASSUME NEW p \in Nat, start <= p, p < t.offset
         PROVE  t.buf[p - start + 1] = ByteAt(table, blocks, first, p)
    <3>1. CASE p < s.offset
      <4>1. p - start + 1 \in 1 .. Len(s.buf)
        BY <1>1, <2>10, <3>1
      <4>2. QED
        BY <2>9, <2>10, <3>1, <4>1 DEF Reading
    <3>2. CASE p >= s.offset
      <4>1. PICK i \in Nat : p = s.offset + i
        <5>1. p - s.offset \in Nat /\ p = s.offset + (p - s.offset)
          BY <1>1, <3>2
        <5>2. QED
          BY <5>1
      <4>2. i < length
        BY <1>1, <2>1, <2>2, <2>4, <2>10, <4>1
      <4>3. /\ current_block_offset(p) = q
            /\ p % BlockSize = r + i
        BY <1>1, <1>3, <2>1, <2>5, <4>1, <4>2, TurnInBlock
      <4>4. i + 1 \in 1 .. length /\ p - start + 1 = Len(s.buf) + (i + 1)
        <5>1. PICK k \in Nat : k = Len(s.buf) /\ k = s.offset - start
          BY <1>1
        <5>2. i + 1 \in 1 .. length
          BY <2>4, <4>1, <4>2
        <5>3. p - start + 1 = k + (i + 1)
          <6>1. PICK o \in Nat : o = s.offset
            BY <1>1
          <6>2. p = o + i /\ k = o - start
            BY <4>1, <5>1, <6>1
          <6>3. QED
            BY <6>2
        <5>4. QED
          BY <5>1, <5>2, <5>3
      <4>5. t.buf[p - start + 1] = bytes[i + 1]
        BY <2>9, <4>4
      <4>6. r \in Nat /\ r + (i + 1) - 1 = r + i
        <5>1. r \in Nat
          BY <1>1, <2>1, DivMod
        <5>2. QED
          BY <5>1
      <4>7. bytes[i + 1] = blocks[s.block][r + i]
        BY <2>8, <4>4, <4>6
      <4>8. ByteAt(table, blocks, first, p) = blocks[s.block][r + i]
        BY <2>6, <4>3 DEF ByteAt
      <4>9. QED
        BY <4>5, <4>7, <4>8
    <3>3. QED
      BY <1>1, <2>10, <3>1, <3>2
  <2>11. Len(t.buf) = t.offset - start
    BY <1>1, <2>1, <2>2, <2>4, <2>9
  <2>12. start <= t.offset /\ t.offset <= end_offset /\ t.offset > s.offset
    BY <1>1, <2>2, <2>4
  <2>13. Reading(table, blocks, first, start, end_offset, t)
    BY <2>2, <2>3, <2>7, <2>10, <2>11, <2>12 DEF Reading
  <2>14. QED
    BY <1>1, <1>3, <2>12, <2>13
<1>4. QED
  BY <1>1, <1>2, <1>3

\* fs_read fills its buffer with the bytes from the offset on, as many as were asked for or
\* as the file has, and moves the offset behind them.
LEMMA ReadOutcomeBytes ==
  ASSUME TypeOK, NEW node \in NodeType, NEW first \in Blocks, node.first_data_block = first,
         node.offset <= node.size, NEW count \in Nat,
         NEW end_offset, end_offset = IF node.offset + count > node.size THEN node.size
                                      ELSE node.offset + count,
         NEW s, s = ReadOutcome(node, count)
  PROVE  /\ s \in ReadState /\ s.offset = end_offset
         /\ Reading(fat, data, first, node.offset, end_offset, s)
<1> DEFINE start == node.offset
           block == skip_blocks(fat, first, current_block_offset(start))
           s0 == [offset |-> start, block |-> block, buf |-> <<>>]
           f == ReadTurn(fat, data, end_offset)
           x(n) == Iterate(f, s0)[n]
           S == {n \in Nat : /\ Reading(fat, data, first, start, end_offset, x(n))
                             /\ x(n).offset >= n \/ x(n).offset = end_offset}
<1>1. /\ fat \in FatType /\ data \in DataType /\ start \in Nat /\ node.size \in Nat
      /\ end_offset \in Nat /\ start <= end_offset
  BY DEF TypeOK, NodeType
<1>2. block \in Blocks
  BY <1>1, SkipStep, BlockCountType
<1>3. x(0) = s0 /\ \A n \in Nat : x(n + 1) = f[x(n)]
  BY IterateDef
<1>4. s = x(end_offset)
  BY DEF ReadOutcome
<1>5. s0.offset = start /\ s0.block = block /\ s0.buf = <<>> /\ s0 \in ReadState
  BY <1>1, <1>2 DEF ReadState
<1>6. Reading(fat, data, first, start, end_offset, s0)
  BY <1>1, <1>5 DEF Reading
<1> HIDE DEF block, x, s0
<1>7. 0 \in S
  <2>1. PICK a : a = x(0)
    OBVIOUS
  <2>2. a = s0
    BY <1>3, <2>1
  <2>3. Reading(fat, data, first, start, end_offset, a)
    BY <1>6, <2>2
  <2>4. a.offset >= 0
    BY <1>1, <1>5, <2>2
  <2>5. QED
    BY <2>1, <2>3, <2>4
<1>8. ASSUME NEW n \in S
      PROVE  n + 1 \in S
  <2>1. PICK a, b : a = x(n) /\ b = x(n + 1)
    OBVIOUS
  <2>2. /\ Reading(fat, data, first, start, end_offset, a)
        /\ a.offset >= n \/ a.offset = end_offset
        /\ n \in Nat /\ b = f[a]
    BY <1>3, <2>1
  <2>3. /\ Reading(fat, data, first, start, end_offset, b)
        /\ a.offset < end_offset => b.offset > a.offset
        /\ a.offset >= end_offset => b = a
    BY <1>1, <2>2, ReadTurnBytes
  <2>4. a.offset \in Nat /\ b.offset \in Nat /\ a.offset <= end_offset /\ b.offset <= end_offset
    BY <2>2, <2>3 DEF Reading, ReadState
  <2>5. b.offset >= n + 1 \/ b.offset = end_offset
    BY <1>1, <2>2, <2>3, <2>4
  <2>6. QED
    BY <2>1, <2>2, <2>3, <2>5
<1> HIDE DEF S
<1>9. S = Nat
  BY <1>7, <1>8, NatSetInduction DEF S
<1>10. Reading(fat, data, first, start, end_offset, s) /\ (s.offset >= end_offset \/ s.offset = end_offset)
  BY <1>1, <1>4, <1>9 DEF S
<1>11. QED
  BY <1>1, <1>10 DEF Reading, ReadState

-----------------------------------------------------------------------------
(* The calls.                                                              *)

\* What BlocksMatchSize says, in terms of what the loops keep.
FilesFit == \A i \in Listed : Fits(root[i].size, total_file_blocks(fat, root[i].index))

\* What BytesInPlace says, in the same way.
FilesHeld == \A i \in Listed : Held(fat, data, root[i].index, root[i].filename, root[i].size)

ContentInv == FilesFit /\ FilesHeld

LEMMA FilesFitMatch ==
  ASSUME IInv
  PROVE  FilesFit => BlocksMatchSize
<1>1. SUFFICES ASSUME FilesFit, NEW i \in Listed
               PROVE  total_file_blocks(fat, root[i].index) = total_block_size(root[i].size)
  BY DEF BlocksMatchSize
<1>2. root[i].size \in Nat
  BY DEF IInv, TypeOK, DirEntry, Listed
<1>3. QED
  BY <1>1, <1>2, FitsBlockSize, FitsUnique DEF FilesFit

LEMMA FilesHeldInPlace ==
  ASSUME IInv
  PROVE  FilesHeld => BytesInPlace
<1>1. SUFFICES ASSUME FilesHeld, NEW i \in Listed, NEW p \in 0 .. root[i].size - 1
               PROVE  ByteAt(fat, data, root[i].index, p) \in WrittenAt(root[i].filename, p)
  BY DEF BytesInPlace, ByteAt, WrittenAt
<1>2. root[i].size \in Nat
  BY DEF IInv, TypeOK, DirEntry, Listed
<1>3. p \in Nat /\ p < root[i].size
  BY <1>2
<1>4. QED
  BY <1>1, <1>3 DEF FilesHeld, Held

\* A file whose chain and whose blocks are as before is as before.
LEMMA ContentKept ==
  ASSUME NEW table \in FatType, WellLinked(table), NEW h, StartsChain(table, h),
         NEW new, SameChain(table, new, h), NEW blocks, NEW stored,
         \A b \in ChainOf(table, h) : stored[b] = blocks[b],
         NEW name, NEW size
  PROVE  /\ Fits(size, total_file_blocks(table, h)) => Fits(size, total_file_blocks(new, h))
         /\ Held(table, blocks, h, name, size) => Held(new, stored, h, name, size)
<1>1. Fits(size, total_file_blocks(table, h)) => Fits(size, total_file_blocks(new, h))
  BY DEF SameChain
<1>2. ASSUME NEW p \in Nat
      PROVE  ByteAt(new, stored, h, p) = ByteAt(table, blocks, h, p)
  <2>1. PICK m \in Nat : m = current_block_offset(p)
    BY BlockCountType
  <2>2. PICK b : b = skip_blocks(table, h, m)
    OBVIOUS
  <2>3. b \in ChainOf(table, h) /\ skip_blocks(new, h, m) = b
    BY <2>1, <2>2, ChainReached DEF SameChain
  <2>4. QED
    BY <2>1, <2>2, <2>3 DEF ByteAt
<1>3. QED
  BY <1>1, <1>2 DEF Held

\* An entry without a first block has no size, and so nothing in it.
LEMMA ContentEmpty ==
  ASSUME NEW table, NEW blocks, NEW name
  PROVE  /\ Fits(0, total_file_blocks(table, FAT_EOC))
         /\ Held(table, blocks, FAT_EOC, name, 0)
<1>1. Fits(0, total_file_blocks(table, FAT_EOC))
  BY Sizes DEF total_file_blocks, Fits
<1>2. Held(table, blocks, FAT_EOC, name, 0)
  BY DEF Held
<1>3. QED
  BY <1>1, <1>2

\* Entries that stay keep what they have, and an entry that is new has nothing.
LEMMA ContentCreate ==
  ASSUME IInv, ContentInv, NEW name \in NameArgs, fs_create(name)
  PROVE  ContentInv'
<1>1. UNCHANGED <<fat, data>>
  BY DEF fs_create
<1>2. CASE UNCHANGED root
  BY <1>1, <1>2 DEF ContentInv, FilesFit, FilesHeld, Listed, Entries
<1>3. CASE ~(UNCHANGED root)
  <2> DEFINE i == FirstEntry(Null)
  <2>1. /\ Entries(Null) # {}
        /\ root' = [root EXCEPT ![i] = [filename |-> name, size |-> 0, index |-> FAT_EOC]]
    BY <1>3 DEF fs_create
  <2>2. i \in DirSlots
    BY <2>1, FirstEntryFound
  <2> HIDE DEF i
  <2>3. /\ root'[i].size = 0 /\ root'[i].index = FAT_EOC
        /\ \A j \in Listed' : j = i \/ (j \in Listed /\ root'[j] = root[j])
    BY <2>1, <2>2 DEF Listed, Entries, IInv, TypeOK
  <2>4. QED
    BY <1>1, <2>3, ContentEmpty DEF ContentInv, FilesFit, FilesHeld
<1>4. QED
  BY <1>2, <1>3

LEMMA ContentDelete ==
  ASSUME IInv, CacheInv, ContentInv, NEW name \in NameArgs, fs_delete(name)
  PROVE  ContentInv'
<1>1. UNCHANGED data
  BY DEF fs_delete
<1>2. CASE UNCHANGED <<root, fat>>
  BY <1>1, <1>2 DEF ContentInv, FilesFit, FilesHeld, Listed, Entries
<1>3. CASE ~(UNCHANGED <<root, fat>>)
  <2> DEFINE i == FirstEntry(name)
             head == root[i].index
  <2>1. /\ Entries(name) # {} /\ name # Null
        /\ root' = [root EXCEPT ![i] = EmptyEntry]
        /\ fat' = erase_file(fat, head)
    BY <1>3 DEF fs_delete, isValidFileName
  <2>2. i \in Listed /\ i \in DirSlots
    BY <2>1, FirstEntryFound DEF Listed, Entries
  <2>3. /\ fat \in FatType /\ WellLinked(fat) /\ \A h \in DirHeads : StartsChain(fat, h)
        /\ root \in [DirSlots -> DirEntry]
        /\ \A j, k \in Listed : root[j].index = root[k].index /\ root[j].index # FAT_EOC => j = k
    BY DEF IInv, TypeOK, ChainInv, ChainsWellLinked, HeadsStartChains, HeadsBelongToOneEntry, Heads
  <2> HIDE DEF i
  <2>4. \A j \in Listed' : j # i /\ j \in Listed /\ root'[j] = root[j]
    BY <2>1, <2>2, <2>3 DEF Listed, Entries, EmptyEntry
  <2>5. ASSUME NEW j \in Listed'
        PROVE  /\ Fits(root[j].size, total_file_blocks(fat', root[j].index))
               /\ Held(fat', data', root[j].index, root[j].filename, root[j].size)
    <3>1. /\ j \in Listed /\ Fits(root[j].size, total_file_blocks(fat, root[j].index))
          /\ Held(fat, data, root[j].index, root[j].filename, root[j].size)
      BY <2>4, <2>5 DEF ContentInv, FilesFit, FilesHeld
    <3>2. CASE head = FAT_EOC
      BY <1>1, <2>1, <3>1, <3>2 DEF erase_file
    <3>3. CASE root[j].index = FAT_EOC
      <4>1. root[j].size = 0
        BY <3>1, <3>3 DEF CacheInv, EmptyHasNoSize
      <4>2. QED
        BY <3>3, <4>1, ContentEmpty
    <3>4. CASE head # FAT_EOC /\ root[j].index # FAT_EOC
      <4>1. StartsChain(fat, head) /\ StartsChain(fat, root[j].index) /\ root[j].index # head
        BY <2>2, <2>3, <2>4, <2>5, <3>4 DEF DirHeads
      <4> HIDE DEF head
      <4>2. SameChain(fat, fat', root[j].index)
        BY <2>1, <2>3, <4>1, EraseKeeps
      <4>3. QED
        BY <1>1, <2>3, <3>1, <4>1, <4>2, ContentKept
    <3>5. QED
      BY <3>2, <3>3, <3>4
  <2>6. QED
    BY <2>4, <2>5 DEF ContentInv, FilesFit, FilesHeld
<1>4. QED
  BY <1>2, <1>3

LEMMA ContentWrite ==
  ASSUME IInv, CacheInv, ContentInv,
         NEW fd \in FdArgs, NEW buf \in BufArgs, NEW count \in CountArgs,
         fs_write(fd, buf, count)
  PROVE  ContentInv'
<1> DEFINE refused == buf = Null \/ ~isUsable(fd) \/ count = 0
<1>1. CASE refused
  <2>1. UNCHANGED <<root, fat, data>>
    BY <1>1 DEF fs_write, volume
  <2>2. QED
    BY <2>1 DEF ContentInv, FilesFit, FilesHeld, Listed, Entries
<1>2. CASE ~refused
  <2>1. /\ TypeOK /\ fat \in FatType /\ WellLinked(fat)
        /\ fd \in Open /\ fd \in Fds /\ Node(fd) \in NodeType /\ count \in Nat \ {0}
    BY <1>2, NodeFacts, ClientAssumption
    DEF IInv, TypeOK, ChainInv, ChainsWellLinked, isUsable, isOpenByFd, Node, CountArgs
  <2>2. PICK w0 : w0 = [fat |-> fat, data |-> data, root |-> root, node |-> Node(fd)]
    OBVIOUS
  <2>3. PICK bytes : bytes = Bytes(Node(fd).filename, Node(fd).offset, buf)
    OBVIOUS
  <2>4. PICK o : o = WriteOutcome(w0, bytes, count)
    OBVIOUS
  <2>5. fat' = o.w.fat /\ root' = o.w.root /\ data' = o.w.data
    BY <1>2, <2>2, <2>3, <2>4 DEF fs_write
  <2>6. w0 \in WState
    BY <2>1, <2>2 DEF TypeOK, WState
  <2>7. Node(fd).filename \in Names /\ Node(fd).offset \in Nat /\ buf \in Versions
    BY <1>2, <2>1 DEF IInv, ChainInv, OpenFilesListed, NodeType, BufArgs
  <2>8. BytesFor(bytes, Node(fd).filename, Node(fd).offset)
    <3>1. bytes \in [Nat -> Byte]
      BY <2>3, <2>7 DEF Bytes, Byte
    <3>2. ASSUME NEW p \in Nat, p >= Node(fd).offset
          PROVE  bytes[p - Node(fd).offset] = <<Node(fd).filename, p, buf>>
      <4>1. p - Node(fd).offset \in Nat /\ Node(fd).offset + (p - Node(fd).offset) = p
        BY <2>7, <3>2
      <4>2. QED
        BY <2>3, <4>1 DEF Bytes
    <3>3. QED
      BY <2>7, <3>1, <3>2 DEF BytesFor, WrittenAt
  <2>9. w0.node.first_data_block # FAT_EOC => StartsChain(w0.fat, w0.node.first_data_block)
    BY <2>1, <2>2 DEF IInv, ChainInv, HeadsStartChains, Heads, FdHeads
  <2>10. PICK e : e = Node(fd).dir_entry_index
    OBVIOUS
  <2>11. e \in Listed /\ root[e].filename = Node(fd).filename
    BY <2>1, <2>10 DEF IInv, ChainInv, OpenFilesListed, Listed, Entries, NodeType
  <2>12. NodeCurrent(w0)
    BY <2>1, <2>2, <2>10, <2>11 DEF CacheInv, CacheIsCurrent, EmptyHasNoSize, NodeCurrent
  <2>13. /\ w0.node.first_data_block = root[e].index /\ w0.node.size = root[e].size
         /\ w0.node.offset = Node(fd).offset /\ w0.fat = fat /\ w0.data = data
         /\ w0.root = root /\ w0.node.dir_entry_index = e
    BY <2>2, <2>10, <2>12 DEF NodeCurrent
  <2>14. /\ Fits(w0.node.size, total_file_blocks(w0.fat, w0.node.first_data_block))
         /\ Held(w0.fat, w0.data, w0.node.first_data_block, root[e].filename, w0.node.size)
    BY <2>11, <2>13 DEF ContentInv, FilesFit, FilesHeld
  <2>15. /\ WriteEffect(w0, o.w) /\ NodeCurrent(o.w) /\ OthersKept(w0, o.w)
         /\ \A b \in Blocks : data'[b] # data[b] =>
              fat[b] = 0 \/ b \in ChainOf(fat, root[e].index)
    <3>1. bytes \in [Nat -> Byte] /\ count \in Nat /\ WellLinked(w0.fat)
      BY <2>1, <2>8, <2>13 DEF BytesFor
    <3>2. WriteEffect(w0, o.w) /\ NodeCurrent(o.w) /\ OthersKept(w0, o.w)
      BY <2>4, <2>6, <2>9, <2>12, <3>1, WriteOutcomeEffect, WriteOutcomeCurrent
    <3>3. \A b \in Blocks : o.w.data[b] # w0.data[b] =>
            \/ w0.fat[b] = 0
            \/ /\ b \in ChainOf(w0.fat, w0.node.first_data_block)
               /\ o.w.node.offset > w0.node.offset
      BY <2>4, <2>6, <2>9, <3>1, WriteOutcomeInside
    <3>4. QED
      BY <2>5, <2>13, <3>2, <3>3
  <2>16. /\ Fits(o.w.node.size, total_file_blocks(fat', o.w.node.first_data_block))
         /\ Held(fat', data', o.w.node.first_data_block, root[e].filename, o.w.node.size)
         /\ OtherChainsKept(fat, fat', root[e].index)
    <3>1. WellLinked(w0.fat) /\ BytesFor(bytes, root[e].filename, w0.node.offset)
      BY <2>1, <2>8, <2>11, <2>13
    <3>2. /\ Fits(o.w.node.size, total_file_blocks(o.w.fat, o.w.node.first_data_block))
          /\ Held(o.w.fat, o.w.data, o.w.node.first_data_block, root[e].filename, o.w.node.size)
          /\ OtherChainsKept(w0.fat, o.w.fat, w0.node.first_data_block)
      BY <2>1, <2>4, <2>6, <2>9, <2>12, <2>14, <3>1, WriteOutcomeContent
    <3>3. QED
      BY <2>5, <2>13, <3>2
  <2>17. /\ Listed' = Listed
         /\ \A i \in Listed : root'[i].filename = root[i].filename
         /\ \A i \in Listed : i # e => root'[i] = root[i]
    BY <2>5, <2>13, <2>15 DEF WriteEffect, SameFile, OthersKept, Listed, Entries
  <2>18. /\ o.w.node.first_data_block = root'[e].index /\ o.w.node.size = root'[e].size
    BY <2>5, <2>13, <2>15 DEF OthersKept, NodeCurrent
  <2>19. ASSUME NEW i \in Listed, i # e
         PROVE  /\ Fits(root[i].size, total_file_blocks(fat', root[i].index))
                /\ Held(fat', data', root[i].index, root[i].filename, root[i].size)
    <3>1. CASE root[i].index = FAT_EOC
      <4>1. root[i].size = 0
        BY <2>19, <3>1 DEF CacheInv, EmptyHasNoSize
      <4>2. QED
        BY <3>1, <4>1, ContentEmpty
    <3>2. CASE root[i].index # FAT_EOC
      <4> DEFINE h == root[i].index
                 k == root[e].index
      <4>1. StartsChain(fat, h) /\ (k = FAT_EOC \/ StartsChain(fat, k))
        BY <2>11, <2>19, <3>2 DEF IInv, ChainInv, HeadsStartChains, Heads, DirHeads
      <4>2. h # k
        BY <2>11, <2>19, <3>2 DEF IInv, ChainInv, HeadsBelongToOneEntry
      <4>3. /\ Fits(root[i].size, total_file_blocks(fat, h))
            /\ Held(fat, data, h, root[i].filename, root[i].size)
        BY <2>19 DEF ContentInv, FilesFit, FilesHeld
      <4> HIDE DEF h, k
      <4>4. \A b \in ChainOf(fat, h) : b \in Blocks /\ fat[b] # 0
        BY <2>1, <4>1, ChainClosed
      <4>5. \A b \in ChainOf(fat, h) : b \notin ChainOf(fat, k)
        <5>1. CASE k = FAT_EOC
          <6>1. ChainOf(fat, k) \subseteq {FAT_EOC}
            BY <5>1 DEF ChainOf, skip_blocks
          <6>2. QED
            BY <4>4, <6>1, Sizes
        <5>2. CASE StartsChain(fat, k)
          BY <2>1, <4>1, <4>2, <5>2, ChainsApart
        <5>3. QED
          BY <4>1, <5>1, <5>2
      <4>6. \A b \in ChainOf(fat, h) : data'[b] = data[b]
        BY <2>15, <4>4, <4>5 DEF k
      <4>7. SameChain(fat, fat', h)
        BY <2>16, <4>1, <4>2 DEF OtherChainsKept, k
      <4>8. /\ Fits(root[i].size, total_file_blocks(fat', h))
            /\ Held(fat', data', h, root[i].filename, root[i].size)
        BY <2>1, <4>1, <4>3, <4>6, <4>7, ContentKept
      <4>9. QED
        BY <4>8 DEF h
    <3>3. QED
      BY <3>1, <3>2
  <2>20. QED
    BY <2>16, <2>17, <2>18, <2>19 DEF ContentInv, FilesFit, FilesHeld
<1>3. QED
  BY <1>1, <1>2

LEMMA ContentNext ==
  ASSUME IInv, CacheInv, ContentInv, [Next]_vars
  PROVE  ContentInv'
<1>1. ASSUME UNCHANGED <<root, fat, data>>
      PROVE  ContentInv'
  BY <1>1 DEF ContentInv, FilesFit, FilesHeld, Listed, Entries
<1>2. CASE \/ UNCHANGED vars \/ fs_mount \/ fs_umount \/ fs_info \/ fs_ls \/ free_blocks
           \/ \E name \in NameArgs : fs_open(name)
           \/ \E fd \in FdArgs : fs_close(fd)
           \/ \E fd \in FdArgs : fs_stat(fd)
           \/ \E fd \in FdArgs, offset \in OffsetArgs : fs_lseek(fd, offset)
           \/ \E fd \in FdArgs, buf \in BufArgs, count \in CountArgs : fs_read(fd, buf, count)
  BY <1>1, <1>2
  DEF vars, volume, fs_mount, fs_umount, fs_info, fs_ls, free_blocks, fs_open, fs_close,
      fs_stat, fs_lseek, fs_read
<1>3. CASE \/ \E name \in NameArgs : fs_create(name)
           \/ \E name \in NameArgs : fs_delete(name)
  BY <1>3, ContentCreate, ContentDelete
<1>4. CASE erase_all_files
  <2>1. UNCHANGED <<root, fat, data>> \/ Listed' = {}
    BY <1>4 DEF erase_all_files, volume, Listed, Entries, EmptyEntry
  <2>2. QED
    BY <1>1, <2>1 DEF ContentInv, FilesFit, FilesHeld
<1>5. ASSUME NEW fd \in FdArgs, NEW buf \in BufArgs, NEW count \in CountArgs,
             fs_write(fd, buf, count)
      PROVE  ContentInv'
  BY <1>5, ContentWrite
<1>6. QED
  BY <1>2, <1>3, <1>4, <1>5 DEF Next

LEMMA ContentInit == Init => CacheInv /\ ContentInv
<1>1. Init => Open = {} /\ Listed = {}
  BY EmptyTable DEF Init, Open, Listed, Entries, EmptyEntry
<1>2. QED
  BY <1>1 DEF CacheInv, OpenOnce, EmptyHasNoSize, CacheIsCurrent, ContentInv, FilesFit, FilesHeld

-----------------------------------------------------------------------------
(* The theorems.                                                           *)

\* With one descriptor to a file, every call keeps blocks and bytes of every file.
LEMMA ContentInvariance ==
  ASSUME ~SharedOpens
  PROVE  Spec => [](IInv /\ CacheInv /\ ContentInv)
<1>1. IInv /\ CacheInv /\ ContentInv /\ [Next]_vars => CacheInv' /\ ContentInv'
  BY CacheNext, ContentNext
<1>2. QED
  BY <1>1, ContentInit, Invariance, PTL DEF Spec

\* With one descriptor to a file, a file has the blocks that its size needs and not one
\* more, on a volume of any size: fs_write takes what it needs past total_file_blocks or
\* what the disk has, and sets the size to what it has moved (fs.c, fs_write).
THEOREM SizesMatchBlocks ==
  ASSUME ~SharedOpens
  PROVE  Spec => []BlocksMatchSize
<1>1. IInv /\ CacheInv /\ ContentInv => BlocksMatchSize
  BY FilesFitMatch DEF ContentInv
<1>2. QED
  BY <1>1, ContentInvariance, PTL

\* With one descriptor to a file, every byte of a file is one that was written to this file
\* at this place, whatever was written, overwritten, deleted and cut short before (fs.c,
\* fs_write; disk.c, allocate_more_blocks and erase_file).
THEOREM BytesStayInPlace ==
  ASSUME ~SharedOpens
  PROVE  Spec => []BytesInPlace
<1>1. IInv /\ CacheInv /\ ContentInv => BytesInPlace
  BY FilesHeldInPlace DEF ContentInv
<1>2. QED
  BY <1>1, ContentInvariance, PTL

==============================================================================
