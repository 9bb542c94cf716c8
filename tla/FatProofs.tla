------------------------------ MODULE FatProofs ------------------------------
(***************************************************************************)
(* Facts about the allocator: the walks stay in the data region, and        *)
(* allocation and erasure keep the chains of a well-linked FAT sound and    *)
(* apart.                                                                   *)
(***************************************************************************)
EXTENDS Fat, IterationProofs, FiniteSetTheorems, TLAPS

\* The constants, in the form the steps below use.
LEMMA Sizes ==
  /\ DataBlocks \in Nat \ {0} /\ BlockSize \in Nat \ {0}
  /\ 0 \in Blocks /\ FAT_EOC \notin Blocks /\ Blocks \subseteq Slots /\ Blocks \subseteq Nat
BY FatAssumption DEF Blocks, Slots, FAT_EOC

\* A FAT entry of a data block is a block number, or FAT_EOC.
LEMMA EntryType ==
  ASSUME NEW fat \in FatType, NEW b \in Blocks
  PROVE  /\ fat[b] \in Blocks \cup {FAT_EOC}
         /\ fat[b] # FAT_EOC => fat[b] \in Blocks
BY Sizes DEF FatType, Links

\* Storing a link or 0 keeps the type of the FAT, and changes this entry alone.
LEMMA SetEntryType ==
  ASSUME NEW fat \in FatType, NEW b \in Blocks, NEW v \in Links
  PROVE  /\ set_fat_entry(fat, b, v) \in FatType
         /\ \A c \in Blocks : set_fat_entry(fat, b, v)[c] = IF c = b THEN v ELSE fat[c]
BY Sizes DEF FatType, set_fat_entry

LEMMA ClearType ==
  ASSUME NEW data \in DataType, NEW b \in Blocks
  PROVE  clear_block(data, b) \in DataType
BY DEF DataType, clear_block, Byte

\* The scan of first_block_available finds a free block when there is one.
LEMMA FirstAvailable ==
  ASSUME NEW fat, ~DiskFull(fat)
  PROVE  first_block_available(fat) \in Blocks /\ fat[first_block_available(fat)] = 0
<1>1. FreeBlocks(fat) \subseteq Nat /\ FreeBlocks(fat) # {}
  BY Sizes DEF DiskFull, FreeBlocks
<1>2. PICK m \in FreeBlocks(fat) : \A c \in FreeBlocks(fat) : m <= c
  BY <1>1, NatMinimum
<1>3. first_block_available(fat) \in FreeBlocks(fat)
  BY <1>2 DEF first_block_available
<1>4. QED
  BY <1>3 DEF FreeBlocks

-----------------------------------------------------------------------------
(* Walks.                                                                  *)

\* skip_blocks from a data block: no hop is no move, one more hop follows the link
\* of where the others led, and the walk stays in the data region.
LEMMA SkipStep ==
  ASSUME NEW fat \in FatType, NEW b \in Blocks
  PROVE  /\ skip_blocks(fat, b, 0) = b
         /\ \A n \in Nat :
              /\ skip_blocks(fat, b, n) \in Blocks
              /\ skip_blocks(fat, b, n + 1) =
                   IF fat[skip_blocks(fat, b, n)] = FAT_EOC THEN skip_blocks(fat, b, n)
                   ELSE fat[skip_blocks(fat, b, n)]
<1>1. b # FAT_EOC
  BY Sizes
<1>2. \A c \in Blocks : Follow(fat)[c] = IF fat[c] = FAT_EOC THEN c ELSE fat[c]
  BY DEF Follow, get_fat_entry
<1>3. \A c \in Blocks : Follow(fat)[c] \in Blocks
  BY <1>2, EntryType
<1>4. \A n \in Nat : skip_blocks(fat, b, n) = Iterate(Follow(fat), b)[n]
  BY <1>1 DEF skip_blocks
<1>5. \A n \in Nat : Iterate(Follow(fat), b)[n] \in Blocks
  BY <1>3, IterateInvariant
<1>6. QED
  BY <1>2, <1>4, <1>5, IterateDef

\* Along a chain every block is allocated and none is block 0.
LEMMA SkipAllocated ==
  ASSUME NEW fat \in FatType, WellLinked(fat), NEW b \in Blocks \ {0}, fat[b] # 0, NEW n \in Nat
  PROVE  /\ skip_blocks(fat, b, n) \in Blocks \ {0}
         /\ fat[skip_blocks(fat, b, n)] # 0
<1> DEFINE S == {m \in Nat : skip_blocks(fat, b, m) # 0 /\ fat[skip_blocks(fat, b, m)] # 0}
<1>1. 0 \in S
  BY SkipStep
<1>2. ASSUME NEW m \in S
      PROVE  m + 1 \in S
  <2>1. CASE fat[skip_blocks(fat, b, m)] = FAT_EOC
    BY <1>2, <2>1, SkipStep
  <2>2. CASE fat[skip_blocks(fat, b, m)] # FAT_EOC
    BY <1>2, <2>2, SkipStep DEF WellLinked, LinksLeadToAllocated, HasNext
  <2>3. QED
    BY <2>1, <2>2
<1>3. S = Nat
  BY <1>1, <1>2, NatSetInduction
<1>4. QED
  BY <1>3, SkipStep

\* The count of blocks is a natural number.
LEMMA TotalType ==
  ASSUME NEW fat \in FatType, NEW b \in Blocks
  PROVE  total_file_blocks(fat, b) \in Nat \ {0}
<1> DEFINE T == [block : Blocks, count : Nat \ {0}]
<1>1. [block |-> b, count |-> 1] \in T
  OBVIOUS
<1>2. ASSUME NEW s \in T
      PROVE  CountTurn(fat)[s] \in T
  BY EntryType DEF CountTurn, CountState, get_fat_entry
<1> HIDE DEF T
<1>3. \A n \in Nat : Iterate(CountTurn(fat), [block |-> b, count |-> 1])[n] \in T
  BY <1>1, <1>2, IterateInvariant
<1>4. QED
  BY <1>3, Sizes DEF T, total_file_blocks

-----------------------------------------------------------------------------
(* Allocation.                                                             *)

\* Nothing links to a free block, and it is not block 0.
LEMMA FreeBlockUnlinked ==
  ASSUME NEW fat \in FatType, WellLinked(fat), NEW b \in Blocks, fat[b] = 0
  PROVE  b # 0 /\ \A c \in Blocks : fat[c] # b
<1>1. b # 0
  BY DEF WellLinked, LinksLeadToAllocated, FAT_EOC
<1>2. SUFFICES ASSUME NEW c \in Blocks, fat[c] = b PROVE FALSE
  BY <1>1
<1>3. HasNext(fat, c)
  BY <1>1, <1>2, Sizes DEF HasNext
<1>4. QED
  BY <1>2, <1>3 DEF WellLinked, LinksLeadToAllocated

\* A free block that is made a chain of its own leaves every other chain as it was.
LEMMA NewChain ==
  ASSUME NEW fat \in FatType, WellLinked(fat), NEW b \in Blocks, fat[b] = 0,
         NEW new \in FatType,
         \A c \in Blocks : new[c] = IF c = b THEN FAT_EOC ELSE fat[c]
  PROVE  /\ WellLinked(new)
         /\ \A h : StartsChain(fat, h) => StartsChain(new, h)
         /\ StartsChain(new, b)
<1>1. b # 0 /\ \A c \in Blocks : fat[c] # b
  BY FreeBlockUnlinked
<1>2. LinksLeadToAllocated(new)
  <2>1. new[0] = FAT_EOC
    BY <1>1, Sizes DEF WellLinked, LinksLeadToAllocated
  <2>2. \A c \in Blocks : HasNext(new, c) => HasNext(fat, c) /\ new[c] = fat[c] /\ fat[c] \in Blocks
    BY EntryType DEF HasNext
  <2>3. \A c \in Blocks : HasNext(new, c) => new[new[c]] # 0
    BY <2>2 DEF WellLinked, LinksLeadToAllocated, FAT_EOC
  <2>4. QED
    BY <2>1, <2>3 DEF LinksLeadToAllocated
<1>3. LinksAreInjective(new)
  BY DEF WellLinked, LinksAreInjective, HasNext
<1>4. ASSUME NEW h, StartsChain(fat, h)
      PROVE  StartsChain(new, h)
  BY <1>4, Sizes DEF StartsChain, FAT_EOC
<1>5. StartsChain(new, b)
  BY <1>1, Sizes DEF StartsChain, FAT_EOC
<1>6. QED
  BY <1>2, <1>3, <1>4, <1>5 DEF WellLinked

\* A free block that is made the end of a chain, behind the block a that was its
\* end, leaves every other chain as it was.
LEMMA LinkFreeBlock ==
  ASSUME NEW fat \in FatType, WellLinked(fat),
         NEW a \in Blocks \ {0}, fat[a] # 0,
         NEW b \in Blocks, fat[b] = 0,
         NEW new \in FatType,
         \A c \in Blocks : new[c] = IF c = b THEN FAT_EOC ELSE IF c = a THEN b ELSE fat[c]
  PROVE  /\ WellLinked(new)
         /\ \A h : StartsChain(fat, h) => StartsChain(new, h)
<1>1. b # 0 /\ a # b
  BY FreeBlockUnlinked
<1>2. \A c \in Blocks : fat[c] # b
  BY FreeBlockUnlinked
<1>3. LinksLeadToAllocated(new)
  <2>1. new[0] = FAT_EOC
    BY <1>1, Sizes DEF WellLinked, LinksLeadToAllocated
  <2>2. ASSUME NEW c \in Blocks, HasNext(new, c)
        PROVE  new[new[c]] # 0
    <3>1. CASE c = a
      BY <1>1, <3>1 DEF FAT_EOC
    <3>2. CASE c # a
      <4>1. c # b /\ new[c] = fat[c]
        BY <2>2, <3>2 DEF HasNext
      <4>2. fat[c] \in Blocks /\ fat[fat[c]] # 0
        BY <2>2, <4>1, EntryType DEF HasNext, WellLinked, LinksLeadToAllocated
      <4>3. QED
        BY <1>1, <4>1, <4>2 DEF FAT_EOC
    <3>3. QED
      BY <3>1, <3>2
  <2>3. QED
    BY <2>1, <2>2 DEF LinksLeadToAllocated
<1>4. LinksAreInjective(new)
  BY <1>1, <1>2 DEF WellLinked, LinksAreInjective, HasNext
<1>5. ASSUME NEW h, StartsChain(fat, h)
      PROVE  StartsChain(new, h)
  BY <1>1, <1>5, Sizes DEF StartsChain, FAT_EOC
<1>6. QED
  BY <1>3, <1>4, <1>5 DEF WellLinked

\* allocate_more_blocks keeps the chains sound, and what started a chain still does.
LEMMA AllocateMore ==
  ASSUME NEW fat \in FatType, WellLinked(fat), NEW data \in DataType,
         NEW first \in Blocks \ {0}, fat[first] # 0, NEW needed_blocks \in Nat,
         NEW a, a = allocate_more_blocks(fat, data, first, needed_blocks)
  PROVE  /\ a.fat \in FatType /\ a.data \in DataType /\ a.new_blocks \in Nat
         /\ WellLinked(a.fat)
         /\ \A h : StartsChain(fat, h) => StartsChain(a.fat, h)
<1> DEFINE end_block == skip_blocks(fat, first, total_file_blocks(fat, first) - 1)
           s0 == [fat |-> fat, data |-> data, end_block |-> end_block, new_blocks |-> 0]
           T == {s \in AllocState :
                   /\ WellLinked(s.fat)
                   /\ s.end_block # 0 /\ s.fat[s.end_block] # 0
                   /\ \A h \in Blocks : StartsChain(fat, h) => StartsChain(s.fat, h)}
<1>1. s0 \in T
  <2>1. total_file_blocks(fat, first) - 1 \in Nat
    BY TotalType
  <2>2. end_block \in Blocks \ {0} /\ fat[end_block] # 0
    BY <2>1, SkipAllocated
  <2>3. QED
    BY <2>2 DEF AllocState
<1>2. ASSUME NEW s \in T
      PROVE  AllocateOne[s] \in T
  <2>1. CASE DiskFull(s.fat)
    BY <1>2, <2>1 DEF AllocateOne
  <2>2. CASE ~DiskFull(s.fat)
    <3> DEFINE b == first_block_available(s.fat)
               linked == set_fat_entry(s.fat, s.end_block, b)
               new == set_fat_entry(linked, b, FAT_EOC)
    <3>1. b \in Blocks /\ s.fat[b] = 0
      BY <2>2, FirstAvailable
    <3>2. b \in Links /\ FAT_EOC \in Links /\ s.fat \in FatType /\ s.data \in DataType
          /\ s.end_block \in Blocks \ {0} /\ s.new_blocks \in Nat /\ s.fat[s.end_block] # 0
      BY <3>1 DEF Links, AllocState
    <3> HIDE DEF b
    <3>3. linked \in FatType
          /\ \A c \in Blocks : linked[c] = IF c = s.end_block THEN b ELSE s.fat[c]
      <4> DEFINE f == s.fat
                 a1 == s.end_block
      <4>1. f \in FatType /\ a1 \in Blocks /\ b \in Links
        BY <3>2
      <4> HIDE DEF f, a1
      <4>2. /\ set_fat_entry(f, a1, b) \in FatType
            /\ \A c \in Blocks : set_fat_entry(f, a1, b)[c] = IF c = a1 THEN b ELSE f[c]
        BY <4>1, SetEntryType
      <4>3. QED
        BY <4>2 DEF f, a1
    <3> HIDE DEF linked
    <3>4. new \in FatType
          /\ \A c \in Blocks : new[c] = IF c = b THEN FAT_EOC ELSE linked[c]
      BY <3>1, <3>2, <3>3, SetEntryType
    <3> HIDE DEF new
    <3>5. \A c \in Blocks : new[c] = IF c = b THEN FAT_EOC
                                     ELSE IF c = s.end_block THEN b ELSE s.fat[c]
      BY <3>3, <3>4
    <3>6. WellLinked(new) /\ \A h : StartsChain(s.fat, h) => StartsChain(new, h)
      BY <3>1, <3>2, <3>4, <3>5, LinkFreeBlock
    <3>7. AllocateOne[s] = [fat |-> new, data |-> clear_block(s.data, b),
                            end_block |-> b, new_blocks |-> s.new_blocks + 1]
      BY <2>2 DEF AllocateOne, b, linked, new
    <3>8. b # 0 /\ new[b] # 0
      BY <3>1, <3>5 DEF WellLinked, LinksLeadToAllocated, FAT_EOC
    <3>9. clear_block(s.data, b) \in DataType /\ s.new_blocks + 1 \in Nat
      BY <3>1, <3>2, ClearType
    <3>10. QED
      BY <3>1, <3>4, <3>6, <3>7, <3>8, <3>9 DEF AllocState
  <2>3. QED
    BY <2>1, <2>2
<1> HIDE DEF T, s0
<1>3. \A n \in Nat : Iterate(AllocateOne, s0)[n] \in T
  BY <1>1, <1>2, IterateInvariant
<1>4. a \in T
  BY <1>3 DEF allocate_more_blocks, s0
<1>5. \A h : StartsChain(fat, h) => h \in Blocks
  BY DEF StartsChain
<1>6. QED
  BY <1>4, <1>5 DEF T, AllocState

-----------------------------------------------------------------------------
(* Erasure.                                                                *)

\* Erasing the first block of a chain makes the next one, if any, the first.
LEMMA UnlinkFirst ==
  ASSUME NEW fat \in FatType, WellLinked(fat), NEW b, StartsChain(fat, b),
         NEW new \in FatType,
         \A c \in Blocks : new[c] = IF c = b THEN 0 ELSE fat[c]
  PROVE  /\ WellLinked(new)
         /\ fat[b] # FAT_EOC => StartsChain(new, fat[b])
         /\ \A h : StartsChain(fat, h) /\ h # b => StartsChain(new, h) /\ h # fat[b]
<1>1. b \in Blocks /\ b # 0 /\ \A c \in Blocks : fat[c] # b
  BY DEF StartsChain
<1>2. WellLinked(new)
  <2>1. new[0] = FAT_EOC
    BY <1>1, Sizes DEF WellLinked, LinksLeadToAllocated
  <2>2. \A c \in Blocks : HasNext(new, c) => c # b /\ new[c] = fat[c] /\ HasNext(fat, c)
    BY <1>1 DEF HasNext
  <2>3. \A c \in Blocks : HasNext(fat, c) => fat[c] \in Blocks /\ fat[fat[c]] # 0
    BY EntryType DEF HasNext, WellLinked, LinksLeadToAllocated
  <2>4. LinksLeadToAllocated(new)
    BY <1>1, <2>1, <2>2, <2>3 DEF LinksLeadToAllocated
  <2>5. LinksAreInjective(new)
    BY <2>2 DEF WellLinked, LinksAreInjective, HasNext
  <2>6. QED
    BY <2>4, <2>5 DEF WellLinked
<1>3. ASSUME fat[b] # FAT_EOC
      PROVE  StartsChain(new, fat[b])
  <2>1. HasNext(fat, b) /\ fat[b] \in Blocks \ {0} /\ fat[b] # b
    BY <1>1, <1>3, EntryType DEF StartsChain, HasNext
  <2>2. fat[fat[b]] # 0
    BY <1>1, <2>1 DEF WellLinked, LinksLeadToAllocated
  <2>3. \A c \in Blocks : new[c] # fat[b]
    BY <1>1, <2>1 DEF WellLinked, LinksAreInjective
  <2>4. QED
    BY <2>1, <2>2, <2>3 DEF StartsChain
<1>4. ASSUME NEW h, StartsChain(fat, h), h # b
      PROVE  StartsChain(new, h) /\ h # fat[b]
  BY <1>1, <1>4 DEF StartsChain
<1>5. QED
  BY <1>2, <1>3, <1>4

\* erase_file keeps the other chains sound: whatever started one still does.
LEMMA EraseFile ==
  ASSUME NEW fat \in FatType, WellLinked(fat), NEW h0, StartsChain(fat, h0),
         NEW new, new = erase_file(fat, h0)
  PROVE  /\ new \in FatType
         /\ WellLinked(new)
         /\ \A h : StartsChain(fat, h) /\ h # h0 => StartsChain(new, h)
<1> DEFINE s0 == [fat |-> fat, block |-> h0, done |-> FALSE]
           T == {s \in EraseState :
                   /\ WellLinked(s.fat)
                   /\ ~s.done => StartsChain(s.fat, s.block)
                   /\ \A h \in Blocks \ {h0} : StartsChain(fat, h) =>
                        StartsChain(s.fat, h) /\ (~s.done => h # s.block)}
<1>1. h0 \in Blocks /\ h0 # FAT_EOC
  BY Sizes DEF StartsChain
<1>2. s0 \in T
  BY <1>1 DEF EraseState
<1>3. ASSUME NEW s \in T
      PROVE  EraseOne[s] \in T
  <2>1. CASE s.done
    BY <2>1 DEF EraseOne
  <2>2. CASE ~s.done
    <3> DEFINE f == set_fat_entry(s.fat, s.block, 0)
               next == s.fat[s.block]
    <3>1. s.fat \in FatType /\ s.block \in Blocks /\ 0 \in Links
          /\ WellLinked(s.fat) /\ StartsChain(s.fat, s.block)
      BY <2>2, Sizes DEF EraseState, Links
    <3>2. f \in FatType /\ \A c \in Blocks : f[c] = IF c = s.block THEN 0 ELSE s.fat[c]
      BY <3>1, SetEntryType
    <3>3. next # FAT_EOC => next \in Blocks
      BY <3>1, EntryType
    <3> HIDE DEF f
    <3>4. /\ WellLinked(f)
          /\ next # FAT_EOC => StartsChain(f, next)
          /\ \A h : StartsChain(s.fat, h) /\ h # s.block => StartsChain(f, h) /\ h # next
      BY <3>1, <3>2, UnlinkFirst
    <3>5. EraseOne[s] = [fat |-> f, block |-> IF next = FAT_EOC THEN s.block ELSE next,
                         done |-> next = FAT_EOC]
      BY <2>2 DEF EraseOne, f, get_fat_entry
    <3>6. EraseOne[s] \in EraseState
      BY <3>1, <3>2, <3>3, <3>5 DEF EraseState
    <3> HIDE DEF next
    <3>7. ~EraseOne[s].done => EraseOne[s].block = next /\ next # FAT_EOC
      <4>1. CASE next = FAT_EOC
        <5>1. EraseOne[s] = [fat |-> f, block |-> s.block, done |-> TRUE]
          BY <3>5, <4>1
        <5>2. QED
          BY <5>1
      <4>2. CASE next # FAT_EOC
        <5>1. EraseOne[s] = [fat |-> f, block |-> next, done |-> FALSE]
          BY <3>5, <4>2
        <5>2. QED
          BY <4>2, <5>1
      <4>3. QED
        BY <4>1, <4>2
    <3>8. EraseOne[s].fat = f
      BY <3>5
    <3>9. \A h \in Blocks \ {h0} : StartsChain(fat, h) =>
            StartsChain(f, h) /\ h # next
      BY <2>2, <3>4
    <3>10. QED
      BY <3>4, <3>6, <3>7, <3>8, <3>9
  <2>3. QED
    BY <2>1, <2>2
<1> HIDE DEF T, s0
<1>4. \A n \in Nat : Iterate(EraseOne, s0)[n] \in T
  BY <1>2, <1>3, IterateInvariant
<1>5. PICK s \in T : new = s.fat
  BY <1>1, <1>4, Sizes DEF erase_file, s0
<1>6. \A h : StartsChain(fat, h) => h \in Blocks
  BY DEF StartsChain
<1>7. QED
  BY <1>5, <1>6 DEF T, EraseState

-----------------------------------------------------------------------------
(* Chains.                                                                 *)

\* Two chains that start at different blocks have no block in common.
LEMMA ChainsApart ==
  ASSUME NEW fat \in FatType, WellLinked(fat),
         NEW h, NEW k, StartsChain(fat, h), StartsChain(fat, k), h # k
  PROVE  ChainOf(fat, h) \cap ChainOf(fat, k) = {}
<1> DEFINE H(n) == skip_blocks(fat, h, n)
           K(m) == skip_blocks(fat, k, m)
           S == {n \in Nat : \A m \in Nat : H(n) # K(m)}
<1>1. h \in Blocks /\ k \in Blocks
  BY DEF StartsChain
<1>2. /\ H(0) = h /\ K(0) = k
      /\ \A n \in Nat : /\ H(n) \in Blocks /\ K(n) \in Blocks
                        /\ H(n + 1) = IF fat[H(n)] = FAT_EOC THEN H(n) ELSE fat[H(n)]
                        /\ K(n + 1) = IF fat[K(n)] = FAT_EOC THEN K(n) ELSE fat[K(n)]
  BY <1>1, SkipStep
<1>3. \A n \in Nat : fat[H(n)] # 0 /\ fat[K(n)] # 0
  BY SkipAllocated DEF StartsChain
<1> HIDE DEF H, K
<1>4. 0 \in S
  <2> DEFINE M == {m \in Nat : h # K(m)}
  <2>1. 0 \in M
    BY <1>2
  <2>2. \A m \in M : m + 1 \in M
    BY <1>2 DEF StartsChain
  <2>3. M = Nat
    BY <2>1, <2>2, NatSetInduction
  <2>4. QED
    BY <1>2, <2>3
<1>5. ASSUME NEW n \in S
      PROVE  n + 1 \in S
  <2>1. CASE fat[H(n)] = FAT_EOC
    BY <1>2, <2>1
  <2>2. CASE fat[H(n)] # FAT_EOC
    <3> DEFINE M == {m \in Nat : H(n + 1) # K(m)}
    <3>1. H(n + 1) = fat[H(n)] /\ HasNext(fat, H(n)) /\ H(n) \in Blocks
      BY <1>2, <1>3, <2>2 DEF HasNext
    <3>2. 0 \in M
      BY <1>2, <3>1 DEF StartsChain
    <3>3. ASSUME NEW m \in M
          PROVE  m + 1 \in M
      <4>1. CASE fat[K(m)] = FAT_EOC
        BY <1>2, <3>3, <4>1
      <4>2. CASE fat[K(m)] # FAT_EOC
        BY <1>2, <1>5, <3>1, <4>2 DEF WellLinked, LinksAreInjective
      <4>3. QED
        BY <4>1, <4>2
    <3>4. M = Nat
      BY <3>2, <3>3, NatSetInduction
    <3>5. QED
      BY <3>4
  <2>3. QED
    BY <2>1, <2>2
<1>6. S = Nat
  BY <1>4, <1>5, NatSetInduction
<1>7. \A n, m \in Blocks : H(n) # K(m)
  BY <1>6, Sizes
<1>8. QED
  BY <1>7 DEF ChainOf, H, K

\* A chain comes to an end within as many hops as there are blocks: until then it meets
\* another block at each, and never block 0.
LEMMA ChainEnds ==
  ASSUME NEW fat \in FatType, WellLinked(fat), NEW h, StartsChain(fat, h)
  PROVE  \E b \in ChainOf(fat, h) : fat[b] = FAT_EOC
<1> DEFINE H(n) == skip_blocks(fat, h, n)
<1> SUFFICES ASSUME \A n \in Blocks : fat[H(n)] # FAT_EOC
             PROVE  FALSE
  BY DEF ChainOf
<1>1. h \in Blocks \ {0} /\ fat[h] # 0
  BY DEF StartsChain
<1>2. /\ H(0) = h
      /\ \A n \in Nat : H(n) \in Blocks \ {0} /\ fat[H(n)] # 0
      /\ \A n \in Blocks : H(n + 1) = fat[H(n)] /\ HasNext(fat, H(n))
  <2>1. \A n \in Nat : H(n) \in Blocks \ {0} /\ fat[H(n)] # 0
    BY <1>1, SkipAllocated
  <2>2. H(0) = h /\ \A n \in Blocks : H(n + 1) = fat[H(n)]
    BY <1>1, SkipStep, Sizes
  <2>3. QED
    BY <2>1, <2>2, Sizes DEF HasNext
<1> HIDE DEF H
<1>3. \A n \in Nat : n + 1 \in Blocks => n \in Blocks
  BY Sizes DEF Blocks
<1> DEFINE S == {m \in Nat : m \in Blocks => \A n \in Blocks : m < n => H(m) # H(n)}
<1>4. 0 \in S
  <2>1. ASSUME NEW n \in Blocks, 0 < n
        PROVE  H(0) # H(n)
    <3>1. n - 1 \in Blocks /\ n = (n - 1) + 1
      BY <2>1, Sizes DEF Blocks
    <3>2. H(n) = fat[H(n - 1)] /\ H(n - 1) \in Blocks
      BY <1>2, <3>1, Sizes
    <3>3. QED
      BY <1>2, <3>2 DEF StartsChain
  <2>2. QED
    BY <2>1
<1>5. ASSUME NEW m \in S
      PROVE  m + 1 \in S
  <2>1. ASSUME m + 1 \in Blocks, NEW n \in Blocks, m + 1 < n
        PROVE  H(m + 1) # H(n)
    <3>1. m \in Blocks /\ n - 1 \in Blocks /\ n = (n - 1) + 1 /\ m < n - 1
      BY <1>3, <2>1, Sizes DEF Blocks
    <3>2. /\ H(m + 1) = fat[H(m)] /\ HasNext(fat, H(m)) /\ H(m) \in Blocks
          /\ H(n) = fat[H(n - 1)] /\ H(n - 1) \in Blocks
      BY <1>2, <3>1, Sizes
    <3>3. H(m) # H(n - 1)
      BY <1>5, <3>1
    <3>4. QED
      BY <3>2, <3>3 DEF WellLinked, LinksAreInjective
  <2>2. QED
    BY <2>1
<1>6. S = Nat
  BY <1>4, <1>5, NatSetInduction
<1> DEFINE f == [n \in Blocks |-> H(n)]
<1>7. f \in [Blocks -> Blocks \ {0}]
  BY <1>2, Sizes
<1>8. \A m, n \in Blocks : m # n => f[m] # f[n]
  <2>1. \A m, n \in Blocks : m < n => H(m) # H(n)
    BY <1>6, Sizes
  <2>2. \A m, n \in Blocks : m # n => m < n \/ n < m
    BY Sizes
  <2>3. QED
    BY <2>1, <2>2
<1>9. /\ IsFiniteSet(Blocks) /\ IsFiniteSet(Blocks \ {0})
      /\ Cardinality(Blocks \ {0}) < Cardinality(Blocks)
  <2>1. IsFiniteSet(Blocks) /\ Cardinality(Blocks) \in Nat
    BY Sizes, FS_Interval, FS_CardinalityType DEF Blocks
  <2>2. 0 \in Blocks
    BY Sizes
  <2>3. IsFiniteSet(Blocks \ {0}) /\ Cardinality(Blocks \ {0}) = Cardinality(Blocks) - 1
    BY <2>1, <2>2, FS_RemoveElement
  <2>4. QED
    BY <2>1, <2>3
<1> HIDE DEF f
<1>10. \E m, n \in Blocks : m # n /\ f[m] = f[n]
  BY <1>7, <1>9, FS_PigeonHole
<1>11. QED
  BY <1>8, <1>10

\* The blocks of a chain are closed under links: no walk from one of them, however long,
\* leaves the chain.
LEMMA ChainClosed ==
  ASSUME NEW fat \in FatType, WellLinked(fat), NEW h, StartsChain(fat, h),
         NEW b \in ChainOf(fat, h)
  PROVE  /\ b \in Blocks \ {0} /\ fat[b] # 0
         /\ fat[b] # FAT_EOC => fat[b] \in ChainOf(fat, h)
<1> DEFINE H(n) == skip_blocks(fat, h, n)
<1>1. h \in Blocks \ {0} /\ fat[h] # 0
  BY DEF StartsChain
<1>2. \A n \in Nat : /\ H(n) \in Blocks \ {0} /\ fat[H(n)] # 0
                     /\ H(n + 1) = IF fat[H(n)] = FAT_EOC THEN H(n) ELSE fat[H(n)]
  BY <1>1, SkipStep, SkipAllocated
<1>3. PICK n \in Blocks : b = H(n)
  BY DEF ChainOf
<1>4. PICK e \in Blocks : fat[H(e)] = FAT_EOC
  BY ChainEnds DEF ChainOf
<1>5. \A m \in Blocks : H(m) \in ChainOf(fat, h)
  BY DEF ChainOf
<1> HIDE DEF H
\* From the end on the walk stays where it is.
<1>6. \A k \in Nat : H(e + k) = H(e)
  <2> DEFINE S == {k \in Nat : H(e + k) = H(e)}
  <2>1. 0 \in S
    BY Sizes
  <2>2. ASSUME NEW k \in S
        PROVE  k + 1 \in S
    <3>1. e + k \in Nat /\ e + (k + 1) = (e + k) + 1
      BY Sizes
    <3>2. QED
      BY <1>2, <1>4, <2>2, <3>1
  <2>3. S = Nat
    BY <2>1, <2>2, NatSetInduction
  <2>4. QED
    BY <2>3
<1>7. ASSUME fat[b] # FAT_EOC
      PROVE  fat[b] \in ChainOf(fat, h)
  <2>1. fat[b] = H(n + 1) /\ n \in Nat /\ e \in Nat
    BY <1>2, <1>3, <1>7, Sizes
  <2>2. n < e
    <3>1. CASE n >= e
      <4>1. n - e \in Nat /\ n = e + (n - e)
        BY <2>1, <3>1
      <4>2. H(n) = H(e)
        BY <1>6, <4>1
      <4>3. QED
        BY <1>3, <1>4, <1>7, <4>2
    <3>2. QED
      BY <2>1, <3>1
  <2>3. n + 1 \in Blocks
    BY <2>1, <2>2, Sizes DEF Blocks
  <2>4. QED
    BY <1>5, <2>1, <2>3
<1>8. QED
  BY <1>2, <1>3, <1>7, Sizes

-----------------------------------------------------------------------------
(* What allocation does to the rest of the volume.                         *)

\* From fat and blocks to new and filled, no block was touched but free ones, and links
\* are as they were, or cut, or lead to blocks that were free.
Grown(fat, blocks, new, filled) ==
  \A b \in Blocks :
    /\ filled[b] # blocks[b] => fat[b] = 0
    /\ new[b] = 0 => fat[b] = 0
    /\ \/ new[b] = fat[b]
       \/ new[b] = FAT_EOC
       \/ new[b] \in Blocks /\ fat[new[b]] = 0

LEMMA GrownTwice ==
  ASSUME NEW fat, NEW blocks, NEW mid, NEW midway, NEW new, NEW filled,
         Grown(fat, blocks, mid, midway), Grown(mid, midway, new, filled)
  PROVE  Grown(fat, blocks, new, filled)
BY DEF Grown

\* One turn of the allocation loop touches no block but the free one it takes.
LEMMA AllocateOneGrows ==
  ASSUME NEW s \in AllocState, s.fat[0] # 0
  PROVE  /\ AllocateOne[s] \in AllocState
         /\ Grown(s.fat, s.data, AllocateOne[s].fat, AllocateOne[s].data)
<1>1. s.fat \in FatType /\ s.data \in DataType /\ s.end_block \in Blocks /\ s.new_blocks \in Nat
  BY DEF AllocState
<1>2. CASE DiskFull(s.fat)
  BY <1>2 DEF AllocateOne, Grown
<1>3. CASE ~DiskFull(s.fat)
  <2> DEFINE b == first_block_available(s.fat)
             linked == set_fat_entry(s.fat, s.end_block, b)
             new == set_fat_entry(linked, b, FAT_EOC)
             filled == clear_block(s.data, b)
  <2>1. b \in Blocks \ {0} /\ s.fat[b] = 0 /\ b \in Links /\ FAT_EOC \in Links
    BY <1>3, FirstAvailable DEF Links
  <2>2. AllocateOne[s] = [fat |-> new, data |-> filled, end_block |-> b,
                          new_blocks |-> s.new_blocks + 1]
    BY <1>3 DEF AllocateOne
  <2> HIDE DEF b
  <2>3. linked \in FatType
        /\ \A c \in Blocks : linked[c] = IF c = s.end_block THEN b ELSE s.fat[c]
    <3> DEFINE f == s.fat
               a == s.end_block
    <3>1. f \in FatType /\ a \in Blocks
      BY <1>1
    <3> HIDE DEF f, a
    <3>2. /\ set_fat_entry(f, a, b) \in FatType
          /\ \A c \in Blocks : set_fat_entry(f, a, b)[c] = IF c = a THEN b ELSE f[c]
      BY <2>1, <3>1, SetEntryType
    <3>3. QED
      BY <3>2 DEF f, a
  <2> HIDE DEF linked
  <2>4. new \in FatType /\ \A c \in Blocks : new[c] = IF c = b THEN FAT_EOC ELSE linked[c]
    BY <2>1, <2>3, SetEntryType
  <2>5. filled \in DataType /\ \A c \in Blocks : c # b => filled[c] = s.data[c]
    BY <1>1, <2>1, ClearType DEF clear_block, DataType
  <2> HIDE DEF new, filled
  <2>6. Grown(s.fat, s.data, new, filled)
    <3> SUFFICES ASSUME NEW c \in Blocks
                 PROVE  /\ filled[c] # s.data[c] => s.fat[c] = 0
                        /\ new[c] = 0 => s.fat[c] = 0
                        /\ \/ new[c] = s.fat[c]
                           \/ new[c] = FAT_EOC
                           \/ new[c] \in Blocks /\ s.fat[new[c]] = 0
      BY DEF Grown
    <3>1. new[c] = IF c = b THEN FAT_EOC ELSE IF c = s.end_block THEN b ELSE s.fat[c]
      BY <2>3, <2>4
    <3>2. FAT_EOC # 0
      BY Sizes
    <3>3. QED
      BY <2>1, <2>5, <3>1, <3>2
  <2>7. QED
    BY <1>1, <2>1, <2>2, <2>4, <2>5, <2>6 DEF AllocState
<1>4. QED
  BY <1>2, <1>3

LEMMA AllocateGrows ==
  ASSUME NEW fat \in FatType, WellLinked(fat), NEW data \in DataType,
         NEW first \in Blocks \ {0}, fat[first] # 0, NEW needed_blocks \in Nat,
         NEW a, a = allocate_more_blocks(fat, data, first, needed_blocks)
  PROVE  Grown(fat, data, a.fat, a.data)
<1> DEFINE end_block == skip_blocks(fat, first, total_file_blocks(fat, first) - 1)
           s0 == [fat |-> fat, data |-> data, end_block |-> end_block, new_blocks |-> 0]
           T == {s \in AllocState : Grown(fat, data, s.fat, s.data)}
<1>1. s0 \in T
  <2>1. total_file_blocks(fat, first) - 1 \in Nat
    BY TotalType
  <2>2. end_block \in Blocks
    BY <2>1, SkipAllocated
  <2>3. QED
    BY <2>2 DEF AllocState, Grown
<1>2. ASSUME NEW s \in T
      PROVE  AllocateOne[s] \in T
  <2>1. s.fat[0] # 0
    BY Sizes DEF Grown, WellLinked, LinksLeadToAllocated, FAT_EOC
  <2>2. /\ AllocateOne[s] \in AllocState
        /\ Grown(s.fat, s.data, AllocateOne[s].fat, AllocateOne[s].data)
    BY <2>1, AllocateOneGrows
  <2>3. QED
    BY <2>2, GrownTwice
<1> HIDE DEF T, s0
<1>3. \A n \in Nat : Iterate(AllocateOne, s0)[n] \in T
  BY <1>1, <1>2, IterateInvariant
<1>4. QED
  BY <1>3 DEF allocate_more_blocks, s0, T

\* A walk does not leave a set of blocks that the links do not lead out of.
LEMMA SkipInside ==
  ASSUME NEW fat \in FatType, NEW W \in SUBSET Blocks,
         \A b \in W : fat[b] # FAT_EOC => fat[b] \in W,
         NEW b \in W, NEW n \in Nat
  PROVE  skip_blocks(fat, b, n) \in W
<1> DEFINE S == {m \in Nat : skip_blocks(fat, b, m) \in W}
<1>1. 0 \in S
  BY SkipStep
<1>2. ASSUME NEW m \in S
      PROVE  m + 1 \in S
  <2>1. m \in Nat /\ skip_blocks(fat, b, m) \in W
    OBVIOUS
  <2>2. skip_blocks(fat, b, m + 1) =
          IF fat[skip_blocks(fat, b, m)] = FAT_EOC THEN skip_blocks(fat, b, m)
          ELSE fat[skip_blocks(fat, b, m)]
    BY <2>1, SkipStep
  <2>3. QED
    BY <2>1, <2>2
<1>3. S = Nat
  BY <1>1, <1>2, NatSetInduction
<1>4. QED
  BY <1>3

\* After growth, a walk from where a chain started, or from a block that was free, meets
\* the blocks of that chain and blocks that were free.
LEMMA GrownChain ==
  ASSUME NEW fat \in FatType, WellLinked(fat), NEW new \in FatType, WellLinked(new),
         NEW blocks, NEW filled, Grown(fat, blocks, new, filled),
         NEW C \in SUBSET Blocks, \A b \in C : fat[b] # FAT_EOC => fat[b] \in C,
         NEW W, W = {b \in Blocks : new[b] # 0 /\ (fat[b] = 0 \/ b \in C)}
  PROVE  \A b \in W : new[b] # FAT_EOC => new[b] \in W
<1> SUFFICES ASSUME NEW b \in W, new[b] # FAT_EOC
             PROVE  new[b] \in W
  OBVIOUS
<1>1. new[b] \in Blocks /\ new[new[b]] # 0
  BY EntryType DEF WellLinked, LinksLeadToAllocated, HasNext
<1>2. CASE new[b] = fat[b]
  BY <1>1, <1>2
<1>3. CASE fat[new[b]] = 0
  BY <1>1, <1>3
<1>4. QED
  BY <1>2, <1>3 DEF Grown

-----------------------------------------------------------------------------
(* What allocation and erasure do to every block, and not only to the shape *)
(* of the chains: erasing a file frees its chain and nothing else, and what *)
(* is newly taken is in the chain that it was taken for.                    *)

-----------------------------------------------------------------------------
(* Chains as sets.                                                         *)

\* A chain has its head, and every block a walk from there gets to, however long.
LEMMA ChainReached ==
  ASSUME NEW fat \in FatType, WellLinked(fat), NEW h, StartsChain(fat, h)
  PROVE  h \in ChainOf(fat, h) /\ \A n \in Nat : skip_blocks(fat, h, n) \in ChainOf(fat, h)
<1> DEFINE W == ChainOf(fat, h)
<1>1. h \in Blocks
  BY DEF StartsChain
<1>2. h \in W
  BY <1>1, SkipStep, Sizes DEF ChainOf
<1>3. W \in SUBSET Blocks /\ \A b \in W : fat[b] # FAT_EOC => fat[b] \in W
  BY ChainClosed
<1> HIDE DEF W
<1>4. \A n \in Nat : skip_blocks(fat, h, n) \in W
  BY <1>2, <1>3, SkipInside
<1>5. QED
  BY <1>2, <1>4 DEF W

\* A chain whose links stay is part of the chain from the same block afterwards.
LEMMA ChainKept ==
  ASSUME NEW fat \in FatType, WellLinked(fat), NEW new \in FatType, WellLinked(new),
         NEW h, StartsChain(fat, h), StartsChain(new, h),
         \A b \in ChainOf(fat, h) : fat[b] # FAT_EOC => new[b] = fat[b]
  PROVE  ChainOf(fat, h) \subseteq ChainOf(new, h)
<1> DEFINE W == ChainOf(fat, h) \cap ChainOf(new, h)
<1>1. h \in W
  BY ChainReached
<1>2. W \in SUBSET Blocks /\ \A b \in W : fat[b] # FAT_EOC => fat[b] \in W
  BY ChainClosed
<1> HIDE DEF W
<1>3. \A n \in Nat : skip_blocks(fat, h, n) \in W
  BY <1>1, <1>2, SkipInside
<1>4. QED
  BY <1>3, Sizes DEF ChainOf, W

-----------------------------------------------------------------------------
(* Erasure.                                                                *)

\* What one turn of the erasing loop keeps of the chain C of h0 in fat: nothing but
\* blocks of C is freed, and a block of C that is still taken is the one to erase next or
\* is linked to by another that is still taken.
Erasing(fat, C, s) ==
  /\ s.block \in C
  /\ WellLinked(s.fat)
  /\ ~s.done => StartsChain(s.fat, s.block)
  /\ \A b \in Blocks : s.fat[b] = fat[b] \/ (b \in C /\ s.fat[b] = 0)
  /\ \A b \in C : s.fat[b] # 0 => \/ ~s.done /\ b = s.block
                                  \/ \E c \in C : fat[c] = b /\ s.fat[c] # 0

LEMMA EraseOneTurn ==
  ASSUME NEW fat \in FatType, WellLinked(fat), NEW h0, StartsChain(fat, h0),
         NEW C, C = ChainOf(fat, h0),
         NEW s \in EraseState, Erasing(fat, C, s), ~s.done
  PROVE  /\ EraseOne[s] \in EraseState /\ Erasing(fat, C, EraseOne[s])
         /\ EraseOne[s].done <=> fat[s.block] = FAT_EOC
         /\ fat[s.block] # FAT_EOC => EraseOne[s].block = fat[s.block]
<1> DEFINE table == s.fat
           b0 == s.block
           next == table[b0]
           new == set_fat_entry(table, b0, 0)
           t == EraseOne[s]
<1>1. /\ table \in FatType /\ b0 \in Blocks /\ b0 \in C /\ WellLinked(table)
      /\ StartsChain(table, b0)
      /\ C \subseteq Blocks /\ \A b \in C : fat[b] # FAT_EOC => fat[b] \in C
  BY ChainClosed DEF EraseState, Erasing
<1>2. t = [fat |-> new, block |-> IF next = FAT_EOC THEN b0 ELSE next, done |-> next = FAT_EOC]
  BY DEF EraseOne, get_fat_entry
<1>3. next = fat[b0]
  BY <1>1 DEF Erasing, StartsChain
<1>4. \A b \in Blocks : table[b] = fat[b] \/ (b \in C /\ table[b] = 0)
  BY DEF Erasing
<1>5. \A b \in C : table[b] # 0 => b = b0 \/ \E c \in C : fat[c] = b /\ table[c] # 0
  BY DEF Erasing
<1> HIDE DEF table, b0
<1>6. new \in FatType /\ \A c \in Blocks : new[c] = IF c = b0 THEN 0 ELSE table[c]
  BY <1>1, SetEntryType, Sizes DEF Links
<1> HIDE DEF new, next, t
<1>7. WellLinked(new) /\ (next # FAT_EOC => StartsChain(new, next))
  BY <1>1, <1>6, UnlinkFirst DEF next
<1>8. t \in EraseState
  <2>1. next # FAT_EOC => next \in Blocks
    BY <1>1, EntryType DEF next
  <2>2. QED
    BY <1>1, <1>2, <1>6, <2>1 DEF EraseState
<1>9. \A b \in Blocks : new[b] = fat[b] \/ (b \in C /\ new[b] = 0)
  BY <1>1, <1>4, <1>6
<1>10. ASSUME NEW b \in C, new[b] # 0
       PROVE  \/ next # FAT_EOC /\ b = next
              \/ \E c \in C : fat[c] = b /\ new[c] # 0
  <2>1. b # b0 /\ table[b] # 0 /\ b \in Blocks
    BY <1>1, <1>6, <1>10
  <2>2. PICK c \in C : fat[c] = b /\ table[c] # 0
    BY <1>5, <2>1
  <2>3. CASE c = b0
    BY <1>3, <2>1, <2>2, <2>3, Sizes
  <2>4. CASE c # b0
    BY <1>1, <1>6, <2>2, <2>4
  <2>5. QED
    BY <2>3, <2>4
<1>11. Erasing(fat, C, t)
  BY <1>1, <1>2, <1>3, <1>7, <1>9, <1>10 DEF Erasing
<1>12. (t.done <=> next = FAT_EOC) /\ (next # FAT_EOC => t.block = next)
  BY <1>2
<1>13. QED
  BY <1>3, <1>8, <1>11, <1>12 DEF t, b0

\* The erasing loop goes down the chain and has freed all of it when it ends.
LEMMA EraseLoop ==
  ASSUME NEW fat \in FatType, WellLinked(fat), NEW h0, StartsChain(fat, h0),
         NEW s0, s0 = [fat |-> fat, block |-> h0, done |-> FALSE]
  PROVE  /\ \A n \in Nat : /\ Iterate(EraseOne, s0)[n] \in EraseState
                           /\ Erasing(fat, ChainOf(fat, h0), Iterate(EraseOne, s0)[n])
         /\ Iterate(EraseOne, s0)[DataBlocks].done
<1> DEFINE C == ChainOf(fat, h0)
           H(n) == skip_blocks(fat, h0, n)
           x(n) == Iterate(EraseOne, s0)[n]
           T == {s \in EraseState : Erasing(fat, C, s)}
<1>0. \A s \in EraseState : s.done => EraseOne[s] = s
  BY DEF EraseOne
<1>1. h0 \in Blocks /\ h0 # FAT_EOC /\ fat[h0] # 0
  BY Sizes DEF StartsChain
<1>2. /\ H(0) = h0
      /\ \A n \in Nat : H(n) \in C
                        /\ H(n + 1) = IF fat[H(n)] = FAT_EOC THEN H(n) ELSE fat[H(n)]
  BY <1>1, SkipStep, ChainReached
<1>3. C \subseteq Blocks /\ \A b \in C : fat[b] # 0
  BY ChainClosed
<1>4. PICK e \in Blocks : fat[H(e)] = FAT_EOC
  BY ChainEnds DEF ChainOf
<1>5. \A b \in C : \E n \in Nat : b = H(n)
  BY Sizes DEF ChainOf
<1>6. x(0) = s0 /\ \A n \in Nat : x(n + 1) = EraseOne[x(n)]
  BY IterateDef
<1> HIDE DEF C, H, x
<1>7. x(0) \in T
  <2>1. \A b \in C : b = h0 \/ \E c \in C : fat[c] = b /\ fat[c] # 0
    <3> DEFINE S == {n \in Nat : H(n) = h0 \/ \E c \in C : fat[c] = H(n) /\ fat[c] # 0}
    <3>1. 0 \in S
      BY <1>2
    <3>2. \A n \in S : n + 1 \in S
      BY <1>2, <1>3
    <3>3. S = Nat
      BY <3>1, <3>2, NatSetInduction
    <3>4. QED
      BY <1>5, <3>3
  <2>2. h0 \in C
    BY <1>2
  <2>3. s0 \in EraseState /\ s0.fat = fat /\ s0.block = h0 /\ s0.done = FALSE
    BY <1>1 DEF EraseState
  <2>4. Erasing(fat, C, s0)
    BY <2>1, <2>2, <2>3 DEF Erasing
  <2>5. QED
    BY <1>6, <2>3, <2>4
<1>8. ASSUME NEW s \in T
      PROVE  EraseOne[s] \in T
  <2>1. CASE s.done
    BY <1>0, <2>1
  <2>2. CASE ~s.done
    BY <2>2, EraseOneTurn DEF C
  <2>3. QED
    BY <2>1, <2>2
<1>9. \A n \in Nat : x(n) \in T
  <2> DEFINE S == {n \in Nat : x(n) \in T}
  <2> HIDE DEF T
  <2>1. 0 \in S
    BY <1>7
  <2>2. \A n \in S : n + 1 \in S
    BY <1>6, <1>8
  <2>3. S = Nat
    BY <2>1, <2>2, NatSetInduction
  <2>4. QED
    BY <2>3
<1>10. \A n \in Nat : x(n) \in EraseState /\ Erasing(fat, C, x(n))
  BY <1>9
<1> HIDE DEF T
\* The loop goes down the chain, hop by hop, and is done where the chain ends.
<1>11. \A n \in Nat : x(n).done \/ x(n).block = H(n)
  <2> DEFINE S == {n \in Nat : x(n).done \/ x(n).block = H(n)}
  <2>1. 0 \in S
    BY <1>2, <1>6
  <2>2. ASSUME NEW n \in S
        PROVE  n + 1 \in S
    <3>1. CASE x(n).done
      BY <1>0, <1>6, <1>10, <3>1
    <3>2. CASE ~x(n).done
      <4>1. /\ x(n + 1).done <=> fat[H(n)] = FAT_EOC
            /\ fat[H(n)] # FAT_EOC => x(n + 1).block = fat[H(n)]
        BY <1>6, <1>10, <2>2, <3>2, EraseOneTurn DEF C
      <4>2. QED
        BY <1>2, <4>1
    <3>3. QED
      BY <3>1, <3>2
  <2>3. S = Nat
    BY <2>1, <2>2, NatSetInduction
  <2>4. QED
    BY <2>3
<1>12. x(DataBlocks).done
  <2>1. e \in Nat /\ DataBlocks - (e + 1) \in Nat /\ DataBlocks = e + 1 + (DataBlocks - (e + 1))
    BY Sizes DEF Blocks
  <2> DEFINE S == {k \in Nat : x(e + 1 + k).done}
  <2>2. 0 \in S
    <3>1. CASE x(e).done
      BY <1>0, <1>6, <1>10, <2>1, <3>1
    <3>2. CASE ~x(e).done
      BY <1>4, <1>6, <1>10, <1>11, <2>1, <3>2, EraseOneTurn DEF C
    <3>3. QED
      BY <3>1, <3>2
  <2>3. ASSUME NEW k \in S
        PROVE  k + 1 \in S
    <3>1. e + 1 + k \in Nat /\ e + 1 + (k + 1) = (e + 1 + k) + 1
      BY <2>1
    <3>2. QED
      BY <1>0, <1>6, <1>10, <2>3, <3>1
  <2>4. S = Nat
    BY <2>2, <2>3, NatSetInduction
  <2>5. QED
    BY <2>1, <2>4
<1>13. QED
  BY <1>10, <1>12 DEF C, x

\* erase_file frees the chain of the file, all of it and nothing else.
LEMMA EraseExact ==
  ASSUME NEW fat \in FatType, WellLinked(fat), NEW h0, StartsChain(fat, h0),
         NEW new, new = erase_file(fat, h0)
  PROVE  \A b \in Blocks : new[b] = IF b \in ChainOf(fat, h0) THEN 0 ELSE fat[b]
<1> DEFINE C == ChainOf(fat, h0)
           H(n) == skip_blocks(fat, h0, n)
           s0 == [fat |-> fat, block |-> h0, done |-> FALSE]
           x(n) == Iterate(EraseOne, s0)[n]
<1>1. h0 \in Blocks /\ h0 # FAT_EOC /\ fat[h0] # 0
  BY Sizes DEF StartsChain
<1>2. /\ H(0) = h0
      /\ \A n \in Nat : H(n) \in C
                        /\ H(n + 1) = IF fat[H(n)] = FAT_EOC THEN H(n) ELSE fat[H(n)]
  BY <1>1, SkipStep, ChainReached
<1>3. C \subseteq Blocks /\ \A b \in C : fat[b] # 0
  BY ChainClosed
<1>4. \A b \in C : \E n \in Nat : b = H(n)
  BY Sizes DEF ChainOf
<1>5. new = x(DataBlocks).fat
  BY <1>1 DEF erase_file
<1>6. \A n \in Nat : x(n) \in EraseState /\ Erasing(fat, C, x(n))
  BY EraseLoop
<1>7. x(DataBlocks).done
  BY EraseLoop
<1> HIDE DEF C, H, x
<1>8. PICK s : s = x(DataBlocks)
  OBVIOUS
<1>9. /\ \A b \in Blocks : s.fat[b] = fat[b] \/ (b \in C /\ s.fat[b] = 0)
      /\ \A b \in C : s.fat[b] # 0 => \E c \in C : fat[c] = b /\ s.fat[c] # 0
  <2>1. Erasing(fat, C, s) /\ s.done
    BY <1>6, <1>7, <1>8, Sizes
  <2>2. QED
    BY <2>1 DEF Erasing
<1>10. \A n \in Nat : s.fat[H(n)] = 0
  <2> DEFINE S == {n \in Nat : s.fat[H(n)] = 0}
  <2>1. 0 \in S
    BY <1>2, <1>3, <1>9 DEF StartsChain
  <2>2. ASSUME NEW n \in S
        PROVE  n + 1 \in S
    <3>1. CASE fat[H(n)] = FAT_EOC
      BY <1>2, <2>2, <3>1
    <3>2. CASE fat[H(n)] # FAT_EOC
      <4>1. H(n + 1) = fat[H(n)] /\ H(n) \in Blocks /\ HasNext(fat, H(n)) /\ H(n + 1) \in C
        BY <1>2, <1>3, <3>2 DEF HasNext
      <4>2. \A c \in C : fat[c] = H(n + 1) => c = H(n)
        BY <1>3, <4>1 DEF WellLinked, LinksAreInjective
      <4>3. QED
        BY <1>9, <2>2, <4>1, <4>2
    <3>3. QED
      BY <3>1, <3>2
  <2>3. S = Nat
    BY <2>1, <2>2, NatSetInduction
  <2>4. QED
    BY <2>3
<1>11. QED
  BY <1>4, <1>5, <1>8, <1>9, <1>10 DEF C

-----------------------------------------------------------------------------
(* Allocation.                                                             *)

\* The chain of h has n blocks: the walk comes to its end after n - 1 hops, and not before.
HasLength(fat, h, n) ==
  /\ n \in Nat \ {0}
  /\ fat[skip_blocks(fat, h, n - 1)] = FAT_EOC
  /\ \A m \in Nat : m < n - 1 => fat[skip_blocks(fat, h, m)] # FAT_EOC

LEMMA LengthUnique ==
  ASSUME NEW fat, NEW h, NEW n, NEW m, HasLength(fat, h, n), HasLength(fat, h, m)
  PROVE  n = m
<1>1. /\ n \in Nat /\ m \in Nat /\ n - 1 \in Nat /\ m - 1 \in Nat
  BY DEF HasLength
<1>2. ~(n - 1 < m - 1) /\ ~(m - 1 < n - 1)
  BY <1>1 DEF HasLength
<1>3. QED
  BY <1>1, <1>2

\* total_file_blocks counts the blocks of a chain.
LEMMA TotalIsLength ==
  ASSUME NEW fat \in FatType, WellLinked(fat), NEW h, StartsChain(fat, h)
  PROVE  HasLength(fat, h, total_file_blocks(fat, h))
<1> DEFINE H(n) == skip_blocks(fat, h, n)
           s0 == [block |-> h, count |-> 1]
           x(n) == Iterate(CountTurn(fat), s0)[n]
           Counted(s) == /\ s \in CountState /\ s.count # 0 /\ s.block = H(s.count - 1)
                         /\ \A m \in Nat : m < s.count - 1 => fat[H(m)] # FAT_EOC
<1>1. h \in Blocks /\ h # FAT_EOC
  BY Sizes DEF StartsChain
<1>2. /\ H(0) = h
      /\ \A n \in Nat : H(n) \in Blocks
                        /\ H(n + 1) = IF fat[H(n)] = FAT_EOC THEN H(n) ELSE fat[H(n)]
  BY <1>1, SkipStep
<1>3. PICK e \in Blocks : fat[H(e)] = FAT_EOC
  BY ChainEnds DEF ChainOf
<1>4. total_file_blocks(fat, h) = x(DataBlocks).count
  BY <1>1 DEF total_file_blocks
<1>5. x(0) = s0 /\ \A n \in Nat : x(n + 1) = CountTurn(fat)[x(n)]
  BY IterateDef
<1> HIDE DEF H, x
<1>6. ASSUME NEW s, Counted(s)
      PROVE  /\ Counted(CountTurn(fat)[s])
             /\ fat[s.block] = FAT_EOC => CountTurn(fat)[s] = s
             /\ fat[s.block] # FAT_EOC => CountTurn(fat)[s].count = s.count + 1
  <2>1. s.block \in Blocks /\ s.count \in Nat /\ s.count - 1 \in Nat /\ s.block = H(s.count - 1)
    BY <1>6 DEF CountState
  <2>2. CASE fat[s.block] = FAT_EOC
    BY <1>6, <2>2 DEF CountTurn, get_fat_entry
  <2>3. CASE fat[s.block] # FAT_EOC
    <3>1. CountTurn(fat)[s] = [block |-> fat[s.block], count |-> s.count + 1]
      BY <1>6, <2>3 DEF CountTurn, get_fat_entry
    <3>2. H((s.count - 1) + 1) = fat[s.block] /\ (s.count - 1) + 1 = (s.count + 1) - 1
      BY <1>2, <2>1, <2>3
    <3>3. fat[s.block] \in Blocks
      BY <2>1, <2>3, EntryType
    <3>4. \A m \in Nat : m < (s.count + 1) - 1 => m < s.count - 1 \/ m = s.count - 1
      BY <2>1
    <3>5. \A m \in Nat : m < (s.count + 1) - 1 => fat[H(m)] # FAT_EOC
      BY <1>6, <2>1, <2>3, <3>4
    <3>6. QED
      BY <2>1, <2>3, <3>1, <3>2, <3>3, <3>5 DEF CountState
  <2>4. QED
    BY <2>2, <2>3
<1>7. \A n \in Nat : Counted(x(n)) /\ (fat[x(n).block] = FAT_EOC \/ x(n).count = n + 1)
  <2> DEFINE S == {n \in Nat : Counted(x(n)) /\ (fat[x(n).block] = FAT_EOC \/ x(n).count = n + 1)}
  <2>1. 0 \in S
    BY <1>1, <1>2, <1>5 DEF CountState
  <2> HIDE DEF Counted
  <2>2. \A n \in S : n + 1 \in S
    BY <1>5, <1>6
  <2>3. S = Nat
    BY <2>1, <2>2, NatSetInduction
  <2>4. QED
    BY <2>3
<1>8. fat[x(DataBlocks).block] = FAT_EOC
  <2>1. e \in Nat /\ DataBlocks - e \in Nat /\ DataBlocks = e + (DataBlocks - e)
    BY Sizes DEF Blocks
  <2> DEFINE S == {k \in Nat : fat[x(e + k).block] = FAT_EOC}
  <2>2. 0 \in S
    <3>1. Counted(x(e)) /\ (fat[x(e).block] = FAT_EOC \/ x(e).count = e + 1)
      BY <1>7, <2>1
    <3>2. e + 0 = e /\ (e + 1) - 1 = e
      BY <2>1
    <3>3. QED
      BY <1>3, <3>1, <3>2
  <2>3. ASSUME NEW k \in S
        PROVE  k + 1 \in S
    <3>1. e + k \in Nat /\ e + (k + 1) = (e + k) + 1
      BY <2>1
    <3>2. CountTurn(fat)[x(e + k)] = x(e + k)
      BY <1>6, <1>7, <2>3, <3>1
    <3>3. QED
      BY <1>5, <2>3, <3>1, <3>2
  <2>4. S = Nat
    BY <2>2, <2>3, NatSetInduction
  <2>5. QED
    BY <2>1, <2>4
<1>9. Counted(x(DataBlocks))
  BY <1>7, Sizes
<1>10. x(DataBlocks).count \in Nat \ {0}
  BY <1>9 DEF CountState
<1>11. QED
  BY <1>4, <1>8, <1>9, <1>10 DEF HasLength, H

\* Walks along links that stay are as before.
LEMMA SkipKept ==
  ASSUME NEW fat \in FatType, NEW new \in FatType, NEW h \in Blocks, NEW k \in Nat,
         \A m \in Nat : m < k => new[skip_blocks(fat, h, m)] = fat[skip_blocks(fat, h, m)]
  PROVE  \A m \in Nat : m <= k => skip_blocks(new, h, m) = skip_blocks(fat, h, m)
<1> DEFINE S == {m \in Nat : m <= k => skip_blocks(new, h, m) = skip_blocks(fat, h, m)}
<1>1. 0 \in S
  BY SkipStep
<1>2. ASSUME NEW m \in S
      PROVE  m + 1 \in S
  <2>1. m \in Nat /\ m + 1 \in Nat
    OBVIOUS
  <2>2. ASSUME m + 1 <= k
        PROVE  skip_blocks(new, h, m + 1) = skip_blocks(fat, h, m + 1)
    <3>1. m < k /\ m <= k
      BY <2>1, <2>2
    <3>2. PICK c : c = skip_blocks(fat, h, m)
      OBVIOUS
    <3>3. skip_blocks(new, h, m) = c /\ new[c] = fat[c]
      BY <2>1, <3>1, <3>2
    <3>4. skip_blocks(new, h, m + 1) = IF new[c] = FAT_EOC THEN c ELSE new[c]
      BY <2>1, <3>3, SkipStep
    <3>5. skip_blocks(fat, h, m + 1) = IF fat[c] = FAT_EOC THEN c ELSE fat[c]
      BY <2>1, <3>2, SkipStep
    <3>6. QED
      BY <3>3, <3>4, <3>5
  <2>3. QED
    BY <2>1, <2>2
<1>3. S = Nat
  BY <1>1, <1>2, NatSetInduction
<1>4. QED
  BY <1>3

\* A walk from h goes as before, over as many blocks.
SameChain(fat, new, h) ==
  /\ \A m \in Nat : skip_blocks(new, h, m) = skip_blocks(fat, h, m)
  /\ total_file_blocks(new, h) = total_file_blocks(fat, h)

LEMMA ChainUnchanged ==
  ASSUME NEW fat \in FatType, WellLinked(fat), NEW new \in FatType, WellLinked(new),
         NEW h, StartsChain(fat, h), StartsChain(new, h),
         \A b \in ChainOf(fat, h) : new[b] = fat[b]
  PROVE  SameChain(fat, new, h)
<1>1. h \in Blocks /\ \A m \in Nat : new[skip_blocks(fat, h, m)] = fat[skip_blocks(fat, h, m)]
  BY ChainReached DEF StartsChain
<1>2. \A m \in Nat : skip_blocks(new, h, m) = skip_blocks(fat, h, m)
  <2>1. ASSUME NEW m \in Nat
        PROVE  skip_blocks(new, h, m) = skip_blocks(fat, h, m)
    BY <1>1, SkipKept
  <2>2. QED
    BY <2>1
<1>3. HasLength(fat, h, total_file_blocks(fat, h))
  BY TotalIsLength
<1>4. HasLength(new, h, total_file_blocks(fat, h))
  BY <1>1, <1>2, <1>3 DEF HasLength
<1>5. HasLength(new, h, total_file_blocks(new, h))
  BY TotalIsLength
<1>6. QED
  BY <1>2, <1>4, <1>5, LengthUnique DEF SameChain

\* A walk does not come to a block twice before the end of the chain: from there on it would
\* go round, and never get to the end.
LEMMA WalkDistinct ==
  ASSUME NEW fat \in FatType, NEW h \in Blocks, NEW n, HasLength(fat, h, n),
         NEW i \in Nat, NEW j \in Nat, i < j, j < n
  PROVE  skip_blocks(fat, h, i) # skip_blocks(fat, h, j)
<1> DEFINE H(m) == skip_blocks(fat, h, m)
           S == {m \in Nat : H(i + m) = H(j + m)}
<1>1. \A m \in Nat : H(m + 1) = IF fat[H(m)] = FAT_EOC THEN H(m) ELSE fat[H(m)]
  BY SkipStep
<1>2. n \in Nat /\ fat[H(n - 1)] = FAT_EOC /\ \A m \in Nat : m < n - 1 => fat[H(m)] # FAT_EOC
  BY DEF HasLength
<1> HIDE DEF H
<1>3. SUFFICES ASSUME H(i) = H(j)
               PROVE  FALSE
  BY DEF H
<1>4. 0 \in S
  BY <1>3
<1>5. ASSUME NEW m \in S
      PROVE  m + 1 \in S
  <2>1. PICK c, d : c = i + m /\ d = j + m
    OBVIOUS
  <2>2. c \in Nat /\ d \in Nat /\ H(c) = H(d) /\ i + (m + 1) = c + 1 /\ j + (m + 1) = d + 1
    BY <2>1
  <2>3. H(c + 1) = H(d + 1)
    BY <1>1, <2>2
  <2>4. QED
    BY <2>2, <2>3
<1>6. S = Nat
  BY <1>4, <1>5, NatSetInduction
<1>7. PICK m \in Nat : j + m = n - 1
  <2>1. (n - 1) - j \in Nat /\ j + ((n - 1) - j) = n - 1
    BY <1>2
  <2>2. QED
    BY <2>1
<1>8. H(i + m) = H(n - 1) /\ i + m \in Nat /\ i + m < n - 1
  <2>1. m \in S
    BY <1>6
  <2>2. H(i + m) = H(j + m)
    BY <2>1
  <2>3. i + m \in Nat /\ i + m < j + m
    OBVIOUS
  <2>4. QED
    BY <1>7, <2>2, <2>3
<1>9. QED
  BY <1>2, <1>8

\* One turn of the allocation loop: a free block goes behind end_block and is the new end.
LEMMA AllocateOneTakes ==
  ASSUME NEW s \in AllocState, ~DiskFull(s.fat), NEW t, t = AllocateOne[s]
  PROVE  \E b \in Blocks :
           /\ s.fat[b] = 0 /\ t \in AllocState
           /\ t.end_block = b /\ t.new_blocks = s.new_blocks + 1
           /\ \A c \in Blocks : t.fat[c] = IF c = b THEN FAT_EOC
                                           ELSE IF c = s.end_block THEN b ELSE s.fat[c]
<1> DEFINE old == s.fat
           a == s.end_block
           b == first_block_available(old)
           linked == set_fat_entry(old, a, b)
           new == set_fat_entry(linked, b, FAT_EOC)
<1>1. /\ b \in Blocks /\ old[b] = 0 /\ b \in Links /\ FAT_EOC \in Links
      /\ old \in FatType /\ s.data \in DataType /\ a \in Blocks /\ s.new_blocks \in Nat
  BY FirstAvailable DEF Links, AllocState
<1>2. t = [fat |-> new, data |-> clear_block(s.data, b), end_block |-> b,
           new_blocks |-> s.new_blocks + 1]
  BY DEF AllocateOne
<1>3. clear_block(s.data, b) \in DataType /\ s.new_blocks + 1 \in Nat
  BY <1>1, ClearType
<1> HIDE DEF old, a, b
<1>4. linked \in FatType /\ \A c \in Blocks : linked[c] = IF c = a THEN b ELSE old[c]
  BY <1>1, SetEntryType
<1> HIDE DEF linked
<1>5. new \in FatType /\ \A c \in Blocks : new[c] = IF c = b THEN FAT_EOC ELSE linked[c]
  BY <1>1, <1>4, SetEntryType
<1> HIDE DEF new
<1>6. \A c \in Blocks : new[c] = IF c = b THEN FAT_EOC ELSE IF c = a THEN b ELSE old[c]
  BY <1>4, <1>5
<1>7. /\ t \in AllocState /\ t.fat = new /\ t.end_block = b /\ t.new_blocks = s.new_blocks + 1
  BY <1>1, <1>2, <1>3, <1>5 DEF AllocState
<1>8. QED
  BY <1>1, <1>6, <1>7 DEF old, a

\* From fat on, links have stayed, new ends follow them, and what is newly taken is in the
\* chain of first.
Appended(fat, first, new) ==
  /\ WellLinked(new)
  /\ \A h \in Blocks : StartsChain(fat, h) => StartsChain(new, h)
  /\ \A b \in Blocks : HasNext(fat, b) => new[b] = fat[b]
  /\ \A b \in Blocks : new[b] # 0 => fat[b] # 0 \/ b \in ChainOf(new, first)

LEMMA AllocateOneAppends ==
  ASSUME NEW fat \in FatType, NEW first \in Blocks, StartsChain(fat, first),
         NEW s \in AllocState, Appended(fat, first, s.fat),
         s.end_block \in ChainOf(s.fat, first), s.fat[s.end_block] = FAT_EOC,
         NEW t, t = AllocateOne[s]
  PROVE  /\ t \in AllocState /\ Appended(fat, first, t.fat)
         /\ t.end_block \in ChainOf(t.fat, first) /\ t.fat[t.end_block] = FAT_EOC
<1>1. CASE DiskFull(s.fat)
  BY <1>1 DEF AllocateOne
<1>2. CASE ~DiskFull(s.fat)
  <2> DEFINE old == s.fat
             a == s.end_block
             new == t.fat
  <2>1. PICK b \in Blocks : /\ old[b] = 0 /\ t \in AllocState
                            /\ t.end_block = b
                            /\ \A c \in Blocks : new[c] = IF c = b THEN FAT_EOC
                                                          ELSE IF c = a THEN b ELSE old[c]
    BY <1>2, AllocateOneTakes
  <2>2. /\ WellLinked(old) /\ StartsChain(old, first) /\ a \in ChainOf(old, first)
        /\ old[a] = FAT_EOC
        /\ \A h \in Blocks : StartsChain(fat, h) => StartsChain(old, h)
        /\ \A c \in Blocks : HasNext(fat, c) => old[c] = fat[c]
        /\ \A c \in Blocks : old[c] # 0 => fat[c] # 0 \/ c \in ChainOf(old, first)
    BY DEF Appended
  <2>3. old \in FatType /\ a \in Blocks /\ new \in FatType
    BY <2>1 DEF AllocState
  <2> HIDE DEF old, a, new
  <2>4. /\ \A c \in ChainOf(old, first) : c \in Blocks /\ c # 0 /\ old[c] # 0
        /\ a # 0 /\ old[a] # 0 /\ a # b
    BY <2>1, <2>2, <2>3, ChainClosed
  <2>5. WellLinked(new) /\ \A h : StartsChain(old, h) => StartsChain(new, h)
    BY <2>1, <2>2, <2>3, <2>4, LinkFreeBlock
  <2>6. ChainOf(old, first) \subseteq ChainOf(new, first)
    <3>1. \A c \in ChainOf(old, first) : old[c] # FAT_EOC => new[c] = old[c]
      BY <2>1, <2>2, <2>4
    <3>2. QED
      BY <2>1, <2>2, <2>3, <2>5, <3>1, ChainKept
  <2>7. b \in ChainOf(new, first) /\ new[b] = FAT_EOC
    <3>1. a \in ChainOf(new, first) /\ new[a] = b /\ b # FAT_EOC
      BY <2>1, <2>2, <2>4, <2>6, Sizes
    <3>2. QED
      BY <2>1, <2>2, <2>3, <2>5, <3>1, ChainClosed
  <2>8. \A c \in Blocks : HasNext(fat, c) => new[c] = fat[c]
    BY <2>1, <2>2 DEF HasNext
  <2>9. \A c \in Blocks : new[c] # 0 => fat[c] # 0 \/ c \in ChainOf(new, first)
    BY <2>1, <2>2, <2>4, <2>6, <2>7
  <2>10. Appended(fat, first, new)
    BY <2>2, <2>5, <2>8, <2>9 DEF Appended
  <2>11. QED
    BY <2>1, <2>7, <2>10 DEF new
<1>3. QED
  BY <1>1, <1>2

\* allocate_more_blocks lengthens the chain of first: every chain keeps its blocks, and
\* every block it takes can be reached from first.
LEMMA AllocateAppends ==
  ASSUME NEW fat \in FatType, WellLinked(fat), NEW data \in DataType,
         NEW first, StartsChain(fat, first), NEW needed_blocks \in Nat,
         NEW a, a = allocate_more_blocks(fat, data, first, needed_blocks)
  PROVE  /\ \A h : StartsChain(fat, h) => ChainOf(fat, h) \subseteq ChainOf(a.fat, h)
         /\ \A b \in Blocks : a.fat[b] # 0 => fat[b] # 0 \/ b \in ChainOf(a.fat, first)
<1> DEFINE end_block == skip_blocks(fat, first, total_file_blocks(fat, first) - 1)
           s0 == [fat |-> fat, data |-> data, end_block |-> end_block, new_blocks |-> 0]
           T == {s \in AllocState : /\ Appended(fat, first, s.fat)
                                    /\ s.end_block \in ChainOf(s.fat, first)
                                    /\ s.fat[s.end_block] = FAT_EOC}
<1>1. first \in Blocks
  BY DEF StartsChain
<1>2. s0 \in T
  <2>1. total_file_blocks(fat, first) - 1 \in Nat
    BY <1>1, TotalType
  <2>2. end_block \in ChainOf(fat, first) /\ end_block \in Blocks /\ fat[end_block] = FAT_EOC
    BY <1>1, <2>1, ChainReached, SkipStep, TotalIsLength DEF HasLength
  <2> HIDE DEF end_block
  <2>3. QED
    BY <2>2 DEF AllocState, Appended
<1>3. ASSUME NEW s \in T
      PROVE  AllocateOne[s] \in T
  BY <1>1, AllocateOneAppends
<1> HIDE DEF T, s0
<1>4. \A n \in Nat : Iterate(AllocateOne, s0)[n] \in T
  BY <1>2, <1>3, IterateInvariant
<1>5. a \in T
  BY <1>4 DEF allocate_more_blocks, s0
<1>6. a.fat \in FatType /\ Appended(fat, first, a.fat)
  BY <1>5 DEF T, AllocState
<1>7. ASSUME NEW h, StartsChain(fat, h)
      PROVE  ChainOf(fat, h) \subseteq ChainOf(a.fat, h)
  <2>1. StartsChain(a.fat, h) /\ WellLinked(a.fat)
    BY <1>6, <1>7 DEF Appended, StartsChain
  <2>2. \A b \in ChainOf(fat, h) : fat[b] # FAT_EOC => a.fat[b] = fat[b]
    BY <1>6, <1>7, ChainClosed DEF Appended, HasNext
  <2>3. QED
    BY <1>6, <1>7, <2>1, <2>2, ChainKept
<1>8. QED
  BY <1>6, <1>7 DEF Appended

\* A free block linked behind the last one makes the chain longer by one.
LEMMA LinkLengthens ==
  ASSUME NEW fat \in FatType, WellLinked(fat), NEW first, StartsChain(fat, first),
         NEW k, HasLength(fat, first, k), NEW a, a = skip_blocks(fat, first, k - 1),
         NEW b \in Blocks, fat[b] = 0, NEW new \in FatType,
         \A c \in Blocks : new[c] = IF c = b THEN FAT_EOC ELSE IF c = a THEN b ELSE fat[c]
  PROVE  /\ HasLength(new, first, k + 1) /\ skip_blocks(new, first, k) = b
         /\ \A m \in Nat : m < k => skip_blocks(new, first, m) = skip_blocks(fat, first, m)
<1>1. /\ first \in Blocks /\ k \in Nat /\ k - 1 \in Nat /\ fat[a] = FAT_EOC
      /\ \A m \in Nat : m < k - 1 => fat[skip_blocks(fat, first, m)] # FAT_EOC
      /\ FAT_EOC # 0 /\ b # FAT_EOC
  BY Sizes DEF StartsChain, HasLength
<1>2. \A m \in Nat : skip_blocks(fat, first, m) \in Blocks /\ fat[skip_blocks(fat, first, m)] # 0
  BY ChainReached, ChainClosed
<1>3. \A m \in Nat : m < k - 1 =>
        new[skip_blocks(fat, first, m)] = fat[skip_blocks(fat, first, m)]
  BY <1>1, <1>2
<1>4. \A m \in Nat : m <= k - 1 => skip_blocks(new, first, m) = skip_blocks(fat, first, m)
  BY <1>1, <1>3, SkipKept
<1>5. skip_blocks(new, first, k - 1) = a /\ new[a] = b /\ a \in Blocks /\ new[b] = FAT_EOC
  BY <1>1, <1>2, <1>4
<1>6. skip_blocks(new, first, (k - 1) + 1) = b
  <2>1. PICK m \in Nat : m = k - 1
    BY <1>1
  <2>2. skip_blocks(new, first, m + 1) = IF new[a] = FAT_EOC THEN a ELSE new[a]
    BY <1>1, <1>5, <2>1, SkipStep
  <2>3. QED
    BY <1>1, <1>5, <2>1, <2>2
<1>7. (k - 1) + 1 = k /\ (k + 1) - 1 = k /\ k + 1 \in Nat \ {0}
  BY <1>1
<1>8. ASSUME NEW m \in Nat, m < k
      PROVE  new[skip_blocks(new, first, m)] # FAT_EOC
  <2>1. CASE m = k - 1
    BY <1>1, <1>5, <2>1
  <2>2. CASE m < k - 1
    BY <1>1, <1>3, <1>4, <2>2
  <2>3. QED
    BY <1>1, <1>8, <2>1, <2>2
<1>9. \A m \in Nat : m < k => m <= k - 1
  BY <1>1
<1>10. QED
  BY <1>4, <1>5, <1>6, <1>7, <1>8, <1>9 DEF HasLength

\* In s the chain of first has k + new_blocks blocks, the first k of them as in fat, end_block
\* is the last of them, and no other chain has changed.
AllocatedFrom(fat, first, k, s) ==
  /\ WellLinked(s.fat) /\ StartsChain(s.fat, first)
  /\ HasLength(s.fat, first, k + s.new_blocks)
  /\ \A m \in Nat : m < k => skip_blocks(s.fat, first, m) = skip_blocks(fat, first, m)
  /\ s.end_block = skip_blocks(s.fat, first, (k + s.new_blocks) - 1)
  /\ fat[s.end_block] = 0 \/ s.end_block \in ChainOf(fat, first)
  /\ \A b \in Blocks : fat[b] # 0 => s.fat[b] # 0
  /\ \A b \in Blocks \ ChainOf(fat, first) : fat[b] # 0 => s.fat[b] = fat[b]

LEMMA AllocateOneCounts ==
  ASSUME NEW fat \in FatType, NEW first, NEW k \in Nat,
         NEW s \in AllocState, AllocatedFrom(fat, first, k, s),
         NEW t, t = AllocateOne[s]
  PROVE  /\ t \in AllocState /\ AllocatedFrom(fat, first, k, t)
         /\ t.new_blocks <= s.new_blocks + 1
<1>0. s.new_blocks \in Nat
  BY DEF AllocState
<1>1. CASE DiskFull(s.fat)
  BY <1>0, <1>1 DEF AllocateOne
<1>2. CASE ~DiskFull(s.fat)
  <2> DEFINE old == s.fat
             a == s.end_block
             n == k + s.new_blocks
  <2>1. PICK b \in Blocks : /\ old[b] = 0 /\ t \in AllocState
                            /\ t.end_block = b /\ t.new_blocks = s.new_blocks + 1
                            /\ \A c \in Blocks : t.fat[c] = IF c = b THEN FAT_EOC
                                                            ELSE IF c = a THEN b ELSE old[c]
    BY <1>2, AllocateOneTakes
  <2>2. /\ old \in FatType /\ a \in Blocks /\ t.fat \in FatType /\ n \in Nat
        /\ k + t.new_blocks = n + 1 /\ (k + t.new_blocks) - 1 = n
    BY <1>0, <2>1 DEF AllocState
  <2>3. /\ WellLinked(old) /\ StartsChain(old, first) /\ HasLength(old, first, n)
        /\ \A m \in Nat : m < k => skip_blocks(old, first, m) = skip_blocks(fat, first, m)
        /\ a = skip_blocks(old, first, n - 1)
        /\ fat[a] = 0 \/ a \in ChainOf(fat, first)
        /\ \A c \in Blocks : fat[c] # 0 => old[c] # 0
        /\ \A c \in Blocks \ ChainOf(fat, first) : fat[c] # 0 => old[c] = fat[c]
    BY DEF AllocatedFrom
  <2>4. \A m \in Nat : m < k => m < n
    BY <1>0
  <2> HIDE DEF old, a, n
  <2>5. a # 0 /\ old[a] = FAT_EOC /\ old[a] # 0 /\ a # b
    <3>1. n - 1 \in Nat /\ old[a] = FAT_EOC
      BY <2>3 DEF HasLength
    <3>2. a \in ChainOf(old, first)
      BY <2>2, <2>3, <3>1, ChainReached
    <3>3. QED
      BY <2>1, <2>2, <2>3, <3>1, <3>2, ChainClosed
  <2>6. WellLinked(t.fat) /\ StartsChain(t.fat, first)
    BY <2>1, <2>2, <2>3, <2>5, LinkFreeBlock
  <2>7. /\ HasLength(t.fat, first, n + 1) /\ skip_blocks(t.fat, first, n) = b
        /\ \A m \in Nat : m < n => skip_blocks(t.fat, first, m) = skip_blocks(old, first, m)
    BY <2>1, <2>2, <2>3, LinkLengthens
  <2>8. \A m \in Nat : m < k => skip_blocks(t.fat, first, m) = skip_blocks(fat, first, m)
    BY <2>4, <2>3, <2>7
  <2>9. fat[b] = 0
    BY <2>1, <2>3
  <2>10. ASSUME NEW c \in Blocks, fat[c] # 0
        PROVE  t.fat[c] # 0 /\ (c \notin ChainOf(fat, first) => t.fat[c] = fat[c])
    <3>1. c # b /\ b # 0
      BY <2>1, <2>2, <2>3, <2>9, <2>10, FreeBlockUnlinked
    <3>2. CASE c = a
      BY <2>1, <2>3, <2>10, <3>1, <3>2
    <3>3. CASE c # a
      BY <2>1, <2>3, <2>10, <3>1, <3>3
    <3>4. QED
      BY <3>2, <3>3
  <2>11. AllocatedFrom(fat, first, k, t)
    BY <2>1, <2>2, <2>6, <2>7, <2>8, <2>9, <2>10 DEF AllocatedFrom
  <2>12. QED
    BY <1>0, <2>1, <2>11
<1>3. QED
  BY <1>1, <1>2

\* allocate_more_blocks adds as many blocks to the chain of first as it reports, behind those
\* that are there, and changes no other chain.  They are those asked for, or as many as the
\* disk has.
LEMMA AllocateCounts ==
  ASSUME NEW fat \in FatType, WellLinked(fat), NEW data \in DataType,
         NEW first, StartsChain(fat, first), NEW needed_blocks \in Nat,
         NEW a, a = allocate_more_blocks(fat, data, first, needed_blocks)
  PROVE  /\ a.new_blocks \in Nat /\ a.new_blocks <= needed_blocks
         /\ total_file_blocks(a.fat, first) = total_file_blocks(fat, first) + a.new_blocks
         /\ \A m \in Nat : m < total_file_blocks(fat, first) =>
              skip_blocks(a.fat, first, m) = skip_blocks(fat, first, m)
         /\ \A h : StartsChain(fat, h) /\ h # first => SameChain(fat, a.fat, h)
         /\ a.new_blocks < needed_blocks => DiskFull(a.fat)
<1> DEFINE k == total_file_blocks(fat, first)
           end_block == skip_blocks(fat, first, k - 1)
           s0 == [fat |-> fat, data |-> data, end_block |-> end_block, new_blocks |-> 0]
           T == {s \in AllocState : AllocatedFrom(fat, first, k, s)}
           x(n) == Iterate(AllocateOne, s0)[n]
           S == {n \in Nat : /\ x(n) \in T /\ x(n).new_blocks <= n
                             /\ x(n).new_blocks < n => DiskFull(x(n).fat)}
<1>1. first \in Blocks
  BY DEF StartsChain
<1>2. k \in Nat \ {0} /\ k - 1 \in Nat /\ HasLength(fat, first, k)
  <2>1. k \in Nat \ {0}
    BY <1>1, TotalType
  <2>2. QED
    BY <2>1, TotalIsLength
<1>3. a = x(needed_blocks)
  BY DEF allocate_more_blocks
<1>4. x(0) = s0 /\ \A n \in Nat : x(n + 1) = AllocateOne[x(n)]
  BY IterateDef
<1>5. end_block \in ChainOf(fat, first) /\ end_block \in Blocks
  BY <1>1, <1>2, ChainReached, SkipStep
<1> HIDE DEF k
<1>6. s0 \in T /\ s0.new_blocks = 0
  <2>1. k + 0 = k
    BY <1>2
  <2>2. QED
    BY <1>2, <1>5, <2>1 DEF AllocState, AllocatedFrom
<1> HIDE DEF s0, x
<1>7. 0 \in S
  BY <1>4, <1>6
<1>8. ASSUME NEW n \in S
      PROVE  n + 1 \in S
  <2>1. /\ x(n + 1) \in AllocState /\ AllocatedFrom(fat, first, k, x(n + 1))
        /\ x(n + 1).new_blocks <= x(n).new_blocks + 1
    BY <1>2, <1>4, AllocateOneCounts
  <2>2. x(n).new_blocks \in Nat /\ x(n + 1).new_blocks \in Nat
    BY <2>1 DEF AllocState
  <2>3. PICK s, t : s = x(n) /\ t = x(n + 1)
    OBVIOUS
  <2>4. s \in AllocState /\ t = AllocateOne[s] /\ (s.new_blocks < n => DiskFull(s.fat))
    BY <1>4, <2>3
  <2>5. CASE DiskFull(s.fat)
    <3>1. t = s
      BY <2>4, <2>5 DEF AllocateOne
    <3>2. QED
      BY <2>1, <2>2, <2>3, <2>5, <3>1
  <2>6. CASE ~DiskFull(s.fat)
    <3>1. t.new_blocks = s.new_blocks + 1
      BY <2>4, <2>6 DEF AllocateOne
    <3>2. s.new_blocks <= n /\ ~(s.new_blocks < n) /\ s.new_blocks \in Nat
      BY <2>2, <2>3, <2>4, <2>6
    <3>3. ~(t.new_blocks < n + 1) /\ t.new_blocks <= n + 1
      BY <3>1, <3>2
    <3>4. QED
      BY <2>1, <2>3, <3>3
  <2>7. QED
    BY <2>5, <2>6
<1>9. S = Nat
  BY <1>7, <1>8, NatSetInduction
<1>10. /\ a \in AllocState /\ AllocatedFrom(fat, first, k, a) /\ a.new_blocks <= needed_blocks
       /\ a.new_blocks < needed_blocks => DiskFull(a.fat)
  BY <1>3, <1>9
<1>11. a.fat \in FatType /\ a.new_blocks \in Nat
  BY <1>10 DEF AllocState
<1>12. total_file_blocks(a.fat, first) = k + a.new_blocks
  BY <1>10, <1>11, TotalIsLength, LengthUnique DEF AllocatedFrom
<1>13. ASSUME NEW h, StartsChain(fat, h), h # first
       PROVE  SameChain(fat, a.fat, h)
  <2>1. first \in Blocks \ {0} /\ fat[first] # 0
    BY DEF StartsChain
  <2>2. WellLinked(a.fat) /\ StartsChain(a.fat, h)
    BY <1>13, <2>1, AllocateMore
  <2>3. \A b \in ChainOf(fat, h) : a.fat[b] = fat[b]
    BY <1>10, <1>13, ChainsApart, ChainClosed DEF AllocatedFrom
  <2>4. QED
    BY <1>11, <1>13, <2>2, <2>3, ChainUnchanged
<1>14. \A m \in Nat : m < k => skip_blocks(a.fat, first, m) = skip_blocks(fat, first, m)
  BY <1>10 DEF AllocatedFrom
<1>15. QED
  BY <1>10, <1>11, <1>12, <1>13, <1>14 DEF k

-----------------------------------------------------------------------------
(* What is reached before and after.                                       *)

\* Every chain has kept its blocks, and what is newly taken is in the chain of first.
Lengthened(fat, new, first) ==
  /\ \A h : StartsChain(fat, h) => ChainOf(fat, h) \subseteq ChainOf(new, h)
  /\ \A b \in Blocks : new[b] # 0 => fat[b] # 0 \/ b \in ChainOf(new, first)

LEMMA LengthenedTwice ==
  ASSUME NEW fat, NEW mid, NEW new, NEW first,
         Lengthened(fat, mid, first), Lengthened(mid, new, first), StartsChain(mid, first),
         \A h : StartsChain(fat, h) => StartsChain(mid, h)
  PROVE  Lengthened(fat, new, first)
BY DEF Lengthened

\* A free block that becomes a chain of its own.
LEMMA NewChainLengthens ==
  ASSUME NEW fat \in FatType, WellLinked(fat), NEW b \in Blocks, fat[b] = 0,
         NEW new \in FatType,
         \A c \in Blocks : new[c] = IF c = b THEN FAT_EOC ELSE fat[c]
  PROVE  Lengthened(fat, new, b)
<1>1. WellLinked(new) /\ StartsChain(new, b) /\ \A h : StartsChain(fat, h) => StartsChain(new, h)
  BY NewChain
<1>2. ASSUME NEW h, StartsChain(fat, h)
      PROVE  ChainOf(fat, h) \subseteq ChainOf(new, h)
  <2>1. \A c \in ChainOf(fat, h) : fat[c] # FAT_EOC => new[c] = fat[c]
    BY <1>2, ChainClosed
  <2>2. QED
    BY <1>1, <1>2, <2>1, ChainKept
<1>3. b \in ChainOf(new, b)
  BY <1>1, ChainReached
<1>4. QED
  BY <1>2, <1>3 DEF Lengthened

\* When a file is erased, the other chains are as before.
LEMMA EraseKeeps ==
  ASSUME NEW fat \in FatType, WellLinked(fat), NEW h0, StartsChain(fat, h0),
         NEW new, new = erase_file(fat, h0), NEW h, StartsChain(fat, h), h # h0
  PROVE  /\ ChainOf(fat, h) \subseteq ChainOf(new, h)
         /\ SameChain(fat, new, h)
<1>1. new \in FatType /\ WellLinked(new) /\ StartsChain(new, h)
  BY EraseFile
<1>2. \A b \in ChainOf(fat, h) : b \in Blocks /\ b \notin ChainOf(fat, h0)
  BY ChainsApart, ChainClosed
<1>3. \A b \in ChainOf(fat, h) : new[b] = fat[b]
  BY <1>2, EraseExact
<1>4. QED
  BY <1>1, <1>3, ChainKept, ChainUnchanged

==============================================================================
