------------------------------ MODULE FileSystem ------------------------------
(***************************************************************************)
(* libfs on a mounted volume: one action per call of fs.h, and per call of  *)
(* utilities.h that reads or changes the volume.  A client is one thread,   *)
(* so a call runs to its end before the next one starts; it sees nothing    *)
(* but the value a call returns and the buffer it fills (result).  What a   *)
(* crash in the middle of a call leaves behind is the subject of CrashFS,   *)
(* where a volume comes from that of Volume.                                *)
(***************************************************************************)
EXTENDS FdTable, Sequences

CONSTANTS
  MaxCount,     \* bound: the longest buffer a client passes
  SharedOpens   \* may a client open a file that it has open already?

ASSUME ClientAssumption ==
  /\ Null \notin Versions
  /\ MaxCount \in Nat
  /\ SharedOpens \in BOOLEAN

VARIABLES
  disk_mounted,   \* disk_mounted
  fd_table,       \* *fd_table: volatile, one per mount
  root,           \* the root directory block: volume
  fat,            \* the FAT blocks: volume
  data,           \* the data blocks: volume
  result          \* what the last call returned to the client

vars == <<disk_mounted, fd_table, root, fat, data, result>>
volume == <<root, fat, data>>

DirEntry == [filename : Names \cup {Null}, size : Nat, index : Links]
EmptyEntry == [filename |-> Null, size |-> 0, index |-> 0]

Node(fd) == fd_table.nodes[fd]

\* What a client sees of a call: the value it returns, the bytes fs_read put into
\* the buffer, what fs_ls and fs_info print.
Outcome(code) == [code |-> code, buf |-> <<>>, ls |-> <<>>, info |-> <<>>]
Return(code) == result' = Outcome(code)

\* What a call that takes a descriptor refuses, and the arguments a client tries:
\* every descriptor of the table and one past either end of it.
FdArgs == -1 .. OpenMax
isUsable_EvenIfClosed(fd) == disk_mounted /\ fd \in Fds   \* mutant

isUsable(fd) == disk_mounted /\ fd \in Fds /\ isOpenByFd(fd_table, fd)

\* Null stands for every name isValidFileName refuses, and in fs_open and fs_delete
\* for a NULL pointer; fs_create, which has no test for one, is not called with one.
NameArgs == Names \cup {Null}
isValidFileName(name) == name # Null

\* The entries a scan of the directory stops at.
Entries(name) == {i \in DirSlots : root[i].filename = name}
FirstEntry(name) == CHOOSE i \in Entries(name) : \A j \in Entries(name) : i <= j

Init ==
  /\ disk_mounted = FALSE
  /\ fd_table = fd_table_constructor
  /\ root = [i \in DirSlots |-> EmptyEntry]
  /\ fat = [s \in Slots |-> IF s = 0 THEN FAT_EOC ELSE 0]
  /\ data = [b \in Blocks |-> [i \in 0 .. BlockSize - 1 |-> Zero]]
  /\ result = Outcome(0)

-----------------------------------------------------------------------------
(* Mounting.  block_disk_open refuses while a disk is open.                *)

fs_mount ==
  /\ IF disk_mounted
       THEN Return(-1) /\ UNCHANGED <<disk_mounted, fd_table>>
       ELSE /\ disk_mounted' = TRUE
            /\ fd_table' = fd_table_constructor
            /\ Return(0)
  /\ UNCHANGED volume

\* The table is destroyed; nothing reads it until fs_mount makes a new one, so
\* the NULL that is left of it is written as an empty table.
fs_umount ==
  /\ IF ~disk_mounted
       THEN Return(-1) /\ UNCHANGED <<disk_mounted, fd_table>>
       ELSE /\ disk_mounted' = FALSE
            /\ fd_table' = fd_table_constructor
            /\ Return(0)
  /\ UNCHANGED volume

-----------------------------------------------------------------------------
(* The directory.                                                          *)

fs_info ==
  /\ IF ~disk_mounted
       THEN Return(-1)
       ELSE result' = [Outcome(0) EXCEPT !.info = <<fat_available(fat), Cardinality(Entries(Null))>>]
  /\ UNCHANGED <<disk_mounted, fd_table, volume>>

\* The listing without its order and block numbers.
fs_ls ==
  /\ IF ~disk_mounted
       THEN Return(-1)
       ELSE result' = [Outcome(0) EXCEPT !.ls =
                         [n \in {root[i].filename : i \in DirSlots} \ {Null} |->
                            root[FirstEntry(n)].size]]
  /\ UNCHANGED <<disk_mounted, fd_table, volume>>

fs_create(name) ==
  /\ IF ~disk_mounted \/ ~isValidFileName(name) \/ Entries(name) # {} \/ Entries(Null) = {}
       THEN Return(-1) /\ UNCHANGED root
       ELSE /\ root' = [root EXCEPT ![FirstEntry(Null)] =
                          [filename |-> name, size |-> 0, index |-> FAT_EOC]]
            /\ Return(0)
  /\ UNCHANGED <<disk_mounted, fd_table, fat, data>>

fs_delete(name) ==
  /\ IF ~disk_mounted \/ ~isValidFileName(name) \/ Entries(name) = {}
        \/ isOpenByName(fd_table, name)
       THEN Return(-1) /\ UNCHANGED <<root, fat>>
       ELSE /\ root' = [root EXCEPT ![FirstEntry(name)] = EmptyEntry]
            /\ fat' = erase_file(fat, root[FirstEntry(name)].index)
            /\ Return(0)
  /\ UNCHANGED <<disk_mounted, fd_table, data>>

-----------------------------------------------------------------------------
(* utilities.c, which libfs offers its clients beside fs.h.                *)

free_blocks ==
  /\ IF ~disk_mounted THEN Return(0) ELSE Return(Cardinality(FreeBlocks(fat)))
  /\ UNCHANGED <<disk_mounted, fd_table, volume>>

EraseAllState == [fat : FatType, slot : 0 .. FileMax]

\* mutant: an entry is cleared and its blocks stay taken.
EraseEntry_EntryOnly ==
  [s \in EraseAllState |->
     IF s.slot = FileMax THEN s
     ELSE [fat |-> s.fat, slot |-> s.slot + 1]]

\* One turn of the loop over the directory.
EraseEntry ==
  [s \in EraseAllState |->
     IF s.slot = FileMax THEN s
     ELSE [fat  |-> IF root[s.slot].filename = Null THEN s.fat
                    ELSE erase_file(s.fat, root[s.slot].index),
           slot |-> s.slot + 1]]

erase_all_files ==
  /\ IF ~disk_mounted \/ fd_table.fdsOccupied # 0
       THEN Return(-1) /\ UNCHANGED <<root, fat>>
       ELSE /\ fat' = Iterate(EraseEntry, [fat |-> fat, slot |-> 0])[FileMax].fat
            /\ root' = [i \in DirSlots |-> EmptyEntry]
            /\ Return(0)
  /\ UNCHANGED <<disk_mounted, fd_table, data>>

-----------------------------------------------------------------------------
(* Descriptors.                                                            *)

\* The node caches the size and the first block that the entry holds now; those
\* of an entry without blocks are left as the constructor or removeFd set them.
CacheEntry(node, i) ==
  [node EXCEPT !.dir_entry_index = i,
               !.size = IF root[i].index # FAT_EOC THEN root[i].size ELSE @,
               !.first_data_block = IF root[i].index # FAT_EOC THEN root[i].index ELSE @]

\* The first conjunct is not the code's: it is the client's that opens no file twice.
fs_open(name) ==
  /\ SharedOpens \/ ~isOpenByName(fd_table, name)
  /\ IF ~disk_mounted \/ ~isValidFileName(name) \/ table_is_full(fd_table)
        \/ Entries(name) = {}
       THEN Return(-1) /\ UNCHANGED fd_table
       ELSE LET fd == addFd(fd_table)
            IN  /\ fd_table' = Occupied(fd_table, fd, name,
                                        CacheEntry(Node(fd), FirstEntry(name)))
                /\ Return(fd)
  /\ UNCHANGED <<disk_mounted, volume>>

fs_close(fd) ==
  /\ IF ~isUsable(fd)
       THEN Return(-1) /\ UNCHANGED fd_table
       ELSE Return(0) /\ fd_table' = removeFd(fd_table, fd)
  /\ UNCHANGED <<disk_mounted, volume>>

fs_stat(fd) ==
  /\ IF ~isUsable(fd) THEN Return(-1) ELSE Return(Node(fd).size)
  /\ UNCHANGED <<disk_mounted, fd_table, volume>>

fs_lseek(fd, offset) ==
  /\ IF ~isUsable(fd) \/ offset > Node(fd).size
       THEN Return(-1) /\ UNCHANGED fd_table
       ELSE /\ fd_table' = [fd_table EXCEPT !.nodes[fd].offset = offset]
            /\ Return(0)
  /\ UNCHANGED <<disk_mounted, volume>>

-----------------------------------------------------------------------------
(* Moving bytes.  One turn of the loops of fs_write and fs_read handles the *)
(* bytes up to the end of the block or up to end_offset, and then follows   *)
(* the chain if there is more to do.                                        *)

\* mutant: a turn is a whole block, wherever in a block it starts.
TurnLength_WholeBlock(offset, end_offset) ==
  IF current_block_offset(offset) < current_block_offset(end_offset)
  THEN BlockSize
  ELSE (end_offset % BlockSize) - (offset % BlockSize)

TurnLength(offset, end_offset) ==
  IF current_block_offset(offset) < current_block_offset(end_offset)
  THEN BlockSize - (offset % BlockSize)
  ELSE (end_offset % BlockSize) - (offset % BlockSize)

\* mutant: the blocks of a file are taken for contiguous.
NextBlock_Contiguous(table, b, offset, end_offset) ==
  IF offset < end_offset THEN b + 1 ELSE b

NextBlock(table, b, offset, end_offset) ==
  IF offset < end_offset THEN skip_blocks(table, b, 1) ELSE b

\* The client's buffer for the bytes from offset on.
Bytes(name, offset, version) == [p \in Nat |-> <<name, offset + p, version>>]

WriteState == [offset : Nat, size : Nat, block : Blocks, data : DataType]

\* mutant: the size becomes the end of the write, even inside the file.
WriteTurn_Truncates(table, end_offset, buf, start) ==
  [s \in WriteState |->
     IF s.offset >= end_offset THEN s
     ELSE LET first == s.offset % BlockSize
              length == TurnLength(s.offset, end_offset)
              last == s.offset + length
          IN  [offset |-> last,
               size   |-> last,
               block  |-> NextBlock(table, s.block, last, end_offset),
               data   |-> [s.data EXCEPT ![s.block] =
                             [i \in 0 .. BlockSize - 1 |->
                                IF i \in first .. first + length - 1
                                THEN buf[s.offset - start + i - first]
                                ELSE @[i]]]]]

WriteTurn(table, end_offset, buf, start) ==
  [s \in WriteState |->
     IF s.offset >= end_offset THEN s
     ELSE LET first == s.offset % BlockSize
              length == TurnLength(s.offset, end_offset)
              last == s.offset + length
          IN  [offset |-> last,
               size   |-> IF last > s.size THEN last ELSE s.size,
               block  |-> NextBlock(table, s.block, last, end_offset),
               data   |-> [s.data EXCEPT ![s.block] =
                             [i \in 0 .. BlockSize - 1 |->
                                IF i \in first .. first + length - 1
                                THEN buf[s.offset - start + i - first]
                                ELSE @[i]]]]]

ReadState == [offset : Nat, block : Blocks, buf : Seq(Byte)]

ReadTurn(table, blocks, end_offset) ==
  [s \in ReadState |->
     IF s.offset >= end_offset THEN s
     ELSE LET length == TurnLength(s.offset, end_offset)
              last == s.offset + length
          IN  [offset |-> last,
               block  |-> NextBlock(table, s.block, last, end_offset),
               buf    |-> s.buf \o [i \in 1 .. length |->
                                      blocks[s.block][(s.offset % BlockSize) + i - 1]]]]

-----------------------------------------------------------------------------
(* fs_write.  What it has changed so far: the FAT, the data blocks, the     *)
(* directory and the node, in w.                                            *)

\* The first block of a file that has none.
add_file_to_disk(w) ==
  LET b == first_block_available(w.fat)
  IN  [fat  |-> set_fat_entry(w.fat, b, FAT_EOC),
       data |-> clear_block(w.data, b),
       root |-> [w.root EXCEPT ![w.node.dir_entry_index].index = b],
       node |-> [w.node EXCEPT !.first_data_block = b]]

\* mutant: blocks for the whole count, not for what lies past the file's blocks.
Extended_ForWholeCount(w, end_offset) ==
  LET total_bytes == total_file_blocks(w.fat, w.node.first_data_block) * BlockSize
      needed_blocks == IF end_offset > total_bytes
                       THEN total_block_size(end_offset - w.node.offset) ELSE 0
      a == allocate_more_blocks(w.fat, w.data, w.node.first_data_block, needed_blocks)
  IN  [w |-> [w EXCEPT !.fat = a.fat, !.data = a.data],
       at_end |-> needed_blocks > 0 /\ a.new_blocks = 0 /\ w.node.offset = total_bytes]

\* The blocks end_offset needs, as far as the disk has them.
Extended(w, end_offset) ==
  LET total_bytes == total_file_blocks(w.fat, w.node.first_data_block) * BlockSize
      needed_blocks == IF end_offset > total_bytes
                       THEN total_block_size(end_offset - total_bytes) ELSE 0
      a == allocate_more_blocks(w.fat, w.data, w.node.first_data_block, needed_blocks)
  IN  [w |-> [w EXCEPT !.fat = a.fat, !.data = a.data],
       at_end |-> needed_blocks > 0 /\ a.new_blocks = 0 /\ w.node.offset = total_bytes]

\* mutant: the directory entry keeps the size it had.
Transferred_DirectoryNotWritten(w, end_offset, buf) ==
  LET block == skip_blocks(w.fat, w.node.first_data_block, current_block_offset(w.node.offset))
      s == Iterate(WriteTurn(w.fat, end_offset, buf, w.node.offset),
                   [offset |-> w.node.offset, size |-> w.node.size,
                    block |-> block, data |-> w.data])[end_offset]
  IN  [w EXCEPT !.data = s.data,
                !.node = [@ EXCEPT !.offset = s.offset, !.size = s.size]]

\* The bytes from the offset to end_offset, and the size of the entry.
Transferred(w, end_offset, buf) ==
  LET block == skip_blocks(w.fat, w.node.first_data_block, current_block_offset(w.node.offset))
      s == Iterate(WriteTurn(w.fat, end_offset, buf, w.node.offset),
                   [offset |-> w.node.offset, size |-> w.node.size,
                    block |-> block, data |-> w.data])[end_offset]
  IN  [w EXCEPT !.data = s.data,
                !.node = [@ EXCEPT !.offset = s.offset, !.size = s.size],
                !.root = [@ EXCEPT ![w.node.dir_entry_index].size = s.size]]

\* fs_write once its arguments have passed: what it leaves, and what it returns.
WriteOutcome(w0, buf, count) ==
  IF w0.node.first_data_block = FAT_EOC /\ DiskFull(w0.fat) THEN [w |-> w0, code |-> 0]
  ELSE LET w1 == IF w0.node.first_data_block = FAT_EOC THEN add_file_to_disk(w0) ELSE w0
           wanted == w1.node.offset + count
           x == Extended(w1, wanted)
           room == total_file_blocks(x.w.fat, x.w.node.first_data_block) * BlockSize
           w2 == Transferred(x.w, IF wanted > room THEN room ELSE wanted, buf)
       IN  IF x.at_end THEN [w |-> x.w, code |-> 0]
           ELSE [w |-> w2, code |-> w2.node.offset - w1.node.offset]

\* buf is NULL, or the version of the bytes it holds.
fs_write(fd, buf, count) ==
  /\ IF buf = Null \/ ~isUsable(fd)
       THEN Return(-1) /\ UNCHANGED <<fd_table, volume>>
     ELSE IF count = 0
       THEN Return(0) /\ UNCHANGED <<fd_table, volume>>
     ELSE LET o == WriteOutcome([fat |-> fat, data |-> data, root |-> root, node |-> Node(fd)],
                                Bytes(Node(fd).filename, Node(fd).offset, buf), count)
          IN  /\ fat' = o.w.fat
              /\ data' = o.w.data
              /\ root' = o.w.root
              /\ fd_table' = [fd_table EXCEPT !.nodes[fd] = o.w.node]
              /\ Return(o.code)
  /\ UNCHANGED disk_mounted

\* mutant: a read is not cut short at the end of the file.
ReadOutcome_NotClamped(node, count) ==
  LET end_offset == node.offset + count
      block == skip_blocks(fat, node.first_data_block, current_block_offset(node.offset))
  IN  Iterate(ReadTurn(fat, data, end_offset),
              [offset |-> node.offset, block |-> block, buf |-> <<>>])[end_offset]

ReadOutcome(node, count) ==
  LET wanted == node.offset + count
      end_offset == IF wanted > node.size THEN node.size ELSE wanted
      block == skip_blocks(fat, node.first_data_block, current_block_offset(node.offset))
  IN  Iterate(ReadTurn(fat, data, end_offset),
              [offset |-> node.offset, block |-> block, buf |-> <<>>])[end_offset]

fs_read(fd, buf, count) ==
  /\ IF buf = Null \/ ~isUsable(fd)
       THEN Return(-1) /\ UNCHANGED fd_table
     ELSE IF count = 0 \/ Node(fd).first_data_block = FAT_EOC \/ Node(fd).offset >= Node(fd).size
       THEN Return(0) /\ UNCHANGED fd_table
     ELSE LET s == ReadOutcome(Node(fd), count)
          IN  /\ fd_table' = [fd_table EXCEPT !.nodes[fd].offset = s.offset]
              /\ result' = [Outcome(Len(s.buf)) EXCEPT !.buf = s.buf]
  /\ UNCHANGED <<disk_mounted, volume>>

-----------------------------------------------------------------------------
(* The client: any call with any arguments, at any time.                   *)

\* bound: a client seeks no further than one byte past the largest file.
OffsetArgs == 0 .. (DataBlocks - 1) * BlockSize + 1
CountArgs == 0 .. MaxCount
BufArgs == Versions \cup {Null}

Next ==
  \/ fs_mount
  \/ fs_umount
  \/ fs_info
  \/ fs_ls
  \/ free_blocks
  \/ erase_all_files
  \/ \E name \in NameArgs : fs_create(name)
  \/ \E name \in NameArgs : fs_delete(name)
  \/ \E name \in NameArgs : fs_open(name)
  \/ \E fd \in FdArgs : fs_close(fd)
  \/ \E fd \in FdArgs : fs_stat(fd)
  \/ \E fd \in FdArgs, offset \in OffsetArgs : fs_lseek(fd, offset)
  \/ \E fd \in FdArgs, buf \in BufArgs, count \in CountArgs : fs_write(fd, buf, count)
  \/ \E fd \in FdArgs, buf \in BufArgs, count \in CountArgs : fs_read(fd, buf, count)

\* Nothing obliges a client to call, so there is no fairness.
Spec == Init /\ [][Next]_vars

-----------------------------------------------------------------------------
(* The type invariant.                                                     *)

\* A FAT entry, a cached first block and a directory index hold a block number or
\* FAT_EOC, so no walk of a chain (disk.c, skip_blocks) and no block_write leaves
\* the data region; fdsOccupied, a size_t, is never decremented below zero.
TypeOK ==
  /\ disk_mounted \in BOOLEAN
  /\ fd_table \in TableType
  /\ root \in [DirSlots -> DirEntry]
  /\ fat \in FatType
  /\ data \in DataType
  /\ result.code \in Int

-----------------------------------------------------------------------------
(* The structure of the volume and of the table.  This holds whatever a     *)
(* client does, two descriptors for one file included.                      *)

Open == InUse(fd_table)
Listed == DirSlots \ Entries(Null)

\* Where the code starts its walks.
DirHeads == {root[i].index : i \in Listed} \ {FAT_EOC}
FdHeads == {Node(fd).first_data_block : fd \in Open} \ {FAT_EOC}
Heads == DirHeads \cup FdHeads

\* The count that table_is_full and isOpenByName trust is the number of nodes in
\* use (fdTable.c, addFd and removeFd).
TableCounted == fd_table.fdsOccupied = Cardinality(Open)

\* A node that is not in use is as the constructor left it: fs_open of a file without
\* blocks sets neither size nor first block (fs.c:326), so what a closed descriptor
\* left behind (removeFd) would become another file's.
ClosedNodesReset ==
  \A fd \in Fds \ Open : Node(fd) = fdNode_constructor

\* A name is listed once: fs_create scans the whole directory before it takes the
\* first free entry.
NamesUnique ==
  \A i, j \in Listed : root[i].filename = root[j].filename => i = j

\* The entry behind a descriptor is still that of its file, under its name, so
\* what fs_write puts into entry dir_entry_index goes to the right file: fs_delete
\* and fs_create never free or reuse the entry of an open file.
OpenFilesListed ==
  \A fd \in Open :
    /\ Node(fd).filename # Null
    /\ root[Node(fd).dir_entry_index].filename = Node(fd).filename

\* The next allocation (disk.c, first_block_available) takes nothing that a file
\* reaches: no link leads to a free block or to block 0, and no two blocks link to
\* the same block.
ChainsWellLinked == WellLinked(fat)

\* A walk starts at an allocated block that no other block links to.
HeadsStartChains == \A h \in Heads : StartsChain(fat, h)

\* A block that starts a chain belongs to one directory entry.
HeadsBelongToOneEntry ==
  /\ \A i, j \in Listed : root[i].index = root[j].index /\ root[i].index # FAT_EOC => i = j
  /\ \A fd \in Open, i \in Listed :
       Node(fd).first_data_block = root[i].index /\ root[i].index # FAT_EOC
         => Node(fd).dir_entry_index = i
  /\ \A fd, other \in Open :
       Node(fd).first_data_block = Node(other).first_data_block
         /\ Node(fd).first_data_block # FAT_EOC
         => Node(fd).dir_entry_index = Node(other).dir_entry_index

\* What makes the chains sound, by induction over the calls.
ChainInv ==
  /\ TableCounted
  /\ ClosedNodesReset
  /\ NamesUnique
  /\ OpenFilesListed
  /\ ChainsWellLinked
  /\ HeadsStartChains
  /\ HeadsBelongToOneEntry

\* No block is in two chains, whoever walks them: whatever is read, written or
\* erased through one file leaves every other file's bytes alone.
ChainsDisjoint ==
  \A h, k \in Heads : h # k => ChainOf(fat, h) \cap ChainOf(fat, k) = {}

\* Every walk comes to an end: the loops of total_file_blocks and erase_file have
\* no other way out than a FAT_EOC.
WalksEnd ==
  \A h \in Heads : \E b \in ChainOf(fat, h) : fat[b] = FAT_EOC

\* A call changes the bytes of no block but a free one or one of the chain of a
\* descriptor, and of no other chain than the one it moves the offset of.
WritesStayInOwnChain ==
  [][\A b \in Blocks : data'[b] # data[b] =>
       \/ b \in FreeBlocks(fat)
       \/ \E fd \in Open : /\ b \in ChainOf(fat, Node(fd).first_data_block)
                           /\ Node(fd)'.offset > Node(fd).offset]_vars

-----------------------------------------------------------------------------
(* What holds as long as no file is open twice.                            *)

\* The blocks of the volume are accounted for: those the FAT says are taken are
\* block 0 and the chains of the listed files, each as long as its size needs.
NoBlockLeaks ==
  Blocks \ FreeBlocks(fat) = {0} \cup UNION {ChainOf(fat, h) : h \in DirHeads}

BlocksMatchSize ==
  \A i \in Listed : total_file_blocks(fat, root[i].index) = total_block_size(root[i].size)

\* A descriptor's copy of the size and first block is what the directory says, and
\* its offset is within the file.
CacheIsCurrent ==
  \A fd \in Open : LET entry == root[Node(fd).dir_entry_index]
                   IN  /\ Node(fd).size = entry.size
                       /\ Node(fd).first_data_block = entry.index
                       /\ Node(fd).offset <= entry.size

\* Every byte of every file is one that was written to this file, at this place.
BytesInPlace ==
  \A i \in Listed : \A p \in 0 .. root[i].size - 1 :
    \E v \in Versions :
      data[skip_blocks(fat, root[i].index, current_block_offset(p))][p % BlockSize]
        = <<root[i].filename, p, v>>

-----------------------------------------------------------------------------
(* What fs.h says and the code does not do.                                *)

\* fs.h:76-77: fs_umount fails "if there are still open file descriptors".
UmountRefusedWhileOpen ==
  [][disk_mounted /\ Open # {} => disk_mounted']_vars

\* fs.h:161: fs_stat gets "the current size of the file pointed by file descriptor
\* @fd", which the directory entry holds.
StatIsCurrent ==
  \A fd \in Open : Node(fd).size = root[Node(fd).dir_entry_index].size

==============================================================================
