----------------------------- MODULE SpaceProofs -----------------------------
(***************************************************************************)
(* Proofs for clients that open no file a second time while it is open:     *)
(* what a descriptor keeps of its file is what the directory says, and the  *)
(* blocks of the volume are accounted for, since whatever the FAT says is   *)
(* taken can be reached from the directory.                                 *)
(***************************************************************************)
EXTENDS FileSystemProofs

\* With one descriptor to a file, a write changes no entry that another one keeps.
OpenOnce == \A fd, other \in Open : Node(fd).filename = Node(other).filename => fd = other

\* fs_open copies nothing from an entry without blocks, so its size has to be the 0 of the
\* constructor.
EmptyHasNoSize == \A i \in Listed : root[i].index = FAT_EOC => root[i].size = 0

CacheInv == OpenOnce /\ EmptyHasNoSize /\ CacheIsCurrent

-----------------------------------------------------------------------------
(* fs_write keeps the node and its entry alike.                            *)

\* The node of w against its entry.
NodeCurrent(w) ==
  LET entry == w.root[w.node.dir_entry_index]
  IN  /\ w.node.size = entry.size
      /\ w.node.first_data_block = entry.index
      /\ w.node.offset <= entry.size
      /\ entry.index = FAT_EOC => entry.size = 0

\* From w to v nothing happens to other entries.
OthersKept(w, v) ==
  /\ v.node.dir_entry_index = w.node.dir_entry_index
  /\ \A i \in DirSlots : i # w.node.dir_entry_index => v.root[i] = w.root[i]

LEMMA AddFileCurrent ==
  ASSUME NEW w \in WState, NodeCurrent(w), ~DiskFull(w.fat),
         w.node.first_data_block = FAT_EOC, NEW v, v = add_file_to_disk(w)
  PROVE  NodeCurrent(v) /\ OthersKept(w, v)
<1> DEFINE b == first_block_available(w.fat)
           i == w.node.dir_entry_index
<1>1. w.root \in [DirSlots -> DirEntry] /\ w.node \in NodeType /\ i \in DirSlots
  BY DEF WState, NodeType
<1>2. b # FAT_EOC
  BY FirstAvailable, Sizes
<1>3. /\ v.root = [w.root EXCEPT ![i].index = b]
      /\ v.node = [w.node EXCEPT !.first_data_block = b]
  BY DEF add_file_to_disk
<1> HIDE DEF b
<1>4. /\ v.node.dir_entry_index = i /\ v.node.size = w.node.size
      /\ v.node.offset = w.node.offset /\ v.node.first_data_block = b
  BY <1>1, <1>3 DEF NodeType
<1>5. /\ v.root[i].index = b /\ v.root[i].size = w.root[i].size
      /\ \A j \in DirSlots : j # i => v.root[j] = w.root[j]
  BY <1>1, <1>3 DEF DirEntry
<1>6. QED
  BY <1>2, <1>4, <1>5 DEF NodeCurrent, OthersKept

\* One turn of the write loop leaves the offset inside the file.
LEMMA WriteTurnCurrent ==
  ASSUME NEW table, NEW end_offset \in Nat, NEW buf, NEW start,
         NEW s \in WriteState, s.offset <= s.size,
         NEW t, t = WriteTurn(table, end_offset, buf, start)[s], t \in WriteState
  PROVE  t.offset <= t.size
<1>1. s.offset \in Nat /\ s.size \in Nat /\ t.offset \in Nat /\ t.size \in Nat
  BY DEF WriteState
<1>2. CASE s.offset >= end_offset
  BY <1>2 DEF WriteTurn
<1>3. CASE ~(s.offset >= end_offset)
  <2>1. /\ t.offset = s.offset + TurnLength(s.offset, end_offset)
        /\ t.size = IF s.offset + TurnLength(s.offset, end_offset) > s.size
                    THEN s.offset + TurnLength(s.offset, end_offset) ELSE s.size
    BY <1>3 DEF WriteTurn
  <2>2. QED
    BY <1>1, <2>1
<1>4. QED
  BY <1>2, <1>3

LEMMA TransferredCurrent ==
  ASSUME NEW w \in WState, NodeCurrent(w), w.node.first_data_block \in Blocks,
         NEW end_offset \in Nat, NEW buf \in [Nat -> Byte],
         NEW v, v = Transferred(w, end_offset, buf)
  PROVE  NodeCurrent(v) /\ OthersKept(w, v)
<1> DEFINE start == w.node.offset
           i == w.node.dir_entry_index
           block == skip_blocks(w.fat, w.node.first_data_block, current_block_offset(start))
           s0 == [offset |-> start, size |-> w.node.size, block |-> block, data |-> w.data]
           T == {s \in WriteState : s.offset >= start /\ s.offset <= s.size}
           f == WriteTurn(w.fat, end_offset, buf, start)
<1>1. /\ w.fat \in FatType /\ w.data \in DataType /\ w.root \in [DirSlots -> DirEntry]
      /\ w.node \in NodeType /\ start \in Nat /\ w.node.size \in Nat /\ i \in DirSlots
  BY DEF WState, NodeType
<1>2. s0 \in T
  <2>1. block \in Blocks
    BY <1>1, SkipStep, BlockCountType
  <2>2. start <= w.node.size
    BY DEF NodeCurrent
  <2> HIDE DEF block
  <2>3. QED
    BY <1>1, <2>1, <2>2 DEF WriteState
<1>3. ASSUME NEW s \in T
      PROVE  f[s] \in T
  <2>1. s \in WriteState /\ s.offset >= start /\ s.offset <= s.size
    OBVIOUS
  <2>2. f[s] \in WriteState /\ f[s].offset >= start
    BY <1>1, <2>1, WriteTurnType
  <2>3. f[s].offset <= f[s].size
    BY <2>1, <2>2, WriteTurnCurrent
  <2>4. QED
    BY <2>2, <2>3
<1> HIDE DEF s0, T, f
<1>4. \A n \in Nat : Iterate(f, s0)[n] \in T
  BY <1>2, <1>3, IterateInvariant
<1> DEFINE s == Iterate(f, s0)[end_offset]
<1>5. s.offset \in Nat /\ s.size \in Nat /\ s.offset <= s.size
  BY <1>4 DEF T, WriteState
<1>6. v = [w EXCEPT !.data = s.data,
                    !.node = [@ EXCEPT !.offset = s.offset, !.size = s.size],
                    !.root = [@ EXCEPT ![i].size = s.size]]
  BY DEF Transferred, f, s0
<1> HIDE DEF s
<1>7. /\ v.node = [w.node EXCEPT !.offset = s.offset, !.size = s.size]
      /\ v.root = [w.root EXCEPT ![i].size = s.size]
  BY <1>6 DEF WState
<1>8. /\ v.node.dir_entry_index = i /\ v.node.size = s.size /\ v.node.offset = s.offset
      /\ v.node.first_data_block = w.node.first_data_block
  BY <1>1, <1>7 DEF NodeType
<1>9. /\ v.root[i].size = s.size /\ v.root[i].index = w.root[i].index
      /\ \A j \in DirSlots : j # i => v.root[j] = w.root[j]
  BY <1>1, <1>7 DEF DirEntry
<1>10. w.root[i].index = w.node.first_data_block /\ w.node.first_data_block # FAT_EOC
  BY Sizes DEF NodeCurrent
<1>11. QED
  BY <1>5, <1>8, <1>9, <1>10 DEF NodeCurrent, OthersKept

LEMMA WriteOutcomeCurrent ==
  ASSUME NEW w0 \in WState, WellLinked(w0.fat), NodeCurrent(w0),
         w0.node.first_data_block # FAT_EOC => StartsChain(w0.fat, w0.node.first_data_block),
         NEW buf \in [Nat -> Byte], NEW count \in Nat,
         NEW o, o = WriteOutcome(w0, buf, count)
  PROVE  NodeCurrent(o.w) /\ OthersKept(w0, o.w)
<1>1. CASE w0.node.first_data_block = FAT_EOC /\ DiskFull(w0.fat)
  BY <1>1 DEF WriteOutcome, OthersKept
<1>2. CASE ~(w0.node.first_data_block = FAT_EOC /\ DiskFull(w0.fat))
  <2> DEFINE w1 == IF w0.node.first_data_block = FAT_EOC THEN add_file_to_disk(w0) ELSE w0
             wanted == w1.node.offset + count
             x == Extended(w1, wanted)
             room == total_file_blocks(x.w.fat, x.w.node.first_data_block) * BlockSize
             end_offset == IF wanted > room THEN room ELSE wanted
             w2 == Transferred(x.w, end_offset, buf)
  <2>1. o = IF x.at_end THEN [w |-> x.w, code |-> 0]
            ELSE [w |-> w2, code |-> w2.node.offset - w1.node.offset]
    BY <1>2 DEF WriteOutcome
  <2>2. /\ w1 \in WState /\ WellLinked(w1.fat) /\ StartsChain(w1.fat, w1.node.first_data_block)
        /\ NodeCurrent(w1) /\ OthersKept(w0, w1)
    <3>1. CASE w0.node.first_data_block = FAT_EOC
      <4>1. ~DiskFull(w0.fat) /\ w1 = add_file_to_disk(w0)
        BY <1>2, <3>1
      <4> HIDE DEF w1
      <4>2. QED
        BY <3>1, <4>1, AddFile, AddFileCurrent
    <3>2. CASE w0.node.first_data_block # FAT_EOC
      <4>1. w1 = w0
        BY <3>2
      <4> HIDE DEF w1
      <4>2. QED
        BY <3>2, <4>1 DEF OthersKept
    <3>3. QED
      BY <3>1, <3>2
  <2> HIDE DEF w1
  <2>3. w1.node.offset \in Nat
    BY <2>2 DEF WState, NodeType
  <2>4. wanted \in Nat
    BY <2>3
  <2> HIDE DEF wanted
  <2>5. /\ x.w \in WState
        /\ x.w.node = w1.node /\ x.w.root = w1.root
        /\ StartsChain(x.w.fat, w1.node.first_data_block)
    BY <2>2, <2>4, ExtendedType
  <2> HIDE DEF x
  <2>6. NodeCurrent(x.w) /\ OthersKept(w0, x.w)
    BY <2>2, <2>5 DEF NodeCurrent, OthersKept
  <2>7. x.w.node.first_data_block \in Blocks /\ x.w.fat \in FatType
    BY <2>5 DEF StartsChain, WState
  <2>8. room \in Nat
    BY <2>7, TotalType, ProductType
  <2> HIDE DEF room
  <2>9. end_offset \in Nat
    BY <2>4, <2>8
  <2> HIDE DEF end_offset
  <2>10. NodeCurrent(w2) /\ OthersKept(x.w, w2)
    BY <2>5, <2>6, <2>7, <2>9, TransferredCurrent
  <2> HIDE DEF w2
  <2>11. OthersKept(w0, w2)
    BY <2>6, <2>10 DEF OthersKept
  <2>12. QED
    BY <2>1, <2>6, <2>10, <2>11
<1>3. QED
  BY <1>1, <1>2

-----------------------------------------------------------------------------
(* The calls that open nothing and write nothing.                          *)

\* A descriptor that is left may have its offset moved inside the file; entries of open
\* files stay, and others only lose their size.
LEMMA CacheKept ==
  ASSUME CacheInv, Open' \subseteq Open,
         \A fd \in Open' : /\ Node(fd)'.filename = Node(fd).filename
                           /\ Node(fd)'.dir_entry_index = Node(fd).dir_entry_index
                           /\ Node(fd)'.size = Node(fd).size
                           /\ Node(fd)'.first_data_block = Node(fd).first_data_block
                           /\ \/ Node(fd)'.offset = Node(fd).offset
                              \/ Node(fd)'.offset <= Node(fd).size
                           /\ root'[Node(fd).dir_entry_index] = root[Node(fd).dir_entry_index],
         \A j \in Listed' : (j \in Listed /\ root'[j] = root[j]) \/ root'[j].size = 0
  PROVE  CacheInv'
<1>1. OpenOnce'
  BY DEF CacheInv, OpenOnce
<1>2. EmptyHasNoSize'
  BY DEF CacheInv, EmptyHasNoSize
<1>3. CacheIsCurrent'
  BY DEF CacheInv, CacheIsCurrent
<1>4. QED
  BY <1>1, <1>2, <1>3 DEF CacheInv

LEMMA CacheUnread ==
  ASSUME CacheInv, UNCHANGED <<fd_table, root>>
  PROVE  CacheInv'
<1>1. Open' = Open /\ Listed' = Listed /\ \A fd : Node(fd)' = Node(fd)
  BY DEF Open, Listed, Entries, Node
<1>2. QED
  BY <1>1, CacheKept

LEMMA CacheEmptied ==
  ASSUME CacheInv, fd_table' = fd_table_constructor, UNCHANGED root
  PROVE  CacheInv'
<1>1. Open' = {} /\ Listed' = Listed
  BY EmptyTable DEF Open, Listed, Entries
<1>2. QED
  BY <1>1, CacheKept

LEMMA CacheCreate ==
  ASSUME IInv, CacheInv, NEW name \in NameArgs, fs_create(name)
  PROVE  CacheInv'
<1>1. CASE UNCHANGED root
  BY <1>1, CacheUnread DEF fs_create
<1>2. CASE ~(UNCHANGED root)
  <2> DEFINE i == FirstEntry(Null)
  <2>1. /\ Entries(Null) # {}
        /\ root' = [root EXCEPT ![i] = [filename |-> name, size |-> 0, index |-> FAT_EOC]]
        /\ UNCHANGED fd_table
    BY <1>2 DEF fs_create
  <2>2. i \in DirSlots /\ root[i].filename = Null
    BY <2>1, FirstEntryFound
  <2>3. TypeOK /\ root \in [DirSlots -> DirEntry]
    BY DEF IInv, TypeOK
  <2> HIDE DEF i
  <2>4. root'[i].size = 0 /\ \A j \in DirSlots : j # i => root'[j] = root[j]
    BY <2>1, <2>2, <2>3
  <2>5. Open' = Open /\ \A fd : Node(fd)' = Node(fd)
    BY <2>1 DEF Open, Node
  <2>6. \A fd \in Open : Node(fd).dir_entry_index \in DirSlots /\ Node(fd).dir_entry_index # i
    BY <2>2, <2>3, NodeFacts DEF IInv, ChainInv, OpenFilesListed, NodeType
  <2>7. \A j \in Listed' : (j \in Listed /\ root'[j] = root[j]) \/ root'[j].size = 0
    BY <2>4 DEF Listed, Entries
  <2>8. QED
    BY <2>4, <2>5, <2>6, <2>7, CacheKept
<1>3. QED
  BY <1>1, <1>2

LEMMA CacheDelete ==
  ASSUME IInv, CacheInv, NEW name \in NameArgs, fs_delete(name)
  PROVE  CacheInv'
<1>1. CASE UNCHANGED <<root, fat>>
  BY <1>1, CacheUnread DEF fs_delete
<1>2. CASE ~(UNCHANGED <<root, fat>>)
  <2> DEFINE i == FirstEntry(name)
  <2>1. /\ Entries(name) # {} /\ ~isOpenByName(fd_table, name)
        /\ root' = [root EXCEPT ![i] = EmptyEntry]
        /\ UNCHANGED fd_table
    BY <1>2 DEF fs_delete
  <2>2. i \in DirSlots /\ root[i].filename = name
    BY <2>1, FirstEntryFound
  <2>3. TypeOK /\ TableCounted /\ root \in [DirSlots -> DirEntry]
    BY DEF IInv, ChainInv, TypeOK
  <2> HIDE DEF i
  <2>4. root'[i] = EmptyEntry /\ \A j \in DirSlots : j # i => root'[j] = root[j]
    BY <2>1, <2>2, <2>3
  <2>5. Open' = Open /\ \A fd : Node(fd)' = Node(fd)
    BY <2>1 DEF Open, Node
  <2>6. \A fd \in Open : Node(fd).dir_entry_index \in DirSlots /\ Node(fd).dir_entry_index # i
    BY <2>1, <2>2, <2>3, NodeFacts, OpenByName DEF IInv, ChainInv, OpenFilesListed, NodeType
  <2>7. \A j \in Listed' : (j \in Listed /\ root'[j] = root[j]) \/ root'[j].size = 0
    BY <2>4 DEF Listed, Entries, EmptyEntry
  <2>8. QED
    BY <2>4, <2>5, <2>6, <2>7, CacheKept
<1>3. QED
  BY <1>1, <1>2

LEMMA CacheEraseAll ==
  ASSUME IInv, CacheInv, erase_all_files
  PROVE  CacheInv'
<1>1. CASE UNCHANGED <<root, fat>>
  BY <1>1, CacheUnread DEF erase_all_files
<1>2. CASE ~(UNCHANGED <<root, fat>>)
  <2>1. /\ fd_table.fdsOccupied = 0
        /\ root' = [i \in DirSlots |-> EmptyEntry]
        /\ UNCHANGED fd_table
    BY <1>2 DEF erase_all_files
  <2>2. Open = {}
    <3>1. TypeOK /\ TableCounted
      BY DEF IInv, ChainInv
    <3>2. QED
      BY <2>1, <3>1, NodeFacts, FS_EmptySet DEF TableCounted
  <2>3. Open' = {}
    BY <2>1, <2>2 DEF Open
  <2>4. Listed' = {}
    BY <2>1 DEF Listed, Entries, EmptyEntry
  <2>5. QED
    BY <2>3, <2>4, CacheKept
<1>3. QED
  BY <1>1, <1>2

LEMMA CacheClose ==
  ASSUME IInv, CacheInv, NEW fd \in FdArgs, fs_close(fd)
  PROVE  CacheInv'
<1>1. CASE ~isUsable(fd)
  BY <1>1, CacheUnread DEF fs_close, volume
<1>2. CASE isUsable(fd)
  <2>1. TypeOK
    BY DEF IInv
  <2>2. /\ UNCHANGED root /\ fd \in Fds
        /\ fd_table'.nodes = [fd_table.nodes EXCEPT ![fd] = fdNode_constructor]
    BY <1>2 DEF fs_close, removeFd, isUsable, volume
  <2>3. \A x \in Fds : Node(x)' = IF x = fd THEN fdNode_constructor ELSE Node(x)
    BY <2>1, <2>2, NodeFacts DEF Node
  <2>4. ~fdNode_constructor.in_use
    BY DEF fdNode_constructor
  <2>5. \A x \in Open' : x \in Fds /\ Node(x)'.in_use
    BY DEF Open, InUse, Node
  <2>6. \A x \in Open' : x \in Open /\ Node(x)' = Node(x)
    BY <2>1, <2>3, <2>4, <2>5, NodeFacts
  <2>7. Listed' = Listed
    BY <2>2 DEF Listed, Entries
  <2>8. QED
    BY <2>2, <2>6, <2>7, CacheKept
<1>3. QED
  BY <1>1, <1>2

\* fs_lseek refuses an offset past the size, and fs_read stops there.
LEMMA CacheMoved ==
  ASSUME IInv, CacheInv, NEW fd, isUsable(fd), NEW offset \in Nat, offset <= Node(fd).size,
         fd_table' = [fd_table EXCEPT !.nodes[fd].offset = offset], UNCHANGED root
  PROVE  CacheInv'
<1> DEFINE node == [Node(fd) EXCEPT !.offset = offset]
<1>1. TypeOK /\ TableCounted /\ ClosedNodesReset /\ fd \in Open /\ Node(fd) \in NodeType
  BY NodeFacts DEF IInv, ChainInv, isUsable, isOpenByFd, Node
<1>2. /\ node \in NodeType /\ node.in_use = Node(fd).in_use
      /\ node.filename = Node(fd).filename /\ node.size = Node(fd).size
      /\ node.dir_entry_index = Node(fd).dir_entry_index
      /\ node.first_data_block = Node(fd).first_data_block /\ node.offset = offset
  BY <1>1 DEF NodeType
<1>3. fd_table' = [fd_table EXCEPT !.nodes[fd] = node]
  BY DEF Node
<1> HIDE DEF node
<1>4. Open' = Open /\ \A x \in Fds : Node(x)' = IF x = fd THEN node ELSE Node(x)
  BY <1>1, <1>2, <1>3, NodeUpdate
<1>5. Open \subseteq Fds /\ Listed' = Listed
  BY <1>1, NodeFacts DEF Listed, Entries
<1>6. QED
  BY <1>2, <1>4, <1>5, CacheKept

LEMMA CacheSeek ==
  ASSUME IInv, CacheInv, NEW fd \in FdArgs, NEW offset \in OffsetArgs, fs_lseek(fd, offset)
  PROVE  CacheInv'
<1>1. CASE ~isUsable(fd) \/ offset > Node(fd).size
  BY <1>1, CacheUnread DEF fs_lseek, volume
<1>2. CASE ~(~isUsable(fd) \/ offset > Node(fd).size)
  <2>1. /\ fd_table' = [fd_table EXCEPT !.nodes[fd].offset = offset] /\ UNCHANGED root
        /\ isUsable(fd) /\ ~(offset > Node(fd).size)
    BY <1>2 DEF fs_lseek, volume
  <2>2. offset \in Nat
    BY DEF OffsetArgs
  <2>3. Node(fd).size \in Nat
    BY <2>1, NodeFacts DEF IInv, isUsable, NodeType
  <2>4. offset <= Node(fd).size
    BY <2>1, <2>2, <2>3
  <2>5. QED
    BY <2>1, <2>2, <2>4, CacheMoved
<1>3. QED
  BY <1>1, <1>2

LEMMA CacheRead ==
  ASSUME IInv, CacheInv, NEW fd, NEW buf, NEW count \in Nat, fs_read(fd, buf, count)
  PROVE  CacheInv'
<1> DEFINE refused == buf = Null \/ ~isUsable(fd)
           nothing == count = 0 \/ Node(fd).first_data_block = FAT_EOC
                        \/ Node(fd).offset >= Node(fd).size
<1>1. CASE refused \/ nothing
  BY <1>1, CacheUnread DEF fs_read, volume
<1>2. CASE ~(refused \/ nothing)
  <2> DEFINE s == ReadOutcome(Node(fd), count)
  <2>1. /\ isUsable(fd) /\ Node(fd).first_data_block # FAT_EOC
        /\ ~(Node(fd).offset >= Node(fd).size)
        /\ fd_table' = [fd_table EXCEPT !.nodes[fd].offset = s.offset] /\ UNCHANGED root
    BY <1>2 DEF fs_read, volume
  <2>2. TypeOK /\ Node(fd) \in NodeType
    BY <2>1, NodeFacts DEF IInv, isUsable
  <2>3. Node(fd).offset <= Node(fd).size
    BY <2>1, <2>2 DEF NodeType
  <2>4. s \in ReadState /\ s.offset <= Node(fd).size
    BY <2>1, <2>2, <2>3, ReadOutcomeType
  <2> HIDE DEF s
  <2>5. s.offset \in Nat
    BY <2>4 DEF ReadState
  <2>6. QED
    BY <2>1, <2>4, <2>5, CacheMoved
<1>3. QED
  BY <1>1, <1>2

-----------------------------------------------------------------------------
(* fs_open and fs_write.                                                   *)

\* The new descriptor holds what the entry says: copied from it, or the 0 of the
\* constructor if the file has no blocks.
LEMMA CacheOpen ==
  ASSUME ~SharedOpens, IInv, CacheInv, NEW name \in NameArgs, fs_open(name)
  PROVE  CacheInv'
<1> DEFINE refused == \/ ~disk_mounted
                      \/ ~isValidFileName(name)
                      \/ table_is_full(fd_table)
                      \/ Entries(name) = {}
<1>1. CASE refused
  BY <1>1, CacheUnread DEF fs_open, volume
<1>2. CASE ~refused
  <2>1. TypeOK /\ TableCounted /\ root \in [DirSlots -> DirEntry]
    BY DEF IInv, ChainInv, TypeOK
  <2>2. PICK fd, i : fd = addFd(fd_table) /\ i = FirstEntry(name)
    OBVIOUS
  <2>3. /\ name # Null /\ ~table_is_full(fd_table) /\ Entries(name) # {}
        /\ ~isOpenByName(fd_table, name)
        /\ fd_table' = Occupied(fd_table, fd, name, CacheEntry(Node(fd), i))
        /\ UNCHANGED root
    BY <1>2, <2>2 DEF fs_open, isValidFileName, volume
  <2>4. fd \in Fds /\ fd \notin Open
    BY <2>1, <2>2, <2>3, AddFdFound
  <2>5. i \in DirSlots /\ root[i].filename = name /\ i \in Listed
    BY <2>2, <2>3, FirstEntryFound DEF Listed, Entries
  <2>6. PICK node : node = [CacheEntry(Node(fd), i) EXCEPT !.in_use = TRUE, !.filename = name]
    OBVIOUS
  <2>7. /\ node.filename = name /\ node.dir_entry_index = i
        /\ node.size = root[i].size /\ node.first_data_block = root[i].index
        /\ node.offset = 0
    <3>1. Node(fd) = fdNode_constructor /\ Node(fd) \in NodeType
      BY <2>1, <2>4, NodeFacts DEF IInv, ChainInv, ClosedNodesReset
    <3>2. root[i].index = FAT_EOC => root[i].size = 0
      BY <2>5 DEF CacheInv, EmptyHasNoSize
    <3>3. QED
      BY <2>6, <3>1, <3>2 DEF CacheEntry, NodeType, fdNode_constructor
  <2>8. \A x \in Fds : Node(x)' = IF x = fd THEN node ELSE Node(x)
    BY <2>1, <2>3, <2>4, <2>6, NodeFacts DEF Node, Occupied
  <2>9. \A x \in Open' : x \in Fds /\ Node(x)'.in_use
    BY DEF Open, InUse, Node
  <2>10. \A x \in Open' : \/ x = fd /\ Node(x)' = node
                          \/ x \in Open /\ Node(x)' = Node(x) /\ Node(x).filename # name
    BY <2>1, <2>3, <2>8, <2>9, NodeFacts, OpenByName
  <2>11. OpenOnce'
    BY <2>7, <2>10 DEF CacheInv, OpenOnce
  <2>12. EmptyHasNoSize'
    BY <2>3 DEF CacheInv, EmptyHasNoSize, Listed, Entries
  <2>13. CacheIsCurrent'
    <3>1. root[i].size >= 0
      BY <2>1, <2>5 DEF DirEntry
    <3>2. QED
      BY <2>3, <2>7, <2>10, <3>1 DEF CacheInv, CacheIsCurrent
  <2>14. QED
    BY <2>11, <2>12, <2>13 DEF CacheInv
<1>3. QED
  BY <1>1, <1>2

\* What fs_write puts into the entry is what it puts into the node, and no other
\* descriptor keeps a copy of this entry.
LEMMA CacheWrite ==
  ASSUME IInv, CacheInv, NEW fd \in FdArgs, NEW buf \in BufArgs, NEW count \in CountArgs,
         fs_write(fd, buf, count)
  PROVE  CacheInv'
<1> DEFINE refused == buf = Null \/ ~isUsable(fd) \/ count = 0
<1>1. CASE refused
  BY <1>1, CacheUnread DEF fs_write, volume
<1>2. CASE ~refused
  <2>1. /\ TypeOK /\ TableCounted /\ ClosedNodesReset /\ WellLinked(fat)
        /\ fd \in Open /\ fd \in Fds /\ Node(fd) \in NodeType /\ count \in Nat
    BY <1>2, NodeFacts, ClientAssumption
    DEF IInv, ChainInv, ChainsWellLinked, isUsable, isOpenByFd, Node, CountArgs
  <2>2. PICK w0 : w0 = [fat |-> fat, data |-> data, root |-> root, node |-> Node(fd)]
    OBVIOUS
  <2>3. PICK bytes : bytes = Bytes(Node(fd).filename, Node(fd).offset, buf)
    OBVIOUS
  <2>4. PICK o : o = WriteOutcome(w0, bytes, count)
    OBVIOUS
  <2>5. root' = o.w.root /\ fd_table' = [fd_table EXCEPT !.nodes[fd] = o.w.node]
    BY <1>2, <2>2, <2>3, <2>4 DEF fs_write
  <2>6. w0 \in WState
    BY <2>1, <2>2 DEF TypeOK, WState
  <2>7. bytes \in [Nat -> Byte]
    <3>1. Node(fd).filename \in Names /\ Node(fd).offset \in Nat /\ buf \in Versions
      BY <1>2, <2>1 DEF IInv, ChainInv, OpenFilesListed, NodeType, BufArgs
    <3>2. QED
      BY <2>3, <3>1 DEF Bytes, Byte
  <2>8. w0.node.first_data_block # FAT_EOC => StartsChain(w0.fat, w0.node.first_data_block)
    BY <2>1, <2>2 DEF IInv, ChainInv, HeadsStartChains, Heads, FdHeads
  <2>9. PICK e : e = Node(fd).dir_entry_index
    OBVIOUS
  <2>10. /\ \A x \in Open : Node(x).dir_entry_index \in Listed
         /\ \A x \in Open : x # fd => Node(x).dir_entry_index # e
    <3>1. \A x \in Open : /\ Node(x).dir_entry_index \in DirSlots
                          /\ root[Node(x).dir_entry_index].filename = Node(x).filename
                          /\ Node(x).filename # Null
      BY <2>1, NodeFacts DEF IInv, ChainInv, OpenFilesListed, NodeType
    <3>2. QED
      BY <2>1, <2>9, <3>1 DEF Listed, Entries, CacheInv, OpenOnce
  <2>11. NodeCurrent(w0)
    BY <2>1, <2>2, <2>10 DEF CacheInv, CacheIsCurrent, EmptyHasNoSize, NodeCurrent
  <2>12. WriteEffect(w0, o.w)
    BY <2>1, <2>2, <2>4, <2>6, <2>7, <2>8, WriteOutcomeEffect
  <2>13. NodeCurrent(o.w) /\ OthersKept(w0, o.w)
    BY <2>1, <2>2, <2>4, <2>6, <2>7, <2>8, <2>11, WriteOutcomeCurrent
  <2>14. PICK node : node = o.w.node
    OBVIOUS
  <2>15. /\ node \in NodeType
         /\ node.in_use = Node(fd).in_use /\ node.filename = Node(fd).filename
         /\ node.dir_entry_index = e
         /\ \A j \in DirSlots : root'[j].filename = root[j].filename
    BY <2>2, <2>5, <2>9, <2>12, <2>14 DEF WriteEffect, WState, SameFile
  <2>16. Open' = Open /\ \A x \in Fds : Node(x)' = IF x = fd THEN node ELSE Node(x)
    BY <2>1, <2>5, <2>14, <2>15, NodeUpdate
  <2>17. Node(fd)' = node /\ \A x \in Open : x # fd => Node(x)' = Node(x)
    BY <2>1, <2>16, NodeFacts
  <2>18. Listed' = Listed /\ Listed \subseteq DirSlots
    BY <2>15 DEF Listed, Entries
  <2>19. \A j \in Listed : j # e => root'[j] = root[j]
    BY <2>2, <2>5, <2>9, <2>13, <2>18 DEF OthersKept
  <2>20. /\ node.size = root'[e].size
         /\ node.first_data_block = root'[e].index
         /\ node.offset <= root'[e].size
         /\ root'[e].index = FAT_EOC => root'[e].size = 0
    BY <2>5, <2>13, <2>14, <2>15 DEF NodeCurrent
  <2>21. OpenOnce'
    BY <2>15, <2>16, <2>17 DEF CacheInv, OpenOnce
  <2>22. EmptyHasNoSize'
    BY <2>18, <2>19, <2>20 DEF CacheInv, EmptyHasNoSize
  <2>23. CacheIsCurrent'
    BY <2>10, <2>15, <2>16, <2>17, <2>19, <2>20 DEF CacheInv, CacheIsCurrent
  <2>24. QED
    BY <2>21, <2>22, <2>23 DEF CacheInv
<1>3. QED
  BY <1>1, <1>2

-----------------------------------------------------------------------------
(* The theorem.                                                            *)

LEMMA CacheNext ==
  ASSUME ~SharedOpens, IInv, CacheInv, [Next]_vars
  PROVE  CacheInv'
<1>1. CASE \/ UNCHANGED vars \/ fs_info \/ fs_ls \/ free_blocks \/ \E fd \in FdArgs : fs_stat(fd)
  BY <1>1, CacheUnread DEF vars, volume, fs_info, fs_ls, free_blocks, fs_stat
<1>2. CASE fs_mount \/ fs_umount
  BY <1>2, CacheUnread, CacheEmptied DEF volume, fs_mount, fs_umount
<1>3. CASE erase_all_files
  BY <1>3, CacheEraseAll
<1>4. CASE \/ \E name \in NameArgs : fs_create(name)
           \/ \E name \in NameArgs : fs_delete(name)
           \/ \E name \in NameArgs : fs_open(name)
  BY <1>4, CacheCreate, CacheDelete, CacheOpen
<1>5. CASE \/ \E fd \in FdArgs : fs_close(fd)
           \/ \E fd \in FdArgs, offset \in OffsetArgs : fs_lseek(fd, offset)
           \/ \E fd \in FdArgs, buf \in BufArgs, count \in CountArgs : fs_write(fd, buf, count)
  BY <1>5, CacheClose, CacheSeek, CacheWrite
<1>6. ASSUME NEW fd \in FdArgs, NEW buf \in BufArgs, NEW count \in CountArgs,
             fs_read(fd, buf, count)
      PROVE  CacheInv'
  <2>1. count \in Nat
    BY ClientAssumption DEF CountArgs
  <2>2. QED
    BY <1>6, <2>1, CacheRead
<1>7. QED
  BY <1>1, <1>2, <1>3, <1>4, <1>5, <1>6 DEF Next

\* A client that opens no file twice never meets a stale copy (fdTable.h, struct
\* fdNode): the size, first block and entry that fs_open cached stay those of the
\* directory through every write, seek and read, and the offset stays in the file.
THEOREM CacheCurrent ==
  ASSUME ~SharedOpens
  PROVE  Spec => []CacheIsCurrent
<1>1. Init => CacheInv
  <2>1. Init => Open = {} /\ Listed = {}
    BY EmptyTable DEF Init, Open, Listed, Entries, EmptyEntry
  <2>2. QED
    BY <2>1 DEF CacheInv, OpenOnce, EmptyHasNoSize, CacheIsCurrent
<1>2. IInv /\ CacheInv /\ [Next]_vars => CacheInv'
  BY CacheNext
<1>3. CacheInv => CacheIsCurrent
  BY DEF CacheInv
<1>4. QED
  BY <1>1, <1>2, <1>3, Invariance, PTL DEF Spec

-----------------------------------------------------------------------------
(* What the directory reaches.                                             *)

\* Every block that is taken is block 0 or in the chain of one of heads.
Reached(table, heads) ==
  \A b \in Blocks : table[b] # 0 => b = 0 \/ \E h \in heads : b \in ChainOf(table, h)

NoOrphans == Reached(fat, DirHeads)

LEMMA NoOrphansNoLeaks ==
  ASSUME IInv, NoOrphans
  PROVE  NoBlockLeaks
<1>1. fat \in FatType /\ WellLinked(fat) /\ \A h \in DirHeads : StartsChain(fat, h)
  BY DEF IInv, TypeOK, ChainInv, ChainsWellLinked, HeadsStartChains, Heads
<1>2. fat[0] # 0
  BY <1>1, Sizes DEF WellLinked, LinksLeadToAllocated, FAT_EOC
<1>3. \A h \in DirHeads : \A b \in ChainOf(fat, h) : b \in Blocks /\ fat[b] # 0
  BY <1>1, ChainClosed
<1>4. QED
  BY <1>2, <1>3, Sizes DEF NoOrphans, Reached, NoBlockLeaks, FreeBlocks

-----------------------------------------------------------------------------
(* fs_write.                                                               *)

LEMMA AddFileLengthens ==
  ASSUME NEW w \in WState, WellLinked(w.fat), ~DiskFull(w.fat),
         NEW v, v = add_file_to_disk(w)
  PROVE  Lengthened(w.fat, v.fat, v.node.first_data_block)
<1> DEFINE table == w.fat
           b == first_block_available(table)
           new == set_fat_entry(table, b, FAT_EOC)
<1>1. table \in FatType /\ w.node \in NodeType /\ FAT_EOC \in Links /\ WellLinked(table)
  BY DEF WState, Links
<1>2. b \in Blocks /\ table[b] = 0
  BY FirstAvailable
<1>3. v.fat = new /\ v.node = [w.node EXCEPT !.first_data_block = b]
  BY DEF add_file_to_disk
<1> HIDE DEF table, b
<1>4. new \in FatType /\ \A c \in Blocks : new[c] = IF c = b THEN FAT_EOC ELSE table[c]
  BY <1>1, <1>2, SetEntryType
<1>5. v.node.first_data_block = b
  BY <1>1, <1>3 DEF NodeType
<1> HIDE DEF new
<1>6. Lengthened(table, new, b)
  BY <1>1, <1>2, <1>4, NewChainLengthens
<1>7. QED
  BY <1>3, <1>5, <1>6 DEF table

LEMMA ExtendedLengthens ==
  ASSUME NEW w \in WState, WellLinked(w.fat), StartsChain(w.fat, w.node.first_data_block),
         NEW end_offset \in Nat, NEW x, x = Extended(w, end_offset)
  PROVE  Lengthened(w.fat, x.w.fat, w.node.first_data_block)
<1> DEFINE first == w.node.first_data_block
           total_bytes == total_file_blocks(w.fat, first) * BlockSize
           needed_blocks == IF end_offset > total_bytes
                            THEN total_block_size(end_offset - total_bytes) ELSE 0
           a == allocate_more_blocks(w.fat, w.data, first, needed_blocks)
<1>1. w.fat \in FatType /\ w.data \in DataType /\ first \in Blocks
  BY DEF WState, StartsChain
<1>2. total_bytes \in Nat
  BY <1>1, TotalType, ProductType
<1> HIDE DEF total_bytes
<1>3. needed_blocks \in Nat
  BY <1>2, BlockCountType
<1> HIDE DEF needed_blocks
<1>4. Lengthened(w.fat, a.fat, first)
  BY <1>1, <1>3, AllocateAppends DEF Lengthened
<1>5. x.w = [w EXCEPT !.fat = a.fat, !.data = a.data]
  BY DEF Extended, first, total_bytes, needed_blocks
<1> HIDE DEF a, first
<1>6. x.w.fat = a.fat
  BY <1>5 DEF WState
<1>7. QED
  BY <1>4, <1>6 DEF first

\* What fs_write takes, it takes for the chain of its file, which keeps its first block.
LEMMA WriteOutcomeLengthens ==
  ASSUME NEW w0 \in WState, WellLinked(w0.fat),
         w0.node.first_data_block # FAT_EOC => StartsChain(w0.fat, w0.node.first_data_block),
         NEW buf \in [Nat -> Byte], NEW count \in Nat,
         NEW o, o = WriteOutcome(w0, buf, count)
  PROVE  /\ \/ o.w.fat = w0.fat /\ o.w.node.first_data_block = FAT_EOC
            \/ o.w.node.first_data_block \in Blocks
         /\ w0.node.first_data_block # FAT_EOC
              => o.w.node.first_data_block = w0.node.first_data_block
         /\ Lengthened(w0.fat, o.w.fat, o.w.node.first_data_block)
<1>1. CASE w0.node.first_data_block = FAT_EOC /\ DiskFull(w0.fat)
  BY <1>1 DEF WriteOutcome, Lengthened
<1>2. CASE ~(w0.node.first_data_block = FAT_EOC /\ DiskFull(w0.fat))
  <2> DEFINE w1 == IF w0.node.first_data_block = FAT_EOC THEN add_file_to_disk(w0) ELSE w0
             first == w1.node.first_data_block
             wanted == w1.node.offset + count
             x == Extended(w1, wanted)
             room == total_file_blocks(x.w.fat, x.w.node.first_data_block) * BlockSize
             end_offset == IF wanted > room THEN room ELSE wanted
             w2 == Transferred(x.w, end_offset, buf)
  <2>1. o = IF x.at_end THEN [w |-> x.w, code |-> 0]
            ELSE [w |-> w2, code |-> w2.node.offset - w1.node.offset]
    BY <1>2 DEF WriteOutcome
  <2>2. /\ w1 \in WState /\ WellLinked(w1.fat) /\ StartsChain(w1.fat, first)
        /\ \A h : StartsChain(w0.fat, h) => StartsChain(w1.fat, h)
        /\ Lengthened(w0.fat, w1.fat, first)
        /\ w0.node.first_data_block # FAT_EOC => first = w0.node.first_data_block
    <3>1. CASE w0.node.first_data_block = FAT_EOC
      <4>1. ~DiskFull(w0.fat) /\ w1 = add_file_to_disk(w0)
        BY <1>2, <3>1
      <4> HIDE DEF w1
      <4>2. QED
        BY <3>1, <4>1, AddFile, AddFileLengthens
    <3>2. CASE w0.node.first_data_block # FAT_EOC
      <4>1. w1 = w0
        BY <3>2
      <4> HIDE DEF w1
      <4>2. QED
        BY <3>2, <4>1 DEF Lengthened
    <3>3. QED
      BY <3>1, <3>2
  <2> HIDE DEF w1
  <2>3. w1.node.offset \in Nat
    BY <2>2 DEF WState, NodeType
  <2>4. wanted \in Nat
    BY <2>3
  <2> HIDE DEF wanted
  <2>5. /\ x.w \in WState /\ x.w.node = w1.node
        /\ StartsChain(x.w.fat, first)
        /\ Lengthened(w1.fat, x.w.fat, first)
    BY <2>2, <2>4, ExtendedType, ExtendedLengthens
  <2> HIDE DEF x
  <2>6. Lengthened(w0.fat, x.w.fat, first)
    BY <2>2, <2>5, LengthenedTwice
  <2>7. first \in Blocks /\ x.w.node.first_data_block = first /\ x.w.fat \in FatType
    BY <2>5 DEF StartsChain, WState
  <2>8. room \in Nat
    BY <2>7, TotalType, ProductType
  <2> HIDE DEF room
  <2>9. end_offset \in Nat
    BY <2>4, <2>8
  <2> HIDE DEF end_offset
  <2>10. w2.fat = x.w.fat /\ w2.node.first_data_block = first
    BY <2>5, <2>7, <2>9, TransferredType
  <2> HIDE DEF w2, first
  <2>11. o.w.fat = x.w.fat /\ o.w.node.first_data_block = first
    BY <2>1, <2>7, <2>10
  <2>12. QED
    BY <2>2, <2>6, <2>7, <2>11
<1>3. QED
  BY <1>1, <1>2

\* The first block of the node goes into its entry, so what is taken for the node is
\* reached from the directory.
LEMMA LeakWrite ==
  ASSUME IInv, CacheInv, NoOrphans,
         NEW fd \in FdArgs, NEW buf \in BufArgs, NEW count \in CountArgs,
         fs_write(fd, buf, count)
  PROVE  NoOrphans'
<1> DEFINE refused == buf = Null \/ ~isUsable(fd) \/ count = 0
<1>1. CASE refused
  <2>1. UNCHANGED <<root, fat>>
    BY <1>1 DEF fs_write, volume
  <2>2. QED
    BY <2>1 DEF NoOrphans, Reached, DirHeads, Listed, Entries
<1>2. CASE ~refused
  <2>1. /\ TypeOK /\ WellLinked(fat)
        /\ fd \in Open /\ fd \in Fds /\ Node(fd) \in NodeType /\ count \in Nat
    BY <1>2, NodeFacts, ClientAssumption
    DEF IInv, ChainInv, ChainsWellLinked, isUsable, isOpenByFd, Node, CountArgs
  <2>2. PICK w0 : w0 = [fat |-> fat, data |-> data, root |-> root, node |-> Node(fd)]
    OBVIOUS
  <2>3. PICK bytes : bytes = Bytes(Node(fd).filename, Node(fd).offset, buf)
    OBVIOUS
  <2>4. PICK o : o = WriteOutcome(w0, bytes, count)
    OBVIOUS
  <2>5. fat' = o.w.fat /\ root' = o.w.root
    BY <1>2, <2>2, <2>3, <2>4 DEF fs_write
  <2>6. w0 \in WState
    BY <2>1, <2>2 DEF TypeOK, WState
  <2>7. bytes \in [Nat -> Byte]
    <3>1. Node(fd).filename \in Names /\ Node(fd).offset \in Nat /\ buf \in Versions
      BY <1>2, <2>1 DEF IInv, ChainInv, OpenFilesListed, NodeType, BufArgs
    <3>2. QED
      BY <2>3, <3>1 DEF Bytes, Byte
  <2>8. w0.node.first_data_block # FAT_EOC => StartsChain(w0.fat, w0.node.first_data_block)
    BY <2>1, <2>2 DEF IInv, ChainInv, HeadsStartChains, Heads, FdHeads
  <2>9. PICK e : e = Node(fd).dir_entry_index
    OBVIOUS
  <2>10. e \in Listed
    BY <2>1, <2>9 DEF IInv, ChainInv, OpenFilesListed, Listed, Entries, NodeType
  <2>11. NodeCurrent(w0)
    BY <2>1, <2>2, <2>9, <2>10 DEF CacheInv, CacheIsCurrent, EmptyHasNoSize, NodeCurrent
  <2>12. WriteEffect(w0, o.w) /\ NodeCurrent(o.w) /\ OthersKept(w0, o.w)
    BY <2>1, <2>2, <2>4, <2>6, <2>7, <2>8, <2>11, WriteOutcomeEffect, WriteOutcomeCurrent
  <2>13. PICK first : first = o.w.node.first_data_block
    OBVIOUS
  <2>14. /\ (fat' = fat /\ first = FAT_EOC) \/ first \in Blocks
         /\ root[e].index # FAT_EOC => first = root[e].index
         /\ Lengthened(fat, fat', first)
    BY <2>1, <2>2, <2>4, <2>5, <2>6, <2>7, <2>8, <2>9, <2>11, <2>13, WriteOutcomeLengthens
    DEF NodeCurrent
  <2>15. /\ Listed' = Listed
         /\ root'[e].index = first
         /\ \A i \in Listed : i # e => root'[i] = root[i]
    BY <2>2, <2>5, <2>9, <2>12, <2>13
    DEF WriteEffect, SameFile, NodeCurrent, OthersKept, Listed, Entries
  <2>16. DirHeads \subseteq DirHeads'
    BY <2>10, <2>14, <2>15 DEF DirHeads
  <2>17. \A h \in DirHeads : ChainOf(fat, h) \subseteq ChainOf(fat', h)
    BY <2>14 DEF Lengthened, IInv, ChainInv, HeadsStartChains, Heads
  <2>18. ASSUME NEW b \in Blocks, fat'[b] # 0
         PROVE  b = 0 \/ \E h \in DirHeads' : b \in ChainOf(fat', h)
    <3>1. CASE fat[b] # 0
      BY <2>16, <2>17, <3>1 DEF NoOrphans, Reached
    <3>2. CASE fat[b] = 0
      <4>1. b \in ChainOf(fat', first) /\ first \in Blocks
        BY <2>14, <2>18, <3>2 DEF Lengthened
      <4>2. first \in DirHeads'
        BY <2>10, <2>15, <4>1, Sizes DEF DirHeads
      <4>3. QED
        BY <4>1, <4>2
    <3>3. QED
      BY <3>1, <3>2
  <2>19. QED
    BY <2>18 DEF NoOrphans, Reached
<1>3. QED
  BY <1>1, <1>2

-----------------------------------------------------------------------------
(* The directory.                                                          *)

\* A new entry has no first block.
LEMMA LeakCreate ==
  ASSUME IInv, NoOrphans, NEW name \in NameArgs, fs_create(name)
  PROVE  NoOrphans'
<1>1. UNCHANGED fat
  BY DEF fs_create
<1>2. DirHeads \subseteq DirHeads'
  <2>1. CASE UNCHANGED root
    BY <2>1 DEF DirHeads, Listed, Entries
  <2>2. CASE ~(UNCHANGED root)
    <3> DEFINE i == FirstEntry(Null)
    <3>1. /\ Entries(Null) # {}
          /\ root' = [root EXCEPT ![i] = [filename |-> name, size |-> 0, index |-> FAT_EOC]]
      BY <2>2 DEF fs_create
    <3>2. i \in DirSlots /\ root[i].filename = Null
      BY <3>1, FirstEntryFound
    <3> HIDE DEF i
    <3>3. \A j \in Listed : j \in Listed' /\ root'[j] = root[j]
      BY <3>1, <3>2 DEF Listed, Entries, IInv, TypeOK
    <3>4. QED
      BY <3>3 DEF DirHeads
  <2>3. QED
    BY <2>1, <2>2
<1>3. QED
  BY <1>1, <1>2 DEF NoOrphans, Reached

\* fs_delete frees the whole chain of the entry that it clears.
LEMMA LeakDelete ==
  ASSUME IInv, NoOrphans, NEW name \in NameArgs, fs_delete(name)
  PROVE  NoOrphans'
<1>1. CASE UNCHANGED <<root, fat>>
  BY <1>1 DEF NoOrphans, Reached, DirHeads, Listed, Entries
<1>2. CASE ~(UNCHANGED <<root, fat>>)
  <2> DEFINE i == FirstEntry(name)
             head == root[i].index
  <2>1. /\ Entries(name) # {}
        /\ root' = [root EXCEPT ![i] = EmptyEntry]
        /\ fat' = erase_file(fat, head)
        /\ name # Null
    BY <1>2 DEF fs_delete, isValidFileName
  <2>2. i \in Listed
    BY <2>1, FirstEntryFound DEF Listed, Entries
  <2>3. /\ fat \in FatType /\ WellLinked(fat) /\ \A h \in DirHeads : StartsChain(fat, h)
        /\ root \in [DirSlots -> DirEntry]
    BY DEF IInv, TypeOK, ChainInv, ChainsWellLinked, HeadsStartChains, Heads
  <2> HIDE DEF i
  <2>4. \A j \in Listed : j # i => j \in Listed' /\ root'[j] = root[j]
    BY <2>1, <2>3 DEF Listed, Entries
  <2>5. \A h \in DirHeads : h # head => h \in DirHeads'
    BY <2>4 DEF DirHeads
  <2>6. CASE head = FAT_EOC
    <3>1. fat' = fat /\ head \notin DirHeads
      BY <2>1, <2>6 DEF erase_file, DirHeads
    <3>2. QED
      BY <2>5, <3>1 DEF NoOrphans, Reached
  <2>7. CASE head # FAT_EOC
    <3>1. StartsChain(fat, head)
      BY <2>2, <2>3, <2>7 DEF DirHeads
    <3> HIDE DEF head
    <3>2. \A b \in Blocks : fat'[b] = IF b \in ChainOf(fat, head) THEN 0 ELSE fat[b]
      BY <2>1, <2>3, <3>1, EraseExact
    <3>3. \A h \in DirHeads : h # head => ChainOf(fat, h) \subseteq ChainOf(fat', h)
      BY <2>1, <2>3, <3>1, EraseKeeps
    <3>4. QED
      BY <2>5, <3>2, <3>3 DEF NoOrphans, Reached
  <2>8. QED
    BY <2>6, <2>7
<1>3. QED
  BY <1>1, <1>2

\* The loop of erase_all_files comes to every entry, and leaves no block behind.
LEMMA EraseAllFrees ==
  ASSUME IInv, NoOrphans
  PROVE  \A b \in Blocks :
           Iterate(EraseEntry, [fat |-> fat, slot |-> 0])[FileMax].fat[b] # 0 => b = 0
<1> DEFINE s0 == [fat |-> fat, slot |-> 0]
           x(n) == Iterate(EraseEntry, s0)[n]
           Later(s) == {root[i].index : i \in {j \in Listed : j >= s.slot}} \ {FAT_EOC}
           T == {s \in EraseAllState : /\ WellLinked(s.fat)
                                       /\ \A h \in Later(s) : StartsChain(s.fat, h)
                                       /\ Reached(s.fat, Later(s))}
<1>1. /\ fat \in FatType /\ WellLinked(fat) /\ root \in [DirSlots -> DirEntry]
      /\ \A h \in DirHeads : StartsChain(fat, h)
      /\ \A i, j \in Listed : root[i].index = root[j].index /\ root[i].index # FAT_EOC => i = j
      /\ FileMax \in Nat \ {0}
  BY TableAssumption
  DEF IInv, TypeOK, ChainInv, ChainsWellLinked, HeadsStartChains, HeadsBelongToOneEntry, Heads
<1>2. s0 \in T
  <2>1. Later(s0) = DirHeads
    BY <1>1 DEF DirHeads, Listed, DirSlots
  <2>2. s0 \in EraseAllState /\ s0.fat = fat
    BY <1>1 DEF EraseAllState
  <2> HIDE DEF s0
  <2>3. QED
    BY <1>1, <2>1, <2>2 DEF NoOrphans
<1>3. ASSUME NEW s \in T
      PROVE  EraseEntry[s] \in T
  <2>1. s \in EraseAllState /\ WellLinked(s.fat) /\ s.fat \in FatType /\ s.slot \in 0 .. FileMax
        /\ (\A h \in Later(s) : StartsChain(s.fat, h)) /\ Reached(s.fat, Later(s))
    BY DEF EraseAllState
  <2>2. CASE s.slot = FileMax
    BY <2>1, <2>2 DEF EraseEntry
  <2>3. CASE s.slot # FileMax
    <3>1. PICK i : i = s.slot
      OBVIOUS
    <3>2. PICK table : table = IF root[i].filename = Null THEN s.fat
                               ELSE erase_file(s.fat, root[i].index)
      OBVIOUS
    <3>3. PICK t : t = EraseEntry[s]
      OBVIOUS
    <3>4. i \in DirSlots /\ i + 1 \in 0 .. FileMax /\ t = [fat |-> table, slot |-> i + 1]
      BY <2>1, <2>3, <3>1, <3>2, <3>3, TableAssumption DEF EraseEntry, DirSlots
    <3>5. \A j \in Listed : j >= i <=> j >= i + 1 \/ j = i
      BY <3>4, TableAssumption DEF Listed, DirSlots
    <3>6. CASE root[i].filename = Null \/ root[i].index = FAT_EOC
      <4>1. table = s.fat
        BY <3>2, <3>6 DEF erase_file
      <4>2. Later(t) = Later(s)
        BY <3>1, <3>4, <3>5, <3>6 DEF Listed, Entries
      <4> HIDE DEF Later
      <4>3. QED
        BY <2>1, <3>3, <3>4, <4>1, <4>2 DEF EraseAllState
    <3>7. CASE ~(root[i].filename = Null \/ root[i].index = FAT_EOC)
      <4>1. PICK h0 : h0 = root[i].index
        OBVIOUS
      <4>2. i \in Listed /\ table = erase_file(s.fat, h0) /\ h0 # FAT_EOC
        BY <3>2, <3>4, <3>7, <4>1 DEF Listed, Entries
      <4>3. h0 \in Later(s)
        BY <3>1, <3>5, <4>1, <4>2
      <4>4. Later(t) = Later(s) \ {h0}
        <5>1. t.slot = i + 1 /\ ~(i >= i + 1)
          BY <3>4, TableAssumption DEF DirSlots
        <5>2. \A j \in Listed : j >= t.slot => j >= s.slot /\ root[j].index # h0
          BY <1>1, <3>1, <3>5, <4>1, <4>2, <5>1
        <5>3. \A j \in Listed : j >= s.slot => j >= t.slot \/ root[j].index = h0
          BY <3>1, <3>5, <4>1, <5>1
        <5> HIDE DEF s0
        <5>4. QED
          BY <5>2, <5>3
      <4> HIDE DEF Later
      <4>5. /\ table \in FatType /\ WellLinked(table)
            /\ \A h : StartsChain(s.fat, h) /\ h # h0 => StartsChain(table, h)
        BY <2>1, <4>2, <4>3, EraseFile
      <4>6. \A b \in Blocks : table[b] = IF b \in ChainOf(s.fat, h0) THEN 0 ELSE s.fat[b]
        BY <2>1, <4>2, <4>3, EraseExact
      <4>7. \A h \in Later(t) : ChainOf(s.fat, h) \subseteq ChainOf(table, h)
        BY <2>1, <4>2, <4>3, <4>4, EraseKeeps
      <4>8. Reached(table, Later(t))
        BY <2>1, <4>4, <4>6, <4>7 DEF Reached
      <4>9. QED
        BY <2>1, <3>3, <3>4, <4>4, <4>5, <4>8 DEF EraseAllState
    <3>8. QED
      BY <3>6, <3>7
  <2>4. QED
    BY <2>2, <2>3
<1>4. x(0) = s0 /\ \A n \in Nat : x(n + 1) = EraseEntry[x(n)]
  BY IterateDef
<1> HIDE DEF s0, T, Later
<1>5. \A n \in Nat : x(n) \in T
  BY <1>2, <1>3, IterateInvariant
<1> HIDE DEF x
<1>6. \A n \in Nat : n <= FileMax => x(n).slot = n
  <2> DEFINE S == {n \in Nat : n <= FileMax => x(n).slot = n}
  <2>1. 0 \in S
    BY <1>4 DEF s0
  <2>2. ASSUME NEW n \in S
        PROVE  n + 1 \in S
    <3>1. x(n) \in EraseAllState
      BY <1>5 DEF T
    <3>2. ASSUME n + 1 <= FileMax
          PROVE  EraseEntry[x(n)].slot = n + 1
      BY <1>1, <2>2, <3>1, <3>2 DEF EraseEntry
    <3>3. QED
      BY <1>4, <3>2
  <2>3. S = Nat
    BY <2>1, <2>2, NatSetInduction
  <2>4. QED
    BY <2>3
<1>7. x(FileMax).slot = FileMax /\ Reached(x(FileMax).fat, Later(x(FileMax)))
  BY <1>1, <1>5, <1>6 DEF T
<1>8. Later(x(FileMax)) = {}
  <2>1. \A j \in Listed : ~(j >= FileMax)
    BY <1>1 DEF Listed, DirSlots
  <2>2. QED
    BY <1>7, <2>1 DEF Later
<1>9. QED
  BY <1>7, <1>8 DEF Reached, x, s0

LEMMA LeakEraseAll ==
  ASSUME IInv, NoOrphans, erase_all_files
  PROVE  NoOrphans'
<1>1. CASE UNCHANGED <<root, fat>>
  BY <1>1 DEF NoOrphans, Reached, DirHeads, Listed, Entries
<1>2. CASE ~(UNCHANGED <<root, fat>>)
  <2>1. fat' = Iterate(EraseEntry, [fat |-> fat, slot |-> 0])[FileMax].fat
    BY <1>2 DEF erase_all_files
  <2>2. QED
    BY <2>1, EraseAllFrees DEF NoOrphans, Reached
<1>3. QED
  BY <1>1, <1>2

-----------------------------------------------------------------------------
(* No call loses a block.                                                  *)

LEMMA LeakNext ==
  ASSUME IInv, CacheInv, NoOrphans, [Next]_vars
  PROVE  NoOrphans'
<1>1. ASSUME UNCHANGED <<root, fat>>
      PROVE  NoOrphans'
  BY <1>1 DEF NoOrphans, Reached, DirHeads, Listed, Entries
<1>2. CASE \/ UNCHANGED vars \/ fs_mount \/ fs_umount \/ fs_info \/ fs_ls \/ free_blocks
           \/ \E name \in NameArgs : fs_open(name)
           \/ \E fd \in FdArgs : fs_close(fd)
           \/ \E fd \in FdArgs : fs_stat(fd)
           \/ \E fd \in FdArgs, offset \in OffsetArgs : fs_lseek(fd, offset)
           \/ \E fd \in FdArgs, buf \in BufArgs, count \in CountArgs : fs_read(fd, buf, count)
  BY <1>1, <1>2
  DEF vars, volume, fs_mount, fs_umount, fs_info, fs_ls, free_blocks, fs_open, fs_close,
      fs_stat, fs_lseek, fs_read
<1>3. CASE \/ erase_all_files
           \/ \E name \in NameArgs : fs_create(name)
           \/ \E name \in NameArgs : fs_delete(name)
  BY <1>3, LeakEraseAll, LeakCreate, LeakDelete
<1>4. ASSUME NEW fd \in FdArgs, NEW buf \in BufArgs, NEW count \in CountArgs,
             fs_write(fd, buf, count)
      PROVE  NoOrphans'
  BY <1>4, LeakWrite
<1>5. QED
  BY <1>2, <1>3, <1>4 DEF Next

\* A client that opens no file twice loses no block of the volume, on a volume of any
\* size: what fs_write took can be reached from the directory (add_file_to_disk,
\* allocate_more_blocks), and fs_delete and erase_all_files free whole chains (erase_file).
THEOREM NothingLeaks ==
  ASSUME ~SharedOpens
  PROVE  Spec => []NoBlockLeaks
<1>1. Init => CacheInv /\ NoOrphans
  <2>1. Init => Open = {} /\ Listed = {}
    BY EmptyTable DEF Init, Open, Listed, Entries, EmptyEntry
  <2>2. Init => \A b \in Blocks : fat[b] # 0 => b = 0
    BY Sizes DEF Init
  <2>3. QED
    BY <2>1, <2>2 DEF CacheInv, OpenOnce, EmptyHasNoSize, CacheIsCurrent, NoOrphans, Reached
<1>2. IInv /\ CacheInv /\ NoOrphans /\ [Next]_vars => CacheInv' /\ NoOrphans'
  BY CacheNext, LeakNext
<1>3. IInv /\ NoOrphans => NoBlockLeaks
  BY NoOrphansNoLeaks
<1>4. QED
  BY <1>1, <1>2, <1>3, Invariance, PTL DEF Spec

==============================================================================
