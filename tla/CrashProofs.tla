----------------------------- MODULE CrashProofs -----------------------------
(***************************************************************************)
(* Proofs about CrashFS: what a kill between two block writes leaves.  The  *)
(* invariant says of every point of a call how far the chains are made, so  *)
(* that a kill there is known to leave them sound, or to tear a file.       *)
(***************************************************************************)
EXTENDS CrashFS, ContentProofs

-----------------------------------------------------------------------------
(* The invariant, for every client that does not mount a torn volume.      *)

\* What holds at every moment of every call.
TableInv ==
  /\ TypeOK
  /\ TableCounted
  /\ ClosedNodesReset
  /\ NamesUnique
  /\ OpenFilesListed
  /\ HeadsBelongToOneEntry

Sound(table, heads) ==
  table \in FatType /\ WellLinked(table) /\ \A h \in heads : StartsChain(table, h)

JobFirst == JobNode.first_data_block
JobEntry == JobNode.dir_entry_index

JobType ==
  [pc : JobPc \cup {"idle"}, call : {Null, "write", "delete", "erase_all"}, fd : Int,
   buf : Versions \cup {Null}, start : Nat, wanted : Nat, needed_blocks : Nat,
   new_blocks : Nat, at_end : BOOLEAN, end_block : Nat, available_block : Nat,
   write_block : Nat, slot : Nat, before : {job.before}]

\* A write goes on through a descriptor that is open.
Writer ==
  /\ job.call = "write" /\ job.fd \in Open
  /\ job.buf \in Versions /\ job.start <= JobNode.offset

AtIdle == job = Idle /\ Sound(fat, Heads)

AtAdd ==
  /\ Running("add") /\ Writer /\ Sound(fat, Heads)
  /\ JobFirst = FAT_EOC /\ ~DiskFull(fat)

\* The first block of the node is free, and no chain of any other node or entry.
Unclaimed ==
  /\ Sound(fat, Heads \ {JobFirst})
  /\ JobFirst \in Blocks /\ fat[JobFirst] = 0

AtIndex == Running("index") /\ Writer /\ Unclaimed /\ JobFirst \notin DirHeads
AtClaim == Running("claim") /\ Writer /\ Unclaimed

HasChain == Writer /\ Sound(fat, Heads) /\ JobFirst # FAT_EOC

AtPlan == Running("plan") /\ HasChain

\* end_block is the last block of the file.
EndKnown == job.end_block \in ChainOf(fat, JobFirst) /\ fat[job.end_block] = FAT_EOC

AtExtend == Running("extend") /\ HasChain /\ EndKnown

AtLink ==
  /\ Running("link") /\ HasChain /\ EndKnown /\ job.needed_blocks # 0
  /\ job.available_block \in Blocks /\ fat[job.available_block] = 0

\* The FAT as it will be when the block that is linked is marked too.
Marked ==
  IF Running("mark") THEN set_fat_entry(fat, job.available_block, FAT_EOC) ELSE fat

AtMark ==
  /\ Running("mark") /\ Writer /\ Sound(Marked, Heads) /\ JobFirst # FAT_EOC
  /\ job.needed_blocks # 0
  /\ fat \in FatType /\ job.available_block \in ChainOf(Marked, JobFirst)
  /\ fat[job.available_block] = 0

AtTransfer == Running("transfer") /\ HasChain /\ job.write_block \in Blocks

\* The chain that is erased is nobody's.
AtDelete ==
  /\ Running("erase") /\ job.call = "delete"
  /\ Sound(fat, Heads \cup {job.write_block})
  /\ job.write_block \notin Heads

\* The entry has no blocks or its chain has been erased, in part at least.
Gone(i) == root[i].index # FAT_EOC => fat[root[i].index] = 0

\* The chain of the entry is as it was.
Whole(i) == root[i].index # FAT_EOC => StartsChain(fat, root[i].index)

AtSweep ==
  /\ Running("sweep") /\ job.call = "erase_all" /\ Open = {}
  /\ Sound(fat, {})
  /\ \A i \in Listed : IF i < job.slot THEN Gone(i) ELSE Whole(i)

AtErase ==
  /\ Running("erase") /\ job.call = "erase_all" /\ Open = {}
  /\ Sound(fat, {job.write_block})
  /\ job.slot \in Listed /\ root[job.slot].index # FAT_EOC
  /\ root[job.slot].index = job.write_block \/ Gone(job.slot)
  /\ \A i \in Listed : /\ i < job.slot => Gone(i)
                       /\ i > job.slot => Whole(i) /\ root[i].index # job.write_block

AtSomePoint ==
  \/ AtIdle \/ AtAdd \/ AtIndex \/ AtClaim \/ AtPlan \/ AtExtend \/ AtLink \/ AtMark
  \/ AtTransfer \/ AtDelete \/ AtSweep \/ AtErase

\* A volume that has been torn is not mounted again, and stays as it is.
Wrecked ==
  /\ damage.torn # {} /\ job = Idle /\ ~disk_mounted
  /\ fd_table = fd_table_constructor

CrashInv ==
  /\ job \in JobType
  /\ damage \in [torn : SUBSET (Names \cup {Null}), leaked : BOOLEAN]
  /\ \/ Wrecked
     \/ damage.torn = {} /\ TableInv /\ AtSomePoint

\* A call is at the point its pc says.
LEMMA PointOf ==
  ASSUME AtSomePoint
  PROVE  /\ Running("idle") => AtIdle
         /\ Running("add") => AtAdd
         /\ Running("index") => AtIndex
         /\ Running("claim") => AtClaim
         /\ Running("plan") => AtPlan
         /\ Running("extend") => AtExtend
         /\ Running("link") => AtLink
         /\ Running("mark") => AtMark
         /\ Running("transfer") => AtTransfer
         /\ Running("sweep") => AtSweep
         /\ Running("erase") => AtDelete \/ AtErase
         /\ job.pc \in JobPc \cup {"idle"}
BY DEF AtSomePoint, AtIdle, AtAdd, AtIndex, AtClaim, AtPlan, AtExtend, AtLink, AtMark,
  AtTransfer, AtDelete, AtSweep, AtErase, Running, Idle, JobPc

-----------------------------------------------------------------------------
(* What a step does to the table.                                          *)

\* A step that writes neither the directory nor the table.
LEMMA TableKept ==
  ASSUME TableInv, UNCHANGED <<fd_table, root>>, fat' \in FatType, data' \in DataType,
         disk_mounted' \in BOOLEAN, result'.code \in Int
  PROVE  /\ TableInv'
         /\ Open' = Open /\ Listed' = Listed /\ DirHeads' = DirHeads /\ Heads' = Heads
         /\ \A fd : Node(fd)' = Node(fd)
<1>1. /\ Open' = Open /\ Listed' = Listed /\ DirHeads' = DirHeads /\ FdHeads' = FdHeads
      /\ \A fd : Node(fd)' = Node(fd)
  BY DEF Open, Listed, Entries, DirHeads, FdHeads, Node
<1>2. Heads' = Heads
  BY <1>1 DEF Heads
<1>3. TypeOK'
  BY DEF TableInv, TypeOK
<1>4. TableCounted' /\ ClosedNodesReset' /\ NamesUnique' /\ OpenFilesListed' /\ HeadsBelongToOneEntry'
  BY <1>1 DEF TableInv, TableCounted, ClosedNodesReset, NamesUnique, OpenFilesListed,
    HeadsBelongToOneEntry
<1>5. QED
  BY <1>1, <1>2, <1>3, <1>4 DEF TableInv

\* A step that changes the node of a write, which stays on its file.
LEMMA NodeKept ==
  ASSUME TableInv, NEW fd \in Open, NEW node \in NodeType,
         node.in_use = Node(fd).in_use, node.filename = Node(fd).filename,
         node.dir_entry_index = Node(fd).dir_entry_index,
         \/ node.first_data_block = Node(fd).first_data_block
         \/ node.first_data_block \notin Heads,
         fd_table' = [fd_table EXCEPT !.nodes[fd] = node],
         UNCHANGED root, fat' \in FatType, data' \in DataType,
         disk_mounted' \in BOOLEAN, result'.code \in Int
  PROVE  /\ TableInv'
         /\ Open' = Open /\ Listed' = Listed /\ DirHeads' = DirHeads
         /\ Node(fd)' = node
         /\ \A x \in Open : x # fd => Node(x)' = Node(x)
<1>1. /\ TypeOK /\ TableCounted /\ ClosedNodesReset
      /\ fd \in Fds /\ Open \subseteq Fds
  BY NodeFacts DEF TableInv
<1>2. /\ fd_table' \in TableType
      /\ TableCounted' /\ ClosedNodesReset'
      /\ Open' = Open
      /\ \A x \in Fds : Node(x)' = IF x = fd THEN node ELSE Node(x)
  BY <1>1, NodeUpdate
<1>3. /\ Node(fd)' = node
      /\ \A x \in Open : x # fd => Node(x)' = Node(x)
  BY <1>1, <1>2
<1>4. Listed' = Listed /\ DirHeads' = DirHeads
  BY DEF Listed, Entries, DirHeads
<1>5. TypeOK'
  BY <1>1, <1>2 DEF TypeOK
<1>6. NamesUnique'
  BY <1>4 DEF TableInv, NamesUnique
<1>7. \A x \in Open : /\ Node(x)'.filename = Node(x).filename
                      /\ Node(x)'.dir_entry_index = Node(x).dir_entry_index
  BY <1>3
<1>8. OpenFilesListed'
  BY <1>2, <1>7 DEF TableInv, OpenFilesListed
<1>9. HeadsBelongToOneEntry
  BY DEF TableInv
<1>10. HeadsBelongToOneEntry'
  <2>1. CASE node.first_data_block = Node(fd).first_data_block
    <3>1. \A x \in Open : Node(x)'.first_data_block = Node(x).first_data_block
      BY <1>3, <2>1
    <3>2. QED
      BY <1>2, <1>4, <1>7, <1>9, <3>1 DEF HeadsBelongToOneEntry
  <2>2. CASE node.first_data_block \notin Heads
    <3>1. \A i \in Listed : root[i].index # FAT_EOC => root[i].index # node.first_data_block
      BY <2>2 DEF Heads, DirHeads
    <3>2. \A x \in Open : Node(x).first_data_block # FAT_EOC
                            => Node(x).first_data_block # node.first_data_block
      BY <2>2 DEF Heads, FdHeads
    <3>3. \A x, y \in Open :
            Node(x)'.first_data_block = Node(y)'.first_data_block
              /\ Node(x)'.first_data_block # FAT_EOC
              => Node(x)'.dir_entry_index = Node(y)'.dir_entry_index
      BY <1>3, <1>9, <3>2 DEF HeadsBelongToOneEntry
    <3>4. \A x \in Open, i \in Listed :
            Node(x)'.first_data_block = root[i].index /\ root[i].index # FAT_EOC
              => Node(x)'.dir_entry_index = i
      BY <1>3, <1>9, <3>1 DEF HeadsBelongToOneEntry
    <3>5. QED
      BY <1>2, <1>4, <1>9, <3>3, <3>4 DEF HeadsBelongToOneEntry
  <2>3. QED
    BY <2>1, <2>2
<1>11. QED
  BY <1>2, <1>3, <1>4, <1>5, <1>6, <1>8, <1>10 DEF TableInv

\* A step that changes an entry of the directory but not its name.  A new first block is
\* that of the nodes of this entry at most.
LEMMA EntryKept ==
  ASSUME TableInv, NEW e \in Listed, NEW entry \in DirEntry,
         entry.filename = root[e].filename,
         \/ entry.index = root[e].index
         \/ /\ entry.index \notin DirHeads
            /\ \A x \in Open : Node(x).first_data_block = entry.index
                                 => Node(x).dir_entry_index = e,
         root' = [root EXCEPT ![e] = entry],
         UNCHANGED fd_table, fat' \in FatType, data' \in DataType,
         disk_mounted' \in BOOLEAN, result'.code \in Int
  PROVE  /\ TableInv'
         /\ Open' = Open /\ Listed' = Listed /\ FdHeads' = FdHeads
         /\ \A fd : Node(fd)' = Node(fd)
         /\ root'[e] = entry
         /\ \A i \in DirSlots : i # e => root'[i] = root[i]
<1>1. /\ TypeOK /\ root \in [DirSlots -> DirEntry] /\ e \in DirSlots
      /\ Listed \subseteq DirSlots
  BY DEF TableInv, TypeOK, Listed
<1>2. /\ root' \in [DirSlots -> DirEntry]
      /\ root'[e] = entry
      /\ \A i \in DirSlots : i # e => root'[i] = root[i]
  BY <1>1
<1>3. \A i \in DirSlots : root'[i].filename = root[i].filename
  BY <1>2
<1>4. /\ Open' = Open /\ Listed' = Listed /\ FdHeads' = FdHeads
      /\ \A fd : Node(fd)' = Node(fd)
  BY <1>3 DEF Open, Listed, Entries, FdHeads, Node
<1>5. TypeOK'
  BY <1>1, <1>2 DEF TypeOK
<1>6. TableCounted' /\ ClosedNodesReset'
  BY <1>4 DEF TableInv, TableCounted, ClosedNodesReset
<1>7. NamesUnique'
  BY <1>1, <1>3, <1>4 DEF TableInv, NamesUnique
<1>8. \A x \in Open : Node(x).dir_entry_index \in DirSlots
  BY <1>1, NodeFacts DEF NodeType
<1>9. OpenFilesListed'
  BY <1>3, <1>4, <1>8 DEF TableInv, OpenFilesListed
<1>10. HeadsBelongToOneEntry
  BY DEF TableInv
<1>11. HeadsBelongToOneEntry'
  <2>1. CASE entry.index = root[e].index
    <3>1. \A i \in DirSlots : root'[i].index = root[i].index
      BY <1>2, <2>1
    <3>2. QED
      BY <1>1, <1>4, <1>10, <3>1 DEF HeadsBelongToOneEntry
  <2>2. CASE /\ entry.index \notin DirHeads
             /\ \A x \in Open : Node(x).first_data_block = entry.index
                                  => Node(x).dir_entry_index = e
    <3>1. \A i \in Listed : root[i].index # FAT_EOC => root[i].index # entry.index
      BY <2>2 DEF DirHeads
    <3>2. \A i, j \in Listed : root'[i].index = root'[j].index /\ root'[i].index # FAT_EOC => i = j
      BY <1>1, <1>2, <1>10, <3>1 DEF HeadsBelongToOneEntry
    <3>3. \A x \in Open, i \in Listed :
            Node(x).first_data_block = root'[i].index /\ root'[i].index # FAT_EOC
              => Node(x).dir_entry_index = i
      BY <1>1, <1>2, <1>10, <2>2 DEF HeadsBelongToOneEntry
    <3>4. QED
      BY <1>4, <1>10, <3>2, <3>3 DEF HeadsBelongToOneEntry
  <2>3. QED
    BY <2>1, <2>2
<1>12. QED
  BY <1>2, <1>4, <1>5, <1>6, <1>7, <1>9, <1>11 DEF TableInv

-----------------------------------------------------------------------------
(* The points of fs_write.                                                 *)

LEMMA WriterFacts ==
  ASSUME TableInv, job \in JobType, Writer
  PROVE  /\ fat \in FatType /\ data \in DataType /\ root \in [DirSlots -> DirEntry]
         /\ disk_mounted \in BOOLEAN
         /\ job.fd \in Open /\ job.fd \in Fds /\ job.fd \in Int
         /\ JobNode \in NodeType /\ JobNode = fd_table.nodes[job.fd]
         /\ JobNode.filename \in Names /\ JobNode.offset \in Nat /\ JobNode.size \in Nat
         /\ JobFirst \in Links
         /\ JobEntry \in Listed /\ JobEntry \in DirSlots
         /\ root[JobEntry] \in DirEntry /\ root[JobEntry].filename = JobNode.filename
<1>1. TypeOK /\ job.fd \in Open /\ job.fd \in Int
  BY DEF TableInv, Writer, JobType
<1>2. /\ job.fd \in Fds /\ JobNode \in NodeType /\ JobNode = fd_table.nodes[job.fd]
  BY <1>1, NodeFacts DEF JobNode
<1>3. /\ JobEntry \in DirSlots /\ JobNode.filename \in Names \cup {Null}
      /\ JobNode.offset \in Nat /\ JobNode.size \in Nat /\ JobFirst \in Links
  BY <1>2 DEF NodeType, JobEntry, JobFirst
<1>4. JobNode.filename # Null /\ root[JobEntry].filename = JobNode.filename
  BY <1>1 DEF TableInv, OpenFilesListed, JobEntry, JobNode
<1>5. JobEntry \in Listed
  BY <1>3, <1>4 DEF Listed, Entries
<1>6. QED
  BY <1>1, <1>2, <1>3, <1>4, <1>5 DEF TypeOK

\* A write that has its first block starts a chain there.
LEMMA ChainFacts ==
  ASSUME TableInv, job \in JobType, HasChain
  PROVE  /\ fat \in FatType /\ WellLinked(fat)
         /\ StartsChain(fat, JobFirst) /\ JobFirst \in Blocks
<1>1. JobFirst \in Heads
  BY DEF HasChain, Writer, Heads, FdHeads, JobFirst, JobNode
<1>2. QED
  BY <1>1 DEF HasChain, Sound, StartsChain

\* A step of a write that touches neither directory nor table, and what it did not
\* change of the call.
SameCall ==
  /\ job'.call = job.call /\ job'.fd = job.fd /\ job'.buf = job.buf /\ job'.start = job.start
  /\ job'.before = job.before

LEMMA WriterKept ==
  ASSUME Writer, SameCall, Open' = Open, \A fd : Node(fd)' = Node(fd)
  PROVE  Writer' /\ JobNode' = JobNode /\ JobFirst' = JobFirst /\ JobEntry' = JobEntry
<1>1. JobNode' = JobNode
  BY DEF JobNode, SameCall
<1>2. QED
  BY <1>1 DEF Writer, SameCall, JobFirst, JobEntry

LEMMA StartWriteStep ==
  ASSUME TableInv, job \in JobType, AtIdle,
         NEW fd \in FdArgs, NEW buf \in BufArgs, NEW count \in CountArgs, StartWrite(fd, buf, count)
  PROVE  job' \in JobType' /\ TableInv' /\ (AtAdd' \/ AtPlan')
<1>1. /\ buf \in Versions /\ fd \in Open /\ count \in Nat /\ fd \in Int
      /\ Node(fd).first_data_block = FAT_EOC => ~DiskFull(fat)
  BY ClientAssumption
  DEF StartWrite, WritesNothing, BufArgs, isUsable, isOpenByFd, Open, InUse, FdArgs, CountArgs, Fds
<1>2. Node(fd) \in NodeType /\ Node(fd).offset \in Nat
  <2>1. fd \in Fds /\ Node(fd) \in NodeType
    BY <1>1, NodeFacts DEF TableInv
  <2>2. QED
    BY <2>1 DEF NodeType
<1>3. UNCHANGED vars
  BY DEF StartWrite
<1>4. UNCHANGED <<fd_table, root, fat, data, disk_mounted, result>>
  BY <1>3 DEF vars
<1>5. /\ TableInv'
      /\ Open' = Open /\ Heads' = Heads /\ Node(fd)' = Node(fd)
  BY <1>4, TableKept DEF TableInv, TypeOK
<1> DEFINE pc == IF Node(fd).first_data_block = FAT_EOC THEN "add" ELSE "plan"
<1>6. /\ job'.pc = pc /\ job'.call = "write" /\ job'.fd = fd /\ job'.buf = buf
      /\ job'.start = Node(fd).offset
  BY DEF StartWrite, Idle
<1>7. job' \in JobType'
  <2>1. PICK start \in Nat : start = Node(fd).offset
    BY <1>2
  <2>2. PICK before : before = Before(count)
    OBVIOUS
  <2>3. job' = [pc |-> pc, call |-> "write", fd |-> fd, buf |-> buf, start |-> start,
                wanted |-> start + count, needed_blocks |-> 0, new_blocks |-> 0,
                at_end |-> FALSE, end_block |-> 0, available_block |-> 0, write_block |-> 0,
                slot |-> 0, before |-> before]
    BY <2>1, <2>2 DEF StartWrite, Idle
  <2>4. pc \in {"add", "plan"} /\ start + count \in Nat
    BY <1>1
  <2> HIDE DEF pc
  <2>5. QED
    BY <1>1, <2>3, <2>4 DEF JobType, JobPc
<1>8. JobNode' = Node(fd) /\ JobFirst' = Node(fd).first_data_block
  BY <1>5, <1>6 DEF JobNode, JobFirst
<1>9. Writer' /\ Sound(fat, Heads)'
  BY <1>1, <1>2, <1>4, <1>5, <1>6, <1>8 DEF Writer, AtIdle, Sound
<1>10. CASE Node(fd).first_data_block = FAT_EOC
  <2>1. AtAdd'
    BY <1>1, <1>4, <1>6, <1>8, <1>9, <1>10 DEF AtAdd, Running, DiskFull, FreeBlocks
  <2>2. QED
    BY <1>5, <1>7, <2>1
<1>11. CASE Node(fd).first_data_block # FAT_EOC
  <2>1. AtPlan'
    BY <1>6, <1>8, <1>9, <1>11 DEF AtPlan, Running, HasChain
  <2>2. QED
    BY <1>5, <1>7, <2>1
<1>12. QED
  BY <1>10, <1>11

\* add_file_to_disk has cleared its block: the node has it already.
LEMMA AddClearStep ==
  ASSUME TableInv, job \in JobType, AtAdd, AddClear
  PROVE  job' \in JobType' /\ TableInv' /\ AtIndex'
<1> DEFINE b == first_block_available(fat)
           node == [JobNode EXCEPT !.first_data_block = b]
<1>1. Writer /\ Sound(fat, Heads) /\ ~DiskFull(fat)
  BY DEF AtAdd
<1>2. PICK fd : fd = job.fd
  OBVIOUS
<1>3. /\ fat \in FatType /\ data \in DataType /\ fd \in Open
      /\ JobNode \in NodeType /\ JobNode = fd_table.nodes[fd] /\ JobNode = Node(fd)
      /\ disk_mounted \in BOOLEAN /\ TypeOK
  BY <1>2, <1>1, WriterFacts DEF JobNode, TableInv
<1>4. b \in Blocks /\ fat[b] = 0
  BY <1>1, FirstAvailable
<1>5. b \notin Heads
  BY <1>1, <1>4 DEF Sound, StartsChain
<1>6. /\ node \in NodeType
      /\ node.in_use = Node(fd).in_use /\ node.filename = Node(fd).filename
      /\ node.dir_entry_index = Node(fd).dir_entry_index /\ node.first_data_block = b
      /\ node.offset = JobNode.offset
  BY <1>3, <1>4 DEF NodeType, Links
<1>7. /\ fd_table' = [fd_table EXCEPT !.nodes[fd] = node]
      /\ data' = clear_block(data, b)
      /\ UNCHANGED <<disk_mounted, root, fat, result>>
      /\ job' = [job EXCEPT !.pc = "index"]
  BY <1>2, <1>3 DEF AddClear, Goto
<1> HIDE DEF b, node
<1>8. data' \in DataType
  BY <1>3, <1>4, <1>7, ClearType
<1>9. /\ TableInv'
      /\ Open' = Open /\ Listed' = Listed /\ DirHeads' = DirHeads
      /\ Node(fd)' = node
      /\ \A x \in Open : x # fd => Node(x)' = Node(x)
  <2>1. fat' \in FatType /\ disk_mounted' \in BOOLEAN /\ result'.code \in Int
    BY <1>3, <1>7 DEF TypeOK
  <2>2. node.first_data_block \notin Heads
    BY <1>5, <1>6
  <2>3. QED
    BY <1>3, <1>6, <1>7, <1>8, <2>1, <2>2, NodeKept
<1>10. job' \in JobType' /\ job'.pc = "index" /\ SameCall /\ job'.fd = fd
  BY <1>2, <1>7 DEF JobType, JobPc, SameCall
<1>11. JobNode' = node /\ JobFirst' = b
  BY <1>6, <1>9, <1>10 DEF JobNode, JobFirst, SameCall
<1>12. Writer'
  BY <1>2, <1>1, <1>6, <1>9, <1>10, <1>11 DEF Writer, SameCall
<1>13. Heads' \ {b} \subseteq Heads
  <2>1. \A x \in Open : \/ x # fd /\ Node(x)' = Node(x)
                        \/ x = fd /\ Node(fd)' = node /\ node.first_data_block = b
    BY <1>6, <1>9
  <2>2. FdHeads' \subseteq FdHeads \cup {b}
    BY <1>9, <2>1 DEF FdHeads
  <2>3. QED
    BY <1>9, <2>2 DEF Heads
<1>14. Unclaimed'
  BY <1>1, <1>4, <1>7, <1>11, <1>13 DEF Unclaimed, Sound
<1>15. JobFirst' \notin DirHeads'
  BY <1>5, <1>9, <1>11 DEF Heads
<1>16. QED
  BY <1>9, <1>10, <1>12, <1>14, <1>15 DEF AtIndex, Running

\* The directory names the block.
LEMMA AddIndexStep ==
  ASSUME TableInv, job \in JobType, AtIndex, AddIndex
  PROVE  job' \in JobType' /\ TableInv' /\ AtClaim'
<1> DEFINE e == JobEntry
           b == JobFirst
           entry == [root[e] EXCEPT !.index = b]
<1>1. Writer /\ Unclaimed /\ b \notin DirHeads
  BY DEF AtIndex
<1>2. /\ TypeOK /\ job.fd \in Open /\ JobNode = Node(job.fd)
      /\ e \in Listed /\ root[e] \in DirEntry /\ root \in [DirSlots -> DirEntry]
      /\ e = JobNode.dir_entry_index /\ b = JobNode.first_data_block
  BY <1>1, WriterFacts DEF JobNode, JobEntry, JobFirst, TableInv
<1>3. b \in Blocks /\ fat[b] = 0 /\ b # FAT_EOC
  BY <1>1, Sizes DEF Unclaimed
<1>4. entry \in DirEntry /\ entry.filename = root[e].filename /\ entry.index = b
  BY <1>2, <1>3 DEF DirEntry, Links
<1>5. /\ root' = [root EXCEPT ![e] = entry]
      /\ UNCHANGED <<disk_mounted, fd_table, fat, data, result>>
      /\ job' = [job EXCEPT !.pc = "claim"]
  BY <1>2 DEF AddIndex, Goto
<1> HIDE DEF entry, e, b
<1>6. \A x \in Open : Node(x).first_data_block = b => Node(x).dir_entry_index = e
  BY <1>2, <1>3 DEF TableInv, HeadsBelongToOneEntry
<1>7. /\ TableInv'
      /\ Open' = Open /\ Listed' = Listed /\ FdHeads' = FdHeads
      /\ \A fd : Node(fd)' = Node(fd)
      /\ root'[e] = entry
      /\ \A i \in DirSlots : i # e => root'[i] = root[i]
  <2>1. /\ fat' \in FatType /\ data' \in DataType /\ disk_mounted' \in BOOLEAN
        /\ result'.code \in Int /\ UNCHANGED fd_table
    BY <1>2, <1>5 DEF TypeOK
  <2>2. entry.index \notin DirHeads
    BY <1>1, <1>4 DEF b
  <2>3. \A x \in Open : Node(x).first_data_block = entry.index => Node(x).dir_entry_index = e
    BY <1>4, <1>6
  <2>4. QED
    BY <1>2, <1>4, <1>5, <2>1, <2>2, <2>3, EntryKept
<1>8. job' \in JobType' /\ job'.pc = "claim" /\ SameCall
  BY <1>5 DEF JobType, JobPc, SameCall
<1>9. Writer' /\ JobFirst' = b
  BY <1>1, <1>7, <1>8, WriterKept DEF b
<1>10. Heads' \ {b} \subseteq Heads \ {b}
  <2>1. Listed \subseteq DirSlots
    BY DEF Listed
  <2>2. DirHeads' \subseteq DirHeads \cup {b}
    BY <1>4, <1>7, <2>1 DEF DirHeads
  <2>3. QED
    BY <1>7, <2>2 DEF Heads
<1>11. Unclaimed'
  BY <1>1, <1>3, <1>5, <1>9, <1>10 DEF Unclaimed, Sound, b
<1>12. QED
  BY <1>7, <1>8, <1>9, <1>11 DEF AtClaim, Running

\* The FAT claims it: a chain of its own.
LEMMA AddClaimStep ==
  ASSUME TableInv, job \in JobType, AtClaim, AddClaim
  PROVE  job' \in JobType' /\ TableInv' /\ AtPlan'
<1> DEFINE b == JobFirst
<1>1. Writer /\ Unclaimed
  BY DEF AtClaim
<1>2. /\ fat \in FatType /\ WellLinked(fat) /\ b \in Blocks /\ fat[b] = 0
      /\ \A h \in Heads : h # b => StartsChain(fat, h)
      /\ b = JobNode.first_data_block
  BY <1>1 DEF Unclaimed, Sound, JobFirst
<1>3. /\ fat' = set_fat_entry(fat, b, FAT_EOC)
      /\ UNCHANGED <<disk_mounted, fd_table, root, data, result>>
      /\ job' = [job EXCEPT !.pc = "plan"]
  BY <1>2 DEF AddClaim, Goto
<1> HIDE DEF b
<1>4. /\ fat' \in FatType
      /\ \A c \in Blocks : fat'[c] = IF c = b THEN FAT_EOC ELSE fat[c]
  BY <1>2, <1>3, SetEntryType DEF Links
<1>5. /\ WellLinked(fat') /\ StartsChain(fat', b)
      /\ \A h : StartsChain(fat, h) => StartsChain(fat', h)
  BY <1>2, <1>4, NewChain
<1>6. /\ TableInv'
      /\ Open' = Open /\ Heads' = Heads
      /\ \A fd : Node(fd)' = Node(fd)
  BY <1>3, <1>4, TableKept DEF TableInv, TypeOK
<1>7. job' \in JobType' /\ job'.pc = "plan" /\ SameCall
  BY <1>3 DEF JobType, JobPc, SameCall
<1>8. Writer' /\ JobFirst' = b
  BY <1>1, <1>6, <1>7, WriterKept DEF b
<1>9. Sound(fat, Heads)'
  BY <1>2, <1>4, <1>5, <1>6 DEF Sound
<1>10. JobFirst' # FAT_EOC
  BY <1>2, <1>8, Sizes
<1>11. QED
  BY <1>6, <1>7, <1>8, <1>9, <1>10 DEF AtPlan, Running, HasChain

LEMMA PlanWriteStep ==
  ASSUME TableInv, job \in JobType, AtPlan, PlanWrite
  PROVE  job' \in JobType' /\ TableInv' /\ AtExtend'
<1>1. HasChain /\ Writer
  BY DEF AtPlan, HasChain
<1>2. /\ fat \in FatType /\ WellLinked(fat) /\ StartsChain(fat, JobFirst) /\ JobFirst \in Blocks
  BY <1>1, ChainFacts
<1>3. PICK total : total = total_file_blocks(fat, JobFirst)
  OBVIOUS
<1>4. /\ total \in Nat \ {0} /\ total * BlockSize \in Nat
      /\ fat[skip_blocks(fat, JobFirst, total - 1)] = FAT_EOC
      /\ skip_blocks(fat, JobFirst, total - 1) \in ChainOf(fat, JobFirst)
  <2>1. HasLength(fat, JobFirst, total)
    BY <1>2, <1>3, TotalIsLength
  <2>2. total \in Nat \ {0} /\ total - 1 \in Nat
    BY <2>1 DEF HasLength
  <2>3. QED
    BY <1>2, <2>1, <2>2, ProductType, ChainReached DEF HasLength
<1>5. PICK needed, at_end, end_block :
        /\ needed = (IF job.wanted > total * BlockSize
                     THEN total_block_size(job.wanted - total * BlockSize) ELSE 0)
        /\ at_end = (job.wanted > total * BlockSize /\ JobNode.offset = total * BlockSize)
        /\ end_block = skip_blocks(fat, JobFirst, total - 1)
  OBVIOUS
<1>6. /\ UNCHANGED vars
      /\ job' = [job EXCEPT !.pc = "extend", !.needed_blocks = needed, !.at_end = at_end,
                            !.end_block = end_block]
  BY <1>3, <1>5 DEF PlanWrite, JobFirst
<1>7. needed \in Nat /\ at_end \in BOOLEAN
  <2>1. PICK bytes \in Nat : bytes = total * BlockSize
    BY <1>4
  <2>2. job.wanted \in Nat
    BY DEF JobType
  <2>3. job.wanted > bytes => job.wanted - bytes \in Nat
    BY <2>1, <2>2
  <2>4. job.wanted > bytes => total_block_size(job.wanted - bytes) \in Nat
    BY <2>3, BlockCountType
  <2>5. QED
    BY <1>5, <2>1, <2>4
<1>8. end_block \in ChainOf(fat, JobFirst) /\ fat[end_block] = FAT_EOC /\ end_block \in Nat
  <2>1. end_block \in ChainOf(fat, JobFirst) /\ fat[end_block] = FAT_EOC
    BY <1>4, <1>5
  <2>2. QED
    BY <1>2, <2>1, ChainClosed, Sizes
<1>9. UNCHANGED <<disk_mounted, fd_table, root, fat, data, result>>
  BY <1>6 DEF vars
<1>10. /\ TableInv'
       /\ Open' = Open /\ Heads' = Heads
       /\ \A fd : Node(fd)' = Node(fd)
  BY <1>9, TableKept DEF TableInv, TypeOK
<1>11. job' \in JobType' /\ job'.pc = "extend" /\ SameCall /\ job'.end_block = end_block
  BY <1>6, <1>7, <1>8 DEF JobType, JobPc, SameCall
<1>12. Writer' /\ JobFirst' = JobFirst
  BY <1>1, <1>10, <1>11, WriterKept
<1>13. HasChain'
  BY <1>1, <1>9, <1>10, <1>12 DEF HasChain, Sound
<1>14. EndKnown'
  BY <1>8, <1>9, <1>11, <1>12 DEF EndKnown
<1>15. QED
  BY <1>10, <1>11, <1>13, <1>14 DEF AtExtend, Running

LEMMA AllocClearStep ==
  ASSUME TableInv, job \in JobType, AtExtend, AllocClear
  PROVE  job' \in JobType' /\ TableInv' /\ AtLink'
<1>1. PICK b : b = first_block_available(fat)
  OBVIOUS
<1>2. HasChain /\ Writer /\ EndKnown
  BY DEF AtExtend, HasChain
<1>3. b \in Blocks /\ fat[b] = 0 /\ b \in Nat
  BY <1>1, FirstAvailable, Sizes DEF AllocClear
<1>4. /\ data' = clear_block(data, b)
      /\ UNCHANGED <<disk_mounted, fd_table, root, fat, result>>
      /\ job' = [job EXCEPT !.pc = "link", !.available_block = b]
  BY <1>1 DEF AllocClear
<1>5. data' \in DataType
  BY <1>3, <1>4, ClearType DEF TableInv, TypeOK
<1>6. /\ TableInv'
      /\ Open' = Open /\ Heads' = Heads
      /\ \A fd : Node(fd)' = Node(fd)
  BY <1>4, <1>5, TableKept DEF TableInv, TypeOK
<1>7. /\ job' \in JobType' /\ job'.pc = "link" /\ SameCall
      /\ job'.available_block = b /\ job'.end_block = job.end_block
      /\ job'.needed_blocks # 0
  <2>1. job.needed_blocks # 0
    BY DEF AllocClear, JobType
  <2>2. job' \in JobType'
    BY <1>3, <1>4 DEF JobType, JobPc
  <2>3. QED
    BY <1>4, <2>1, <2>2 DEF JobType, SameCall
<1>8. Writer' /\ JobFirst' = JobFirst
  BY <1>2, <1>6, <1>7, WriterKept
<1>9. HasChain'
  BY <1>2, <1>4, <1>6, <1>8 DEF HasChain, Sound
<1>10. EndKnown'
  BY <1>2, <1>4, <1>7, <1>8 DEF EndKnown
<1>11. QED
  BY <1>3, <1>4, <1>6, <1>7, <1>9, <1>10 DEF AtLink, Running

\* With the mark that is still to come, the chain is longer by the new block.
LEMMA AllocLinkStep ==
  ASSUME TableInv, job \in JobType, AtLink, AllocLink
  PROVE  job' \in JobType' /\ TableInv' /\ AtMark'
<1>1. PICK a, b : a = job.end_block /\ b = job.available_block
  OBVIOUS
<1>2. HasChain /\ Writer /\ EndKnown
  BY DEF AtLink, HasChain
<1>3. fat \in FatType /\ WellLinked(fat) /\ StartsChain(fat, JobFirst)
  BY <1>2, ChainFacts
<1>4. /\ a \in ChainOf(fat, JobFirst) /\ fat[a] = FAT_EOC
      /\ a \in Blocks \ {0} /\ fat[a] # 0
      /\ b \in Blocks /\ fat[b] = 0 /\ a # b
  <2>1. a \in ChainOf(fat, JobFirst) /\ fat[a] = FAT_EOC /\ b \in Blocks /\ fat[b] = 0
    BY <1>1, <1>2 DEF EndKnown, AtLink
  <2>2. QED
    BY <1>3, <2>1, ChainClosed
<1>5. /\ fat' = set_fat_entry(fat, a, b)
      /\ UNCHANGED <<disk_mounted, fd_table, root, data, result>>
      /\ job' = [job EXCEPT !.pc = "mark"]
  BY <1>1 DEF AllocLink, Goto
<1>6. /\ fat' \in FatType
      /\ \A c \in Blocks : fat'[c] = IF c = a THEN b ELSE fat[c]
  <2>1. b \in Links /\ a \in Blocks
    BY <1>4 DEF Links
  <2>2. QED
    BY <1>3, <1>5, <2>1, SetEntryType
<1>7. /\ TableInv'
      /\ Open' = Open /\ Heads' = Heads
      /\ \A fd : Node(fd)' = Node(fd)
  BY <1>5, <1>6, TableKept DEF TableInv, TypeOK
<1>8. /\ job' \in JobType' /\ job'.pc = "mark" /\ SameCall /\ job'.available_block = b
      /\ job'.needed_blocks # 0
  BY <1>1, <1>5 DEF AtLink, JobType, JobPc, SameCall
<1>9. Writer' /\ JobFirst' = JobFirst
  BY <1>2, <1>7, <1>8, WriterKept
<1>10. PICK new : new = set_fat_entry(fat', b, FAT_EOC)
  OBVIOUS
<1>11. /\ Marked' = new
       /\ new \in FatType
       /\ \A c \in Blocks : new[c] = IF c = b THEN FAT_EOC ELSE IF c = a THEN b ELSE fat[c]
  <2>1. Marked' = new
    BY <1>8, <1>10 DEF Marked, Running
  <2>2. FAT_EOC \in Links
    BY DEF Links
  <2>3. QED
    BY <1>4, <1>6, <1>10, <2>1, <2>2, SetEntryType
<1>12. WellLinked(new) /\ \A h : StartsChain(fat, h) => StartsChain(new, h)
  BY <1>3, <1>4, <1>11, LinkFreeBlock
<1>13. b \in ChainOf(new, JobFirst)
  <2>1. \A c \in ChainOf(fat, JobFirst) : c \in Blocks /\ fat[c] # 0
    BY <1>3, ChainClosed
  <2>2. \A c \in ChainOf(fat, JobFirst) : fat[c] # FAT_EOC => new[c] = fat[c]
    BY <1>4, <1>11, <2>1
  <2>3. a \in ChainOf(new, JobFirst)
    BY <1>3, <1>4, <1>11, <1>12, <2>2, ChainKept
  <2>4. new[a] = b /\ b # FAT_EOC
    BY <1>4, <1>11, Sizes
  <2>5. QED
    BY <1>3, <1>11, <1>12, <2>3, <2>4, ChainClosed
<1>14. Sound(Marked, Heads)'
  BY <1>2, <1>7, <1>11, <1>12 DEF HasChain, Sound
<1>15. fat'[b] = 0 /\ JobFirst' # FAT_EOC
  BY <1>2, <1>4, <1>6, <1>9 DEF HasChain
<1>16. QED
  BY <1>6, <1>7, <1>8, <1>9, <1>11, <1>13, <1>14, <1>15 DEF AtMark, Running

LEMMA AllocMarkStep ==
  ASSUME TableInv, job \in JobType, AtMark, AllocMark
  PROVE  job' \in JobType' /\ TableInv' /\ AtExtend'
<1>1. PICK b : b = job.available_block
  OBVIOUS
<1>2. /\ Writer /\ JobFirst # FAT_EOC /\ Sound(Marked, Heads)
      /\ fat \in FatType /\ b \in ChainOf(Marked, JobFirst)
  BY <1>1 DEF AtMark
<1>3. Marked = set_fat_entry(fat, b, FAT_EOC)
  BY <1>1 DEF AtMark, Marked
<1>4. /\ fat' = Marked
      /\ UNCHANGED <<disk_mounted, fd_table, root, data, result>>
      /\ job' = [job EXCEPT !.pc = "extend", !.end_block = b,
                            !.needed_blocks = @ - 1, !.new_blocks = @ + 1]
  BY <1>1, <1>3 DEF AllocMark
<1>5. Marked \in FatType /\ WellLinked(Marked) /\ StartsChain(Marked, JobFirst)
  BY <1>2 DEF Sound, Writer, Heads, FdHeads, JobFirst, JobNode
<1>6. b \in Blocks /\ b \in Nat
  BY <1>2, <1>5, ChainClosed, Sizes
<1>7. Marked[b] = FAT_EOC
  <2>1. FAT_EOC \in Links
    BY DEF Links
  <2>2. QED
    BY <1>2, <1>3, <1>6, <2>1, SetEntryType
<1>8. /\ TableInv'
      /\ Open' = Open /\ Heads' = Heads
      /\ \A fd : Node(fd)' = Node(fd)
  BY <1>4, <1>5, TableKept DEF TableInv, TypeOK
<1>9. /\ job' \in JobType' /\ job'.pc = "extend" /\ SameCall /\ job'.end_block = b
  <2>1. PICK needed, new :
          needed = job.needed_blocks - 1 /\ new = job.new_blocks + 1
    OBVIOUS
  <2>2. needed \in Nat /\ new \in Nat
    BY <2>1 DEF AtMark, JobType
  <2>3. job' = [job EXCEPT !.pc = "extend", !.end_block = b, !.needed_blocks = needed,
                           !.new_blocks = new]
    BY <1>4, <2>1
  <2>4. job' \in JobType'
    BY <1>6, <2>2, <2>3 DEF JobType, JobPc
  <2>5. QED
    BY <2>3, <2>4 DEF JobType, SameCall
<1>10. Writer' /\ JobFirst' = JobFirst
  BY <1>2, <1>8, <1>9, WriterKept
<1>11. HasChain'
  BY <1>2, <1>4, <1>8, <1>10 DEF HasChain, Sound
<1>12. EndKnown'
  BY <1>2, <1>4, <1>7, <1>9, <1>10 DEF EndKnown
<1>13. QED
  BY <1>8, <1>9, <1>11, <1>12 DEF AtExtend, Running

LEMMA IdleType ==
  ASSUME job' = Idle
  PROVE  job' \in JobType' /\ job'.pc = "idle"
<1>1. PICK before : before = NoBefore
  OBVIOUS
<1>2. job'.before = before /\ job'.pc = "idle"
  BY <1>1 DEF Idle
<1>3. job' \in [pc : JobPc \cup {"idle"}, call : {Null, "write", "delete", "erase_all"}, fd : Int,
                buf : Versions \cup {Null}, start : Nat, wanted : Nat, needed_blocks : Nat,
                new_blocks : Nat, at_end : BOOLEAN, end_block : Nat, available_block : Nat,
                write_block : Nat, slot : Nat, before : {before}]
  BY <1>1 DEF Idle
<1>4. QED
  BY <1>2, <1>3 DEF JobType

\* The blocks are there: the call is over, or turns to the bytes.
LEMMA AllocDoneStep ==
  ASSUME TableInv, job \in JobType, AtExtend, AllocDone
  PROVE  job' \in JobType' /\ TableInv' /\ (AtIdle' \/ AtTransfer')
<1>1. HasChain /\ Writer
  BY DEF AtExtend, HasChain
<1>2. /\ fat \in FatType /\ JobFirst \in Blocks /\ TypeOK
      /\ StartsChain(fat, JobFirst) /\ WellLinked(fat) /\ JobNode.offset \in Nat
  BY <1>1, ChainFacts, WriterFacts DEF TableInv
<1>3. UNCHANGED <<disk_mounted, fd_table, root, fat, data>>
  BY DEF AllocDone, volume
<1>4. CASE Finish(0)
  <2>1. job' = Idle /\ result'.code \in Int
    BY <1>4, OutcomeCode DEF Finish, Return
  <2>2. TableInv' /\ Heads' = Heads
    BY <1>2, <1>3, <2>1, TableKept DEF TypeOK
  <2>3. AtIdle'
    BY <1>1, <1>3, <2>1, <2>2 DEF AtIdle, HasChain, Sound, Idle
  <2>4. QED
    BY <2>1, <2>2, <2>3, IdleType
<1>5. CASE ~Finish(0)
  <2>1. PICK room, block :
          /\ room = total_file_blocks(fat, JobFirst) * BlockSize
          /\ block = skip_blocks(fat, JobFirst, current_block_offset(JobNode.offset))
    OBVIOUS
  <2>2. room \in Nat
    BY <1>2, <2>1, TotalType, ProductType
  <2>3. block \in Blocks /\ block \in Nat
    <3>1. current_block_offset(JobNode.offset) \in Nat
      BY <1>2, BlockCountType
    <3>2. QED
      BY <1>2, <2>1, <3>1, SkipStep, Sizes
  <2>4. PICK wanted : wanted = IF job.wanted > room THEN room ELSE job.wanted
    OBVIOUS
  <2>5. wanted \in Nat
    BY <2>2, <2>4 DEF JobType
  <2>6. /\ UNCHANGED result
        /\ job' = [job EXCEPT !.pc = "transfer", !.wanted = wanted, !.write_block = block]
    BY <1>5, <2>1, <2>4 DEF AllocDone, JobFirst
  <2>7. /\ TableInv'
        /\ Open' = Open /\ Heads' = Heads
        /\ \A fd : Node(fd)' = Node(fd)
    BY <1>2, <1>3, <2>6, TableKept DEF TypeOK
  <2>8. job' \in JobType' /\ job'.pc = "transfer" /\ SameCall /\ job'.write_block = block
    BY <2>3, <2>5, <2>6 DEF JobType, JobPc, SameCall
  <2>9. Writer' /\ JobFirst' = JobFirst
    BY <1>1, <2>7, <2>8, WriterKept
  <2>10. HasChain'
    BY <1>1, <1>3, <2>7, <2>9 DEF HasChain, Sound
  <2>11. QED
    BY <2>3, <2>7, <2>8, <2>10 DEF AtTransfer, Running
<1>6. QED
  BY <1>4, <1>5

\* The bytes of one block.
LEMMA TransferBlockStep ==
  ASSUME TableInv, job \in JobType, AtTransfer, TransferBlock
  PROVE  job' \in JobType' /\ TableInv' /\ AtTransfer'
<1>1. HasChain /\ Writer
  BY DEF AtTransfer, HasChain
<1>2. PICK fd : fd = job.fd
  OBVIOUS
<1>3. /\ fat \in FatType /\ data \in DataType /\ TypeOK /\ fd \in Open
      /\ JobNode \in NodeType /\ JobNode = fd_table.nodes[fd] /\ JobNode = Node(fd)
      /\ JobNode.filename \in Names /\ JobNode.offset \in Nat /\ JobNode.size \in Nat
  BY <1>1, <1>2, WriterFacts DEF TableInv, JobNode
<1>4. PICK buf : buf = Bytes(JobNode.filename, job.start, job.buf)
  OBVIOUS
<1>5. buf \in [Nat -> Byte]
  BY <1>1, <1>3, <1>4 DEF Bytes, Byte, JobType, Writer
<1> DEFINE r == [offset |-> JobNode.offset, size |-> JobNode.size,
                 block |-> job.write_block, data |-> data]
<1>6. r \in WriteState /\ r.offset >= job.start /\ job.start \in Nat /\ job.wanted \in Nat
  BY <1>1, <1>3 DEF WriteState, AtTransfer, Writer, JobType
<1>7. PICK s : s = WriteTurn(fat, job.wanted, buf, job.start)[r]
  OBVIOUS
<1>8. s \in WriteState /\ s.offset >= job.start
  BY <1>3, <1>5, <1>6, <1>7, WriteTurnType
<1>9. /\ data' = s.data
      /\ fd_table' = [fd_table EXCEPT !.nodes[fd].offset = s.offset, !.nodes[fd].size = s.size]
      /\ job' = [job EXCEPT !.write_block = s.block]
      /\ UNCHANGED <<disk_mounted, root, fat, result>>
  BY <1>2, <1>4, <1>7 DEF TransferBlock
<1> HIDE DEF r
<1>10. s.data \in DataType /\ s.block \in Blocks /\ s.block \in Nat /\ s.offset \in Nat /\ s.size \in Nat
  BY <1>8, Sizes DEF WriteState
<1>11. PICK node : node = [JobNode EXCEPT !.offset = s.offset, !.size = s.size]
  OBVIOUS
<1>12. /\ node \in NodeType
       /\ node.in_use = Node(fd).in_use /\ node.filename = Node(fd).filename
       /\ node.dir_entry_index = Node(fd).dir_entry_index
       /\ node.first_data_block = Node(fd).first_data_block
       /\ node.offset = s.offset
  BY <1>3, <1>10, <1>11 DEF NodeType
<1>13. fd_table' = [fd_table EXCEPT !.nodes[fd] = node]
  <2>1. /\ fd_table.nodes \in [Fds -> NodeType] /\ fd \in Fds
        /\ fd_table \in TableType
    BY <1>3, NodeFacts DEF TypeOK
  <2>2. QED
    BY <1>3, <1>9, <1>11, <2>1 DEF TableType
<1>14. /\ TableInv'
       /\ Open' = Open /\ Listed' = Listed /\ DirHeads' = DirHeads
       /\ Node(fd)' = node
       /\ \A x \in Open : x # fd => Node(x)' = Node(x)
  <2>1. /\ fat' \in FatType /\ data' \in DataType /\ disk_mounted' \in BOOLEAN
        /\ result'.code \in Int /\ UNCHANGED root
    BY <1>3, <1>9, <1>10 DEF TypeOK
  <2>2. QED
    BY <1>3, <1>12, <1>13, <2>1, NodeKept
<1>15. /\ job' \in JobType' /\ SameCall /\ job'.pc = job.pc /\ job'.write_block = s.block
       /\ job'.fd = fd
  BY <1>2, <1>9, <1>10 DEF JobType, SameCall
<1>16. JobNode' = node /\ JobFirst' = JobFirst
  BY <1>3, <1>12, <1>14, <1>15 DEF JobNode, JobFirst
<1>17. Writer'
  BY <1>1, <1>2, <1>8, <1>12, <1>14, <1>15, <1>16 DEF Writer, SameCall
<1>18. Heads' = Heads
  <2>1. \A x \in Open : Node(x)'.first_data_block = Node(x).first_data_block
    BY <1>12, <1>14
  <2>2. FdHeads' = FdHeads
    BY <1>14, <2>1 DEF FdHeads
  <2>3. QED
    BY <1>14, <2>2 DEF Heads
<1>19. HasChain'
  BY <1>1, <1>9, <1>16, <1>17, <1>18 DEF HasChain, Sound
<1>20. QED
  BY <1>10, <1>14, <1>15, <1>19 DEF AtTransfer, Running

\* The size, last.
LEMMA WriteSizeStep ==
  ASSUME TableInv, job \in JobType, AtTransfer, WriteSize
  PROVE  job' \in JobType' /\ TableInv' /\ AtIdle'
<1>1. HasChain /\ Writer
  BY DEF AtTransfer, HasChain
<1>2. PICK e : e = JobEntry
  OBVIOUS
<1>3. /\ TypeOK /\ e \in Listed /\ e \in DirSlots /\ root[e] \in DirEntry
      /\ root \in [DirSlots -> DirEntry] /\ JobNode.size \in Nat /\ JobNode.offset \in Nat
  BY <1>1, <1>2, WriterFacts DEF TableInv
<1>4. PICK entry : entry = [root[e] EXCEPT !.size = JobNode.size]
  OBVIOUS
<1>5. entry \in DirEntry /\ entry.filename = root[e].filename /\ entry.index = root[e].index
  BY <1>3, <1>4 DEF DirEntry
<1>6. /\ root' = [root EXCEPT ![e] = entry]
      /\ UNCHANGED <<disk_mounted, fd_table, fat, data>>
      /\ job' = Idle /\ result'.code \in Int
  <2>1. root' = [root EXCEPT ![e].size = JobNode.size]
    BY <1>2 DEF WriteSize, JobEntry
  <2>2. JobNode.offset - job.start \in Int
    BY <1>3 DEF JobType
  <2>3. QED
    BY <1>3, <1>4, <2>1, <2>2, OutcomeCode DEF WriteSize, Finish, Return
<1>7. /\ TableInv'
      /\ Listed' = Listed /\ FdHeads' = FdHeads
      /\ root'[e] = entry
      /\ \A i \in DirSlots : i # e => root'[i] = root[i]
  <2>1. fat' \in FatType /\ data' \in DataType /\ disk_mounted' \in BOOLEAN
    BY <1>3, <1>6 DEF TypeOK
  <2>2. QED
    BY <1>3, <1>5, <1>6, <2>1, EntryKept
<1>8. Heads' = Heads
  <2>1. Listed \subseteq DirSlots /\ \A i \in DirSlots : root'[i].index = root[i].index
    BY <1>5, <1>7 DEF Listed
  <2>2. DirHeads' = DirHeads
    BY <1>7, <2>1 DEF DirHeads
  <2>3. QED
    BY <1>7, <2>2 DEF Heads
<1>9. AtIdle'
  BY <1>1, <1>6, <1>8 DEF AtIdle, HasChain, Sound, Idle
<1>10. QED
  BY <1>6, <1>7, <1>9, IdleType

-----------------------------------------------------------------------------
(* The points of fs_delete and erase_all_files.                            *)

\* The entry of a file that is not open is cleared: nobody else has its chain.
LEMMA EntryCleared ==
  ASSUME TableInv, NEW i \in Listed, \A x \in Open : Node(x).filename # root[i].filename,
         root' = [root EXCEPT ![i] = EmptyEntry],
         UNCHANGED fd_table, fat' \in FatType, data' \in DataType,
         disk_mounted' \in BOOLEAN, result'.code \in Int
  PROVE  /\ TableInv'
         /\ Open' = Open /\ Listed' = Listed \ {i} /\ \A fd : Node(fd)' = Node(fd)
         /\ \A j \in Listed' : root'[j] = root[j]
         /\ Heads' \subseteq Heads
         /\ root[i].index # FAT_EOC => root[i].index \in Heads \ Heads'
<1>1. TypeOK /\ root \in [DirSlots -> DirEntry] /\ i \in DirSlots /\ Listed \subseteq DirSlots
  BY DEF TableInv, TypeOK, Listed
<1>2. /\ root' \in [DirSlots -> DirEntry]
      /\ \A j \in DirSlots : root'[j] = IF j = i THEN EmptyEntry ELSE root[j]
  BY <1>1, Sizes DEF DirEntry, EmptyEntry, Links
<1>3. Open' = Open /\ FdHeads' = FdHeads /\ \A fd : Node(fd)' = Node(fd)
  BY DEF Open, FdHeads, Node
<1>4. Listed' = Listed \ {i}
  BY <1>1, <1>2 DEF Listed, Entries, EmptyEntry
<1>5. \A j \in Listed' : root'[j] = root[j]
  BY <1>1, <1>2, <1>4
<1>6. \A fd \in Open : Node(fd).dir_entry_index \in DirSlots /\ Node(fd).dir_entry_index # i
  BY <1>1, NodeFacts DEF TableInv, OpenFilesListed, NodeType
<1>7. HeadsBelongToOneEntry
  BY DEF TableInv
<1>8. Heads' \subseteq Heads /\ (root[i].index # FAT_EOC => root[i].index \in Heads \ Heads')
  <2>1. DirHeads' \subseteq DirHeads
    BY <1>4, <1>5 DEF DirHeads
  <2>2. ASSUME root[i].index # FAT_EOC
        PROVE  root[i].index \in DirHeads /\ root[i].index \notin DirHeads' /\ root[i].index \notin FdHeads
    BY <1>4, <1>5, <1>6, <1>7, <2>2 DEF DirHeads, FdHeads, HeadsBelongToOneEntry
  <2>3. QED
    BY <1>3, <2>1, <2>2 DEF Heads
<1>9. TypeOK'
  BY <1>1, <1>2 DEF TypeOK
<1>10. TableCounted' /\ ClosedNodesReset'
  BY <1>3 DEF TableInv, TableCounted, ClosedNodesReset
<1>11. NamesUnique'
  BY <1>4, <1>5 DEF TableInv, NamesUnique
<1>12. OpenFilesListed'
  BY <1>2, <1>3, <1>6 DEF TableInv, OpenFilesListed
<1>13. HeadsBelongToOneEntry'
  BY <1>3, <1>4, <1>5, <1>7 DEF HeadsBelongToOneEntry
<1>14. QED
  BY <1>3, <1>4, <1>5, <1>8, <1>9, <1>10, <1>11, <1>12, <1>13 DEF TableInv

LEMMA StartDeleteStep ==
  ASSUME TableInv, job \in JobType, AtIdle, NEW name \in NameArgs, StartDelete(name)
  PROVE  job' \in JobType' /\ TableInv' /\ AtDelete'
<1>1. PICK i, head : i = FirstEntry(name) /\ head = root[i].index
  OBVIOUS
<1>2. /\ isValidFileName(name) /\ Entries(name) # {} /\ head # FAT_EOC
      /\ ~isOpenByName(fd_table, name)
      /\ root' = [root EXCEPT ![i] = EmptyEntry]
      /\ UNCHANGED <<disk_mounted, fd_table, fat, data, result>>
  BY <1>1 DEF StartDelete, HasBlocks
<1>3. TypeOK /\ TableCounted /\ Sound(fat, Heads)
  BY DEF TableInv, AtIdle
<1>4. i \in DirSlots /\ root[i].filename = name /\ name # Null /\ i \in Listed
  BY <1>1, <1>2, FirstEntryFound DEF isValidFileName, Listed, Entries
<1>5. \A x \in Open : Node(x).filename # root[i].filename
  BY <1>2, <1>3, <1>4, OpenByName
<1>6. TableInv' /\ Heads' \subseteq Heads /\ head \in Heads \ Heads'
  <2>1. fat' \in FatType /\ data' \in DataType /\ disk_mounted' \in BOOLEAN /\ result'.code \in Int
    BY <1>2, <1>3 DEF TypeOK
  <2>2. QED
    BY <1>1, <1>2, <1>4, <1>5, <2>1, EntryCleared
<1>7. head \in Blocks /\ head \in Nat
  BY <1>3, <1>6, Sizes DEF Sound, StartsChain
<1>8. job' \in JobType' /\ job'.pc = "erase" /\ job'.call = "delete" /\ job'.write_block = head
  <2>1. PICK before : before = Before(name)
    OBVIOUS
  <2>2. job' = [pc |-> "erase", call |-> "delete", fd |-> 0, buf |-> Null, start |-> 0,
                wanted |-> 0, needed_blocks |-> 0, new_blocks |-> 0,
                at_end |-> FALSE, end_block |-> 0, available_block |-> 0, write_block |-> head,
                slot |-> 0, before |-> before]
    BY <1>1, <2>1 DEF StartDelete, Idle
  <2>3. QED
    BY <1>7, <2>2 DEF JobType, JobPc
<1>9. QED
  BY <1>2, <1>3, <1>6, <1>8 DEF AtDelete, Running, Sound

LEMMA StartEraseAllStep ==
  ASSUME TableInv, job \in JobType, AtIdle, StartEraseAll
  PROVE  job' \in JobType' /\ TableInv' /\ AtSweep'
<1>1. UNCHANGED <<disk_mounted, fd_table, root, fat, data, result>> /\ fd_table.fdsOccupied = 0
  BY DEF StartEraseAll, vars
<1>2. TypeOK /\ TableCounted /\ Sound(fat, Heads)
  BY DEF TableInv, AtIdle
<1>3. Open = {}
  BY <1>1, <1>2, NodeFacts, FS_EmptySet DEF TableCounted
<1>4. TableInv' /\ Open' = Open /\ Listed' = Listed
  BY <1>1, <1>2, TableKept DEF TypeOK
<1>5. job' \in JobType' /\ job'.pc = "sweep" /\ job'.call = "erase_all" /\ job'.slot = 0
  <2>1. PICK before : before = Before(Null)
    OBVIOUS
  <2>2. job' = [pc |-> "sweep", call |-> "erase_all", fd |-> 0, buf |-> Null, start |-> 0,
                wanted |-> 0, needed_blocks |-> 0, new_blocks |-> 0,
                at_end |-> FALSE, end_block |-> 0, available_block |-> 0, write_block |-> 0,
                slot |-> 0, before |-> before]
    BY <2>1 DEF StartEraseAll, Idle
  <2>3. QED
    BY <2>2 DEF JobType, JobPc
<1>6. \A i \in Listed : ~(i < 0) /\ Whole(i)
  BY <1>2 DEF Listed, DirSlots, Whole, Sound, Heads, DirHeads
<1>7. Sound(fat, {})' /\ \A i \in Listed' : ~(i < 0) /\ Whole(i)'
  BY <1>1, <1>2, <1>4, <1>6 DEF Sound, Whole
<1>8. QED
  BY <1>3, <1>4, <1>5, <1>7 DEF AtSweep, Running

\* The scan stops at the next entry that has blocks.
LEMMA ToEraseFound ==
  ASSUME ToErase # {}, NEW i, i = CHOOSE k \in ToErase : \A j \in ToErase : k <= j
  PROVE  i \in ToErase /\ \A j \in ToErase : i <= j
<1>1. ToErase \in SUBSET Nat
  BY TableAssumption DEF ToErase, Listed, DirSlots
<1>2. \E m \in ToErase : \A n \in ToErase : m <= n
  BY <1>1, NatMinimum
<1>3. QED
  BY <1>2

LEMMA SweepNextStep ==
  ASSUME TableInv, job \in JobType, AtSweep, SweepNext
  PROVE  job' \in JobType' /\ TableInv' /\ AtErase'
<1>1. PICK i, head : i = (CHOOSE k \in ToErase : \A j \in ToErase : k <= j) /\ head = root[i].index
  OBVIOUS
<1>2. i \in ToErase /\ \A j \in ToErase : i <= j
  BY <1>1, ToEraseFound DEF SweepNext
<1>3. /\ i \in Listed /\ i \in Nat /\ i >= job.slot /\ head # FAT_EOC /\ job.slot \in Nat
      /\ Listed \subseteq Nat
  BY <1>1, <1>2, TableAssumption DEF ToErase, Listed, DirSlots, JobType
<1>4. /\ UNCHANGED <<disk_mounted, fd_table, root, fat, data, result>>
      /\ job' = [job EXCEPT !.pc = "erase", !.slot = i, !.write_block = head]
  BY <1>1 DEF SweepNext, vars
<1>5. TypeOK /\ Sound(fat, {}) /\ Open = {} /\ HeadsBelongToOneEntry
  BY DEF TableInv, AtSweep
<1>6. TableInv' /\ Open' = Open /\ Listed' = Listed
  BY <1>4, <1>5, TableKept DEF TypeOK
<1>7. StartsChain(fat, head) /\ head \in Nat
  <2>1. Whole(i)
    BY <1>3 DEF AtSweep
  <2>2. QED
    BY <1>1, <1>3, <2>1, Sizes DEF Whole, StartsChain
<1>8. /\ job' \in JobType' /\ job'.pc = "erase" /\ job'.call = "erase_all" /\ job'.slot = i
      /\ job'.write_block = head
  BY <1>3, <1>4, <1>7 DEF AtSweep, JobType, JobPc
<1>9. \A j \in Listed : /\ j < i => Gone(j)
                        /\ j > i => Whole(j) /\ root[j].index # head
  <2>1. SUFFICES ASSUME NEW j \in Listed
                 PROVE  /\ j < i => Gone(j)
                        /\ j > i => Whole(j) /\ root[j].index # head
    OBVIOUS
  <2>2. j \in Nat /\ (IF j < job.slot THEN Gone(j) ELSE Whole(j))
    BY <1>3 DEF AtSweep
  <2>3. ASSUME j < i, j >= job.slot
        PROVE  Gone(j)
    BY <1>2, <1>3, <2>2, <2>3 DEF ToErase, Gone
  <2>4. j > i => Whole(j)
    BY <1>3, <2>2
  <2>5. j > i => root[j].index # head
    BY <1>1, <1>3, <1>5, <2>2 DEF HeadsBelongToOneEntry
  <2>6. QED
    BY <1>3, <2>2, <2>3, <2>4, <2>5
<1>10. Sound(fat, {head})'
  BY <1>1, <1>4, <1>5, <1>7 DEF Sound
<1>11. \A j \in Listed' : /\ j < i => Gone(j)'
                          /\ j > i => Whole(j)' /\ root'[j].index # head
  BY <1>4, <1>6, <1>9 DEF Gone, Whole
<1>12. QED
  BY <1>1, <1>3, <1>4, <1>5, <1>6, <1>8, <1>10, <1>11 DEF AtErase, Running

\* What erasing the first block of a chain leaves.
LEMMA FirstErased ==
  ASSUME TableInv, job \in JobType, EraseBlock, StartsChain(fat, job.write_block), WellLinked(fat)
  PROVE  /\ UNCHANGED <<disk_mounted, fd_table, root, data>>
         /\ fat' \in FatType /\ WellLinked(fat')
         /\ \A c \in Blocks : fat'[c] = IF c = job.write_block THEN 0 ELSE fat[c]
         /\ fat[job.write_block] # FAT_EOC => StartsChain(fat', fat[job.write_block])
         /\ \A h : StartsChain(fat, h) /\ h # job.write_block
                     => StartsChain(fat', h) /\ h # fat[job.write_block]
         /\ TableInv' /\ Open' = Open /\ Listed' = Listed /\ Heads' = Heads
<1>1. /\ UNCHANGED <<disk_mounted, fd_table, root, data>>
      /\ fat' = set_fat_entry(fat, job.write_block, 0)
      /\ result'.code \in Int
  BY OutcomeCode DEF EraseBlock, Finish, Return, TableInv, TypeOK
<1>2. fat \in FatType /\ job.write_block \in Blocks /\ 0 \in Links
  BY Sizes DEF TableInv, TypeOK, StartsChain, Links
<1>3. /\ fat' \in FatType
      /\ \A c \in Blocks : fat'[c] = IF c = job.write_block THEN 0 ELSE fat[c]
  BY <1>1, <1>2, SetEntryType
<1>4. /\ WellLinked(fat')
      /\ fat[job.write_block] # FAT_EOC => StartsChain(fat', fat[job.write_block])
      /\ \A h : StartsChain(fat, h) /\ h # job.write_block
                  => StartsChain(fat', h) /\ h # fat[job.write_block]
  BY <1>2, <1>3, UnlinkFirst
<1>5. TableInv' /\ Open' = Open /\ Listed' = Listed /\ Heads' = Heads
  BY <1>1, <1>3, TableKept DEF TableInv, TypeOK
<1>6. QED
  BY <1>1, <1>3, <1>4, <1>5

\* The call after it: at the next block, or past the chain.
LEMMA EraseBlockJob ==
  ASSUME job \in JobType, EraseBlock, NEW next, next = fat[job.write_block],
         next \in Blocks \cup {FAT_EOC}, job.call \in {"delete", "erase_all"}
  PROVE  /\ job' \in JobType'
         /\ \/ /\ next # FAT_EOC /\ job'.pc = "erase" /\ job'.call = job.call
               /\ job'.write_block = next /\ job'.slot = job.slot
            \/ next = FAT_EOC /\ job.call = "delete" /\ job' = Idle
            \/ /\ next = FAT_EOC /\ job.call = "erase_all" /\ job'.pc = "sweep"
               /\ job'.call = job.call /\ job'.slot = job.slot + 1
<1>1. CASE next # FAT_EOC
  <2>1. job' = [job EXCEPT !.write_block = next] /\ job.pc = "erase" /\ next \in Nat
    BY <1>1, Sizes DEF EraseBlock, get_fat_entry, Running
  <2>2. QED
    BY <1>1, <2>1 DEF JobType
<1>2. CASE next = FAT_EOC /\ job.call = "delete"
  <2>1. job' = Idle
    BY <1>2 DEF EraseBlock, get_fat_entry, Finish
  <2>2. QED
    BY <1>2, <2>1, IdleType
<1>3. CASE next = FAT_EOC /\ job.call = "erase_all"
  <2>1. PICK slot : slot = job.slot + 1
    OBVIOUS
  <2>2. slot \in Nat
    BY <2>1 DEF JobType
  <2>3. job' = [job EXCEPT !.pc = "sweep", !.slot = slot]
    BY <1>3, <2>1 DEF EraseBlock, get_fat_entry
  <2>4. job' \in JobType'
    BY <2>2, <2>3 DEF JobType, JobPc
  <2>5. QED
    BY <1>3, <2>1, <2>3, <2>4 DEF JobType
<1>4. QED
  BY <1>1, <1>2, <1>3

LEMMA DeleteBlockStep ==
  ASSUME TableInv, job \in JobType, AtDelete, EraseBlock
  PROVE  job' \in JobType' /\ TableInv' /\ (AtDelete' \/ AtIdle')
<1>1. PICK b, next : b = job.write_block /\ next = fat[b]
  OBVIOUS
<1>2. /\ fat \in FatType /\ WellLinked(fat) /\ StartsChain(fat, b) /\ b \notin Heads
      /\ \A h \in Heads : StartsChain(fat, h)
      /\ job.call = "delete"
  BY <1>1 DEF AtDelete, Sound
<1>3. next \in Blocks \cup {FAT_EOC}
  BY <1>1, <1>2, EntryType DEF StartsChain
<1>4. /\ fat' \in FatType /\ WellLinked(fat') /\ TableInv' /\ Heads' = Heads
      /\ next # FAT_EOC => StartsChain(fat', next)
      /\ \A h \in Heads : StartsChain(fat', h) /\ h # next
  BY <1>1, <1>2, FirstErased
<1>5. /\ job' \in JobType'
      /\ \/ /\ next # FAT_EOC /\ job'.pc = "erase" /\ job'.call = "delete"
            /\ job'.write_block = next
         \/ next = FAT_EOC /\ job' = Idle
  BY <1>1, <1>2, <1>3, EraseBlockJob
<1>6. CASE job' = Idle
  BY <1>4, <1>5, <1>6 DEF AtIdle, Sound
<1>7. CASE next # FAT_EOC /\ job'.pc = "erase" /\ job'.call = "delete" /\ job'.write_block = next
  BY <1>4, <1>5, <1>7 DEF AtDelete, Running, Sound
<1>8. QED
  BY <1>5, <1>6, <1>7

LEMMA EraseAllBlockStep ==
  ASSUME TableInv, job \in JobType, AtErase, EraseBlock
  PROVE  job' \in JobType' /\ TableInv' /\ (AtErase' \/ AtSweep')
<1>1. PICK b, next, slot : b = job.write_block /\ next = fat[b] /\ slot = job.slot
  OBVIOUS
<1>2. /\ fat \in FatType /\ WellLinked(fat) /\ StartsChain(fat, b) /\ b \in Blocks
      /\ job.call = "erase_all" /\ Open = {} /\ slot \in Listed /\ root[slot].index # FAT_EOC
      /\ root \in [DirSlots -> DirEntry] /\ Listed \subseteq DirSlots /\ Listed \subseteq Nat
  BY <1>1, TableAssumption DEF AtErase, Sound, StartsChain, TableInv, TypeOK, Listed, DirSlots
<1>3. next \in Blocks \cup {FAT_EOC}
  BY <1>1, <1>2, EntryType
<1>4. /\ fat' \in FatType /\ WellLinked(fat')
      /\ TableInv' /\ Open' = Open /\ Listed' = Listed /\ root' = root
      /\ \A c \in Blocks : fat'[c] = IF c = b THEN 0 ELSE fat[c]
      /\ next # FAT_EOC => StartsChain(fat', next)
      /\ \A h : StartsChain(fat, h) /\ h # b => StartsChain(fat', h) /\ h # next
  BY <1>1, <1>2, FirstErased
<1>5. /\ job' \in JobType'
      /\ \/ /\ next # FAT_EOC /\ job'.pc = "erase" /\ job'.call = "erase_all"
            /\ job'.write_block = next /\ job'.slot = slot
         \/ /\ next = FAT_EOC /\ job'.pc = "sweep"
            /\ job'.call = "erase_all" /\ job'.slot = slot + 1
  BY <1>1, <1>2, <1>3, EraseBlockJob
<1>6. \A i \in Listed : Gone(i) => Gone(i)'
  <2>1. \A i \in Listed : root[i].index # FAT_EOC => root[i].index \in Blocks
    BY <1>2 DEF DirEntry, Links
  <2>2. QED
    BY <1>4, <2>1 DEF Gone
<1>7. Gone(slot)'
  <2>1. CASE root[slot].index = b
    BY <1>2, <1>4, <2>1 DEF Gone
  <2>2. CASE Gone(slot)
    BY <1>2, <1>6, <2>2
  <2>3. QED
    BY <1>1, <2>1, <2>2 DEF AtErase
<1>8. \A i \in Listed : i > slot => Whole(i)' /\ (next # FAT_EOC => root'[i].index # next)
  BY <1>1, <1>4 DEF AtErase, Whole
<1>9. \A i \in Listed : i < slot => Gone(i)'
  BY <1>1, <1>6 DEF AtErase
<1>10. CASE next # FAT_EOC /\ job'.pc = "erase"
  <2>1. Sound(fat, {job.write_block})'
    BY <1>4, <1>5, <1>10 DEF Sound
  <2>2. \A i \in Listed' : /\ i < slot => Gone(i)'
                           /\ i > slot => Whole(i)' /\ root'[i].index # next
    BY <1>4, <1>8, <1>9, <1>10
  <2>3. QED
    BY <1>2, <1>4, <1>5, <1>7, <1>10, <2>1, <2>2 DEF AtErase, Running
<1>11. CASE next = FAT_EOC /\ job'.pc = "sweep"
  <2>1. Sound(fat, {})'
    BY <1>4 DEF Sound
  <2>2. \A i \in Listed' : IF i < slot + 1 THEN Gone(i)' ELSE Whole(i)'
    <3>1. SUFFICES ASSUME NEW i \in Listed
                   PROVE  IF i < slot + 1 THEN Gone(i)' ELSE Whole(i)'
      BY <1>4
    <3>2. i \in Nat /\ slot \in Nat
      BY <1>2
    <3>3. i < slot \/ i = slot \/ i > slot
      BY <3>2
    <3>4. CASE i < slot
      BY <1>9, <3>2, <3>4
    <3>5. CASE i = slot
      BY <1>7, <3>2, <3>5
    <3>6. CASE i > slot
      BY <1>8, <3>2, <3>6
    <3>7. QED
      BY <3>3, <3>4, <3>5, <3>6
  <2>3. QED
    BY <1>2, <1>4, <1>5, <1>11, <2>1, <2>2 DEF AtSweep, Running
<1>12. QED
  BY <1>5, <1>10, <1>11

LEMMA EraseDirectoryStep ==
  ASSUME TableInv, job \in JobType, AtSweep, EraseDirectory
  PROVE  job' \in JobType' /\ TableInv' /\ AtIdle'
<1>1. /\ root' = [i \in DirSlots |-> EmptyEntry]
      /\ UNCHANGED <<disk_mounted, fd_table, fat, data>>
      /\ job' = Idle /\ result'.code \in Int
  BY OutcomeCode DEF EraseDirectory, Finish, Return
<1>2. TypeOK /\ Open = {} /\ Sound(fat, {})
  BY DEF TableInv, AtSweep
<1>3. /\ root' \in [DirSlots -> DirEntry] /\ Listed' = {} /\ Open' = {}
      /\ \A fd : Node(fd)' = Node(fd)
  BY <1>1, <1>2, Sizes DEF DirEntry, EmptyEntry, Links, Listed, Entries, Open, Node
<1>4. TypeOK'
  BY <1>1, <1>2, <1>3 DEF TypeOK
<1>5. TableCounted' /\ ClosedNodesReset'
  BY <1>1, <1>2, <1>3 DEF TableInv, TableCounted, ClosedNodesReset
<1>6. NamesUnique' /\ OpenFilesListed' /\ HeadsBelongToOneEntry' /\ Heads' = {}
  BY <1>3 DEF NamesUnique, OpenFilesListed, HeadsBelongToOneEntry, Heads, DirHeads, FdHeads
<1>7. AtIdle'
  BY <1>1, <1>2, <1>6 DEF AtIdle, Sound
<1>8. QED
  BY <1>1, <1>4, <1>5, <1>6, <1>7, IdleType DEF TableInv

-----------------------------------------------------------------------------
(* The other calls, and a kill.                                            *)

\* On a sound volume they are calls of FileSystem, and keep what it keeps.
LEMMA OneStepCallStep ==
  ASSUME TableInv, job \in JobType, AtIdle, OneStepCall
  PROVE  job' \in JobType' /\ TableInv' /\ AtIdle'
<1>1. Next /\ UNCHANGED <<job, damage>> /\ job = Idle
  BY DEF OneStepCall, Next
<1>2. IInv
  BY DEF TableInv, AtIdle, Sound, IInv, ChainInv, ChainsWellLinked, HeadsStartChains
<1>3. IInv'
  BY <1>1, <1>2, NextInv
<1>4. TableInv' /\ AtIdle'
  BY <1>1, <1>3 DEF TableInv, AtIdle, Sound, IInv, ChainInv, ChainsWellLinked, HeadsStartChains, TypeOK
<1>5. QED
  BY <1>1, <1>4, IdleType

\* Where nothing is mounted and nothing gets mounted they do nothing.
LEMMA OneStepCallRefused ==
  ASSUME OneStepCall, ~disk_mounted, ~disk_mounted'
  PROVE  UNCHANGED <<disk_mounted, fd_table, root, fat, data, job, damage>>
<1>1. UNCHANGED <<job, damage>>
  BY DEF OneStepCall
<1>2. \A fd : ~isUsable(fd)
  BY DEF isUsable
<1>3. ASSUME fs_mount \/ fs_umount \/ fs_info \/ fs_ls \/ free_blocks \/ erase_all_files
      PROVE  UNCHANGED <<disk_mounted, fd_table, root, fat, data>>
  BY <1>3 DEF fs_mount, fs_umount, fs_info, fs_ls, free_blocks, erase_all_files, volume
<1>4. ASSUME NEW name, fs_create(name) \/ fs_open(name) \/ fs_delete(name)
      PROVE  UNCHANGED <<disk_mounted, fd_table, root, fat, data>>
  BY <1>4 DEF fs_create, fs_open, fs_delete, volume
<1>5. ASSUME NEW fd, NEW offset, NEW buf, NEW count,
             fs_close(fd) \/ fs_stat(fd) \/ fs_lseek(fd, offset) \/ fs_read(fd, buf, count)
               \/ fs_write(fd, buf, count)
      PROVE  UNCHANGED <<disk_mounted, fd_table, root, fat, data>>
  BY <1>2, <1>5 DEF fs_close, fs_stat, fs_lseek, fs_read, fs_write, volume
<1>6. QED
  BY <1>1, <1>3, <1>4, <1>5 DEF OneStepCall

\* A kill empties the table and nothing else.
LEMMA TableReset ==
  ASSUME TableInv, fd_table' = fd_table_constructor, UNCHANGED <<root, fat, data>>,
         disk_mounted' \in BOOLEAN, result'.code \in Int
  PROVE  TableInv' /\ Open' = {} /\ Listed' = Listed /\ Heads' = DirHeads
<1>1. Open' = {} /\ Listed' = Listed /\ fd_table'.fdsOccupied = 0 /\ fd_table' \in TableType
  BY EmptyTable DEF Open, Listed, Entries
<1>2. Heads' = DirHeads
  BY <1>1 DEF Heads, DirHeads, FdHeads
<1>3. TypeOK'
  BY <1>1 DEF TableInv, TypeOK
<1>4. TableCounted' /\ ClosedNodesReset'
  BY <1>1, EmptyTable, FS_EmptySet DEF TableCounted, ClosedNodesReset, Node
<1>5. QED
  BY <1>1, <1>2, <1>3, <1>4 DEF TableInv, NamesUnique, OpenFilesListed, HeadsBelongToOneEntry

\* When no file is torn by it, the chains the directory starts are sound.
LEMMA KillSpares ==
  ASSUME TableInv, job \in JobType, AtSomePoint, Torn = {}
  PROVE  Sound(fat, DirHeads)
<1>1. CASE AtIdle \/ AtAdd \/ AtPlan \/ AtExtend \/ AtLink \/ AtTransfer \/ AtDelete
  BY <1>1 DEF AtIdle, AtAdd, AtPlan, AtExtend, AtLink, AtTransfer, AtDelete, HasChain, Sound, Heads
<1>2. CASE AtIndex
  BY <1>2 DEF AtIndex, Unclaimed, Sound, Heads
<1>3. CASE AtClaim \/ AtMark
  BY <1>3 DEF AtClaim, AtMark, Torn, Running
<1>4. CASE AtSweep
  <2>1. \A j \in Listed : root[j].index # FAT_EOC => ~(j < job.slot)
    BY <1>4 DEF AtSweep, Torn, Running
  <2>2. \A j \in Listed : root[j].index # FAT_EOC => StartsChain(fat, root[j].index)
    BY <1>4, <2>1 DEF AtSweep, Whole
  <2>3. QED
    BY <1>4, <2>2 DEF AtSweep, Sound, DirHeads
<1>5. CASE AtErase
  <2>1. \A j \in Listed : root[j].index # FAT_EOC =>
          /\ ~(j < job.slot)
          /\ j = job.slot => job.write_block = root[j].index
    BY <1>5 DEF AtErase, Torn, Running
  <2>2. ASSUME NEW j \in Listed, root[j].index # FAT_EOC
        PROVE  StartsChain(fat, root[j].index)
    <3>1. j \in Nat /\ job.slot \in Nat
      BY TableAssumption DEF Listed, DirSlots, JobType
    <3>2. CASE j = job.slot
      BY <1>5, <2>1, <2>2, <3>2 DEF AtErase, Sound
    <3>3. CASE j > job.slot
      BY <1>5, <2>2, <3>3 DEF AtErase, Whole
    <3>4. QED
      BY <2>1, <2>2, <3>1, <3>2, <3>3
  <2>3. QED
    BY <1>5, <2>2 DEF AtErase, Sound, DirHeads
<1>6. QED
  BY <1>1, <1>2, <1>3, <1>4, <1>5 DEF AtSomePoint

LEMMA TornType ==
  ASSUME TableInv, job \in JobType, AtSomePoint
  PROVE  Torn \in SUBSET (Names \cup {Null})
<1>1. CASE Running("claim") \/ Running("mark")
  <2>1. Writer
    BY <1>1 DEF AtSomePoint, AtIdle, AtAdd, AtIndex, AtClaim, AtPlan, AtExtend, AtLink, AtMark,
      AtTransfer, AtDelete, AtSweep, AtErase, Running, Idle
  <2>2. QED
    BY <1>1, <2>1, WriterFacts DEF Torn
<1>2. CASE ~(Running("claim") \/ Running("mark"))
  <2>1. \A j \in Listed : root[j].filename \in Names \cup {Null}
    BY DEF TableInv, TypeOK, Listed, DirEntry
  <2>2. QED
    BY <1>2, <2>1 DEF Torn
<1>3. QED
  BY <1>1, <1>2

-----------------------------------------------------------------------------
(* The invariant holds.                                                    *)

LEMMA CrashInitInv == CrashInit => CrashInv
<1> SUFFICES ASSUME CrashInit PROVE CrashInv
  OBVIOUS
<1>1. IInv /\ job = Idle
  BY InitInv DEF CrashInit
<1>2. TableInv /\ AtIdle
  BY <1>1 DEF TableInv, AtIdle, Sound, IInv, ChainInv, ChainsWellLinked, HeadsStartChains, TypeOK
<1>3. job \in JobType
  BY <1>1 DEF Idle, JobType
<1>4. QED
  BY <1>2, <1>3 DEF CrashInv, AtSomePoint, CrashInit

LEMMA JobStepInv ==
  ASSUME TableInv, job \in JobType, AtSomePoint, JobStep
  PROVE  job' \in JobType' /\ TableInv' /\ AtSomePoint' /\ UNCHANGED damage
<1>1. CASE AddClear
  BY <1>1, PointOf, AddClearStep DEF AddClear, AtSomePoint
<1>2. CASE AddIndex
  BY <1>2, PointOf, AddIndexStep DEF AddIndex, AtSomePoint
<1>3. CASE AddClaim
  BY <1>3, PointOf, AddClaimStep DEF AddClaim, AtSomePoint
<1>4. CASE PlanWrite
  BY <1>4, PointOf, PlanWriteStep DEF PlanWrite, AtSomePoint
<1>5. CASE AllocClear \/ AllocDone
  BY <1>5, PointOf, AllocClearStep, AllocDoneStep DEF AllocClear, AllocDone, AtSomePoint
<1>6. CASE AllocLink
  BY <1>6, PointOf, AllocLinkStep DEF AllocLink, AtSomePoint
<1>7. CASE AllocMark
  BY <1>7, PointOf, AllocMarkStep DEF AllocMark, AtSomePoint
<1>8. CASE TransferBlock \/ WriteSize
  BY <1>8, PointOf, TransferBlockStep, WriteSizeStep DEF TransferBlock, WriteSize, AtSomePoint
<1>9. CASE SweepNext \/ EraseDirectory
  BY <1>9, PointOf, SweepNextStep, EraseDirectoryStep DEF SweepNext, EraseDirectory, AtSomePoint
<1>10. CASE EraseBlock
  BY <1>10, PointOf, DeleteBlockStep, EraseAllBlockStep DEF EraseBlock, AtSomePoint
<1>11. QED
  BY <1>1, <1>2, <1>3, <1>4, <1>5, <1>6, <1>7, <1>8, <1>9, <1>10 DEF JobStep

LEMMA KillStep ==
  ASSUME CrashInv, damage.torn = {}, Kill
  PROVE  CrashInv'
<1>1. TableInv /\ AtSomePoint /\ job \in JobType
  BY DEF CrashInv, Wrecked
<1>2. /\ disk_mounted' = FALSE /\ fd_table' = fd_table_constructor /\ job' = Idle
      /\ damage' = [torn |-> Torn, leaked |-> damage.leaked \/ Orphaned]
      /\ UNCHANGED <<root, fat, data>> /\ result'.code \in Int
  BY OutcomeCode DEF Kill, volume
<1>3. TableInv' /\ Heads' = DirHeads
  BY <1>1, <1>2, TableReset
<1>4. job' \in JobType'
  BY <1>2, IdleType
<1>5. damage' \in [torn : SUBSET (Names \cup {Null}), leaked : BOOLEAN]
  <2>1. (damage.leaked \/ Orphaned) \in BOOLEAN
    BY DEF Orphaned
  <2>2. Torn \in SUBSET (Names \cup {Null})
    BY <1>1, TornType
  <2>3. QED
    BY <1>2, <2>1, <2>2
<1>6. CASE Torn = {}
  <2>1. AtIdle'
    BY <1>1, <1>2, <1>3, <1>6, KillSpares DEF AtIdle, Sound
  <2>2. QED
    BY <1>2, <1>3, <1>4, <1>5, <1>6, <2>1 DEF CrashInv, AtSomePoint
<1>7. CASE Torn # {}
  <2>1. Wrecked'
    BY <1>2, <1>7 DEF Wrecked
  <2>2. QED
    BY <1>4, <1>5, <2>1 DEF CrashInv
<1>8. QED
  BY <1>6, <1>7

\* The careful client does nothing to a volume that is torn.
LEMMA WreckedStep ==
  ASSUME Wrecked, CarefulNext
  PROVE  UNCHANGED <<disk_mounted, fd_table, root, fat, data, job, damage>>
<1>1. CrashNext /\ ~disk_mounted /\ ~disk_mounted' /\ job.pc = "idle"
  BY DEF Wrecked, CarefulNext, Idle
<1>2. CASE OneStepCall
  BY <1>1, <1>2, OneStepCallRefused
<1>3. ASSUME NEW fd, NEW buf, NEW count, StartWrite(fd, buf, count)
      PROVE  FALSE
  BY <1>1, <1>3 DEF StartWrite, WritesNothing, isUsable
<1>4. ~StartEraseAll /\ ~Kill /\ \A name : ~StartDelete(name)
  BY <1>1 DEF StartEraseAll, Kill, StartDelete
<1>5. ~JobStep
  BY <1>1 DEF JobStep, Running, AddClear, AddIndex, AddClaim, PlanWrite, AllocClear, AllocLink,
    AllocMark, AllocDone, TransferBlock, WriteSize, SweepNext, EraseBlock, EraseDirectory
<1>6. QED
  BY <1>1, <1>2, <1>3, <1>4, <1>5 DEF CrashNext

LEMMA CrashNextInv == CrashInv /\ [CarefulNext]_crash_vars => CrashInv'
<1> SUFFICES ASSUME CrashInv, [CarefulNext]_crash_vars PROVE CrashInv'
  OBVIOUS
<1>1. CASE UNCHANGED crash_vars
  <2>1. UNCHANGED <<disk_mounted, fd_table, root, fat, data, result, job, damage>>
    BY <1>1 DEF crash_vars, vars
  <2>2. JobType' = JobType /\ (Wrecked => Wrecked')
    BY <2>1 DEF JobType, Wrecked
  <2>3. ASSUME TableInv, AtSomePoint
        PROVE  TableInv' /\ AtSomePoint'
    <3>1. /\ TableInv' /\ Open' = Open /\ Listed' = Listed /\ DirHeads' = DirHeads
          /\ Heads' = Heads /\ \A fd : Node(fd)' = Node(fd)
      BY <2>1, <2>3, TableKept DEF TableInv, TypeOK
    <3>2. /\ \A pc : Running(pc)' = Running(pc)
          /\ JobNode' = JobNode /\ JobFirst' = JobFirst /\ Marked' = Marked
      BY <2>1, <3>1 DEF Running, JobNode, JobFirst, Marked
    <3>3. \A i : Gone(i)' = Gone(i) /\ Whole(i)' = Whole(i)
      BY <2>1 DEF Gone, Whole
    <3>4. /\ Writer' = Writer /\ Unclaimed' = Unclaimed /\ HasChain' = HasChain
          /\ EndKnown' = EndKnown
      BY <2>1, <3>1, <3>2 DEF Writer, Unclaimed, HasChain, EndKnown, Sound
    <3>5. /\ AtIdle' = AtIdle /\ AtAdd' = AtAdd /\ AtIndex' = AtIndex /\ AtClaim' = AtClaim
          /\ AtPlan' = AtPlan /\ AtExtend' = AtExtend /\ AtLink' = AtLink
      BY <2>1, <3>1, <3>2, <3>4
      DEF AtIdle, AtAdd, AtIndex, AtClaim, AtPlan, AtExtend, AtLink, Sound
    <3>6. AtMark' = AtMark /\ AtTransfer' = AtTransfer /\ AtDelete' = AtDelete
      BY <2>1, <3>1, <3>2, <3>4 DEF AtMark, AtTransfer, AtDelete, Sound
    <3>7. AtSweep' = AtSweep /\ AtErase' = AtErase
      BY <2>1, <3>1, <3>2, <3>3 DEF AtSweep, AtErase, Sound
    <3>8. QED
      BY <2>3, <3>1, <3>5, <3>6, <3>7 DEF AtSomePoint
  <2>4. QED
    BY <2>1, <2>2, <2>3 DEF CrashInv
<1>2. CASE Wrecked /\ CarefulNext
  <2>1. UNCHANGED <<disk_mounted, fd_table, job, damage>>
    BY <1>2, WreckedStep
  <2>2. QED
    BY <1>2, <2>1 DEF CrashInv, Wrecked, JobType
<1>3. CASE ~Wrecked /\ CarefulNext
  <2>1. /\ TableInv /\ AtSomePoint /\ job \in JobType /\ damage.torn = {}
        /\ damage \in [torn : SUBSET (Names \cup {Null}), leaked : BOOLEAN]
    BY <1>3 DEF CrashInv
  <2>2. CASE Kill
    BY <2>1, <2>2, KillStep
  <2>3. CASE JobStep
    BY <2>1, <2>3, JobStepInv DEF CrashInv
  <2>4. ASSUME AtIdle, OneStepCall
        PROVE  CrashInv'
    BY <2>1, <2>4, OneStepCallStep DEF CrashInv, AtSomePoint, OneStepCall
  <2>5. ASSUME AtIdle, NEW fd \in FdArgs, NEW buf \in BufArgs, NEW count \in CountArgs,
               StartWrite(fd, buf, count)
        PROVE  CrashInv'
    BY <2>1, <2>5, StartWriteStep DEF CrashInv, AtSomePoint, StartWrite
  <2>6. ASSUME AtIdle, NEW name \in NameArgs, StartDelete(name)
        PROVE  CrashInv'
    BY <2>1, <2>6, StartDeleteStep DEF CrashInv, AtSomePoint, StartDelete
  <2>7. ASSUME AtIdle, StartEraseAll
        PROVE  CrashInv'
    BY <2>1, <2>7, StartEraseAllStep DEF CrashInv, AtSomePoint, StartEraseAll
  <2>8. job = Idle => AtIdle
    BY <2>1, PointOf DEF Running, Idle
  <2>9. QED
    BY <1>3, <2>2, <2>3, <2>4, <2>5, <2>6, <2>7, <2>8
    DEF CarefulNext, CrashNext, OneStepCall, StartWrite, StartDelete, StartEraseAll
<1>4. QED
  BY <1>1, <1>2, <1>3

\* Wherever the process is killed, and however often, what it leaves is a volume with
\* the chains of FileSystem, or one with a torn file, which the client does not mount
\* (fs_write, fs_delete and erase_all_files, taken apart at their block writes).
THEOREM CrashInvariance == CarefulSpec => []CrashInv
<1>1. QED
  BY CrashInitInv, CrashNextInv, PTL DEF CarefulSpec

\* As long as no file is torn, a kill anywhere leaves sound chains, for clients that share
\* a file between descriptors too (fs_write, fs_delete, erase_all_files).
THEOREM SoundAfterKill == CarefulSpec => []ChainsSurviveKill
<1>1. CrashInv => ChainsSurviveKill
  <2> SUFFICES ASSUME CrashInv, job = Idle, damage.torn = {}
               PROVE  ChainInv /\ ChainsDisjoint /\ WalksEnd
    BY DEF ChainsSurviveKill
  <2>1. TableInv /\ Sound(fat, Heads)
    BY PointOf DEF CrashInv, Wrecked, AtIdle, Running, Idle
  <2>2. ChainInv
    BY <2>1 DEF TableInv, Sound, ChainInv, ChainsWellLinked, HeadsStartChains
  <2>3. ChainsDisjoint
    BY <2>1, ChainsApart DEF Sound, ChainsDisjoint
  <2>4. WalksEnd
    BY <2>1, ChainEnds DEF Sound, WalksEnd
  <2>5. QED
    BY <2>2, <2>3, <2>4
<1>2. QED
  BY <1>1, CrashInvariance, PTL

-----------------------------------------------------------------------------
(* The invariant of the contents, for clients that open no file twice.     *)

\* The chain starts, or so it will when the block that is linked is marked.
Intact(i) == root[i].index # FAT_EOC /\ Marked[root[i].index] # 0

\* The entries whose blocks are accounted for, and the call that erases a chain.
Owners ==
  {root[i].index : i \in {j \in Listed : Intact(j)}}
    \cup (IF Running("erase") THEN {job.write_block} ELSE {})

\* The size is within the blocks, and every byte in its place.
FileHeld(i) ==
  LET first == root[i].index
  IN  /\ root[i].size <= total_file_blocks(Marked, first) * BlockSize
      /\ Held(Marked, data, first, root[i].filename, root[i].size)

\* The descriptor a write goes through is ahead of its entry: in its first block, and
\* while bytes are moved in its size and offset.
AheadOf(node, entry) ==
  CASE Running("index")    -> /\ node.size = entry.size /\ node.offset <= entry.size
                              /\ entry.index = FAT_EOC
    [] Running("transfer") -> /\ node.size >= entry.size
                              /\ node.first_data_block = entry.index
    [] OTHER               -> FALSE

Current(fd) ==
  LET entry == root[Node(fd).dir_entry_index]
  IN  /\ Node(fd).size = entry.size
      /\ Node(fd).first_data_block = entry.index
      /\ Node(fd).offset <= entry.size

JobBytes == Bytes(JobNode.filename, job.start, job.buf)

\* The write loop at the top of a turn.
Moving ==
  LET n == total_file_blocks(fat, JobFirst)
  IN  /\ job.wanted <= n * BlockSize
      /\ Writing(fat, JobFirst, n, JobNode.filename, job.start, job.wanted,
                 [offset |-> JobNode.offset, size |-> JobNode.size,
                  block |-> job.write_block, data |-> data])

\* A descriptor agrees with its entry, but for the one a write is under way through.
DescriptorsKept ==
  /\ OpenOnce
  /\ EmptyHasNoSize
  /\ \A fd \in Open :
       Current(fd) \/ (fd = job.fd /\ AheadOf(Node(fd), root[Node(fd).dir_entry_index]))
  /\ Running("claim") => root[JobEntry].size = 0

FilesKept == \A i \in Listed : Intact(i) => FileHeld(i)

BlocksOwned == ~damage.leaked => Reached(Marked, Owners)

KeptInv ==
  /\ DescriptorsKept
  /\ Running("transfer") => Moving
  /\ FilesKept
  /\ BlocksOwned

\* After a kill that tore a file: what is torn is known, and the others are as they were.
WreckedInv == TornExactly /\ BytesSurviveKill

CrashKeptInv == IF damage.torn = {} THEN KeptInv ELSE WreckedInv

-----------------------------------------------------------------------------
(* Chains that a step has shortened at the head, or not marked yet.        *)

\* A FAT in which the chain of h is as before, or has blocks behind its end.
Longer(table, new, h) ==
  /\ total_file_blocks(new, h) \in Nat
  /\ total_file_blocks(table, h) <= total_file_blocks(new, h)
  /\ \A m \in Nat : m < total_file_blocks(table, h) =>
       skip_blocks(new, h, m) = skip_blocks(table, h, m)

\* The bytes of a file are where they were when its chain is longer.
LEMMA HeldKept ==
  ASSUME NEW table \in FatType, WellLinked(table), NEW h, StartsChain(table, h),
         NEW new, Longer(table, new, h), NEW blocks, NEW stored,
         \A b \in ChainOf(table, h) : stored[b] = blocks[b],
         NEW name, NEW size \in Nat, size <= total_file_blocks(table, h) * BlockSize,
         Held(table, blocks, h, name, size)
  PROVE  /\ size <= total_file_blocks(new, h) * BlockSize
         /\ Held(new, stored, h, name, size)
<1>1. PICK n, k : n = total_file_blocks(table, h) /\ k = total_file_blocks(new, h)
  OBVIOUS
<1>2. n \in Nat /\ k \in Nat /\ n <= k
  BY <1>1, TotalType DEF Longer, StartsChain
<1>3. n * BlockSize \in Nat /\ k * BlockSize \in Nat /\ n * BlockSize <= k * BlockSize
  BY <1>2, ProductGrows
<1>4. size <= k * BlockSize
  BY <1>1, <1>3
<1>5. ASSUME NEW p \in Nat, p < size
      PROVE  ByteAt(new, stored, h, p) = ByteAt(table, blocks, h, p)
  <2>1. p < n * BlockSize
    BY <1>1, <1>3, <1>5
  <2>2. PICK m \in Nat : m = current_block_offset(p) /\ m < n
    BY <1>2, <2>1, PlaceOfByte
  <2>3. PICK b : b = skip_blocks(table, h, m)
    OBVIOUS
  <2>4. b \in ChainOf(table, h) /\ skip_blocks(new, h, m) = b
    BY <1>1, <2>2, <2>3, ChainReached DEF Longer
  <2>5. QED
    BY <2>2, <2>3, <2>4 DEF ByteAt
<1>6. QED
  BY <1>1, <1>4, <1>5 DEF Held

LEMMA SameIsLonger ==
  ASSUME NEW table \in FatType, NEW h \in Blocks, NEW new, SameChain(table, new, h)
  PROVE  Longer(table, new, h) /\ ChainOf(new, h) = ChainOf(table, h)
<1>1. total_file_blocks(table, h) \in Nat
  BY TotalType
<1>2. \A n \in Blocks : skip_blocks(new, h, n) = skip_blocks(table, h, n)
  BY Sizes DEF SameChain
<1>3. QED
  BY <1>1, <1>2 DEF SameChain, Longer, ChainOf

\* The only block of a chain that ends it is the one total_file_blocks counts up to.
LEMMA EndUnique ==
  ASSUME NEW table \in FatType, WellLinked(table), NEW h, StartsChain(table, h),
         NEW a \in ChainOf(table, h), table[a] = FAT_EOC
  PROVE  a = skip_blocks(table, h, total_file_blocks(table, h) - 1)
<1>1. PICK k : k = total_file_blocks(table, h) - 1
  OBVIOUS
<1>2. HasLength(table, h, total_file_blocks(table, h)) /\ h \in Blocks
  BY TotalIsLength DEF StartsChain
<1>3. /\ k \in Nat /\ table[skip_blocks(table, h, k)] = FAT_EOC
      /\ \A m \in Nat : m < k => table[skip_blocks(table, h, m)] # FAT_EOC
  BY <1>1, <1>2 DEF HasLength
<1> DEFINE S == {m \in Nat : skip_blocks(table, h, k + m) = skip_blocks(table, h, k)}
<1>4. 0 \in S
  BY <1>3
<1>5. ASSUME NEW m \in S
      PROVE  m + 1 \in S
  <2>1. k + m \in Nat /\ k + (m + 1) = (k + m) + 1
    BY <1>3
  <2>2. skip_blocks(table, h, (k + m) + 1) = skip_blocks(table, h, k)
    BY <1>2, <1>3, <2>1, SkipStep
  <2>3. QED
    BY <2>1, <2>2
<1>6. S = Nat
  <2> HIDE DEF S
  <2>1. S \in SUBSET Nat
    BY DEF S
  <2>2. QED
    BY <1>4, <1>5, <2>1, NatSetInduction
<1>7. PICK n \in Nat : a = skip_blocks(table, h, n)
  BY Sizes DEF ChainOf
<1>8. n >= k
  BY <1>3, <1>7
<1>9. PICK d \in Nat : k + d = n
  <2>1. n - k \in Nat /\ k + (n - k) = n
    BY <1>3, <1>8
  <2>2. QED
    BY <2>1
<1>10. skip_blocks(table, h, k + d) = skip_blocks(table, h, k)
  BY <1>6, <1>9
<1>11. QED
  BY <1>1, <1>7, <1>9, <1>10

\* A chain that gets a block behind its end.
LEMMA LinkIsLonger ==
  ASSUME NEW table \in FatType, WellLinked(table), NEW h, StartsChain(table, h),
         NEW a \in ChainOf(table, h), table[a] = FAT_EOC,
         NEW b \in Blocks, table[b] = 0, NEW new \in FatType,
         \A c \in Blocks : new[c] = IF c = b THEN FAT_EOC ELSE IF c = a THEN b ELSE table[c]
  PROVE  Longer(table, new, h)
<1>1. PICK k : k = total_file_blocks(table, h)
  OBVIOUS
<1>2. HasLength(table, h, k) /\ a = skip_blocks(table, h, k - 1)
  BY <1>1, TotalIsLength, EndUnique
<1>3. k \in Nat
  BY <1>2 DEF HasLength
<1>4. /\ HasLength(new, h, k + 1)
      /\ \A m \in Nat : m < k => skip_blocks(new, h, m) = skip_blocks(table, h, m)
  BY <1>2, LinkLengthens
<1>5. a \in Blocks \ {0} /\ table[a] # 0
  BY ChainClosed
<1>6. WellLinked(new) /\ StartsChain(new, h)
  BY <1>5, LinkFreeBlock
<1>7. total_file_blocks(new, h) = k + 1
  BY <1>4, <1>6, TotalIsLength, LengthUnique
<1>8. QED
  BY <1>1, <1>3, <1>4, <1>7 DEF Longer

\* A block that is linked and not marked: its own chain leads to it, and no other is
\* different for it.
LEMMA UnmarkedChains ==
  ASSUME NEW table \in FatType, NEW marked \in FatType, WellLinked(marked),
         NEW b \in Blocks, \A c \in Blocks : c # b => marked[c] = table[c],
         NEW h, StartsChain(marked, h)
  PROVE  /\ b \in ChainOf(marked, h) => b \in ChainOf(table, h)
         /\ b \notin ChainOf(marked, h) =>
              /\ \A m \in Nat : skip_blocks(table, h, m) = skip_blocks(marked, h, m)
              /\ ChainOf(table, h) = ChainOf(marked, h)
<1>1. h \in Blocks /\ \A m \in Nat : skip_blocks(marked, h, m) \in Blocks
  BY SkipStep DEF StartsChain
<1>2. ASSUME b \in ChainOf(marked, h)
      PROVE  b \in ChainOf(table, h)
  <2> DEFINE S == {n \in Nat : skip_blocks(marked, h, n) = b}
  <2>1. PICK n \in Blocks : skip_blocks(marked, h, n) = b
    BY <1>2 DEF ChainOf
  <2>2. n \in S /\ S \in SUBSET Nat
    BY <2>1, Sizes
  <2> HIDE DEF S
  <2>3. PICK k \in S : \A m \in S : k <= m
    BY <2>2, NatMinimum
  <2>4. k \in Nat /\ k <= n /\ n \in Nat /\ skip_blocks(marked, h, k) = b
    BY <2>2, <2>3 DEF S
  <2>5. \A m \in Nat : m < k => skip_blocks(marked, h, m) # b
    BY <2>3, <2>4 DEF S
  <2>6. \A m \in Nat : m < k =>
          table[skip_blocks(marked, h, m)] = marked[skip_blocks(marked, h, m)]
    BY <1>1, <2>5
  <2>7. skip_blocks(table, h, k) = b
    BY <1>1, <2>4, <2>6, SkipKept
  <2>8. k \in Blocks
    BY <2>1, <2>4, Sizes DEF Blocks
  <2>9. QED
    BY <2>7, <2>8 DEF ChainOf
<1>3. ASSUME b \notin ChainOf(marked, h)
      PROVE  /\ \A m \in Nat : skip_blocks(table, h, m) = skip_blocks(marked, h, m)
             /\ ChainOf(table, h) = ChainOf(marked, h)
  <2>1. \A m \in Nat : skip_blocks(marked, h, m) # b
    BY <1>3, ChainReached
  <2>2. \A m \in Nat : table[skip_blocks(marked, h, m)] = marked[skip_blocks(marked, h, m)]
    BY <1>1, <2>1
  <2>3. \A m \in Nat : skip_blocks(table, h, m) = skip_blocks(marked, h, m)
    <3>1. SUFFICES ASSUME NEW m \in Nat
                   PROVE  skip_blocks(table, h, m) = skip_blocks(marked, h, m)
      OBVIOUS
    <3>2. m <= m
      OBVIOUS
    <3>3. QED
      BY <1>1, <2>2, <3>2, SkipKept
  <2>4. ChainOf(table, h) = ChainOf(marked, h)
    BY <2>3, Sizes DEF ChainOf
  <2>5. QED
    BY <2>3, <2>4
<1>4. QED
  BY <1>2, <1>3

\* What is left of a chain when its first block is freed.
LEMMA TailReached ==
  ASSUME NEW table \in FatType, WellLinked(table), NEW b, StartsChain(table, b),
         NEW new \in FatType,
         \A c \in Blocks : new[c] = IF c = b THEN 0 ELSE table[c],
         NEW c \in ChainOf(table, b), c # b
  PROVE  table[b] # FAT_EOC /\ c \in ChainOf(new, table[b])
<1>1. b \in Blocks /\ \A n \in Nat : skip_blocks(table, b, n) \in Blocks
  BY SkipStep DEF StartsChain
<1>2. PICK n \in Nat : c = skip_blocks(table, b, n)
  BY Sizes DEF ChainOf
<1>3. skip_blocks(table, b, 0) = b /\ n # 0
  BY <1>1, <1>2, SkipStep
<1>4. CASE table[b] = FAT_EOC
  <2> DEFINE S == {m \in Nat : skip_blocks(table, b, m) = b}
  <2>1. 0 \in S
    BY <1>3
  <2>2. ASSUME NEW m \in S
        PROVE  m + 1 \in S
    <3>1. skip_blocks(table, b, m) = b /\ m \in Nat /\ m + 1 \in Nat
      OBVIOUS
    <3>2. skip_blocks(table, b, m + 1) = b
      BY <1>1, <1>4, <3>1, SkipStep
    <3>3. QED
      BY <3>1, <3>2
  <2>3. S = Nat
    <3> HIDE DEF S
    <3>1. S \in SUBSET Nat
      BY DEF S
    <3>2. QED
      BY <2>1, <2>2, <3>1, NatSetInduction
  <2>4. skip_blocks(table, b, n) = b
    BY <2>3
  <2>5. QED
    BY <1>2, <2>4
<1>5. CASE table[b] # FAT_EOC
  <2>1. PICK next : next = table[b]
    OBVIOUS
  <2>2. /\ next \in Blocks /\ WellLinked(new) /\ StartsChain(new, next)
    BY <1>1, <1>5, <2>1, UnlinkFirst, EntryType
  <2>3. \A m \in Nat : skip_blocks(new, next, m) # b
    BY <1>1, <2>2, ChainReached, ChainClosed
  <2> DEFINE S == {m \in Nat : skip_blocks(table, b, m + 1) = skip_blocks(new, next, m)}
  <2>4. 0 \in S
    <3>1. skip_blocks(table, b, 0 + 1) = next
      BY <1>1, <1>3, <1>5, <2>1, SkipStep
    <3>2. skip_blocks(new, next, 0) = next
      BY <2>2, SkipStep
    <3>3. QED
      BY <3>1, <3>2
  <2>5. ASSUME NEW m \in S
        PROVE  m + 1 \in S
    <3>1. PICK s : s = skip_blocks(new, next, m)
      OBVIOUS
    <3>2. skip_blocks(table, b, m + 1) = s /\ m + 1 \in Nat
      BY <3>1
    <3>3. s \in Blocks /\ s # b /\ new[s] = table[s]
      BY <1>1, <2>3, <3>1, <3>2
    <3>4. skip_blocks(table, b, (m + 1) + 1) = IF table[s] = FAT_EOC THEN s ELSE table[s]
      <4>1. PICK k \in Nat : k = m + 1
        BY <3>2
      <4>2. skip_blocks(table, b, k + 1)
              = IF table[skip_blocks(table, b, k)] = FAT_EOC THEN skip_blocks(table, b, k)
                ELSE table[skip_blocks(table, b, k)]
        BY <1>1, SkipStep
      <4>3. QED
        BY <3>2, <4>1, <4>2
    <3>5. skip_blocks(new, next, m + 1) = IF new[s] = FAT_EOC THEN s ELSE new[s]
      <4>1. new \in FatType /\ next \in Blocks /\ m \in Nat
        BY <1>1, <2>2
      <4>2. skip_blocks(new, next, m + 1)
              = IF new[skip_blocks(new, next, m)] = FAT_EOC THEN skip_blocks(new, next, m)
                ELSE new[skip_blocks(new, next, m)]
        BY <4>1, SkipStep
      <4>3. QED
        BY <3>1, <4>2
    <3>6. QED
      BY <3>2, <3>3, <3>4, <3>5
  <2>6. S = Nat
    <3> HIDE DEF S
    <3>1. S \in SUBSET Nat
      BY DEF S
    <3>2. QED
      BY <2>4, <2>5, <3>1, NatSetInduction
  <2>7. n - 1 \in S /\ (n - 1) + 1 = n
    BY <1>3, <2>6
  <2>8. c = skip_blocks(new, next, n - 1) /\ n - 1 \in Nat
    BY <1>2, <2>7
  <2>9. QED
    BY <1>5, <2>1, <2>2, <2>8, ChainReached
<1>6. QED
  BY <1>4, <1>5

\* The FAT with the mark that is still to come is sound where it is accounted for.
LEMMA IntactStarts ==
  ASSUME TableInv, job \in JobType, AtSomePoint
  PROVE  /\ Marked \in FatType /\ WellLinked(Marked)
         /\ \A i \in Listed : Intact(i) => StartsChain(Marked, root[i].index)
         /\ Running("erase") => StartsChain(Marked, job.write_block)
         /\ \A h \in Owners : StartsChain(Marked, h)
<1>1. \A i \in Listed : Intact(i) => root[i].index \in DirHeads
  BY DEF Intact, DirHeads
<1> SUFFICES /\ Marked \in FatType /\ WellLinked(Marked)
             /\ \A i \in Listed : Intact(i) => StartsChain(Marked, root[i].index)
             /\ Running("erase") => StartsChain(Marked, job.write_block)
  BY DEF Owners
<1>2. CASE AtIdle \/ AtAdd \/ AtPlan \/ AtExtend \/ AtLink \/ AtTransfer
  <2>1. Sound(fat, Heads) /\ Marked = fat /\ ~Running("erase")
    BY <1>2 DEF AtIdle, AtAdd, AtPlan, AtExtend, AtLink, AtTransfer, HasChain, Marked, Running, Idle
  <2>2. QED
    BY <1>1, <2>1 DEF Sound, Heads
<1>3. CASE AtDelete
  <2>1. Sound(fat, Heads \cup {job.write_block}) /\ Marked = fat
    BY <1>3 DEF AtDelete, Marked, Running
  <2>2. QED
    BY <1>1, <2>1 DEF Sound, Heads
<1>4. CASE AtIndex \/ AtClaim
  <2>1. Unclaimed /\ Marked = fat /\ ~Running("erase")
    BY <1>4 DEF AtIndex, AtClaim, Marked, Running
  <2>2. \A i \in Listed : Intact(i) => root[i].index \in Heads \ {JobFirst}
    BY <1>1, <2>1 DEF Intact, Unclaimed, Heads
  <2>3. QED
    BY <2>1, <2>2 DEF Unclaimed, Sound
<1>5. CASE AtMark
  <2>1. Sound(Marked, Heads) /\ ~Running("erase")
    BY <1>5 DEF AtMark, Running
  <2>2. QED
    BY <1>1, <2>1 DEF Sound, Heads
<1>6. CASE AtSweep
  <2>1. Sound(fat, {}) /\ Marked = fat /\ ~Running("erase")
    BY <1>6 DEF AtSweep, Marked, Running
  <2>2. \A i \in Listed : Intact(i) => StartsChain(fat, root[i].index)
    BY <1>6, <2>1 DEF AtSweep, Gone, Whole, Intact
  <2>3. QED
    BY <2>1, <2>2 DEF Sound
<1>7. CASE AtErase
  <2>1. Sound(fat, {job.write_block}) /\ Marked = fat
    BY <1>7 DEF AtErase, Marked, Running
  <2>2. ASSUME NEW i \in Listed, Intact(i)
        PROVE  StartsChain(fat, root[i].index)
    <3>1. i \in Nat /\ job.slot \in Nat /\ ~Gone(i)
      BY <2>1, <2>2, TableAssumption DEF Listed, DirSlots, JobType, Gone, Intact
    <3>2. CASE i = job.slot
      BY <1>7, <2>1, <3>1, <3>2 DEF AtErase, Sound
    <3>3. CASE i > job.slot
      BY <1>7, <2>2, <3>3 DEF AtErase, Whole, Intact
    <3>4. CASE i < job.slot
      BY <1>7, <3>1, <3>4 DEF AtErase
    <3>5. QED
      BY <3>1, <3>2, <3>3, <3>4
  <2>3. QED
    BY <2>1, <2>2 DEF Sound
<1>8. QED
  BY <1>2, <1>3, <1>4, <1>5, <1>6, <1>7 DEF AtSomePoint

\* While a call is where no descriptor is ahead, they all agree with their entries.
LEMMA AllCurrent ==
  ASSUME DescriptorsKept
  PROVE  /\ \A fd \in Open : fd # job.fd => Current(fd)
         /\ ~Running("index") /\ ~Running("transfer") => \A fd \in Open : Current(fd)
BY DEF DescriptorsKept, AheadOf

\* With one descriptor to a file, no two have an entry in common.
LEMMA OtherEntry ==
  ASSUME TableInv, OpenOnce, NEW fd \in Open, NEW x \in Open, x # fd
  PROVE  Node(x).dir_entry_index # Node(fd).dir_entry_index
BY DEF TableInv, OpenFilesListed, OpenOnce

\* Where a write has its first block, and the entry has it too.
LEMMA JobEntryCurrent ==
  ASSUME TableInv, job \in JobType, Writer, DescriptorsKept, ~Running("index")
  PROVE  /\ root[JobEntry].index = JobFirst
         /\ \A i \in Listed : root[i].index = JobFirst /\ JobFirst # FAT_EOC => i = JobEntry
<1>1. root[JobEntry].index = JobFirst /\ JobEntry \in Listed
  <2>1. JobEntry \in Listed /\ job.fd \in Open
    BY WriterFacts
  <2>2. Current(job.fd) \/ AheadOf(Node(job.fd), root[Node(job.fd).dir_entry_index])
    BY <2>1 DEF DescriptorsKept
  <2>3. QED
    BY <2>1, <2>2 DEF Current, AheadOf, JobEntry, JobFirst, JobNode, Running
<1>2. QED
  BY <1>1 DEF TableInv, HeadsBelongToOneEntry

\* The files Torn names: those whose first block is not marked, and the one of a write
\* whose last block is not.
LEMMA TornFiles ==
  ASSUME TableInv, job \in JobType, AtSomePoint, DescriptorsKept, NEW i \in Listed
  PROVE  root[i].filename \in Torn <=>
           root[i].index # FAT_EOC /\ (~Intact(i) \/ (Running("mark") /\ i = JobEntry))
<1>1. \A j \in Listed : root[j].filename = root[i].filename => j = i
  BY DEF TableInv, NamesUnique
<1>2. root[i].index # FAT_EOC => root[i].index \in DirHeads
  BY DEF DirHeads
<1>3. CASE AtIdle \/ AtAdd \/ AtIndex \/ AtPlan \/ AtExtend \/ AtLink \/ AtTransfer \/ AtDelete
  <2>1. Torn = {}
    <3>1. CASE AtIdle
      <4>1. job.slot = 0 /\ job.pc = "idle" /\ \A j \in Listed : ~(j < 0)
        BY <3>1 DEF AtIdle, Idle, Listed, DirSlots
      <4>2. QED
        BY <4>1 DEF Torn, Running
    <3>2. CASE ~AtIdle
      <4>1. job.call # "erase_all" /\ ~Running("claim") /\ ~Running("mark")
        BY <1>3, <3>2 DEF AtAdd, AtIndex, AtPlan, AtExtend, AtLink, AtTransfer, AtDelete,
          HasChain, Writer, Running
      <4>2. QED
        BY <4>1 DEF Torn
    <3>3. QED
      BY <3>1, <3>2
  <2>2. Marked = fat /\ ~Running("mark")
    BY <1>3 DEF AtIdle, AtAdd, AtIndex, AtPlan, AtExtend, AtLink, AtTransfer, AtDelete, Marked,
      Running, Idle
  <2>3. root[i].index # FAT_EOC => fat[root[i].index] # 0
    <3>1. Sound(fat, DirHeads)
      BY <2>1, KillSpares
    <3>2. QED
      BY <1>2, <3>1 DEF Sound, StartsChain
  <2>4. QED
    BY <2>1, <2>2, <2>3 DEF Intact
<1>4. CASE AtClaim \/ AtMark
  <2>1. Writer /\ Torn = {JobNode.filename} /\ ~Running("index") /\ JobFirst # FAT_EOC
    BY <1>4, Sizes DEF AtClaim, AtMark, Torn, Running, Unclaimed
  <2>2. /\ root[JobEntry].index = JobFirst
        /\ root[i].index = JobFirst /\ JobFirst # FAT_EOC => i = JobEntry
    BY <2>1, JobEntryCurrent
  <2>3. root[i].filename \in Torn <=> i = JobEntry
    <3>1. JobEntry \in Listed /\ root[JobEntry].filename = JobNode.filename
      BY <2>1, WriterFacts
    <3>2. QED
      BY <1>1, <2>1, <3>1
  <2>4. CASE AtClaim
    <3>1. Marked = fat /\ ~Running("mark") /\ Unclaimed
      BY <2>4 DEF AtClaim, Marked, Running
    <3>2. i = JobEntry => ~Intact(i) /\ root[i].index # FAT_EOC
      BY <2>1, <2>2, <3>1 DEF Intact, Unclaimed
    <3>3. i # JobEntry /\ root[i].index # FAT_EOC => Intact(i)
      BY <1>2, <2>2, <2>1, <3>1 DEF Intact, Unclaimed, Sound, Heads, StartsChain
    <3>4. QED
      BY <2>3, <3>1, <3>2, <3>3
  <2>5. CASE AtMark
    <3>1. Running("mark") /\ Sound(Marked, Heads)
      BY <2>5 DEF AtMark
    <3>2. root[i].index # FAT_EOC => Intact(i)
      BY <1>2, <3>1 DEF Intact, Sound, Heads, StartsChain
    <3>3. QED
      BY <2>1, <2>2, <2>3, <3>1, <3>2
  <2>6. QED
    BY <1>4, <2>4, <2>5
<1>5. CASE AtSweep \/ AtErase
  <2>1. /\ job.call = "erase_all" /\ Marked = fat /\ ~Running("mark") /\ ~Running("claim")
        /\ i \in Nat /\ job.slot \in Nat
    BY <1>5, TableAssumption DEF AtSweep, AtErase, Running, Marked, Listed, DirSlots, JobType
  <2>2. root[i].filename \in Torn <=>
          /\ root[i].index # FAT_EOC
          /\ \/ i < job.slot
             \/ (i = job.slot /\ Running("erase") /\ job.write_block # root[i].index)
    BY <1>1, <2>1 DEF Torn
  <2>3. CASE AtSweep
    <3>1. ~Running("erase") /\ (IF i < job.slot THEN Gone(i) ELSE Whole(i))
      BY <2>3 DEF AtSweep, Running
    <3>2. QED
      BY <2>1, <2>2, <3>1 DEF Gone, Whole, Intact, StartsChain
  <2>4. CASE AtErase
    <3>1. /\ Running("erase") /\ Sound(fat, {job.write_block})
          /\ i < job.slot => Gone(i)
          /\ i > job.slot => Whole(i)
          /\ i = job.slot => root[i].index = job.write_block \/ Gone(i)
      BY <2>4 DEF AtErase
    <3>2. root[i].index = job.write_block => fat[root[i].index] # 0
      BY <3>1 DEF Sound, StartsChain
    <3>3. i < job.slot \/ i = job.slot \/ i > job.slot
      BY <2>1
    <3>4. CASE i < job.slot
      BY <2>1, <2>2, <3>1, <3>4 DEF Gone, Intact
    <3>5. CASE i = job.slot
      BY <2>1, <2>2, <3>1, <3>2, <3>5 DEF Gone, Intact
    <3>6. CASE i > job.slot
      BY <2>1, <2>2, <3>1, <3>6 DEF Whole, Intact, StartsChain
    <3>7. QED
      BY <3>3, <3>4, <3>5, <3>6
  <2>5. QED
    BY <1>5, <2>3, <2>4
<1>6. QED
  BY <1>3, <1>4, <1>5 DEF AtSomePoint

\* The chain of an intact file, as the FAT is and as it will be: the one that is being
\* lengthened leads to the block that is not marked yet, the others are as they will be.
LEMMA IntactChain ==
  ASSUME TableInv, job \in JobType, AtSomePoint, DescriptorsKept, NEW i \in Listed, Intact(i)
  PROVE  IF Running("mark") /\ i = JobEntry
         THEN \E b \in ChainOf(fat, root[i].index) : fat[b] = 0
         ELSE /\ \A m \in Nat : skip_blocks(fat, root[i].index, m)
                                  = skip_blocks(Marked, root[i].index, m)
              /\ \A b \in ChainOf(fat, root[i].index) : fat[b] # 0
<1>1. PICK h : h = root[i].index
  OBVIOUS
<1>2. Marked \in FatType /\ WellLinked(Marked) /\ StartsChain(Marked, h)
  BY <1>1, IntactStarts
<1>3. CASE ~Running("mark")
  <2>1. Marked = fat
    BY <1>3 DEF Marked
  <2>2. QED
    BY <1>1, <1>2, <1>3, <2>1, ChainClosed
<1>4. CASE Running("mark")
  <2>1. PICK b : b = job.available_block
    OBVIOUS
  <2>2. /\ Writer /\ fat \in FatType /\ b \in ChainOf(Marked, JobFirst) /\ fat[b] = 0
        /\ JobFirst # FAT_EOC /\ Sound(Marked, Heads) /\ Marked = set_fat_entry(fat, b, FAT_EOC)
    BY <1>4, <2>1, PointOf DEF AtMark, Marked
  <2>3. StartsChain(Marked, JobFirst) /\ b \in Blocks /\ FAT_EOC \in Links
    <3>1. StartsChain(Marked, JobFirst)
      BY <2>2 DEF Sound, Writer, Heads, FdHeads, JobFirst, JobNode
    <3>2. QED
      BY <1>2, <2>2, <3>1, ChainClosed DEF Links
  <2>4. \A c \in Blocks : c # b => Marked[c] = fat[c]
    BY <2>2, <2>3, SetEntryType
  <2>5. /\ b \in ChainOf(Marked, h) => b \in ChainOf(fat, h)
        /\ b \notin ChainOf(Marked, h) =>
             /\ \A m \in Nat : skip_blocks(fat, h, m) = skip_blocks(Marked, h, m)
             /\ ChainOf(fat, h) = ChainOf(Marked, h)
    BY <1>2, <2>2, <2>3, <2>4, UnmarkedChains
  <2>6. /\ root[JobEntry].index = JobFirst
        /\ root[i].index = JobFirst => i = JobEntry
    BY <1>4, <2>2, JobEntryCurrent DEF Running
  <2>7. CASE i = JobEntry
    BY <1>1, <1>4, <2>2, <2>5, <2>6, <2>7
  <2>8. CASE i # JobEntry
    <3>1. b \notin ChainOf(Marked, h)
      BY <1>1, <1>2, <2>2, <2>3, <2>6, <2>8, ChainsApart
    <3>2. \A c \in ChainOf(fat, h) : fat[c] # 0
      BY <1>2, <2>4, <2>5, <3>1, ChainClosed
    <3>3. QED
      BY <1>1, <2>5, <2>8, <3>1, <3>2
  <2>9. QED
    BY <2>7, <2>8
<1>5. QED
  BY <1>3, <1>4

\* What the three properties say, from the invariant.
LEMMA TornIsExact ==
  ASSUME TableInv, job \in JobType, AtSomePoint, KeptInv, damage.torn = {}
  PROVE  TornExactly
<1>1. SUFFICES ASSUME NEW i \in Listed
               PROVE  ReachesFree(i) <=> root[i].filename \in Torn
  BY DEF TornExactly
<1>2. root[i].filename \in Torn <=>
        root[i].index # FAT_EOC /\ (~Intact(i) \/ (Running("mark") /\ i = JobEntry))
  BY TornFiles DEF KeptInv
<1>3. CASE root[i].index = FAT_EOC
  BY <1>2, <1>3 DEF ReachesFree
<1>4. CASE Intact(i)
  <2>1. IF Running("mark") /\ i = JobEntry
        THEN \E b \in ChainOf(fat, root[i].index) : fat[b] = 0
        ELSE \A b \in ChainOf(fat, root[i].index) : fat[b] # 0
    BY <1>4, IntactChain DEF KeptInv
  <2>2. QED
    BY <1>2, <1>4, <2>1 DEF ReachesFree, Intact
<1>5. CASE root[i].index # FAT_EOC /\ ~Intact(i)
  <2>1. PICK h : h = root[i].index
    OBVIOUS
  <2>2. h \in Blocks /\ Marked[h] = 0 /\ fat \in FatType
    BY <1>5, <2>1 DEF Intact, TableInv, TypeOK, DirEntry, Links, Listed
  <2>3. fat[h] = 0
    <3>1. CASE ~Running("mark")
      BY <2>2, <3>1 DEF Marked
    <3>2. CASE Running("mark")
      <4>1. Sound(Marked, Heads)
        BY <3>2, PointOf DEF AtMark
      <4>2. h \in Heads
        BY <1>5, <2>1 DEF Heads, DirHeads
      <4>3. QED
        BY <2>2, <4>1, <4>2 DEF Sound, StartsChain
    <3>3. QED
      BY <3>1, <3>2
  <2>4. h \in ChainOf(fat, h)
    BY <2>2, SkipStep, Sizes DEF ChainOf
  <2>5. QED
    BY <1>2, <1>5, <2>1, <2>3, <2>4 DEF ReachesFree
<1>6. QED
  BY <1>3, <1>4, <1>5 DEF Intact

LEMMA BytesAreHeld ==
  ASSUME TableInv, job \in JobType, AtSomePoint, KeptInv, damage.torn = {}
  PROVE  BytesSurviveKill
<1>1. SUFFICES ASSUME NEW i \in Listed, root[i].filename \notin Torn, NEW p \in 0 .. root[i].size - 1
               PROVE  ByteAt(fat, data, root[i].index, p) \in WrittenAt(root[i].filename, p)
  BY DEF BytesSurviveKill, ByteAt, WrittenAt
<1>2. root[i].size \in Nat
  BY DEF TableInv, TypeOK, DirEntry, Listed
<1>3. p \in Nat /\ p < root[i].size
  BY <1>1, <1>2
<1>4. root[i].index # FAT_EOC
  BY <1>3 DEF KeptInv, DescriptorsKept, EmptyHasNoSize
<1>5. Intact(i) /\ ~(Running("mark") /\ i = JobEntry)
  BY <1>1, <1>4, TornFiles DEF KeptInv
<1>6. ByteAt(Marked, data, root[i].index, p) \in WrittenAt(root[i].filename, p)
  BY <1>3, <1>5 DEF KeptInv, FilesKept, FileHeld, Held
<1>7. PICK m \in Nat : m = current_block_offset(p)
  BY <1>3, BlockCountType
<1>8. skip_blocks(fat, root[i].index, m) = skip_blocks(Marked, root[i].index, m)
  BY <1>5, <1>7, IntactChain DEF KeptInv
<1>9. QED
  BY <1>6, <1>7, <1>8 DEF ByteAt

\* When no file is torn by a kill right here, the owners of blocks are entries.
LEMMA OwnersListed ==
  ASSUME TableInv, job \in JobType, AtSomePoint, DescriptorsKept, Torn = {}
  PROVE  /\ Marked = fat
         /\ \A i \in Listed : root[i].index # FAT_EOC => Intact(i)
         /\ ~Orphaned => Owners \subseteq DirHeads
<1>1. \A i \in Listed : root[i].index # FAT_EOC => Intact(i)
  BY TornFiles
<1>2. Marked = fat
  BY DEF Torn, Marked
<1>3. ASSUME ~Orphaned, Running("erase")
      PROVE  job.write_block \in DirHeads
  <2>1. AtErase
    BY <1>3, PointOf DEF AtDelete, Orphaned
  <2>2. job.slot \in Listed /\ root[job.slot].index # FAT_EOC
    BY <2>1 DEF AtErase
  <2>3. root[job.slot].index = job.write_block
    BY <1>1, <1>2, <2>1, <2>2 DEF AtErase, Gone, Intact
  <2>4. QED
    BY <2>2, <2>3 DEF DirHeads
<1>4. \A i \in Listed : Intact(i) => root[i].index \in DirHeads
  BY DEF Intact, DirHeads
<1>5. QED
  BY <1>1, <1>2, <1>3, <1>4 DEF Owners

LEMMA NothingIsLost ==
  ASSUME TableInv, job \in JobType, AtSomePoint, KeptInv, damage.torn = {}
  PROVE  LeaksOnlyByDelete
<1>1. SUFFICES ASSUME Torn = {}, ~damage.leaked, ~Orphaned
               PROVE  Blocks \ FreeBlocks(fat) = {0} \cup UNION {ChainOf(fat, h) : h \in DirHeads}
  BY DEF LeaksOnlyByDelete
<1>2. Reached(fat, Owners) /\ Owners \subseteq DirHeads
  BY <1>1, OwnersListed DEF KeptInv, BlocksOwned
<1>3. Sound(fat, DirHeads)
  BY <1>1, KillSpares
<1>4. ASSUME NEW h \in DirHeads, NEW b \in ChainOf(fat, h)
      PROVE  b \in Blocks /\ fat[b] # 0
  BY <1>3, ChainClosed DEF Sound
<1>5. 0 \in Blocks /\ fat[0] # 0
  BY <1>3, Sizes DEF Sound, WellLinked, LinksLeadToAllocated, FAT_EOC
<1>6. QED
  BY <1>2, <1>4, <1>5 DEF Reached, FreeBlocks

\* A kill.
LEMMA KillKept ==
  ASSUME TableInv, job \in JobType, AtSomePoint, KeptInv, damage.torn = {}, Kill
  PROVE  CrashKeptInv'
<1>1. /\ fd_table' = fd_table_constructor /\ job' = Idle
      /\ damage' = [torn |-> Torn, leaked |-> damage.leaked \/ Orphaned]
      /\ UNCHANGED <<root, fat, data>>
  BY DEF Kill, volume
<1>2. Open' = {} /\ Listed' = Listed /\ DirHeads' = DirHeads
  BY <1>1, EmptyTable DEF Open, Listed, Entries, DirHeads
<1>3. job'.pc = "idle" /\ Marked' = fat /\ Torn' = {}
  <2>1. job'.pc = "idle" /\ job'.slot = 0 /\ \A i \in Listed : ~(i < 0)
    BY <1>1 DEF Idle, Listed, DirSlots
  <2>2. QED
    BY <1>1, <1>2, <2>1 DEF Marked, Torn, Running
<1>4. CASE Torn = {}
  <2>1. Marked = fat /\ \A i \in Listed : root[i].index # FAT_EOC => Intact(i)
    BY <1>4, OwnersListed DEF KeptInv
  <2>2. \A i \in Listed : Intact(i)' = Intact(i) /\ FileHeld(i)' = FileHeld(i)
    BY <1>1, <1>3, <2>1 DEF Intact, FileHeld
  <2>3. DescriptorsKept'
    BY <1>1, <1>2, <1>3 DEF KeptInv, DescriptorsKept, OpenOnce, EmptyHasNoSize, Running
  <2>4. FilesKept'
    BY <1>2, <2>2 DEF KeptInv, FilesKept
  <2>5. Owners' = DirHeads
    <3>1. Owners' = {root[i].index : i \in {j \in Listed : Intact(j)}}
      BY <1>1, <1>2, <1>3, <2>2 DEF Owners, Running
    <3>2. QED
      BY <2>1, <3>1 DEF DirHeads, Intact
  <2>6. BlocksOwned'
    <3>1. SUFFICES ASSUME ~damage.leaked, ~Orphaned
                   PROVE  Reached(fat, DirHeads)
      BY <1>1, <1>3, <2>5 DEF BlocksOwned
    <3>2. Owners \subseteq DirHeads
      BY <1>4, <3>1, OwnersListed DEF KeptInv
    <3>3. QED
      BY <2>1, <3>1, <3>2 DEF KeptInv, BlocksOwned, Reached
  <2>7. QED
    BY <1>1, <1>3, <1>4, <2>3, <2>4, <2>6 DEF CrashKeptInv, KeptInv, Running
<1>5. CASE Torn # {}
  <2>1. TornExactly /\ BytesSurviveKill
    BY TornIsExact, BytesAreHeld
  <2>2. damage'.torn \cup Torn' = damage.torn \cup Torn /\ damage'.torn # {}
    BY <1>1, <1>3, <1>5
  <2>3. TornExactly' /\ BytesSurviveKill'
    BY <1>1, <1>2, <2>1, <2>2 DEF TornExactly, ReachesFree, BytesSurviveKill
  <2>4. QED
    BY <2>2, <2>3 DEF CrashKeptInv, WreckedInv
<1>6. QED
  BY <1>4, <1>5

-----------------------------------------------------------------------------
(* What a step keeps.                                                      *)

LEMMA LongerSelf ==
  ASSUME NEW table \in FatType, NEW h \in Blocks
  PROVE  Longer(table, table, h)
<1>1. total_file_blocks(table, h) \in Nat
  BY TotalType
<1>2. QED
  BY <1>1 DEF Longer

\* A file whose blocks a step leaves alone, and whose chain it does not shorten.
LEMMA FileStays ==
  ASSUME TableInv, job \in JobType, AtSomePoint, FilesKept, NEW i \in Listed, Intact(i),
         root'[i] = root[i], Longer(Marked, Marked', root[i].index),
         \A b \in ChainOf(Marked, root[i].index) : data'[b] = data[b]
  PROVE  FileHeld(i)'
<1>1. PICK h, name, size : h = root[i].index /\ name = root[i].filename /\ size = root[i].size
  OBVIOUS
<1>2. Marked \in FatType /\ WellLinked(Marked) /\ StartsChain(Marked, h)
  BY <1>1, IntactStarts
<1>3. size \in Nat
  BY <1>1 DEF TableInv, TypeOK, DirEntry, Listed
<1>4. /\ size <= total_file_blocks(Marked, h) * BlockSize
      /\ Held(Marked, data, h, name, size)
  BY <1>1 DEF FilesKept, FileHeld
<1>5. /\ size <= total_file_blocks(Marked', h) * BlockSize
      /\ Held(Marked', data', h, name, size)
  BY <1>1, <1>2, <1>3, <1>4, HeldKept
<1>6. QED
  BY <1>1, <1>5 DEF FileHeld

\* A step that changes neither the chains nor the bytes in blocks that are taken.
LEMMA VolumeQuiet ==
  ASSUME TableInv, job \in JobType, AtSomePoint, KeptInv,
         UNCHANGED <<root, damage>>, Marked' = Marked,
         \A b \in Blocks : Marked[b] # 0 => data'[b] = data[b],
         Running("erase") => Running("erase")' /\ job'.write_block = job.write_block
  PROVE  FilesKept' /\ BlocksOwned'
<1>1. Listed' = Listed
  BY DEF Listed, Entries
<1>2. \A i \in Listed : Intact(i)' = Intact(i)
  BY DEF Intact
<1>3. ASSUME NEW i \in Listed, Intact(i)
      PROVE  FileHeld(i)'
  <2>1. PICK h : h = root[i].index
    OBVIOUS
  <2>2. Marked \in FatType /\ WellLinked(Marked) /\ StartsChain(Marked, h)
    BY <1>3, <2>1, IntactStarts
  <2>3. Longer(Marked, Marked', h)
    BY <2>2, LongerSelf DEF StartsChain
  <2>4. \A b \in ChainOf(Marked, h) : data'[b] = data[b]
    BY <2>2, ChainClosed
  <2>5. QED
    BY <1>3, <2>1, <2>3, <2>4, FileStays DEF KeptInv
<1>4. Owners \subseteq Owners'
  BY <1>1, <1>2 DEF Owners
<1>5. QED
  BY <1>1, <1>2, <1>3, <1>4 DEF FilesKept, KeptInv, BlocksOwned, Reached

\* Nor the table: a step of a call that works out what to do next.
LEMMA QuietStep ==
  ASSUME TableInv, job \in JobType, AtSomePoint, KeptInv,
         UNCHANGED <<fd_table, root, damage>>, Marked' = Marked,
         \A b \in Blocks : Marked[b] # 0 => data'[b] = data[b],
         ~Running("index"), ~Running("transfer"), ~Running("erase"), ~Running("claim")',
         Running("transfer")' => Moving'
  PROVE  KeptInv'
<1>1. Open' = Open /\ Listed' = Listed /\ \A fd : Node(fd)' = Node(fd)
  BY DEF Open, Listed, Entries, Node
<1>2. \A fd \in Open : Current(fd)
  BY AllCurrent DEF KeptInv
<1>3. \A fd \in Open : Current(fd)'
  BY <1>1, <1>2 DEF Current
<1>4. DescriptorsKept'
  BY <1>1, <1>3 DEF KeptInv, DescriptorsKept, OpenOnce, EmptyHasNoSize
<1>5. FilesKept' /\ BlocksOwned'
  BY VolumeQuiet
<1>6. QED
  BY <1>4, <1>5 DEF KeptInv

-----------------------------------------------------------------------------
(* The steps of fs_write.                                                  *)

LEMMA StartWriteKept ==
  ASSUME TableInv, job \in JobType, AtIdle, KeptInv,
         NEW fd \in FdArgs, NEW buf \in BufArgs, NEW count \in CountArgs, StartWrite(fd, buf, count)
  PROVE  KeptInv'
<1>1. UNCHANGED <<fd_table, root, fat, data, damage>>
  BY DEF StartWrite, vars
<1>2. job.pc = "idle" /\ job'.pc \in {"add", "plan"}
  BY DEF StartWrite, Idle
<1>3. Marked = fat /\ Marked' = fat
  BY <1>1, <1>2 DEF Marked, Running
<1>4. QED
  BY <1>1, <1>2, <1>3, QuietStep DEF Running, AtSomePoint

LEMMA PlanWriteKept ==
  ASSUME TableInv, job \in JobType, AtPlan, KeptInv, PlanWrite
  PROVE  KeptInv'
<1>1. UNCHANGED <<fd_table, root, fat, data, damage>>
  BY DEF PlanWrite, vars
<1>2. job.pc = "plan" /\ job'.pc = "extend"
  BY DEF PlanWrite, Running, JobType
<1>3. Marked = fat /\ Marked' = fat
  BY <1>1, <1>2 DEF Marked, Running
<1>4. QED
  BY <1>1, <1>2, <1>3, QuietStep DEF Running, AtSomePoint

LEMMA AllocClearKept ==
  ASSUME TableInv, job \in JobType, AtExtend, KeptInv, AllocClear
  PROVE  KeptInv'
<1>1. PICK b : b = first_block_available(fat)
  OBVIOUS
<1>2. b \in Blocks /\ fat[b] = 0
  BY <1>1, FirstAvailable DEF AllocClear
<1>3. UNCHANGED <<fd_table, root, fat, damage>> /\ data' = clear_block(data, b)
  BY <1>1 DEF AllocClear
<1>4. job.pc = "extend" /\ job'.pc = "link"
  BY DEF AllocClear, Running, JobType
<1>5. Marked = fat /\ Marked' = fat
  BY <1>3, <1>4 DEF Marked, Running
<1>6. \A c \in Blocks : Marked[c] # 0 => data'[c] = data[c]
  BY <1>2, <1>3, <1>5 DEF clear_block, TableInv, TypeOK, DataType
<1>7. QED
  BY <1>3, <1>4, <1>5, <1>6, QuietStep DEF Running, AtSomePoint

LEMMA AllocMarkKept ==
  ASSUME TableInv, job \in JobType, AtMark, KeptInv, AllocMark
  PROVE  KeptInv'
<1>1. job.pc = "mark" /\ job'.pc = "extend"
  BY DEF AllocMark, Running, JobType
<1>2. UNCHANGED <<fd_table, root, data, damage>> /\ fat' = Marked
  BY <1>1 DEF AllocMark, Marked, Running
<1>3. Marked' = Marked
  BY <1>1, <1>2 DEF Marked, Running
<1>4. QED
  BY <1>1, <1>2, <1>3, QuietStep DEF Running, AtSomePoint

LEMMA AllocDoneKept ==
  ASSUME TableInv, job \in JobType, AtExtend, KeptInv, AllocDone
  PROVE  KeptInv'
<1>1. UNCHANGED <<fd_table, root, fat, data, damage>>
  BY DEF AllocDone, volume
<1>2. job.pc = "extend" /\ HasChain /\ Writer /\ AtSomePoint
  BY DEF AtExtend, Running, HasChain, AtSomePoint
<1>3. job' = Idle \/ job'.pc = "transfer"
  BY DEF AllocDone, Finish, JobType
<1>4. Marked = fat /\ Marked' = fat
  BY <1>1, <1>2, <1>3 DEF Marked, Running, Idle
<1>5. ASSUME job'.pc = "transfer"
      PROVE  Moving'
  <2>1. PICK n, size, offset, name :
          /\ n = total_file_blocks(fat, JobFirst) /\ size = JobNode.size
          /\ offset = JobNode.offset /\ name = JobNode.filename
    OBVIOUS
  <2>2. /\ fat \in FatType /\ data \in DataType /\ JobFirst \in Blocks /\ job.fd \in Open
        /\ size \in Nat /\ offset \in Nat /\ StartsChain(fat, JobFirst) /\ WellLinked(fat)
        /\ JobEntry \in Listed /\ root[JobEntry].filename = name
    BY <1>2, <2>1, WriterFacts, ChainFacts
  <2>3. PICK block : block = skip_blocks(fat, JobFirst, current_block_offset(offset))
    OBVIOUS
  <2>4. ~(job' = Idle)
    BY <1>5 DEF Idle
  <2>5. /\ job' = [job EXCEPT !.pc = "transfer",
                              !.wanted = IF @ > n * BlockSize THEN n * BlockSize ELSE @,
                              !.write_block = block]
    BY <2>1, <2>3, <2>4 DEF AllocDone, Finish, JobFirst
  <2>6. /\ job'.fd = job.fd /\ job'.buf = job.buf /\ job'.start = job.start
        /\ job'.write_block = block
        /\ job'.wanted = IF job.wanted > n * BlockSize THEN n * BlockSize ELSE job.wanted
    BY <2>5 DEF JobType
  <2>7. JobNode' = JobNode /\ JobFirst' = JobFirst
    BY <1>1, <2>6 DEF JobNode, JobFirst, Node
  <2>8. n * BlockSize \in Nat /\ job.wanted \in Nat
    BY <2>1, <2>2, TotalType, ProductType DEF JobType
  <2>9. job'.wanted <= n * BlockSize
    <3>1. PICK room \in Nat : room = n * BlockSize
      BY <2>8
    <3>2. QED
      BY <2>6, <2>8, <3>1
  <2>10. Current(job.fd)
    BY <1>2, <2>2, AllCurrent DEF KeptInv, Running
  <2>11. /\ root[JobEntry].size = size /\ root[JobEntry].index = JobFirst
         /\ offset <= size
    BY <2>1, <2>10 DEF Current, JobEntry, JobFirst, JobNode
  <2>12. FileHeld(JobEntry)
    <3>1. Intact(JobEntry)
      BY <1>4, <2>2, <2>11, Sizes DEF Intact, StartsChain
    <3>2. QED
      BY <2>2, <3>1 DEF KeptInv, FilesKept
  <2>13. size <= n * BlockSize /\ Held(fat, data, JobFirst, name, size)
    BY <1>4, <2>1, <2>2, <2>11, <2>12 DEF FileHeld
  <2>14. block \in Blocks
    BY <2>2, <2>3, SkipStep, BlockCountType
  <2>15. job.start <= offset
    BY <1>2, <2>1 DEF Writer
  <2>16. PICK s : s = [offset |-> offset, size |-> size, block |-> block, data |-> data]
    OBVIOUS
  <2>17. s \in WriteState
    BY <2>2, <2>14, <2>16 DEF WriteState
  <2>18. Writing(fat, JobFirst, n, name, job.start, job'.wanted, s)
    BY <2>3, <2>11, <2>13, <2>15, <2>16, <2>17 DEF Writing
  <2>19. QED
    BY <1>1, <2>1, <2>6, <2>7, <2>9, <2>16, <2>18 DEF Moving
<1>6. QED
  <2>1. job'.pc # "claim"
    BY <1>3 DEF Idle
  <2>2. QED
    BY <1>1, <1>2, <1>4, <1>5, <2>1, QuietStep DEF Running

\* A step of a write that leaves its descriptor ahead of the entry.
LEMMA DescriptorAhead ==
  ASSUME DescriptorsKept, NEW fd \in Open, fd = job.fd, job'.fd = fd, UNCHANGED root,
         Open' = Open, \A x \in Open : x # fd => Node(x)' = Node(x),
         Node(fd)'.filename = Node(fd).filename,
         Node(fd)'.dir_entry_index = Node(fd).dir_entry_index,
         AheadOf(Node(fd), root[Node(fd).dir_entry_index])', ~Running("claim")'
  PROVE  DescriptorsKept'
<1>1. \A x \in Open : Node(x)'.filename = Node(x).filename
  OBVIOUS
<1>2. \A x \in Open : x # fd => Current(x)'
  BY AllCurrent DEF Current
<1>3. OpenOnce' /\ EmptyHasNoSize'
  BY <1>1 DEF DescriptorsKept, OpenOnce, EmptyHasNoSize, Listed, Entries
<1>4. QED
  BY <1>2, <1>3 DEF DescriptorsKept

LEMMA AddClearKept ==
  ASSUME TableInv, job \in JobType, AtAdd, KeptInv, AddClear
  PROVE  KeptInv'
<1> DEFINE b == first_block_available(fat)
           node == [JobNode EXCEPT !.first_data_block = b]
<1>1. Writer /\ Sound(fat, Heads) /\ ~DiskFull(fat) /\ job.pc = "add" /\ JobFirst = FAT_EOC
  BY DEF AtAdd, Running
<1>2. PICK fd : fd = job.fd
  OBVIOUS
<1>3. /\ fat \in FatType /\ data \in DataType /\ fd \in Open
      /\ JobNode \in NodeType /\ JobNode = fd_table.nodes[fd] /\ JobNode = Node(fd)
  BY <1>2, <1>1, WriterFacts DEF JobNode
<1>4. b \in Blocks /\ fat[b] = 0
  BY <1>1, FirstAvailable
<1>5. /\ node \in NodeType
      /\ node.in_use = Node(fd).in_use /\ node.filename = Node(fd).filename
      /\ node.dir_entry_index = Node(fd).dir_entry_index
      /\ node.size = Node(fd).size /\ node.offset = Node(fd).offset
  BY <1>3, <1>4 DEF NodeType, Links
<1>6. /\ fd_table' = [fd_table EXCEPT !.nodes[fd] = node]
      /\ data' = clear_block(data, b)
      /\ UNCHANGED <<root, fat, damage>>
      /\ job' = [job EXCEPT !.pc = "index"]
  BY <1>2, <1>3 DEF AddClear, Goto
<1> HIDE DEF b, node
<1>7. job'.pc = "index" /\ job'.fd = fd
  BY <1>2, <1>6 DEF JobType
<1>8. Marked = fat /\ Marked' = fat
  BY <1>1, <1>6, <1>7 DEF Marked, Running
<1>9. FilesKept' /\ BlocksOwned'
  <2>1. \A c \in Blocks : Marked[c] # 0 => data'[c] = data[c]
    BY <1>3, <1>4, <1>6, <1>8 DEF clear_block, DataType
  <2>2. QED
    BY <1>1, <1>6, <1>8, <2>1, VolumeQuiet DEF AtSomePoint, Running
<1>10. Open' = Open /\ \A x \in Fds : Node(x)' = IF x = fd THEN node ELSE Node(x)
  BY <1>3, <1>5, <1>6, NodeUpdate DEF TableInv
<1>11. Open \subseteq Fds
  BY NodeFacts DEF TableInv
<1>12. Current(fd)
  BY <1>1, <1>3, AllCurrent DEF KeptInv, Running
<1>13. AheadOf(Node(fd), root[Node(fd).dir_entry_index])'
  <2>1. Node(fd)' = node
    BY <1>3, <1>10, <1>11
  <2>2. root'[Node(fd)'.dir_entry_index] = root[Node(fd).dir_entry_index]
    BY <1>5, <1>6, <2>1
  <2>3. Node(fd).first_data_block = FAT_EOC
    BY <1>1, <1>3 DEF JobFirst
  <2>4. QED
    BY <1>5, <1>7, <1>12, <2>1, <2>2, <2>3 DEF AheadOf, Current, Running
<1>14. DescriptorsKept'
  <2>1. /\ \A x \in Open : x # fd => Node(x)' = Node(x)
        /\ Node(fd)' = node
    BY <1>3, <1>10, <1>11
  <2>2. ~Running("claim")'
    BY <1>7 DEF Running
  <2>3. QED
    BY <1>2, <1>3, <1>5, <1>6, <1>7, <1>10, <1>13, <2>1, <2>2, DescriptorAhead DEF KeptInv
<1>15. QED
  BY <1>7, <1>9, <1>14 DEF KeptInv, Running

LEMMA AddIndexKept ==
  ASSUME TableInv, job \in JobType, AtIndex, KeptInv, AddIndex
  PROVE  KeptInv'
<1>1. PICK fd, e, b : fd = job.fd /\ e = JobEntry /\ b = JobFirst
  OBVIOUS
<1>2. Writer /\ Unclaimed /\ b \notin DirHeads /\ job.pc = "index" /\ AtSomePoint
  BY <1>1 DEF AtIndex, Running, AtSomePoint
<1>3. /\ fd \in Open /\ e \in Listed /\ e \in DirSlots /\ root \in [DirSlots -> DirEntry]
      /\ e = Node(fd).dir_entry_index /\ b = Node(fd).first_data_block
      /\ Listed \subseteq DirSlots
  BY <1>1, <1>2, WriterFacts DEF JobNode, JobEntry, JobFirst, Listed
<1>4. b \in Blocks /\ fat[b] = 0 /\ b # FAT_EOC
  BY <1>1, <1>2, Sizes DEF Unclaimed
<1>5. /\ root' = [root EXCEPT ![e].index = b]
      /\ UNCHANGED <<fd_table, fat, data, damage>>
      /\ job' = [job EXCEPT !.pc = "claim"]
  BY <1>1 DEF AddIndex, Goto, JobEntry, JobFirst
<1>6. /\ root'[e].index = b /\ root'[e].size = root[e].size
      /\ root'[e].filename = root[e].filename
      /\ \A i \in DirSlots : i # e => root'[i] = root[i]
  BY <1>3, <1>5 DEF DirEntry
<1>7. job'.pc = "claim" /\ job'.fd = fd
  BY <1>1, <1>5 DEF JobType
<1>8. Open' = Open /\ \A x : Node(x)' = Node(x)
  BY <1>5 DEF Open, Node
<1>9. Listed' = Listed
  BY <1>3, <1>6 DEF Listed, Entries
<1>10. AheadOf(Node(fd), root[e])
  <2>1. ~Current(fd)
    BY <1>2, <1>3, <1>4 DEF Current, DirHeads
  <2>2. QED
    BY <1>3, <2>1 DEF KeptInv, DescriptorsKept
<1>11. Node(fd).size = root[e].size /\ Node(fd).offset <= root[e].size /\ root[e].index = FAT_EOC
  BY <1>2, <1>10 DEF AheadOf, Running
<1>12. DescriptorsKept'
  <2>1. Current(fd)'
    BY <1>3, <1>6, <1>8, <1>11 DEF Current
  <2>2. ASSUME NEW x \in Open, x # fd
        PROVE  Current(x)'
    <3>1. Current(x) /\ Node(x).dir_entry_index # e
      BY <1>1, <1>3, <2>2, AllCurrent, OtherEntry DEF KeptInv, DescriptorsKept
    <3>2. Node(x).dir_entry_index \in DirSlots
      BY NodeFacts DEF TableInv, NodeType
    <3>3. QED
      BY <1>6, <1>8, <3>1, <3>2 DEF Current
  <2>3. OpenOnce'
    BY <1>8 DEF KeptInv, DescriptorsKept, OpenOnce
  <2>4. EmptyHasNoSize'
    BY <1>3, <1>4, <1>6, <1>9 DEF KeptInv, DescriptorsKept, EmptyHasNoSize
  <2>5. root'[JobEntry'].size = 0
    <3>1. JobEntry' = e
      BY <1>3, <1>7, <1>8 DEF JobEntry, JobNode
    <3>2. root[e].size = 0
      BY <1>3, <1>11 DEF KeptInv, DescriptorsKept, EmptyHasNoSize
    <3>3. QED
      BY <1>6, <3>1, <3>2
  <2>6. QED
    BY <1>8, <2>1, <2>2, <2>3, <2>4, <2>5 DEF DescriptorsKept
<1>13. Marked = fat /\ Marked' = fat
  BY <1>2, <1>5, <1>7 DEF Marked, Running
<1>14. \A i \in Listed : Intact(i)' <=> Intact(i)
  BY <1>3, <1>4, <1>6, <1>11, <1>13 DEF Intact
<1>15. ~Intact(e) /\ \A i \in Listed : Intact(i) => root'[i] = root[i]
  BY <1>3, <1>6, <1>11 DEF Intact
<1>16. FilesKept'
  <2>1. ASSUME NEW i \in Listed, Intact(i)
        PROVE  FileHeld(i)'
    BY <1>5, <1>13, <1>15, <2>1 DEF KeptInv, FilesKept, FileHeld
  <2>2. QED
    BY <1>9, <1>14, <2>1 DEF FilesKept
<1>17. BlocksOwned'
  <2>1. Owners' = Owners
    <3>1. {root'[i].index : i \in {j \in Listed : Intact(j)}}
            = {root[i].index : i \in {j \in Listed : Intact(j)}}
      BY <1>15
    <3>2. ~Running("erase") /\ ~Running("erase")'
      BY <1>2, <1>7 DEF Running
    <3>3. QED
      BY <1>9, <1>14, <3>1, <3>2 DEF Owners
  <2>2. QED
    BY <1>5, <1>13, <2>1 DEF KeptInv, BlocksOwned
<1>18. QED
  BY <1>7, <1>12, <1>16, <1>17 DEF KeptInv, Running

\* A step of a write that changes only the FAT: the descriptors agree as before.
LEMMA OnlyFat ==
  ASSUME KeptInv, UNCHANGED <<fd_table, root>>, ~Running("index"), ~Running("transfer"),
         ~Running("claim")'
  PROVE  DescriptorsKept' /\ Open' = Open /\ Listed' = Listed /\ \A x : Node(x)' = Node(x)
<1>1. Open' = Open /\ Listed' = Listed /\ \A x : Node(x)' = Node(x)
  BY DEF Open, Listed, Entries, Node
<1>2. \A x \in Open : Current(x)'
  BY <1>1, AllCurrent DEF KeptInv, Current
<1>3. QED
  BY <1>1, <1>2 DEF KeptInv, DescriptorsKept, OpenOnce, EmptyHasNoSize

LEMMA AddClaimKept ==
  ASSUME TableInv, job \in JobType, AtClaim, KeptInv, AddClaim
  PROVE  KeptInv'
<1>1. PICK e, b : e = JobEntry /\ b = JobFirst
  OBVIOUS
<1>2. Writer /\ Unclaimed /\ job.pc = "claim" /\ AtSomePoint
  BY DEF AtClaim, Running, AtSomePoint
<1>3. /\ fat \in FatType /\ WellLinked(fat) /\ b \in Blocks /\ fat[b] = 0 /\ b # FAT_EOC
  BY <1>1, <1>2, Sizes DEF Unclaimed, Sound
<1>4. /\ fat' = set_fat_entry(fat, b, FAT_EOC)
      /\ UNCHANGED <<fd_table, root, data, damage>>
      /\ job' = [job EXCEPT !.pc = "plan"]
  BY <1>1 DEF AddClaim, Goto, JobFirst
<1>5. /\ fat' \in FatType
      /\ \A c \in Blocks : fat'[c] = IF c = b THEN FAT_EOC ELSE fat[c]
  BY <1>3, <1>4, SetEntryType DEF Links
<1>6. /\ WellLinked(fat') /\ StartsChain(fat', b)
      /\ \A h : StartsChain(fat, h) => StartsChain(fat', h)
      /\ Lengthened(fat, fat', b)
  BY <1>3, <1>5, NewChain, NewChainLengthens
<1>7. job'.pc = "plan"
  BY <1>4 DEF JobType
<1>8. Marked = fat /\ Marked' = fat'
  BY <1>2, <1>7 DEF Marked, Running
<1>9. DescriptorsKept' /\ Listed' = Listed
  BY <1>2, <1>4, <1>7, OnlyFat DEF Running
<1>10. /\ e \in Listed /\ root[e].index = b /\ root[e].size = 0
       /\ \A i \in Listed : root[i].index = b => i = e
  <2>1. e \in Listed
    BY <1>1, <1>2, WriterFacts
  <2>2. QED
    BY <1>1, <1>2, <1>3, <2>1, JobEntryCurrent DEF KeptInv, DescriptorsKept, Running
<1>11. \A i \in Listed : root[i].index # FAT_EOC => root[i].index \in Blocks
  BY DEF TableInv, TypeOK, DirEntry, Links, Listed
<1>12. \A i \in Listed : Intact(i)' => i = e \/ Intact(i)
  BY <1>4, <1>5, <1>8, <1>10, <1>11 DEF Intact
<1>13. \A i \in Listed : Intact(i) => Intact(i)'
  BY <1>3, <1>4, <1>5, <1>8, <1>11, Sizes DEF Intact, FAT_EOC
<1>14. Intact(e)' /\ FileHeld(e)'
  <2>1. fat'[b] # 0
    BY <1>3, <1>5 DEF FAT_EOC
  <2>2. total_file_blocks(fat', b) * BlockSize \in Nat
    BY <1>3, <1>5, TotalType, ProductType
  <2>3. QED
    BY <1>3, <1>4, <1>8, <1>10, <2>1, <2>2 DEF Intact, FileHeld, Held
<1>15. ASSUME NEW i \in Listed, Intact(i)
       PROVE  FileHeld(i)'
  <2>1. PICK h : h = root[i].index
    OBVIOUS
  <2>2. StartsChain(fat, h) /\ h \in Blocks
    BY <1>2, <1>8, <1>15, <2>1, IntactStarts DEF StartsChain
  <2>3. \A c \in ChainOf(fat, h) : fat'[c] = fat[c]
    BY <1>3, <1>5, <2>2, ChainClosed
  <2>4. SameChain(fat, fat', h)
    BY <1>3, <1>5, <1>6, <2>2, <2>3, ChainUnchanged
  <2>5. Longer(fat, fat', h)
    BY <1>3, <2>2, <2>4, SameIsLonger
  <2>6. QED
    BY <1>2, <1>4, <1>8, <1>15, <2>1, <2>5, FileStays DEF KeptInv
<1>16. FilesKept'
  BY <1>9, <1>12, <1>14, <1>15 DEF FilesKept
<1>17. BlocksOwned'
  <2>1. SUFFICES ASSUME ~damage.leaked, NEW c \in Blocks, fat'[c] # 0, c # 0
                 PROVE  \E h \in Owners' : c \in ChainOf(fat', h)
    BY <1>4, <1>8 DEF BlocksOwned, Reached
  <2>2. b \in Owners'
    BY <1>4, <1>9, <1>10, <1>14 DEF Owners
  <2>3. CASE fat[c] = 0
    BY <1>6, <2>1, <2>2, <2>3 DEF Lengthened
  <2>4. CASE fat[c] # 0
    <3>1. PICK h \in Owners : c \in ChainOf(fat, h)
      BY <1>8, <2>1, <2>4 DEF KeptInv, BlocksOwned, Reached
    <3>2. StartsChain(fat, h)
      BY <1>2, <1>8, IntactStarts
    <3>3. h \in Owners'
      BY <1>2, <1>4, <1>9, <1>13 DEF Owners, Running
    <3>4. QED
      BY <1>6, <3>1, <3>2, <3>3 DEF Lengthened
  <2>5. QED
    BY <2>3, <2>4
<1>18. QED
  BY <1>7, <1>9, <1>16, <1>17 DEF KeptInv, Running

LEMMA AllocLinkKept ==
  ASSUME TableInv, job \in JobType, AtLink, KeptInv, AllocLink
  PROVE  KeptInv'
<1>1. PICK a, b, new : a = job.end_block /\ b = job.available_block /\ new = Marked'
  OBVIOUS
<1>2. HasChain /\ Writer /\ EndKnown /\ job.pc = "link" /\ AtSomePoint
  BY DEF AtLink, HasChain, Running, AtSomePoint
<1>3. /\ fat \in FatType /\ WellLinked(fat) /\ StartsChain(fat, JobFirst)
      /\ Sound(fat, Heads) /\ JobFirst # FAT_EOC
  BY <1>2, ChainFacts DEF HasChain
<1>4. /\ a \in ChainOf(fat, JobFirst) /\ fat[a] = FAT_EOC
      /\ a \in Blocks \ {0} /\ fat[a] # 0
      /\ b \in Blocks /\ fat[b] = 0 /\ a # b
  <2>1. a \in ChainOf(fat, JobFirst) /\ fat[a] = FAT_EOC /\ b \in Blocks /\ fat[b] = 0
    BY <1>1, <1>2 DEF EndKnown, AtLink
  <2>2. QED
    BY <1>3, <2>1, ChainClosed
<1>5. /\ fat' = set_fat_entry(fat, a, b)
      /\ UNCHANGED <<fd_table, root, data, damage>>
      /\ job'.pc = "mark" /\ job'.available_block = b
  BY <1>1 DEF AllocLink, Goto, JobType
<1>6. /\ new \in FatType
      /\ \A c \in Blocks : new[c] = IF c = b THEN FAT_EOC ELSE IF c = a THEN b ELSE fat[c]
  <2>1. new = set_fat_entry(set_fat_entry(fat, a, b), b, FAT_EOC)
    BY <1>1, <1>5 DEF Marked, Running
  <2>2. QED
    BY <1>3, <1>4, <2>1, Sizes DEF FatType, set_fat_entry, Links
<1>7. WellLinked(new) /\ \A h : StartsChain(fat, h) => StartsChain(new, h)
  BY <1>3, <1>4, <1>6, LinkFreeBlock
<1>8. Marked = fat
  BY <1>2 DEF Marked, Running
<1>9. DescriptorsKept' /\ Listed' = Listed
  BY <1>2, <1>5, OnlyFat DEF Running
<1>10. \A i \in Listed : root[i].index # FAT_EOC => StartsChain(fat, root[i].index)
  BY <1>3 DEF Sound, Heads, DirHeads
<1>11. \A i \in Listed : Intact(i)' <=> Intact(i)
  BY <1>1, <1>5, <1>7, <1>8, <1>10 DEF Intact, StartsChain
<1>12. ASSUME NEW h, StartsChain(fat, h)
       PROVE  Longer(fat, new, h) /\ ChainOf(fat, h) \subseteq ChainOf(new, h)
  <2>1. \A c \in ChainOf(fat, h) : c \in Blocks /\ c # b /\ (fat[c] # FAT_EOC => new[c] = fat[c])
    BY <1>3, <1>4, <1>6, <1>12, ChainClosed
  <2>2. ChainOf(fat, h) \subseteq ChainOf(new, h)
    BY <1>3, <1>6, <1>7, <1>12, <2>1, ChainKept
  <2>3. CASE h = JobFirst
    BY <1>3, <1>4, <1>6, <2>2, <2>3, LinkIsLonger
  <2>4. CASE h # JobFirst
    <3>1. a \notin ChainOf(fat, h)
      BY <1>3, <1>4, <1>12, <2>4, ChainsApart
    <3>2. \A c \in ChainOf(fat, h) : new[c] = fat[c]
      BY <1>6, <2>1, <3>1
    <3>3. SameChain(fat, new, h)
      BY <1>3, <1>6, <1>7, <1>12, <3>2, ChainUnchanged
    <3>4. QED
      BY <1>3, <1>12, <2>2, <3>3, SameIsLonger DEF StartsChain
  <2>5. QED
    BY <2>3, <2>4
<1>13. FilesKept'
  <2>1. ASSUME NEW i \in Listed, Intact(i)
        PROVE  FileHeld(i)'
    <3>1. Longer(Marked, Marked', root[i].index)
      BY <1>1, <1>8, <1>10, <1>12, <2>1 DEF Intact
    <3>2. QED
      BY <1>2, <1>5, <2>1, <3>1, FileStays DEF KeptInv
  <2>2. QED
    BY <1>9, <1>11, <2>1 DEF FilesKept
<1>14. Owners' = Owners
  BY <1>2, <1>5, <1>9, <1>11 DEF Owners, Running
<1>15. JobFirst \in Owners /\ b \in ChainOf(new, JobFirst)
  <2>1. JobEntry \in Listed /\ root[JobEntry].index = JobFirst
    BY <1>2, WriterFacts, JobEntryCurrent DEF KeptInv, Running
  <2>2. Intact(JobEntry)
    BY <1>3, <1>8, <2>1 DEF Intact, StartsChain
  <2>3. a \in ChainOf(new, JobFirst)
    BY <1>3, <1>4, <1>12
  <2>4. new[a] = b /\ b # FAT_EOC
    BY <1>4, <1>6, Sizes
  <2>5. b \in ChainOf(new, JobFirst)
    BY <1>3, <1>6, <1>7, <2>3, <2>4, ChainClosed
  <2>6. QED
    BY <2>1, <2>2, <2>5 DEF Owners
<1>16. BlocksOwned'
  <2>1. SUFFICES ASSUME ~damage.leaked, NEW c \in Blocks, new[c] # 0, c # 0
                 PROVE  \E h \in Owners : c \in ChainOf(new, h)
    BY <1>1, <1>5, <1>14 DEF BlocksOwned, Reached
  <2>2. CASE c = b
    BY <1>15, <2>2
  <2>3. CASE c # b
    <3>1. fat[c] # 0
      BY <1>4, <1>6, <2>1, <2>3
    <3>2. PICK h \in Owners : c \in ChainOf(fat, h)
      BY <1>8, <2>1, <3>1 DEF KeptInv, BlocksOwned, Reached
    <3>3. StartsChain(fat, h)
      BY <1>2, <1>8, IntactStarts
    <3>4. QED
      BY <1>12, <3>2, <3>3
  <2>4. QED
    BY <2>2, <2>3
<1>17. QED
  BY <1>5, <1>9, <1>13, <1>16 DEF KeptInv, Running

\* The bytes of the write are the client's.
LEMMA JobBytesFor ==
  ASSUME TableInv, job \in JobType, Writer
  PROVE  BytesFor(JobBytes, JobNode.filename, job.start) /\ JobBytes \in [Nat -> Byte]
<1>1. PICK name, start, buf : name = JobNode.filename /\ start = job.start /\ buf = job.buf
  OBVIOUS
<1>2. name \in Names /\ start \in Nat /\ buf \in Versions
  BY <1>1, WriterFacts DEF Writer, JobType
<1>3. Bytes(name, start, buf) \in [Nat -> Byte]
  BY <1>2 DEF Bytes, Byte
<1>4. ASSUME NEW p \in Nat, p >= start
      PROVE  Bytes(name, start, buf)[p - start] \in WrittenAt(name, p)
  <2>1. p - start \in Nat /\ start + (p - start) = p
    BY <1>2, <1>4
  <2>2. Bytes(name, start, buf)[p - start] = <<name, p, buf>>
    BY <2>1 DEF Bytes
  <2>3. QED
    BY <1>2, <2>2 DEF WrittenAt
<1>5. QED
  BY <1>1, <1>3, <1>4 DEF JobBytes, BytesFor

\* A file whose bytes are being moved: the entry has a size the chain holds.
LEMMA MovingHolds ==
  ASSUME NEW table, NEW first, NEW n, NEW name, NEW start, NEW end_offset, NEW s,
         Writing(table, first, n, name, start, end_offset, s), n = total_file_blocks(table, first),
         n * BlockSize \in Nat, NEW size \in Nat, size <= s.size
  PROVE  size <= total_file_blocks(table, first) * BlockSize /\ Held(table, s.data, first, name, size)
<1>1. PICK room, top : room = n * BlockSize /\ top = s.size
  OBVIOUS
<1>2. top \in Nat /\ room \in Nat /\ top <= room /\ size <= top
  BY <1>1 DEF Writing, WriteState
<1>3. size <= room
  BY <1>2
<1>4. \A p \in Nat : p < size => p < top
  BY <1>2
<1>5. QED
  BY <1>1, <1>3, <1>4 DEF Writing, Held

LEMMA TransferBlockKept ==
  ASSUME TableInv, job \in JobType, AtTransfer, KeptInv, TransferBlock
  PROVE  KeptInv'
<1>1. HasChain /\ Writer /\ job.pc = "transfer" /\ AtSomePoint /\ Moving
  BY DEF AtTransfer, HasChain, Running, AtSomePoint, KeptInv
<1>2. PICK fd, first, n, name : /\ fd = job.fd /\ first = JobFirst
                                /\ n = total_file_blocks(fat, first) /\ name = JobNode.filename
  OBVIOUS
<1>3. /\ fat \in FatType /\ data \in DataType /\ fd \in Open /\ fd \in Fds
      /\ WellLinked(fat) /\ StartsChain(fat, first) /\ first \in Blocks
      /\ JobNode \in NodeType /\ JobNode = fd_table.nodes[fd] /\ JobNode = Node(fd)
      /\ JobEntry \in Listed /\ root[JobEntry].filename = name
      /\ JobNode.offset \in Nat /\ JobNode.size \in Nat
  BY <1>1, <1>2, WriterFacts, ChainFacts DEF JobNode
<1>4. HasLength(fat, first, n) /\ n * BlockSize \in Nat
  BY <1>2, <1>3, TotalIsLength, TotalType, ProductType
<1>5. PICK r : r = [offset |-> JobNode.offset, size |-> JobNode.size,
                    block |-> job.write_block, data |-> data]
  OBVIOUS
<1>6. /\ Writing(fat, first, n, name, job.start, job.wanted, r) /\ job.wanted <= n * BlockSize
      /\ job.start \in Nat /\ job.wanted \in Nat
      /\ r.offset = JobNode.offset /\ r.size = JobNode.size /\ r.block = job.write_block
      /\ r.data = data
  BY <1>1, <1>2, <1>5 DEF Moving, JobType
<1>7. PICK s : s = WriteTurn(fat, job.wanted, JobBytes, job.start)[r]
  OBVIOUS
<1>8. /\ data' = s.data
      /\ fd_table' = [fd_table EXCEPT !.nodes[fd].offset = s.offset, !.nodes[fd].size = s.size]
      /\ job' = [job EXCEPT !.write_block = s.block]
      /\ UNCHANGED <<root, fat, damage>> /\ JobNode.offset < job.wanted
  BY <1>2, <1>5, <1>7 DEF TransferBlock, JobBytes
<1>9. Writing(fat, first, n, name, job.start, job.wanted, s) /\ s \in WriteState /\ r \in WriteState
  <2>1. BytesFor(JobBytes, name, job.start)
    BY <1>1, <1>2, JobBytesFor
  <2>2. Writing(fat, first, n, name, job.start, job.wanted, s)
    BY <1>3, <1>4, <1>6, <1>7, <2>1, WriteTurnBytes
  <2>3. QED
    BY <1>6, <2>2 DEF Writing
<1>10. s.size \in Nat /\ s.offset \in Nat /\ s.size >= JobNode.size
  <2>1. s.size \in Nat /\ s.offset \in Nat
    BY <1>9 DEF WriteState
  <2>2. PICK last : last = r.offset + TurnLength(r.offset, job.wanted)
    OBVIOUS
  <2>3. s.size = IF last > r.size THEN last ELSE r.size
    BY <1>3, <1>6, <1>7, <1>8, <1>9, <2>2 DEF WriteTurn
  <2>4. QED
    BY <1>3, <1>6, <2>1, <2>3
<1>11. PICK node : node = [JobNode EXCEPT !.offset = s.offset, !.size = s.size]
  OBVIOUS
<1>12. /\ node \in NodeType
       /\ node.in_use = Node(fd).in_use /\ node.filename = Node(fd).filename
       /\ node.dir_entry_index = Node(fd).dir_entry_index
       /\ node.first_data_block = Node(fd).first_data_block
       /\ node.offset = s.offset /\ node.size = s.size
  BY <1>3, <1>10, <1>11 DEF NodeType
<1>13. fd_table' = [fd_table EXCEPT !.nodes[fd] = node]
  <2>1. fd_table.nodes \in [Fds -> NodeType] /\ fd_table \in TableType
    BY NodeFacts DEF TableInv, TypeOK
  <2>2. QED
    BY <1>3, <1>8, <1>11, <2>1 DEF TableType
<1>14. /\ Open' = Open /\ Node(fd)' = node
       /\ \A x \in Open : x # fd => Node(x)' = Node(x)
  <2>1. Open' = Open /\ \A x \in Fds : Node(x)' = IF x = fd THEN node ELSE Node(x)
    BY <1>3, <1>12, <1>13, NodeUpdate DEF TableInv
  <2>2. Open \subseteq Fds
    BY NodeFacts DEF TableInv
  <2>3. QED
    BY <1>3, <2>1, <2>2
<1>15. /\ job'.pc = "transfer" /\ job'.fd = fd /\ job'.buf = job.buf /\ job'.start = job.start
       /\ job'.wanted = job.wanted /\ job'.write_block = s.block
  BY <1>1, <1>2, <1>8 DEF JobType
<1>16. JobNode' = node /\ JobFirst' = first /\ JobNode'.filename = name
  BY <1>2, <1>3, <1>12, <1>14, <1>15 DEF JobNode, JobFirst
<1>17. Moving'
  <2>1. s = [offset |-> node.offset, size |-> node.size, block |-> s.block, data |-> s.data]
    BY <1>9, <1>12 DEF WriteState
  <2>2. QED
    BY <1>2, <1>6, <1>8, <1>9, <1>15, <1>16, <2>1 DEF Moving
<1>18. /\ root[JobEntry].index = first /\ root[JobEntry].size \in Nat
       /\ root[JobEntry].size <= JobNode.size
  <2>1. Current(fd) \/ AheadOf(Node(fd), root[Node(fd).dir_entry_index])
    BY <1>3 DEF KeptInv, DescriptorsKept
  <2>2. root[JobEntry].size <= JobNode.size
    BY <1>1, <1>2, <1>3, <2>1 DEF Current, AheadOf, JobEntry, Running
  <2>3. root[JobEntry].size \in Nat
    BY <1>3 DEF TableInv, TypeOK, DirEntry, Listed
  <2>4. QED
    BY <1>1, <1>2, <2>2, <2>3, JobEntryCurrent DEF KeptInv, Running
<1>19. root[JobEntry].size <= s.size
  BY <1>3, <1>10, <1>18
<1>20. DescriptorsKept'
  <2>1. root'[Node(fd)'.dir_entry_index] = root[JobEntry]
    BY <1>3, <1>8, <1>12, <1>14 DEF JobEntry
  <2>2. AheadOf(Node(fd), root[Node(fd).dir_entry_index])'
    BY <1>2, <1>3, <1>10, <1>12, <1>14, <1>15, <1>18, <1>19, <2>1 DEF AheadOf, Running, JobFirst
  <2>3. ~Running("claim")'
    BY <1>15 DEF Running
  <2>4. QED
    BY <1>2, <1>3, <1>8, <1>12, <1>14, <1>15, <2>2, <2>3, DescriptorAhead DEF KeptInv
<1>21. Marked = fat /\ Marked' = fat /\ Listed' = Listed
  BY <1>1, <1>8, <1>15 DEF Marked, Running, Listed, Entries
<1>22. \A i \in Listed : Intact(i)' = Intact(i)
  BY <1>8, <1>21 DEF Intact
<1>23. \A b \in Blocks : data'[b] # data[b] => b \in ChainOf(fat, first)
  <2>1. r.block \in ChainOf(fat, first)
    <3>1. r.block = skip_blocks(fat, first, current_block_offset(r.offset))
      BY <1>6, <1>8 DEF Writing
    <3>2. QED
      BY <1>3, <1>6, <3>1, ChainReached, BlockCountType
  <2>2. PICK W : W = ChainOf(fat, first)
    OBVIOUS
  <2>3. W \in SUBSET Blocks /\ \A b \in W : fat[b] # FAT_EOC => fat[b] \in W
    BY <1>3, <2>2, ChainClosed
  <2>4. \A b \in Blocks : s.data[b] # r.data[b] => b = r.block
    BY <1>3, <1>6, <1>7, <1>9, <2>1, <2>2, <2>3, WriteTurnInside
  <2>5. QED
    BY <1>6, <1>8, <2>1, <2>4
<1>24. FilesKept'
  <2>1. ASSUME NEW i \in Listed, Intact(i)
        PROVE  FileHeld(i)'
    <3>1. PICK h : h = root[i].index
      OBVIOUS
    <3>2. StartsChain(fat, h)
      BY <1>1, <1>21, <2>1, <3>1, IntactStarts
    <3>3. CASE i = JobEntry
      <4>1. /\ root[i].size <= total_file_blocks(fat, first) * BlockSize
            /\ Held(fat, s.data, first, name, root[i].size)
        BY <1>2, <1>4, <1>9, <1>18, <1>19, <3>3, MovingHolds
      <4>2. QED
        BY <1>3, <1>8, <1>18, <1>21, <3>3, <4>1 DEF FileHeld
    <3>4. CASE i # JobEntry
      <4>1. h # first
        BY <1>1, <1>2, <1>3, <3>1, <3>4, JobEntryCurrent, Sizes DEF KeptInv, Running
      <4>2. \A b \in ChainOf(fat, h) : data'[b] = data[b]
        BY <1>3, <1>23, <3>2, <4>1, ChainsApart, ChainClosed
      <4>3. Longer(fat, fat, h)
        BY <1>3, <3>2, LongerSelf DEF StartsChain
      <4>4. QED
        BY <1>1, <1>8, <1>21, <2>1, <3>1, <4>2, <4>3, FileStays DEF KeptInv
    <3>5. QED
      BY <3>3, <3>4
  <2>2. QED
    BY <1>21, <1>22, <2>1 DEF FilesKept
<1>25. BlocksOwned'
  <2>1. Owners' = Owners
    BY <1>1, <1>8, <1>15, <1>21, <1>22 DEF Owners, Running
  <2>2. QED
    BY <1>8, <1>21, <2>1 DEF KeptInv, BlocksOwned
<1>26. QED
  BY <1>17, <1>20, <1>24, <1>25 DEF KeptInv

LEMMA WriteSizeKept ==
  ASSUME TableInv, job \in JobType, AtTransfer, KeptInv, WriteSize
  PROVE  KeptInv'
<1>1. HasChain /\ Writer /\ job.pc = "transfer" /\ AtSomePoint /\ Moving
  BY DEF AtTransfer, HasChain, Running, AtSomePoint, KeptInv
<1>2. PICK fd, e, first, size : fd = job.fd /\ e = JobEntry /\ first = JobFirst /\ size = JobNode.size
  OBVIOUS
<1>3. /\ fat \in FatType /\ data \in DataType /\ fd \in Open
      /\ WellLinked(fat) /\ StartsChain(fat, first) /\ first \in Blocks
      /\ size \in Nat /\ JobNode.offset \in Nat
      /\ root \in [DirSlots -> DirEntry] /\ Listed \subseteq DirSlots
      /\ e \in Listed /\ root[e].filename = JobNode.filename /\ e = Node(fd).dir_entry_index
      /\ Node(fd) = JobNode
  BY <1>1, <1>2, WriterFacts, ChainFacts DEF JobNode, JobEntry, Listed
<1>4. /\ root' = [root EXCEPT ![e].size = size]
      /\ UNCHANGED <<fd_table, fat, data, damage>>
      /\ job' = Idle
  BY <1>2 DEF WriteSize, JobEntry, Finish
<1>5. /\ root'[e].size = size /\ root'[e].index = root[e].index
      /\ root'[e].filename = root[e].filename
      /\ \A i \in DirSlots : i # e => root'[i] = root[i]
  BY <1>3, <1>4 DEF DirEntry
<1>6. job'.pc = "idle" /\ Open' = Open /\ \A x : Node(x)' = Node(x)
  BY <1>4 DEF Idle, Open, Node
<1>7. Listed' = Listed
  BY <1>3, <1>5 DEF Listed, Entries
<1>8. root[e].index = first /\ first # FAT_EOC
        /\ \A i \in Listed : root[i].index = first => i = e
  BY <1>1, <1>2, <1>3, JobEntryCurrent, Sizes DEF KeptInv, Running
<1>9. PICK n, r : /\ n = total_file_blocks(fat, first)
                  /\ r = [offset |-> JobNode.offset, size |-> size,
                          block |-> job.write_block, data |-> data]
  OBVIOUS
<1>10. /\ Writing(fat, first, n, root[e].filename, job.start, job.wanted, r)
       /\ r.size = size /\ r.offset = JobNode.offset /\ r.data = data
  BY <1>1, <1>2, <1>3, <1>9 DEF Moving
<1>11. JobNode.offset <= size
  BY <1>10 DEF Writing
<1>12. DescriptorsKept'
  <2>1. Node(fd).first_data_block = first
    BY <1>2, <1>3 DEF JobFirst
  <2>2. Current(fd)'
    BY <1>2, <1>3, <1>5, <1>6, <1>8, <1>11, <2>1 DEF Current
  <2>3. ASSUME NEW x \in Open, x # fd
        PROVE  Current(x)'
    <3>1. Current(x) /\ Node(x).dir_entry_index # e
      BY <1>2, <1>3, <2>3, AllCurrent, OtherEntry DEF KeptInv, DescriptorsKept
    <3>2. Node(x).dir_entry_index \in DirSlots
      BY NodeFacts DEF TableInv, NodeType
    <3>3. QED
      BY <1>5, <1>6, <3>1, <3>2 DEF Current
  <2>4. OpenOnce'
    BY <1>6 DEF KeptInv, DescriptorsKept, OpenOnce
  <2>5. EmptyHasNoSize'
    BY <1>3, <1>5, <1>7, <1>8 DEF KeptInv, DescriptorsKept, EmptyHasNoSize
  <2>6. QED
    BY <1>6, <2>2, <2>3, <2>4, <2>5 DEF DescriptorsKept, Running
<1>13. Marked = fat /\ Marked' = fat
  BY <1>1, <1>4, <1>6 DEF Marked, Running
<1>14. \A i \in Listed : root'[i].index = root[i].index /\ Intact(i)' = Intact(i)
  <2>1. \A i \in Listed : root'[i].index = root[i].index
    BY <1>3, <1>5
  <2>2. QED
    BY <1>13, <2>1 DEF Intact
<1>15. FilesKept'
  <2>1. ASSUME NEW i \in Listed, Intact(i)
        PROVE  FileHeld(i)'
    <3>1. CASE i = e
      <4>1. n * BlockSize \in Nat /\ size <= r.size
        BY <1>3, <1>9, <1>10, TotalType, ProductType
      <4>2. /\ size <= total_file_blocks(fat, first) * BlockSize
            /\ Held(fat, r.data, first, root[e].filename, size)
        BY <1>3, <1>9, <1>10, <4>1, MovingHolds
      <4>3. QED
        BY <1>4, <1>5, <1>8, <1>10, <1>13, <3>1, <4>2 DEF FileHeld
    <3>2. CASE i # e
      <4>1. root'[i] = root[i]
        BY <1>3, <1>5, <3>2
      <4>2. QED
        BY <1>4, <1>13, <2>1, <4>1 DEF FileHeld, KeptInv, FilesKept
    <3>3. QED
      BY <3>1, <3>2
  <2>2. QED
    BY <1>7, <1>14, <2>1 DEF FilesKept
<1>16. BlocksOwned'
  <2>1. Owners' = Owners
    BY <1>1, <1>6, <1>7, <1>14 DEF Owners, Running
  <2>2. QED
    BY <1>4, <1>13, <2>1 DEF KeptInv, BlocksOwned
<1>17. QED
  BY <1>6, <1>12, <1>15, <1>16 DEF KeptInv, Running

-----------------------------------------------------------------------------
(* The steps of fs_delete and erase_all_files.                             *)

LEMMA StartDeleteKept ==
  ASSUME TableInv, job \in JobType, AtIdle, KeptInv, NEW name \in NameArgs, StartDelete(name)
  PROVE  KeptInv'
<1>1. PICK i, head : i = FirstEntry(name) /\ head = root[i].index
  OBVIOUS
<1>2. /\ isValidFileName(name) /\ Entries(name) # {} /\ head # FAT_EOC
      /\ ~isOpenByName(fd_table, name)
      /\ root' = [root EXCEPT ![i] = EmptyEntry]
      /\ UNCHANGED <<fd_table, fat, data, damage>>
      /\ job'.pc = "erase" /\ job'.write_block = head
  BY <1>1 DEF StartDelete, HasBlocks, Idle
<1>3. i \in DirSlots /\ root[i].filename = name /\ name # Null /\ i \in Listed
  BY <1>1, <1>2, FirstEntryFound DEF isValidFileName, Listed, Entries
<1>4. \A x \in Open : Node(x).filename # root[i].filename
  BY <1>2, <1>3, OpenByName DEF TableInv
<1>5. Open' = Open /\ \A x : Node(x)' = Node(x)
  BY <1>2 DEF Open, Node
<1>6. root \in [DirSlots -> DirEntry] /\ \A j \in DirSlots : j # i => root'[j] = root[j]
  BY <1>2, <1>3 DEF TableInv, TypeOK
<1>7. Listed' = Listed \ {i}
  BY <1>2, <1>3, <1>6 DEF Listed, Entries, EmptyEntry
<1>8. \A j \in Listed' : j \in Listed /\ root'[j] = root[j]
  BY <1>6, <1>7 DEF Listed
<1>9. job.pc = "idle" /\ AtSomePoint
  BY DEF AtIdle, Idle, AtSomePoint
<1>10. Marked = fat /\ Marked' = fat
  BY <1>2, <1>9 DEF Marked, Running
<1>11. DescriptorsKept'
  <2>1. ASSUME NEW x \in Open
        PROVE  Current(x)'
    <3>1. Current(x)
      BY <1>9, AllCurrent DEF KeptInv, Running
    <3>2. Node(x).dir_entry_index \in DirSlots /\ Node(x).dir_entry_index # i
      BY <1>4, NodeFacts DEF TableInv, NodeType, OpenFilesListed
    <3>3. QED
      BY <1>5, <1>6, <3>1, <3>2 DEF Current
  <2>2. QED
    BY <1>2, <1>5, <1>8, <2>1 DEF KeptInv, DescriptorsKept, OpenOnce, EmptyHasNoSize, Running
<1>12. \A j \in Listed' : Intact(j)' = Intact(j) /\ FileHeld(j)' = FileHeld(j)
  BY <1>2, <1>8, <1>10 DEF Intact, FileHeld
<1>13. FilesKept'
  BY <1>8, <1>12 DEF KeptInv, FilesKept
<1>14. Owners \subseteq Owners'
  <2>1. ASSUME NEW j \in Listed, Intact(j)
        PROVE  root[j].index \in Owners'
    <3>1. CASE j = i
      BY <1>1, <1>2, <3>1 DEF Owners, Running
    <3>2. CASE j # i
      BY <1>7, <1>8, <1>12, <2>1, <3>2 DEF Owners
    <3>3. QED
      BY <3>1, <3>2
  <2>2. QED
    BY <1>9, <2>1 DEF Owners, Running
<1>15. BlocksOwned'
  BY <1>2, <1>10, <1>14 DEF KeptInv, BlocksOwned, Reached
<1>16. QED
  BY <1>2, <1>11, <1>13, <1>15 DEF KeptInv, Running

LEMMA StartEraseAllKept ==
  ASSUME TableInv, job \in JobType, AtIdle, KeptInv, StartEraseAll
  PROVE  KeptInv'
<1>1. UNCHANGED <<fd_table, root, fat, data, damage>>
  BY DEF StartEraseAll, vars
<1>2. job.pc = "idle" /\ job'.pc = "sweep"
  BY DEF StartEraseAll, Idle
<1>3. Marked = fat /\ Marked' = fat
  BY <1>1, <1>2 DEF Marked, Running
<1>4. QED
  BY <1>1, <1>2, <1>3, QuietStep DEF Running, AtSomePoint

LEMMA SweepNextKept ==
  ASSUME TableInv, job \in JobType, AtSweep, KeptInv, SweepNext
  PROVE  KeptInv'
<1>1. UNCHANGED <<fd_table, root, fat, data, damage>>
  BY DEF SweepNext, vars
<1>2. job.pc = "sweep" /\ job'.pc = "erase"
  BY DEF SweepNext, Running, JobType
<1>3. Marked = fat /\ Marked' = fat
  BY <1>1, <1>2 DEF Marked, Running
<1>4. QED
  BY <1>1, <1>2, <1>3, QuietStep DEF Running, AtSomePoint

LEMMA EraseBlockKept ==
  ASSUME TableInv, job \in JobType, AtDelete \/ AtErase, KeptInv, EraseBlock
  PROVE  KeptInv'
<1>1. PICK b, next : b = job.write_block /\ next = fat[b]
  OBVIOUS
<1>2. /\ job.pc = "erase" /\ AtSomePoint /\ job.call \in {"delete", "erase_all"}
      /\ fat \in FatType /\ WellLinked(fat) /\ StartsChain(fat, b) /\ b \in Blocks
  BY <1>1 DEF AtDelete, AtErase, Running, AtSomePoint, Sound, StartsChain
<1>3. next \in Blocks \cup {FAT_EOC}
  BY <1>1, <1>2, EntryType
<1>4. /\ UNCHANGED <<fd_table, root, data, damage>>
      /\ fat' \in FatType /\ WellLinked(fat')
      /\ \A c \in Blocks : fat'[c] = IF c = b THEN 0 ELSE fat[c]
      /\ \A h : StartsChain(fat, h) /\ h # b => StartsChain(fat', h)
  BY <1>1, <1>2, FirstErased DEF EraseBlock
<1>5. \/ next # FAT_EOC /\ job'.pc = "erase" /\ job'.write_block = next
      \/ next = FAT_EOC /\ job'.pc \in {"idle", "sweep"}
  <2>1. \/ next # FAT_EOC /\ job'.pc = "erase" /\ job'.write_block = next
        \/ next = FAT_EOC /\ job' = Idle
        \/ next = FAT_EOC /\ job'.pc = "sweep"
    BY <1>1, <1>2, <1>3, EraseBlockJob
  <2>2. QED
    BY <2>1 DEF Idle
<1>6. Marked = fat /\ Marked' = fat'
  BY <1>2, <1>5 DEF Marked, Running
<1>7. DescriptorsKept' /\ Listed' = Listed
  BY <1>2, <1>4, <1>5, OnlyFat DEF Running
<1>8. ASSUME NEW h, StartsChain(fat, h), h # b
      PROVE  Longer(fat, fat', h) /\ ChainOf(fat', h) = ChainOf(fat, h)
  <2>1. \A c \in ChainOf(fat, h) : c # b /\ c \in Blocks
    BY <1>2, <1>8, ChainsApart, ChainReached, ChainClosed
  <2>2. SameChain(fat, fat', h)
    BY <1>2, <1>4, <1>8, <2>1, ChainUnchanged
  <2>3. QED
    BY <1>2, <1>8, <2>2, SameIsLonger DEF StartsChain
<1>9. \A i \in Listed : root[i].index # FAT_EOC => root[i].index \in Blocks
  BY DEF TableInv, TypeOK, DirEntry, Links, Listed
<1>10. \A i \in Listed : Intact(i)' <=> Intact(i) /\ root[i].index # b
  BY <1>4, <1>6, <1>9 DEF Intact
<1>11. FilesKept'
  <2>1. ASSUME NEW i \in Listed, Intact(i), root[i].index # b
        PROVE  FileHeld(i)'
    <3>1. StartsChain(fat, root[i].index)
      BY <1>2, <1>6, <2>1, IntactStarts
    <3>2. Longer(fat, fat', root[i].index)
      BY <1>8, <2>1, <3>1
    <3>3. QED
      BY <1>2, <1>4, <1>6, <2>1, <3>2, FileStays DEF KeptInv
  <2>2. QED
    BY <1>7, <1>10, <2>1 DEF FilesKept
<1>12. BlocksOwned'
  <2>1. SUFFICES ASSUME ~damage.leaked, NEW c \in Blocks, fat'[c] # 0, c # 0
                 PROVE  \E h \in Owners' : c \in ChainOf(fat', h)
    BY <1>4, <1>6 DEF BlocksOwned, Reached
  <2>2. c # b /\ fat[c] # 0
    BY <1>4, <2>1
  <2>3. PICK h \in Owners : c \in ChainOf(fat, h)
    BY <1>6, <2>1, <2>2 DEF KeptInv, BlocksOwned, Reached
  <2>4. CASE h = b
    <3>1. next # FAT_EOC /\ c \in ChainOf(fat', next)
      BY <1>1, <1>2, <1>4, <2>2, <2>3, <2>4, TailReached
    <3>2. next \in Owners'
      BY <1>5, <3>1 DEF Owners, Running
    <3>3. QED
      BY <3>1, <3>2
  <2>5. CASE h # b
    <3>1. StartsChain(fat, h)
      BY <1>2, <1>6, IntactStarts
    <3>2. PICK i \in Listed : Intact(i) /\ h = root[i].index
      BY <1>1, <2>5 DEF Owners
    <3>3. h \in Owners'
      BY <1>4, <1>7, <1>10, <2>5, <3>2 DEF Owners
    <3>4. QED
      BY <1>8, <2>3, <2>5, <3>1, <3>3
  <2>6. QED
    BY <2>4, <2>5
<1>13. QED
  BY <1>5, <1>7, <1>11, <1>12 DEF KeptInv, Running

LEMMA EraseDirectoryKept ==
  ASSUME TableInv, job \in JobType, AtSweep, KeptInv, EraseDirectory
  PROVE  KeptInv'
<1>1. /\ root' = [i \in DirSlots |-> EmptyEntry]
      /\ UNCHANGED <<fd_table, fat, data, damage>>
      /\ job' = Idle /\ ToErase = {} /\ job.pc = "sweep" /\ Open = {}
  BY DEF EraseDirectory, Finish, AtSweep, Running
<1>2. Listed' = {} /\ Open' = {} /\ job'.pc = "idle"
  BY <1>1 DEF Listed, Entries, EmptyEntry, Open, Idle
<1>3. Marked = fat /\ Marked' = fat
  BY <1>1, <1>2 DEF Marked, Running
<1>4. Owners = {}
  <2>1. ASSUME NEW i \in Listed, Intact(i)
        PROVE  FALSE
    <3>1. i \in Nat /\ job.slot \in Nat
      BY TableAssumption DEF Listed, DirSlots, JobType
    <3>2. ~(i < job.slot)
      BY <1>3, <2>1 DEF AtSweep, Gone, Intact
    <3>3. i \in ToErase
      BY <2>1, <3>1, <3>2 DEF ToErase, Intact
    <3>4. QED
      BY <1>1, <3>3
  <2>2. QED
    BY <1>1, <2>1 DEF Owners, Running
<1>5. BlocksOwned'
  BY <1>1, <1>3, <1>4 DEF KeptInv, BlocksOwned, Reached
<1>6. QED
  BY <1>2, <1>5 DEF KeptInv, DescriptorsKept, OpenOnce, EmptyHasNoSize, FilesKept, Running

-----------------------------------------------------------------------------
(* The calls that are taken in one step.                                   *)

\* They write no block but the directory's, and leave it no new chain.
LEMMA OneStepVolume ==
  ASSUME TableInv, OneStepCall
  PROVE  /\ UNCHANGED <<fat, data>>
         /\ \A j \in Listed' : (j \in Listed /\ root'[j] = root[j]) \/ root'[j].index = FAT_EOC
<1>1. ASSUME UNCHANGED <<root, fat, data>>
      PROVE  /\ UNCHANGED <<fat, data>>
             /\ \A j \in Listed' : (j \in Listed /\ root'[j] = root[j]) \/ root'[j].index = FAT_EOC
  BY <1>1 DEF Listed, Entries
<1>2. ASSUME \/ fs_mount \/ fs_umount \/ fs_info \/ fs_ls \/ free_blocks
             \/ erase_all_files /\ (~disk_mounted \/ fd_table.fdsOccupied # 0)
      PROVE  UNCHANGED <<root, fat, data>>
  BY <1>2 DEF fs_mount, fs_umount, fs_info, fs_ls, free_blocks, erase_all_files, volume
<1>3. ASSUME NEW name, NEW fd, NEW offset, NEW buf, NEW count,
             fs_open(name) \/ fs_close(fd) \/ fs_stat(fd) \/ fs_lseek(fd, offset)
               \/ fs_read(fd, buf, count)
      PROVE  UNCHANGED <<root, fat, data>>
  BY <1>3 DEF fs_open, fs_close, fs_stat, fs_lseek, fs_read, volume
<1>4. ASSUME NEW name, fs_create(name)
      PROVE  /\ UNCHANGED <<fat, data>>
             /\ \A j \in Listed' : (j \in Listed /\ root'[j] = root[j]) \/ root'[j].index = FAT_EOC
  <2>1. UNCHANGED <<fat, data>>
    BY <1>4 DEF fs_create
  <2>2. CASE UNCHANGED root
    BY <1>1, <2>1, <2>2
  <2>3. CASE ~(UNCHANGED root)
    <3>1. PICK i : i = FirstEntry(Null)
      OBVIOUS
    <3>2. /\ Entries(Null) # {}
          /\ root' = [root EXCEPT ![i] = [filename |-> name, size |-> 0, index |-> FAT_EOC]]
      BY <1>4, <2>3, <3>1 DEF fs_create
    <3>3. i \in DirSlots /\ root \in [DirSlots -> DirEntry]
      BY <3>1, <3>2, FirstEntryFound DEF TableInv, TypeOK
    <3>4. root'[i].index = FAT_EOC /\ \A j \in DirSlots : j # i => root'[j] = root[j]
      BY <3>2, <3>3
    <3>5. QED
      BY <2>1, <3>4 DEF Listed, Entries
  <2>4. QED
    BY <2>2, <2>3
<1>5. ASSUME NEW name, fs_delete(name),
             ~disk_mounted \/ isOpenByName(fd_table, name) \/ ~HasBlocks(name)
      PROVE  /\ UNCHANGED <<fat, data>>
             /\ \A j \in Listed' : (j \in Listed /\ root'[j] = root[j]) \/ root'[j].index = FAT_EOC
  <2>1. UNCHANGED data
    BY <1>5 DEF fs_delete
  <2>2. CASE UNCHANGED <<root, fat>>
    BY <1>1, <2>1, <2>2
  <2>3. CASE ~(UNCHANGED <<root, fat>>)
    <3>1. PICK i : i = FirstEntry(name)
      OBVIOUS
    <3>2. /\ Entries(name) # {} /\ disk_mounted /\ ~isOpenByName(fd_table, name)
          /\ root' = [root EXCEPT ![i] = EmptyEntry]
          /\ fat' = erase_file(fat, root[i].index)
      BY <1>5, <2>3, <3>1 DEF fs_delete
    <3>3. fat' = fat
      BY <1>5, <3>1, <3>2 DEF HasBlocks, erase_file
    <3>4. i \in DirSlots /\ root \in [DirSlots -> DirEntry]
      BY <3>1, <3>2, FirstEntryFound DEF TableInv, TypeOK
    <3>5. root'[i].filename = Null /\ \A j \in DirSlots : j # i => root'[j] = root[j]
      BY <3>2, <3>4 DEF EmptyEntry
    <3>6. QED
      BY <2>1, <3>3, <3>5 DEF Listed, Entries
  <2>4. QED
    BY <2>2, <2>3
<1>6. ASSUME NEW fd, NEW buf, NEW count, WritesNothing(fd, buf, count), fs_write(fd, buf, count)
      PROVE  UNCHANGED <<root, fat, data>>
  <2>1. CASE buf = Null \/ ~isUsable(fd) \/ count = 0
    BY <1>6, <2>1 DEF fs_write, volume
  <2>2. CASE ~(buf = Null \/ ~isUsable(fd) \/ count = 0)
    <3>1. Node(fd).first_data_block = FAT_EOC /\ DiskFull(fat)
      BY <1>6, <2>2 DEF WritesNothing
    <3>2. PICK w0, o : /\ w0 = [fat |-> fat, data |-> data, root |-> root, node |-> Node(fd)]
                       /\ o = WriteOutcome(w0, Bytes(Node(fd).filename, Node(fd).offset, buf), count)
      OBVIOUS
    <3>3. fat' = o.w.fat /\ data' = o.w.data /\ root' = o.w.root
      BY <1>6, <2>2, <3>2 DEF fs_write
    <3>4. o = [w |-> w0, code |-> 0]
      BY <3>1, <3>2 DEF WriteOutcome
    <3>5. QED
      BY <3>2, <3>3, <3>4
  <2>3. QED
    BY <2>1, <2>2
<1>7. QED
  BY <1>1, <1>2, <1>3, <1>4, <1>5, <1>6 DEF OneStepCall

LEMMA OneStepCallKept ==
  ASSUME ~SharedOpens, TableInv, job \in JobType, AtIdle, KeptInv, OneStepCall
  PROVE  KeptInv'
<1>1. Next /\ UNCHANGED <<job, damage>> /\ job = Idle /\ job.pc = "idle"
  BY DEF OneStepCall, Next, Idle
<1>2. TableInv' /\ AtIdle' /\ job' \in JobType'
  BY OneStepCallStep
<1>3. IInv /\ IInv'
  BY <1>2 DEF TableInv, AtIdle, Sound, IInv, ChainInv, ChainsWellLinked, HeadsStartChains, TypeOK
<1>4. Marked = fat /\ Marked' = fat' /\ ~Running("erase") /\ ~Running("erase")'
  BY <1>1 DEF Marked, Running
<1>5. CacheInv
  BY <1>1, AllCurrent DEF KeptInv, DescriptorsKept, CacheInv, CacheIsCurrent, Current, Running
<1>6. CacheInv'
  BY <1>1, <1>3, <1>5, CacheNext
<1>7. DescriptorsKept'
  <2>1. \A fd \in Open' : Current(fd)'
    BY <1>6 DEF CacheInv, CacheIsCurrent, Current
  <2>2. QED
    BY <1>1, <1>6, <2>1 DEF CacheInv, DescriptorsKept, Running
<1>8. /\ UNCHANGED <<fat, data>>
      /\ \A j \in Listed' : (j \in Listed /\ root'[j] = root[j]) \/ root'[j].index = FAT_EOC
  BY OneStepVolume
<1>9. FilesKept'
  <2>1. SUFFICES ASSUME NEW i \in Listed', Intact(i)'
                 PROVE  FileHeld(i)'
    BY DEF FilesKept
  <2>2. i \in Listed /\ root'[i] = root[i]
    BY <1>8, <2>1 DEF Intact
  <2>3. Intact(i)
    BY <1>4, <1>8, <2>1, <2>2 DEF Intact
  <2>4. FileHeld(i)
    BY <2>2, <2>3 DEF KeptInv, FilesKept
  <2>5. QED
    BY <1>4, <1>8, <2>2, <2>4 DEF FileHeld
<1>10. BlocksOwned'
  <2>1. SUFFICES ASSUME ~damage.leaked
                 PROVE  Reached(fat', Owners')
    BY <1>1, <1>4 DEF BlocksOwned
  <2>2. Owners = DirHeads /\ Owners' = DirHeads'
    <3>1. \A i \in Listed : root[i].index # FAT_EOC => fat[root[i].index] # 0
      BY DEF AtIdle, Sound, Heads, DirHeads, StartsChain
    <3>2. \A i \in Listed' : root'[i].index # FAT_EOC => fat'[root'[i].index] # 0
      BY <1>8, <3>1
    <3>3. Owners = DirHeads
      BY <1>4, <3>1 DEF Owners, DirHeads, Intact
    <3>4. Owners' = DirHeads'
      BY <1>4, <3>2 DEF Owners, DirHeads, Intact
    <3>5. QED
      BY <3>3, <3>4
  <2>3. NoOrphans
    BY <1>4, <2>1, <2>2 DEF KeptInv, BlocksOwned, NoOrphans
  <2>4. NoOrphans'
    BY <1>1, <1>3, <1>5, <2>3, LeakNext
  <2>5. QED
    BY <2>2, <2>4 DEF NoOrphans
<1>11. QED
  BY <1>1, <1>7, <1>9, <1>10 DEF KeptInv, Running

-----------------------------------------------------------------------------
(* The contents are kept.                                                  *)

LEMMA JobStepKept ==
  ASSUME TableInv, job \in JobType, AtSomePoint, KeptInv, JobStep
  PROVE  KeptInv'
<1>1. CASE AddClear
  BY <1>1, PointOf, AddClearKept DEF AddClear
<1>2. CASE AddIndex
  BY <1>2, PointOf, AddIndexKept DEF AddIndex
<1>3. CASE AddClaim
  BY <1>3, PointOf, AddClaimKept DEF AddClaim
<1>4. CASE PlanWrite
  BY <1>4, PointOf, PlanWriteKept DEF PlanWrite
<1>5. CASE AllocClear \/ AllocDone
  BY <1>5, PointOf, AllocClearKept, AllocDoneKept DEF AllocClear, AllocDone
<1>6. CASE AllocLink
  BY <1>6, PointOf, AllocLinkKept DEF AllocLink
<1>7. CASE AllocMark
  BY <1>7, PointOf, AllocMarkKept DEF AllocMark
<1>8. CASE TransferBlock \/ WriteSize
  BY <1>8, PointOf, TransferBlockKept, WriteSizeKept DEF TransferBlock, WriteSize
<1>9. CASE SweepNext \/ EraseDirectory
  BY <1>9, PointOf, SweepNextKept, EraseDirectoryKept DEF SweepNext, EraseDirectory
<1>10. CASE EraseBlock
  BY <1>10, PointOf, EraseBlockKept DEF EraseBlock
<1>11. QED
  BY <1>1, <1>2, <1>3, <1>4, <1>5, <1>6, <1>7, <1>8, <1>9, <1>10 DEF JobStep

\* On a torn volume nothing is written any more.
LEMMA WreckedKept ==
  ASSUME UNCHANGED <<fd_table, root, fat, data, job, damage>>, WreckedInv
  PROVE  WreckedInv'
<1>1. Listed' = Listed /\ JobNode' = JobNode
  BY DEF Listed, Entries, JobNode, Node
<1>2. Torn' = Torn
  BY <1>1 DEF Torn, Running
<1>3. QED
  BY <1>1, <1>2 DEF WreckedInv, TornExactly, ReachesFree, BytesSurviveKill

LEMMA KeptUnchanged ==
  ASSUME UNCHANGED <<fd_table, root, fat, data, job, damage>>, KeptInv
  PROVE  KeptInv'
<1>1. /\ Open' = Open /\ Listed' = Listed /\ Marked' = Marked /\ JobNode' = JobNode
      /\ \A pc : Running(pc)' = Running(pc)
      /\ \A fd : Node(fd)' = Node(fd)
  BY DEF Open, Listed, Entries, Marked, JobNode, Running, Node
<1>2. JobFirst' = JobFirst /\ JobEntry' = JobEntry
  BY <1>1 DEF JobFirst, JobEntry
<1>3. \A i : Intact(i)' = Intact(i)
  BY <1>1 DEF Intact
<1>4. Owners' = Owners /\ \A i : FileHeld(i)' = FileHeld(i)
  BY <1>1, <1>3 DEF Owners, FileHeld
<1>5. Moving' = Moving
  BY <1>1, <1>2 DEF Moving
<1>6. \A fd : Current(fd)' = Current(fd)
  BY <1>1 DEF Current
<1>7. \A node, entry : AheadOf(node, entry)' = AheadOf(node, entry)
  BY <1>1 DEF AheadOf
<1>8. DescriptorsKept'
  BY <1>1, <1>2, <1>6, <1>7 DEF KeptInv, DescriptorsKept, OpenOnce, EmptyHasNoSize
<1>9. FilesKept' /\ BlocksOwned'
  BY <1>1, <1>3, <1>4 DEF KeptInv, FilesKept, BlocksOwned
<1>10. QED
  BY <1>1, <1>5, <1>8, <1>9 DEF KeptInv

LEMMA CrashKeptInit == CrashInit => CrashKeptInv
<1> SUFFICES ASSUME CrashInit PROVE CrashKeptInv
  OBVIOUS
<1>1. job.pc = "idle" /\ damage.torn = {}
  BY DEF CrashInit, Idle
<1>2. Open = {} /\ Listed = {} /\ \A b \in Blocks : fat[b] # 0 => b = 0
  <2>1. Open = {}
    BY EmptyTable DEF CrashInit, Init, Open
  <2>2. Listed = {}
    BY DEF CrashInit, Init, Listed, Entries, EmptyEntry
  <2>3. \A b \in Blocks : fat[b] # 0 => b = 0
    BY Sizes DEF CrashInit, Init
  <2>4. QED
    BY <2>1, <2>2, <2>3
<1>3. DescriptorsKept /\ FilesKept
  BY <1>1, <1>2 DEF DescriptorsKept, OpenOnce, EmptyHasNoSize, FilesKept, Running
<1>4. BlocksOwned
  BY <1>1, <1>2 DEF BlocksOwned, Reached, Marked, Running
<1>5. QED
  BY <1>1, <1>3, <1>4 DEF CrashKeptInv, KeptInv, Running

LEMMA CrashKeptNext ==
  ASSUME ~SharedOpens, CrashInv, CrashKeptInv, [CarefulNext]_crash_vars
  PROVE  CrashKeptInv'
<1>1. ASSUME UNCHANGED <<fd_table, root, fat, data, job, damage>>
      PROVE  CrashKeptInv'
  BY <1>1, KeptUnchanged, WreckedKept DEF CrashKeptInv
<1>2. CASE UNCHANGED crash_vars
  BY <1>1, <1>2 DEF crash_vars, vars
<1>3. CASE Wrecked /\ CarefulNext
  BY <1>1, <1>3, WreckedStep
<1>4. CASE ~Wrecked /\ CarefulNext
  <2>1. TableInv /\ job \in JobType /\ AtSomePoint /\ damage.torn = {} /\ KeptInv
    BY <1>4 DEF CrashInv, CrashKeptInv
  <2>2. ASSUME UNCHANGED damage, KeptInv'
        PROVE  CrashKeptInv'
    BY <2>1, <2>2 DEF CrashKeptInv
  <2>3. job = Idle => AtIdle
    BY <2>1, PointOf DEF Running, Idle
  <2>4. CASE Kill
    BY <2>1, <2>4, KillKept
  <2>5. CASE JobStep
    BY <2>1, <2>2, <2>5, JobStepInv, JobStepKept
  <2>6. CASE OneStepCall
    BY <2>1, <2>2, <2>3, <2>6, OneStepCallKept DEF OneStepCall
  <2>7. ASSUME NEW fd \in FdArgs, NEW buf \in BufArgs, NEW count \in CountArgs,
               StartWrite(fd, buf, count)
        PROVE  CrashKeptInv'
    BY <2>1, <2>2, <2>3, <2>7, StartWriteKept DEF StartWrite
  <2>8. ASSUME NEW name \in NameArgs, StartDelete(name)
        PROVE  CrashKeptInv'
    BY <2>1, <2>2, <2>3, <2>8, StartDeleteKept DEF StartDelete
  <2>9. CASE StartEraseAll
    BY <2>1, <2>2, <2>3, <2>9, StartEraseAllKept DEF StartEraseAll
  <2>10. QED
    BY <1>4, <2>4, <2>5, <2>6, <2>7, <2>8, <2>9 DEF CarefulNext, CrashNext
<1>5. QED
  BY <1>2, <1>3, <1>4

\* For clients that open no file twice and mount no torn volume: after any number of kills
\* each file that is not torn has its bytes in its blocks, and what has blocks can be named
\* (fs_write, fs_delete and erase_all_files, taken apart at their block writes).
THEOREM CrashKeptInvariance ==
  ASSUME ~SharedOpens
  PROVE  CarefulSpec => [](CrashInv /\ CrashKeptInv)
<1>1. CrashInit => CrashKeptInv
  BY CrashKeptInit
<1>2. CrashInv /\ CrashKeptInv /\ [CarefulNext]_crash_vars => CrashKeptInv'
  BY CrashKeptNext
<1>3. QED
  BY <1>1, <1>2, CrashInvariance, PTL DEF CarefulSpec

\* On a volume without a torn file, what a kill tears is the file whose allocation it cut
\* and what erase_all_files has erased so far, and nothing else, wherever it comes
\* (disk.c, add_file_to_disk and allocate_more_blocks; utilities.c, erase_all_files).
THEOREM KillTearsExactly ==
  ASSUME ~SharedOpens
  PROVE  CarefulSpec => []TornExactly
<1>1. CrashInv /\ CrashKeptInv => TornExactly
  <2> SUFFICES ASSUME CrashInv, CrashKeptInv PROVE TornExactly
    OBVIOUS
  <2>1. CASE damage.torn = {}
    BY <2>1, TornIsExact DEF CrashInv, Wrecked, CrashKeptInv
  <2>2. CASE damage.torn # {}
    BY <2>2 DEF CrashKeptInv, WreckedInv
  <2>3. QED
    BY <2>1, <2>2
<1>2. QED
  BY <1>1, CrashKeptInvariance, PTL

\* No kill costs a file that it does not tear a byte of what its size says it has: the
\* size is written last (fs_write).  A client that goes on with a torn volume is outside.
THEOREM BytesSurvive ==
  ASSUME ~SharedOpens
  PROVE  CarefulSpec => []BytesSurviveKill
<1>1. CrashInv /\ CrashKeptInv => BytesSurviveKill
  <2> SUFFICES ASSUME CrashInv, CrashKeptInv PROVE BytesSurviveKill
    OBVIOUS
  <2>1. CASE damage.torn = {}
    BY <2>1, BytesAreHeld DEF CrashInv, Wrecked, CrashKeptInv
  <2>2. CASE damage.torn # {}
    BY <2>2 DEF CrashKeptInv, WreckedInv
  <2>3. QED
    BY <2>1, <2>2
<1>2. QED
  BY <1>1, CrashKeptInvariance, PTL

\* As long as no file is torn, blocks that nothing names are left behind by a delete that
\* is cut, and by no write and no erase_all_files (fs_delete clears the entry before it frees the chain).
THEOREM OnlyDeletesLeak ==
  ASSUME ~SharedOpens
  PROVE  CarefulSpec => []LeaksOnlyByDelete
<1>1. CrashInv /\ CrashKeptInv => LeaksOnlyByDelete
  <2> SUFFICES ASSUME CrashInv, CrashKeptInv, damage.torn = {} PROVE LeaksOnlyByDelete
    BY DEF LeaksOnlyByDelete
  <2>1. QED
    BY NothingIsLost DEF CrashInv, Wrecked, CrashKeptInv
<1>2. QED
  BY <1>1, CrashKeptInvariance, PTL

-----------------------------------------------------------------------------
(* The operators of FileSystem, as CallsAreAtomic has them, are those of    *)
(* CrashFS.                                                                 *)

LEMMA SameFat ==
  ASSUME NEW table, NEW blocks, NEW b, NEW n
  PROVE  /\ Atomic!skip_blocks(table, b, n) = skip_blocks(table, b, n)
         /\ Atomic!total_file_blocks(table, b) = total_file_blocks(table, b)
         /\ Atomic!erase_file(table, b) = erase_file(table, b)
         /\ Atomic!allocate_more_blocks(table, blocks, b, n) = allocate_more_blocks(table, blocks, b, n)
BY DEF Atomic!skip_blocks, skip_blocks, Atomic!total_file_blocks, total_file_blocks,
  Atomic!erase_file, erase_file, Atomic!allocate_more_blocks, allocate_more_blocks,
  Atomic!Iterate, Iterate, Atomic!Follow, Follow, Atomic!CountTurn, CountTurn,
  Atomic!CountState, CountState, Atomic!EraseOne, EraseOne, Atomic!EraseState, EraseState,
  Atomic!AllocateOne, AllocateOne, Atomic!AllocState, AllocState,
  Atomic!FatType, FatType, Atomic!DataType, DataType, Atomic!Byte, Byte, Atomic!Links, Links,
  Atomic!Slots, Slots, Atomic!Blocks, Blocks, Atomic!FAT_EOC, FAT_EOC,
  Atomic!get_fat_entry, get_fat_entry, Atomic!set_fat_entry, set_fat_entry,
  Atomic!clear_block, clear_block, Atomic!DiskFull, DiskFull, Atomic!FreeBlocks, FreeBlocks,
  Atomic!first_block_available, first_block_available

LEMMA SameWriteTurn ==
  ASSUME NEW table, NEW end_offset, NEW buf, NEW start
  PROVE  Atomic!WriteTurn(table, end_offset, buf, start) = WriteTurn(table, end_offset, buf, start)
BY DEF Atomic!Iterate, Iterate, Atomic!skip_blocks, skip_blocks, Atomic!Follow, Follow,
  Atomic!FAT_EOC, FAT_EOC, Atomic!Blocks, Blocks, Atomic!get_fat_entry, get_fat_entry,
  Atomic!WriteTurn, WriteTurn, Atomic!WriteState, WriteState, Atomic!TurnLength, TurnLength, Atomic!NextBlock, NextBlock,
  Atomic!DataType, DataType, Atomic!Byte, Byte, Atomic!current_block_offset, current_block_offset

LEMMA SameReadTurn ==
  ASSUME NEW table, NEW blocks, NEW end_offset
  PROVE  Atomic!ReadTurn(table, blocks, end_offset) = ReadTurn(table, blocks, end_offset)
BY DEF Atomic!Iterate, Iterate, Atomic!skip_blocks, skip_blocks, Atomic!Follow, Follow,
  Atomic!FAT_EOC, FAT_EOC, Atomic!Blocks, Blocks, Atomic!get_fat_entry, get_fat_entry,
  Atomic!ReadTurn, ReadTurn, Atomic!ReadState, ReadState, Atomic!TurnLength, TurnLength, Atomic!NextBlock, NextBlock,
  Atomic!DataType, DataType, Atomic!Byte, Byte, Atomic!current_block_offset, current_block_offset

LEMMA SameAdd ==
  ASSUME NEW w
  PROVE  Atomic!add_file_to_disk(w) = add_file_to_disk(w) /\ Atomic!DiskFull(w.fat) = DiskFull(w.fat)
BY DEF Atomic!add_file_to_disk, add_file_to_disk, Atomic!FAT_EOC, FAT_EOC, Atomic!set_fat_entry, set_fat_entry,
  Atomic!clear_block, clear_block, Atomic!FreeBlocks, FreeBlocks, Atomic!DiskFull, DiskFull,
  Atomic!first_block_available, first_block_available, Atomic!Blocks, Blocks

LEMMA SameExtended ==
  ASSUME NEW w, NEW end_offset
  PROVE  Atomic!Extended(w, end_offset) = Extended(w, end_offset)
<1>1. PICK total : total = total_file_blocks(w.fat, w.node.first_data_block)
  OBVIOUS
<1>2. PICK needed : needed = IF end_offset > total * BlockSize
                             THEN total_block_size(end_offset - total * BlockSize) ELSE 0
  OBVIOUS
<1>3. PICK a : a = allocate_more_blocks(w.fat, w.data, w.node.first_data_block, needed)
  OBVIOUS
<1>4. Extended(w, end_offset) =
        [w |-> [w EXCEPT !.fat = a.fat, !.data = a.data],
         at_end |-> needed > 0 /\ a.new_blocks = 0 /\ w.node.offset = total * BlockSize]
  BY <1>1, <1>2, <1>3 DEF Extended
<1>5. /\ Atomic!total_file_blocks(w.fat, w.node.first_data_block) = total
      /\ needed = IF end_offset > total * BlockSize
                  THEN Atomic!total_block_size(end_offset - total * BlockSize) ELSE 0
      /\ Atomic!allocate_more_blocks(w.fat, w.data, w.node.first_data_block, needed) = a
  BY <1>1, <1>2, <1>3, SameFat DEF Atomic!total_block_size, total_block_size
<1>6. Atomic!Extended(w, end_offset) =
        [w |-> [w EXCEPT !.fat = a.fat, !.data = a.data],
         at_end |-> needed > 0 /\ a.new_blocks = 0 /\ w.node.offset = total * BlockSize]
  BY <1>5 DEF Atomic!Extended
<1>7. QED
  BY <1>4, <1>6

LEMMA SameTransferred ==
  ASSUME NEW w, NEW end_offset, NEW buf
  PROVE  Atomic!Transferred(w, end_offset, buf) = Transferred(w, end_offset, buf)
<1>1. PICK block, f :
        /\ block = skip_blocks(w.fat, w.node.first_data_block, current_block_offset(w.node.offset))
        /\ f = WriteTurn(w.fat, end_offset, buf, w.node.offset)
  OBVIOUS
<1>2. PICK s : s = Iterate(f, [offset |-> w.node.offset, size |-> w.node.size,
                               block |-> block, data |-> w.data])[end_offset]
  OBVIOUS
<1>3. Transferred(w, end_offset, buf) =
        [w EXCEPT !.data = s.data,
                  !.node = [@ EXCEPT !.offset = s.offset, !.size = s.size],
                  !.root = [@ EXCEPT ![w.node.dir_entry_index].size = s.size]]
  BY <1>1, <1>2 DEF Transferred
<1>4. /\ Atomic!skip_blocks(w.fat, w.node.first_data_block,
                            Atomic!current_block_offset(w.node.offset)) = block
      /\ Atomic!WriteTurn(w.fat, end_offset, buf, w.node.offset) = f
      /\ Atomic!Iterate(f, [offset |-> w.node.offset, size |-> w.node.size,
                            block |-> block, data |-> w.data]) =
           Iterate(f, [offset |-> w.node.offset, size |-> w.node.size,
                       block |-> block, data |-> w.data])
  <2>1. PICK q : q = current_block_offset(w.node.offset)
    OBVIOUS
  <2>2. Atomic!current_block_offset(w.node.offset) = q
    BY <2>1 DEF Atomic!current_block_offset, current_block_offset
  <2>3. block = skip_blocks(w.fat, w.node.first_data_block, q)
    BY <1>1, <2>1
  <2>4. Atomic!skip_blocks(w.fat, w.node.first_data_block, q) = block
    BY <2>3, SameFat
  <2>5. Atomic!WriteTurn(w.fat, end_offset, buf, w.node.offset) = f
    BY <1>1, SameWriteTurn
  <2>6. QED
    BY <2>2, <2>4, <2>5 DEF Atomic!Iterate, Iterate
<1>5. Atomic!Transferred(w, end_offset, buf) =
        [w EXCEPT !.data = s.data,
                  !.node = [@ EXCEPT !.offset = s.offset, !.size = s.size],
                  !.root = [@ EXCEPT ![w.node.dir_entry_index].size = s.size]]
  BY <1>2, <1>4 DEF Atomic!Transferred
<1>6. QED
  BY <1>3, <1>5

\* fs_write once its arguments have passed, in terms of what it does in turn.
LEMMA OutcomeOf ==
  ASSUME NEW w0, NEW buf, NEW count,
         ~(w0.node.first_data_block = FAT_EOC /\ DiskFull(w0.fat)),
         NEW w1, w1 = IF w0.node.first_data_block = FAT_EOC THEN add_file_to_disk(w0) ELSE w0,
         NEW wanted, wanted = w1.node.offset + count,
         NEW x, x = Extended(w1, wanted),
         NEW room, room = total_file_blocks(x.w.fat, x.w.node.first_data_block) * BlockSize,
         NEW end_offset, end_offset = IF wanted > room THEN room ELSE wanted,
         NEW w2, w2 = Transferred(x.w, end_offset, buf)
  PROVE  WriteOutcome(w0, buf, count) =
           IF x.at_end THEN [w |-> x.w, code |-> 0]
           ELSE [w |-> w2, code |-> w2.node.offset - w1.node.offset]
BY DEF WriteOutcome

LEMMA SameWrite ==
  ASSUME NEW w0, NEW buf, NEW count
  PROVE  Atomic!WriteOutcome(w0, buf, count) = WriteOutcome(w0, buf, count)
<1>1. CASE w0.node.first_data_block = FAT_EOC /\ DiskFull(w0.fat)
  <2>1. w0.node.first_data_block = Atomic!FAT_EOC /\ Atomic!DiskFull(w0.fat)
    BY <1>1, SameAdd DEF Atomic!FAT_EOC, FAT_EOC
  <2>2. Atomic!WriteOutcome(w0, buf, count) = [w |-> w0, code |-> 0]
    BY <2>1 DEF Atomic!WriteOutcome
  <2>3. WriteOutcome(w0, buf, count) = [w |-> w0, code |-> 0]
    BY <1>1 DEF WriteOutcome
  <2>4. QED
    BY <2>2, <2>3
<1>2. CASE ~(w0.node.first_data_block = FAT_EOC /\ DiskFull(w0.fat))
  <2>1. PICK w1 : w1 = IF w0.node.first_data_block = FAT_EOC THEN add_file_to_disk(w0) ELSE w0
    OBVIOUS
  <2>2. PICK wanted, x : wanted = w1.node.offset + count /\ x = Extended(w1, wanted)
    OBVIOUS
  <2>3. PICK room : room = total_file_blocks(x.w.fat, x.w.node.first_data_block) * BlockSize
    OBVIOUS
  <2>4. PICK end_offset, w2 : /\ end_offset = IF wanted > room THEN room ELSE wanted
                              /\ w2 = Transferred(x.w, end_offset, buf)
    OBVIOUS
  <2>5. WriteOutcome(w0, buf, count) =
          IF x.at_end THEN [w |-> x.w, code |-> 0]
          ELSE [w |-> w2, code |-> w2.node.offset - w1.node.offset]
    BY <1>2, <2>1, <2>2, <2>3, <2>4 DEF WriteOutcome
  <2>6. ~(w0.node.first_data_block = Atomic!FAT_EOC /\ Atomic!DiskFull(w0.fat))
    BY <1>2, SameAdd DEF Atomic!FAT_EOC, FAT_EOC
  <2>7. w1 = IF w0.node.first_data_block = Atomic!FAT_EOC THEN Atomic!add_file_to_disk(w0) ELSE w0
    BY <2>1, SameAdd DEF Atomic!FAT_EOC, FAT_EOC
  <2>8. x = Atomic!Extended(w1, wanted)
    BY <2>2, SameExtended
  <2>9. room = Atomic!total_file_blocks(x.w.fat, x.w.node.first_data_block) * BlockSize
    BY <2>3, SameFat
  <2>10. w2 = Atomic!Transferred(x.w, end_offset, buf)
    BY <2>4, SameTransferred
  <2>11. Atomic!WriteOutcome(w0, buf, count) =
          IF x.at_end THEN [w |-> x.w, code |-> 0]
          ELSE [w |-> w2, code |-> w2.node.offset - w1.node.offset]
    BY <2>2, <2>4, <2>6, <2>7, <2>8, <2>9, <2>10 DEF Atomic!WriteOutcome
  <2>12. QED
    BY <2>5, <2>11
<1>3. QED
  BY <1>1, <1>2

-----------------------------------------------------------------------------
(* Between two calls.                                                      *)

LEMMA SameTable ==
  ASSUME NEW table, NEW fd, NEW name, NEW fill
  PROVE  /\ Atomic!fd_table_constructor = fd_table_constructor
         /\ Atomic!isOpenByName(table, name) = isOpenByName(table, name)
         /\ Atomic!isOpenByFd(table, fd) = isOpenByFd(table, fd)
         /\ Atomic!table_is_full(table) = table_is_full(table)
         /\ Atomic!addFd(table) = addFd(table)
         /\ Atomic!Occupied(table, fd, name, fill) = Occupied(table, fd, name, fill)
         /\ Atomic!removeFd(table, fd) = removeFd(table, fd)
         /\ Atomic!fdNode_constructor = fdNode_constructor
         /\ Atomic!Fds = Fds /\ Atomic!DirSlots = DirSlots /\ Atomic!FAT_EOC = FAT_EOC
         /\ Atomic!EmptyEntry = EmptyEntry
BY DEF Atomic!fd_table_constructor, fd_table_constructor, Atomic!isOpenByName, isOpenByName,
  Atomic!isOpenByFd, isOpenByFd, Atomic!table_is_full, table_is_full, Atomic!addFd, addFd,
  Atomic!Unused, Unused, Atomic!Occupied, Occupied, Atomic!removeFd, removeFd,
  Atomic!fdNode_constructor, fdNode_constructor, Atomic!Fds, Fds, Atomic!DirSlots, DirSlots,
  Atomic!FAT_EOC, FAT_EOC, Atomic!EmptyEntry, EmptyEntry

LEMMA SameArgs ==
  /\ Atomic!FdArgs = FdArgs /\ Atomic!NameArgs = NameArgs /\ Atomic!OffsetArgs = OffsetArgs
  /\ Atomic!CountArgs = CountArgs /\ Atomic!BufArgs = BufArgs
BY DEF Atomic!FdArgs, FdArgs, Atomic!NameArgs, NameArgs, Atomic!OffsetArgs, OffsetArgs,
  Atomic!CountArgs, CountArgs, Atomic!BufArgs, BufArgs

LEMMA SameReturn ==
  ASSUME NEW code
  PROVE  Atomic!Outcome(code) = Outcome(code) /\ (Atomic!Return(code) <=> Return(code))
BY DEF Atomic!Outcome, Outcome, Atomic!Return, Return

LEMMA SameNames ==
  ASSUME job = Idle, NEW name, NEW fd
  PROVE  /\ Atomic!Entries(name) = Entries(name)
         /\ Atomic!FirstEntry(name) = FirstEntry(name)
         /\ Atomic!Node(fd) = Node(fd)
         /\ Atomic!isUsable(fd) <=> isUsable(fd)
         /\ Atomic!isValidFileName(name) <=> isValidFileName(name)
<1>1. Atomic!Entries(name) = Entries(name)
  BY DEF Atomic!Entries, Entries, Atomic!DirSlots, DirSlots
<1>2. Atomic!FirstEntry(name) = FirstEntry(name)
  BY <1>1 DEF Atomic!FirstEntry, FirstEntry
<1>3. Atomic!Node(fd) = Node(fd)
  BY DEF Atomic!Node, Node
<1>4. Atomic!isUsable(fd) <=> isUsable(fd)
  BY DEF Atomic!isUsable, isUsable, Atomic!Fds, Fds, Atomic!isOpenByFd, isOpenByFd
<1>5. QED
  BY <1>1, <1>2, <1>3, <1>4 DEF Atomic!isValidFileName, isValidFileName

LEMMA SameMount ==
  ASSUME job = Idle, job' = Idle
  PROVE  (fs_mount => Atomic!fs_mount) /\ (fs_umount => Atomic!fs_umount)
BY SameTable, SameReturn DEF Atomic!fs_mount, fs_mount, Atomic!fs_umount, fs_umount, Atomic!volume, volume

LEMMA SameInfo ==
  ASSUME job = Idle, job' = Idle
  PROVE  (fs_info => Atomic!fs_info) /\ (free_blocks => Atomic!free_blocks)
<1>1. /\ Atomic!fat_available(fat) = fat_available(fat)
      /\ Atomic!FreeBlocks(fat) = FreeBlocks(fat)
      /\ \A S : Atomic!Cardinality(S) = Cardinality(S)
  BY DEF Atomic!fat_available, fat_available, Atomic!Slots, Slots, Atomic!FreeBlocks, FreeBlocks,
    Atomic!Blocks, Blocks, Atomic!Cardinality, Cardinality
<1>2. (IF job = Idle THEN fat ELSE job.before.fat) = fat
  OBVIOUS
<1>3. fs_info => Atomic!fs_info
  BY <1>1, <1>2, SameNames, SameReturn DEF Atomic!fs_info, fs_info, Atomic!volume, volume
<1>4. free_blocks => Atomic!free_blocks
  BY <1>1, <1>2, SameReturn DEF Atomic!free_blocks, free_blocks, Atomic!volume, volume
<1>5. QED
  BY <1>3, <1>4

LEMMA SameLs ==
  ASSUME job = Idle, job' = Idle, fs_ls
  PROVE  Atomic!fs_ls
<1>1. PICK listing : listing = [n \in {root[i].filename : i \in DirSlots} \ {Null} |->
                                  root[FirstEntry(n)].size]
  OBVIOUS
<1>2. listing = [n \in {(IF job = Idle THEN root ELSE job.before.root)[i].filename :
                           i \in Atomic!DirSlots} \ {Null} |->
                   (IF job = Idle THEN root ELSE job.before.root)[Atomic!FirstEntry(n)].size]
  <2>1. \A n : Atomic!FirstEntry(n) = FirstEntry(n)
    BY SameNames
  <2>2. QED
    BY <1>1, <2>1 DEF Atomic!DirSlots, DirSlots
<1>3. QED
  BY <1>1, <1>2, SameReturn DEF fs_ls, Atomic!fs_ls, Atomic!volume, volume

LEMMA SameCreate ==
  ASSUME job = Idle, job' = Idle, NEW name, fs_create(name)
  PROVE  Atomic!fs_create(name)
BY SameNames, SameReturn DEF Atomic!fs_create, fs_create, Atomic!FAT_EOC, FAT_EOC

LEMMA SameDelete ==
  ASSUME job = Idle, job' = Idle, NEW name, fs_delete(name)
  PROVE  Atomic!fs_delete(name)
BY SameNames, SameReturn, SameTable, SameFat DEF Atomic!fs_delete, fs_delete

LEMMA SameOpen ==
  ASSUME job = Idle, job' = Idle, NEW name, fs_open(name)
  PROVE  Atomic!fs_open(name)
<1>1. ASSUME NEW node, NEW i
      PROVE  Atomic!CacheEntry(node, i) = CacheEntry(node, i)
  BY DEF Atomic!CacheEntry, CacheEntry, Atomic!FAT_EOC, FAT_EOC
<1>2. QED
  BY <1>1, SameNames, SameReturn, SameTable DEF Atomic!fs_open, fs_open, Atomic!volume, volume

LEMMA SameFdCalls ==
  ASSUME job = Idle, job' = Idle, NEW fd, NEW offset
  PROVE  /\ fs_close(fd) => Atomic!fs_close(fd)
         /\ fs_stat(fd) => Atomic!fs_stat(fd)
         /\ fs_lseek(fd, offset) => Atomic!fs_lseek(fd, offset)
BY SameNames, SameReturn, SameTable DEF Atomic!fs_close, fs_close, Atomic!fs_stat, fs_stat,
  Atomic!fs_lseek, fs_lseek, Atomic!volume, volume

LEMMA SameRead ==
  ASSUME job = Idle, job' = Idle, NEW fd, NEW buf, NEW count, fs_read(fd, buf, count)
  PROVE  Atomic!fs_read(fd, buf, count)
<1>1. ASSUME NEW node
      PROVE  Atomic!ReadOutcome(node, count) = ReadOutcome(node, count)
  <2>1. PICK end_offset, q :
          /\ end_offset = IF node.offset + count > node.size THEN node.size ELSE node.offset + count
          /\ q = current_block_offset(node.offset)
    OBVIOUS
  <2>2. PICK block, f, s : /\ block = skip_blocks(fat, node.first_data_block, q)
                           /\ f = ReadTurn(fat, data, end_offset)
                           /\ s = [offset |-> node.offset, block |-> block, buf |-> <<>>]
    OBVIOUS
  <2>3. ReadOutcome(node, count) = Iterate(f, s)[end_offset]
    BY <2>1, <2>2 DEF ReadOutcome
  <2>4. /\ q = Atomic!current_block_offset(node.offset)
        /\ block = Atomic!skip_blocks(fat, node.first_data_block, q)
        /\ f = Atomic!ReadTurn(fat, data, end_offset)
        /\ Atomic!Iterate(f, s) = Iterate(f, s)
    <3>1. q = Atomic!current_block_offset(node.offset)
      BY <2>1 DEF Atomic!current_block_offset, current_block_offset
    <3>2. block = Atomic!skip_blocks(fat, node.first_data_block, q)
      BY <2>2, SameFat
    <3>3. f = Atomic!ReadTurn(fat, data, end_offset)
      BY <2>2, SameReadTurn
    <3>4. QED
      BY <3>1, <3>2, <3>3 DEF Atomic!Iterate, Iterate
  <2>5. Atomic!ReadOutcome(node, count) = Atomic!Iterate(f, s)[end_offset]
    BY <2>1, <2>2, <2>4 DEF Atomic!ReadOutcome
  <2>6. QED
    BY <2>3, <2>4, <2>5
<1>2. QED
  BY <1>1, SameNames, SameReturn DEF Atomic!fs_read, fs_read, Atomic!FAT_EOC, FAT_EOC, Atomic!volume, volume

LEMMA SameWriteCall ==
  ASSUME job = Idle, job' = Idle, NEW fd, NEW buf, NEW count, fs_write(fd, buf, count)
  PROVE  Atomic!fs_write(fd, buf, count)
BY SameNames, SameReturn, SameWrite DEF Atomic!fs_write, fs_write, Atomic!Bytes, Bytes, Atomic!volume, volume

LEMMA SameEraseAll ==
  ASSUME job = Idle, job' = Idle, erase_all_files
  PROVE  Atomic!erase_all_files
<1>1. Atomic!EraseEntry = EraseEntry
  BY SameFat DEF Atomic!EraseEntry, EraseEntry, Atomic!EraseAllState, EraseAllState,
    Atomic!FatType, FatType, Atomic!Links, Links, Atomic!Slots, Slots, Atomic!Blocks, Blocks, Atomic!FAT_EOC, FAT_EOC
<1>2. QED
  BY <1>1, SameReturn, SameTable DEF Atomic!erase_all_files, erase_all_files, Atomic!Iterate, Iterate

-----------------------------------------------------------------------------
(* What the block writes of a call have come to, in turns of the loops of   *)
(* FileSystem.                                                             *)

\* What fs_write works on: what the call found, and this with a first block.
Found ==
  [fat |-> job.before.fat, data |-> job.before.data, root |-> job.before.root,
   node |-> job.before.fd_table.nodes[job.fd]]
Placed(w) == IF w.node.first_data_block = FAT_EOC THEN add_file_to_disk(w) ELSE w

Wanted == Found.node.offset + job.before.argument

\* The loops of Extended and Transferred, from their start.
TotalBytes(w) == total_file_blocks(w.fat, w.node.first_data_block) * BlockSize
NeededBlocks(w, wanted) ==
  IF wanted > TotalBytes(w) THEN total_block_size(wanted - TotalBytes(w)) ELSE 0
AllocStart(w) ==
  [fat |-> w.fat, data |-> w.data,
   end_block |-> skip_blocks(w.fat, w.node.first_data_block,
                             total_file_blocks(w.fat, w.node.first_data_block) - 1),
   new_blocks |-> 0]
Allocated(w, k) == Iterate(AllocateOne, AllocStart(w))[k]

EndOffset(w, wanted) == IF wanted > TotalBytes(w) THEN TotalBytes(w) ELSE wanted
MoveStart(w) ==
  [offset |-> w.node.offset, size |-> w.node.size,
   block |-> skip_blocks(w.fat, w.node.first_data_block, current_block_offset(w.node.offset)),
   data |-> w.data]
Moved(w, end_offset, buf, k) ==
  Iterate(WriteTurn(w.fat, end_offset, buf, w.node.offset), MoveStart(w))[k]

\* What is there is w, and the call has its arguments yet.
Shows(w) == fat = w.fat /\ data = w.data /\ root = w.root /\ JobNode = w.node
Ready == job.wanted = Wanted /\ job.new_blocks = 0

OnAdd == Running("add") /\ Ready /\ Shows(Found) /\ JobFirst = FAT_EOC

OnIndex ==
  LET w == Placed(Found)
  IN  /\ Running("index") /\ Ready /\ Found.node.first_data_block = FAT_EOC
      /\ fat = Found.fat /\ root = Found.root /\ data = w.data /\ JobNode = w.node

OnClaim ==
  LET w == Placed(Found)
  IN  /\ Running("claim") /\ Ready /\ Found.node.first_data_block = FAT_EOC
      /\ fat = Found.fat /\ root = w.root /\ data = w.data /\ JobNode = w.node

OnPlan == Running("plan") /\ Ready /\ Shows(Placed(Found))

\* The state of the allocation loop after the turns that the call has made.
InTurn(s) ==
  LET w == Placed(Found)
  IN  /\ \E k \in Nat : k + job.needed_blocks = NeededBlocks(w, Wanted) /\ s = Allocated(w, k)
      /\ s \in AllocState /\ s.end_block = job.end_block /\ s.new_blocks = job.new_blocks
      /\ job.wanted = Wanted /\ root = w.root /\ JobNode = w.node
      /\ job.at_end <=> Wanted > TotalBytes(w) /\ w.node.offset = TotalBytes(w)

Taken(s) == ~DiskFull(s.fat) /\ job.available_block = first_block_available(s.fat)

OnExtend == Running("extend") /\ \E s : InTurn(s) /\ fat = s.fat /\ data = s.data

OnLink ==
  /\ Running("link")
  /\ \E s : /\ InTurn(s) /\ Taken(s)
            /\ fat = s.fat /\ data = clear_block(s.data, job.available_block)

OnMark ==
  /\ Running("mark")
  /\ \E s : /\ InTurn(s) /\ Taken(s)
            /\ fat = set_fat_entry(s.fat, s.end_block, job.available_block)
            /\ data = clear_block(s.data, job.available_block)

OnTransfer ==
  LET x == Extended(Placed(Found), Wanted)
  IN  /\ Running("transfer") /\ ~x.at_end
      /\ x.w.data \in DataType /\ x.w.node = Placed(Found).node
      /\ job.wanted = EndOffset(x.w, Wanted)
      /\ fat = x.w.fat /\ root = x.w.root
      /\ JobNode = [x.w.node EXCEPT !.offset = JobNode.offset, !.size = JobNode.size]
      /\ \E k \in Nat :
           Moved(x.w, job.wanted, Bytes(Found.node.filename, Found.node.offset, job.buf), k)
             = [offset |-> JobNode.offset, size |-> JobNode.size,
                block |-> job.write_block, data |-> data]

WriteCall ==
  /\ job.call = "write" /\ disk_mounted /\ job.fd \in Fds /\ job.buf \in Versions
  /\ Found \in WState /\ WellLinked(Found.fat)
  /\ Found.node.in_use /\ job.before.fd_table \in TableType
  /\ job.before.argument \in Nat \ {0} /\ job.start = Found.node.offset
  /\ ~(Found.node.first_data_block = FAT_EOC /\ DiskFull(Found.fat))
  /\ fd_table = [job.before.fd_table EXCEPT !.nodes[job.fd] = JobNode]

Writes ==
  /\ WriteCall
  /\ \/ OnAdd \/ OnIndex \/ OnClaim \/ OnPlan \/ OnExtend \/ OnLink \/ OnMark \/ OnTransfer

\* The chain that starts at h in table, after the turns that the call has made.
ErasingFrom(table, h) ==
  /\ table \in FatType /\ WellLinked(table) /\ StartsChain(table, h)
  /\ \E k \in Nat : Iterate(EraseOne, [fat |-> table, block |-> h, done |-> FALSE])[k]
                      = [fat |-> fat, block |-> job.write_block, done |-> FALSE]

\* The entry fs_delete finds.
FirstNamed(dir, name) ==
  CHOOSE i \in {j \in DirSlots : dir[j].filename = name} :
    \A j \in {k \in DirSlots : dir[k].filename = name} : i <= j

Deletes ==
  /\ job.call = "delete" /\ disk_mounted /\ Running("erase")
  /\ job.before.argument # Null
  /\ \E i \in DirSlots : job.before.root[i].filename = job.before.argument
  /\ ~isOpenByName(job.before.fd_table, job.before.argument)
  /\ LET e == FirstNamed(job.before.root, job.before.argument)
     IN  /\ root = [job.before.root EXCEPT ![e] = EmptyEntry]
         /\ ErasingFrom(job.before.fat, job.before.root[e].index)
  /\ fd_table = job.before.fd_table /\ data = job.before.data

\* EraseEntry, with the directory it goes over.
EraseEntryOf(dir) ==
  [s \in EraseAllState |->
     IF s.slot = FileMax THEN s
     ELSE [fat  |-> IF dir[s.slot].filename = Null THEN s.fat
                    ELSE erase_file(s.fat, dir[s.slot].index),
           slot |-> s.slot + 1]]
Erased(dir, table, n) == Iterate(EraseEntryOf(dir), [fat |-> table, slot |-> 0])[n]

OnSweep ==
  /\ Running("sweep")
  /\ Erased(root, job.before.fat, job.slot) = [fat |-> fat, slot |-> job.slot]

OnErase ==
  /\ Running("erase")
  /\ \E table : /\ Erased(root, job.before.fat, job.slot) = [fat |-> table, slot |-> job.slot]
                /\ ErasingFrom(table, root[job.slot].index)

ErasesAll ==
  /\ job.call = "erase_all" /\ disk_mounted /\ fd_table.fdsOccupied = 0
  /\ root = job.before.root /\ fd_table = job.before.fd_table /\ data = job.before.data
  /\ job.slot \in 0 .. FileMax
  /\ OnSweep \/ OnErase

Follows == job # Idle => Writes \/ Deletes \/ ErasesAll

-----------------------------------------------------------------------------
(* The steps of fs_write.                                                  *)

LEMMA WriteCallKept ==
  ASSUME WriteCall, SameCall, UNCHANGED disk_mounted,
         NEW node, fd_table' = [fd_table EXCEPT !.nodes[job.fd] = node]
  PROVE  WriteCall' /\ Found' = Found /\ Wanted' = Wanted /\ JobNode' = node
<1>1. PICK table, fd : table = job.before.fd_table /\ fd = job.fd
  OBVIOUS
<1>2. /\ table \in TableType /\ fd \in Fds
      /\ fd_table = [table EXCEPT !.nodes[fd] = JobNode]
  BY <1>1 DEF WriteCall
<1>3. fd_table' = [table EXCEPT !.nodes[fd] = node] /\ fd_table'.nodes[fd] = node
  BY <1>1, <1>2 DEF TableType
<1>4. Found' = Found /\ Wanted' = Wanted
  BY DEF Found, Wanted, SameCall
<1>5. JobNode' = node
  BY <1>1, <1>3 DEF JobNode, Node, SameCall
<1>6. fd_table' = [job'.before.fd_table EXCEPT !.nodes[job'.fd] = JobNode']
  BY <1>1, <1>3, <1>5 DEF SameCall
<1>7. QED
  BY <1>4, <1>5, <1>6 DEF WriteCall, SameCall

\* A step that does not touch the table.
LEMMA WriteCallQuiet ==
  ASSUME WriteCall, SameCall, UNCHANGED <<disk_mounted, fd_table>>
  PROVE  WriteCall' /\ Found' = Found /\ Wanted' = Wanted /\ JobNode' = JobNode
<1>1. fd_table' = [fd_table EXCEPT !.nodes[job.fd] = JobNode]
  <2>1. PICK table, fd : table = job.before.fd_table /\ fd = job.fd
    OBVIOUS
  <2>2. table \in TableType /\ fd \in Fds /\ fd_table = [table EXCEPT !.nodes[fd] = JobNode]
    BY <2>1 DEF WriteCall
  <2>3. QED
    BY <2>1, <2>2 DEF TableType
<1>2. QED
  BY <1>1, WriteCallKept

LEMMA PlacedFields ==
  ASSUME Found.node.first_data_block = FAT_EOC,
         NEW w, w = Placed(Found), NEW b, b = first_block_available(Found.fat)
  PROVE  /\ w.fat = set_fat_entry(Found.fat, b, FAT_EOC)
         /\ w.data = clear_block(Found.data, b)
         /\ w.root = [Found.root EXCEPT ![Found.node.dir_entry_index].index = b]
         /\ w.node = [Found.node EXCEPT !.first_data_block = b]
<1>1. PICK found : found = Found
  OBVIOUS
<1>2. w = add_file_to_disk(found)
  BY <1>1 DEF Placed
<1>3. b = first_block_available(found.fat)
  BY <1>1
<1>4. w = [fat  |-> set_fat_entry(found.fat, b, FAT_EOC),
           data |-> clear_block(found.data, b),
           root |-> [found.root EXCEPT ![found.node.dir_entry_index].index = b],
           node |-> [found.node EXCEPT !.first_data_block = b]]
  BY <1>2, <1>3 DEF add_file_to_disk
<1>5. QED
  BY <1>1, <1>4

LEMMA PlacedType ==
  ASSUME WriteCall, NEW w, w = Placed(Found)
  PROVE  /\ w \in WState /\ w.node \in NodeType /\ w.node.first_data_block \in Blocks
         /\ w.node.offset = Found.node.offset /\ w.node.filename = Found.node.filename
         /\ TotalBytes(w) \in Nat /\ Wanted \in Nat
         /\ w.node.offset \in Nat /\ w.node.size \in Nat
<1>1. Found \in WState /\ WellLinked(Found.fat) /\ job.before.argument \in Nat
  BY DEF WriteCall
<1>2. Found.node \in NodeType /\ Found.node.offset \in Nat /\ Found.node.first_data_block \in Links
  BY <1>1 DEF WState, NodeType
<1>3. CASE Found.node.first_data_block = FAT_EOC
  <2>1. w = add_file_to_disk(Found) /\ ~DiskFull(Found.fat)
    BY <1>3 DEF Placed, WriteCall
  <2>2. w \in WState /\ StartsChain(w.fat, w.node.first_data_block)
    BY <1>1, <2>1, AddFile
  <2>3. w.node = [Found.node EXCEPT !.first_data_block = first_block_available(Found.fat)]
    BY <2>1 DEF add_file_to_disk
  <2>4. w.node.offset = Found.node.offset /\ w.node.filename = Found.node.filename
    BY <1>2, <2>3 DEF NodeType
  <2>5. w.node.first_data_block \in Blocks
    BY <2>2 DEF StartsChain
  <2>6. QED
    BY <1>1, <1>2, <2>2, <2>4, <2>5, TotalType, ProductType DEF TotalBytes, WState, NodeType, Wanted
<1>4. CASE Found.node.first_data_block # FAT_EOC
  <2>1. w = Found
    BY <1>4 DEF Placed
  <2>2. w.node.first_data_block \in Blocks
    BY <1>2, <1>4, <2>1 DEF Links
  <2>3. QED
    BY <1>1, <1>2, <2>1, <2>2, TotalType, ProductType DEF TotalBytes, WState, NodeType, Wanted
<1>5. QED
  BY <1>3, <1>4

LEMMA StartWriteFollows ==
  ASSUME TableInv, job \in JobType, AtIdle,
         NEW fd \in FdArgs, NEW buf \in BufArgs, NEW count \in CountArgs, StartWrite(fd, buf, count)
  PROVE  WriteCall' /\ (OnAdd' \/ OnPlan')
<1>1. /\ buf \in Versions /\ fd \in Fds /\ count \in Nat \ {0} /\ disk_mounted
      /\ fd \in Open
      /\ ~(Node(fd).first_data_block = FAT_EOC /\ DiskFull(fat))
  BY ClientAssumption
  DEF StartWrite, WritesNothing, BufArgs, isUsable, isOpenByFd, Open, InUse, Node, CountArgs
<1>2. UNCHANGED <<disk_mounted, fd_table, root, fat, data>>
  BY DEF StartWrite, vars
<1>3. PICK before : before = Before(count)
  OBVIOUS
<1>4. /\ job'.call = "write" /\ job'.fd = fd /\ job'.buf = buf /\ job'.start = Node(fd).offset
      /\ job'.wanted = Node(fd).offset + count /\ job'.new_blocks = 0 /\ job'.before = before
      /\ job'.pc = IF Node(fd).first_data_block = FAT_EOC THEN "add" ELSE "plan"
  BY <1>3 DEF StartWrite, Idle
<1>5. /\ before.argument = count /\ before.root = root /\ before.fat = fat
      /\ before.data = data /\ before.fd_table = fd_table
  BY <1>3 DEF Before
<1>6. PICK w : w = [fat |-> fat, data |-> data, root |-> root, node |-> Node(fd)]
  OBVIOUS
<1>7. Found' = w /\ Wanted' = Node(fd).offset + count /\ JobNode' = Node(fd)
  BY <1>2, <1>4, <1>5, <1>6 DEF Found, Wanted, JobNode, Node
<1>8. /\ w \in WState /\ w.node.in_use /\ fd_table \in TableType
      /\ w.node = Node(fd) /\ w.fat = fat /\ w.data = data /\ w.root = root
      /\ WellLinked(w.fat)
  BY <1>1, <1>6, NodeFacts DEF TableInv, TypeOK, WState, AtIdle, Sound
<1>9. fd_table' = [before.fd_table EXCEPT !.nodes[fd] = JobNode']
  BY <1>1, <1>2, <1>5, <1>7, <1>8 DEF Node, TableType
<1>10. WriteCall'
  BY <1>1, <1>2, <1>4, <1>5, <1>7, <1>8, <1>9 DEF WriteCall
<1>11. Ready'
  BY <1>4, <1>7 DEF Ready
<1>12. Shows(w)'
  <2>1. fat' = w.fat /\ data' = w.data /\ root' = w.root /\ JobNode' = w.node
    BY <1>2, <1>7, <1>8
  <2>2. QED
    BY <2>1 DEF Shows
<1>13. CASE Node(fd).first_data_block = FAT_EOC
  BY <1>2, <1>4, <1>7, <1>8, <1>10, <1>11, <1>13 DEF OnAdd, Running, JobFirst, Shows
<1>14. CASE Node(fd).first_data_block # FAT_EOC
  BY <1>2, <1>4, <1>7, <1>8, <1>10, <1>11, <1>14 DEF OnPlan, Running, Placed, Shows
<1>15. QED
  BY <1>13, <1>14

LEMMA AddClearFollows ==
  ASSUME TableInv, job \in JobType, WriteCall, OnAdd, AddClear
  PROVE  WriteCall' /\ OnIndex'
<1>1. PICK b, fd : b = first_block_available(fat) /\ fd = job.fd
  OBVIOUS
<1>2. PICK w, node : w = Placed(Found) /\ node = [JobNode EXCEPT !.first_data_block = b]
  OBVIOUS
<1>3. /\ fat = Found.fat /\ data = Found.data /\ root = Found.root /\ JobNode = Found.node
      /\ Found.node.first_data_block = FAT_EOC /\ job.wanted = Wanted /\ job.new_blocks = 0
  BY DEF OnAdd, Shows, Ready, JobFirst
<1>4. w.data = clear_block(data, b) /\ w.node = node
  BY <1>1, <1>2, <1>3, PlacedFields
<1>5. /\ fd_table' = [fd_table EXCEPT !.nodes[fd] = node]
      /\ data' = clear_block(data, b)
      /\ UNCHANGED <<disk_mounted, root, fat>>
      /\ job' = [job EXCEPT !.pc = "index"]
  <2>1. fd_table.nodes[fd] = JobNode
    BY <1>1 DEF JobNode, Node
  <2>2. fd_table' = [fd_table EXCEPT !.nodes[fd].first_data_block = b]
    BY <1>1 DEF AddClear
  <2>3. QED
    BY <1>1, <1>2, <2>1, <2>2 DEF AddClear, Goto
<1>6. /\ SameCall /\ job'.pc = "index" /\ job'.wanted = job.wanted
      /\ job'.new_blocks = job.new_blocks
  BY <1>5 DEF SameCall, JobType
<1>7. WriteCall' /\ Found' = Found /\ Wanted' = Wanted /\ JobNode' = node
  BY <1>1, <1>5, <1>6, WriteCallKept
<1>8. QED
  BY <1>2, <1>3, <1>4, <1>5, <1>6, <1>7 DEF OnIndex, Running, Ready

LEMMA AddIndexFollows ==
  ASSUME job \in JobType, WriteCall, OnIndex, AddIndex
  PROVE  WriteCall' /\ OnClaim'
<1>1. PICK b, w : b = first_block_available(fat) /\ w = Placed(Found)
  OBVIOUS
<1>2. /\ fat = Found.fat /\ root = Found.root /\ data = w.data /\ JobNode = w.node
      /\ Found.node.first_data_block = FAT_EOC /\ job.wanted = Wanted /\ job.new_blocks = 0
  BY <1>1 DEF OnIndex, Ready
<1>3. /\ w.root = [root EXCEPT ![Found.node.dir_entry_index].index = b]
      /\ w.node = [Found.node EXCEPT !.first_data_block = b]
  BY <1>1, <1>2, PlacedFields
<1>4. JobNode.dir_entry_index = Found.node.dir_entry_index /\ JobNode.first_data_block = b
  BY <1>2, <1>3 DEF WriteCall, WState, NodeType
<1>5. root' = w.root /\ UNCHANGED <<disk_mounted, fd_table, fat, data>> /\ job' = [job EXCEPT !.pc = "claim"]
  BY <1>3, <1>4 DEF AddIndex, Goto
<1>6. /\ SameCall /\ job'.pc = "claim" /\ job'.wanted = job.wanted
      /\ job'.new_blocks = job.new_blocks
  BY <1>5 DEF SameCall, JobType
<1>7. WriteCall' /\ Found' = Found /\ Wanted' = Wanted /\ JobNode' = JobNode
  BY <1>5, <1>6, WriteCallQuiet
<1>8. QED
  BY <1>1, <1>2, <1>5, <1>6, <1>7 DEF OnClaim, Running, Ready

LEMMA AddClaimFollows ==
  ASSUME job \in JobType, WriteCall, OnClaim, AddClaim
  PROVE  WriteCall' /\ OnPlan'
<1>1. PICK b, w : b = first_block_available(fat) /\ w = Placed(Found)
  OBVIOUS
<1>2. /\ fat = Found.fat /\ root = w.root /\ data = w.data /\ JobNode = w.node
      /\ Found.node.first_data_block = FAT_EOC /\ job.wanted = Wanted /\ job.new_blocks = 0
  BY <1>1 DEF OnClaim, Ready
<1>3. w.fat = set_fat_entry(fat, b, FAT_EOC) /\ w.node = [Found.node EXCEPT !.first_data_block = b]
  BY <1>1, <1>2, PlacedFields
<1>4. JobNode.first_data_block = b
  BY <1>2, <1>3 DEF WriteCall, WState, NodeType
<1>5. fat' = w.fat /\ UNCHANGED <<disk_mounted, fd_table, root, data>> /\ job' = [job EXCEPT !.pc = "plan"]
  BY <1>3, <1>4 DEF AddClaim, Goto
<1>6. /\ SameCall /\ job'.pc = "plan" /\ job'.wanted = job.wanted
      /\ job'.new_blocks = job.new_blocks
  BY <1>5 DEF SameCall, JobType
<1>7. WriteCall' /\ Found' = Found /\ Wanted' = Wanted /\ JobNode' = JobNode
  BY <1>5, <1>6, WriteCallQuiet
<1>8. QED
  BY <1>1, <1>2, <1>5, <1>6, <1>7 DEF OnPlan, Running, Ready, Shows

-----------------------------------------------------------------------------
(* The blocks fs_write allocates.                                          *)

\* More is wanted than the blocks hold: at least one more is needed.
LEMMA NeededType ==
  ASSUME WriteCall, NEW w, w = Placed(Found), NEW needed, needed = NeededBlocks(w, Wanted)
  PROVE  needed \in Nat /\ (needed > 0 <=> Wanted > TotalBytes(w))
<1>1. TotalBytes(w) \in Nat /\ Wanted \in Nat
  BY PlacedType
<1>2. CASE Wanted > TotalBytes(w)
  <2>1. PICK n : n = Wanted - TotalBytes(w)
    OBVIOUS
  <2>2. n \in Nat \ {0} /\ needed = total_block_size(n)
    BY <1>1, <1>2, <2>1 DEF NeededBlocks
  <2>3. Fits(n, needed) /\ needed \in Nat
    BY <2>2, FitsBlockSize, BlockCountType
  <2>4. needed # 0
    BY <2>2, <2>3, Sizes DEF Fits
  <2>5. QED
    BY <1>2, <2>3, <2>4
<1>3. CASE ~(Wanted > TotalBytes(w))
  BY <1>1, <1>3 DEF NeededBlocks
<1>4. QED
  BY <1>2, <1>3

LEMMA PlanWriteFollows ==
  ASSUME TableInv, job \in JobType, AtPlan, WriteCall, OnPlan, PlanWrite
  PROVE  WriteCall' /\ OnExtend'
<1>1. PICK w : w = Placed(Found)
  OBVIOUS
<1>2. /\ fat = w.fat /\ data = w.data /\ root = w.root /\ JobNode = w.node
      /\ job.wanted = Wanted /\ job.new_blocks = 0 /\ w.node.first_data_block = JobFirst
  BY <1>1 DEF OnPlan, Shows, Ready, JobFirst
<1>3. /\ fat \in FatType /\ data \in DataType /\ JobFirst \in Blocks /\ WellLinked(fat)
  BY ChainFacts DEF AtPlan, TableInv, TypeOK
<1>4. PICK total, needed, last :
        /\ total = total_file_blocks(fat, JobFirst) /\ needed = NeededBlocks(w, Wanted)
        /\ last = skip_blocks(fat, JobFirst, total - 1)
  OBVIOUS
<1>5. total \in Nat \ {0} /\ last \in Blocks
  <2>1. total \in Nat \ {0} /\ total - 1 \in Nat
    BY <1>3, <1>4, TotalType
  <2>2. QED
    BY <1>3, <1>4, <2>1, SkipStep
<1>6. needed \in Nat /\ TotalBytes(w) = total * BlockSize
  BY <1>1, <1>2, <1>4, NeededType DEF TotalBytes
<1>7. PICK at_end : at_end = (Wanted > TotalBytes(w) /\ w.node.offset = TotalBytes(w))
  OBVIOUS
<1>8. /\ job' = [job EXCEPT !.pc = "extend", !.needed_blocks = needed, !.at_end = at_end,
                            !.end_block = last]
      /\ UNCHANGED <<disk_mounted, fd_table, root, fat, data>>
  <2>1. needed = IF job.wanted > total * BlockSize
                 THEN total_block_size(job.wanted - total * BlockSize) ELSE 0
    BY <1>2, <1>4, <1>6 DEF NeededBlocks
  <2>2. at_end = (job.wanted > total * BlockSize /\ JobNode.offset = total * BlockSize)
    BY <1>2, <1>6, <1>7
  <2>3. UNCHANGED vars
    BY DEF PlanWrite
  <2>4. QED
    BY <1>4, <2>1, <2>2, <2>3 DEF PlanWrite, JobFirst, vars
<1>9. /\ SameCall /\ job'.pc = "extend" /\ job'.wanted = job.wanted
      /\ job'.new_blocks = job.new_blocks /\ job'.needed_blocks = needed
      /\ job'.at_end = at_end /\ job'.end_block = last
  BY <1>8 DEF SameCall, JobType
<1>10. WriteCall' /\ Found' = Found /\ Wanted' = Wanted /\ JobNode' = JobNode
  BY <1>8, <1>9, WriteCallQuiet
<1>11. PICK s : s = AllocStart(w)
  OBVIOUS
<1>12. /\ s = Allocated(w, 0) /\ s \in AllocState /\ s.end_block = last /\ s.new_blocks = 0
       /\ s.fat = fat /\ s.data = data
  <2>1. s = [fat |-> fat, data |-> data, end_block |-> last, new_blocks |-> 0]
    BY <1>2, <1>4, <1>11 DEF AllocStart
  <2>2. s = Allocated(w, 0)
    BY <1>11, IterateDef DEF Allocated
  <2>3. QED
    BY <1>3, <1>5, <2>1, <2>2 DEF AllocState
<1>13. InTurn(s)'
  <2>1. 0 \in Nat /\ 0 + job'.needed_blocks = NeededBlocks(w, Wanted)
    BY <1>4, <1>6, <1>9
  <2>2. \E k \in Nat : k + job'.needed_blocks = NeededBlocks(w, Wanted) /\ s = Allocated(w, k)
    BY <1>12, <2>1
  <2>3. (job'.at_end <=> Wanted > TotalBytes(w) /\ w.node.offset = TotalBytes(w))
    BY <1>7, <1>9
  <2>4. s.end_block = job'.end_block /\ s.new_blocks = job'.new_blocks
        /\ job'.wanted = Wanted /\ root' = w.root /\ JobNode' = w.node
    BY <1>2, <1>8, <1>9, <1>10, <1>12
  <2>5. QED
    BY <1>1, <1>10, <1>12, <2>2, <2>3, <2>4 DEF InTurn
<1>14. QED
  BY <1>8, <1>9, <1>10, <1>12, <1>13 DEF OnExtend, Running

\* A step inside a turn of the loop.
LEMMA TurnKept ==
  ASSUME NEW s, InTurn(s), WriteCall, SameCall, UNCHANGED <<disk_mounted, fd_table, root>>,
         job'.needed_blocks = job.needed_blocks, job'.end_block = job.end_block,
         job'.new_blocks = job.new_blocks, job'.wanted = job.wanted, job'.at_end = job.at_end
  PROVE  WriteCall' /\ InTurn(s)'
<1>1. WriteCall' /\ Found' = Found /\ Wanted' = Wanted /\ JobNode' = JobNode
  BY WriteCallQuiet
<1>2. QED
  BY <1>1 DEF InTurn

LEMMA AllocClearFollows ==
  ASSUME job \in JobType, WriteCall, OnExtend, AllocClear
  PROVE  WriteCall' /\ OnLink'
<1>1. PICK s : InTurn(s) /\ fat = s.fat /\ data = s.data
  BY DEF OnExtend
<1>2. PICK b : b = first_block_available(fat)
  OBVIOUS
<1>3. /\ data' = clear_block(data, b) /\ UNCHANGED <<disk_mounted, fd_table, root, fat>>
      /\ job' = [job EXCEPT !.pc = "link", !.available_block = b] /\ ~DiskFull(fat)
  BY <1>2 DEF AllocClear
<1>4. /\ SameCall /\ job'.pc = "link" /\ job'.available_block = b
      /\ job'.needed_blocks = job.needed_blocks /\ job'.end_block = job.end_block
      /\ job'.new_blocks = job.new_blocks /\ job'.wanted = job.wanted /\ job'.at_end = job.at_end
  BY <1>3 DEF SameCall, JobType
<1>5. WriteCall' /\ InTurn(s)'
  BY <1>1, <1>3, <1>4, TurnKept
<1>6. Taken(s)'
  BY <1>1, <1>2, <1>3, <1>4 DEF Taken
<1>7. QED
  BY <1>1, <1>3, <1>4, <1>5, <1>6 DEF OnLink, Running

LEMMA AllocLinkFollows ==
  ASSUME job \in JobType, WriteCall, OnLink, AllocLink
  PROVE  WriteCall' /\ OnMark'
<1>1. PICK s : /\ InTurn(s) /\ Taken(s) /\ fat = s.fat
               /\ data = clear_block(s.data, job.available_block)
  BY DEF OnLink
<1>2. PICK b : b = job.available_block
  OBVIOUS
<1>3. /\ fat' = set_fat_entry(s.fat, s.end_block, b)
      /\ UNCHANGED <<disk_mounted, fd_table, root, data>>
      /\ job' = [job EXCEPT !.pc = "mark"]
  BY <1>1, <1>2 DEF AllocLink, Goto, InTurn
<1>4. /\ SameCall /\ job'.pc = "mark" /\ job'.available_block = b
      /\ job'.needed_blocks = job.needed_blocks /\ job'.end_block = job.end_block
      /\ job'.new_blocks = job.new_blocks /\ job'.wanted = job.wanted /\ job'.at_end = job.at_end
  BY <1>2, <1>3 DEF SameCall, JobType
<1>5. WriteCall' /\ InTurn(s)'
  BY <1>1, <1>3, <1>4, TurnKept
<1>6. Taken(s)'
  BY <1>1, <1>2, <1>4 DEF Taken
<1>7. QED
  BY <1>1, <1>2, <1>3, <1>4, <1>5, <1>6 DEF OnMark, Running

\* The turn is over.
LEMMA AllocMarkFollows ==
  ASSUME job \in JobType, job.needed_blocks # 0, WriteCall, OnMark, AllocMark
  PROVE  WriteCall' /\ OnExtend'
<1>1. PICK s : /\ InTurn(s) /\ Taken(s)
               /\ fat = set_fat_entry(s.fat, s.end_block, job.available_block)
               /\ data = clear_block(s.data, job.available_block)
  BY DEF OnMark
<1>2. PICK b, w, needed : b = job.available_block /\ w = Placed(Found) /\ needed = job.needed_blocks
  OBVIOUS
<1>3. needed \in Nat \ {0} /\ job.new_blocks \in Nat
  BY <1>2 DEF JobType
<1>4. /\ fat' = set_fat_entry(fat, b, FAT_EOC)
      /\ UNCHANGED <<disk_mounted, fd_table, root, data>>
      /\ job' = [job EXCEPT !.pc = "extend", !.end_block = b, !.needed_blocks = needed - 1,
                            !.new_blocks = job.new_blocks + 1]
  BY <1>2 DEF AllocMark
<1>5. /\ SameCall /\ job'.pc = "extend" /\ job'.needed_blocks = needed - 1
      /\ job'.end_block = b /\ job'.new_blocks = job.new_blocks + 1
      /\ job'.wanted = job.wanted /\ job'.at_end = job.at_end
  BY <1>4 DEF SameCall, JobType
<1>6. WriteCall' /\ Found' = Found /\ Wanted' = Wanted /\ JobNode' = JobNode
  BY <1>4, <1>5, WriteCallQuiet
<1>7. PICK k \in Nat : k + needed = NeededBlocks(w, Wanted) /\ s = Allocated(w, k)
  BY <1>1, <1>2 DEF InTurn
<1>8. /\ s \in AllocState /\ s.new_blocks = job.new_blocks
      /\ ~DiskFull(s.fat) /\ b = first_block_available(s.fat)
  BY <1>1, <1>2 DEF InTurn, Taken
<1>9. PICK t : t = AllocateOne[s]
  OBVIOUS
<1>10. t \in AllocState
  BY <1>8, <1>9, AllocateOneTakes
<1>11. t.fat = fat' /\ t.data = data' /\ t.end_block = b /\ t.new_blocks = job.new_blocks + 1
  <2>1. t = [fat |-> set_fat_entry(set_fat_entry(s.fat, s.end_block, b), b, FAT_EOC),
             data |-> clear_block(s.data, b), end_block |-> b, new_blocks |-> s.new_blocks + 1]
    BY <1>8, <1>9 DEF AllocateOne
  <2>2. QED
    BY <1>1, <1>2, <1>4, <1>8, <2>1
<1>12. InTurn(t)'
  <2>1. t = Allocated(w, k + 1)
    BY <1>7, <1>9, IterateDef DEF Allocated
  <2>2. k + 1 \in Nat /\ (k + 1) + (needed - 1) = NeededBlocks(w, Wanted)
    BY <1>3, <1>7
  <2>3. \E m \in Nat : m + job'.needed_blocks = NeededBlocks(w, Wanted) /\ t = Allocated(w, m)
    BY <1>5, <2>1, <2>2
  <2>4. /\ job.wanted = Wanted /\ root = w.root /\ JobNode = w.node
        /\ job.at_end <=> Wanted > TotalBytes(w) /\ w.node.offset = TotalBytes(w)
    BY <1>1, <1>2 DEF InTurn
  <2>5. t.end_block = job'.end_block /\ t.new_blocks = job'.new_blocks
        /\ job'.wanted = Wanted /\ root' = w.root /\ JobNode' = w.node
    BY <1>4, <1>5, <1>6, <1>11, <2>4
  <2>6. QED
    BY <1>2, <1>5, <1>6, <1>10, <2>3, <2>4, <2>5 DEF InTurn
<1>13. QED
  BY <1>5, <1>6, <1>11, <1>12 DEF OnExtend, Running

\* The loop has come to its end: what it left is what Extended says.
LEMMA ExtendDone ==
  ASSUME WriteCall, NEW s, InTurn(s), job \in JobType,
         job.needed_blocks = 0 \/ DiskFull(s.fat), NEW w, w = Placed(Found)
  PROVE  Extended(w, Wanted)
           = [w |-> [fat |-> s.fat, data |-> s.data, root |-> w.root, node |-> w.node],
              at_end |-> job.at_end /\ job.new_blocks = 0]
<1>1. PICK needed : needed = NeededBlocks(w, Wanted)
  OBVIOUS
<1>2. needed \in Nat /\ (needed > 0 <=> Wanted > TotalBytes(w)) /\ w \in WState
  BY <1>1, NeededType, PlacedType
<1>3. PICK k \in Nat : k + job.needed_blocks = needed /\ s = Allocated(w, k)
  BY <1>1 DEF InTurn
<1>4. job.needed_blocks \in Nat /\ k <= needed
  BY <1>2, <1>3 DEF JobType
<1>5. Allocated(w, needed) = s
  <2>1. CASE job.needed_blocks = 0
    BY <1>3, <2>1
  <2>2. CASE DiskFull(s.fat)
    <3>1. AllocateOne[s] = s
      BY <2>2 DEF AllocateOne, InTurn
    <3>2. QED
      BY <1>2, <1>3, <1>4, <3>1, IterateStays DEF Allocated
  <2>3. QED
    BY <2>1, <2>2
<1>6. allocate_more_blocks(w.fat, w.data, w.node.first_data_block, needed) = s
  BY <1>5 DEF allocate_more_blocks, Allocated, AllocStart
<1>7. Extended(w, Wanted)
        = [w |-> [w EXCEPT !.fat = s.fat, !.data = s.data],
           at_end |-> needed > 0 /\ s.new_blocks = 0 /\ w.node.offset = TotalBytes(w)]
  BY <1>1, <1>6 DEF Extended, NeededBlocks, TotalBytes
<1>8. [w EXCEPT !.fat = s.fat, !.data = s.data]
        = [fat |-> s.fat, data |-> s.data, root |-> w.root, node |-> w.node]
  <2>1. PICK v : v = [w EXCEPT !.fat = s.fat, !.data = s.data]
    OBVIOUS
  <2>2. v = [fat |-> s.fat, data |-> s.data, root |-> w.root, node |-> w.node]
    BY <1>2, <2>1 DEF WState
  <2>3. QED
    BY <2>1, <2>2
<1>9. (needed > 0 /\ s.new_blocks = 0 /\ w.node.offset = TotalBytes(w))
        = (job.at_end /\ job.new_blocks = 0)
  BY <1>2 DEF InTurn, JobType
<1>10. QED
  BY <1>7, <1>8, <1>9

-----------------------------------------------------------------------------
(* The bytes fs_write moves, and what it returns.                          *)

\* The call returns what FileSystem says it does.
LEMMA WriteReturns ==
  ASSUME WriteCall, job # Idle, job' = Idle, UNCHANGED disk_mounted,
         NEW o, o = WriteOutcome(Found, Bytes(Found.node.filename, Found.node.offset, job.buf),
                                 job.before.argument),
         fd_table' = [job.before.fd_table EXCEPT !.nodes[job.fd] = o.w.node],
         fat' = o.w.fat, data' = o.w.data, root' = o.w.root, Return(o.code)
  PROVE  AtomicCall
<1>1. PICK table, fd, buf, count : /\ table = job.before.fd_table /\ fd = job.fd
                                   /\ buf = job.buf /\ count = job.before.argument
  OBVIOUS
<1>2. /\ job.call = "write" /\ disk_mounted /\ fd \in Fds /\ buf # Null /\ count # 0
      /\ table.nodes[fd].in_use
  BY <1>1, ClientAssumption DEF WriteCall, Found
<1>3. Atomic!isUsable(fd) /\ Atomic!Node(fd) = Found.node
  BY <1>1, <1>2 DEF Atomic!isUsable, Atomic!Fds, Fds, Atomic!isOpenByFd, Atomic!Node, Found
<1>4. Found = [fat |-> IF job = Idle THEN fat ELSE job.before.fat,
               data |-> IF job = Idle THEN data ELSE job.before.data,
               root |-> IF job = Idle THEN root ELSE job.before.root, node |-> Atomic!Node(fd)]
  BY <1>3 DEF Found
<1>5. o = Atomic!WriteOutcome(Found, Atomic!Bytes(Found.node.filename, Found.node.offset, buf), count)
  <2>1. PICK bytes : bytes = Bytes(Found.node.filename, Found.node.offset, buf)
    OBVIOUS
  <2>2. bytes = Atomic!Bytes(Found.node.filename, Found.node.offset, buf)
    BY <2>1 DEF Atomic!Bytes, Bytes
  <2>3. o = WriteOutcome(Found, bytes, count)
    BY <1>1, <2>1
  <2>4. o = Atomic!WriteOutcome(Found, bytes, count)
    BY <2>3, SameWrite
  <2>5. QED
    BY <2>2, <2>4
<1>6. Atomic!Return(o.code)
  BY SameReturn
<1>7. Atomic!fs_write(fd, buf, count)
  <2>1. Found.node = Atomic!Node(fd)
    BY <1>3
  <2>2. PICK u, name, offset : u = Found /\ name = Found.node.filename /\ offset = Found.node.offset
    OBVIOUS
  <2>3. /\ o = Atomic!WriteOutcome(u, Atomic!Bytes(Atomic!Node(fd).filename,
                                                   Atomic!Node(fd).offset, buf), count)
        /\ u = [fat |-> IF job = Idle THEN fat ELSE job.before.fat,
                data |-> IF job = Idle THEN data ELSE job.before.data,
                root |-> IF job = Idle THEN root ELSE job.before.root, node |-> Atomic!Node(fd)]
    BY <1>4, <1>5, <2>1, <2>2
  <2>4. QED
    BY <1>1, <1>2, <1>3, <1>6, <2>3 DEF Atomic!fs_write
<1>8. QED
  BY <1>1, <1>2, <1>7 DEF AtomicCall

\* What could be allocated has been: the call is over, or turns to the bytes.
LEMMA AllocDoneFollows ==
  ASSUME job \in JobType, WriteCall, OnExtend, AllocDone
  PROVE  IF job' = Idle THEN AtomicCall ELSE WriteCall' /\ OnTransfer'
<1>1. PICK s : InTurn(s) /\ fat = s.fat /\ data = s.data
  BY DEF OnExtend
<1>2. PICK w, x : w = Placed(Found) /\ x = Extended(w, Wanted)
  OBVIOUS
<1>3. x = [w |-> [fat |-> fat, data |-> data, root |-> w.root, node |-> w.node],
           at_end |-> job.at_end /\ job.new_blocks = 0]
  BY <1>1, <1>2, ExtendDone DEF AllocDone
<1>4. /\ x.w.fat = fat /\ x.w.data = data /\ x.w.root = root /\ x.w.node = JobNode
      /\ x.at_end = (job.at_end /\ job.new_blocks = 0)
      /\ w.node = JobNode /\ job.wanted = Wanted /\ data \in DataType
  BY <1>1, <1>2, <1>3 DEF InTurn, AllocState
<1>5. /\ JobNode \in NodeType /\ JobNode.offset = Found.node.offset
      /\ JobNode.filename = Found.node.filename
  BY <1>2, <1>4, PlacedType
<1>6. UNCHANGED <<disk_mounted, fd_table, root, fat, data>> /\ Running("extend")
  BY DEF AllocDone, volume
<1>7. job # Idle
  BY <1>6 DEF Running, Idle
<1>8. CASE job.at_end /\ job.new_blocks = 0
  <2>1. job' = Idle /\ Return(0)
    BY <1>8 DEF AllocDone, Finish
  <2>2. PICK o : o = WriteOutcome(Found, Bytes(Found.node.filename, Found.node.offset, job.buf),
                                  job.before.argument)
    OBVIOUS
  <2>3. o = [w |-> x.w, code |-> 0]
    <3>1. ~(Found.node.first_data_block = FAT_EOC /\ DiskFull(Found.fat))
      BY DEF WriteCall
    <3>2. w = IF Found.node.first_data_block = FAT_EOC THEN add_file_to_disk(Found) ELSE Found
      BY <1>2 DEF Placed
    <3>3. Wanted = w.node.offset + job.before.argument
      BY <1>4, <1>5 DEF Wanted
    <3>4. x.at_end
      BY <1>4, <1>8
    <3>5. QED
      BY <1>2, <2>2, <3>1, <3>2, <3>3, <3>4, OutcomeOf
  <2>4. fd_table' = [job.before.fd_table EXCEPT !.nodes[job.fd] = o.w.node]
    BY <1>4, <1>6, <2>3 DEF WriteCall
  <2>5. fat' = o.w.fat /\ data' = o.w.data /\ root' = o.w.root /\ Return(o.code)
    BY <1>4, <1>6, <2>1, <2>3
  <2>6. AtomicCall
    BY <1>6, <1>7, <2>1, <2>2, <2>4, <2>5, WriteReturns
  <2>7. QED
    BY <2>1, <2>6
<1>9. CASE ~(job.at_end /\ job.new_blocks = 0)
  <2>1. PICK room, block :
          /\ room = TotalBytes(x.w)
          /\ block = skip_blocks(fat, JobFirst, current_block_offset(JobNode.offset))
    OBVIOUS
  <2>2. room = total_file_blocks(fat, JobFirst) * BlockSize
    BY <1>4, <2>1 DEF TotalBytes, JobFirst
  <2>3. PICK wanted : wanted = EndOffset(x.w, Wanted)
    OBVIOUS
  <2>4. wanted = IF job.wanted > room THEN room ELSE job.wanted
    BY <1>4, <2>1, <2>3 DEF EndOffset
  <2>5. job' = [job EXCEPT !.pc = "transfer", !.wanted = wanted, !.write_block = block]
    BY <1>9, <2>1, <2>2, <2>4 DEF AllocDone, JobFirst
  <2>6. SameCall /\ job'.pc = "transfer" /\ job'.wanted = wanted /\ job'.write_block = block
    BY <2>5 DEF SameCall, JobType
  <2>7. WriteCall' /\ Found' = Found /\ Wanted' = Wanted /\ JobNode' = JobNode
    BY <1>6, <2>6, WriteCallQuiet
  <2>8. ~x.at_end
    BY <1>4, <1>9
  <2>9. JobNode = [x.w.node EXCEPT !.offset = JobNode.offset, !.size = JobNode.size]
    BY <1>4, <1>5 DEF NodeType
  <2>10. Moved(x.w, wanted, Bytes(Found.node.filename, Found.node.offset, job.buf), 0)
           = [offset |-> JobNode.offset, size |-> JobNode.size, block |-> block, data |-> data]
    <3>1. MoveStart(x.w)
            = [offset |-> JobNode.offset, size |-> JobNode.size, block |-> block, data |-> data]
      BY <1>4, <2>1 DEF MoveStart, JobFirst
    <3>2. QED
      BY <3>1, IterateDef DEF Moved
  <2>11. job' # Idle
    BY <2>6 DEF Idle
  <2>12. OnTransfer'
    <3>1. PICK bytes : bytes = Bytes(Found.node.filename, Found.node.offset, job.buf)
      OBVIOUS
    <3>2. /\ bytes = Bytes(Found'.node.filename, Found'.node.offset, job'.buf)
          /\ x = Extended(Placed(Found'), Wanted')
          /\ x.w.node = Placed(Found').node
      BY <1>2, <1>4, <2>6, <2>7, <3>1 DEF SameCall
    <3>3. \E k \in Nat : Moved(x.w, job'.wanted, bytes, k)
                           = [offset |-> JobNode'.offset, size |-> JobNode'.size,
                              block |-> job'.write_block, data |-> data']
      BY <1>6, <2>6, <2>7, <2>10, <3>1
    <3>4. /\ x.w.data \in DataType /\ job'.wanted = EndOffset(x.w, Wanted')
          /\ fat' = x.w.fat /\ root' = x.w.root /\ job'.pc = "transfer"
          /\ JobNode' = [x.w.node EXCEPT !.offset = JobNode'.offset, !.size = JobNode'.size]
      BY <1>4, <1>6, <2>3, <2>6, <2>7, <2>9
    <3>5. QED
      BY <2>8, <3>1, <3>2, <3>3, <3>4 DEF OnTransfer, Running
  <2>13. QED
    BY <2>7, <2>11, <2>12
<1>10. QED
  BY <1>8, <1>9

\* The write loop keeps to the data region, and comes to end_offset in that many turns.
LEMMA MoveLoop ==
  ASSUME NEW w, w.fat \in FatType, w.data \in DataType, w.node \in NodeType,
         w.node.first_data_block \in Blocks, NEW end_offset \in Nat, NEW buf \in [Nat -> Byte],
         NEW n \in Nat
  PROVE  /\ Moved(w, end_offset, buf, n) \in WriteState
         /\ Moved(w, end_offset, buf, n).offset >= end_offset
              \/ Moved(w, end_offset, buf, n).offset >= n
<1>1. PICK table, start, f, s0 :
        /\ table = w.fat /\ start = w.node.offset
        /\ f = WriteTurn(table, end_offset, buf, start) /\ s0 = MoveStart(w)
  OBVIOUS
<1>2. table \in FatType /\ start \in Nat /\ w.node.size \in Nat
  BY <1>1 DEF NodeType
<1> DEFINE x(k) == Iterate(f, s0)[k]
           S == {k \in Nat : /\ x(k) \in WriteState /\ x(k).offset >= start
                             /\ x(k).offset >= end_offset \/ x(k).offset >= k}
<1>3. x(0) = s0 /\ \A k \in Nat : x(k + 1) = f[x(k)]
  BY IterateDef
<1>4. \A k \in Nat : Moved(w, end_offset, buf, k) = x(k)
  BY <1>1 DEF Moved
<1> HIDE DEF x
<1>5. 0 \in S
  <2>1. PICK block : block = skip_blocks(table, w.node.first_data_block, current_block_offset(start))
    OBVIOUS
  <2>2. block \in Blocks
    BY <1>2, <2>1, SkipStep, BlockCountType
  <2>3. s0 = [offset |-> start, size |-> w.node.size, block |-> block, data |-> w.data]
    BY <1>1, <2>1 DEF MoveStart
  <2>4. QED
    BY <1>2, <1>3, <2>2, <2>3 DEF WriteState
<1>6. ASSUME NEW k \in S
      PROVE  k + 1 \in S
  <2>1. PICK s, t : s = x(k) /\ t = x(k + 1)
    OBVIOUS
  <2>2. /\ s \in WriteState /\ s.offset >= start /\ k \in Nat /\ t = f[s]
        /\ s.offset >= end_offset \/ s.offset >= k
    BY <1>3, <2>1
  <2>3. t \in WriteState /\ t.offset >= start
    BY <1>1, <1>2, <2>2, WriteTurnType
  <2>4. t.offset >= end_offset \/ t.offset >= k + 1
    <3>1. CASE s.offset >= end_offset
      BY <1>1, <2>2, <3>1 DEF WriteTurn
    <3>2. CASE ~(s.offset >= end_offset)
      <4>1. s.offset \in Nat /\ t.offset = s.offset + TurnLength(s.offset, end_offset)
        BY <1>1, <2>2, <3>2 DEF WriteTurn, WriteState
      <4>2. TurnLength(s.offset, end_offset) \in Nat \ {0}
        BY <3>2, <4>1, TurnFits
      <4>3. QED
        BY <2>2, <3>2, <4>1, <4>2
    <3>3. QED
      BY <3>1, <3>2
  <2>5. QED
    BY <2>1, <2>2, <2>3, <2>4
<1>7. S = Nat
  BY <1>5, <1>6, NatSetInduction
<1>8. QED
  BY <1>4, <1>7

\* What the write loop of this call works on.
LEMMA MoverFacts ==
  ASSUME TableInv, job \in JobType, AtTransfer, WriteCall, OnTransfer,
         NEW x, x = Extended(Placed(Found), Wanted),
         NEW bytes, bytes = Bytes(Found.node.filename, Found.node.offset, job.buf)
  PROVE  /\ x.w.fat \in FatType /\ x.w.data \in DataType /\ x.w.node \in NodeType
         /\ x.w.node.first_data_block \in Blocks /\ job.wanted \in Nat
         /\ bytes \in [Nat -> Byte]
         /\ x.w.node.offset = Found.node.offset /\ x.w.node.filename = Found.node.filename
         /\ JobNode.filename = Found.node.filename /\ job.start = x.w.node.offset
         /\ JobNode \in NodeType /\ JobEntry = x.w.node.dir_entry_index
<1>1. Writer /\ fat \in FatType
  BY DEF AtTransfer, HasChain, TableInv, TypeOK
<1>2. x.w.node = Placed(Found).node /\ fat = x.w.fat /\ x.w.data \in DataType
  BY DEF OnTransfer
<1>3. /\ x.w.node \in NodeType /\ x.w.node.first_data_block \in Blocks
      /\ x.w.node.offset = Found.node.offset /\ x.w.node.filename = Found.node.filename
      /\ x.w.node.offset \in Nat
  BY <1>2, PlacedType
<1>4. JobNode = [x.w.node EXCEPT !.offset = JobNode.offset, !.size = JobNode.size]
  BY DEF OnTransfer
<1>5. JobNode.filename = Found.node.filename /\ JobEntry = x.w.node.dir_entry_index
  BY <1>3, <1>4 DEF NodeType, JobEntry
<1>6. JobNode \in NodeType /\ JobNode.filename \in Names
  BY <1>1, WriterFacts
<1>7. bytes \in [Nat -> Byte]
  <2>1. PICK name, offset, v : name = Found.node.filename /\ offset = Found.node.offset /\ v = job.buf
    OBVIOUS
  <2>2. name \in Names /\ offset \in Nat /\ v \in Versions
    BY <1>3, <1>5, <1>6, <2>1 DEF WriteCall
  <2>3. QED
    BY <2>1, <2>2 DEF Bytes, Byte
<1>8. QED
  BY <1>1, <1>2, <1>3, <1>5, <1>6, <1>7 DEF WriteCall, JobType

\* One more turn of the write loop.
LEMMA TransferBlockFollows ==
  ASSUME TableInv, job \in JobType, AtTransfer, WriteCall, OnTransfer, TransferBlock
  PROVE  WriteCall' /\ OnTransfer'
<1>1. PICK fd, x, bytes : /\ fd = job.fd /\ x = Extended(Placed(Found), Wanted)
                          /\ bytes = Bytes(Found.node.filename, Found.node.offset, job.buf)
  OBVIOUS
<1>2. /\ ~x.at_end /\ x.w.data \in DataType /\ x.w.node = Placed(Found).node
      /\ job.wanted = EndOffset(x.w, Wanted) /\ fat = x.w.fat /\ root = x.w.root
      /\ JobNode = [x.w.node EXCEPT !.offset = JobNode.offset, !.size = JobNode.size]
  BY <1>1 DEF OnTransfer
<1>3. PICK r : r = [offset |-> JobNode.offset, size |-> JobNode.size,
                    block |-> job.write_block, data |-> data]
  OBVIOUS
<1>4. PICK k \in Nat : Moved(x.w, job.wanted, bytes, k) = r
  BY <1>1, <1>3 DEF OnTransfer
<1>5. /\ x.w.node \in NodeType /\ x.w.node.offset = Found.node.offset
      /\ x.w.node.filename = Found.node.filename
  BY <1>1, MoverFacts
<1>6. JobNode.filename = Found.node.filename /\ job.start = x.w.node.offset
  BY <1>1, MoverFacts
<1>7. PICK s : s = WriteTurn(fat, job.wanted, bytes, job.start)[r]
  OBVIOUS
<1>8. s = Moved(x.w, job.wanted, bytes, k + 1)
  BY <1>2, <1>4, <1>6, <1>7, IterateDef DEF Moved
<1>9. /\ data' = s.data
      /\ fd_table' = [fd_table EXCEPT !.nodes[fd].offset = s.offset, !.nodes[fd].size = s.size]
      /\ job' = [job EXCEPT !.write_block = s.block]
      /\ UNCHANGED <<disk_mounted, root, fat>>
  <2>1. bytes = Bytes(JobNode.filename, job.start, job.buf)
    BY <1>1, <1>5, <1>6
  <2>2. QED
    BY <1>1, <1>3, <1>7, <2>1 DEF TransferBlock
<1>10. SameCall /\ job'.pc = job.pc /\ job'.wanted = job.wanted /\ job'.write_block = s.block
  BY <1>9 DEF SameCall, JobType
<1>11. PICK node : node = [JobNode EXCEPT !.offset = s.offset, !.size = s.size]
  OBVIOUS
<1>12. fd_table' = [fd_table EXCEPT !.nodes[fd] = node]
  <2>1. fd_table.nodes[fd] = JobNode /\ fd \in Fds
    BY <1>1 DEF JobNode, Node, WriteCall
  <2>2. PICK table : table = job.before.fd_table
    OBVIOUS
  <2>3. table \in TableType /\ fd_table = [table EXCEPT !.nodes[fd] = JobNode]
    BY <1>1, <2>2 DEF WriteCall
  <2>4. QED
    BY <1>9, <1>11, <2>1, <2>3 DEF TableType
<1>13. WriteCall' /\ Found' = Found /\ Wanted' = Wanted /\ JobNode' = node
  BY <1>1, <1>9, <1>10, <1>12, WriteCallKept
<1>14. /\ node = [x.w.node EXCEPT !.offset = s.offset, !.size = s.size]
       /\ node.offset = s.offset /\ node.size = s.size
  <2>1. PICK v : v = x.w.node
    OBVIOUS
  <2>2. v \in NodeType /\ JobNode = [v EXCEPT !.offset = JobNode.offset, !.size = JobNode.size]
    BY <1>2, <1>5, <2>1
  <2>3. PICK m, n : m = JobNode.offset /\ n = JobNode.size
    OBVIOUS
  <2>4. node = [[v EXCEPT !.offset = m, !.size = n] EXCEPT !.offset = s.offset, !.size = s.size]
    BY <1>11, <2>2, <2>3
  <2>5. QED
    BY <2>1, <2>2, <2>4 DEF NodeType
<1>15. s = [offset |-> node.offset, size |-> node.size, block |-> s.block, data |-> s.data]
  <2>1. s \in WriteState
    BY <1>1, <1>8, MoverFacts, MoveLoop
  <2>2. s = [offset |-> s.offset, size |-> s.size, block |-> s.block, data |-> s.data]
    BY <2>1 DEF WriteState
  <2>3. QED
    BY <1>14, <2>2
<1>16. OnTransfer'
  <2>1. \E m \in Nat : Moved(x.w, job'.wanted, bytes, m)
                         = [offset |-> node.offset, size |-> node.size,
                            block |-> job'.write_block, data |-> data']
    <3>1. k + 1 \in Nat /\ Moved(x.w, job'.wanted, bytes, k + 1)
                            = [offset |-> node.offset, size |-> node.size,
                               block |-> job'.write_block, data |-> data']
      BY <1>8, <1>9, <1>10, <1>15
    <3>2. QED
      BY <3>1
  <2>2. /\ bytes = Bytes(Found'.node.filename, Found'.node.offset, job'.buf)
        /\ x = Extended(Placed(Found'), Wanted') /\ x.w.node = Placed(Found').node
    BY <1>1, <1>2, <1>10, <1>13 DEF SameCall
  <2>3. /\ ~x.at_end /\ x.w.data \in DataType /\ job'.wanted = EndOffset(x.w, Wanted')
        /\ fat' = x.w.fat /\ root' = x.w.root /\ job'.pc = "transfer"
        /\ node = [x.w.node EXCEPT !.offset = node.offset, !.size = node.size]
    BY <1>2, <1>9, <1>10, <1>13, <1>14 DEF OnTransfer, Running
  <2>4. QED
    BY <1>13, <2>1, <2>2, <2>3 DEF OnTransfer, Running
<1>17. QED
  BY <1>13, <1>16

\* The write loop has come to its end: the call returns.
LEMMA WriteSizeReturns ==
  ASSUME TableInv, job \in JobType, AtTransfer, WriteCall, OnTransfer, WriteSize
  PROVE  AtomicCall
<1>1. PICK w, x, bytes : /\ w = Placed(Found) /\ x = Extended(w, Wanted)
                         /\ bytes = Bytes(Found.node.filename, Found.node.offset, job.buf)
  OBVIOUS
<1>2. /\ ~x.at_end /\ x.w.data \in DataType /\ x.w.node = w.node
      /\ job.wanted = EndOffset(x.w, Wanted) /\ fat = x.w.fat /\ root = x.w.root
      /\ JobNode = [x.w.node EXCEPT !.offset = JobNode.offset, !.size = JobNode.size]
  BY <1>1 DEF OnTransfer
<1>3. PICK e, r : /\ e = JobEntry
                  /\ r = [offset |-> JobNode.offset, size |-> JobNode.size,
                          block |-> job.write_block, data |-> data]
  OBVIOUS
<1>4. PICK k \in Nat : Moved(x.w, job.wanted, bytes, k) = r
  BY <1>1, <1>3 DEF OnTransfer
<1>5. /\ x.w.fat \in FatType /\ x.w.data \in DataType /\ x.w.node \in NodeType
      /\ x.w.node.first_data_block \in Blocks /\ job.wanted \in Nat
      /\ bytes \in [Nat -> Byte] /\ x.w.node.offset = Found.node.offset
      /\ job.start = x.w.node.offset /\ e = x.w.node.dir_entry_index
  BY <1>1, <1>3, MoverFacts
<1>6. PICK f : f = WriteTurn(x.w.fat, job.wanted, bytes, x.w.node.offset)
  OBVIOUS
<1>7. PICK last : last = Moved(x.w, job.wanted, bytes, job.wanted)
  OBVIOUS
<1>8. last = r
  <2>1. r \in WriteState /\ r.offset >= job.wanted
    BY <1>3, <1>4, <1>5, MoveLoop DEF WriteSize
  <2>2. f[r] = r
    BY <1>6, <2>1 DEF WriteTurn
  <2>3. last \in WriteState /\ last.offset >= job.wanted
    BY <1>5, <1>7, MoveLoop DEF WriteState
  <2>4. f[last] = last
    BY <1>6, <2>3 DEF WriteTurn
  <2>5. QED
    BY <1>4, <1>5, <1>6, <1>7, <2>2, <2>4, IterateSettles DEF Moved
<1>9. PICK w2 : w2 = Transferred(x.w, job.wanted, bytes)
  OBVIOUS
<1>10. w2 = [x.w EXCEPT !.data = data,
                        !.node = [@ EXCEPT !.offset = JobNode.offset, !.size = JobNode.size],
                        !.root = [@ EXCEPT ![e].size = JobNode.size]]
  <2>1. PICK v, end_offset : v = x.w /\ end_offset = job.wanted
    OBVIOUS
  <2>2. PICK s0, block :
          /\ block = skip_blocks(v.fat, v.node.first_data_block, current_block_offset(v.node.offset))
          /\ s0 = [offset |-> v.node.offset, size |-> v.node.size, block |-> block, data |-> v.data]
    OBVIOUS
  <2>3. s0 = MoveStart(v)
    BY <2>2 DEF MoveStart
  <2>4. Iterate(f, s0)[end_offset] = r /\ f = WriteTurn(v.fat, end_offset, bytes, v.node.offset)
    BY <1>6, <1>7, <1>8, <2>1, <2>3 DEF Moved
  <2>5. w2 = [v EXCEPT !.data = r.data,
                       !.node = [@ EXCEPT !.offset = r.offset, !.size = r.size],
                       !.root = [@ EXCEPT ![v.node.dir_entry_index].size = r.size]]
    BY <1>9, <2>1, <2>2, <2>4 DEF Transferred
  <2>6. r.offset = JobNode.offset /\ r.size = JobNode.size /\ r.data = data
    BY <1>3
  <2>7. QED
    BY <1>5, <2>1, <2>5, <2>6
<1>11. x.w = [fat |-> fat, data |-> x.w.data, root |-> root, node |-> w.node]
  <2>1. w \in WState
    BY <1>1, PlacedType
  <2>2. PICK a : x.w = [w EXCEPT !.fat = a.fat, !.data = a.data]
    BY <1>1 DEF Extended
  <2>3. QED
    BY <1>2, <2>1, <2>2 DEF WState
<1>12. w2.fat = fat /\ w2.data = data /\ w2.node = JobNode
       /\ w2.root = [root EXCEPT ![e].size = JobNode.size]
  BY <1>2, <1>10, <1>11
<1>13. PICK o : o = WriteOutcome(Found, bytes, job.before.argument)
  OBVIOUS
<1>14. o = [w |-> w2, code |-> w2.node.offset - w.node.offset]
  <2>1. ~(Found.node.first_data_block = FAT_EOC /\ DiskFull(Found.fat))
    BY DEF WriteCall
  <2>2. w = IF Found.node.first_data_block = FAT_EOC THEN add_file_to_disk(Found) ELSE Found
    BY <1>1 DEF Placed
  <2>3. Wanted = w.node.offset + job.before.argument
    BY <1>2, <1>5 DEF Wanted
  <2>4. PICK room : room = total_file_blocks(x.w.fat, x.w.node.first_data_block) * BlockSize
    OBVIOUS
  <2>5. job.wanted = IF Wanted > room THEN room ELSE Wanted
    BY <1>2, <2>4 DEF EndOffset, TotalBytes
  <2>6. o = IF x.at_end THEN [w |-> x.w, code |-> 0]
            ELSE [w |-> w2, code |-> w2.node.offset - w.node.offset]
    <3>1. PICK u, count, wanted, end_offset :
            /\ u = Found /\ count = job.before.argument
            /\ wanted = Wanted /\ end_offset = job.wanted
      OBVIOUS
    <3>2. /\ ~(u.node.first_data_block = FAT_EOC /\ DiskFull(u.fat))
          /\ w = IF u.node.first_data_block = FAT_EOC THEN add_file_to_disk(u) ELSE u
          /\ wanted = w.node.offset + count /\ x = Extended(w, wanted)
          /\ end_offset = IF wanted > room THEN room ELSE wanted
          /\ w2 = Transferred(x.w, end_offset, bytes)
          /\ o = WriteOutcome(u, bytes, count)
      BY <1>1, <1>9, <1>13, <2>1, <2>2, <2>3, <2>5, <3>1
    <3>3. QED
      BY <2>4, <3>2 DEF WriteOutcome
  <2>7. QED
    BY <1>2, <2>6
<1>15. o.w = w2 /\ o.code = JobNode.offset - job.start
  BY <1>2, <1>5, <1>12, <1>14
<1>16. /\ job # Idle /\ job' = Idle /\ UNCHANGED <<disk_mounted, fd_table, fat, data>>
       /\ root' = [root EXCEPT ![e].size = JobNode.size] /\ Return(JobNode.offset - job.start)
  BY <1>3 DEF WriteSize, Finish, Running, Idle, JobEntry
<1>17. fd_table' = [job.before.fd_table EXCEPT !.nodes[job.fd] = o.w.node]
  BY <1>12, <1>15, <1>16 DEF WriteCall
<1>18. QED
  BY <1>1, <1>12, <1>13, <1>15, <1>16, <1>17, WriteReturns

-----------------------------------------------------------------------------
(* The chains fs_delete and erase_all_files give back.                     *)

\* A turn of erase_file that is not the last, and one that is.
LEMMA ErasingOn ==
  ASSUME job \in JobType, NEW table, NEW h, ErasingFrom(table, h), EraseBlock
  PROVE  /\ fat[job.write_block] # FAT_EOC => ErasingFrom(table, h)'
         /\ fat[job.write_block] = FAT_EOC => fat' = erase_file(table, h)
<1>1. PICK s0, block, next : /\ s0 = [fat |-> table, block |-> h, done |-> FALSE]
                             /\ block = job.write_block /\ next = fat[block]
  OBVIOUS
<1>2. table \in FatType /\ WellLinked(table) /\ StartsChain(table, h) /\ h # FAT_EOC
  BY Sizes DEF ErasingFrom, StartsChain
<1>3. PICK k \in Nat : Iterate(EraseOne, s0)[k] = [fat |-> fat, block |-> block, done |-> FALSE]
  BY <1>1 DEF ErasingFrom
<1>4. PICK s, t : s = Iterate(EraseOne, s0)[k] /\ t = Iterate(EraseOne, s0)[k + 1]
  OBVIOUS
<1>5. s \in EraseState /\ t \in EraseState /\ t = EraseOne[s]
  BY <1>1, <1>2, <1>4, EraseLoop, IterateDef
<1>6. s = [fat |-> fat, block |-> block, done |-> FALSE]
  BY <1>3, <1>4
<1>7. /\ t.fat = fat' /\ (next # FAT_EOC => t.block = next)
      /\ t.done <=> next = FAT_EOC
  <2>1. fat' = set_fat_entry(fat, block, 0)
    BY <1>1 DEF EraseBlock
  <2>2. QED
    BY <1>1, <1>5, <1>6, <2>1 DEF EraseOne, get_fat_entry
<1>8. CASE next # FAT_EOC
  <2>1. job' = [job EXCEPT !.write_block = next]
    BY <1>1, <1>8 DEF EraseBlock, get_fat_entry
  <2>2. job'.write_block = next
    BY <2>1 DEF JobType
  <2>3. t = [fat |-> fat', block |-> job'.write_block, done |-> FALSE] /\ k + 1 \in Nat
    <3>1. t.done = FALSE
      BY <1>5, <1>7, <1>8 DEF EraseState
    <3>2. t = [fat |-> t.fat, block |-> t.block, done |-> t.done]
      BY <1>5 DEF EraseState
    <3>3. t.fat = fat' /\ t.block = job'.write_block
      BY <1>7, <1>8, <2>2
    <3>4. QED
      BY <3>1, <3>2, <3>3
  <2>4. ErasingFrom(table, h)'
    BY <1>1, <1>2, <1>4, <2>3 DEF ErasingFrom
  <2>5. QED
    BY <1>1, <1>8, <2>4
<1>9. CASE next = FAT_EOC
  <2>1. PICK last : last = Iterate(EraseOne, s0)[DataBlocks]
    OBVIOUS
  <2>2. last \in EraseState /\ last.done /\ DataBlocks \in Nat
    BY <1>1, <1>2, <2>1, EraseLoop, Sizes
  <2>3. EraseOne[last] = last /\ EraseOne[t] = t
    <3>1. \A v \in EraseState : v.done => EraseOne[v] = v
      BY DEF EraseOne
    <3>2. t.done
      BY <1>7, <1>9
    <3>3. QED
      BY <1>5, <2>2, <3>1, <3>2
  <2>4. last = t
    BY <1>4, <2>1, <2>2, <2>3, IterateSettles
  <2>5. erase_file(table, h) = last.fat
    BY <1>1, <1>2, <2>1 DEF erase_file
  <2>6. QED
    BY <1>1, <1>7, <1>9, <2>4, <2>5
<1>10. QED
  BY <1>1, <1>8, <1>9

LEMMA ErasingStarts ==
  ASSUME fat \in FatType, WellLinked(fat), NEW h, StartsChain(fat, h), UNCHANGED fat,
         job'.write_block = h
  PROVE  ErasingFrom(fat, h)'
<1>1. PICK table : table = fat
  OBVIOUS
<1>2. Iterate(EraseOne, [fat |-> table, block |-> h, done |-> FALSE])[0]
        = [fat |-> fat', block |-> job'.write_block, done |-> FALSE]
  BY <1>1, IterateDef
<1>3. QED
  BY <1>1, <1>2 DEF ErasingFrom

LEMMA StartDeleteFollows ==
  ASSUME TableInv, AtIdle, NEW name, StartDelete(name)
  PROVE  Deletes'
<1>1. PICK e, h, before : /\ e = FirstEntry(name) /\ h = root[e].index /\ before = Before(name)
  OBVIOUS
<1>2. /\ disk_mounted /\ name # Null /\ ~isOpenByName(fd_table, name)
      /\ Entries(name) # {} /\ h # FAT_EOC
      /\ UNCHANGED <<disk_mounted, fd_table, fat, data>>
      /\ root' = [root EXCEPT ![e] = EmptyEntry]
  BY <1>1 DEF StartDelete, isValidFileName, HasBlocks
<1>3. /\ job'.call = "delete" /\ job'.pc = "erase" /\ job'.write_block = h
      /\ job'.before = before
  BY <1>1 DEF StartDelete, Idle
<1>4. /\ before.argument = name /\ before.root = root /\ before.fat = fat
      /\ before.data = data /\ before.fd_table = fd_table
  BY <1>1 DEF Before
<1>5. e \in Entries(name) /\ e = FirstNamed(root, name)
  BY <1>1, <1>2, FirstEntryFound DEF FirstEntry, FirstNamed, Entries
<1>6. e \in DirSlots /\ root[e].filename = name /\ e \in Listed
  BY <1>2, <1>5 DEF Entries, Listed
<1>7. fat \in FatType /\ WellLinked(fat) /\ StartsChain(fat, h)
  BY <1>1, <1>2, <1>6 DEF AtIdle, Sound, Heads, DirHeads
<1>8. PICK table : table = fat
  OBVIOUS
<1>9. ErasingFrom(table, h)'
  BY <1>2, <1>3, <1>7, <1>8, ErasingStarts DEF ErasingFrom
<1>10. PICK dir : dir = root
  OBVIOUS
<1>11. /\ job'.before.root = dir /\ job'.before.argument = name /\ job'.before.fat = table
       /\ job'.before.fd_table = fd_table /\ job'.before.data = data
       /\ e = FirstNamed(dir, name) /\ h = dir[e].index /\ dir[e].filename = name
       /\ root' = [dir EXCEPT ![e] = EmptyEntry]
  BY <1>1, <1>2, <1>3, <1>4, <1>5, <1>6, <1>8, <1>10
<1>12. QED
  BY <1>2, <1>3, <1>6, <1>9, <1>11 DEF Deletes, Running

\* fs_delete goes on, or returns.
LEMMA DeleteBlockFollows ==
  ASSUME job \in JobType, Deletes, EraseBlock
  PROVE  IF job' = Idle THEN AtomicCall ELSE Deletes'
<1>1. PICK name, dir, table : /\ name = job.before.argument /\ dir = job.before.root
                              /\ table = job.before.fat
  OBVIOUS
<1>2. PICK e, h : e = FirstNamed(dir, name) /\ h = dir[e].index
  OBVIOUS
<1>3. /\ job.call = "delete" /\ disk_mounted /\ Running("erase") /\ name # Null
      /\ \E i \in DirSlots : dir[i].filename = name
      /\ ~isOpenByName(job.before.fd_table, name)
      /\ root = [dir EXCEPT ![e] = EmptyEntry] /\ ErasingFrom(table, h)
      /\ fd_table = job.before.fd_table /\ data = job.before.data
  BY <1>1, <1>2 DEF Deletes
<1>4. UNCHANGED <<disk_mounted, fd_table, root, data>>
  BY DEF EraseBlock
<1>5. job # Idle
  BY <1>3 DEF Idle, Running
<1>6. CASE fat[job.write_block] # FAT_EOC
  <2>1. ErasingFrom(table, h)'
    BY <1>3, <1>6, ErasingOn
  <2>2. job' = [job EXCEPT !.write_block = fat[job.write_block]]
    BY <1>6 DEF EraseBlock, get_fat_entry
  <2>3. /\ job'.call = job.call /\ job'.pc = job.pc /\ job'.before = job.before
    BY <2>2 DEF JobType
  <2>4. job' # Idle
    BY <1>3, <2>3 DEF Idle, Running
  <2>5. Deletes'
    BY <1>1, <1>2, <1>3, <1>4, <2>1, <2>3 DEF Deletes, Running
  <2>6. QED
    BY <2>4, <2>5
<1>7. CASE fat[job.write_block] = FAT_EOC
  <2>1. fat' = erase_file(table, h)
    BY <1>3, <1>7, ErasingOn
  <2>2. job' = Idle /\ Return(0)
    BY <1>3, <1>7 DEF EraseBlock, get_fat_entry, Finish
  <2>3. Atomic!Entries(name) # {} /\ Atomic!FirstEntry(name) = e
    <3>1. Atomic!Entries(name) = {i \in DirSlots : dir[i].filename = name}
      BY <1>1, <1>5 DEF Atomic!Entries, Atomic!DirSlots, DirSlots
    <3>2. QED
      BY <1>2, <1>3, <3>1 DEF Atomic!FirstEntry, FirstNamed
  <2>4. /\ Atomic!isValidFileName(name) /\ Atomic!Return(0) /\ Atomic!EmptyEntry = EmptyEntry
        /\ Atomic!erase_file(table, h) = fat'
        /\ ~Atomic!isOpenByName(job.before.fd_table, name)
    BY <1>3, <2>1, <2>2, SameReturn, SameTable, SameFat DEF Atomic!isValidFileName
  <2>5. Atomic!fs_delete(name)
    BY <1>1, <1>2, <1>3, <1>4, <1>5, <2>2, <2>3, <2>4 DEF Atomic!fs_delete
  <2>6. QED
    BY <1>1, <1>3, <2>2, <2>5 DEF AtomicCall
<1>8. QED
  BY <1>6, <1>7

\* The entries that erase_all_files has nothing to erase for leave the FAT alone.
LEMMA SweepSkips ==
  ASSUME NEW dir, NEW table, NEW now \in FatType, NEW m \in Nat, NEW n \in Nat,
         m <= n, n <= FileMax, Erased(dir, table, m) = [fat |-> now, slot |-> m],
         \A j \in DirSlots : m <= j /\ j < n => dir[j].filename = Null \/ dir[j].index = FAT_EOC
  PROVE  Erased(dir, table, n) = [fat |-> now, slot |-> n]
<1> DEFINE x(k) == Erased(dir, table, k)
           S == {k \in Nat : m <= k /\ k <= n => x(k) = [fat |-> now, slot |-> k]}
<1>1. \A k \in Nat : x(k + 1) = EraseEntryOf(dir)[x(k)]
  BY IterateDef DEF Erased
<1>2. x(m) = [fat |-> now, slot |-> m]
  OBVIOUS
<1>3. FileMax \in Nat
  BY TableAssumption
<1> HIDE DEF x
<1>4. 0 \in S
  <2>1. m <= 0 => m = 0
    OBVIOUS
  <2>2. QED
    BY <1>2, <2>1
<1>5. ASSUME NEW k \in S
      PROVE  k + 1 \in S
  <2>1. CASE m <= k /\ k + 1 <= n
    <3>1. k \in Nat /\ k \in DirSlots /\ k < FileMax /\ k \in 0 .. FileMax /\ k # FileMax
      BY <1>3, <2>1 DEF DirSlots
    <3>2. dir[k].filename = Null \/ dir[k].index = FAT_EOC
      BY <2>1, <3>1
    <3>3. PICK s : s = [fat |-> now, slot |-> k]
      OBVIOUS
    <3>4. s \in EraseAllState /\ s.slot = k /\ s.fat = now
      BY <3>1, <3>3 DEF EraseAllState
    <3>5. x(k) = s
      BY <2>1, <3>1, <3>3
    <3>6. EraseEntryOf(dir)[s] = [fat |-> now, slot |-> k + 1]
      BY <3>1, <3>2, <3>4 DEF EraseEntryOf, erase_file
    <3>7. QED
      BY <1>1, <3>1, <3>5, <3>6
  <2>2. CASE ~(m <= k /\ k + 1 <= n)
    <3>1. m <= k + 1 /\ k + 1 <= n => k + 1 = m
      BY <2>2
    <3>2. QED
      BY <1>2, <3>1
  <2>3. QED
    BY <2>1, <2>2
<1>6. S = Nat
  BY <1>4, <1>5, NatSetInduction
<1>7. QED
  BY <1>6 DEF x

LEMMA StartEraseAllFollows ==
  ASSUME StartEraseAll
  PROVE  ErasesAll'
<1>1. PICK before, table : before = Before(Null) /\ table = fat
  OBVIOUS
<1>2. /\ job'.call = "erase_all" /\ job'.pc = "sweep" /\ job'.slot = 0 /\ job'.before = before
  BY <1>1 DEF StartEraseAll, Idle
<1>3. /\ before.root = root /\ before.fat = table /\ before.data = data
      /\ before.fd_table = fd_table
  BY <1>1 DEF Before
<1>4. /\ disk_mounted /\ fd_table.fdsOccupied = 0
      /\ UNCHANGED <<disk_mounted, fd_table, root, fat, data>>
  BY DEF StartEraseAll, vars
<1>5. Erased(root, table, 0) = [fat |-> table, slot |-> 0]
  BY IterateDef DEF Erased
<1>6. 0 \in 0 .. FileMax
  BY TableAssumption
<1>7. OnSweep'
  <2>1. PICK dir : dir = root
    OBVIOUS
  <2>2. /\ root' = dir /\ job'.before.fat = table /\ fat' = table
        /\ Erased(dir, table, 0) = [fat |-> table, slot |-> 0]
    BY <1>1, <1>2, <1>3, <1>4, <1>5, <2>1
  <2>3. QED
    BY <1>2, <2>2 DEF OnSweep, Running
<1>8. QED
  BY <1>2, <1>3, <1>4, <1>6, <1>7 DEF ErasesAll

\* What a step of erase_all_files keeps.
LEMMA ErasesAllKept ==
  ASSUME ErasesAll, job'.call = job.call, job'.before = job.before,
         UNCHANGED <<disk_mounted, fd_table, root, data>>,
         job'.slot \in 0 .. FileMax, OnSweep' \/ OnErase'
  PROVE  ErasesAll'
BY DEF ErasesAll

LEMMA SweepNextFollows ==
  ASSUME TableInv, job \in JobType, AtSweep, ErasesAll, OnSweep, SweepNext
  PROVE  ErasesAll'
<1>1. PICK i, h : /\ i = (CHOOSE k \in ToErase : \A j \in ToErase : k <= j)
                  /\ h = root[i].index
  OBVIOUS
<1>2. i \in ToErase /\ \A j \in ToErase : i <= j
  BY <1>1, ToEraseFound DEF SweepNext
<1>3. /\ i \in Listed /\ i \in DirSlots /\ i >= job.slot /\ h # FAT_EOC
      /\ i \in Nat /\ i <= FileMax /\ i \in 0 .. FileMax
  <2>1. i \in Listed /\ i >= job.slot /\ h # FAT_EOC
    BY <1>1, <1>2 DEF ToErase
  <2>2. i \in DirSlots
    BY <2>1 DEF Listed
  <2>3. i \in Nat /\ i <= FileMax /\ i \in 0 .. FileMax
    BY <2>2, TableAssumption DEF DirSlots
  <2>4. QED
    BY <2>1, <2>2, <2>3
<1>4. /\ job' = [job EXCEPT !.pc = "erase", !.slot = i, !.write_block = h]
      /\ UNCHANGED <<disk_mounted, fd_table, root, fat, data>>
  BY <1>1 DEF SweepNext, vars
<1>5. /\ job'.call = job.call /\ job'.pc = "erase" /\ job'.slot = i /\ job'.write_block = h
      /\ job'.before = job.before
  BY <1>4 DEF JobType
<1>6. PICK dir, now, table : dir = root /\ now = fat /\ table = job.before.fat
  OBVIOUS
<1>7. now \in FatType /\ WellLinked(now) /\ StartsChain(now, h) /\ job.slot \in Nat
  BY <1>1, <1>3, <1>6 DEF AtSweep, Sound, Whole, JobType, Listed, DirSlots
<1>8. \A j \in DirSlots : job.slot <= j /\ j < i => dir[j].filename = Null \/ dir[j].index = FAT_EOC
  <2>1. SUFFICES ASSUME NEW j \in DirSlots, job.slot <= j, j < i,
                        dir[j].filename # Null, dir[j].index # FAT_EOC
                 PROVE  FALSE
    OBVIOUS
  <2>2. j \in ToErase /\ j \in Nat
    BY <1>6, <1>7, <2>1 DEF ToErase, Listed, Entries, DirSlots
  <2>3. QED
    BY <1>2, <1>3, <2>1, <2>2
<1>9. Erased(dir, table, i) = [fat |-> now, slot |-> i]
  <2>1. Erased(dir, table, job.slot) = [fat |-> now, slot |-> job.slot]
    BY <1>6 DEF OnSweep
  <2>2. PICK slot : slot = job.slot
    OBVIOUS
  <2>3. slot \in Nat /\ slot <= i /\ Erased(dir, table, slot) = [fat |-> now, slot |-> slot]
    BY <1>3, <1>7, <2>1, <2>2
  <2>4. QED
    BY <1>3, <1>7, <1>8, <2>2, <2>3, SweepSkips
<1>10. ErasingFrom(now, h)'
  BY <1>4, <1>5, <1>6, <1>7, ErasingStarts DEF ErasingFrom
<1>11. OnErase'
  BY <1>1, <1>4, <1>5, <1>6, <1>9, <1>10 DEF OnErase, Running
<1>12. QED
  BY <1>3, <1>4, <1>5, <1>11, ErasesAllKept

LEMMA EraseAllBlockFollows ==
  ASSUME TableInv, job \in JobType, AtErase, ErasesAll, OnErase, EraseBlock
  PROVE  ErasesAll'
<1>1. PICK i, h, dir, first :
        /\ i = job.slot /\ h = root[i].index /\ dir = root /\ first = job.before.fat
  OBVIOUS
<1>2. PICK table : /\ Erased(dir, first, i) = [fat |-> table, slot |-> i]
                   /\ ErasingFrom(table, h)
  BY <1>1 DEF OnErase
<1>3. job.call = "erase_all" /\ Running("erase")
  BY DEF ErasesAll, OnErase
<1>4. UNCHANGED <<disk_mounted, fd_table, root, data>>
  BY DEF EraseBlock
<1>5. i \in DirSlots /\ i \in Nat /\ i < FileMax /\ dir[i].filename # Null
      /\ i + 1 \in 0 .. FileMax /\ i \in 0 .. FileMax /\ i # FileMax
  BY <1>1, TableAssumption DEF AtErase, Listed, Entries, DirSlots
<1>6. CASE fat[job.write_block] # FAT_EOC
  <2>1. ErasingFrom(table, h)'
    BY <1>2, <1>6, ErasingOn
  <2>2. job' = [job EXCEPT !.write_block = fat[job.write_block]]
    BY <1>6 DEF EraseBlock, get_fat_entry
  <2>3. /\ job'.call = job.call /\ job'.pc = job.pc /\ job'.before = job.before
        /\ job'.slot = job.slot
    BY <2>2 DEF JobType
  <2>4. OnErase'
    BY <1>1, <1>2, <1>3, <1>4, <2>1, <2>3 DEF OnErase, Running
  <2>5. QED
    BY <1>1, <1>4, <1>5, <2>3, <2>4, ErasesAllKept
<1>7. CASE fat[job.write_block] = FAT_EOC
  <2>1. fat' = erase_file(table, h)
    BY <1>2, <1>7, ErasingOn
  <2>2. job' = [job EXCEPT !.pc = "sweep", !.slot = i + 1]
    BY <1>1, <1>3, <1>7 DEF EraseBlock, get_fat_entry
  <2>3. /\ job'.call = job.call /\ job'.pc = "sweep" /\ job'.before = job.before
        /\ job'.slot = i + 1
    BY <2>2 DEF JobType
  <2>4. Erased(dir, first, i + 1) = [fat |-> fat', slot |-> i + 1]
    <3>1. PICK s : s = [fat |-> table, slot |-> i]
      OBVIOUS
    <3>2. s \in EraseAllState /\ s.slot = i /\ s.fat = table
      BY <1>2, <1>5, <3>1 DEF EraseAllState, ErasingFrom
    <3>3. EraseEntryOf(dir)[s] = [fat |-> erase_file(table, h), slot |-> i + 1]
      BY <1>1, <1>5, <3>2 DEF EraseEntryOf
    <3>4. Erased(dir, first, i + 1) = EraseEntryOf(dir)[Erased(dir, first, i)]
      BY <1>5, IterateDef DEF Erased
    <3>5. QED
      BY <1>2, <2>1, <3>1, <3>3, <3>4
  <2>5. OnSweep'
    BY <1>1, <1>4, <2>3, <2>4 DEF OnSweep, Running
  <2>6. QED
    BY <1>4, <1>5, <2>3, <2>5, ErasesAllKept
<1>8. QED
  BY <1>6, <1>7

\* The directory is written: the call returns.
LEMMA EraseDirectoryReturns ==
  ASSUME TableInv, job \in JobType, ErasesAll, OnSweep, EraseDirectory
  PROVE  AtomicCall
<1>1. PICK dir, now, table : dir = root /\ now = fat /\ table = job.before.fat
  OBVIOUS
<1>2. PICK slot : slot = job.slot
  OBVIOUS
<1>3. /\ job.call = "erase_all" /\ disk_mounted /\ Running("sweep") /\ dir = job.before.root
      /\ fd_table = job.before.fd_table /\ data = job.before.data /\ fd_table.fdsOccupied = 0
      /\ slot \in Nat /\ slot <= FileMax /\ now \in FatType /\ FileMax \in Nat
      /\ Erased(dir, table, slot) = [fat |-> now, slot |-> slot]
  BY <1>1, <1>2, TableAssumption DEF ErasesAll, OnSweep, TableInv, TypeOK
<1>4. /\ job # Idle /\ job' = Idle /\ Return(0) /\ ToErase = {}
      /\ UNCHANGED <<disk_mounted, fd_table, fat, data>>
      /\ root' = [i \in DirSlots |-> EmptyEntry]
  BY <1>3 DEF EraseDirectory, Finish, Idle, Running
<1>5. \A j \in DirSlots : slot <= j /\ j < FileMax => dir[j].filename = Null \/ dir[j].index = FAT_EOC
  <2>1. SUFFICES ASSUME NEW j \in DirSlots, slot <= j,
                        dir[j].filename # Null, dir[j].index # FAT_EOC
                 PROVE  FALSE
    OBVIOUS
  <2>2. j \in ToErase
    BY <1>1, <1>2, <1>3, <2>1 DEF ToErase, Listed, Entries, DirSlots
  <2>3. QED
    BY <1>4, <2>2
<1>6. Erased(dir, table, FileMax) = [fat |-> now, slot |-> FileMax]
  BY <1>3, <1>5, SweepSkips
<1>7. Atomic!EraseEntry = EraseEntryOf(dir)
  <2>1. (IF job = Idle THEN root ELSE job.before.root) = dir
    BY <1>3, <1>4
  <2>2. Atomic!EraseAllState = EraseAllState
    BY DEF Atomic!EraseAllState, EraseAllState, Atomic!FatType, FatType, Atomic!Links, Links,
      Atomic!Slots, Slots, Atomic!Blocks, Blocks, Atomic!FAT_EOC, FAT_EOC
  <2>3. QED
    BY <2>1, <2>2, SameFat DEF Atomic!EraseEntry, EraseEntryOf
<1>8. now = Atomic!Iterate(Atomic!EraseEntry, [fat |-> table, slot |-> 0])[FileMax].fat
  BY <1>6, <1>7 DEF Erased, Atomic!Iterate, Iterate
<1>9. Atomic!erase_all_files
  BY <1>1, <1>3, <1>4, <1>8, SameReturn, SameTable DEF Atomic!erase_all_files
<1>10. QED
  BY <1>3, <1>9 DEF AtomicCall

-----------------------------------------------------------------------------
(* Every step of a call that is not killed.                                *)

\* A call that is under way follows the loops of its kind.
LEMMA FollowedAt ==
  ASSUME Writes \/ Deletes \/ ErasesAll
  PROVE  /\ job # Idle
         /\ Running("add") => WriteCall /\ OnAdd
         /\ Running("index") => WriteCall /\ OnIndex
         /\ Running("claim") => WriteCall /\ OnClaim
         /\ Running("plan") => WriteCall /\ OnPlan
         /\ Running("extend") => WriteCall /\ OnExtend
         /\ Running("link") => WriteCall /\ OnLink
         /\ Running("mark") => WriteCall /\ OnMark
         /\ Running("transfer") => WriteCall /\ OnTransfer
         /\ Running("sweep") => ErasesAll /\ OnSweep
         /\ Running("erase") /\ job.call = "delete" => Deletes
         /\ Running("erase") /\ job.call # "delete" => ErasesAll /\ OnErase
<1>1. Writes => job.call = "write" /\ job.pc \in {"add", "index", "claim", "plan", "extend",
                                                  "link", "mark", "transfer"}
  BY DEF Writes, WriteCall, OnAdd, OnIndex, OnClaim, OnPlan, OnExtend, OnLink, OnMark,
    OnTransfer, Running
<1>2. Deletes => job.call = "delete" /\ job.pc = "erase"
  BY DEF Deletes, Running
<1>3. ErasesAll => job.call = "erase_all" /\ job.pc \in {"sweep", "erase"}
  BY DEF ErasesAll, OnSweep, OnErase, Running
<1>4. job # Idle
  BY <1>1, <1>2, <1>3 DEF Idle
<1>5. /\ Running("add") => WriteCall /\ OnAdd
      /\ Running("index") => WriteCall /\ OnIndex
      /\ Running("claim") => WriteCall /\ OnClaim
      /\ Running("plan") => WriteCall /\ OnPlan
      /\ Running("extend") => WriteCall /\ OnExtend
      /\ Running("link") => WriteCall /\ OnLink
      /\ Running("mark") => WriteCall /\ OnMark
      /\ Running("transfer") => WriteCall /\ OnTransfer
  BY <1>2, <1>3 DEF Writes, OnAdd, OnIndex, OnClaim, OnPlan, OnExtend, OnLink, OnMark,
    OnTransfer, Running
<1>6. /\ Running("sweep") => ErasesAll /\ OnSweep
      /\ Running("erase") /\ job.call = "delete" => Deletes
      /\ Running("erase") /\ job.call # "delete" => ErasesAll /\ OnErase
  BY <1>1, <1>2, <1>3 DEF ErasesAll, OnSweep, OnErase, Running
<1>7. QED
  BY <1>4, <1>5, <1>6

\* A step of the call under way ends it as FileSystem says, or goes on.
LEMMA JobStepFollows ==
  ASSUME TableInv, job \in JobType, AtSomePoint, Writes \/ Deletes \/ ErasesAll, JobStep
  PROVE  IF job' = Idle THEN AtomicCall ELSE Follows'
<1>1. CASE AddClear \/ AddIndex \/ AddClaim
  <2>1. WriteCall' /\ (OnIndex' \/ OnClaim' \/ OnPlan')
    BY <1>1, FollowedAt, AddClearFollows, AddIndexFollows, AddClaimFollows
    DEF AddClear, AddIndex, AddClaim
  <2>2. job' # Idle
    BY <2>1 DEF OnIndex, OnClaim, OnPlan, Running, Idle
  <2>3. QED
    BY <2>1, <2>2 DEF Follows, Writes
<1>2. CASE PlanWrite \/ AllocClear \/ AllocLink \/ AllocMark
  <2>1. AllocMark => job.needed_blocks # 0
    BY PointOf DEF AllocMark, AtMark
  <2>2. PlanWrite => AtPlan
    BY PointOf DEF PlanWrite
  <2>3. WriteCall' /\ (OnExtend' \/ OnLink' \/ OnMark')
    BY <1>2, <2>1, <2>2, FollowedAt, PlanWriteFollows, AllocClearFollows, AllocLinkFollows,
      AllocMarkFollows
    DEF PlanWrite, AllocClear, AllocLink, AllocMark
  <2>4. job' # Idle
    BY <2>3 DEF OnExtend, OnLink, OnMark, Running, Idle
  <2>5. QED
    BY <2>3, <2>4 DEF Follows, Writes
<1>3. CASE AllocDone
  <2>1. IF job' = Idle THEN AtomicCall ELSE WriteCall' /\ OnTransfer'
    BY <1>3, FollowedAt, AllocDoneFollows DEF AllocDone
  <2>2. QED
    BY <2>1 DEF Follows, Writes
<1>4. CASE TransferBlock \/ WriteSize
  <2>1. AtTransfer /\ WriteCall /\ OnTransfer
    BY <1>4, FollowedAt, PointOf DEF TransferBlock, WriteSize
  <2>2. CASE TransferBlock
    <3>1. WriteCall' /\ OnTransfer'
      BY <2>1, <2>2, TransferBlockFollows
    <3>2. job' # Idle
      BY <3>1 DEF OnTransfer, Running, Idle
    <3>3. QED
      BY <3>1, <3>2 DEF Follows, Writes
  <2>3. CASE WriteSize
    <3>1. AtomicCall /\ job' = Idle
      BY <2>1, <2>3, WriteSizeReturns DEF WriteSize, Finish
    <3>2. QED
      BY <3>1
  <2>4. QED
    BY <1>4, <2>2, <2>3
<1>5. CASE SweepNext \/ EraseDirectory
  <2>1. AtSweep /\ ErasesAll /\ OnSweep
    BY <1>5, FollowedAt, PointOf DEF SweepNext, EraseDirectory
  <2>2. CASE SweepNext
    <3>1. ErasesAll'
      BY <2>1, <2>2, SweepNextFollows
    <3>2. job' # Idle
      BY <3>1 DEF ErasesAll, OnSweep, OnErase, Running, Idle
    <3>3. QED
      BY <3>1, <3>2 DEF Follows
  <2>3. CASE EraseDirectory
    <3>1. AtomicCall /\ job' = Idle
      BY <2>1, <2>3, EraseDirectoryReturns DEF EraseDirectory, Finish
    <3>2. QED
      BY <3>1
  <2>4. QED
    BY <1>5, <2>2, <2>3
<1>6. CASE EraseBlock
  <2>1. CASE job.call = "delete"
    <3>1. IF job' = Idle THEN AtomicCall ELSE Deletes'
      BY <1>6, <2>1, FollowedAt, DeleteBlockFollows DEF EraseBlock
    <3>2. QED
      BY <3>1 DEF Follows
  <2>2. CASE job.call # "delete"
    <3>1. AtErase /\ ErasesAll /\ OnErase
      BY <1>6, <2>2, FollowedAt, PointOf DEF EraseBlock, AtDelete
    <3>2. ErasesAll'
      BY <1>6, <3>1, EraseAllBlockFollows
    <3>3. job' # Idle
      BY <3>2 DEF ErasesAll, OnSweep, OnErase, Running, Idle
    <3>4. QED
      BY <3>2, <3>3 DEF Follows
  <2>3. QED
    BY <2>1, <2>2
<1>7. QED
  BY <1>1, <1>2, <1>3, <1>4, <1>5, <1>6 DEF JobStep

LEMMA FollowsInit == CrashInit => Follows
BY DEF CrashInit, Follows

\* A call starts with its loops at their start.
LEMMA StartFollows ==
  ASSUME TableInv, job \in JobType, AtIdle
  PROVE  /\ \A fd \in FdArgs, buf \in BufArgs, count \in CountArgs :
              StartWrite(fd, buf, count) => Follows'
         /\ \A name : StartDelete(name) => Follows'
         /\ StartEraseAll => Follows'
<1>1. ASSUME NEW fd \in FdArgs, NEW buf \in BufArgs, NEW count \in CountArgs,
             StartWrite(fd, buf, count)
      PROVE  Follows'
  <2>1. WriteCall' /\ (OnAdd' \/ OnPlan')
    BY <1>1, StartWriteFollows
  <2>2. QED
    BY <2>1 DEF Follows, Writes
<1>2. ASSUME NEW name, StartDelete(name)
      PROVE  Follows'
  BY <1>2, StartDeleteFollows DEF Follows
<1>3. ASSUME StartEraseAll
      PROVE  Follows'
  BY <1>3, StartEraseAllFollows DEF Follows
<1>4. QED
  BY <1>1, <1>2, <1>3

\* No job, no step of one.
LEMMA JobStepBusy ==
  ASSUME JobStep
  PROVE  job # Idle
BY DEF JobStep, Running, Idle, AddClear, AddIndex, AddClaim, PlanWrite, AllocClear, AllocLink,
  AllocMark, AllocDone, TransferBlock, WriteSize, SweepNext, EraseBlock, EraseDirectory

LEMMA FollowsNext == CrashInv /\ Follows /\ [CarefulNext]_crash_vars => Follows'
<1> SUFFICES ASSUME CrashInv, Follows, [CarefulNext]_crash_vars, job' # Idle PROVE Follows'
  BY DEF Follows
<1>1. CASE UNCHANGED crash_vars
  <2>1. UNCHANGED <<disk_mounted, fd_table, root, fat, data, job>>
    BY <1>1 DEF crash_vars, vars
  <2>2. /\ \A pc : Running(pc)' <=> Running(pc)
        /\ Found' = Found /\ Wanted' = Wanted /\ JobNode' = JobNode /\ JobFirst' = JobFirst
    BY <2>1 DEF Running, Found, Wanted, JobNode, JobFirst, Node
  <2>3. /\ \A s : (InTurn(s)' <=> InTurn(s)) /\ (Taken(s)' <=> Taken(s))
        /\ \A w : Shows(w)' <=> Shows(w)
        /\ Ready' <=> Ready
    BY <2>1, <2>2 DEF InTurn, Taken, Shows, Ready
  <2>4. \A table, h : ErasingFrom(table, h)' <=> ErasingFrom(table, h)
    BY <2>1 DEF ErasingFrom
  <2>5. /\ OnAdd => OnAdd'
        /\ OnIndex => OnIndex'
        /\ OnClaim => OnClaim'
        /\ OnPlan => OnPlan'
    BY <2>1, <2>2, <2>3 DEF OnAdd, OnIndex, OnClaim, OnPlan
  <2>6. /\ OnExtend => OnExtend'
        /\ OnLink => OnLink'
        /\ OnMark => OnMark'
    BY <2>1, <2>2, <2>3 DEF OnExtend, OnLink, OnMark
  <2>7. OnTransfer => OnTransfer'
    BY <2>1, <2>2 DEF OnTransfer
  <2>8. WriteCall => WriteCall'
    BY <2>1, <2>2 DEF WriteCall
  <2>9. Writes => Writes'
    BY <2>5, <2>6, <2>7, <2>8 DEF Writes
  <2>10. Deletes => Deletes'
    BY <2>1, <2>2, <2>4 DEF Deletes
  <2>11. ErasesAll => ErasesAll'
    BY <2>1, <2>2, <2>4 DEF ErasesAll, OnSweep, OnErase
  <2>12. QED
    BY <2>1, <2>9, <2>10, <2>11 DEF Follows
<1>2. CASE Wrecked /\ CarefulNext
  BY <1>2, WreckedStep DEF Wrecked
<1>3. CASE ~Wrecked /\ CarefulNext
  <2>1. TableInv /\ AtSomePoint /\ job \in JobType
    BY <1>3 DEF CrashInv
  <2>2. CASE JobStep
    <3>1. Writes \/ Deletes \/ ErasesAll
      BY <2>2, JobStepBusy DEF Follows
    <3>2. QED
      BY <2>1, <2>2, <3>1, JobStepFollows
  <2>3. job = Idle => AtIdle
    BY <2>1, PointOf DEF Running, Idle
  <2>4. ASSUME NEW fd \in FdArgs, NEW buf \in BufArgs, NEW count \in CountArgs,
               StartWrite(fd, buf, count)
        PROVE  Follows'
    BY <2>1, <2>3, <2>4, StartFollows DEF StartWrite
  <2>5. ASSUME NEW name, StartDelete(name)
        PROVE  Follows'
    BY <2>1, <2>3, <2>5, StartFollows DEF StartDelete
  <2>6. ASSUME StartEraseAll
        PROVE  Follows'
    BY <2>1, <2>3, <2>6, StartFollows DEF StartEraseAll
  <2>7. ~OneStepCall /\ ~Kill
    BY DEF OneStepCall, Kill
  <2>8. QED
    BY <1>3, <2>2, <2>4, <2>5, <2>6, <2>7 DEF CarefulNext, CrashNext
<1>4. QED
  BY <1>1, <1>2, <1>3

-----------------------------------------------------------------------------
(* What FileSystem sees of a step.                                         *)

LEMMA OneStepCallSeen ==
  ASSUME OneStepCall
  PROVE  Atomic!Next
<1>1. job = Idle /\ job' = Idle
  BY DEF OneStepCall
<1>2. CASE fs_mount \/ fs_umount \/ fs_info \/ fs_ls \/ free_blocks \/ erase_all_files
  BY <1>1, <1>2, SameMount, SameInfo, SameLs, SameEraseAll DEF Atomic!Next
<1>3. ASSUME NEW name \in NameArgs, fs_create(name) \/ fs_open(name) \/ fs_delete(name)
      PROVE  Atomic!Next
  BY <1>1, <1>3, SameCreate, SameOpen, SameDelete, SameArgs DEF Atomic!Next
<1>4. ASSUME NEW fd \in FdArgs, fs_close(fd) \/ fs_stat(fd)
      PROVE  Atomic!Next
  BY <1>1, <1>4, SameFdCalls, SameArgs DEF Atomic!Next
<1>5. ASSUME NEW fd \in FdArgs, NEW offset \in OffsetArgs, fs_lseek(fd, offset)
      PROVE  Atomic!Next
  BY <1>1, <1>5, SameFdCalls, SameArgs DEF Atomic!Next
<1>6. ASSUME NEW fd \in FdArgs, NEW buf \in BufArgs, NEW count \in CountArgs,
             fs_read(fd, buf, count) \/ fs_write(fd, buf, count)
      PROVE  Atomic!Next
  BY <1>1, <1>6, SameRead, SameWriteCall, SameArgs DEF Atomic!Next
<1>7. QED
  BY <1>2, <1>3, <1>4, <1>5, <1>6 DEF OneStepCall

LEMMA StartSeen ==
  ASSUME job = Idle, NEW argument, NEW before, before = Before(argument),
         job'.before = before, job'.pc # "idle", UNCHANGED <<disk_mounted, result>>
  PROVE  job' # Idle /\ UNCHANGED Atomic!vars
<1>1. job' # Idle
  BY DEF Idle
<1>2. /\ job'.before.root = root /\ job'.before.fat = fat
      /\ job'.before.data = data /\ job'.before.fd_table = fd_table
  BY DEF Before
<1>3. QED
  BY <1>1, <1>2 DEF Atomic!vars

LEMMA JobStepSeen ==
  ASSUME job \in JobType, JobStep, job' # Idle
  PROVE  UNCHANGED Atomic!vars
<1>1. job # Idle
  BY JobStepBusy
<1>2. UNCHANGED disk_mounted
  BY DEF JobStep, AddClear, AddIndex, AddClaim, PlanWrite, AllocClear, AllocLink, AllocMark,
    AllocDone, TransferBlock, WriteSize, SweepNext, EraseBlock, EraseDirectory, vars
<1>3. UNCHANGED result
  BY DEF JobStep, AddClear, AddIndex, AddClaim, PlanWrite, AllocClear, AllocLink, AllocMark,
    AllocDone, TransferBlock, WriteSize, SweepNext, EraseBlock, EraseDirectory, vars, Finish
<1>4. job'.before = job.before
  BY DEF JobStep, AddClear, AddIndex, AddClaim, PlanWrite, AllocClear, AllocLink, AllocMark,
    AllocDone, TransferBlock, WriteSize, SweepNext, EraseBlock, EraseDirectory, Goto, Finish, JobType
<1>5. QED
  BY <1>1, <1>2, <1>3, <1>4 DEF Atomic!vars

\* What CallsAreAtomic says of a step.
Explained ==
  \/ Kill
  \/ job # Idle /\ job' = Idle /\ AtomicCall
  \/ ~(job # Idle /\ job' = Idle) /\ (Atomic!Next \/ UNCHANGED Atomic!vars)

LEMMA NextExplained == CrashInv /\ Follows /\ [CarefulNext]_crash_vars => [Explained]_crash_vars
<1> SUFFICES ASSUME CrashInv, Follows, CarefulNext PROVE Explained
  OBVIOUS
<1>1. CASE Kill
  BY <1>1 DEF Explained
<1>2. CASE OneStepCall
  BY <1>2, OneStepCallSeen DEF Explained, OneStepCall
<1>3. ASSUME NEW fd, NEW buf, NEW count, StartWrite(fd, buf, count)
      PROVE  Explained
  <2>1. PICK before : before = Before(count)
    OBVIOUS
  <2>2. /\ job = Idle /\ job'.before = before /\ job'.pc # "idle"
        /\ UNCHANGED <<disk_mounted, result>>
    BY <1>3, <2>1 DEF StartWrite, Idle, vars
  <2>3. QED
    BY <2>1, <2>2, StartSeen DEF Explained
<1>4. ASSUME NEW name, StartDelete(name)
      PROVE  Explained
  <2>1. PICK before : before = Before(name)
    OBVIOUS
  <2>2. /\ job = Idle /\ job'.before = before /\ job'.pc # "idle"
        /\ UNCHANGED <<disk_mounted, result>>
    BY <1>4, <2>1 DEF StartDelete, Idle
  <2>3. QED
    BY <2>1, <2>2, StartSeen DEF Explained
<1>5. CASE StartEraseAll
  <2>1. PICK before : before = Before(Null)
    OBVIOUS
  <2>2. /\ job = Idle /\ job'.before = before /\ job'.pc # "idle"
        /\ UNCHANGED <<disk_mounted, result>>
    BY <1>5, <2>1 DEF StartEraseAll, Idle, vars
  <2>3. QED
    BY <2>1, <2>2, StartSeen DEF Explained
<1>6. CASE JobStep
  <2>1. job # Idle /\ job \in JobType
    BY <1>6, JobStepBusy DEF CrashInv
  <2>2. TableInv /\ AtSomePoint /\ (Writes \/ Deletes \/ ErasesAll)
    BY <2>1 DEF CrashInv, Wrecked, Follows
  <2>3. CASE job' = Idle
    BY <1>6, <2>1, <2>2, <2>3, JobStepFollows DEF Explained
  <2>4. CASE job' # Idle
    BY <1>6, <2>1, <2>4, JobStepSeen DEF Explained
  <2>5. QED
    BY <2>3, <2>4
<1>7. QED
  BY <1>1, <1>2, <1>3, <1>4, <1>5, <1>6 DEF CarefulNext, CrashNext

\* The block writes of a call that is not killed come to what FileSystem says the same
\* call does in one step, with shared descriptors too, and also on a volume that has been
\* through kills, as long as none tore a file: CrashFS implements FileSystem (fs_write,
\* fs_delete and erase_all_files).
THEOREM CallsAtomic == CarefulSpec => CallsAreAtomic
<1>1. CrashInit => CrashInv /\ Follows
  BY CrashInitInv, FollowsInit
<1>2. CrashInv /\ Follows /\ [CarefulNext]_crash_vars => (CrashInv /\ Follows)'
  BY CrashNextInv, FollowsNext
<1>3. CrashInv /\ Follows /\ [CarefulNext]_crash_vars => [Explained]_crash_vars
  BY NextExplained
<1>4. QED
  BY <1>1, <1>2, <1>3, PTL DEF CarefulSpec, CallsAreAtomic, Explained

==============================================================================
