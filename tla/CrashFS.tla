------------------------------- MODULE CrashFS -------------------------------
(***************************************************************************)
(* FileSystem with the calls that write more than one block taken apart at  *)
(* their block writes, and a process that may be killed between any two of  *)
(* them.  A kill loses the open disk, the descriptor table and the call;    *)
(* the blocks written so far stay, in the order they were written, and a    *)
(* block is written whole or not at all.                                    *)
(*                                                                          *)
(* CrashSpec is the code: a volume that a kill has torn - a chain leads to  *)
(* a free block - can be mounted and used again, since libfs has no check   *)
(* and no repair.  CarefulSpec adds a client that does not do that, which   *)
(* is what most of the properties need.                                     *)
(***************************************************************************)
EXTENDS FileSystem

VARIABLES
  job,      \* the call under way
  damage    \* what kills have left: the files torn, and whether blocks are lost

crash_vars == <<vars, job, damage>>

\* A job is where its call is (pc), what it was called with, and what it has worked
\* out since.  before is the volume and the table as the call found them, with the name
\* or the count it was given: nothing the code has, but what its outcome is compared
\* with.
JobPc == {"add", "index", "claim", "plan", "extend", "link", "mark", "transfer", "sweep", "erase"}

NoBefore == [argument |-> Null, root |-> Null, fat |-> Null, data |-> Null, fd_table |-> Null]
Before(argument) ==
  [argument |-> argument, root |-> root, fat |-> fat, data |-> data, fd_table |-> fd_table]

Idle ==
  [pc |-> "idle", call |-> Null, fd |-> 0, buf |-> Null, start |-> 0, wanted |-> 0,
   needed_blocks |-> 0, new_blocks |-> 0, at_end |-> FALSE, end_block |-> 0,
   available_block |-> 0, write_block |-> 0, slot |-> 0, before |-> NoBefore]

CrashInit ==
  /\ Init
  /\ job = Idle
  /\ damage = [torn |-> {}, leaked |-> FALSE]

Running(pc) == job.pc = pc
JobNode == Node(job.fd)
Goto(pc) == job' = [job EXCEPT !.pc = pc]
Finish(code) == job' = Idle /\ Return(code)

\* The loops over a chain that have no bound in the code come to an end from b on.
ChainHasEnd(b) == \E c \in ChainOf(fat, b) : get_fat_entry(fat, c) = FAT_EOC

-----------------------------------------------------------------------------
(* fs_write.                                                               *)

\* The calls of fs_write that return before their first block write.
WritesNothing(fd, buf, count) ==
  \/ buf = Null
  \/ ~isUsable(fd)
  \/ count = 0
  \/ isUsable(fd) /\ Node(fd).first_data_block = FAT_EOC /\ DiskFull(fat)

StartWrite(fd, buf, count) ==
  /\ job = Idle /\ ~WritesNothing(fd, buf, count)
  /\ job' = [Idle EXCEPT !.pc = IF Node(fd).first_data_block = FAT_EOC THEN "add" ELSE "plan",
                         !.call = "write", !.fd = fd, !.buf = buf, !.start = Node(fd).offset,
                         !.wanted = Node(fd).offset + count, !.before = Before(count)]
  /\ UNCHANGED <<vars, damage>>

\* mutant: the block is claimed before the directory names it.
AddClear_ClaimsFirst ==
  /\ Running("add")
  /\ fd_table' = [fd_table EXCEPT !.nodes[job.fd].first_data_block = first_block_available(fat)]
  /\ data' = clear_block(data, first_block_available(fat))
  /\ fat' = set_fat_entry(fat, first_block_available(fat), FAT_EOC)
  /\ Goto("index")
  /\ UNCHANGED <<disk_mounted, root, result, damage>>

\* add_file_to_disk: the block is cleared, named in the directory, claimed in the FAT.
AddClear ==
  /\ Running("add")
  /\ fd_table' = [fd_table EXCEPT !.nodes[job.fd].first_data_block = first_block_available(fat)]
  /\ data' = clear_block(data, first_block_available(fat))
  /\ Goto("index")
  /\ UNCHANGED <<disk_mounted, root, fat, result, damage>>

AddIndex ==
  /\ Running("index")
  /\ root' = [root EXCEPT ![JobNode.dir_entry_index].index = JobNode.first_data_block]
  /\ Goto("claim")
  /\ UNCHANGED <<disk_mounted, fd_table, fat, data, result, damage>>

AddClaim ==
  /\ Running("claim")
  /\ fat' = set_fat_entry(fat, JobNode.first_data_block, FAT_EOC)
  /\ Goto("plan")
  /\ UNCHANGED <<disk_mounted, fd_table, root, data, result, damage>>

\* No block is written while the call works out how many it needs.  It counts the
\* blocks of the chain, and stays at that if the chain has no end.
PlanWrite ==
  /\ Running("plan")
  /\ ChainHasEnd(JobNode.first_data_block)
  /\ LET first == JobNode.first_data_block
         total_bytes == total_file_blocks(fat, first) * BlockSize
     IN  job' = [job EXCEPT
                   !.pc = "extend",
                   !.needed_blocks = IF job.wanted > total_bytes
                                     THEN total_block_size(job.wanted - total_bytes) ELSE 0,
                   !.at_end = job.wanted > total_bytes /\ JobNode.offset = total_bytes,
                   !.end_block = skip_blocks(fat, first, total_file_blocks(fat, first) - 1)]
  /\ UNCHANGED <<vars, damage>>

\* mutant: the free block is looked up in the FAT as the call found it.
AllocClear_StaleSearch ==
  /\ Running("extend") /\ job.needed_blocks > 0 /\ ~DiskFull(fat)
  /\ data' = clear_block(data, first_block_available(job.before.fat))
  /\ job' = [job EXCEPT !.pc = "link",
                        !.available_block = first_block_available(job.before.fat)]
  /\ UNCHANGED <<disk_mounted, fd_table, root, fat, result, damage>>

\* allocate_more_blocks: cleared, linked behind the end of the chain, marked as the end.
AllocClear ==
  /\ Running("extend") /\ job.needed_blocks > 0 /\ ~DiskFull(fat)
  /\ data' = clear_block(data, first_block_available(fat))
  /\ job' = [job EXCEPT !.pc = "link", !.available_block = first_block_available(fat)]
  /\ UNCHANGED <<disk_mounted, fd_table, root, fat, result, damage>>

AllocLink ==
  /\ Running("link")
  /\ fat' = set_fat_entry(fat, job.end_block, job.available_block)
  /\ Goto("mark")
  /\ UNCHANGED <<disk_mounted, fd_table, root, data, result, damage>>

\* mutant: the new end is not marked.
AllocMark_NotMarked ==
  /\ Running("mark")
  /\ job' = [job EXCEPT !.pc = "extend", !.end_block = job.available_block,
                        !.needed_blocks = @ - 1, !.new_blocks = @ + 1]
  /\ UNCHANGED <<vars, damage>>

AllocMark ==
  /\ Running("mark")
  /\ fat' = set_fat_entry(fat, job.available_block, FAT_EOC)
  /\ job' = [job EXCEPT !.pc = "extend", !.end_block = job.available_block,
                        !.needed_blocks = @ - 1, !.new_blocks = @ + 1]
  /\ UNCHANGED <<disk_mounted, fd_table, root, data, result, damage>>

\* What could be allocated has been.  Nothing at the end of the file: the call is over.
\* Otherwise it counts again, and writes as far as the blocks go.
AllocDone ==
  /\ Running("extend") /\ (job.needed_blocks = 0 \/ DiskFull(fat))
  /\ IF job.at_end /\ job.new_blocks = 0
       THEN Finish(0)
       ELSE LET first == JobNode.first_data_block
                room == total_file_blocks(fat, first) * BlockSize
            IN  /\ ChainHasEnd(first)
                /\ job' = [job EXCEPT
                     !.pc = "transfer",
                     !.wanted = IF @ > room THEN room ELSE @,
                     !.write_block = skip_blocks(fat, first, current_block_offset(JobNode.offset))]
                /\ UNCHANGED result
  /\ UNCHANGED <<disk_mounted, fd_table, volume, damage>>

\* mutant: the directory gets the size before the bytes are there.
TransferBlock_SizeFirst ==
  /\ Running("transfer") /\ JobNode.offset < job.wanted
  /\ LET s == WriteTurn(fat, job.wanted, Bytes(JobNode.filename, job.start, job.buf), job.start)
                [[offset |-> JobNode.offset, size |-> JobNode.size,
                  block |-> job.write_block, data |-> data]]
     IN  /\ data' = s.data
         /\ root' = [root EXCEPT ![JobNode.dir_entry_index].size = job.wanted]
         /\ fd_table' = [fd_table EXCEPT !.nodes[job.fd].offset = s.offset,
                                         !.nodes[job.fd].size = s.size]
         /\ job' = [job EXCEPT !.write_block = s.block]
  /\ UNCHANGED <<disk_mounted, fat, result, damage>>

\* One turn of the write loop: one block.
TransferBlock ==
  /\ Running("transfer") /\ JobNode.offset < job.wanted
  /\ LET s == WriteTurn(fat, job.wanted, Bytes(JobNode.filename, job.start, job.buf), job.start)
                [[offset |-> JobNode.offset, size |-> JobNode.size,
                  block |-> job.write_block, data |-> data]]
     IN  /\ data' = s.data
         /\ fd_table' = [fd_table EXCEPT !.nodes[job.fd].offset = s.offset,
                                         !.nodes[job.fd].size = s.size]
         /\ job' = [job EXCEPT !.write_block = s.block]
  /\ UNCHANGED <<disk_mounted, root, fat, result, damage>>

WriteSize ==
  /\ Running("transfer") /\ JobNode.offset >= job.wanted
  /\ root' = [root EXCEPT ![JobNode.dir_entry_index].size = JobNode.size]
  /\ Finish(JobNode.offset - job.start)
  /\ UNCHANGED <<disk_mounted, fd_table, fat, data, damage>>

-----------------------------------------------------------------------------
(* fs_delete and erase_all_files.                                          *)

\* fs_delete of a file without blocks writes the directory and nothing else.
HasBlocks(name) ==
  Entries(name) # {} /\ root[FirstEntry(name)].index # FAT_EOC

\* mutant: the chain is given back before the entry is cleared, which it is at the end.
StartDelete_EntryLast(name) ==
  /\ job = Idle /\ disk_mounted /\ isValidFileName(name) /\ HasBlocks(name)
  /\ ~isOpenByName(fd_table, name)
  /\ job' = [Idle EXCEPT !.pc = "erase", !.call = "delete",
                         !.write_block = root[FirstEntry(name)].index, !.before = Before(name)]
  /\ UNCHANGED <<vars, damage>>

\* The entry is cleared first.
StartDelete(name) ==
  /\ job = Idle /\ disk_mounted /\ isValidFileName(name) /\ HasBlocks(name)
  /\ ~isOpenByName(fd_table, name)
  /\ root' = [root EXCEPT ![FirstEntry(name)] = EmptyEntry]
  /\ job' = [Idle EXCEPT !.pc = "erase", !.call = "delete",
                         !.write_block = root[FirstEntry(name)].index, !.before = Before(name)]
  /\ UNCHANGED <<disk_mounted, fd_table, fat, data, result, damage>>

StartEraseAll ==
  /\ job = Idle /\ disk_mounted /\ fd_table.fdsOccupied = 0
  /\ job' = [Idle EXCEPT !.pc = "sweep", !.call = "erase_all", !.before = Before(Null)]
  /\ UNCHANGED <<vars, damage>>

\* The entries erase_all_files has yet to come to that have blocks.
ToErase == {i \in Listed : i >= job.slot /\ root[i].index # FAT_EOC}

SweepNext ==
  /\ Running("sweep") /\ ToErase # {}
  /\ LET i == CHOOSE i \in ToErase : \A j \in ToErase : i <= j
     IN  job' = [job EXCEPT !.pc = "erase", !.slot = i, !.write_block = root[i].index]
  /\ UNCHANGED <<vars, damage>>

\* mutant: the loop over the directory stays at its entry.
EraseBlock_SlotKept ==
  /\ Running("erase")
  /\ LET next == get_fat_entry(fat, job.write_block)
     IN  /\ fat' = set_fat_entry(fat, job.write_block, 0)
         /\ IF next # FAT_EOC
              THEN job' = [job EXCEPT !.write_block = next] /\ UNCHANGED result
            ELSE IF job.call = "delete"
              THEN Finish(0)
              ELSE job' = [job EXCEPT !.pc = "sweep"] /\ UNCHANGED result
  /\ UNCHANGED <<disk_mounted, fd_table, root, data, damage>>

\* One turn of erase_file.
EraseBlock ==
  /\ Running("erase")
  /\ LET next == get_fat_entry(fat, job.write_block)
     IN  /\ fat' = set_fat_entry(fat, job.write_block, 0)
         /\ IF next # FAT_EOC
              THEN job' = [job EXCEPT !.write_block = next] /\ UNCHANGED result
            ELSE IF job.call = "delete"
              THEN Finish(0)
              ELSE job' = [job EXCEPT !.pc = "sweep", !.slot = @ + 1] /\ UNCHANGED result
  /\ UNCHANGED <<disk_mounted, fd_table, root, data, damage>>

\* The directory, last.
EraseDirectory ==
  /\ Running("sweep") /\ ToErase = {}
  /\ root' = [i \in DirSlots |-> EmptyEntry]
  /\ Finish(0)
  /\ UNCHANGED <<disk_mounted, fd_table, fat, data, damage>>

-----------------------------------------------------------------------------
(* The other calls write one block or none.                                *)

OneStepCall ==
  /\ job = Idle
  /\ \/ fs_mount
     \/ fs_umount
     \/ fs_info
     \/ fs_ls
     \/ free_blocks
     \/ erase_all_files /\ (~disk_mounted \/ fd_table.fdsOccupied # 0)
     \/ \E name \in NameArgs : fs_create(name)
     \/ \E name \in NameArgs : fs_open(name)
     \/ \E name \in NameArgs :
          /\ ~disk_mounted \/ isOpenByName(fd_table, name) \/ ~HasBlocks(name)
          /\ fs_delete(name)
     \/ \E fd \in FdArgs : fs_close(fd)
     \/ \E fd \in FdArgs : fs_stat(fd)
     \/ \E fd \in FdArgs, offset \in OffsetArgs : fs_lseek(fd, offset)
     \/ \E fd \in FdArgs, buf \in BufArgs, count \in CountArgs : fs_read(fd, buf, count)
     \/ \E fd \in FdArgs, buf \in BufArgs, count \in CountArgs :
          WritesNothing(fd, buf, count) /\ fs_write(fd, buf, count)
  /\ UNCHANGED <<job, damage>>

JobStep ==
  \/ AddClear \/ AddIndex \/ AddClaim
  \/ PlanWrite
  \/ AllocClear \/ AllocLink \/ AllocMark \/ AllocDone
  \/ TransferBlock \/ WriteSize
  \/ SweepNext \/ EraseBlock \/ EraseDirectory

-----------------------------------------------------------------------------
(* Kills.                                                                  *)

\* The files whose chains lead to a free block right now: the one that is between two
\* writes of an allocation, and those erase_all_files has erased and not yet unlisted.
Torn ==
  IF Running("claim") \/ Running("mark") THEN {JobNode.filename}
  ELSE IF job.call = "erase_all"
  THEN {root[i].filename : i \in {j \in Listed : /\ root[j].index # FAT_EOC
                                                 /\ \/ j < job.slot
                                                    \/ j = job.slot /\ Running("erase")
                                                         /\ job.write_block # root[j].index}}
  ELSE {}

\* The chain of a deleted file has no other owner than the call that gives it back.
Orphaned == job.call = "delete"

Kill ==
  /\ disk_mounted
  /\ disk_mounted' = FALSE
  /\ fd_table' = fd_table_constructor
  /\ job' = Idle
  /\ damage' = [torn |-> damage.torn \cup Torn, leaked |-> damage.leaked \/ Orphaned]
  /\ result' = Outcome(0)
  /\ UNCHANGED volume

CrashNext ==
  \/ OneStepCall
  \/ \E fd \in FdArgs, buf \in BufArgs, count \in CountArgs : StartWrite(fd, buf, count)
  \/ \E name \in NameArgs : StartDelete(name)
  \/ StartEraseAll
  \/ JobStep
  \/ Kill

\* A process that is not killed runs its call on: a call waits for nothing.
CrashSpec == CrashInit /\ [][CrashNext]_crash_vars /\ WF_crash_vars(JobStep)

\* The client that throws a volume away once a kill has torn a file on it.
CarefulNext == CrashNext /\ (disk_mounted' => damage.torn = {})
CarefulSpec == CrashInit /\ [][CarefulNext]_crash_vars /\ WF_crash_vars(JobStep)

-----------------------------------------------------------------------------
(* What a kill can do and what it cannot.                                  *)

\* Walking the chain of entry i leads to a free block.
ReachesFree(i) == root[i].index # FAT_EOC /\ \E b \in ChainOf(fat, root[i].index) : fat[b] = 0

\* A kill tears the chain of no file but of one whose allocation it cut between two FAT
\* or directory writes (disk.c:175-179, 317-319), and of those erase_all_files had
\* erased (utilities.c:111-126); those it always tears.  At every moment, inside a
\* call too.
TornExactly ==
  \A i \in Listed : ReachesFree(i) <=> root[i].filename \in damage.torn \cup Torn

\* As long as no file is torn, a kill anywhere leaves a volume on which everything
\* FileSystem relies on holds again once it is mounted: fs_delete clears the entry
\* before the chain, fs_write puts a new block in no second chain.
ChainsSurviveKill ==
  job = Idle /\ damage.torn = {} => ChainInv /\ ChainsDisjoint /\ WalksEnd

\* No kill moves or loses a byte of a file that is not torn: its size reaches no
\* further than the bytes written, and a write that was cut leaves each byte old or
\* new.
BytesSurviveKill ==
  \A i \in Listed : root[i].filename \notin damage.torn \cup Torn =>
    \A p \in 0 .. root[i].size - 1 :
      \E v \in Versions :
        data[skip_blocks(fat, root[i].index, current_block_offset(p))][p % BlockSize]
          = <<root[i].filename, p, v>>

\* A write that is cut loses no blocks: each is reachable before it is taken.  Only a
\* delete that is cut leaves blocks that no file has and no search finds free.
LeaksOnlyByDelete ==
  damage.torn \cup Torn = {} /\ ~damage.leaked /\ ~Orphaned =>
    Blocks \ FreeBlocks(fat) = {0} \cup UNION {ChainOf(fat, h) : h \in DirHeads}

\* What FileSystem shows of a call that is under way: nothing yet.
Atomic == INSTANCE FileSystem WITH
  root <- IF job = Idle THEN root ELSE job.before.root,
  fat <- IF job = Idle THEN fat ELSE job.before.fat,
  data <- IF job = Idle THEN data ELSE job.before.data,
  fd_table <- IF job = Idle THEN fd_table ELSE job.before.fd_table

\* The call under way, as FileSystem has it: one step from the state it found.
AtomicCall ==
  \/ job.call = "write" /\ Atomic!fs_write(job.fd, job.buf, job.before.argument)
  \/ job.call = "delete" /\ Atomic!fs_delete(job.before.argument)
  \/ job.call = "erase_all" /\ Atomic!erase_all_files

\* The block writes of a call that is not killed come to what FileSystem says the same
\* call does in one step, also on a volume that has been through kills.
CallsAreAtomic ==
  [][\/ Kill
     \/ job # Idle /\ job' = Idle /\ AtomicCall
     \/ ~(job # Idle /\ job' = Idle) /\ (Atomic!Next \/ UNCHANGED Atomic!vars)]_crash_vars

\* Every call returns, unless the process is killed: no walk goes round for ever.
\* fs.h:112-114 and 203-205 have no other outcome.  The careful client can rely on it, on
\* volumes that kills have left with blocks beyond a file's size or blocks of no file;
\* one that goes on with a torn volume can not.
CallsReturn == (job # Idle) ~> (job = Idle)

==============================================================================
