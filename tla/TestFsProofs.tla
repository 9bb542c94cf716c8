----------------------------- MODULE TestFsProofs -----------------------------
(***************************************************************************)
(* Proofs about TestFs: whatever commands are run one after another, with   *)
(* whatever scripts, the volume stays sound, the interpreter's flag and     *)
(* descriptor are what it takes them for, and a process unmounts what it    *)
(* has mounted.                                                             *)
(***************************************************************************)
EXTENDS TestFs, ContentProofs

ProcType ==
  [command : Commands \cup {"none"},
   pc : {"none", "script", "mount", "info", "ls", "create", "delete", "open", "write", "stat",
         "read", "close", "umount", "bail", "return", "die"},
   filename : NameArgs, count : CountArgs, fs_fd : FdArgs, stat : Int, mounted : BOOLEAN,
   line : Nat, opened : NameArgs, remounted : BOOLEAN]

\* How far a command may have come, and what it knows there.
ProcInv ==
  /\ proc \in ProcType
  /\ At("none") => ~disk_mounted
  /\ At("mount") => ~disk_mounted /\ proc.command \in Commands \ {"script"}
  /\ At("create") => proc.command = "add"
  /\ At("open") => proc.command \in {"add", "cat", "stat"}
  /\ At("stat") => proc.command \in {"cat", "stat"}
  /\ At("read") => proc.stat \in Nat
  /\ At("script") => proc.command = "script"
  /\ proc.pc \notin {"return", "die"} =>
       proc.remounted = FALSE /\ (proc.command = "cat" => proc.stat # 0)

ClientInv == IInv /\ ProcInv /\ FlagAgrees /\ EndsUnmounted /\ FdIsLastOpened

-----------------------------------------------------------------------------
(* What the calls answer, and what they leave of the table.                *)

LEMMA Argument ==
  /\ -1 \in FdArgs /\ Fds \subseteq FdArgs /\ FdArgs \subseteq Int
  /\ 0 \in CountArgs /\ CountArgs \subseteq Nat
  /\ Versions \subseteq BufArgs /\ Null \in NameArgs
BY FdsFinite, ClientAssumption DEF FdArgs, Fds, CountArgs, BufArgs, NameArgs

LEMMA Mounted ==
  ASSUME TypeOK, fs_mount
  PROVE  disk_mounted' /\ (Failed <=> disk_mounted) /\ (~disk_mounted => fd_table' = fd_table_constructor)
         /\ (disk_mounted => fd_table' = fd_table)
BY OutcomeCode DEF TypeOK, fs_mount, Return, Failed

LEMMA Unmounted ==
  ASSUME TypeOK, fs_umount
  PROVE  ~disk_mounted' /\ (Failed <=> ~disk_mounted)
BY OutcomeCode DEF TypeOK, fs_umount, Return, Failed

\* A descriptor that is open stands for the same file after a call that changes no node's
\* name.
LEMMA SameNames ==
  ASSUME UNCHANGED <<disk_mounted, fd_table>>
  PROVE  \A fd : (isUsable(fd)' <=> isUsable(fd)) /\ Node(fd)' = Node(fd)
BY DEF isUsable, isOpenByFd, Node

LEMMA FreshNames ==
  ASSUME fd_table' = fd_table_constructor
  PROVE  \A fd : ~isUsable(fd)'
BY EmptyTable DEF isUsable, isOpenByFd, fd_table_constructor, InUse

LEMMA Opened ==
  ASSUME IInv, NEW name \in NameArgs, fs_open(name)
  PROVE  /\ disk_mounted' = disk_mounted
         /\ result'.code \in FdArgs
         /\ \A fd \in Fds : fd = result'.code => Node(fd)'.filename = name
<1>1. disk_mounted' = disk_mounted
  BY DEF fs_open
<1> DEFINE refused == \/ ~disk_mounted
                      \/ ~isValidFileName(name)
                      \/ table_is_full(fd_table)
                      \/ Entries(name) = {}
<1>2. CASE refused
  <2>1. result'.code = -1
    BY <1>2, OutcomeCode DEF fs_open, Return
  <2>2. QED
    BY <1>1, <2>1, Argument, FdsFinite
<1>3. CASE ~refused
  <2> PICK fd : fd = addFd(fd_table)
    OBVIOUS
  <2>1. fd \in Fds
    BY <1>3, AddFdFound DEF IInv, ChainInv
  <2>2. /\ fd_table' = Occupied(fd_table, fd, name, CacheEntry(Node(fd), FirstEntry(name)))
        /\ result'.code = fd
    BY <1>3, OutcomeCode DEF fs_open, Return
  <2>3. PICK node : node = CacheEntry(Node(fd), FirstEntry(name))
    OBVIOUS
  <2>4. Node(fd) \in NodeType /\ fd_table.nodes \in [Fds -> NodeType]
    BY <2>1, NodeFacts DEF IInv
  <2>5. DOMAIN node = DOMAIN Node(fd)
    BY <2>3 DEF CacheEntry
  <2>6. "filename" \in DOMAIN node
    BY <2>4, <2>5 DEF NodeType
  <2>7. Node(fd)'.filename = name
    BY <2>1, <2>2, <2>3, <2>4, <2>6 DEF Occupied, Node
  <2>8. QED
    BY <1>1, <2>1, <2>2, <2>7, Argument
<1>4. QED
  BY <1>2, <1>3

LEMMA Closed ==
  ASSUME IInv, NEW fd \in FdArgs, fs_close(fd)
  PROVE  disk_mounted' = disk_mounted /\ ~isUsable(fd)'
<1>1. disk_mounted' = disk_mounted
  BY DEF fs_close
<1>2. CASE ~isUsable(fd)
  BY <1>1, <1>2, SameNames DEF fs_close
<1>3. CASE isUsable(fd)
  <2>1. fd_table.nodes \in [Fds -> NodeType] /\ fd \in Fds
    BY <1>3, NodeFacts DEF IInv, isUsable
  <2>2. ~isOpenByFd(fd_table', fd)
    BY <1>3, <2>1 DEF fs_close, removeFd, isOpenByFd, fdNode_constructor
  <2>3. QED
    BY <1>1, <2>2 DEF isUsable
<1>4. QED
  BY <1>2, <1>3

\* Moving the offset of one descriptor.
LEMMA Moved ==
  ASSUME IInv, NEW fd, isUsable(fd), NEW offset,
         fd_table' = [fd_table EXCEPT !.nodes[fd].offset = offset]
  PROVE  Node(fd)'.filename = Node(fd).filename
<1>1. fd_table.nodes \in [Fds -> NodeType] /\ fd \in Fds
  BY NodeFacts DEF IInv, isUsable
<1>2. QED
  BY <1>1 DEF Node, NodeType

LEMMA SeekDone ==
  ASSUME IInv, NEW fd, NEW offset, fs_lseek(fd, offset)
  PROVE  disk_mounted' = disk_mounted /\ (isUsable(fd)' => isUsable(fd))
         /\ Node(fd)'.filename = Node(fd).filename
<1>1. disk_mounted' = disk_mounted
  BY DEF fs_lseek
<1>2. CASE ~isUsable(fd) \/ offset > Node(fd).size
  BY <1>1, <1>2, SameNames DEF fs_lseek
<1>3. CASE isUsable(fd) /\ ~(offset > Node(fd).size)
  BY <1>1, <1>3, Moved DEF fs_lseek
<1>4. QED
  BY <1>2, <1>3

LEMMA ReadDone ==
  ASSUME IInv, NEW fd, NEW buf, NEW count, fs_read(fd, buf, count)
  PROVE  disk_mounted' = disk_mounted /\ (isUsable(fd)' => isUsable(fd))
         /\ Node(fd)'.filename = Node(fd).filename
<1>1. disk_mounted' = disk_mounted
  BY DEF fs_read
<1>2. CASE fd_table' = fd_table
  BY <1>1, <1>2, SameNames
<1>3. CASE fd_table' # fd_table
  BY <1>1, <1>3, Moved DEF fs_read
<1>4. QED
  BY <1>2, <1>3

LEMMA Written ==
  ASSUME IInv, NEW fd \in FdArgs, NEW buf \in BufArgs, NEW count \in CountArgs,
         fs_write(fd, buf, count)
  PROVE  disk_mounted' = disk_mounted /\ (isUsable(fd)' => isUsable(fd))
         /\ Node(fd)'.filename = Node(fd).filename
<1>1. disk_mounted' = disk_mounted
  BY DEF fs_write
<1>2. CASE isUsable(fd)
  BY <1>1, <1>2, WriteStep
<1>3. CASE ~isUsable(fd)
  BY <1>1, <1>3, SameNames DEF fs_write
<1>4. QED
  BY <1>2, <1>3, WriteStep

-----------------------------------------------------------------------------
(* A step of the client.                                                   *)

LEMMA FdKept ==
  ASSUME FdIsLastOpened, proc'.fs_fd = proc.fs_fd, proc'.opened = proc.opened,
         NEW fd, fd = proc.fs_fd,
         isUsable(fd)' => isUsable(fd), Node(fd)'.filename = Node(fd).filename
  PROVE  FdIsLastOpened'
BY DEF FdIsLastOpened, isUsable, isOpenByFd, Node

LEMMA FdLost ==
  ASSUME NEW fd, fd = proc'.fs_fd, fd = -1 \/ ~isUsable(fd)'
  PROVE  FdIsLastOpened'
BY DEF FdIsLastOpened, isUsable, isOpenByFd

\* Going on elsewhere, with nothing else of the process changed.
LEMMA Gone ==
  ASSUME ProcInv, NEW pc, Goto(pc),
         pc \in {"info", "ls", "delete", "write", "read", "close", "umount", "bail",
                 "create", "open", "stat", "return", "die"}
  PROVE  /\ proc' \in ProcType /\ proc'.pc = pc
         /\ proc'.command = proc.command /\ proc'.fs_fd = proc.fs_fd /\ proc'.stat = proc.stat
         /\ proc'.mounted = proc.mounted /\ proc'.opened = proc.opened
         /\ proc'.filename = proc.filename /\ proc'.count = proc.count
         /\ proc'.remounted = proc.remounted
BY DEF ProcInv, ProcType, Goto

\* The line is done, and p is what the interpreter has made of it.
LEMMA RanTo ==
  ASSUME NEW p \in ProcType, NEW failed \in {"bail", "die"}, Ran(p, failed)
  PROVE  /\ proc' \in ProcType /\ proc'.pc = IF Failed THEN failed ELSE "script"
         /\ proc'.command = p.command /\ proc'.fs_fd = p.fs_fd /\ proc'.stat = p.stat
         /\ proc'.mounted = p.mounted /\ proc'.opened = p.opened
         /\ proc'.remounted = p.remounted
<1>1. PICK pc : pc = IF Failed THEN failed ELSE "script"
  OBVIOUS
<1> PICK line : line = p.line + 1
  OBVIOUS
<1>2. proc' = [p EXCEPT !.line = line, !.pc = pc] /\ pc \in {"bail", "die", "script"}
  BY <1>1 DEF Ran
<1>3. proc' \in ProcType /\ proc'.pc = pc
  <2>1. p.line \in Nat
    BY DEF ProcType
  <2>2. line \in Nat
    BY <2>1
  <2>3. QED
    BY <1>2, <2>2 DEF ProcType
<1>4. /\ proc'.command = p.command /\ proc'.fs_fd = p.fs_fd /\ proc'.stat = p.stat
      /\ proc'.mounted = p.mounted /\ proc'.opened = p.opened
      /\ proc'.remounted = p.remounted
  BY <1>2 DEF ProcType
<1>5. QED
  BY <1>1, <1>3, <1>4

LEMMA StartStep ==
  ASSUME ClientInv, NEW command \in Commands, NEW name \in NameArgs, NEW count \in CountArgs,
         Start(command, name, count)
  PROVE  ClientInv'
<1> PICK pc : pc = IF command = "script" THEN "script" ELSE "mount"
  OBVIOUS
<1>1. /\ UNCHANGED vars /\ proc.pc = "none" /\ ~disk_mounted
      /\ proc' = [NoProcess EXCEPT !.command = command, !.filename = name, !.count = count,
                                   !.pc = pc]
      /\ pc \in {"script", "mount"}
  BY DEF Start, NoProcess, ClientInv, ProcInv, At
<1>2. /\ proc' \in ProcType /\ proc'.command = command /\ proc'.fs_fd = -1 /\ proc'.mounted = FALSE
      /\ proc'.pc = pc /\ proc'.remounted = FALSE /\ proc'.stat = -1
  <2>1. /\ NoProcess \in ProcType /\ NoProcess.fs_fd = -1 /\ NoProcess.mounted = FALSE
        /\ NoProcess.remounted = FALSE /\ NoProcess.stat = -1
    BY Argument DEF NoProcess, ProcType
  <2> PICK p \in ProcType : p = NoProcess
    BY <2>1
  <2>2. proc' = [p EXCEPT !.command = command, !.filename = name, !.count = count, !.pc = pc]
    BY <1>1
  <2>3. QED
    BY <1>1, <2>1, <2>2 DEF ProcType
<1>3. IInv'
  BY <1>1, NextInv DEF ClientInv
<1>4. ProcInv' /\ FlagAgrees' /\ EndsUnmounted'
  BY <1>1, <1>2 DEF ProcInv, FlagAgrees, EndsUnmounted, At, vars
<1>5. FdIsLastOpened'
  BY <1>2, FdLost
<1>6. QED
  BY <1>3, <1>4, <1>5 DEF ClientInv

LEMMA MountStep == ClientInv /\ Mount => ClientInv'
<1> SUFFICES ASSUME ClientInv, Mount
             PROVE  ClientInv'
  OBVIOUS
<1>1. TypeOK /\ fs_mount /\ At("mount")
  BY DEF Mount, ClientInv, IInv
<1>2. disk_mounted' /\ ~Failed /\ fd_table' = fd_table_constructor
  BY <1>1, Mounted DEF ClientInv, ProcInv
<1>3. PICK pc : pc = FirstCall[proc.command]
  OBVIOUS
<1>4. /\ proc.command \in {"info", "ls", "add", "rm", "cat", "stat"}
      /\ Goto(pc)
  BY <1>1, <1>2, <1>3 DEF Mount, Continue, ClientInv, ProcInv, Commands
<1>5. /\ pc \in {"info", "ls", "create", "delete", "open"}
      /\ pc = "create" => proc.command = "add"
      /\ pc = "open" => proc.command \in {"cat", "stat"}
  BY <1>3, <1>4 DEF FirstCall
<1>6. /\ proc' \in ProcType /\ proc'.pc = pc /\ proc'.command = proc.command
      /\ proc'.stat = proc.stat /\ proc'.remounted = proc.remounted
  BY <1>4, <1>5, Gone DEF ClientInv
<1>7. ProcInv' /\ FlagAgrees' /\ EndsUnmounted'
  BY <1>1, <1>5, <1>6 DEF ClientInv, ProcInv, FlagAgrees, EndsUnmounted, At
<1>8. FdIsLastOpened'
  BY <1>2, FreshNames, FdLost
<1>9. IInv'
  BY <1>1, ReadOnlyCalls DEF ClientInv
<1>10. QED
  BY <1>7, <1>8, <1>9 DEF ClientInv

\* The calls after which nothing is mounted: the end of every command.
LEMMA UmountStep == ClientInv /\ (Umount \/ Bail) => ClientInv'
<1> SUFFICES ASSUME ClientInv, Umount \/ Bail
             PROVE  ClientInv'
  OBVIOUS
<1>1. fs_umount /\ TypeOK
  BY DEF Umount, Bail, ClientInv, IInv
<1>2. ~disk_mounted'
  BY <1>1, Unmounted
<1>3. PICK pc \in {"return", "die"} : Goto(pc)
  BY DEF Umount, Bail, Continue
<1>4. /\ proc' \in ProcType /\ proc'.pc = pc /\ proc'.command = proc.command
      /\ proc'.stat = proc.stat /\ proc'.remounted = proc.remounted
  BY <1>3, Gone DEF ClientInv
<1>5. proc.remounted = FALSE /\ (proc.command = "cat" => proc.stat # 0)
  BY DEF Umount, Bail, ClientInv, ProcInv, At
<1>6. ProcInv' /\ FlagAgrees' /\ EndsUnmounted'
  BY <1>2, <1>4, <1>5 DEF ProcInv, FlagAgrees, EndsUnmounted, At
<1>7. FdIsLastOpened'
  BY <1>2, FdLost DEF isUsable
<1>8. IInv'
  BY <1>1, ReadOnlyCalls DEF ClientInv
<1>9. QED
  BY <1>6, <1>7, <1>8 DEF ClientInv

\* The commands between their mount and their unmount.
LEMMA CommandStep ==
  ClientInv /\ (Info \/ Ls \/ Remove \/ Create \/ Write \/ Read \/ Close) => ClientInv'
<1> SUFFICES ASSUME ClientInv, Info \/ Ls \/ Remove \/ Create \/ Write \/ Read \/ Close
             PROVE  ClientInv'
  OBVIOUS
<1>1. /\ IInv /\ proc \in ProcType
      /\ proc.filename \in NameArgs /\ proc.fs_fd \in FdArgs /\ proc.count \in CountArgs
  BY DEF ClientInv, ProcInv, ProcType
<1>2. PICK fd : fd = proc.fs_fd
  OBVIOUS
<1>3. PICK pc \in {"umount", "bail", "open", "close"} :
        Goto(pc) /\ (pc = "open" => proc.command = "add")
  BY DEF Info, Ls, Remove, Create, Write, Read, Close, Continue, ClientInv, ProcInv
<1>4. /\ proc' \in ProcType /\ proc'.pc = pc /\ proc'.command = proc.command
      /\ proc'.fs_fd = proc.fs_fd /\ proc'.opened = proc.opened
      /\ proc'.stat = proc.stat /\ proc'.remounted = proc.remounted
  BY <1>3, Gone DEF ClientInv
<1>5. ProcInv' /\ FlagAgrees' /\ EndsUnmounted'
  <2>1. proc.remounted = FALSE /\ (proc.command = "cat" => proc.stat # 0)
    BY DEF Info, Ls, Remove, Create, Write, Read, Close, ClientInv, ProcInv, At
  <2>2. QED
    BY <1>3, <1>4, <2>1 DEF ProcInv, FlagAgrees, EndsUnmounted, At
<1>6. FdIsLastOpened /\ ProcInv
  BY DEF ClientInv
<1>7. CASE Info \/ Ls
  <2>1. (fs_info \/ fs_ls) /\ UNCHANGED <<disk_mounted, fd_table>>
    BY <1>7 DEF Info, Ls, fs_info, fs_ls
  <2>2. FdIsLastOpened'
    BY <1>2, <1>4, <1>6, <2>1, SameNames, FdKept
  <2>3. QED
    BY <1>1, <1>5, <2>1, <2>2, ReadOnlyCalls DEF ClientInv
<1>8. CASE Remove
  <2>1. fs_delete(proc.filename) /\ UNCHANGED <<disk_mounted, fd_table>>
    BY <1>8 DEF Remove, fs_delete
  <2>2. FdIsLastOpened'
    BY <1>2, <1>4, <1>6, <2>1, SameNames, FdKept
  <2>3. QED
    BY <1>1, <1>5, <2>1, <2>2, DeleteStep DEF ClientInv
<1>9. CASE Create
  <2>1. fs_create(proc.filename) /\ UNCHANGED <<disk_mounted, fd_table>>
    BY <1>9 DEF Create, fs_create
  <2>2. FdIsLastOpened'
    BY <1>2, <1>4, <1>6, <2>1, SameNames, FdKept
  <2>3. QED
    BY <1>1, <1>5, <2>1, <2>2, CreateStep DEF ClientInv
<1>10. CASE Write
  <2>1. PICK version \in BufArgs : fs_write(fd, version, proc.count)
    BY <1>2, <1>10, Argument DEF Write
  <2>2. FdIsLastOpened'
    BY <1>1, <1>2, <1>4, <1>6, <2>1, Written, FdKept
  <2>3. QED
    BY <1>1, <1>2, <1>5, <2>1, <2>2, WriteStep DEF ClientInv
<1>11. CASE Read
  <2>1. PICK buf \in Versions : fs_read(fd, buf, proc.stat)
    BY <1>2, <1>11 DEF Read
  <2>2. proc.stat \in Nat
    BY <1>6, <1>11 DEF Read, ProcInv
  <2>3. FdIsLastOpened'
    BY <1>1, <1>2, <1>4, <1>6, <2>1, ReadDone, FdKept
  <2>4. QED
    BY <1>1, <1>2, <1>5, <2>1, <2>2, <2>3, ReadStep DEF ClientInv
<1>12. CASE Close
  <2>1. fs_close(fd)
    BY <1>2, <1>12 DEF Close
  <2>2. FdIsLastOpened'
    BY <1>1, <1>2, <1>4, <2>1, Closed, FdLost
  <2>3. QED
    BY <1>1, <1>2, <1>5, <2>1, <2>2, CloseStep DEF ClientInv
<1>13. QED
  BY <1>7, <1>8, <1>9, <1>10, <1>11, <1>12

LEMMA OpenFileStep == ClientInv /\ OpenFile => ClientInv'
<1> SUFFICES ASSUME ClientInv, OpenFile
             PROVE  ClientInv'
  OBVIOUS
<1>1. /\ IInv /\ ProcInv /\ proc \in ProcType /\ proc.filename \in NameArgs
      /\ proc.command \in {"add", "cat", "stat"}
  BY DEF ClientInv, ProcInv, ProcType, OpenFile
<1>2. fs_open(proc.filename)
  BY DEF OpenFile
<1>3. PICK fd, pc : /\ fd = result'.code
                    /\ pc = IF Failed THEN "bail"
                            ELSE IF proc.command = "add" THEN "write" ELSE "stat"
  OBVIOUS
<1>4. /\ fd \in FdArgs
      /\ fd \in Fds => Node(fd)'.filename = proc.filename
  BY <1>1, <1>2, <1>3, Opened
<1>5. /\ proc' = [proc EXCEPT !.fs_fd = fd, !.opened = proc.filename, !.pc = pc]
      /\ pc \in {"bail", "write", "stat"}
      /\ pc = "stat" => proc.command \in {"cat", "stat"}
  BY <1>1, <1>3 DEF OpenFile
<1>6. /\ proc' \in ProcType /\ proc'.pc = pc /\ proc'.command = proc.command
      /\ proc'.fs_fd = fd /\ proc'.opened = proc.filename
      /\ proc'.stat = proc.stat /\ proc'.remounted = proc.remounted
  BY <1>1, <1>4, <1>5 DEF ProcType
<1>7. ProcInv' /\ FlagAgrees' /\ EndsUnmounted'
  BY <1>1, <1>5, <1>6 DEF OpenFile, ProcInv, FlagAgrees, EndsUnmounted, At
<1>8. FdIsLastOpened'
  BY <1>4, <1>6 DEF FdIsLastOpened, isUsable, Node
<1>9. IInv'
  BY <1>1, <1>2, OpenStep
<1>10. QED
  BY <1>7, <1>8, <1>9 DEF ClientInv

LEMMA StatStep == ClientInv /\ Stat => ClientInv'
<1> SUFFICES ASSUME ClientInv, Stat
             PROVE  ClientInv'
  OBVIOUS
<1>1. /\ IInv /\ ProcInv /\ proc \in ProcType /\ proc.fs_fd \in FdArgs
      /\ proc.command \in {"cat", "stat"}
  BY DEF ClientInv, ProcInv, ProcType, Stat
<1>2. fs_stat(proc.fs_fd) /\ UNCHANGED <<disk_mounted, fd_table>>
  BY DEF Stat, fs_stat
<1>3. IInv' /\ result'.code \in Int
  <2>1. IInv'
    BY <1>1, <1>2, ReadOnlyCalls
  <2>2. QED
    BY <2>1 DEF IInv, TypeOK
<1>4. PICK size \in Int : size = result'.code
  BY <1>3
<1>5. PICK pc : pc = IF proc.command = "stat" THEN "close"
                     ELSE IF Failed THEN "bail"
                     ELSE IF size = 0 THEN "return" ELSE "read"
  OBVIOUS
<1>6. /\ proc' = [proc EXCEPT !.stat = size, !.pc = pc]
      /\ pc \in {"close", "bail", "return", "read"}
      /\ pc = "read" => size \in Nat
      /\ pc = "return" => size = 0 /\ proc.command = "cat" /\ disk_mounted
      /\ pc # "return" /\ proc.command = "cat" => size # 0
      /\ proc.remounted = FALSE
  <2>1. size >= 0 => disk_mounted
    <3>1. ~disk_mounted => size = -1
      BY <1>2, <1>4, OutcomeCode DEF fs_stat, Return, isUsable
    <3>2. QED
      BY <3>1
  <2>2. QED
    BY <1>1, <1>4, <1>5, <2>1 DEF Stat, Failed, ProcInv, At
<1>7. /\ proc' \in ProcType /\ proc'.pc = pc /\ proc'.command = proc.command /\ proc'.stat = size
      /\ proc'.fs_fd = proc.fs_fd /\ proc'.opened = proc.opened
      /\ proc'.remounted = proc.remounted
  BY <1>1, <1>6 DEF ProcType
<1>8. ProcInv' /\ FlagAgrees' /\ EndsUnmounted'
  BY <1>2, <1>6, <1>7 DEF ProcInv, FlagAgrees, EndsUnmounted, At
<1>9. FdIsLastOpened'
  BY <1>2, <1>7, SameNames, FdKept DEF ClientInv
<1>10. QED
  BY <1>3, <1>8, <1>9 DEF ClientInv

\* A line that neither mounts nor unmounts.
LEMMA OrdinaryLine ==
  ASSUME ClientInv, At("script"), disk_mounted' = disk_mounted,
         NEW p \in ProcType, p.mounted = proc.mounted, p.command = proc.command,
         p.remounted = proc.remounted, Ran(p, "bail")
  PROVE  ProcInv' /\ FlagAgrees' /\ EndsUnmounted'
<1>1. /\ proc' \in ProcType /\ proc'.pc \in {"bail", "script"}
      /\ proc'.command = "script" /\ proc'.mounted = proc.mounted
      /\ proc'.remounted = proc.remounted
  BY RanTo DEF ClientInv, ProcInv
<1>2. QED
  BY <1>1 DEF ClientInv, ProcInv, FlagAgrees, EndsUnmounted, At

LEMMA MountLineStep == ClientInv /\ MountLine => ClientInv'
<1> SUFFICES ASSUME ClientInv, MountLine
             PROVE  ClientInv'
  OBVIOUS
<1>1. /\ IInv /\ ProcInv /\ proc \in ProcType /\ proc.command = "script" /\ TypeOK
      /\ (proc.mounted <=> disk_mounted) /\ proc.mounted \in BOOLEAN
  BY DEF ClientInv, ProcInv, ProcType, MountLine, NextLine, FlagAgrees, IInv
<1>2. fs_mount
  BY DEF MountLine
<1>3. /\ disk_mounted' /\ (Failed <=> disk_mounted)
      /\ ~disk_mounted => fd_table' = fd_table_constructor
      /\ disk_mounted => fd_table' = fd_table
  BY <1>1, <1>2, Mounted
<1>4. PICK p : p = [proc EXCEPT !.mounted = TRUE, !.remounted = disk_mounted]
  OBVIOUS
<1>5. Ran(p, "die")
  BY <1>1, <1>3, <1>4 DEF MountLine, ProcType
<1>6. p \in ProcType /\ p.mounted = TRUE /\ p.command = "script" /\ p.fs_fd = proc.fs_fd
      /\ p.opened = proc.opened /\ p.remounted = disk_mounted
  BY <1>1, <1>4 DEF ProcType, TypeOK
<1>7. /\ proc' \in ProcType /\ proc'.pc = (IF disk_mounted THEN "die" ELSE "script")
      /\ proc'.command = "script" /\ proc'.mounted = TRUE /\ proc'.fs_fd = proc.fs_fd
      /\ proc'.opened = proc.opened /\ proc'.remounted = disk_mounted
  BY <1>3, <1>5, <1>6, RanTo
<1>8. ProcInv' /\ FlagAgrees' /\ EndsUnmounted'
  BY <1>1, <1>3, <1>7 DEF TypeOK, ProcInv, FlagAgrees, EndsUnmounted, At
<1>9. FdIsLastOpened'
  <2>1. CASE disk_mounted
    <3>1. UNCHANGED <<disk_mounted, fd_table>>
      BY <1>1, <1>3, <2>1 DEF TypeOK, fs_mount
    <3>2. QED
      BY <1>7, <3>1, SameNames, FdKept DEF ClientInv
  <2>2. CASE ~disk_mounted
    BY <1>3, <2>2, FreshNames, FdLost
  <2>3. QED
    BY <2>1, <2>2
<1>10. IInv'
  BY <1>1, <1>2, ReadOnlyCalls
<1>11. QED
  BY <1>8, <1>9, <1>10 DEF ClientInv

LEMMA UmountLineStep == ClientInv /\ UmountLine => ClientInv'
<1> SUFFICES ASSUME ClientInv, UmountLine
             PROVE  ClientInv'
  OBVIOUS
<1>1. /\ IInv /\ ProcInv /\ proc \in ProcType /\ proc.command = "script" /\ TypeOK
      /\ (proc.mounted <=> disk_mounted) /\ proc.pc = "script" /\ proc.line \in Nat
  BY DEF ClientInv, ProcInv, ProcType, UmountLine, NextLine, FlagAgrees, IInv, At
<1>2. CASE proc.mounted
  <2>1. fs_umount
    BY <1>2 DEF UmountLine
  <2>2. ~disk_mounted' /\ ~Failed
    BY <1>1, <1>2, <2>1, Unmounted
  <2>3. PICK p : p = [proc EXCEPT !.mounted = FALSE]
    OBVIOUS
  <2>4. Ran(p, "die")
    <3>1. Failed = FALSE
      BY <2>2 DEF Failed
    <3>2. QED
      BY <1>2, <2>3, <3>1 DEF UmountLine
  <2>5. p \in ProcType /\ p.mounted = FALSE /\ p.command = "script" /\ p.remounted = FALSE
    BY <1>1, <2>3 DEF ProcType, ProcInv
  <2>6. /\ proc' \in ProcType /\ proc'.pc = "script" /\ proc'.command = "script"
        /\ proc'.mounted = FALSE /\ proc'.remounted = FALSE
    BY <2>2, <2>4, <2>5, RanTo
  <2>7. ProcInv' /\ FlagAgrees' /\ EndsUnmounted'
    BY <2>2, <2>6 DEF ProcInv, FlagAgrees, EndsUnmounted, At
  <2>8. FdIsLastOpened'
    BY <2>2, FdLost DEF isUsable
  <2>9. IInv'
    BY <1>1, <2>1, ReadOnlyCalls
  <2>10. QED
    BY <2>7, <2>8, <2>9 DEF ClientInv
<1>3. CASE ~proc.mounted
  <2>1. UNCHANGED vars /\ proc' = [proc EXCEPT !.line = proc.line + 1]
    BY <1>3 DEF UmountLine
  <2>2. PICK line \in Nat : line = proc.line + 1
    BY <1>1
  <2>3. /\ proc' \in ProcType /\ proc'.pc = "script" /\ proc'.command = "script"
        /\ proc'.mounted = proc.mounted /\ proc'.fs_fd = proc.fs_fd /\ proc'.opened = proc.opened
        /\ proc'.remounted = proc.remounted
    BY <1>1, <2>1, <2>2 DEF ProcType
  <2>4. ProcInv' /\ FlagAgrees' /\ EndsUnmounted'
    BY <1>1, <2>1, <2>3 DEF ProcInv, FlagAgrees, EndsUnmounted, At, vars
  <2>5. FdIsLastOpened'
    BY <2>1, <2>3, SameNames, FdKept DEF vars, ClientInv
  <2>6. IInv'
    BY <1>1, <2>1, NextInv
  <2>7. QED
    BY <2>4, <2>5, <2>6 DEF ClientInv
<1>4. QED
  BY <1>2, <1>3

LEMMA OpenLineStep ==
  ASSUME ClientInv, NEW name \in NameArgs, OpenLine(name)
  PROVE  ClientInv'
<1>1. IInv /\ proc \in ProcType /\ At("script") /\ fs_open(name)
  BY DEF ClientInv, ProcInv, OpenLine, NextLine
<1>2. PICK fd : fd = result'.code
  OBVIOUS
<1>3. /\ disk_mounted' = disk_mounted /\ fd \in FdArgs
      /\ fd \in Fds => Node(fd)'.filename = name
  BY <1>1, <1>2, Opened
<1>4. PICK p : p = [proc EXCEPT !.fs_fd = fd, !.opened = name]
  OBVIOUS
<1>5. Ran(p, "bail")
  BY <1>2, <1>4 DEF OpenLine
<1>6. /\ p \in ProcType /\ p.mounted = proc.mounted /\ p.command = proc.command
      /\ p.fs_fd = fd /\ p.opened = name /\ p.remounted = proc.remounted
  BY <1>1, <1>3, <1>4 DEF ProcType
<1>7. ProcInv' /\ FlagAgrees' /\ EndsUnmounted'
  BY <1>1, <1>3, <1>5, <1>6, OrdinaryLine
<1>8. proc'.fs_fd = fd /\ proc'.opened = name
  BY <1>5, <1>6, RanTo
<1>9. FdIsLastOpened'
  BY <1>3, <1>8 DEF FdIsLastOpened, isUsable, Node
<1>10. IInv'
  BY <1>1, OpenStep
<1>11. QED
  BY <1>7, <1>9, <1>10 DEF ClientInv

\* The other lines keep the descriptor's number.
LEMMA LineStep ==
  ASSUME ClientInv,
         \/ \E name \in NameArgs : CreateLine(name) \/ DeleteLine(name)
         \/ CloseLine
         \/ \E offset \in OffsetArgs : SeekLine(offset)
         \/ \E buf \in BufArgs, count \in CountArgs : WriteLine(buf, count)
         \/ \E count \in CountArgs \cup {-1} : ReadLine(count)
  PROVE  ClientInv'
<1>1. IInv /\ ProcInv /\ proc \in ProcType /\ proc.fs_fd \in FdArgs /\ FdIsLastOpened
  BY DEF ClientInv, ProcInv, ProcType
<1>2. PICK fd : fd = proc.fs_fd
  OBVIOUS
<1>3. ASSUME At("script"), disk_mounted' = disk_mounted, Ran(proc, "bail"), IInv',
             isUsable(fd)' => isUsable(fd), Node(fd)'.filename = Node(fd).filename
      PROVE  ClientInv'
  <2>1. proc'.fs_fd = proc.fs_fd /\ proc'.opened = proc.opened
    BY <1>1, <1>3, RanTo
  <2>2. FdIsLastOpened'
    BY <1>1, <1>2, <1>3, <2>1, FdKept
  <2>3. QED
    BY <1>1, <1>3, <2>2, OrdinaryLine DEF ClientInv
<1>4. ASSUME NEW name \in NameArgs, CreateLine(name) \/ DeleteLine(name)
      PROVE  ClientInv'
  <2>1. (fs_create(name) \/ fs_delete(name)) /\ UNCHANGED <<disk_mounted, fd_table>>
    BY <1>4 DEF CreateLine, DeleteLine, fs_create, fs_delete
  <2>2. IInv'
    BY <1>1, <2>1, CreateStep, DeleteStep
  <2>3. QED
    BY <1>3, <1>4, <2>1, <2>2, SameNames DEF CreateLine, DeleteLine, NextLine
<1>5. CASE CloseLine
  <2>1. fs_close(fd) /\ At("script") /\ Ran(proc, "bail")
    BY <1>2, <1>5 DEF CloseLine, NextLine
  <2>2. disk_mounted' = disk_mounted /\ ~isUsable(fd)'
    BY <1>1, <1>2, <2>1, Closed
  <2>3. proc'.fs_fd = fd
    BY <1>1, <1>2, <2>1, RanTo
  <2>4. FdIsLastOpened'
    BY <2>2, <2>3, FdLost
  <2>5. QED
    BY <1>1, <1>2, <2>1, <2>2, <2>4, CloseStep, OrdinaryLine DEF ClientInv
<1>6. ASSUME NEW offset \in OffsetArgs, SeekLine(offset)
      PROVE  ClientInv'
  <2>1. fs_lseek(fd, offset) /\ At("script") /\ Ran(proc, "bail")
    BY <1>2, <1>6 DEF SeekLine, NextLine
  <2>2. QED
    BY <1>1, <1>2, <1>3, <2>1, SeekDone, SeekStep
<1>7. ASSUME UNCHANGED vars, Goto("bail"), At("script")
      PROVE  ClientInv'
  <2>1. /\ proc' \in ProcType /\ proc'.pc = "bail" /\ proc'.command = proc.command
        /\ proc'.fs_fd = proc.fs_fd /\ proc'.opened = proc.opened
        /\ proc'.stat = proc.stat /\ proc'.remounted = proc.remounted
    BY <1>1, <1>7, Gone
  <2>2. ProcInv' /\ FlagAgrees' /\ EndsUnmounted'
    BY <1>1, <1>7, <2>1 DEF ProcInv, FlagAgrees, EndsUnmounted, At
  <2>3. FdIsLastOpened'
    BY <1>1, <1>7, <2>1, SameNames, FdKept DEF vars
  <2>4. QED
    BY <1>1, <1>7, <2>2, <2>3, NextInv DEF ClientInv
<1>8. ASSUME NEW buf \in BufArgs, NEW count \in CountArgs, WriteLine(buf, count)
      PROVE  ClientInv'
  <2>1. CASE buf = Null
    BY <1>7, <1>8, <2>1 DEF WriteLine, NextLine
  <2>2. CASE buf # Null
    <3>1. fs_write(fd, buf, count) /\ At("script") /\ Ran(proc, "bail")
      BY <1>2, <1>8, <2>2 DEF WriteLine, NextLine
    <3>2. QED
      BY <1>1, <1>2, <1>3, <3>1, Written, WriteStep
  <2>3. QED
    BY <2>1, <2>2
<1>9. ASSUME NEW count \in CountArgs \cup {-1}, ReadLine(count)
      PROVE  ClientInv'
  <2>1. CASE count < 0
    BY <1>7, <1>9, <2>1 DEF ReadLine, NextLine
  <2>2. CASE ~(count < 0)
    <3>1. PICK buf \in Versions : fs_read(fd, buf, count)
      BY <1>2, <1>9, <2>2 DEF ReadLine
    <3>2. At("script") /\ Ran(proc, "bail") /\ count \in Nat
      BY <1>9, <2>2, Argument DEF ReadLine, NextLine
    <3>3. QED
      BY <1>1, <1>2, <1>3, <3>1, <3>2, ReadDone, ReadStep
  <2>3. QED
    BY <2>1, <2>2
<1>10. QED
  BY <1>4, <1>5, <1>6, <1>8, <1>9

LEMMA EndStep == ClientInv /\ (EndOfScript \/ Exit) => ClientInv'
<1> SUFFICES ASSUME ClientInv, EndOfScript \/ Exit
             PROVE  ClientInv'
  OBVIOUS
<1>1. /\ IInv /\ ProcInv /\ proc \in ProcType /\ TypeOK /\ FdIsLastOpened
  BY DEF ClientInv, ProcInv, IInv
<1>2. CASE EndOfScript
  <2>1. UNCHANGED vars /\ (proc.mounted <=> disk_mounted)
    BY <1>2 DEF EndOfScript, ClientInv, FlagAgrees
  <2>2. PICK pc \in {"umount", "return"} : Goto(pc) /\ (pc = "return" => ~disk_mounted)
    BY <1>2, <2>1 DEF EndOfScript
  <2>3. /\ proc' \in ProcType /\ proc'.pc = pc /\ proc'.command = "script"
        /\ proc'.fs_fd = proc.fs_fd /\ proc'.opened = proc.opened
        /\ proc'.remounted = FALSE
    BY <1>1, <1>2, <2>2, Gone DEF EndOfScript, ProcInv, At
  <2>4. ProcInv' /\ FlagAgrees' /\ EndsUnmounted'
    BY <2>1, <2>2, <2>3 DEF ProcInv, FlagAgrees, EndsUnmounted, At, vars
  <2>5. FdIsLastOpened'
    BY <1>1, <2>1, <2>3, SameNames, FdKept DEF vars
  <2>6. QED
    BY <1>1, <2>1, <2>4, <2>5, NextInv DEF ClientInv
<1>3. CASE Exit
  <2>1. /\ NoProcess \in ProcType /\ NoProcess.pc = "none" /\ NoProcess.fs_fd = -1
        /\ NoProcess.remounted = FALSE /\ NoProcess.stat = -1
    BY Argument DEF NoProcess, ProcType
  <2>2. /\ proc' \in ProcType /\ proc'.pc = "none" /\ proc'.fs_fd = -1
        /\ proc'.remounted = FALSE /\ proc'.stat = -1
    BY <1>3, <2>1 DEF Exit
  <2>3. ~disk_mounted' /\ IInv'
    <3>1. CASE disk_mounted
      <4>1. fs_umount
        BY <1>3, <3>1 DEF Exit
      <4>2. QED
        BY <1>1, <4>1, Unmounted, ReadOnlyCalls
    <3>2. CASE ~disk_mounted
      <4>1. UNCHANGED vars
        BY <1>3, <3>2 DEF Exit
      <4>2. QED
        BY <1>1, <3>2, <4>1, NextInv DEF vars
    <3>3. QED
      BY <3>1, <3>2
  <2>4. ProcInv' /\ FlagAgrees' /\ EndsUnmounted'
    BY <2>2, <2>3 DEF ProcInv, FlagAgrees, EndsUnmounted, At
  <2>5. FdIsLastOpened'
    BY <2>2, FdLost
  <2>6. QED
    BY <2>3, <2>4, <2>5 DEF ClientInv
<1>4. QED
  BY <1>2, <1>3

-----------------------------------------------------------------------------
(* cat and add, for clients that open no file a second time.                *)

\* A new descriptor has offset 0 and the size that the entry has, although fs_open does not
\* copy the 0 of an entry without blocks.
LEMMA OpenedFresh ==
  ASSUME IInv, CacheInv, NEW name \in NameArgs, fs_open(name), ~Failed,
         NEW fd, fd = result'.code
  PROVE  /\ isUsable(fd)' /\ Node(fd)'.filename = name /\ Node(fd)'.offset = 0
         /\ \E i \in Entries(name) : Node(fd)'.size = root[i].size
<1> DEFINE refused == \/ ~disk_mounted
                      \/ ~isValidFileName(name)
                      \/ table_is_full(fd_table)
                      \/ Entries(name) = {}
<1>1. ~refused
  <2>1. refused => result'.code = -1
    BY OutcomeCode DEF fs_open, Return
  <2>2. QED
    BY <2>1 DEF Failed
<1>2. PICK a, i, node : a = addFd(fd_table) /\ i = FirstEntry(name) /\ node = CacheEntry(Node(a), i)
  OBVIOUS
<1>3. a \in Fds \ Open /\ fd_table.nodes \in [Fds -> NodeType]
  BY <1>1, <1>2, AddFdFound, NodeFacts DEF IInv, ChainInv
<1>4. Node(a) = fdNode_constructor
  BY <1>3 DEF IInv, ChainInv, ClosedNodesReset
<1>5. /\ disk_mounted' /\ fd = a
      /\ fd_table' = Occupied(fd_table, a, name, node)
  BY <1>1, <1>2, OutcomeCode DEF fs_open, Return
<1>6. i \in Entries(name) /\ i \in Listed
  BY <1>1, <1>2, FirstEntryFound DEF Entries, Listed, isValidFileName
<1>7. node = [fdNode_constructor EXCEPT
                !.dir_entry_index = i,
                !.size = IF root[i].index # FAT_EOC THEN root[i].size ELSE 0,
                !.first_data_block = IF root[i].index # FAT_EOC THEN root[i].index ELSE FAT_EOC]
  BY <1>2, <1>4 DEF CacheEntry, fdNode_constructor
<1>8. node.offset = 0 /\ node.size = root[i].size
  <2>1. root[i].index = FAT_EOC => root[i].size = 0
    BY <1>6 DEF CacheInv, EmptyHasNoSize
  <2>2. QED
    BY <1>7, <2>1 DEF fdNode_constructor
<1>9. PICK new : new = [node EXCEPT !.in_use = TRUE, !.filename = name]
  OBVIOUS
<1>10. new.in_use /\ new.filename = name /\ new.offset = node.offset /\ new.size = node.size
  BY <1>7, <1>9 DEF fdNode_constructor
<1>11. fd_table'.nodes[a] = new
  BY <1>3, <1>5, <1>9 DEF Occupied
<1>12. QED
  BY <1>3, <1>5, <1>6, <1>8, <1>10, <1>11 DEF isUsable, isOpenByFd, Node

\* The entry behind a descriptor.
LEMMA EntryBehind ==
  ASSUME IInv, CacheInv, NEW fd, isUsable(fd),
         NEW i, i = Node(fd).dir_entry_index
  PROVE  /\ fd \in Open /\ Node(fd) \in NodeType
         /\ i \in Listed /\ i \in Entries(Node(fd).filename)
         /\ root[i].size = Node(fd).size /\ root[i].index = Node(fd).first_data_block
<1>1. fd \in Open /\ Node(fd) \in NodeType
  BY NodeFacts DEF IInv, isUsable, isOpenByFd, Node
<1>2. QED
  BY <1>1
  DEF IInv, ChainInv, OpenFilesListed, Listed, Entries, NodeType, CacheInv, CacheIsCurrent

\* A read of a whole file fills the buffer with its bytes.
LEMMA ReadWhole ==
  ASSUME IInv, CacheInv, ContentInv, NEW fd, isUsable(fd), NEW buf \in Versions,
         NEW count \in Nat, count # 0, count = Node(fd).size, Node(fd).offset = 0,
         fs_read(fd, buf, count)
  PROVE  /\ result'.code = count
         /\ \A p \in 1 .. count : \E v \in Versions :
              result'.buf[p] = <<Node(fd).filename, p - 1, v>>
<1>1. PICK node, i : node = Node(fd) /\ i = Node(fd).dir_entry_index
  OBVIOUS
<1>2. /\ node \in NodeType /\ i \in Listed /\ root[i].filename = node.filename
      /\ root[i].size = count /\ root[i].index = node.first_data_block
      /\ node.size = count /\ node.offset = 0
  BY <1>1, EntryBehind DEF Entries
<1>3. PICK first : first = node.first_data_block
  OBVIOUS
<1>4. first \in Blocks
  <2>1. first # FAT_EOC
    BY <1>2, <1>3 DEF CacheInv, EmptyHasNoSize
  <2>2. QED
    BY <1>2, <1>3, <2>1 DEF NodeType, Links
<1>5. PICK s : s = ReadOutcome(node, count)
  OBVIOUS
<1>6. result'.code = Len(s.buf) /\ result'.buf = s.buf
  <2>1. buf # Null /\ first # FAT_EOC /\ ~(node.offset >= node.size)
    BY <1>2, <1>4, ClientAssumption, Sizes
  <2>2. result' = [Outcome(Len(s.buf)) EXCEPT !.buf = s.buf]
    BY <1>1, <1>3, <1>5, <2>1 DEF fs_read
  <2>3. QED
    BY <2>2 DEF Outcome
<1>7. s.offset = count /\ Reading(fat, data, first, 0, count, s)
  <2>1. TypeOK /\ node.offset <= node.size
    BY <1>2 DEF IInv
  <2>2. count = IF node.offset + count > node.size THEN node.size ELSE node.offset + count
    BY <1>2
  <2>3. s.offset = count /\ Reading(fat, data, first, node.offset, count, s)
    BY <1>2, <1>3, <1>4, <1>5, <2>1, <2>2, ReadOutcomeBytes
  <2>4. QED
    BY <1>2, <2>3
<1>8. Len(s.buf) = count
  BY <1>7 DEF Reading
<1>9. ASSUME NEW p \in 1 .. count
      PROVE  s.buf[p] \in WrittenAt(node.filename, p - 1)
  <2>1. PICK q \in Nat : q = p - 1 /\ q < count /\ (q - 0) + 1 = p
    OBVIOUS
  <2>2. s.buf[p] = ByteAt(fat, data, first, q)
    BY <1>7, <2>1 DEF Reading
  <2>3. ByteAt(fat, data, first, q) \in WrittenAt(node.filename, q)
    BY <1>2, <1>3, <2>1 DEF ContentInv, FilesHeld, Held
  <2>4. QED
    BY <2>1, <2>2, <2>3
<1>10. QED
  BY <1>1, <1>6, <1>8, <1>9 DEF WrittenAt

\* The first write to a file without bytes leaves it as many as are written, or fewer on a
\* disk that is full now.
LEMMA WriteFirst ==
  ASSUME IInv, CacheInv, ContentInv, NEW fd \in FdArgs, isUsable(fd),
         NEW name, name = Node(fd).filename, Node(fd).offset = 0, Node(fd).size = 0,
         NEW buf \in Versions, NEW count \in CountArgs, fs_write(fd, buf, count)
  PROVE  \E i \in Entries(name)' :
           /\ root'[i].size <= count
           /\ root'[i].size < count => DiskFull(fat')
<1>1. PICK e : e = Node(fd).dir_entry_index
  OBVIOUS
<1>2. /\ TypeOK /\ fat \in FatType /\ WellLinked(fat) /\ Node(fd) \in NodeType
      /\ fd \in Open /\ e \in Listed /\ e \in Entries(name)
      /\ root[e].size = 0 /\ root[e].index = Node(fd).first_data_block
      /\ count \in Nat /\ buf # Null
  BY <1>1, EntryBehind, Argument, ClientAssumption DEF IInv, TypeOK, ChainInv, ChainsWellLinked
<1>3. CASE count = 0
  <2>1. UNCHANGED <<root, fat>>
    BY <1>3 DEF fs_write, volume
  <2>2. e \in Entries(name)' /\ root'[e].size = 0
    BY <1>2, <2>1 DEF Entries
  <2>3. QED
    BY <1>3, <2>2
<1>4. CASE count # 0
  <2>1. PICK w0 : w0 = [fat |-> fat, data |-> data, root |-> root, node |-> Node(fd)]
    OBVIOUS
  <2>2. PICK bytes : bytes = Bytes(Node(fd).filename, Node(fd).offset, buf)
    OBVIOUS
  <2>3. PICK o : o = WriteOutcome(w0, bytes, count)
    OBVIOUS
  <2>4. fat' = o.w.fat /\ root' = o.w.root
    BY <1>2, <1>4, <2>1, <2>2, <2>3 DEF fs_write
  <2>5. w0 \in WState
    BY <1>2, <2>1 DEF TypeOK, WState
  <2>6. bytes \in [Nat -> Byte]
    <3>1. Node(fd).filename \in Names /\ Node(fd).offset \in Nat
      BY <1>2 DEF IInv, ChainInv, OpenFilesListed, NodeType
    <3>2. QED
      BY <2>2, <3>1 DEF Bytes, Byte
  <2>7. w0.node.first_data_block # FAT_EOC => StartsChain(w0.fat, w0.node.first_data_block)
    BY <1>2, <2>1 DEF IInv, ChainInv, HeadsStartChains, Heads, FdHeads
  <2>8. NodeCurrent(w0)
    BY <1>1, <1>2, <2>1 DEF CacheInv, CacheIsCurrent, EmptyHasNoSize, NodeCurrent
  <2>9. /\ w0.node.first_data_block = root[e].index /\ w0.node.size = root[e].size
        /\ w0.node.offset = 0 /\ w0.node.size = 0 /\ w0.fat = fat
        /\ w0.root = root /\ w0.node.dir_entry_index = e
    BY <1>1, <1>2, <2>1
  <2>10. Fits(w0.node.size, total_file_blocks(w0.fat, w0.node.first_data_block))
    BY <1>2, <2>9 DEF ContentInv, FilesFit
  <2>11. WriteEffect(w0, o.w) /\ NodeCurrent(o.w) /\ OthersKept(w0, o.w)
    BY <1>2, <2>3, <2>5, <2>6, <2>7, <2>8, <2>9, WriteOutcomeEffect, WriteOutcomeCurrent
  <2>12. /\ o.w.node.size <= count
         /\ o.w.node.size < count => DiskFull(o.w.fat)
    <3>1. count \in Nat \ {0} /\ count = w0.node.offset + count /\ w0.node.size <= count
      BY <1>2, <1>4, <2>9
    <3>2. WellLinked(w0.fat)
      BY <1>2, <2>9
    <3>3. QED
      BY <2>3, <2>5, <2>6, <2>7, <2>8, <2>10, <3>1, <3>2, WriteOutcomeSize
  <2>13. e \in Entries(name)' /\ root'[e].size = o.w.node.size
    <3>1. o.w.root[e].filename = root[e].filename /\ e \in DirSlots
      BY <1>2, <2>9, <2>11 DEF WriteEffect, SameFile, Entries
    <3>2. o.w.root[e].size = o.w.node.size
      BY <2>9, <2>11 DEF OthersKept, NodeCurrent
    <3>3. QED
      BY <1>2, <2>4, <3>1, <3>2 DEF Entries
  <2>14. QED
    BY <2>4, <2>12, <2>13
<1>5. QED
  BY <1>3, <1>4

\* The file of the argument is open, and nothing of it has been read or written yet.
JustOpened ==
  LET fd == proc.fs_fd
  IN  isUsable(fd) /\ Node(fd).filename = proc.filename /\ Node(fd).offset = 0

\* What was to be written is there, or as much of it as the disk had room for.
CutOnlyWhenFull(name, count) ==
  \E i \in Entries(name) :
    /\ root[i].size <= count
    /\ root[i].size < count => DiskFull(fat)

\* What cat and add have at hand on their way.
CommandInv ==
  /\ At("info") => proc.command = "info"
  /\ At("ls") => proc.command = "ls"
  /\ At("delete") => proc.command = "rm"
  /\ At("read") => /\ proc.command = "cat" /\ JustOpened
                   /\ proc.stat = Node(proc.fs_fd).size /\ proc.stat # 0
  /\ At("stat") /\ proc.command = "cat" => JustOpened
  /\ At("open") /\ proc.command = "add" => \A i \in Entries(proc.filename) : root[i].size = 0
  /\ At("write") => proc.command = "add" /\ JustOpened /\ Node(proc.fs_fd).size = 0
  /\ proc.command = "add" /\ proc.pc \in {"close", "umount", "return"}
       => CutOnlyWhenFull(proc.filename, proc.count)
  /\ CatPrintsTheFile

\* Where nothing is asked of them.
LEMMA Elsewhere ==
  ASSUME \/ proc'.pc \in {"none", "script", "mount", "create", "bail", "die"}
         \/ proc'.pc \in {"umount", "return"} /\ proc'.command # "add"
         \/ proc'.pc = "close" /\ proc'.command = "stat"
  PROVE  CommandInv'
BY DEF CommandInv, CatPrintsTheFile, At

\* The way to the end of add, once it has written.
LEMMA AddGoesOn ==
  ASSUME CommandInv, proc.pc \in {"close", "umount"}, proc'.pc \in {"umount", "return"},
         proc'.command = proc.command, proc'.filename = proc.filename, proc'.count = proc.count,
         UNCHANGED <<root, fat>>
  PROVE  CommandInv'
<1>1. CASE proc.command # "add"
  BY <1>1, Elsewhere
<1>2. CASE proc.command = "add"
  <2>1. CutOnlyWhenFull(proc.filename, proc.count)
    BY <1>2 DEF CommandInv
  <2>2. CutOnlyWhenFull(proc.filename, proc.count)'
    BY <2>1 DEF CutOnlyWhenFull, Entries
  <2>3. QED
    BY <2>2 DEF CommandInv, CatPrintsTheFile, At
<1>3. QED
  BY <1>1, <1>2

LEMMA CommandCreate == ClientInv /\ CommandInv /\ Create => CommandInv'
<1> SUFFICES ASSUME ClientInv, CommandInv, Create
             PROVE  CommandInv'
  OBVIOUS
<1>1. IInv /\ ProcInv /\ proc \in ProcType /\ At("create") /\ fs_create(proc.filename)
  BY DEF ClientInv, ProcInv, Create
<1>2. PICK pc \in {"open", "bail"} : Goto(pc) /\ (pc = "open" => ~Failed)
  BY DEF Create, Continue
<1>3. proc'.pc = pc /\ proc'.filename = proc.filename
  BY <1>1, <1>2, Gone
<1>4. PICK name : name = proc.filename
  OBVIOUS
<1>5. CASE pc = "bail"
  BY <1>3, <1>5, Elsewhere
<1>6. CASE pc = "open"
  <2>1. ~Failed
    BY <1>2, <1>6
  <2>2. ~(~disk_mounted \/ ~isValidFileName(name) \/ Entries(name) # {} \/ Entries(Null) = {})
    BY <1>1, <1>4, <2>1, OutcomeCode DEF fs_create, Return, Failed
  <2>3. PICK i : i = FirstEntry(Null)
    OBVIOUS
  <2>4. /\ root' = [root EXCEPT ![i] = [filename |-> name, size |-> 0, index |-> FAT_EOC]]
        /\ Entries(name) = {} /\ i \in DirSlots
    BY <1>1, <1>4, <2>2, <2>3, FirstEntryFound DEF fs_create
  <2>5. root \in [DirSlots -> DirEntry]
    BY <1>1 DEF IInv, TypeOK
  <2>6. ASSUME NEW j \in Entries(name)'
        PROVE  root'[j].size = 0
    <3>1. j \in DirSlots /\ root'[j].filename = name
      BY <2>6 DEF Entries
    <3>2. j = i
      BY <2>4, <2>5, <3>1 DEF Entries
    <3>3. QED
      BY <2>4, <2>5, <3>2
  <2>7. (\A j \in Entries(proc.filename) : root[j].size = 0)'
    BY <1>3, <1>4, <2>6 DEF Entries
  <2>8. QED
    BY <1>3, <1>6, <2>7 DEF CommandInv, CatPrintsTheFile, At
<1>7. QED
  BY <1>5, <1>6

LEMMA CommandOpen == ClientInv /\ CacheInv /\ CommandInv /\ OpenFile => CommandInv'
<1> SUFFICES ASSUME ClientInv, CacheInv, CommandInv, OpenFile
             PROVE  CommandInv'
  OBVIOUS
<1>1. /\ IInv /\ proc \in ProcType /\ proc.filename \in NameArgs /\ At("open")
      /\ proc.command \in {"add", "cat", "stat"}
  BY DEF ClientInv, ProcInv, ProcType, OpenFile
<1>2. fs_open(proc.filename)
  BY DEF OpenFile
<1>3. PICK fd, name, pc : /\ fd = result'.code /\ name = proc.filename
                          /\ pc = IF Failed THEN "bail"
                                  ELSE IF proc.command = "add" THEN "write" ELSE "stat"
  OBVIOUS
<1>4. fd \in FdArgs
  BY <1>1, <1>2, <1>3, Opened
<1>5. proc' = [proc EXCEPT !.fs_fd = fd, !.opened = name, !.pc = pc]
  BY <1>1, <1>3 DEF OpenFile
<1>6. /\ proc'.pc = pc /\ proc'.command = proc.command /\ proc'.fs_fd = fd
      /\ proc'.filename = name
  BY <1>1, <1>3, <1>5 DEF ProcType
<1>7. CASE Failed
  BY <1>3, <1>6, <1>7, Elsewhere
<1>8. CASE ~Failed
  <2>1. /\ isUsable(fd)' /\ Node(fd)'.filename = name /\ Node(fd)'.offset = 0
        /\ \E i \in Entries(name) : Node(fd)'.size = root[i].size
    BY <1>1, <1>2, <1>3, <1>8, OpenedFresh
  <2>2. JustOpened'
    BY <1>6, <2>1 DEF JustOpened, isUsable, isOpenByFd, Node
  <2>3. CASE proc.command = "add"
    <3>1. pc = "write"
      BY <1>3, <1>8, <2>3
    <3>2. Node(fd)'.size = 0
      BY <1>1, <1>3, <2>1, <2>3 DEF CommandInv
    <3>3. Node(proc.fs_fd)'.size = 0
      BY <1>6, <3>2 DEF Node
    <3>4. QED
      BY <1>6, <2>2, <2>3, <3>1, <3>3 DEF CommandInv, CatPrintsTheFile, At
  <2>4. CASE proc.command # "add"
    <3>1. pc = "stat"
      BY <1>3, <1>8, <2>4
    <3>2. QED
      BY <1>6, <2>2, <2>4, <3>1 DEF CommandInv, CatPrintsTheFile, At
  <2>5. QED
    BY <2>3, <2>4
<1>9. QED
  BY <1>7, <1>8

LEMMA CommandWrite ==
  ClientInv /\ CacheInv /\ ContentInv /\ CommandInv /\ Write => CommandInv'
<1> SUFFICES ASSUME ClientInv, CacheInv, ContentInv, CommandInv, Write
             PROVE  CommandInv'
  OBVIOUS
<1>1. /\ IInv /\ ProcInv /\ proc \in ProcType /\ proc.fs_fd \in FdArgs
      /\ proc.count \in CountArgs /\ At("write") /\ Goto("close")
  BY DEF ClientInv, ProcInv, ProcType, Write
<1>2. proc.command = "add" /\ JustOpened /\ Node(proc.fs_fd).size = 0
  BY <1>1 DEF CommandInv
<1>3. PICK fd, name, count : fd = proc.fs_fd /\ name = proc.filename /\ count = proc.count
  OBVIOUS
<1>4. PICK buf \in Versions : fs_write(fd, buf, count)
  BY <1>3 DEF Write
<1>5. \E i \in Entries(name)' : /\ root'[i].size <= count
                                /\ root'[i].size < count => DiskFull(fat')
  BY <1>1, <1>2, <1>3, <1>4, WriteFirst DEF JustOpened
<1>6. /\ proc'.pc = "close" /\ proc'.command = "add" /\ proc'.filename = name
      /\ proc'.count = count
  BY <1>1, <1>2, <1>3, Gone
<1>7. CutOnlyWhenFull(proc.filename, proc.count)'
  BY <1>5, <1>6 DEF CutOnlyWhenFull, Entries
<1>8. QED
  BY <1>6, <1>7 DEF CommandInv, CatPrintsTheFile, At

LEMMA CommandStat == ClientInv /\ CommandInv /\ Stat => CommandInv'
<1> SUFFICES ASSUME ClientInv, CommandInv, Stat
             PROVE  CommandInv'
  OBVIOUS
<1>1. /\ IInv /\ proc \in ProcType /\ At("stat") /\ proc.command \in {"cat", "stat"}
      /\ fs_stat(proc.fs_fd) /\ UNCHANGED <<disk_mounted, fd_table>>
  BY DEF ClientInv, ProcInv, Stat, fs_stat
<1>2. PICK fd, size, pc :
        /\ fd = proc.fs_fd /\ size = result'.code
        /\ pc = IF proc.command = "stat" THEN "close"
                ELSE IF Failed THEN "bail"
                ELSE IF size = 0 THEN "return" ELSE "read"
  OBVIOUS
<1>3. proc' = [proc EXCEPT !.stat = size, !.pc = pc]
  BY <1>2 DEF Stat, Failed
<1>4. /\ proc'.pc = pc /\ proc'.command = proc.command /\ proc'.stat = size
      /\ proc'.fs_fd = fd /\ proc'.filename = proc.filename
  BY <1>1, <1>2, <1>3 DEF ProcType
<1>5. CASE pc # "read"
  <2>1. (pc = "close" /\ proc.command = "stat") \/ pc = "bail" \/ pc = "return"
    BY <1>2, <1>5
  <2>2. QED
    BY <1>1, <1>4, <2>1, Elsewhere
<1>6. CASE pc = "read"
  <2>1. proc.command = "cat" /\ size # 0
    BY <1>1, <1>2, <1>6
  <2>2. JustOpened
    BY <1>1, <2>1 DEF CommandInv
  <2>3. isUsable(fd) /\ Node(fd).filename = proc.filename /\ Node(fd).offset = 0
    BY <1>2, <2>2 DEF JustOpened
  <2>4. size = Node(fd).size
    BY <1>1, <1>2, <2>3, OutcomeCode DEF fs_stat, Return
  <2>5. JustOpened' /\ Node(proc.fs_fd)'.size = size
    BY <1>1, <1>4, <2>3, <2>4 DEF JustOpened, isUsable, isOpenByFd, Node
  <2>6. QED
    BY <1>4, <1>6, <2>1, <2>5 DEF CommandInv, CatPrintsTheFile, At
<1>7. QED
  BY <1>5, <1>6

LEMMA CommandRead ==
  ClientInv /\ CacheInv /\ ContentInv /\ CommandInv /\ Read => CommandInv'
<1> SUFFICES ASSUME ClientInv, CacheInv, ContentInv, CommandInv, Read
             PROVE  CommandInv'
  OBVIOUS
<1>1. IInv /\ ProcInv /\ At("read") /\ Goto("close") /\ proc.stat \in Nat
  BY DEF ClientInv, ProcInv, Read
<1>2. PICK fd, name, count : fd = proc.fs_fd /\ name = proc.filename /\ count = proc.stat
  OBVIOUS
<1>3. /\ proc.command = "cat" /\ isUsable(fd) /\ Node(fd).filename = name
      /\ Node(fd).offset = 0 /\ count = Node(fd).size /\ count # 0 /\ count \in Nat
  BY <1>1, <1>2 DEF CommandInv, JustOpened
<1>4. PICK buf \in Versions : fs_read(fd, buf, count)
  BY <1>2 DEF Read
<1>5. /\ result'.code = count
      /\ \A p \in 1 .. count : \E v \in Versions : result'.buf[p] = <<name, p - 1, v>>
  BY <1>1, <1>3, <1>4, ReadWhole
<1>6. /\ proc'.pc = "close" /\ proc'.command = "cat" /\ proc'.stat = count
      /\ proc'.filename = name
  BY <1>1, <1>2, <1>3, Gone
<1>7. CatPrintsTheFile'
  BY <1>5, <1>6 DEF CatPrintsTheFile
<1>8. QED
  BY <1>6, <1>7 DEF CommandInv, At

\* The scripts, and the commands that neither read nor write.
LEMMA CommandOther ==
  ClientInv /\ CommandInv
  /\ (Mount \/ Info \/ Ls \/ Remove \/ Close \/ Umount \/ Bail \/ ScriptLine \/ EndOfScript \/ Exit)
  => CommandInv'
<1> SUFFICES ASSUME ClientInv, CommandInv,
                    \/ Mount \/ Info \/ Ls \/ Remove \/ Close \/ Umount \/ Bail
                    \/ ScriptLine \/ EndOfScript \/ Exit
             PROVE  CommandInv'
  OBVIOUS
<1>1. ProcInv /\ proc \in ProcType
  BY DEF ClientInv, ProcInv
<1>2. CASE Mount
  <2>1. PICK pc : /\ pc = FirstCall[proc.command] \/ pc = "die"
                  /\ Goto(pc)
    BY <1>2 DEF Mount, Continue
  <2>2. proc.command \in {"info", "ls", "add", "rm", "cat", "stat"}
    BY <1>1, <1>2 DEF Mount, ProcInv, Commands
  <2>3. /\ pc \in {"info", "ls", "create", "delete", "open", "die"}
        /\ pc = "info" => proc.command = "info"
        /\ pc = "ls" => proc.command = "ls"
        /\ pc = "delete" => proc.command = "rm"
        /\ pc = "open" => proc.command # "add"
    BY <2>1, <2>2 DEF FirstCall
  <2>4. proc'.pc = pc /\ proc'.command = proc.command
    BY <1>1, <2>1, <2>3, Gone
  <2>5. QED
    BY <2>3, <2>4 DEF CommandInv, CatPrintsTheFile, At
<1>3. CASE Info \/ Ls \/ Remove
  <2>1. PICK pc \in {"umount", "bail"} : Goto(pc)
    BY <1>3 DEF Info, Ls, Remove, Continue
  <2>2. proc.command \in {"info", "ls", "rm"}
    BY <1>3 DEF Info, Ls, Remove, CommandInv
  <2>3. proc'.pc = pc /\ proc'.command = proc.command
    BY <1>1, <2>1, Gone
  <2>4. QED
    BY <2>2, <2>3, Elsewhere
<1>4. CASE Close \/ Umount \/ Bail
  <2>1. PICK pc \in {"umount", "return", "bail", "die"} :
          Goto(pc) /\ (pc \in {"umount", "return"} => proc.pc \in {"close", "umount"})
    BY <1>4 DEF Close, Umount, Bail, Continue, At
  <2>2. /\ proc'.pc = pc /\ proc'.command = proc.command
        /\ proc'.filename = proc.filename /\ proc'.count = proc.count
    BY <1>1, <2>1, Gone
  <2>3. UNCHANGED <<root, fat>>
    BY <1>4 DEF Close, Umount, Bail, fs_close, fs_umount, volume
  <2>4. QED
    BY <2>1, <2>2, <2>3, AddGoesOn, Elsewhere
<1>5. CASE EndOfScript
  <2>1. PICK pc \in {"umount", "return"} : Goto(pc) /\ proc.command = "script"
    BY <1>1, <1>5 DEF EndOfScript, ProcInv
  <2>2. proc'.pc = pc /\ proc'.command = proc.command
    BY <1>1, <2>1, Gone
  <2>3. QED
    BY <2>1, <2>2, Elsewhere
<1>6. CASE Exit
  BY <1>6, Elsewhere DEF Exit, NoProcess
<1>7. CASE ScriptLine
  <2>1. ASSUME NEW p \in ProcType, NEW failed \in {"bail", "die"}, Ran(p, failed)
        PROVE  CommandInv'
    BY <2>1, RanTo, Elsewhere
  <2>2. CASE MountLine
    <3>1. PICK p : p = [proc EXCEPT !.mounted = ~Failed \/ @, !.remounted = disk_mounted]
      OBVIOUS
    <3>2. p \in ProcType
      BY <1>1, <3>1 DEF ProcType, ClientInv, IInv, TypeOK
    <3>3. Ran(p, "die")
      BY <2>2, <3>1 DEF MountLine
    <3>4. QED
      BY <2>1, <3>2, <3>3
  <2>3. CASE UmountLine
    <3>1. CASE proc.mounted
      <4>1. Failed = TRUE \/ Failed = FALSE
        BY DEF Failed
      <4>2. PICK failed, p :
              failed \in BOOLEAN /\ Failed = failed /\ p = [proc EXCEPT !.mounted = failed]
        BY <4>1
      <4>3. p \in ProcType
        BY <1>1, <4>2 DEF ProcType
      <4>4. Ran(p, "die")
        BY <2>3, <3>1, <4>1, <4>2 DEF UmountLine
      <4>5. QED
        BY <2>1, <4>3, <4>4
    <3>2. CASE ~proc.mounted
      <4>1. proc.pc = "script" /\ proc' = [proc EXCEPT !.line = proc.line + 1]
        BY <2>3, <3>2 DEF UmountLine, NextLine, At
      <4>2. proc'.pc = "script"
        BY <1>1, <4>1 DEF ProcType
      <4>3. QED
        BY <4>2, Elsewhere
    <3>3. QED
      BY <3>1, <3>2
  <2>4. ASSUME NEW name \in NameArgs, OpenLine(name)
        PROVE  CommandInv'
    <3>1. fs_open(name) /\ IInv
      BY <2>4 DEF OpenLine, ClientInv
    <3>2. PICK fd \in FdArgs : fd = result'.code
      BY <3>1, Opened
    <3>3. PICK p : p = [proc EXCEPT !.fs_fd = fd, !.opened = name]
      OBVIOUS
    <3>4. p \in ProcType
      BY <1>1, <3>2, <3>3 DEF ProcType
    <3>5. Ran(p, "bail")
      BY <2>4, <3>2, <3>3 DEF OpenLine
    <3>6. QED
      BY <2>1, <3>4, <3>5
  <2>5. ASSUME NEW buf \in BufArgs, NEW count \in CountArgs, WriteLine(buf, count)
        PROVE  CommandInv'
    <3>1. Goto("bail") \/ Ran(proc, "bail")
      BY <2>5 DEF WriteLine
    <3>2. QED
      BY <1>1, <2>1, <3>1, Gone, Elsewhere
  <2>6. CASE \/ \E name \in NameArgs : CreateLine(name) \/ DeleteLine(name)
             \/ CloseLine
             \/ \E offset \in OffsetArgs : SeekLine(offset)
             \/ \E count \in CountArgs \cup {-1} : ReadLine(count)
    <3>1. Goto("bail") \/ Ran(proc, "bail")
      BY <2>6 DEF CreateLine, DeleteLine, CloseLine, SeekLine, ReadLine
    <3>2. QED
      BY <1>1, <2>1, <3>1, Gone, Elsewhere
  <2>7. QED
    BY <1>7, <2>2, <2>3, <2>4, <2>5, <2>6 DEF ScriptLine
<1>8. QED
  BY <1>2, <1>3, <1>4, <1>5, <1>6, <1>7

\* A step of test_fs is a call as any client makes it, or cat's fs_read, which may be longer
\* than MaxCount.
LEMMA ClientCalls ==
  ASSUME ClientInv, [TestNext]_test_vars
  PROVE  \/ [Next]_vars
         \/ \E fd \in FdArgs, buf \in Versions, count \in Nat : fs_read(fd, buf, count)
<1>1. /\ proc \in ProcType /\ proc.fs_fd \in FdArgs /\ proc.filename \in NameArgs
      /\ proc.count \in CountArgs /\ Versions \subseteq BufArgs
  BY Argument DEF ClientInv, ProcInv, ProcType
<1>2. CASE UNCHANGED test_vars
  BY <1>2 DEF test_vars
<1>3. ASSUME NEW command \in Commands, NEW name \in NameArgs, NEW count \in CountArgs,
             Start(command, name, count)
      PROVE  UNCHANGED vars
  BY <1>3 DEF Start
<1>4. CASE Mount \/ Info \/ Ls \/ Umount \/ Bail
  BY <1>4 DEF Mount, Info, Ls, Umount, Bail, Next
<1>5. CASE Remove \/ Create \/ OpenFile
  BY <1>1, <1>5 DEF Remove, Create, OpenFile, Next
<1>6. CASE Write \/ Stat \/ Close
  BY <1>1, <1>6 DEF Write, Stat, Close, Next
<1>7. CASE Read
  <2>1. proc.stat \in Nat
    BY <1>7 DEF Read, ClientInv, ProcInv
  <2>2. QED
    BY <1>1, <1>7, <2>1 DEF Read
<1>8. CASE EndOfScript \/ Exit
  BY <1>8 DEF EndOfScript, Exit, Next
<1>9. CASE ScriptLine
  <2>1. CASE MountLine \/ UmountLine
    BY <2>1 DEF MountLine, UmountLine, Next
  <2>2. ASSUME NEW name \in NameArgs, CreateLine(name) \/ DeleteLine(name) \/ OpenLine(name)
        PROVE  Next
    BY <2>2 DEF CreateLine, DeleteLine, OpenLine, Next
  <2>3. CASE CloseLine
    BY <1>1, <2>3 DEF CloseLine, Next
  <2>4. ASSUME NEW offset \in OffsetArgs, SeekLine(offset)
        PROVE  Next
    BY <1>1, <2>4 DEF SeekLine, Next
  <2>5. ASSUME NEW buf \in BufArgs, NEW count \in CountArgs, WriteLine(buf, count)
        PROVE  [Next]_vars
    BY <1>1, <2>5 DEF WriteLine, Next
  <2>6. ASSUME NEW count \in CountArgs \cup {-1}, ReadLine(count)
        PROVE  [Next]_vars
    <3>1. CASE count < 0
      BY <2>6, <3>1 DEF ReadLine
    <3>2. CASE ~(count < 0)
      <4>1. count \in CountArgs
        BY <2>6, <3>2
      <4>2. PICK buf \in BufArgs : fs_read(proc.fs_fd, buf, count)
        BY <1>1, <2>6, <3>2 DEF ReadLine
      <4>3. QED
        BY <1>1, <4>1, <4>2 DEF Next
    <3>3. QED
      BY <3>1, <3>2
  <2>7. QED
    BY <1>9, <2>1, <2>2, <2>3, <2>4, <2>5, <2>6 DEF ScriptLine
<1>10. QED
  BY <1>2, <1>3, <1>4, <1>5, <1>6, <1>7, <1>8, <1>9 DEF TestNext

\* The structure of the volume and what is in its files, along every sequence of processes.
LEMMA CommandNext ==
  ASSUME ~SharedOpens, ClientInv, CacheInv, ContentInv, CommandInv, [TestNext]_test_vars
  PROVE  CacheInv' /\ ContentInv' /\ CommandInv'
<1>1. CacheInv' /\ ContentInv'
  <2>1. IInv
    BY DEF ClientInv
  <2>2. CASE [Next]_vars
    BY <2>1, <2>2, CacheNext, ContentNext
  <2>3. ASSUME NEW fd \in FdArgs, NEW buf \in Versions, NEW count \in Nat,
               fs_read(fd, buf, count)
        PROVE  CacheInv' /\ ContentInv'
    <3>1. CacheInv'
      BY <2>1, <2>3, CacheRead
    <3>2. UNCHANGED <<root, fat, data>>
      BY <2>3 DEF fs_read, volume
    <3>3. ContentInv'
      BY <3>2 DEF ContentInv, FilesFit, FilesHeld, Listed, Entries
    <3>4. QED
      BY <3>1, <3>3
  <2>4. QED
    BY <2>2, <2>3, ClientCalls
<1>2. CommandInv'
  <2>1. CASE UNCHANGED test_vars
    <3>1. UNCHANGED vars /\ proc' = proc
      BY <2>1 DEF test_vars
    <3>2. (JustOpened' <=> JustOpened) /\ Node(proc.fs_fd)' = Node(proc.fs_fd)
      BY <3>1 DEF vars, JustOpened, isUsable, isOpenByFd, Node
    <3>3. /\ Entries(proc.filename)' = Entries(proc.filename) /\ root' = root
          /\ CutOnlyWhenFull(proc.filename, proc.count)'
               <=> CutOnlyWhenFull(proc.filename, proc.count)
          /\ CatPrintsTheFile' <=> CatPrintsTheFile
      BY <3>1 DEF vars, Entries, CutOnlyWhenFull, CatPrintsTheFile, At
    <3>4. QED
      BY <3>1, <3>2, <3>3 DEF CommandInv, At
  <2>2. ASSUME NEW command \in Commands, NEW name \in NameArgs, NEW count \in CountArgs,
               Start(command, name, count)
        PROVE  CommandInv'
    <3>1. PICK pc \in {"script", "mount"} :
            proc' = [NoProcess EXCEPT !.command = command, !.filename = name, !.count = count,
                                      !.pc = pc]
      BY <2>2 DEF Start
    <3>2. proc'.pc = pc
      BY <3>1 DEF NoProcess
    <3>3. QED
      BY <3>2, Elsewhere
  <2>3. QED
    BY <2>1, <2>2, CommandCreate, CommandOpen, CommandWrite, CommandStat, CommandRead,
       CommandOther
    DEF TestNext
<1>3. QED
  BY <1>1, <1>2

-----------------------------------------------------------------------------
(* The theorems.                                                           *)

\* Every state a sequence of test_fs processes reaches, between any two library calls.
THEOREM ClientInvariance == TestSpec => []ClientInv
<1>1. TestInit => ClientInv
  <2> SUFFICES ASSUME TestInit
               PROVE  ClientInv
    OBVIOUS
  <2>1. IInv /\ ~disk_mounted
    BY InitInv DEF TestInit, Init
  <2>2. /\ proc \in ProcType /\ proc.pc = "none" /\ proc.fs_fd = -1
        /\ proc.remounted = FALSE /\ proc.stat = -1
    BY Argument DEF TestInit, NoProcess, ProcType
  <2>3. QED
    BY <2>1, <2>2 DEF ClientInv, ProcInv, FlagAgrees, EndsUnmounted, FdIsLastOpened, At
<1>2. ClientInv /\ [TestNext]_test_vars => ClientInv'
  <2> SUFFICES ASSUME ClientInv, [TestNext]_test_vars
               PROVE  ClientInv'
    OBVIOUS
  <2>1. CASE UNCHANGED test_vars
    <3>1. UNCHANGED vars /\ proc' = proc
      BY <2>1 DEF test_vars
    <3>2. IInv' /\ UNCHANGED <<disk_mounted, fd_table>>
      BY <3>1, NextInv DEF ClientInv, vars
    <3>3. FdIsLastOpened'
      BY <3>1, <3>2, SameNames, FdKept DEF ClientInv
    <3>4. QED
      BY <3>1, <3>2, <3>3 DEF ClientInv, ProcInv, FlagAgrees, EndsUnmounted, At
  <2>2. ASSUME NEW command \in Commands, NEW name \in NameArgs, NEW count \in CountArgs,
               Start(command, name, count)
        PROVE  ClientInv'
    BY <2>2, StartStep
  <2>3. CASE Mount \/ Umount \/ Bail \/ OpenFile \/ Stat \/ EndOfScript \/ Exit
    BY <2>3, MountStep, UmountStep, OpenFileStep, StatStep, EndStep
  <2>4. CASE Info \/ Ls \/ Remove \/ Create \/ Write \/ Read \/ Close
    BY <2>4, CommandStep
  <2>5. CASE ScriptLine
    <3>1. CASE MountLine \/ UmountLine
      BY <3>1, MountLineStep, UmountLineStep
    <3>2. ASSUME NEW name \in NameArgs, OpenLine(name)
          PROVE  ClientInv'
      BY <3>2, OpenLineStep
    <3>3. QED
      BY <2>5, <3>1, <3>2, LineStep DEF ScriptLine
  <2>6. QED
    BY <2>1, <2>2, <2>3, <2>4, <2>5 DEF TestNext
<1>3. QED
  BY <1>1, <1>2, PTL DEF TestSpec

\* The interpreter's mounted flag (test_fs.c:47) is the library's whenever it reads it,
\* for scripts of every length.
THEOREM FlagsAgree == TestSpec => []FlagAgrees
<1>1. ClientInv => FlagAgrees
  BY DEF ClientInv
<1>2. QED
  BY <1>1, ClientInvariance, PTL

\* cat of a file that fs_stat says is empty and a MOUNT of the disk the script has mounted
\* leave the disk mounted (test_fs.c:346-350, 90-91); every other way out of a process,
\* successful or not, leaves it unmounted.
THEOREM ProcessesEndUnmounted == TestSpec => []EndsUnmounted
<1>1. ClientInv => EndsUnmounted
  BY DEF ClientInv
<1>2. QED
  BY <1>1, ClientInvariance, PTL

\* The number a script keeps over CLOSE and UMOUNT never comes to stand for another file
\* than the one its OPEN named last.
THEOREM ScriptDescriptor == TestSpec => []FdIsLastOpened
<1>1. ClientInv => FdIsLastOpened
  BY DEF ClientInv
<1>2. QED
  BY <1>1, ClientInvariance, PTL

\* What FileSystemProofs shows of a client that calls anything at any time holds of
\* test_fs, whose cat reads as much as the file has.
THEOREM ClientFilesDisjoint == TestSpec => []ChainsDisjoint
<1>1. ClientInv => ChainsDisjoint
  BY ChainsApart
  DEF ClientInv, IInv, TypeOK, ChainInv, ChainsWellLinked, HeadsStartChains, ChainsDisjoint
<1>2. QED
  BY <1>1, ClientInvariance, PTL

\* If no script OPENs a file that it has open (test_fs.c:125-135 lets it), what a command has
\* at hand between two calls is what its next call relies on.
THEOREM CommandInvariance ==
  ASSUME ~SharedOpens
  PROVE  TestSpec => [](ClientInv /\ CacheInv /\ ContentInv /\ CommandInv)
<1>1. TestInit => CacheInv /\ ContentInv /\ CommandInv
  <2>1. TestInit => Init /\ proc.pc = "none"
    BY DEF TestInit, NoProcess
  <2>2. proc.pc = "none" => CommandInv
    BY DEF CommandInv, CatPrintsTheFile, At
  <2>3. QED
    BY <2>1, <2>2, ContentInit
<1>2. ClientInv /\ CacheInv /\ ContentInv /\ CommandInv /\ [TestNext]_test_vars
        => CacheInv' /\ ContentInv' /\ CommandInv'
  BY CommandNext
<1>3. QED
  BY <1>1, <1>2, ClientInvariance, PTL DEF TestSpec

\* cat prints as many bytes as fs_stat says, from a buffer it does not know to be full
\* (test_fs.c:358-370): fs_read has filled it, with the bytes of this file in their order,
\* unless an earlier script OPENed a file that it had open.
THEOREM CatPrints ==
  ASSUME ~SharedOpens
  PROVE  TestSpec => []CatPrintsTheFile
<1>1. CommandInv => CatPrintsTheFile
  BY DEF CommandInv
<1>2. QED
  BY <1>1, CommandInvariance, PTL

\* add prints how much it has written and leaves with success, whatever that is
\* (test_fs.c:447-458): the file is whole, or there is not a block left.  The earlier
\* scripts are those that OPEN no file they have open.
THEOREM AddCuts ==
  ASSUME ~SharedOpens
  PROVE  TestSpec => []AddCutsOnlyWhenFull
<1>1. CommandInv => AddCutsOnlyWhenFull
  BY DEF CommandInv, AddCutsOnlyWhenFull, CutOnlyWhenFull, At
<1>2. QED
  BY <1>1, CommandInvariance, PTL

\* Any sequence of commands, and of scripts that OPEN no file they have open, leaves every
\* file as many blocks as its size needs, and its bytes in their places.  A script that OPENs
\* an open file again (test_fs.c:125-135) is outside: it has two descriptors of one file, and
\* a write through the staler one cuts the size in the directory short.
THEOREM ClientFilesIntact ==
  ASSUME ~SharedOpens
  PROVE  TestSpec => [](BlocksMatchSize /\ BytesInPlace)
<1>1. ClientInv /\ ContentInv => BlocksMatchSize /\ BytesInPlace
  BY FilesFitMatch, FilesHeldInPlace DEF ClientInv, ContentInv
<1>2. QED
  BY <1>1, CommandInvariance, PTL

==============================================================================
