-------------------------------- MODULE TestFs --------------------------------
(***************************************************************************)
(* apps/test_fs.c, the command line client: one process after another, each *)
(* with a command of its own, on one volume.  A step is one library call    *)
(* with what the client makes of its return value.  The library's memory is *)
(* the process's: it goes when the process does.                            *)
(*                                                                          *)
(* The arguments are those the commands expect: a disk that mounts, a host  *)
(* file that can be read, script lines that are complete.                   *)
(***************************************************************************)
EXTENDS FileSystem

CONSTANT MaxLines   \* bound: the lines of a script

ASSUME ScriptAssumption == MaxLines \in Nat

VARIABLE proc       \* the process that runs, or none

test_vars == <<vars, proc>>

Commands == {"info", "ls", "add", "rm", "cat", "stat", "script"}

\* filename and count: the argument, and the size of the host file.  stat is -1 until
\* fs_stat has answered.  Two ghosts: opened is the last name fs_open took, and remounted
\* says that a MOUNT found the disk mounted.
NoProcess ==
  [command |-> "none", pc |-> "none", filename |-> Null, count |-> 0, fs_fd |-> -1,
   stat |-> -1, mounted |-> FALSE, line |-> 0, opened |-> Null, remounted |-> FALSE]

TestInit == Init /\ proc = NoProcess

At(pc) == proc.pc = pc
Goto(pc) == proc' = [proc EXCEPT !.pc = pc]
Failed == result'.code < 0

\* Where the client goes on: failed goes to where the library's refusal is handled.
Continue(pc, failed) == Goto(IF Failed THEN failed ELSE pc)

\* main.  Only add has a count, and not every command has a name.
Start(command, name, count) ==
  /\ proc = NoProcess
  /\ command # "add" => count = 0
  /\ command \in {"info", "ls", "script"} => name = Null
  /\ proc' = [NoProcess EXCEPT !.command = command, !.filename = name, !.count = count,
                               !.pc = IF command = "script" THEN "script" ELSE "mount"]
  /\ UNCHANGED vars

-----------------------------------------------------------------------------
(* The commands, apart from script.  Most refusals go to bail, which        *)
(* unmounts and dies.                                                       *)

FirstCall ==
  [info |-> "info", ls |-> "ls", add |-> "create", rm |-> "delete", cat |-> "open", stat |-> "open"]

Mount == At("mount") /\ fs_mount /\ Continue(FirstCall[proc.command], "die")

Info == At("info") /\ fs_info /\ Goto("umount")

Ls == At("ls") /\ fs_ls /\ Goto("umount")

\* mutant: the refusal is not followed by fs_umount.
Remove_DiesMounted == At("delete") /\ fs_delete(proc.filename) /\ Continue("umount", "die")

Remove == At("delete") /\ fs_delete(proc.filename) /\ Continue("umount", "bail")

Create == At("create") /\ fs_create(proc.filename) /\ Continue("open", "bail")

OpenFile ==
  /\ At("open")
  /\ fs_open(proc.filename)
  /\ proc' = [proc EXCEPT !.fs_fd = result'.code, !.opened = proc.filename,
                          !.pc = IF Failed THEN "bail"
                                 ELSE IF proc.command = "add" THEN "write" ELSE "stat"]

\* add does not look at how much was written until it has unmounted, to print it.
Write ==
  /\ At("write")
  /\ \E version \in Versions : fs_write(proc.fs_fd, version, proc.count)
  /\ Goto("close")

\* cat leaves at once if there is nothing to read; stat closes, whatever fs_stat says.
Stat ==
  /\ At("stat")
  /\ fs_stat(proc.fs_fd)
  /\ proc' = [proc EXCEPT !.stat = result'.code,
                          !.pc = IF proc.command = "stat" THEN "close"
                                 ELSE IF Failed THEN "bail"
                                 ELSE IF result'.code = 0 THEN "return" ELSE "read"]

Read ==
  /\ At("read")
  /\ \E buf \in Versions : fs_read(proc.fs_fd, buf, proc.stat)
  /\ Goto("close")

\* stat dies here if fs_stat failed.
Close ==
  /\ At("close")
  /\ fs_close(proc.fs_fd)
  /\ Goto(IF Failed \/ (proc.command = "stat" /\ proc.stat < 0) THEN "bail" ELSE "umount")

Umount == At("umount") /\ fs_umount /\ Continue("return", "die")

Bail == At("bail") /\ fs_umount /\ Goto("die")

-----------------------------------------------------------------------------
(* script: lines in any order, each of which makes at most one call.        *)

NextLine == At("script") /\ proc.line < MaxLines

\* The interpreter after a line, and where it goes if the line fails.
Ran(p, failed) ==
  proc' = [p EXCEPT !.line = @ + 1, !.pc = IF Failed THEN failed ELSE "script"]

\* A MOUNT that fails dies without fs_umount.
MountLine ==
  /\ NextLine
  /\ fs_mount
  /\ Ran([proc EXCEPT !.mounted = ~Failed \/ @, !.remounted = disk_mounted], "die")

\* mutant: the flag stays.
UmountLine_FlagKept ==
  /\ NextLine
  /\ IF proc.mounted THEN fs_umount /\ Ran(proc, "die")
     ELSE UNCHANGED vars /\ proc' = [proc EXCEPT !.line = @ + 1]

UmountLine ==
  /\ NextLine
  /\ IF proc.mounted THEN fs_umount /\ Ran([proc EXCEPT !.mounted = Failed], "die")
     ELSE UNCHANGED vars /\ proc' = [proc EXCEPT !.line = @ + 1]

CreateLine(name) == NextLine /\ fs_create(name) /\ Ran(proc, "bail")

DeleteLine(name) == NextLine /\ fs_delete(name) /\ Ran(proc, "bail")

\* mutant: fs_fd is taken from the first OPEN only.
OpenLine_FirstOnly(name) ==
  /\ NextLine
  /\ fs_open(name)
  /\ Ran([proc EXCEPT !.fs_fd = IF @ = -1 THEN result'.code ELSE @, !.opened = name], "bail")

OpenLine(name) ==
  /\ NextLine
  /\ fs_open(name)
  /\ Ran([proc EXCEPT !.fs_fd = result'.code, !.opened = name], "bail")

\* fs_fd keeps its number.
CloseLine == NextLine /\ fs_close(proc.fs_fd) /\ Ran(proc, "bail")

SeekLine(offset) == NextLine /\ fs_lseek(proc.fs_fd, offset) /\ Ran(proc, "bail")

\* buf is Null if the line has no data: fs_write is not called then.
WriteLine(buf, count) ==
  /\ NextLine
  /\ IF buf = Null THEN UNCHANGED vars /\ Goto("bail")
     ELSE fs_write(proc.fs_fd, buf, count) /\ Ran(proc, "bail")

\* count is negative if the length is, or if the line does not say what data to compare
\* with: fs_read is not called then.
ReadLine(count) ==
  /\ NextLine
  /\ IF count < 0 THEN UNCHANGED vars /\ Goto("bail")
     ELSE (\E buf \in Versions : fs_read(proc.fs_fd, buf, count)) /\ Ran(proc, "bail")

\* The end of the file, or an empty line.
EndOfScript ==
  /\ At("script")
  /\ Goto(IF proc.mounted THEN "umount" ELSE "return")
  /\ UNCHANGED vars

-----------------------------------------------------------------------------
\* return from main, or exit(1).  The host closes what the process left open.
Exit ==
  /\ proc.pc \in {"return", "die"}
  /\ proc' = NoProcess
  /\ IF disk_mounted THEN fs_umount ELSE UNCHANGED vars

ScriptLine ==
  \/ MountLine
  \/ UmountLine
  \/ \E name \in NameArgs : CreateLine(name)
  \/ \E name \in NameArgs : DeleteLine(name)
  \/ \E name \in NameArgs : OpenLine(name)
  \/ CloseLine
  \/ \E offset \in OffsetArgs : SeekLine(offset)
  \/ \E buf \in BufArgs, count \in CountArgs : WriteLine(buf, count)
  \/ \E count \in CountArgs \cup {-1} : ReadLine(count)

TestNext ==
  \/ \E command \in Commands, name \in NameArgs, count \in CountArgs : Start(command, name, count)
  \/ Mount \/ Info \/ Ls \/ Remove \/ Create \/ OpenFile \/ Write \/ Stat \/ Read \/ Close
  \/ Umount \/ Bail
  \/ ScriptLine
  \/ EndOfScript
  \/ Exit

TestSpec == TestInit /\ [][TestNext]_test_vars

-----------------------------------------------------------------------------
(* What the client relies on.                                              *)

\* The interpreter's flag is the library's (test_fs.c:47, fs.c:17), so its UMOUNT and
\* its end unmount when there is something to unmount and fail never.
FlagAgrees == At("script") => (proc.mounted <=> disk_mounted)

\* Whichever way a process ends, the disk is unmounted, but for two that leave it mounted:
\* cat of a file whose size fs_stat said is 0 (test_fs.c:346-350), and a script that died
\* of a MOUNT of the disk it had mounted (90-91).
EndsUnmounted ==
  proc.pc \in {"return", "die"} =>
    (disk_mounted <=> (proc.command = "cat" /\ proc.stat = 0) \/ proc.remounted)

\* The one descriptor a script has, across OPEN, CLOSE, UMOUNT and MOUNT, is of the file
\* it named last or of no file: a line that goes on after CLOSE or MOUNT writes to no
\* other file that happens to have the number.
FdIsLastOpened ==
  proc.fs_fd # -1 /\ isUsable(proc.fs_fd) => Node(proc.fs_fd).filename = proc.opened

\* cat reads as many bytes as fs_stat said, and they are the file's: it prints that many,
\* whatever fs_read answered (test_fs.c:358-370).
CatPrintsTheFile ==
  proc.command = "cat" /\ At("close") =>
    /\ result.code = proc.stat
    /\ \A p \in 1 .. proc.stat : \E v \in Versions : result.buf[p] = <<proc.filename, p - 1, v>>

\* add reports success for a file that it cut short (test_fs.c:447-458): it may only have
\* been cut because the disk is full.
AddCutsOnlyWhenFull ==
  proc.command = "add" /\ At("return") =>
    \E i \in Entries(proc.filename) :
      /\ root[i].size <= proc.count
      /\ root[i].size < proc.count => DiskFull(fat)

==============================================================================
