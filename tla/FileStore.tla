------------------------------- MODULE FileStore -------------------------------
(***************************************************************************)
(* What fs.h promises its client, without blocks and without a FAT: a file  *)
(* is a sequence of bytes under a name, a descriptor is a name and an       *)
(* offset, and the disk is nothing but a number of blocks that the files    *)
(* share.  Every call is one step.                                          *)
(***************************************************************************)
EXTENDS Integers, Sequences, FiniteSets, FiniteSetsExt

CONSTANTS
  Names, Null, Versions, OpenMax, FileMax, BlockSize, MaxCount,
  Capacity      \* how many blocks the files share

VARIABLES
  mounted,      \* is a file system mounted?
  files,        \* the contents of every file there is, by name
  handles,      \* the name and the offset behind every descriptor
  result        \* what the last call returned

vars == <<mounted, files, handles, result>>

Fds == 0 .. OpenMax - 1
FdArgs == -1 .. OpenMax
Closed == [name |-> Null, offset |-> 0]

BlocksFor(bytes) == (bytes + BlockSize - 1) \div BlockSize
FreeBlocks == Capacity - MapThenSumSet(LAMBDA n : BlocksFor(Len(files[n])), DOMAIN files)

IsOpen(fd) == mounted /\ fd \in Fds /\ handles[fd] # Closed
OpenNames == {handles[fd].name : fd \in Fds} \ {Null}

Outcome(code) == [code |-> code, buf |-> <<>>, ls |-> <<>>, info |-> <<>>]
Answer(code) == result' = Outcome(code)

Refuse == Answer(-1) /\ UNCHANGED <<mounted, files, handles>>

Init ==
  /\ mounted = FALSE
  /\ files = [n \in {} |-> <<>>]
  /\ handles = [fd \in Fds |-> [name |-> Null, offset |-> 0]]
  /\ result = Outcome(0)

-----------------------------------------------------------------------------
Mount ==
  \/ mounted /\ Refuse
  \/ /\ ~mounted
     /\ mounted' = TRUE
     /\ Answer(0)
     /\ UNCHANGED <<files, handles>>

\* Whatever is open is closed.
Unmount ==
  \/ ~mounted /\ Refuse
  \/ /\ mounted
     /\ mounted' = FALSE
     /\ handles' = [fd \in Fds |-> Closed]
     /\ Answer(0)
     /\ UNCHANGED files

Info ==
  \/ ~mounted /\ Refuse
  \/ /\ mounted
     /\ result' = [Outcome(0) EXCEPT !.info = <<FreeBlocks, FileMax - Cardinality(DOMAIN files)>>]
     /\ UNCHANGED <<mounted, files, handles>>

List ==
  \/ ~mounted /\ Refuse
  \/ /\ mounted
     /\ result' = [Outcome(0) EXCEPT !.ls = [n \in DOMAIN files |-> Len(files[n])]]
     /\ UNCHANGED <<mounted, files, handles>>

Create(n) ==
  LET ok == mounted /\ n # Null /\ n \notin DOMAIN files /\ Cardinality(DOMAIN files) < FileMax
  IN  \/ ~ok /\ Refuse
      \/ /\ ok
         /\ files' = [m \in DOMAIN files \cup {n} |-> IF m = n THEN <<>> ELSE files[m]]
         /\ Answer(0)
         /\ UNCHANGED <<mounted, handles>>

Delete(n) ==
  LET ok == mounted /\ n \in DOMAIN files \ OpenNames
  IN  \/ ~ok /\ Refuse
      \/ /\ ok
         /\ files' = [m \in DOMAIN files \ {n} |-> files[m]]
         /\ Answer(0)
         /\ UNCHANGED <<mounted, handles>>

Free ==
  /\ IF mounted THEN Answer(FreeBlocks) ELSE Answer(0)
  /\ UNCHANGED <<mounted, files, handles>>

\* Every file goes, unless one is open.
EraseAll ==
  LET ok == mounted /\ OpenNames = {}
  IN  \/ ~ok /\ Refuse
      \/ /\ ok
         /\ files' = [n \in {} |-> <<>>]
         /\ Answer(0)
         /\ UNCHANGED <<mounted, handles>>

\* Any descriptor that is not in use will do.
Open(n) ==
  LET unused == {fd \in Fds : handles[fd] = Closed}
      ok == mounted /\ n \in DOMAIN files /\ unused # {}
  IN  \/ ~ok /\ Refuse
      \/ /\ ok
         /\ \E fd \in unused :
              /\ handles' = [handles EXCEPT ![fd] = [name |-> n, offset |-> 0]]
              /\ Answer(fd)
         /\ UNCHANGED <<mounted, files>>

Close(fd) ==
  \/ ~IsOpen(fd) /\ Refuse
  \/ /\ IsOpen(fd)
     /\ handles' = [handles EXCEPT ![fd] = Closed]
     /\ Answer(0)
     /\ UNCHANGED <<mounted, files>>

Stat(fd) ==
  \/ ~IsOpen(fd) /\ Refuse
  \/ /\ IsOpen(fd)
     /\ Answer(Len(files[handles[fd].name]))
     /\ UNCHANGED <<mounted, files, handles>>

Seek(fd, offset) ==
  LET ok == IsOpen(fd) /\ offset <= Len(files[handles[fd].name])
  IN  \/ ~ok /\ Refuse
      \/ /\ ok
         /\ handles' = [handles EXCEPT ![fd].offset = offset]
         /\ Answer(0)
         /\ UNCHANGED <<mounted, files>>

\* As many of the bytes as the blocks of the file and the free blocks can hold;
\* the file grows when they go past its end, and no other byte changes.
Write(fd, buf, count) ==
  \/ (~IsOpen(fd) \/ buf = Null) /\ Refuse
  \/ /\ IsOpen(fd) /\ buf # Null
     /\ LET n == handles[fd].name
            offset == handles[fd].offset
            room == (BlocksFor(Len(files[n])) + FreeBlocks) * BlockSize - offset
            last == offset + (IF count <= room THEN count ELSE room)
        IN  /\ files' = [files EXCEPT ![n] =
                 [p \in 1 .. (IF last > Len(@) THEN last ELSE Len(@)) |->
                    IF p \in offset + 1 .. last THEN <<n, p - 1, buf>> ELSE @[p]]]
            /\ handles' = [handles EXCEPT ![fd].offset = last]
            /\ Answer(last - offset)
     /\ UNCHANGED mounted

\* The bytes from the offset on, up to the end of the file.
Read(fd, buf, count) ==
  \/ (~IsOpen(fd) \/ buf = Null) /\ Refuse
  \/ /\ IsOpen(fd) /\ buf # Null
     /\ LET bytes == files[handles[fd].name]
            offset == handles[fd].offset
            last == IF offset + count <= Len(bytes) THEN offset + count ELSE Len(bytes)
        IN  /\ result' = [Outcome(last - offset) EXCEPT !.buf = SubSeq(bytes, offset + 1, last)]
            /\ handles' = [handles EXCEPT ![fd].offset = last]
     /\ UNCHANGED <<mounted, files>>

-----------------------------------------------------------------------------
Next ==
  \/ Mount
  \/ Unmount
  \/ Info
  \/ List
  \/ Free
  \/ EraseAll
  \/ \E n \in Names \cup {Null} : Create(n) \/ Delete(n) \/ Open(n)
  \/ \E fd \in FdArgs : Close(fd) \/ Stat(fd)
  \/ \E fd \in FdArgs, offset \in 0 .. Capacity * BlockSize + 1 : Seek(fd, offset)
  \/ \E fd \in FdArgs, buf \in Versions \cup {Null}, count \in 0 .. MaxCount :
       Write(fd, buf, count) \/ Read(fd, buf, count)

Spec == Init /\ [][Next]_vars

================================================================================
