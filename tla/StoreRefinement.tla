---------------------------- MODULE StoreRefinement ----------------------------
(***************************************************************************)
(* The refinement mapping from FileSystem to FileStore: what the blocks,    *)
(* the FAT, the directory and the descriptor table stand for.               *)
(***************************************************************************)
EXTENDS FileSystem

\* The bytes of the file of directory entry i, read along its chain.
Contents(i) ==
  [p \in 1 .. root[i].size |->
     data[skip_blocks(fat, root[i].index, (p - 1) \div BlockSize)][(p - 1) % BlockSize]]

Store == INSTANCE FileStore WITH
  Capacity <- DataBlocks - 1,
  mounted <- disk_mounted,
  files <- [n \in {root[i].filename : i \in DirSlots \ Entries(Null)} |->
              Contents(FirstEntry(n))],
  handles <- [fd \in Fds |-> [name |-> Node(fd).filename, offset |-> Node(fd).offset]]

\* As long as a file is open under one descriptor at a time, a client cannot tell
\* libfs from a store of byte sequences: every call returns what FileStore says,
\* a write is cut short by nothing but a full disk, what is written is what is
\* read back, whatever other files are created, extended and deleted in between.
ImplementsFileStore == Store!Spec

================================================================================
