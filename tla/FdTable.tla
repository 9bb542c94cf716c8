------------------------------- MODULE FdTable -------------------------------
(***************************************************************************)
(* libfs/fdTable.c: the table of open files.  A node caches the directory   *)
(* slot, size and first block that fs_open found, and the offset.           *)
(***************************************************************************)
EXTENDS Integers, FiniteSets, Fat

CONSTANTS
  Null,        \* a NULL pointer, and the empty string of a free directory slot
  OpenMax,     \* FS_OPEN_MAX_COUNT
  FileMax      \* FS_FILE_MAX_COUNT

ASSUME TableAssumption ==
  /\ Null \notin Names
  /\ OpenMax \in Nat \ {0}
  /\ FileMax \in Nat \ {0}

Fds == 0 .. OpenMax - 1
DirSlots == 0 .. FileMax - 1

NodeType ==
  [in_use : BOOLEAN, filename : Names \cup {Null}, dir_entry_index : DirSlots,
   size : Nat, offset : Nat, first_data_block : Links]

TableType == [nodes : [Fds -> NodeType], fdsOccupied : 0 .. OpenMax]

fdNode_constructor ==
  [in_use |-> FALSE, filename |-> Null, dir_entry_index |-> 0,
   size |-> 0, offset |-> 0, first_data_block |-> FAT_EOC]

fd_table_constructor ==
  [nodes |-> [fd \in Fds |-> fdNode_constructor], fdsOccupied |-> 0]

\* mutant: only as many nodes are searched as are in use.
isOpenByName_SearchesOccupied(table, name) ==
  \E fd \in 0 .. table.fdsOccupied - 1 :
    table.nodes[fd].in_use /\ table.nodes[fd].filename = name

isOpenByName(table, name) ==
  /\ table.fdsOccupied # 0
  /\ \E fd \in Fds : table.nodes[fd].in_use /\ table.nodes[fd].filename = name

isOpenByFd(table, fd) == table.nodes[fd].in_use

table_is_full(table) == table.fdsOccupied = OpenMax

InUse(table) == {fd \in Fds : table.nodes[fd].in_use}
Unused(table) == {fd \in Fds : ~table.nodes[fd].in_use}

\* The descriptor addFd hands out: the first unused node, or -1.
addFd(table) ==
  IF table_is_full(table) \/ Unused(table) = {} THEN -1
  ELSE CHOOSE fd \in Unused(table) : \A other \in Unused(table) : fd <= other

\* addFd marks the node and counts it; fs_open then fills in what it found.
Occupied(table, fd, name, fill) ==
  [nodes |-> [table.nodes EXCEPT
                ![fd] = [fill EXCEPT !.in_use = TRUE, !.filename = name]],
   fdsOccupied |-> table.fdsOccupied + 1]

removeFd(table, fd) ==
  [nodes |-> [table.nodes EXCEPT ![fd] = fdNode_constructor],
   fdsOccupied |-> table.fdsOccupied - 1]

==============================================================================
