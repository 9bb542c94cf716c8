-------------------------------- MODULE Volume --------------------------------
(***************************************************************************)
(* Where a volume comes from and how it is mounted: disk images as files of *)
(* the host, create_disk (libfs/utilities.c) write by write, the open disk  *)
(* of libfs/disk.c, and fs_mount and fs_umount (libfs/fs.c) with every way  *)
(* they have to fail.  FileSystem starts where this module ends: at a       *)
(* mounted volume whose metadata has passed isValidMetadata.                *)
(*                                                                          *)
(* A process that uses the library may be killed at any moment; the images  *)
(* stay, and another process goes on with them.                             *)
(***************************************************************************)
EXTENDS Integers, FiniteSets

CONSTANTS
  Files,          \* names of files on the host
  Foreign,        \* images that something else than create_disk has left there
  FatEntries,     \* FAT_ENTRIES, the entries of one FAT block
  MaxDataBlocks,  \* the largest disk create_disk makes
  HostFds,        \* the host descriptors a process may hold at a time
  Null            \* a NULL pointer; no file of that name; a free descriptor

INVALID_FD == -1

U16_LIMIT == 65536
U8_LIMIT == 256
U16(n) == n % U16_LIMIT
U8(n) == n % U8_LIMIT

fat_blocks_required(n) == n \div FatEntries + (IF n % FatEntries # 0 THEN 1 ELSE 0)

\* A count create_disk works out fits the field of the superblock it is cast to.
\* VolumeProofs shows this of 2048 entries and 8198 blocks.
ASSUME VolumeAssumption ==
  /\ FatEntries \in Nat \ {0}
  /\ MaxDataBlocks \in Nat
  /\ \A n \in 1 .. MaxDataBlocks :
       /\ fat_blocks_required(n) \in 1 .. U8_LIMIT - 1
       /\ fat_blocks_required(n) + n + 2 < U16_LIMIT
  /\ HostFds \subseteq Nat
  /\ Null \notin Files

DiskMetadata ==
  [signature : BOOLEAN, totalBlocks : 0 .. U16_LIMIT - 1, rootDirectoryIndex : 0 .. U16_LIMIT - 1,
   dataStartIndex : 0 .. U16_LIMIT - 1, totalDataBlocks : 0 .. U16_LIMIT - 1,
   totalFatBlocks : 0 .. U8_LIMIT - 1]

\* aligned: the size is a multiple of BLOCK_SIZE.  reserved: the entry of data block 0
\* is FAT_EOC, so the allocator never hands block 0 out.
Image == [aligned : BOOLEAN, bcount : Nat, super : DiskMetadata, reserved : BOOLEAN]

ASSUME ForeignAssumption ==
  /\ Foreign \subseteq Image
  /\ Null \notin Image \cup DiskMetadata

VARIABLES
  host,                 \* the image in every file of the host, Null where there is none
  held,                 \* what the host descriptors of the process are open on
  forgotten,            \* ghost: those block_disk_open took and failed without closing
  disk,                 \* disk: the descriptor and the block count
  disk_mounted,         \* disk_mounted
  diskMetadata,         \* *diskMetadata, or Null
  root_directory_index, \* root_directory_index
  data_blocks,          \* data_blocks
  fd_table,             \* is there a table? (NULL or not)
  job,                  \* a call of create_disk that is under way
  made,                 \* the files create_disk has begun, and those it has finished
  result                \* what the last call returned

lib == <<disk, disk_mounted, diskMetadata, root_directory_index, data_blocks, fd_table>>
vars == <<host, held, forgotten, lib, job, made, result>>

Idle == [pc |-> "idle", file |-> Null, fd |-> INVALID_FD, n |-> 0]

Init ==
  /\ \E f \in Files, image \in Foreign \cup {Null} :
       host = [file \in Files |-> IF file = f THEN image ELSE Null]
  /\ held = [fd \in HostFds |-> Null]
  /\ forgotten = {}
  /\ disk = [fd |-> INVALID_FD, bcount |-> 0]
  /\ disk_mounted = FALSE
  /\ diskMetadata = Null
  /\ root_directory_index = 0
  /\ data_blocks = 0
  /\ fd_table = FALSE
  /\ job = Idle
  /\ made = [begun |-> {}, done |-> {}]
  /\ result = 0

Return(code) == result' = code

-----------------------------------------------------------------------------
(* The host: open gives the lowest free descriptor.  It fails when there is *)
(* none, and may fail for reasons of its own.                               *)

FreeFds == {fd \in HostFds : held[fd] = Null}
LowestFree == CHOOSE fd \in FreeFds : \A other \in FreeFds : fd <= other

-----------------------------------------------------------------------------
(* create_disk, one step per write.                                        *)

\* mutant: no block for the root directory.
disk_blocks_NoRoot(n) == 1 + fat_blocks_required(n) + n

disk_blocks(n) == 1 + fat_blocks_required(n) + 1 + n

created_metadata(n) ==
  LET fat_blocks == fat_blocks_required(n)
  IN  [signature          |-> TRUE,
       totalBlocks        |-> U16(disk_blocks(n)),
       rootDirectoryIndex |-> U16(1 + U16(fat_blocks)),
       dataStartIndex     |-> U16(1 + U16(fat_blocks) + 1),
       totalDataBlocks    |-> U16(n),
       totalFatBlocks     |-> U8(fat_blocks)]

ZeroBlock ==
  [signature |-> FALSE, totalBlocks |-> 0, rootDirectoryIndex |-> 0,
   dataStartIndex |-> 0, totalDataBlocks |-> 0, totalFatBlocks |-> 0]

\* mutant: any size will do.
create_disk_NoLimit(n, file) ==
  /\ job = Idle
  /\ \/ Return(-1) /\ UNCHANGED <<host, held, job, made>>
     \/ /\ n # 0 /\ host[file] = Null /\ FreeFds # {}
        /\ host' = [host EXCEPT ![file] =
                      [aligned |-> TRUE, bcount |-> 0, super |-> ZeroBlock, reserved |-> FALSE]]
        /\ held' = [held EXCEPT ![LowestFree] = file]
        /\ job' = [pc |-> "zero", file |-> file, fd |-> LowestFree, n |-> n]
        /\ made' = [made EXCEPT !.begun = @ \cup {file}]
        /\ UNCHANGED result
  /\ UNCHANGED <<lib, forgotten>>

\* O_EXCL: a file that exists is left alone.  Any size and file may be refused, since
\* open(2) may fail.
create_disk(n, file) ==
  /\ job = Idle
  /\ \/ Return(-1) /\ UNCHANGED <<host, held, job, made>>
     \/ /\ n \in 1 .. MaxDataBlocks /\ host[file] = Null /\ FreeFds # {}
        /\ host' = [host EXCEPT ![file] =
                      [aligned |-> TRUE, bcount |-> 0, super |-> ZeroBlock, reserved |-> FALSE]]
        /\ held' = [held EXCEPT ![LowestFree] = file]
        /\ job' = [pc |-> "zero", file |-> file, fd |-> LowestFree, n |-> n]
        /\ made' = [made EXCEPT !.begun = @ \cup {file}]
        /\ UNCHANGED result
  /\ UNCHANGED <<lib, forgotten>>

CreateZero ==
  /\ job.pc = "zero"
  /\ host' = [host EXCEPT ![job.file].bcount = @ + 1]
  /\ job' = IF host[job.file].bcount + 1 = disk_blocks(job.n)
              THEN [job EXCEPT !.pc = "super"] ELSE job
  /\ UNCHANGED <<held, forgotten, lib, made, result>>

CreateSuper ==
  /\ job.pc = "super"
  /\ host' = [host EXCEPT ![job.file].super = created_metadata(job.n)]
  /\ job' = [job EXCEPT !.pc = "fat"]
  /\ UNCHANGED <<held, forgotten, lib, made, result>>

\* mutant: the file is not closed.
CreateReserve_NotClosed ==
  /\ job.pc = "fat"
  /\ host' = [host EXCEPT ![job.file].reserved = TRUE]
  /\ made' = [made EXCEPT !.done = @ \cup {job.file}]
  /\ job' = Idle
  /\ Return(0)
  /\ UNCHANGED <<held, forgotten, lib>>

\* The entry of block 0, then close.
CreateReserve ==
  /\ job.pc = "fat"
  /\ host' = [host EXCEPT ![job.file].reserved = TRUE]
  /\ held' = [held EXCEPT ![job.fd] = Null]
  /\ made' = [made EXCEPT !.done = @ \cup {job.file}]
  /\ job' = Idle
  /\ Return(0)
  /\ UNCHANGED <<lib, forgotten>>

-----------------------------------------------------------------------------
(* The open disk.                                                          *)

\* What block_read and block_write ask before they touch the image.
in_bounds(block) == disk.fd # INVALID_FD /\ block < disk.bcount

\* mutant: how many FAT blocks the data blocks need is not looked at.
isValidMetadata_AnyFat(m, bcount) ==
  /\ m.signature
  /\ m.totalBlocks = bcount
  /\ m.totalBlocks >= 4
  /\ m.totalDataBlocks >= 1 /\ m.totalFatBlocks >= 1
  /\ m.totalDataBlocks <= m.totalBlocks - 3 /\ m.totalFatBlocks <= m.totalBlocks - 3
  /\ m.rootDirectoryIndex = 1 + m.totalFatBlocks
  /\ m.dataStartIndex = 1 + m.totalFatBlocks + 1

isValidMetadata(m, bcount) ==
  /\ m.signature
  /\ m.totalBlocks = bcount
  /\ m.totalBlocks >= 4
  /\ m.totalDataBlocks >= 1 /\ m.totalFatBlocks >= 1
  /\ m.totalDataBlocks <= m.totalBlocks - 3 /\ m.totalFatBlocks <= m.totalBlocks - 3
  /\ fat_blocks_required(m.totalDataBlocks) = m.totalFatBlocks
  /\ m.totalDataBlocks <= m.totalFatBlocks * FatEntries
  /\ m.rootDirectoryIndex = 1 + m.totalFatBlocks
  /\ m.dataStartIndex = 1 + m.totalFatBlocks + 1

\* Where the superblock, the FAT, the directory and the data are on the image.
get_actual_block_index(b) == root_directory_index + 1 + b
get_fat_block_index(b) == 1 + b \div FatEntries
get_fat_block_entry(b) == b % FatEntries

-----------------------------------------------------------------------------
(* fs_mount and fs_umount.                                                 *)

Openable(file) == disk.fd = INVALID_FD /\ host[file] # Null /\ FreeFds # {}

\* block_disk_open fails without a descriptor: no name, a disk is open already, or
\* open(2) fails.
MountRefused(file) ==
  /\ Return(-1)
  /\ UNCHANGED <<held, forgotten, lib>>

\* It fails with a descriptor, which it does not give back.
OpenForgotten(file) ==
  /\ held' = [held EXCEPT ![LowestFree] = file]
  /\ forgotten' = forgotten \cup {LowestFree}
  /\ Return(-1)
  /\ UNCHANGED lib

\* fstat(2) fails, whatever the image.
MountUnstatable(file) == Openable(file) /\ OpenForgotten(file)

MountMisaligned(file) == Openable(file) /\ ~host[file].aligned /\ OpenForgotten(file)

\* The disk is open; its superblock cannot be read, because there is none or the host
\* fails to.
MountUnreadable(file) ==
  /\ Openable(file) /\ host[file].aligned
  /\ disk' = [fd |-> INVALID_FD, bcount |-> host[file].bcount]
  /\ Return(-1)
  /\ UNCHANGED <<held, forgotten, disk_mounted, diskMetadata, root_directory_index, data_blocks,
                 fd_table>>

\* mutant: the disk of an image that is not a file system stays open.
MountInvalid_StaysOpen(file) ==
  /\ Openable(file) /\ host[file].aligned /\ host[file].bcount # 0
  /\ ~isValidMetadata(host[file].super, host[file].bcount)
  /\ disk' = [fd |-> LowestFree, bcount |-> host[file].bcount]
  /\ held' = [held EXCEPT ![LowestFree] = file]
  /\ diskMetadata' = Null
  /\ Return(-1)
  /\ UNCHANGED <<forgotten, disk_mounted, root_directory_index, data_blocks, fd_table>>

\* The superblock has been read and is not one.
MountInvalid(file) ==
  /\ Openable(file) /\ host[file].aligned /\ host[file].bcount # 0
  /\ ~isValidMetadata(host[file].super, host[file].bcount)
  /\ disk' = [fd |-> INVALID_FD, bcount |-> host[file].bcount]
  /\ diskMetadata' = Null
  /\ Return(-1)
  /\ UNCHANGED <<held, forgotten, disk_mounted, root_directory_index, data_blocks, fd_table>>

MountAccepted(file) ==
  /\ Openable(file) /\ host[file].aligned /\ host[file].bcount # 0
  /\ isValidMetadata(host[file].super, host[file].bcount)
  /\ held' = [held EXCEPT ![LowestFree] = file]
  /\ disk' = [fd |-> LowestFree, bcount |-> host[file].bcount]
  /\ diskMetadata' = host[file].super
  /\ disk_mounted' = TRUE
  /\ root_directory_index' = host[file].super.rootDirectoryIndex
  /\ data_blocks' = host[file].super.totalDataBlocks
  /\ fd_table' = TRUE
  /\ Return(0)
  /\ UNCHANGED forgotten

fs_mount(file) ==
  /\ job = Idle
  /\ \/ MountRefused(file)
     \/ MountUnstatable(file) \/ MountMisaligned(file)
     \/ MountUnreadable(file) \/ MountInvalid(file)
     \/ MountAccepted(file)
  /\ UNCHANGED <<host, job, made>>

fs_umount ==
  /\ job = Idle
  /\ IF disk.fd = INVALID_FD
       THEN Return(-1) /\ UNCHANGED <<held, lib>>
       ELSE /\ held' = [held EXCEPT ![disk.fd] = Null]
            /\ disk' = [disk EXCEPT !.fd = INVALID_FD]
            /\ diskMetadata' = Null
            /\ fd_table' = FALSE
            /\ disk_mounted' = FALSE
            /\ root_directory_index' = 0
            /\ data_blocks' = 0
            /\ Return(0)
  /\ UNCHANGED <<host, forgotten, job, made>>

-----------------------------------------------------------------------------
\* The process ends or is killed, and the next one begins.
Restart ==
  /\ held' = [fd \in HostFds |-> Null]
  /\ forgotten' = {}
  /\ disk' = [fd |-> INVALID_FD, bcount |-> 0]
  /\ disk_mounted' = FALSE
  /\ diskMetadata' = Null
  /\ root_directory_index' = 0
  /\ data_blocks' = 0
  /\ fd_table' = FALSE
  /\ job' = Idle
  /\ result' = 0
  /\ UNCHANGED <<host, made>>

\* bound: sizes up to one more than the largest.
SizeArgs == 0 .. MaxDataBlocks + 1

Next ==
  \/ \E n \in SizeArgs, file \in Files : create_disk(n, file)
  \/ CreateZero
  \/ CreateSuper
  \/ CreateReserve
  \/ \E file \in Files : fs_mount(file)
  \/ fs_umount
  \/ Restart

Spec == Init /\ [][Next]_vars

-----------------------------------------------------------------------------
TypeOK ==
  /\ host \in [Files -> Image \cup {Null}]
  /\ held \in [HostFds -> Files \cup {Null}] /\ forgotten \subseteq HostFds
  /\ disk \in [fd : HostFds \cup {INVALID_FD}, bcount : Nat]
  /\ disk_mounted \in BOOLEAN
  /\ diskMetadata \in DiskMetadata \cup {Null}
  /\ root_directory_index \in 0 .. U16_LIMIT - 1 /\ data_blocks \in 0 .. U16_LIMIT - 1
  /\ fd_table \in BOOLEAN
  /\ job = Idle \/ job \in [pc : {"zero", "super", "fat"}, file : Files, fd : HostFds,
                            n : 1 .. MaxDataBlocks]
  /\ made \in [begun : SUBSET Files, done : SUBSET Files]
  /\ result \in {-1, 0}

\* fs_mount has four ways to fail half-way and fs_umount resets six variables: the
\* disk is open exactly while a file system is mounted, with metadata, sizes and a
\* descriptor table, and without one nothing is left of them, so the next mount starts
\* from where the first one did (fs.c:30-91).
MountIsAllOrNothing ==
  /\ disk_mounted <=> disk.fd # INVALID_FD
  /\ disk_mounted <=> diskMetadata # Null
  /\ disk_mounted <=> fd_table
  /\ disk_mounted =>
       /\ held[disk.fd] # Null
       /\ host[held[disk.fd]] # Null
       /\ diskMetadata = host[held[disk.fd]].super
       /\ disk.bcount = host[held[disk.fd]].bcount
       /\ root_directory_index = diskMetadata.rootDirectoryIndex
       /\ data_blocks = diskMetadata.totalDataBlocks
  /\ ~disk_mounted => root_directory_index = 0 /\ data_blocks = 0

\* Of the host's descriptors the process holds that of the open disk, that of the disk
\* being made, and those block_disk_open forgets when fstat fails or the size is not a
\* multiple of the block size (disk.c:56-66); no other, and none of them for two
\* purposes.  Every other failure gives back what it took.
DescriptorsAccounted ==
  /\ \A fd \in HostFds : held[fd] # Null <=> fd \in {disk.fd, job.fd} \cup forgotten
  /\ {disk.fd, job.fd} \cap forgotten = {}
  /\ disk.fd = job.fd => disk.fd = INVALID_FD

\* The superblock, the FAT, the root directory and the data of a mounted volume are
\* apart, every data block has an entry of its own in the FAT, and FAT and directory
\* are on the image: what FileSystem takes for granted when it has the FAT as one
\* function, and its assumption on the number of data blocks.
RegionsApart ==
  disk_mounted =>
    /\ data_blocks \in 1 .. U16_LIMIT - 4
    /\ in_bounds(root_directory_index)
    /\ get_actual_block_index(0) = diskMetadata.dataStartIndex
    /\ \A b \in 0 .. data_blocks - 1 :
         /\ get_fat_block_index(b) \in 1 .. root_directory_index - 1
         /\ get_fat_block_entry(b) \in 0 .. FatEntries - 1
    /\ \A b, c \in 0 .. data_blocks - 1 :
         get_fat_block_index(b) = get_fat_block_index(c)
           /\ get_fat_block_entry(b) = get_fat_block_entry(c) => b = c

\* The data blocks the metadata m promises are on an image of that many blocks.
DataFits(m, bcount) == m.dataStartIndex + m.totalDataBlocks <= bcount

\* A finished disk can be mounted and holds all its data blocks, and has block 0 set
\* aside.  Of the unfinished ones that a kill leaves behind fs_mount refuses all but
\* those cut between the last two writes, where block 0 has not been set aside yet
\* (utilities.c:72-82).
CreatedDisks ==
  \A file \in made.begun :
    LET image == host[file]
        accepted == image.bcount # 0 /\ isValidMetadata(image.super, image.bcount)
    IN  /\ accepted => DataFits(image.super, image.bcount)
        /\ file \in made.done => accepted /\ image.reserved
        /\ file \notin made.done => ~image.reserved
        /\ accepted /\ file \notin made.done /\ job.file = file => job.pc = "fat"

-----------------------------------------------------------------------------
\* fs.h:65-66: fs_mount fails "if no valid file system can be located": one whose data
\* blocks are not all on the image is none.
DataOnDisk == disk_mounted => \A b \in 0 .. data_blocks - 1 : in_bounds(get_actual_block_index(b))

==============================================================================
