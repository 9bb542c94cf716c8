----------------------------- MODULE VolumeProofs -----------------------------
(***************************************************************************)
(* Proofs about Volume: for any number of files, host descriptors and       *)
(* foreign images, and for disks of every size create_disk makes.           *)
(***************************************************************************)
EXTENDS Volume, IterationProofs

-----------------------------------------------------------------------------
(* The arithmetic of the block counts.                                     *)

\* The casts of create_disk (utilities.c:64-68) lose nothing for the sizes it allows,
\* which is what VolumeAssumption asks.
THEOREM SizesFit ==
  ASSUME FatEntries = 2048, MaxDataBlocks = 8198, NEW n \in 1 .. MaxDataBlocks
  PROVE  fat_blocks_required(n) \in 1 .. U8_LIMIT - 1 /\ fat_blocks_required(n) + n + 2 < U16_LIMIT
BY SMT DEF fat_blocks_required, U8_LIMIT, U16_LIMIT

LEMMA Limits == U8_LIMIT \in Nat /\ U16_LIMIT \in Nat /\ U8_LIMIT > 1 /\ U16_LIMIT > U8_LIMIT + 4
BY SMT DEF U8_LIMIT, U16_LIMIT

LEMMA FatBlocksType ==
  ASSUME NEW n \in Nat
  PROVE  fat_blocks_required(n) \in Nat
BY VolumeAssumption DEF fat_blocks_required

LEMMA CreatedFields ==
  ASSUME NEW n \in 1 .. MaxDataBlocks
  PROVE  LET m == created_metadata(n)
             fat_blocks == fat_blocks_required(n)
         IN  /\ m \in DiskMetadata
             /\ m.signature /\ m.totalBlocks = disk_blocks(n) /\ disk_blocks(n) = fat_blocks + n + 2
             /\ m.rootDirectoryIndex = 1 + fat_blocks /\ m.dataStartIndex = 2 + fat_blocks
             /\ m.totalDataBlocks = n /\ m.totalFatBlocks = fat_blocks
             /\ fat_blocks \in 1 .. U8_LIMIT - 1
<1> DEFINE k == fat_blocks_required(n)
<1>1. n \in Nat /\ n >= 1 /\ k \in 1 .. U8_LIMIT - 1 /\ k + n + 2 < U16_LIMIT
  BY VolumeAssumption
<1> HIDE DEF k
<1>2. /\ U8(k) = k /\ U16(k) = k /\ U16(n) = n /\ U16(1 + k + 1 + n) = k + n + 2
      /\ U16(1 + k) = 1 + k /\ U16(1 + k + 1) = 1 + k + 1
  BY <1>1, Limits DEF U8, U16
<1>3. disk_blocks(n) = 1 + k + 1 + n
  BY DEF disk_blocks, k
<1>4. created_metadata(n) =
        [signature |-> TRUE, totalBlocks |-> k + n + 2, rootDirectoryIndex |-> 1 + k,
         dataStartIndex |-> 1 + k + 1, totalDataBlocks |-> n, totalFatBlocks |-> k]
  BY <1>2, <1>3 DEF created_metadata, k
<1>5. created_metadata(n) \in DiskMetadata
  <2>1. /\ k + n + 2 \in 0 .. U16_LIMIT - 1 /\ 1 + k \in 0 .. U16_LIMIT - 1 /\ 1 + k + 1 \in 0 .. U16_LIMIT - 1
        /\ n \in 0 .. U16_LIMIT - 1 /\ k \in 0 .. U8_LIMIT - 1
    BY <1>1, Limits
  <2>2. QED
    BY <1>4, <2>1 DEF DiskMetadata
<1>6. QED
  BY <1>1, <1>3, <1>4, <1>5 DEF k

\* So many FAT blocks hold an entry for each of n data blocks.
LEMMA FatBlocksEnough ==
  ASSUME NEW n \in Nat
  PROVE  /\ n <= fat_blocks_required(n) * FatEntries
         /\ \A b \in Nat : b < n => /\ b \div FatEntries \in Nat
                                    /\ b \div FatEntries < fat_blocks_required(n)
<1> DEFINE F == FatEntries
           q == n \div F
           r == n % F
           k == fat_blocks_required(n)
<1>1. /\ F \in Nat \ {0} /\ q \in Nat /\ r \in Nat /\ r < F /\ n = F * q + r
      /\ k = q + (IF r # 0 THEN 1 ELSE 0)
  BY VolumeAssumption DEF fat_blocks_required
<1> HIDE DEF F, q, r, k
<1>2. k \in Nat /\ n <= F * k
  <2>1. CASE r = 0
    BY <1>1, <2>1
  <2>2. CASE r # 0
    <3>1. F * (q + 1) = F * q + F
      BY <1>1
    <3>2. F * q \in Nat
      BY <1>1
    <3>3. QED
      BY <1>1, <2>2, <3>1, <3>2
  <2>3. QED
    BY <2>1, <2>2
<1>3. ASSUME NEW b \in Nat, b < n
      PROVE  b \div F \in Nat /\ b \div F < k
  <2> DEFINE p == b \div F
             s == b % F
  <2>1. p \in Nat /\ s \in Nat /\ s < F /\ b = F * p + s
    BY <1>1
  <2> HIDE DEF p, s
  <2>2. ASSUME p >= k
        PROVE  FALSE
    <3>1. F * p >= F * k
      BY <1>1, <1>2, <2>1, <2>2
    <3>2. F * p \in Nat /\ F * k \in Nat
      BY <1>1, <1>2, <2>1
    <3>3. QED
      BY <1>2, <1>3, <2>1, <3>1, <3>2
  <2>3. QED
    BY <1>2, <2>1, <2>2 DEF p
<1>4. F * k = k * F
  BY <1>1, <1>2
<1>5. QED
  BY <1>2, <1>3, <1>4 DEF F, k

\* A disk of any size that create_disk makes is a file system to fs_mount, and holds
\* all its data blocks.
THEOREM CreatedValid ==
  ASSUME NEW n \in 1 .. MaxDataBlocks
  PROVE  /\ isValidMetadata(created_metadata(n), disk_blocks(n))
         /\ DataFits(created_metadata(n), disk_blocks(n))
         /\ disk_blocks(n) # 0
<1> DEFINE m == created_metadata(n)
           k == fat_blocks_required(n)
<1>1. /\ m.signature /\ m.totalBlocks = disk_blocks(n) /\ disk_blocks(n) = k + n + 2
      /\ m.rootDirectoryIndex = 1 + k /\ m.dataStartIndex = 2 + k
      /\ m.totalDataBlocks = n /\ m.totalFatBlocks = k
      /\ k \in 1 .. U8_LIMIT - 1
  BY CreatedFields
<1>2. n \in Nat /\ n >= 1 /\ n <= k * FatEntries
  BY FatBlocksEnough, VolumeAssumption
<1>3. fat_blocks_required(m.totalDataBlocks) = m.totalFatBlocks
  BY <1>1
<1> HIDE DEF m, k
<1>4. isValidMetadata(m, disk_blocks(n))
  BY <1>1, <1>2, <1>3 DEF isValidMetadata
<1>5. DataFits(m, disk_blocks(n)) /\ disk_blocks(n) # 0
  BY <1>1, <1>2 DEF DataFits
<1>6. QED
  BY <1>4, <1>5 DEF m

\* What fs_mount accepts has its FAT and directory on the image, and a FAT entry for
\* each data block.
LEMMA ValidRegions ==
  ASSUME NEW m \in DiskMetadata, NEW bcount \in Nat, isValidMetadata(m, bcount)
  PROVE  /\ m.totalDataBlocks \in 1 .. U16_LIMIT - 4
         /\ m.rootDirectoryIndex < bcount
         /\ m.dataStartIndex = m.rootDirectoryIndex + 1
         /\ m.rootDirectoryIndex = 1 + fat_blocks_required(m.totalDataBlocks)
<1>1. /\ m.totalBlocks \in 0 .. U16_LIMIT - 1 /\ m.totalDataBlocks \in 0 .. U16_LIMIT - 1
      /\ m.totalFatBlocks \in 0 .. U8_LIMIT - 1 /\ m.rootDirectoryIndex \in 0 .. U16_LIMIT - 1
  BY DEF DiskMetadata
<1>2. /\ m.totalBlocks = bcount /\ m.totalDataBlocks >= 1
      /\ m.totalDataBlocks <= m.totalBlocks - 3 /\ m.totalFatBlocks <= m.totalBlocks - 3
      /\ m.rootDirectoryIndex = 1 + m.totalFatBlocks
      /\ m.dataStartIndex = 1 + m.totalFatBlocks + 1
  BY DEF isValidMetadata
<1>3. fat_blocks_required(m.totalDataBlocks) = m.totalFatBlocks
  BY DEF isValidMetadata
<1>4. m.totalDataBlocks \in 1 .. U16_LIMIT - 4 /\ m.rootDirectoryIndex < bcount
  BY <1>1, <1>2, Limits
<1>5. m.dataStartIndex = m.rootDirectoryIndex + 1
  BY <1>1, <1>2, Limits
<1>6. QED
  BY <1>2, <1>3, <1>4, <1>5

LEMMA EntriesApart ==
  ASSUME NEW b \in Nat, NEW c \in Nat,
         get_fat_block_index(b) = get_fat_block_index(c),
         get_fat_block_entry(b) = get_fat_block_entry(c)
  PROVE  b = c
<1> DEFINE F == FatEntries
<1>1. /\ F \in Nat \ {0}
      /\ b \div F \in Nat /\ c \div F \in Nat
      /\ b = F * (b \div F) + (b % F) /\ c = F * (c \div F) + (c % F)
  BY VolumeAssumption
<1>2. b \div F = c \div F /\ b % F = c % F
  BY <1>1 DEF get_fat_block_index, get_fat_block_entry
<1> HIDE DEF F
<1>3. QED
  BY <1>1, <1>2

-----------------------------------------------------------------------------
(* The inductive invariant.                                                *)

\* Every image create_disk has begun is as far as its writes have come.
BegunInv ==
  /\ made.done \subseteq made.begun
  /\ \A f \in made.begun :
       /\ host[f] # Null /\ host[f].aligned
       /\ f \in made.done <=> host[f].reserved
       /\ \/ host[f].super = ZeroBlock /\ f \notin made.done
          \/ \E n \in 1 .. MaxDataBlocks :
               host[f].super = created_metadata(n) /\ host[f].bcount = disk_blocks(n)

\* The call of create_disk that is under way has its own descriptor and its own file,
\* which is not that of the mounted disk.
JobInv ==
  job # Idle =>
    /\ held[job.fd] = job.file /\ job.fd # disk.fd
    /\ disk_mounted => held[disk.fd] # job.file
    /\ job.file \in made.begun \ made.done
    /\ job.pc = "zero" => host[job.file].super = ZeroBlock /\ host[job.file].bcount < disk_blocks(job.n)
    /\ job.pc = "super" => /\ host[job.file].super = ZeroBlock
                           /\ host[job.file].bcount = disk_blocks(job.n)
    /\ job.pc = "fat" => /\ host[job.file].super = created_metadata(job.n)
                         /\ host[job.file].bcount = disk_blocks(job.n)

MountedValid ==
  disk_mounted => isValidMetadata(diskMetadata, disk.bcount)

IInv ==
  /\ TypeOK
  /\ MountIsAllOrNothing
  /\ DescriptorsAccounted
  /\ MountedValid
  /\ BegunInv
  /\ JobInv

LEMMA LowestFreeFound ==
  ASSUME FreeFds # {}
  PROVE  LowestFree \in HostFds /\ held[LowestFree] = Null
<1>1. FreeFds \in SUBSET Nat
  BY VolumeAssumption DEF FreeFds
<1>2. \E fd \in FreeFds : \A other \in FreeFds : fd <= other
  BY <1>1, NatMinimum
<1>3. LowestFree \in FreeFds
  BY <1>2 DEF LowestFree
<1>4. QED
  BY <1>3 DEF FreeFds

\* -1 is no host descriptor, and a job that is under way is not Idle.
LEMMA Descriptors ==
  /\ INVALID_FD \notin HostFds
  /\ \A j \in [pc : {"zero", "super", "fat"}, file : Files, fd : HostFds, n : 1 .. MaxDataBlocks] :
       j # Idle
BY VolumeAssumption DEF INVALID_FD, Idle

LEMMA ZeroBlockRefused ==
  ZeroBlock \in DiskMetadata /\ \A bcount : ~isValidMetadata(ZeroBlock, bcount)
BY Limits DEF ZeroBlock, DiskMetadata, isValidMetadata

LEMMA InitInv == Init => IInv
<1> SUFFICES ASSUME Init PROVE IInv
  OBVIOUS
<1>1. TypeOK
  <2>1. host \in [Files -> Image \cup {Null}]
    BY ForeignAssumption DEF Init
  <2>2. /\ held \in [HostFds -> Files \cup {Null}] /\ forgotten \subseteq HostFds
        /\ disk \in [fd : HostFds \cup {INVALID_FD}, bcount : Nat]
        /\ made \in [begun : SUBSET Files, done : SUBSET Files]
        /\ disk_mounted \in BOOLEAN /\ fd_table \in BOOLEAN
        /\ diskMetadata \in DiskMetadata \cup {Null}
        /\ job = Idle
    BY DEF Init
  <2>3. /\ root_directory_index \in 0 .. U16_LIMIT - 1 /\ data_blocks \in 0 .. U16_LIMIT - 1
        /\ result \in {-1, 0}
    BY Limits DEF Init
  <2>4. QED
    BY <2>1, <2>2, <2>3 DEF TypeOK
<1>2. MountIsAllOrNothing /\ MountedValid /\ BegunInv /\ JobInv
  BY DEF Init, MountIsAllOrNothing, MountedValid, BegunInv, JobInv
<1>3. DescriptorsAccounted
  <2>1. disk.fd = INVALID_FD /\ job.fd = INVALID_FD /\ INVALID_FD \notin HostFds
    BY Descriptors DEF Init, Idle
  <2>2. QED
    BY <2>1 DEF Init, DescriptorsAccounted
<1>4. QED
  BY <1>1, <1>2, <1>3 DEF IInv

-----------------------------------------------------------------------------
(* create_disk.                                                            *)

\* A call that is refused, and a failed block_disk_open, change what they return.
LEMMA OnlyResult ==
  ASSUME IInv, UNCHANGED <<host, held, forgotten, lib, job, made>>, result' \in {-1, 0}
  PROVE  IInv'
<1>1. TypeOK' /\ MountIsAllOrNothing'
  BY DEF IInv, TypeOK, MountIsAllOrNothing, lib
<1>2. DescriptorsAccounted' /\ MountedValid' /\ BegunInv' /\ JobInv'
  BY DEF IInv, DescriptorsAccounted, MountedValid, BegunInv, JobInv, lib
<1>3. QED
  BY <1>1, <1>2 DEF IInv

\* The image that a disk is mounted from is not the one that is being made.
LEMMA MountedElsewhere ==
  ASSUME IInv, NEW file, NEW image, host' = [host EXCEPT ![file] = image],
         disk_mounted => held[disk.fd] # file /\ held'[disk.fd] = held[disk.fd],
         UNCHANGED lib
  PROVE  MountIsAllOrNothing' /\ MountedValid'
<1>1. UNCHANGED <<disk, disk_mounted, diskMetadata, root_directory_index, data_blocks, fd_table>>
  BY DEF lib
<1>2. MountedValid'
  BY <1>1 DEF IInv, MountedValid
<1>3. CASE ~disk_mounted
  BY <1>1, <1>2, <1>3 DEF IInv, MountIsAllOrNothing
<1>4. CASE disk_mounted
  <2>1. host'[held[disk.fd]] = host[held[disk.fd]]
    BY <1>4 DEF IInv, MountIsAllOrNothing, TypeOK
  <2>2. QED
    BY <1>1, <1>2, <1>4, <2>1 DEF IInv, MountIsAllOrNothing
<1>5. QED
  BY <1>3, <1>4

LEMMA CreateStep ==
  ASSUME IInv, NEW n \in SizeArgs, NEW file \in Files, create_disk(n, file)
  PROVE  IInv'
<1>1. CASE Return(-1) /\ UNCHANGED <<host, held, job, made>>
  BY <1>1, OnlyResult DEF create_disk, Return
<1>2. CASE ~(Return(-1) /\ UNCHANGED <<host, held, job, made>>)
  <2> DEFINE image == [aligned |-> TRUE, bcount |-> 0, super |-> ZeroBlock, reserved |-> FALSE]
             j == [pc |-> "zero", file |-> file, fd |-> LowestFree, n |-> n]
  <2>1. /\ job = Idle /\ host[file] = Null /\ FreeFds # {} /\ n \in 1 .. MaxDataBlocks
        /\ host' = [host EXCEPT ![file] = image]
        /\ held' = [held EXCEPT ![LowestFree] = file]
        /\ job' = j
        /\ made' = [made EXCEPT !.begun = @ \cup {file}]
        /\ UNCHANGED <<lib, forgotten, result>>
    BY <1>2 DEF create_disk
  <2>2. PICK fd : fd = LowestFree
    OBVIOUS
  <2>3. fd \in HostFds /\ held[fd] = Null
    BY <2>1, <2>2, LowestFreeFound
  <2>4. TypeOK /\ MountIsAllOrNothing /\ BegunInv
    BY DEF IInv
  <2>5. fd # disk.fd
    BY <2>3, <2>4, Descriptors DEF MountIsAllOrNothing
  <2>6. image \in Image
    BY ZeroBlockRefused DEF Image
  <2>7. n \in 1 .. MaxDataBlocks
    BY <2>1
  <2>8. j \in [pc : {"zero", "super", "fat"}, file : Files, fd : HostFds, n : 1 .. MaxDataBlocks]
    BY <2>2, <2>3, <2>7
  <2>9. /\ host' \in [Files -> Image \cup {Null}] /\ host'[file] = image
        /\ \A f \in Files : f # file => host'[f] = host[f]
        /\ held' \in [HostFds -> Files \cup {Null}] /\ held'[fd] = file
        /\ \A x \in HostFds : x # fd => held'[x] = held[x]
    BY <2>1, <2>2, <2>3, <2>4, <2>6 DEF TypeOK
  <2>10. /\ made' = [begun |-> made.begun \cup {file}, done |-> made.done]
         /\ made.begun \subseteq Files
    BY <2>1, <2>4 DEF TypeOK
  <2>11. file \notin made.begun
    BY <2>1, <2>4 DEF BegunInv
  <2>12. disk_mounted => /\ disk.fd \in HostFds /\ held[disk.fd] # file
                         /\ held'[disk.fd] = held[disk.fd]
    BY <2>1, <2>4, <2>5, <2>9 DEF MountIsAllOrNothing, TypeOK
  <2>13. TypeOK'
    BY <2>1, <2>4, <2>8, <2>9, <2>10 DEF TypeOK, lib
  <2>14. MountIsAllOrNothing' /\ MountedValid'
    BY <2>1, <2>12, MountedElsewhere
  <2>15. DescriptorsAccounted'
    <3>1. DescriptorsAccounted /\ job.fd = INVALID_FD /\ INVALID_FD \notin HostFds
      BY <2>1, Descriptors DEF IInv, Idle
    <3>2. fd \notin forgotten
      BY <2>3, <3>1 DEF DescriptorsAccounted
    <3>3. job'.fd = fd /\ disk' = disk /\ forgotten' = forgotten
      BY <2>1, <2>2 DEF lib
    <3>4. file # Null
      BY VolumeAssumption
    <3>5. QED
      BY <2>3, <2>5, <2>9, <3>1, <3>2, <3>3, <3>4 DEF DescriptorsAccounted
  <2>16. BegunInv'
    <3>1. \A f \in made.begun : f # file /\ host'[f] = host[f]
      BY <2>9, <2>10, <2>11
    <3>2. made.done \subseteq made.begun /\ file \notin made.done
      BY <2>4, <2>11 DEF BegunInv
    <3>3. host'[file] # Null
      BY <2>6, <2>9, ForeignAssumption
    <3>4. QED
      BY <2>4, <2>9, <2>10, <3>1, <3>2, <3>3 DEF BegunInv
  <2>17. JobInv'
    <3>1. file \in made'.begun \ made'.done
      BY <2>4, <2>10, <2>11 DEF BegunInv
    <3>2. disk_blocks(n) > 0
      BY <2>7, CreatedValid, CreatedFields, FatBlocksType, Limits, VolumeAssumption
    <3>3. disk' = disk /\ disk_mounted' = disk_mounted
      BY <2>1 DEF lib
    <3>4. job'.pc = "zero" /\ job'.file = file /\ job'.fd = fd /\ job'.n = n
      BY <2>1, <2>2
    <3>5. host'[file].bcount = 0 /\ host'[file].super = ZeroBlock
      BY <2>9
    <3>6. QED
      BY <2>5, <2>9, <2>12, <3>1, <3>2, <3>3, <3>4, <3>5 DEF JobInv
  <2>18. QED
    BY <2>13, <2>14, <2>15, <2>16, <2>17 DEF IInv
<1>3. QED
  BY <1>1, <1>2

\* The steps of a call that is under way.
WriteSteps == CreateZero \/ CreateSuper \/ CreateReserve

LEMMA WriteStepsInv ==
  ASSUME IInv, WriteSteps
  PROVE  IInv'
<1>1. /\ job \in [pc : {"zero", "super", "fat"}, file : Files, fd : HostFds, n : 1 .. MaxDataBlocks]
      /\ job # Idle
  BY DEF IInv, TypeOK, WriteSteps, CreateZero, CreateSuper, CreateReserve, Idle
<1>2. PICK f, fd, n : f = job.file /\ fd = job.fd /\ n = job.n
  OBVIOUS
<1>3. f \in Files /\ fd \in HostFds /\ n \in 1 .. MaxDataBlocks
  BY <1>1, <1>2
<1>4. /\ TypeOK /\ MountIsAllOrNothing /\ BegunInv /\ JobInv /\ DescriptorsAccounted
      /\ UNCHANGED <<lib, forgotten>>
  BY DEF IInv, WriteSteps, CreateZero, CreateSuper, CreateReserve
<1>5. UNCHANGED <<disk, disk_mounted, diskMetadata, root_directory_index, data_blocks, fd_table>>
  BY <1>4 DEF lib
<1>6. /\ held[fd] = f /\ fd # disk.fd
      /\ disk_mounted => held[disk.fd] # f /\ disk.fd \in HostFds
      /\ f \in made.begun /\ f \notin made.done
      /\ job.pc = "zero" => host[f].super = ZeroBlock /\ host[f].bcount < disk_blocks(n)
      /\ job.pc = "super" => host[f].super = ZeroBlock /\ host[f].bcount = disk_blocks(n)
      /\ job.pc = "fat" => host[f].super = created_metadata(n) /\ host[f].bcount = disk_blocks(n)
  BY <1>1, <1>2, <1>4 DEF JobInv, MountIsAllOrNothing, TypeOK
<1>7. /\ host[f] \in Image /\ host[f].aligned /\ ~host[f].reserved
      /\ host[f].bcount \in Nat
  BY <1>3, <1>4, <1>6 DEF BegunInv, TypeOK, Image
<1>8. PICK image : image = host'[f]
  OBVIOUS
<1>9. /\ image \in Image /\ image.aligned /\ image # Null
      /\ host' = [host EXCEPT ![f] = image]
      /\ image.reserved <=> job.pc = "fat"
      /\ job.pc = "zero" => /\ image.super = ZeroBlock /\ image.bcount = host[f].bcount + 1
      /\ job.pc \in {"super", "fat"} => image.super = created_metadata(n)
                                      /\ image.bcount = disk_blocks(n)
  <2>1. created_metadata(n) \in DiskMetadata
    BY <1>3, CreatedFields
  <2>2. CASE CreateZero
    <3>1. host' = [host EXCEPT ![f].bcount = @ + 1] /\ job.pc = "zero"
      BY <1>2, <2>2 DEF CreateZero
    <3>2. [host[f] EXCEPT !.bcount = @ + 1] \in Image
      BY <1>7 DEF Image
    <3>3. host' = [host EXCEPT ![f] = [host[f] EXCEPT !.bcount = @ + 1]]
      BY <1>3, <1>4, <3>1 DEF TypeOK
    <3>4. image = [host[f] EXCEPT !.bcount = @ + 1]
      BY <1>3, <1>4, <1>8, <3>3 DEF TypeOK
    <3>5. QED
      BY <1>6, <1>7, <3>1, <3>2, <3>3, <3>4, ForeignAssumption DEF Image
  <2>3. CASE CreateSuper
    <3>1. host' = [host EXCEPT ![f].super = created_metadata(n)] /\ job.pc = "super"
      BY <1>2, <2>3 DEF CreateSuper
    <3>2. [host[f] EXCEPT !.super = created_metadata(n)] \in Image
      BY <1>7, <2>1 DEF Image
    <3>3. host' = [host EXCEPT ![f] = [host[f] EXCEPT !.super = created_metadata(n)]]
      BY <1>3, <1>4, <3>1 DEF TypeOK
    <3>4. image = [host[f] EXCEPT !.super = created_metadata(n)]
      BY <1>3, <1>4, <1>8, <3>3 DEF TypeOK
    <3> HIDE DEF created_metadata
    <3>5. QED
      BY <1>6, <1>7, <3>1, <3>2, <3>3, <3>4, ForeignAssumption DEF Image
  <2>4. CASE CreateReserve
    <3>1. host' = [host EXCEPT ![f].reserved = TRUE] /\ job.pc = "fat"
      BY <1>2, <2>4 DEF CreateReserve
    <3>2. [host[f] EXCEPT !.reserved = TRUE] \in Image
      BY <1>7 DEF Image
    <3>3. host' = [host EXCEPT ![f] = [host[f] EXCEPT !.reserved = TRUE]]
      BY <1>3, <1>4, <3>1 DEF TypeOK
    <3>4. image = [host[f] EXCEPT !.reserved = TRUE]
      BY <1>3, <1>4, <1>8, <3>3 DEF TypeOK
    <3>5. QED
      BY <1>6, <1>7, <3>1, <3>2, <3>3, <3>4, ForeignAssumption DEF Image
  <2>5. QED
    BY <2>2, <2>3, <2>4 DEF WriteSteps
<1>10. /\ host' \in [Files -> Image \cup {Null}]
       /\ \A x \in Files : host'[x] = IF x = f THEN image ELSE host[x]
  BY <1>3, <1>4, <1>9 DEF TypeOK
<1>11. /\ held' = IF job.pc = "fat" THEN [held EXCEPT ![fd] = Null] ELSE held
       /\ made' = IF job.pc = "fat" THEN [made EXCEPT !.done = @ \cup {f}] ELSE made
       /\ result' \in {-1, 0}
  BY <1>2, <1>4 DEF WriteSteps, CreateZero, CreateSuper, CreateReserve, TypeOK, Return
<1>12. /\ held' \in [HostFds -> Files \cup {Null}]
       /\ \A x \in HostFds : x # fd => held'[x] = held[x]
       /\ job.pc # "fat" => held'[fd] = held[fd]
       /\ job.pc = "fat" => held'[fd] = Null
  BY <1>3, <1>4, <1>11 DEF TypeOK
<1>13. /\ made'.begun = made.begun
       /\ made'.done = IF job.pc = "fat" THEN made.done \cup {f} ELSE made.done
       /\ made' \in [begun : SUBSET Files, done : SUBSET Files]
       /\ made.begun \subseteq Files
  BY <1>3, <1>4, <1>11 DEF TypeOK
<1>14. MountIsAllOrNothing' /\ MountedValid'
  BY <1>4, <1>6, <1>9, <1>12, MountedElsewhere
<1>15. BegunInv'
  <2>1. \A x \in made.begun : x # f => host'[x] = host[x] /\ (x \in made'.done <=> x \in made.done)
    BY <1>10, <1>13
  <2>2. /\ host'[f] # Null /\ host'[f].aligned
        /\ f \in made'.done <=> host'[f].reserved
        /\ \/ host'[f].super = ZeroBlock /\ f \notin made'.done
           \/ \E m \in 1 .. MaxDataBlocks :
                host'[f].super = created_metadata(m) /\ host'[f].bcount = disk_blocks(m)
    BY <1>1, <1>3, <1>6, <1>8, <1>9, <1>13
  <2>3. QED
    BY <1>4, <1>6, <1>13, <2>1, <2>2 DEF BegunInv
<1>16. job' = Idle \/ (job' \in [pc : {"zero", "super", "fat"}, file : Files, fd : HostFds,
                                  n : 1 .. MaxDataBlocks]
                       /\ job'.file = f /\ job'.fd = fd /\ job'.n = n)
  BY <1>1, <1>2 DEF WriteSteps, CreateZero, CreateSuper, CreateReserve
<1>17. /\ job.pc = "fat" <=> job' = Idle
       /\ job.pc = "zero" => job'.pc = IF image.bcount = disk_blocks(n) THEN "super" ELSE "zero"
       /\ job.pc = "super" => job'.pc = "fat"
  BY <1>1, <1>2, <1>9, Descriptors DEF WriteSteps, CreateZero, CreateSuper, CreateReserve, Idle
<1>18. JobInv'
  <2>1. CASE job' = Idle
    BY <2>1 DEF JobInv
  <2>2. CASE job' # Idle
    <3>1. job.pc \in {"zero", "super"} /\ job'.file = f /\ job'.fd = fd /\ job'.n = n
      BY <1>1, <1>16, <1>17, <2>2
    <3>2. disk_blocks(n) \in Nat
      BY <1>3, CreatedFields, FatBlocksType, VolumeAssumption
    <3>3. /\ job'.pc = "zero" => image.super = ZeroBlock /\ image.bcount < disk_blocks(n)
          /\ job'.pc = "super" => image.super = ZeroBlock /\ image.bcount = disk_blocks(n)
          /\ job'.pc = "fat" => image.super = created_metadata(n) /\ image.bcount = disk_blocks(n)
      BY <1>6, <1>7, <1>9, <1>17, <3>1, <3>2
    <3>4. held'[fd] = f /\ (disk_mounted => held'[disk.fd] = held[disk.fd])
      BY <1>6, <1>12, <3>1
    <3>5. QED
      BY <1>5, <1>6, <1>8, <1>13, <3>1, <3>3, <3>4 DEF JobInv
  <2>3. QED
    BY <2>1, <2>2
<1>19. DescriptorsAccounted'
  <2>1. \/ job.pc = "fat" /\ job' = Idle /\ job'.fd = INVALID_FD
        \/ job.pc # "fat" /\ job'.fd = fd
    BY <1>16, <1>17 DEF Idle
  <2>2. INVALID_FD \notin HostFds
    BY Descriptors
  <2>3. QED
    BY <1>2, <1>3, <1>4, <1>5, <1>6, <1>12, <2>1, <2>2 DEF DescriptorsAccounted, TypeOK
<1>20. TypeOK'
  BY <1>4, <1>5, <1>10, <1>11, <1>12, <1>13, <1>16 DEF TypeOK
<1>21. QED
  BY <1>14, <1>15, <1>18, <1>19, <1>20 DEF IInv

-----------------------------------------------------------------------------
(* Mounting.                                                               *)

\* What is left when no disk is open, whatever block count the last one had.
LEMMA NothingOpen ==
  ASSUME IInv, job = Idle, UNCHANGED <<host, job, made>>,
         held' \in [HostFds -> Files \cup {Null}],
         disk' \in [fd : {INVALID_FD}, bcount : Nat],
         forgotten' \subseteq HostFds,
         \A fd \in HostFds : held'[fd] # Null <=> fd \in forgotten',
         disk_mounted' = FALSE, diskMetadata' = Null, fd_table' = FALSE,
         root_directory_index' = 0, data_blocks' = 0, result' \in {-1, 0}
  PROVE  IInv'
<1>1. disk'.fd = INVALID_FD
  OBVIOUS
<1>2. TypeOK'
  <2>1. disk' \in [fd : HostFds \cup {INVALID_FD}, bcount : Nat]
    OBVIOUS
  <2>2. 0 \in 0 .. U16_LIMIT - 1
    BY Limits
  <2>3. QED
    BY <2>1, <2>2 DEF IInv, TypeOK
<1>3. MountIsAllOrNothing' /\ MountedValid'
  BY <1>1 DEF MountIsAllOrNothing, MountedValid
<1>4. BegunInv' /\ JobInv'
  BY DEF IInv, BegunInv, JobInv
<1>5. DescriptorsAccounted'
  <2>1. job'.fd = INVALID_FD /\ INVALID_FD \notin HostFds
    BY Descriptors DEF Idle
  <2>2. QED
    BY <1>1, <2>1 DEF DescriptorsAccounted
<1>6. QED
  BY <1>2, <1>3, <1>4, <1>5 DEF IInv

\* While no disk is being made, the descriptors held are the disk's and the forgotten.
LEMMA HeldWhenIdle ==
  ASSUME IInv, job = Idle
  PROVE  /\ forgotten \subseteq HostFds /\ disk.fd \notin forgotten
         /\ \A fd \in HostFds : held[fd] # Null /\ fd # disk.fd <=> fd \in forgotten
<1>1. job.fd \notin HostFds
  BY Descriptors DEF Idle
<1>2. QED
  BY <1>1 DEF IInv, DescriptorsAccounted, TypeOK

LEMMA MountStep ==
  ASSUME IInv, NEW file \in Files, fs_mount(file)
  PROVE  IInv'
<1>1. job = Idle /\ UNCHANGED <<host, job, made>> /\ TypeOK /\ MountIsAllOrNothing
  BY DEF fs_mount, IInv
<1>2. CASE MountRefused(file)
  BY <1>1, <1>2, OnlyResult DEF MountRefused, Return
<1>3. ASSUME Openable(file)
      PROVE  /\ disk.fd = INVALID_FD /\ host[file] # Null /\ host[file] \in Image
             /\ LowestFree \in HostFds /\ held[LowestFree] = Null
             /\ ~disk_mounted /\ diskMetadata = Null /\ ~fd_table
             /\ root_directory_index = 0 /\ data_blocks = 0
             /\ disk \in [fd : {INVALID_FD}, bcount : Nat]
             /\ forgotten \subseteq HostFds
             /\ \A fd \in HostFds : held[fd] # Null <=> fd \in forgotten
  <2>1. disk.fd = INVALID_FD /\ host[file] # Null /\ FreeFds # {}
    BY <1>3 DEF Openable
  <2>2. LowestFree \in HostFds /\ held[LowestFree] = Null
    BY <2>1, LowestFreeFound
  <2>3. \A fd \in HostFds : fd # disk.fd
    BY <2>1, Descriptors
  <2>4. disk \in [fd : {INVALID_FD}, bcount : Nat]
    BY <1>1, <2>1 DEF TypeOK
  <2>5. host[file] \in Image
    BY <1>1, <2>1 DEF TypeOK
  <2>6. ~disk_mounted /\ diskMetadata = Null /\ ~fd_table
        /\ root_directory_index = 0 /\ data_blocks = 0
    BY <1>1, <2>1 DEF MountIsAllOrNothing
  <2>7. QED
    BY <1>1, <2>1, <2>2, <2>3, <2>4, <2>5, <2>6, HeldWhenIdle
<1>4. CASE MountUnstatable(file) \/ MountMisaligned(file)
  <2>1. /\ Openable(file)
        /\ held' = [held EXCEPT ![LowestFree] = file]
        /\ forgotten' = forgotten \cup {LowestFree}
        /\ UNCHANGED <<disk, disk_mounted, diskMetadata, root_directory_index, data_blocks, fd_table>>
        /\ result' = -1
    BY <1>4 DEF MountUnstatable, MountMisaligned, OpenForgotten, lib, Return
  <2>2. PICK fd : fd = LowestFree
    OBVIOUS
  <2>3. /\ held' \in [HostFds -> Files \cup {Null}]
        /\ held'[fd] = file /\ file # Null
        /\ \A x \in HostFds : x # fd => held'[x] = held[x]
    BY <1>1, <1>3, <2>1, <2>2, VolumeAssumption DEF TypeOK
  <2>4. /\ forgotten' \subseteq HostFds
        /\ \A x \in HostFds : held'[x] # Null <=> x \in forgotten'
    BY <1>3, <2>1, <2>2, <2>3
  <2>5. disk_mounted = FALSE /\ fd_table = FALSE
    BY <1>1, <1>3, <2>1 DEF TypeOK
  <2>6. QED
    BY <1>1, <1>3, <2>1, <2>3, <2>4, <2>5, NothingOpen
<1>5. CASE MountUnreadable(file) \/ MountInvalid(file)
  <2>1. /\ Openable(file)
        /\ disk' = [fd |-> INVALID_FD, bcount |-> host[file].bcount]
        /\ UNCHANGED <<held, forgotten, disk_mounted, root_directory_index, data_blocks, fd_table>>
        /\ result' = -1
    BY <1>5 DEF MountUnreadable, MountInvalid, Return
  <2>2. diskMetadata' = Null
    BY <1>3, <1>5, <2>1 DEF MountUnreadable, MountInvalid
  <2>3. disk' \in [fd : {INVALID_FD}, bcount : Nat]
    BY <1>3, <2>1 DEF Image
  <2>4. held' \in [HostFds -> Files \cup {Null}]
    BY <1>1, <2>1 DEF TypeOK
  <2>5. disk_mounted = FALSE /\ fd_table = FALSE
    BY <1>1, <1>3, <2>1 DEF TypeOK
  <2>6. QED
    BY <1>1, <1>3, <2>1, <2>2, <2>3, <2>4, <2>5, NothingOpen
<1>6. CASE MountAccepted(file)
  <2>1. PICK fd, image : fd = LowestFree /\ image = host[file]
    OBVIOUS
  <2>2. /\ Openable(file) /\ image.aligned /\ isValidMetadata(image.super, image.bcount)
        /\ held' = [held EXCEPT ![fd] = file]
        /\ disk' = [fd |-> fd, bcount |-> image.bcount]
        /\ diskMetadata' = image.super
        /\ disk_mounted' = TRUE
        /\ root_directory_index' = image.super.rootDirectoryIndex
        /\ data_blocks' = image.super.totalDataBlocks
        /\ fd_table' = TRUE
        /\ result' = 0
        /\ forgotten' = forgotten
    BY <1>6, <2>1 DEF MountAccepted, Return
  <2>3. /\ fd \in HostFds /\ image \in Image /\ image # Null /\ host[file] = image
        /\ held[fd] = Null
        /\ forgotten \subseteq HostFds
        /\ \A x \in HostFds : held[x] # Null <=> x \in forgotten
    BY <1>3, <2>1, <2>2
  <2>4. /\ held' \in [HostFds -> Files \cup {Null}]
        /\ held'[fd] = file
        /\ \A x \in HostFds : x # fd => held'[x] = held[x]
    BY <1>1, <2>2, <2>3 DEF TypeOK
  <2>5. image.super \in DiskMetadata /\ image.bcount \in Nat /\ image.super # Null
    <3>1. image.super \in DiskMetadata /\ image.bcount \in Nat
      BY <2>3 DEF Image
    <3>2. image.super.signature
      BY <2>2 DEF isValidMetadata
    <3>3. image.super # Null
      BY <3>1, ForeignAssumption
    <3>4. QED
      BY <3>1, <3>3
  <2>6. /\ image.super.rootDirectoryIndex \in 0 .. U16_LIMIT - 1
        /\ image.super.totalDataBlocks \in 0 .. U16_LIMIT - 1
    BY <2>5 DEF DiskMetadata
  <2>7. TypeOK'
    <3>1. disk' \in [fd : HostFds \cup {INVALID_FD}, bcount : Nat]
      BY <2>2, <2>3, <2>5
    <3>2. QED
      BY <1>1, <2>2, <2>4, <2>5, <2>6, <3>1 DEF TypeOK
  <2>8. fd # INVALID_FD
    BY <2>3, Descriptors
  <2>9. disk'.fd = fd /\ disk'.bcount = image.bcount
    BY <2>2
  <2>10. MountIsAllOrNothing' /\ MountedValid'
    <3>1. file # Null /\ host'[held'[disk'.fd]] = image
      BY <1>1, <2>3, <2>4, <2>9, VolumeAssumption
    <3>2. QED
      BY <2>2, <2>3, <2>4, <2>5, <2>8, <2>9, <3>1 DEF MountIsAllOrNothing, MountedValid
  <2>11. DescriptorsAccounted'
    <3>1. job'.fd = INVALID_FD /\ INVALID_FD \notin HostFds /\ file # Null
      BY <1>1, Descriptors, VolumeAssumption DEF Idle
    <3>2. QED
      BY <2>2, <2>3, <2>4, <2>8, <2>9, <3>1 DEF DescriptorsAccounted
  <2>12. BegunInv' /\ JobInv'
    BY <1>1 DEF IInv, BegunInv, JobInv
  <2>13. QED
    BY <2>7, <2>10, <2>11, <2>12 DEF IInv
<1>7. QED
  BY <1>2, <1>4, <1>5, <1>6 DEF fs_mount

LEMMA UmountStep ==
  ASSUME IInv, fs_umount
  PROVE  IInv'
<1>1. job = Idle /\ UNCHANGED <<host, forgotten, job, made>> /\ TypeOK
  BY DEF fs_umount, IInv
<1>2. CASE disk.fd = INVALID_FD
  BY <1>1, <1>2, OnlyResult DEF fs_umount, Return
<1>3. CASE disk.fd # INVALID_FD
  <2>1. /\ held' = [held EXCEPT ![disk.fd] = Null]
        /\ disk' = [disk EXCEPT !.fd = INVALID_FD]
        /\ diskMetadata' = Null /\ fd_table' = FALSE /\ disk_mounted' = FALSE
        /\ root_directory_index' = 0 /\ data_blocks' = 0 /\ result' = 0
    BY <1>3 DEF fs_umount, Return
  <2>2. disk.fd \in HostFds /\ disk' \in [fd : {INVALID_FD}, bcount : Nat]
    BY <1>1, <1>3, <2>1 DEF TypeOK
  <2>3. /\ held' \in [HostFds -> Files \cup {Null}] /\ held'[disk.fd] = Null
        /\ \A x \in HostFds : x # disk.fd => held'[x] = held[x]
    BY <1>1, <2>1, <2>2 DEF TypeOK
  <2>4. /\ forgotten' \subseteq HostFds
        /\ \A x \in HostFds : held'[x] # Null <=> x \in forgotten'
    BY <1>1, <2>3, HeldWhenIdle
  <2>5. QED
    BY <1>1, <2>1, <2>2, <2>3, <2>4, NothingOpen
<1>4. QED
  BY <1>2, <1>3

LEMMA RestartStep ==
  ASSUME IInv, Restart
  PROVE  IInv'
<1>1. /\ held' = [fd \in HostFds |-> Null] /\ forgotten' = {}
      /\ disk' = [fd |-> INVALID_FD, bcount |-> 0]
      /\ disk_mounted' = FALSE /\ diskMetadata' = Null /\ fd_table' = FALSE
      /\ root_directory_index' = 0 /\ data_blocks' = 0 /\ job' = Idle /\ result' = 0
      /\ UNCHANGED <<host, made>>
  BY DEF Restart
<1>2. /\ disk'.fd = INVALID_FD /\ job'.fd = INVALID_FD
      /\ \A fd \in HostFds : held'[fd] = Null /\ fd # INVALID_FD
  BY <1>1, Descriptors DEF Idle
<1>3. TypeOK'
  <2>1. disk' \in [fd : HostFds \cup {INVALID_FD}, bcount : Nat]
        /\ held' \in [HostFds -> Files \cup {Null}]
    BY <1>1
  <2>2. 0 \in 0 .. U16_LIMIT - 1
    BY Limits
  <2>3. QED
    BY <1>1, <2>1, <2>2 DEF IInv, TypeOK
<1>4. MountIsAllOrNothing' /\ MountedValid' /\ DescriptorsAccounted' /\ JobInv'
  BY <1>1, <1>2 DEF MountIsAllOrNothing, MountedValid, DescriptorsAccounted, JobInv
<1>5. BegunInv'
  BY <1>1 DEF IInv, BegunInv
<1>6. QED
  BY <1>3, <1>4, <1>5 DEF IInv

-----------------------------------------------------------------------------
(* The theorems.                                                           *)

LEMMA NextInv == IInv /\ [Next]_vars => IInv'
<1> SUFFICES ASSUME IInv, [Next]_vars PROVE IInv'
  OBVIOUS
<1>1. CASE UNCHANGED vars
  <2>1. result' \in {-1, 0} /\ UNCHANGED <<host, held, forgotten, lib, job, made>>
    BY <1>1 DEF vars, IInv, TypeOK
  <2>2. QED
    BY <2>1, OnlyResult
<1>2. ASSUME NEW n \in SizeArgs, NEW file \in Files, create_disk(n, file)
      PROVE  IInv'
  BY <1>2, CreateStep
<1>3. CASE CreateZero \/ CreateSuper \/ CreateReserve
  BY <1>3, WriteStepsInv DEF WriteSteps
<1>4. ASSUME NEW file \in Files, fs_mount(file)
      PROVE  IInv'
  BY <1>4, MountStep
<1>5. CASE fs_umount
  BY <1>5, UmountStep
<1>6. CASE Restart
  BY <1>6, RestartStep
<1>7. QED
  BY <1>1, <1>2, <1>3, <1>4, <1>5, <1>6 DEF Next

\* The invariant holds from the first process on, whatever is killed when.
THEOREM VolumeInvariance == Spec => []IInv
<1>1. Init => IInv
  BY InitInv
<1>2. IInv /\ [Next]_vars => IInv'
  BY NextInv
<1>3. QED
  BY <1>1, <1>2, PTL DEF Spec

\* The fields of a superblock keep their widths, the counts of blocks stay counts and
\* the process its descriptors, whatever image is mounted (disk.c, struct DiskMetadata).
THEOREM VolumeTypeCorrect == Spec => []TypeOK
<1>1. IInv => TypeOK
  BY DEF IInv
<1>2. QED
  BY <1>1, VolumeInvariance, PTL

\* fs_mount and fs_umount (fs.c:30-91) take and give back everything together.
THEOREM MountAllOrNothing == Spec => []MountIsAllOrNothing
<1>1. IInv => MountIsAllOrNothing
  BY DEF IInv
<1>2. QED
  BY <1>1, VolumeInvariance, PTL

\* No host descriptor is lost but those that block_disk_open takes and gives up on:
\* fstat failed, or the image is misaligned (disk.c:56-66).
THEOREM NoOtherLeak == Spec => []DescriptorsAccounted
<1>1. IInv => DescriptorsAccounted
  BY DEF IInv
<1>2. QED
  BY <1>1, VolumeInvariance, PTL

\* Whatever image isValidMetadata (fs.c:650-701) lets through, every data block has a
\* FAT entry of its own in the FAT region: FileSystem may have the FAT as a function,
\* and FatAssumption of a mounted volume.
THEOREM MountedRegions == Spec => []RegionsApart
<1>1. IInv => RegionsApart
  <2> SUFFICES ASSUME IInv, disk_mounted
               PROVE  RegionsApart
    BY DEF RegionsApart
  <2> DEFINE m == diskMetadata
             k == fat_blocks_required(data_blocks)
  <2>1. /\ m \in DiskMetadata /\ disk.bcount \in Nat /\ isValidMetadata(m, disk.bcount)
        /\ disk.fd # INVALID_FD
        /\ root_directory_index = m.rootDirectoryIndex /\ data_blocks = m.totalDataBlocks
    BY DEF IInv, TypeOK, MountIsAllOrNothing, MountedValid
  <2> HIDE DEF m
  <2>2. /\ data_blocks \in 1 .. U16_LIMIT - 4
        /\ root_directory_index < disk.bcount
        /\ m.dataStartIndex = root_directory_index + 1
        /\ root_directory_index = 1 + k
    BY <2>1, ValidRegions
  <2>3. data_blocks \in Nat /\ k \in Nat
    BY <2>2, Limits, FatBlocksType
  <2>4. in_bounds(root_directory_index) /\ get_actual_block_index(0) = diskMetadata.dataStartIndex
    BY <2>1, <2>2, <2>3 DEF in_bounds, get_actual_block_index, m
  <2>5. ASSUME NEW b \in 0 .. data_blocks - 1
        PROVE  /\ get_fat_block_index(b) \in 1 .. root_directory_index - 1
               /\ get_fat_block_entry(b) \in 0 .. FatEntries - 1
    <3>1. b \in Nat /\ b < data_blocks
      BY <2>3
    <3>2. b \div FatEntries \in Nat /\ b \div FatEntries < k
      BY <2>3, <3>1, FatBlocksEnough
    <3>3. b % FatEntries \in 0 .. FatEntries - 1
      BY <3>1, VolumeAssumption
    <3> HIDE DEF k
    <3>4. 1 + b \div FatEntries \in 1 .. root_directory_index - 1
      BY <2>2, <2>3, <3>2
    <3>5. QED
      BY <3>3, <3>4 DEF get_fat_block_index, get_fat_block_entry
  <2>6. ASSUME NEW b \in 0 .. data_blocks - 1, NEW c \in 0 .. data_blocks - 1,
               get_fat_block_index(b) = get_fat_block_index(c),
               get_fat_block_entry(b) = get_fat_block_entry(c)
        PROVE  b = c
    <3>1. b \in Nat /\ c \in Nat
      BY <2>3
    <3>2. QED
      BY <2>6, <3>1, EntriesApart
  <2>7. QED
    BY <2>2, <2>4, <2>5, <2>6 DEF RegionsApart
<1>2. QED
  BY <1>1, VolumeInvariance, PTL

\* What create_disk leaves (utilities.c:26-89), whole or cut short by a kill.
THEOREM CreatedDisksSound == Spec => []CreatedDisks
<1>1. IInv => CreatedDisks
  <2> SUFFICES ASSUME IInv, NEW file \in made.begun
               PROVE  LET image == host[file]
                          accepted == image.bcount # 0 /\ isValidMetadata(image.super, image.bcount)
                      IN  /\ accepted => DataFits(image.super, image.bcount)
                          /\ file \in made.done => accepted /\ image.reserved
                          /\ file \notin made.done => ~image.reserved
                          /\ accepted /\ file \notin made.done /\ job.file = file => job.pc = "fat"
    BY DEF CreatedDisks
  <2> DEFINE image == host[file]
             accepted == image.bcount # 0 /\ isValidMetadata(image.super, image.bcount)
  <2>1. /\ file \in made.done <=> image.reserved
        /\ \/ image.super = ZeroBlock /\ file \notin made.done
           \/ \E n \in 1 .. MaxDataBlocks :
                image.super = created_metadata(n) /\ image.bcount = disk_blocks(n)
    BY DEF IInv, BegunInv
  <2>2. CASE image.super = ZeroBlock /\ file \notin made.done
    BY <2>1, <2>2, ZeroBlockRefused
  <2>3. CASE \E n \in 1 .. MaxDataBlocks :
               image.super = created_metadata(n) /\ image.bcount = disk_blocks(n)
    <3>1. accepted /\ DataFits(image.super, image.bcount)
      BY <2>3, CreatedValid
    <3>2. job.file = file => job.pc = "fat"
      <4>1. ASSUME job.file = file, job.pc # "fat"
            PROVE  FALSE
        <5>1. job # Idle
          BY <4>1, VolumeAssumption DEF IInv, TypeOK, Idle
        <5>2. job.pc \in {"zero", "super", "fat"}
          BY <5>1 DEF IInv, TypeOK
        <5>3. image.super = ZeroBlock
          BY <4>1, <5>1, <5>2 DEF IInv, JobInv
        <5>4. QED
          BY <3>1, <5>3, ZeroBlockRefused
      <4>2. QED
        BY <4>1
    <3>3. QED
      BY <2>1, <3>1, <3>2
  <2>4. QED
    BY <2>1, <2>2, <2>3
<1>2. QED
  BY <1>1, VolumeInvariance, PTL

==============================================================================
