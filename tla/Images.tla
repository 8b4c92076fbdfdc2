------------------------------- MODULE Images -------------------------------
(***************************************************************************)
(* The image of a disk, made as the Makefile does: maketoysfs, makebootefi *)
(* makefatfs and maketoysimg, then the machine is switched on.  A file of  *)
(* the host is a sequence of sectors, with its size: the structures of     *)
(* executables, of the FAT12 file system and of the partition table are    *)
(* the contents of sectors.  The firmware that reads these is not part of  *)
(* the sources; what it does is at the end.                                *)
(*                                                                         *)
(* The model ends when a program fails.  (make leaves the file that it was *)
(* writing, which another make would take for a complete one.)             *)
(***************************************************************************)
EXTENDS ToysImage

CONSTANTS
  CodeSizes,   \* input: the sizes of the code of the boot loader
  OtherFiles,  \* input: the sizes of other files given to makefatfs
  NIBBLES,     \* the 4 bit words of the file allocation table (2048)
  NUM_TABLE_ENTRY_SECTORS,  \* 32
  MIN_IMAGE_SECTORS,        \* 2048
  MachineOps,  \* bound: what the clients of the file system ask
  MachineNames \* bound: of which files

ImagesAssumption ==
  /\ CodeSizes \subseteq Nat /\ OtherFiles \subseteq Nat \X Nat
  /\ NIBBLES \in 12 .. 3 * 4096 /\ NIBBLES % 4 = 0  \* entries have 12 bits
  /\ NUM_TABLE_ENTRY_SECTORS \in Nat \ {0} /\ MIN_IMAGE_SECTORS \in Nat

ASSUME ImagesAssumption

VARIABLE host  \* the files that the host has: toysfs, efi and fatfs

all == <<bootVars, tools, host>>

SECTOR_SIZE == BlockSize
SECTORS_PER_CLUSTER == 4
CLUSTER_SIZE == SECTORS_PER_CLUSTER * SECTOR_SIZE
NUM_BOOT_LOADER_CLUSTERS == 1
Sectors(size) == (size + SECTOR_SIZE - 1) \div SECTOR_SIZE
Clusters(size) == (size + CLUSTER_SIZE - 1) \div CLUSTER_SIZE

File(sectors) == [size |-> Len(sectors) * SECTOR_SIZE, sectors |-> sectors]
NoFile == File(<<>>)
Zeros(n) == [i \in 1 .. n |-> <<"zeros">>]
Other(kind, size) == [size |-> size, sectors |-> [i \in 1 .. Sectors(size) |-> <<kind, i>>]]

\* The programs that follow maketoysfs start, and leave the disk alone.
Starts(name) == tool' = [NoTool EXCEPT !.name = name, !.step = "read"] /\ output' = <<>>
Keep == UNCHANGED <<arguments, system, loader>>

-----------------------------------------------------------------------------
(***************************************************************************)
(* makebootefi: headers, and the code, at most three sectors of it.        *)
(***************************************************************************)
CODE_SECTORS == 3
Code(size) == [i \in 1 .. CODE_SECTORS * SECTOR_SIZE |-> IF i <= size THEN i ELSE 0]
EFI_HEADER ==
  [address_of_entry_point |-> 4096, virtual_address |-> 4096,
   pointer_to_raw_data |-> SECTOR_SIZE, size_of_raw_data |-> CODE_SECTORS * SECTOR_SIZE]

BootEfiStart ==
  /\ Succeeded("maketoysfs")
  /\ host' = [host EXCEPT !.toysfs = File(output)]
  /\ \E size \in CodeSizes :
       /\ tool' = [NoTool EXCEPT !.name = "makebootefi", !.step = "read", !.size = size]
       /\ output' = <<>>
  /\ Keep

\* One byte more than what is allowed is asked for, to see the end of the file.
BootEfiRead ==
  LET asked == CODE_SECTORS * SECTOR_SIZE + 1
      eof == tool.size < asked
  IN
  /\ At("makebootefi", "read")
  /\ IF eof THEN GotoStep("write", tool) ELSE Exit(1)
  /\ UNCHANGED <<output, host>> /\ Keep

BootEfiWrite ==
  /\ At("makebootefi", "write")
  /\ output' = <<(<<"efi", EFI_HEADER>>)>>
               \o [s \in 1 .. CODE_SECTORS |->
                     <<"code", SubSeq(Code(tool.size), (s - 1) * SECTOR_SIZE + 1, s * SECTOR_SIZE)>>]
  /\ GotoStep("close", tool)
  /\ UNCHANGED host /\ Keep

-----------------------------------------------------------------------------
(***************************************************************************)
(* makefatfs.                                                              *)
(***************************************************************************)
END == 4095  \* -1, in 12 bits

\* The words that set_fat_entry adds to, for the clusters of a file.
FatWords(first, size) ==
  LET last == first + Clusters(size) - 1
      value(entry) == IF entry = last THEN END ELSE entry + 1
  IN {<<3 * entry + k, (value(entry) \div 16 ^ k) % 16>> : entry \in first .. last, k \in 0 .. 2}

\* The clusters of the boot loader and those of the Toys file system overlap.
WrongPartitionWords(efi, volume) == FatWords(4, efi.size) \cup FatWords(4, volume.size)

PartitionWords(efi, volume) ==
  FatWords(4, efi.size) \cup FatWords(4 + NUM_BOOT_LOADER_CLUSTERS, volume.size)

\* The entries of the first four clusters are given; bits are added to a word.
FatWord(words, i) ==
  LET set == {w[2] : w \in {v \in words : v[1] = i}} \cup {CASE i = 0 -> 8 [] i \in 1 .. 11 -> 15 [] OTHER -> 0}
      bit(k) == IF \E x \in set : (x \div 2 ^ k) % 2 = 1 THEN 2 ^ k ELSE 0
  IN bit(0) + bit(1) + bit(2) + bit(3)

Entry(name, cluster, size) == [name |-> name, first_cluster |-> cluster, file_size |-> size]

\* What follows the table is the root directory: too large a file damages it.
PartitionHeader(efi, volume) ==
  LET words == PartitionWords(efi, volume)
      half == NIBBLES \div 2
      root == <<Entry("EFI", 2, 0), Entry("TOYSFS", 4 + NUM_BOOT_LOADER_CLUSTERS, volume.size)>>
  IN << <<"boot", [reserved |-> 1, table |-> 2, root |-> 1, cluster |-> SECTORS_PER_CLUSTER,
                   total |-> 16 + Sectors(volume.size)]>>,
        <<"fat", [i \in 0 .. half - 1 |-> FatWord(words, i)]>>,
        <<"fat", [i \in half .. NIBBLES - 1 |-> FatWord(words, i)]>>,
        IF \A w \in words : w[1] < NIBBLES THEN <<"directory", root>> ELSE <<"damaged">> >>
     \o << <<"directory", <<Entry(".", 2, 0), Entry("..", 0, 0), Entry("BOOT", 3, 0)>> >> >> \o Zeros(3)
     \o << <<"directory", <<Entry(".", 3, 0), Entry("..", 2, 0), Entry("BOOTX64 EFI", 4, efi.size)>> >> >>
     \o Zeros(3)

FatStart ==
  /\ Succeeded("makebootefi")
  /\ host' = [host EXCEPT !.efi = File(output)]
  /\ Starts("makefatfs")
  /\ Keep

\* The sizes are looked at first; an empty boot loader is one that can't be read.
FatRead ==
  LET clusters == 4 + NUM_BOOT_LOADER_CLUSTERS + Clusters(host.toysfs.size) IN
  /\ At("makefatfs", "read")
  /\ IF /\ host.efi.size <= NUM_BOOT_LOADER_CLUSTERS * CLUSTER_SIZE
        /\ host.toysfs.size % SECTOR_SIZE = 0
        /\ clusters <= ((NIBBLES \div 2) * 3) \div 2
        /\ host.efi.size # 0
     THEN GotoStep("write", tool) ELSE Exit(1)
  /\ UNCHANGED <<output, host>> /\ Keep

FatHeader ==
  /\ At("makefatfs", "write") /\ output = <<>>
  /\ output' = PartitionHeader(host.efi, host.toysfs) \o host.efi.sectors
               \o Zeros(SECTORS_PER_CLUSTER - Len(host.efi.sectors))
  /\ UNCHANGED <<tool, host>> /\ Keep

FatCopy ==
  /\ At("makefatfs", "write") /\ output # <<>>
  /\ IF tool.i < Len(host.toysfs.sectors)
     THEN /\ output' = Append(output, host.toysfs.sectors[tool.i + 1])
          /\ tool' = [tool EXCEPT !.i = @ + 1]
     ELSE GotoStep("close", tool) /\ UNCHANGED output
  /\ UNCHANGED host /\ Keep

-----------------------------------------------------------------------------
(***************************************************************************)
(* maketoysimg.  A checksum is a value that tells contents apart; NoCrc is *)
(* 0, before it is computed.                                               *)
(***************************************************************************)
NoCrc == <<>>
Crc32(x) == <<"crc", x>>

FirstUsable == 2 + NUM_TABLE_ENTRY_SECTORS
LastUsable == FirstUsable + Len(host.fatfs.sectors) - 1
ImageSectors ==
  LET n == 3 + 2 * NUM_TABLE_ENTRY_SECTORS + Len(host.fatfs.sectors)
  IN IF n < MIN_IMAGE_SECTORS THEN MIN_IMAGE_SECTORS ELSE n

PartitionEntry == [starting_lba |-> FirstUsable, ending_lba |-> LastUsable]
PartitionEntries == <<(<<"entries", PartitionEntry>>)>> \o Zeros(NUM_TABLE_ENTRY_SECTORS - 1)

NewHeader ==
  [my_lba |-> 1, alternate_lba |-> ImageSectors - 1, first_usable_lba |-> FirstUsable,
   last_usable_lba |-> LastUsable, partition_entry_lba |-> 2,
   partition_entry_array_crc32 |-> NoCrc, header_crc32 |-> NoCrc]

\* The checksum of the entries, then that of the header with it.
Checked(header) ==
  LET h == [header EXCEPT !.partition_entry_array_crc32 = Crc32(PartitionEntry)]
  IN [h EXCEPT !.header_crc32 = Crc32(h)]

\* The other header is made from the one that has its checksums.
WrongAlternateHeader ==
  Checked([Checked(NewHeader) EXCEPT !.my_lba = NewHeader.alternate_lba, !.alternate_lba = NewHeader.my_lba,
                                     !.partition_entry_lba = LastUsable + 1])

AlternateHeader ==
  Checked([NewHeader EXCEPT !.my_lba = NewHeader.alternate_lba, !.alternate_lba = NewHeader.my_lba,
                            !.partition_entry_lba = LastUsable + 1])

ImageStart ==
  /\ Succeeded("makefatfs")
  /\ host' = [host EXCEPT !.fatfs = File(output)]
  /\ Starts("maketoysimg")
  /\ Keep

ImageRead ==
  /\ At("maketoysimg", "read")
  /\ IF host.fatfs.size % SECTOR_SIZE = 0 THEN GotoStep("write", tool) ELSE Exit(1)
  /\ UNCHANGED <<output, host>> /\ Keep

ImageHeader ==
  /\ At("maketoysimg", "write") /\ output = <<>>
  /\ output' = << <<"mbr", [starting_lba |-> 1, size_in_lba |-> ImageSectors - 1]>>,
                  <<"header", Checked(NewHeader)>> >> \o PartitionEntries
  /\ UNCHANGED <<tool, host>> /\ Keep

ImageCopy ==
  /\ At("maketoysimg", "write") /\ output # <<>>
  /\ IF tool.i < Len(host.fatfs.sectors)
     THEN /\ output' = Append(output, host.fatfs.sectors[tool.i + 1])
          /\ tool' = [tool EXCEPT !.i = @ + 1]
     ELSE /\ output' = output \o PartitionEntries \o <<(<<"header", AlternateHeader>>)>>
          /\ GotoStep("close", tool)
  /\ UNCHANGED host /\ Keep

-----------------------------------------------------------------------------
(***************************************************************************)
(* The machine is given the disk; later, when it stops between two calls,  *)
(* the files of its disk are saved.                                        *)
(***************************************************************************)
Off == [toysfs |-> NoFile, efi |-> NoFile, fatfs |-> NoFile]
Made == arguments # <<>>  \* the Toys file system is one that maketoysfs made

SwitchOn ==
  /\ Succeeded("maketoysimg") /\ Made
  /\ tool' = NoTool /\ output' = <<>> /\ host' = Off /\ arguments' = <<>>
  /\ UNCHANGED <<system, loader>>

Use ==
  /\ tool = NoTool
  /\ BootNext
  /\ call'.op \in MachineOps \cup {"none"} /\ call'.name \in MachineNames \cup {0}
  /\ UNCHANGED <<tools, host>>

SaveFiles ==
  /\ tool = NoTool /\ step = "off" /\ pc = "idle"
  /\ \E tar \in BOOLEAN : tool' = DumpToysFS(tar)
  /\ writer' = [f \in FileIds |-> 0] /\ reader' = NoReader
  /\ UNCHANGED <<arguments, output, host, disk, buffer, pc, call, loader>>

\* The programs run as in the Makefile, or makefatfs alone, on other files.
ImagesInit ==
  /\ BootInit
  /\ output = <<>>
  /\ \/ arguments \in Arguments /\ tool = MakeToysFS /\ host = Off
     \/ /\ arguments = <<>>
        /\ tool = [NoTool EXCEPT !.name = "makefatfs", !.step = "read"]
        /\ \E size \in OtherFiles :
             host = [Off EXCEPT !.efi = Other("code", size[1]), !.toysfs = Other("block", size[2])]

ToolStep ==
  \/ FileTools /\ UNCHANGED <<loader, host>>
  \/ BootEfiStart \/ BootEfiRead \/ BootEfiWrite
  \/ FatStart \/ FatRead \/ FatHeader \/ FatCopy
  \/ ImageStart \/ ImageRead \/ ImageHeader \/ ImageCopy

ImagesNext == ToolStep \/ SwitchOn \/ Use \/ SaveFiles

LoaderStep == tool = NoTool /\ Loader /\ UNCHANGED <<tools, host>>

\* The programs, and the loader, run until they end.
ImagesSpec == ImagesInit /\ [][ImagesNext]_all /\ WF_all(ToolStep) /\ WF_all(LoaderStep)

-----------------------------------------------------------------------------
(***************************************************************************)
(* The firmware: the partition from the header at a logical block address, *)
(* and the files in it, through their chain of clusters.                   *)
(***************************************************************************)
Lba(n) == IF n + 1 \in DOMAIN output THEN output[n + 1] ELSE <<"none">>

ValidHeader(lba) ==
  /\ Lba(lba)[1] = "header"
  /\ LET h == Lba(lba)[2]
         entries == Lba(h.partition_entry_lba)
     IN /\ h.my_lba = lba
        /\ h.header_crc32 = Crc32([h EXCEPT !.header_crc32 = NoCrc])
        /\ entries[1] = "entries" /\ h.partition_entry_array_crc32 = Crc32(entries[2])

Partition(lba) ==
  LET entry == Lba(Lba(lba)[2].partition_entry_lba)[2]
  IN SubSeq(output, entry.starting_lba + 1, entry.ending_lba + 1)

FirstData(p) == LET boot == p[1][2] IN boot.reserved + boot.table + boot.root
IsCluster(p, c) ==
  LET boot == p[1][2] IN c >= 2 /\ c - 2 < (boot.total - FirstData(p)) \div boot.cluster
NextCluster(p, c) ==
  LET word(i) == IF i < NIBBLES \div 2 THEN p[2][2][i] ELSE p[3][2][i]
  IN word(3 * c) + 16 * word(3 * c + 1) + 256 * word(3 * c + 2)

\* The place of sector j, from 0, of cluster c.
SectorOf(p, c, j) == FirstData(p) + (c - 2) * p[1][2].cluster + j + 1

Root(p) == p[FirstData(p)][2]
DirectoryAt(p, entry) == p[SectorOf(p, entry.first_cluster, 0)][2]
EntryNamed(directory, name) == CHOOSE e \in {directory[i] : i \in DOMAIN directory} : e.name = name
BootEntry(p) ==
  EntryNamed(DirectoryAt(p, EntryNamed(DirectoryAt(p, EntryNamed(Root(p), "EFI")), "BOOT")), "BOOTX64 EFI")

\* A directory entry is that of a file, from its first cluster to the end of its chain.
IsFileOf(p, entry, file) ==
  LET clusters[k \in 0 .. Clusters(file.size)] ==
        IF k = 0 THEN entry.first_cluster
        ELSE IF IsCluster(p, clusters[k - 1]) THEN NextCluster(p, clusters[k - 1]) ELSE 0
      sector(i) == p[SectorOf(p, clusters[(i - 1) \div SECTORS_PER_CLUSTER], (i - 1) % SECTORS_PER_CLUSTER)]
  IN /\ entry.file_size = file.size
     /\ file.size > 0 => clusters[Clusters(file.size)] = END
     /\ \A k \in 0 .. Clusters(file.size) - 1 : IsCluster(p, clusters[k])
     /\ \A i \in DOMAIN file.sectors : sector(i) = file.sectors[i]

\* The code at the entry point of an executable.
EntryCode(sectors) ==
  LET h == sectors[1][2]
      cell(i) == sectors[(i \div SECTOR_SIZE) + 1][2][(i % SECTOR_SIZE) + 1]
      first == h.pointer_to_raw_data + h.address_of_entry_point - h.virtual_address
  IN [i \in 1 .. h.size_of_raw_data |-> cell(first + i - 1)]

-----------------------------------------------------------------------------
(***************************************************************************)
(* Properties.                                                             *)
(***************************************************************************)
\* The clusters are in the table; the check of makefatfs.c:149 allows more than
\* twice as many.  The last one is in the partition as a whole.
FatFits ==
  /\ 4 + NUM_BOOT_LOADER_CLUSTERS + Clusters(host.toysfs.size) <= NIBBLES \div 3
  /\ host.toysfs.size % CLUSTER_SIZE = 0

(***************************************************************************)
(* The firmware finds the boot loader on the disk, and the files given to  *)
(* makefatfs, through the partition table and the file system (and runs    *)
(* the code from its first byte); the boot loader and the kernel find the  *)
(* blocks of the Toys file system without these, from sector 16 of the     *)
(* partition (boot.toy:67, filesystem.toy:39), and the code of the boot    *)
(* loader is in sectors 13 to 15, as doc/toys.md:1470 says.  Four programs *)
(* have to agree on this, with constants of their own.                     *)
(***************************************************************************)
FIRST_LOGICAL_BLOCK_ADDRESS == 16

DiskBoots ==
  Succeeded("maketoysimg") =>
    /\ ValidHeader(1)
    /\ LET p == Partition(1) IN
       /\ FatFits => /\ IsFileOf(p, BootEntry(p), host.efi)
                     /\ IsFileOf(p, EntryNamed(Root(p), "TOYSFS"), host.toysfs)
       /\ Len(p) = FIRST_LOGICAL_BLOCK_ADDRESS + Len(host.toysfs.sectors)
       /\ \A b \in DOMAIN host.toysfs.sectors :
            p[FIRST_LOGICAL_BLOCK_ADDRESS + b] = host.toysfs.sectors[b]
       /\ Made => /\ \E size \in CodeSizes : EntryCode(host.efi.sectors) = Code(size)
                  /\ \A s \in 13 .. 15 : p[s + 1] = host.efi.sectors[s - 11]

(***************************************************************************)
(* The disk has a second header, at the place the first one says, for the  *)
(* same partition and with right checksums, unless the size of the disk    *)
(* was raised to the least one (maketoysimg.c:143-145).                    *)
(***************************************************************************)
BackupHeader ==
  Succeeded("maketoysimg") =>
    LET lba == Lba(1)[2].alternate_lba IN
    lba # MIN_IMAGE_SECTORS - 1 =>
      /\ lba = Len(output) - 1
      /\ ValidHeader(lba)
      /\ Lba(lba)[2].alternate_lba = 1
      /\ Partition(lba) = Partition(1)

(***************************************************************************)
(* Each program ends, whatever the sizes of the files it is given, of the  *)
(* files of the disk and of the names in it.                               *)
(***************************************************************************)
ToolsEnd == tool.step # "exit" ~> tool.step = "exit"
=============================================================================
