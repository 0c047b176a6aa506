------------------------------ MODULE Fat32Mount ------------------------------
(***************************************************************************)
(* fat32_mount of kernel/src/fat32.c: finding the file system of a disk.   *)
(*                                                                         *)
(* A sector is what fat32_mount tells apart in it: the fields of a boot    *)
(* sector, whether it ends in 0x55 0xAA, and the four partitions.          *)
(***************************************************************************)
EXTENDS Integers, Sequences, FiniteSets

CONSTANTS Disks             \* functions from sector numbers to sectors

VARIABLES disk,
          pc,
          boot,             \* the sector that bpb points to
          is_fat32_direct,
          fat32_lba,        \* the outer variable of this name, line 345
          fs                \* NULL or a fat32_fs_t

vars == <<disk, pc, boot, is_fat32_direct, fat32_lba, fs>>

NULL == [mounted |-> FALSE]
NoSector == [bytes_per_sector |-> 0]

Init ==
  /\ disk \in Disks
  /\ pc = "start"
  /\ boot = NoSector
  /\ is_fat32_direct = FALSE
  /\ fat32_lba = 0
  /\ fs = NULL

\* The name of a FAT file system, or a jump and a number of sectors that is a
\* power of two.
LooksLikeFat(s) ==
  /\ s.bytes_per_sector = 512
  /\ s.named \/ (s.jumps /\ s.sectors_per_cluster \in {1, 2, 4, 8, 16, 32, 64, 128})

ReadSector0 ==
  /\ pc = "start"
  /\ boot' = disk[0]
  /\ is_fat32_direct' = LooksLikeFat(disk[0])
  /\ pc' = IF LooksLikeFat(disk[0]) THEN "bpb" ELSE "mbr"
  /\ UNCHANGED <<disk, fat32_lba, fs>>

FatPartitions == {i \in 1 .. 4 : boot.partitions[i].fat}

\* The first FAT32 partition.  Its number goes to a fat32_lba that is declared
\* in this block.
ReadPartition ==
  /\ pc = "mbr" /\ boot.signed /\ FatPartitions # {}
  /\ LET i == CHOOSE j \in FatPartitions : \A k \in FatPartitions : j <= k
         lba == boot.partitions[i].lba
     IN  /\ lba # 0 /\ lba \in DOMAIN disk
         /\ boot' = disk[lba]
  /\ pc' = "bpb"
  /\ UNCHANGED <<disk, is_fat32_direct, fat32_lba, fs>>

Mounted ==
  /\ pc = "bpb"
  /\ boot.bytes_per_sector = 512 /\ boot.sectors_per_cluster # 0 /\ boot.num_fats # 0
  /\ LET fat_start == boot.reserved_sectors
                        + (IF is_fat32_direct /\ fat32_lba > 0 THEN fat32_lba ELSE 0)
     IN  fs' = [mounted |-> TRUE, fat_start |-> fat_start,
                data_start |-> fat_start + boot.num_fats * boot.sectors_per_fat]
  /\ pc' = "done"
  /\ UNCHANGED <<disk, boot, is_fat32_direct, fat32_lba>>

\* No file system, or a sector that cannot be read.
Fails ==
  /\ pc \in {"start", "mbr", "bpb"}
  /\ pc' = "done"
  /\ UNCHANGED <<disk, boot, is_fat32_direct, fat32_lba, fs>>

Done == pc = "done" /\ UNCHANGED vars

Next == ReadSector0 \/ ReadPartition \/ Mounted \/ Fails \/ Done

Spec == Init /\ [][Next]_vars

-----------------------------------------------------------------------------

\* The sectors at which a file system begins.
Volumes == {n \in DOMAIN disk : disk[n].named}

\* The FAT of a mounted disk is where it is: behind the reserved sectors of the
\* volume, counted from the first sector of the partition that holds it, which
\* fat32_mount means to add to fat_start.
FatStartsInItsVolume ==
  fs.mounted => \E n \in Volumes : fs.fat_start = n + disk[n].reserved_sectors

=============================================================================
