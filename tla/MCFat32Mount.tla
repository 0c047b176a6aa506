----------------------------- MODULE MCFat32Mount -----------------------------
(***************************************************************************)
(* A disk that is one FAT32 volume, and a disk with an MBR whose second    *)
(* partition is one.                                                       *)
(***************************************************************************)
EXTENDS Fat32Mount

NoPartition == [fat |-> FALSE, lba |-> 0]
Unpartitioned == [i \in 1 .. 4 |-> NoPartition]

BootSector ==
  [bytes_per_sector |-> 512, named |-> TRUE, jumps |-> TRUE, signed |-> TRUE,
   sectors_per_cluster |-> 8, num_fats |-> 2, reserved_sectors |-> 32,
   sectors_per_fat |-> 100, partitions |-> Unpartitioned]

MasterBootRecord ==
  [bytes_per_sector |-> 0, named |-> FALSE, jumps |-> FALSE, signed |-> TRUE,
   sectors_per_cluster |-> 0, num_fats |-> 0, reserved_sectors |-> 0,
   sectors_per_fat |-> 0,
   partitions |-> [Unpartitioned EXCEPT ![2] = [fat |-> TRUE, lba |-> 2048]]]

SmallDisks ==
  { [n \in {0} |-> BootSector],
    [n \in {0, 2048} |-> IF n = 0 THEN MasterBootRecord ELSE BootSector] }

=============================================================================
