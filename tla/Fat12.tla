------------------------------- MODULE Fat12 -------------------------------
(****************************************************************************)
(* The reader of FAT12 images, src/drivers/iso/iso.c: three bytes of the    *)
(* FAT hold two entries of twelve bits.                                     *)
(****************************************************************************)
EXTENDS Naturals, Sequences

CONSTANT Wrap   \* 2^32: what sums and products are taken modulo

\* The entry of cluster c in the bytes of the FAT, which are numbered from 0.
NextCluster(fat, c) ==
  LET i == c + (c \div 2)
      word == fat[i] + 256 * fat[i + 1]
  IN  IF c % 2 = 1 THEN word \div 16 ELSE word % 4096

(* readFileRAM: what it copies, as <<cluster, bytes>>.  It is content with  *)
(* a chain that ends before the size of the file is reached.                *)
readFileRAM(fat, first, size, clusterSize) ==
  LET copied[c \in 0..4095, left \in 0..size] ==
        IF c >= 4088 \/ left = 0 THEN <<>>
        ELSE LET n == IF left < clusterSize THEN left ELSE clusterSize
             IN  <<<<c, n>>>> \o copied[NextCluster(fat, c), left - n]
  IN  copied[first, size]

(* readFile of the host's tool, tools/fat/fat.c, on the same image: whole   *)
(* clusters, the first in any case, until the chain ends.                   *)
readFile(fat, first) ==
  LET Entry(c) ==
        LET word == fat[(c * 3) \div 2] + 256 * fat[(c * 3) \div 2 + 1]
        IN  IF c % 2 = 0 THEN word % 4096 ELSE word \div 16
      read[c \in 0..4095, bound \in 0..4095] ==
        IF Entry(c) >= 4088 \/ bound = 0 THEN <<c>>
        ELSE <<c>> \o read[Entry(c), bound - 1]
  IN  read[first, 4095]

\* readRootDirectoryRAM: where the root directory ends and the clusters begin.
RootDirectoryEnd(b) ==
  b.reserved + b.sectorsPerFat * b.fats
    + ((32 * b.entries + b.bytesPerSector - 1) \div b.bytesPerSector)

\* readSectorsRAM copies these bytes of the disk, or none.
readSectorsRAM(lba, count, bytesPerSector, size) ==
  LET offset == (lba * bytesPerSector) % Wrap
      len == (count * bytesPerSector) % Wrap
  IN  IF (offset + len) % Wrap > size THEN {} ELSE offset..(offset + len - 1)
=============================================================================
