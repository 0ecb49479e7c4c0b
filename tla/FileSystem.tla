----------------------------- MODULE FileSystem -----------------------------
(****************************************************************************)
(* The FAT32 driver, src/drivers/filesystem.c, on one mounted volume: the   *)
(* FAT, the data clusters, one directory entry per file, and the FSFile     *)
(* handles, which are structures of the callers with copies of the entry.   *)
(*                                                                          *)
(* A call of fs_read or fs_write is several steps: one pass of the loop in  *)
(* file_cluster_for_position that adds a cluster, one pass of the loop over *)
(* sectors.  Calls on different handles interleave between the passes.      *)
(*                                                                          *)
(* A byte is one of a few values, and a handle always writes its own.  Every*)
(* copy of the FAT lies on the device, but not necessarily every cluster:   *)
(* cluster_count comes from the boot sector, the device's size from whoever *)
(* made the FSBlockDevice.                                                  *)
(****************************************************************************)
EXTENDS Naturals, FiniteSets, Sequences

CONSTANTS
  LastCluster,       \* cluster_count + 1
  OnDevice,          \* the clusters that lie on the device
  Sector,            \* bytes_per_sector
  SectorsPerCluster,
  Files, Handles,
  ReadOnly,          \* the files with FS_ATTR_READ_ONLY
  Volumes,           \* the volumes to begin with: [fat, entry]
  Junk,              \* what a byte holds before anybody writes it
  FREE, EOC,         \* 0, and 0x0FFFFFFF and the other ends of a chain
  NONE,              \* the first cluster of a file that has none: 0
  Modes,             \* the modes callers open with: of FS_OPEN_READ, FS_OPEN_WRITE
  Lengths,           \* the lengths callers read and write
  Positions,         \* the positions callers seek to
  MaxWrites          \* bound: how many calls of fs_write there are

Clusters == 2..LastCluster   \* all, also those beyond the device
Cluster == Sector * SectorsPerCluster      \* bytes_per_cluster
Bytes == Handles \cup {Junk}

(* get_fat_entry, from c on, in the FAT F: WalkIn(F, c)[i] is the i-th      *)
(* cluster of the chain that begins with c, EOC after its end, which comes  *)
(* within LastCluster.                                                      *)
Link(F, c) == IF c \in Clusters THEN F[c] ELSE EOC

WalkIn(F, c) ==
  LET w[i \in 0..LastCluster] == IF i = 0 THEN c ELSE Link(F, w[i - 1])
  IN  w

\* The clusters of the chain that begins with c, at most LastCluster - 1.
ChainIn(F, c) == {WalkIn(F, c)[i] : i \in 0..(LastCluster - 2)} \cap Clusters

\* The size that an entry or a handle has is not more than its chain holds.
Covers(F, n) ==
  n.size > 0 => /\ n.first # NONE
                /\ n.size <= Cluster * Cardinality(ChainIn(F, n.first))

(* A volume is [fat, entry].  The ones to begin with are sound: see         *)
(* ChainsSound and Covered, which say the same of every later moment.       *)
Volume == [fat : [Clusters -> Clusters \cup {FREE, EOC}],
           entry : [Files -> [first : Clusters \cup {NONE}, size : Nat]]]

SoundVolume(v) ==
  /\ v \in Volume
  /\ \A c \in Clusters : v.fat[c] \in Clusters =>
       /\ v.fat[v.fat[c]] # FREE
       /\ \A d \in Clusters : v.fat[d] = v.fat[c] => d = c
  /\ \A f \in Files : v.entry[f].first # NONE =>
       /\ v.fat[v.entry[f].first] # FREE
       /\ \A d \in Clusters : v.fat[d] # v.entry[f].first
       /\ \A g \in Files : v.entry[g].first = v.entry[f].first => g = f
  /\ \A f \in Files : Covers(v.fat, v.entry[f])

ASSUME FileSystemAssumption ==
  /\ LastCluster \in Nat /\ OnDevice \subseteq Clusters
  /\ Sector \in Nat \ {0} /\ SectorsPerCluster \in Nat \ {0}
  /\ {FREE, EOC, NONE} \cap Clusters = {} /\ FREE # EOC
  /\ Modes \subseteq SUBSET {"read", "write"}
  /\ Lengths \subseteq Nat \ {0} /\ Positions \subseteq Nat /\ MaxWrites \in Nat
  /\ \A v \in Volumes : SoundVolume(v)

VARIABLES
  mounted,
  fat,      \* cluster -> FREE, EOC or the next one
  data,     \* cluster -> its bytes
  entry,    \* file -> fst_clus and file_size of its directory entry
  handle,   \* the FSFile structures
  call,     \* the call in progress on each handle, and the bytes left to do
  got,      \* what the step that was just taken copied out to a reader
  opened,   \* history: the entry as it was when each handle was opened
  writes    \* how many calls of fs_write there were

vars == <<mounted, fat, data, entry, handle, call, got, opened, writes>>

-----------------------------------------------------------------------------
\* In the FAT as it is.
Walk(c) == WalkIn(fat, c)
Chain(c) == ChainIn(fat, c)

\* alloc_cluster takes the first free entry.
Free == {c \in Clusters : fat[c] = FREE}
FirstFree == CHOOSE c \in Free : \A d \in Free : c <= d

\* An FSFile with valid = 0: nothing reads its other fields.
Closed == [valid |-> FALSE, file |-> NONE, first |-> NONE, size |-> 0, pos |-> 0, mode |-> {}]

NoEntry == [first |-> NONE, size |-> 0]
Entries == [first : Clusters \cup {NONE}, size : Nat]
Opened == [valid : {TRUE}, file : Files, first : Clusters \cup {NONE},
           size : Nat, pos : Nat, mode : Modes]

Init ==
  /\ mounted = TRUE
  /\ \E v \in Volumes : fat = v.fat /\ entry = v.entry
  /\ data = [c \in Clusters |-> [i \in 1..Cluster |-> Junk]]
  /\ handle = [h \in Handles |-> Closed]
  /\ call = [h \in Handles |-> [op |-> "none", left |-> 0]]
  /\ got = <<>>
  /\ opened = [h \in Handles |-> NoEntry]
  /\ writes = 0

-----------------------------------------------------------------------------
(* Mounting computes where things are, and unmounting forgets it.  Nobody   *)
(* unmounts during a call.  Handles outlive both.                           *)
fs_unmount ==
  /\ mounted /\ \A h \in Handles : call[h].op = "none"
  /\ mounted' = FALSE
  /\ got' = <<>>
  /\ UNCHANGED <<fat, data, entry, handle, call, opened, writes>>

fs_mount_fat32 ==
  /\ ~mounted
  /\ mounted' = TRUE
  /\ got' = <<>>
  /\ UNCHANGED <<fat, data, entry, handle, call, opened, writes>>

(* fs_open fills the caller's FSFile, whatever it held: a caller can drop a *)
(* handle that it never closed.  That others have the file open is no       *)
(* obstacle.                                                                *)
fs_open(h, f, m) ==
  /\ mounted /\ call[h].op = "none"
  /\ "write" \in m => f \notin ReadOnly
  /\ handle' = [handle EXCEPT ![h] =
       [valid |-> TRUE, file |-> f, first |-> entry[f].first,
        size |-> entry[f].size, pos |-> 0, mode |-> m]]
  /\ opened' = [opened EXCEPT ![h] = entry[f]]
  /\ got' = <<>>
  /\ UNCHANGED <<mounted, fat, data, entry, call, writes>>

\* Any position, also beyond the end, mounted or not.
fs_seek(h, p) ==
  /\ handle[h].valid /\ call[h].op = "none"
  /\ handle' = [handle EXCEPT ![h].pos = p]
  /\ got' = <<>>
  /\ UNCHANGED <<mounted, fat, data, entry, call, opened, writes>>

Usable(h, op) ==
  mounted /\ handle[h].valid /\ op \in handle[h].mode /\ call[h].op = "none"

\* A mutant of fs_read: a position beyond the end is not looked for.
fs_readBeyond(h, n) ==
  LET rest == handle[h].size - handle[h].pos
  IN  /\ Usable(h, "read")
      /\ call' = [call EXCEPT ![h] = [op |-> "read", left |-> IF n > rest THEN rest ELSE n]]
      /\ got' = <<>>
      /\ UNCHANGED <<mounted, fat, data, entry, handle, opened, writes>>

\* A read at the end or beyond returns nothing; others are cut at the end.
fs_read(h, n) ==
  LET rest == handle[h].size - handle[h].pos
  IN  /\ Usable(h, "read") /\ handle[h].pos < handle[h].size
      /\ call' = [call EXCEPT ![h] = [op |-> "read", left |-> IF n > rest THEN rest ELSE n]]
      /\ got' = <<>>
      /\ UNCHANGED <<mounted, fat, data, entry, handle, opened, writes>>

fs_write(h, n) ==
  /\ Usable(h, "write") /\ writes < MaxWrites
  /\ call' = [call EXCEPT ![h] = [op |-> "write", left |-> n]]
  /\ writes' = writes + 1
  /\ got' = <<>>
  /\ UNCHANGED <<mounted, fat, data, entry, handle, opened>>

-----------------------------------------------------------------------------
(* file_cluster_for_position: the cluster of the handle's position, if its  *)
(* chain is long enough.                                                    *)
Index(h) == handle[h].pos \div Cluster
At(h) == Walk(handle[h].first)[Index(h)]

Reached(h) ==
  handle[h].first # NONE /\ Index(h) <= LastCluster /\ At(h) \in Clusters

\* The part of a pass that lies in one sector.
Part(h) ==
  LET room == Sector - (handle[h].pos % Sector)
  IN  IF room > call[h].left THEN call[h].left ELSE room

\* A mutant of Span: the whole sector.
SpanSector(h) ==
  LET first == handle[h].pos % Cluster
  IN  {first - (first % Sector) + i : i \in 1..Sector}

\* The places in its cluster that the pass reads or writes.
Span(h) == {(handle[h].pos % Cluster) + i : i \in 1..Part(h)}

\* What remains of a call after n more bytes.
After(h, n) ==
  [call EXCEPT ![h] = IF @.left = n THEN [op |-> "none", left |-> 0]
                      ELSE [op |-> @.op, left |-> @.left - n]]

ReadPass(h) ==
  /\ call[h].op = "read"
  /\ Reached(h) /\ At(h) \in OnDevice
  /\ got' = SubSeq(data[At(h)], (handle[h].pos % Cluster) + 1,
                                (handle[h].pos % Cluster) + Part(h))
  /\ handle' = [handle EXCEPT ![h].pos = @ + Part(h)]
  /\ call' = After(h, Part(h))
  /\ UNCHANGED <<mounted, fat, data, entry, opened, writes>>

(* Mutants of WritePass: the size is set before all is written, or it is  *)
(* set to the end of the part although the file is longer.                  *)
WritePassEarly(h) ==
  LET end == handle[h].pos + Part(h)
  IN  /\ call[h].op = "write"
      /\ Reached(h) /\ At(h) \in OnDevice
      /\ data' = [data EXCEPT ![At(h)] =
           [i \in 1..Cluster |-> IF i \in Span(h) THEN h ELSE @[i]]]
      /\ handle' = [handle EXCEPT ![h].pos = end,
                                  ![h].size = handle[h].pos + call[h].left]
      /\ call' = After(h, Part(h))
      /\ got' = <<>>
      /\ UNCHANGED <<mounted, fat, entry, opened, writes>>

WritePassShrinking(h) ==
  LET end == handle[h].pos + Part(h)
  IN  /\ call[h].op = "write"
      /\ Reached(h) /\ At(h) \in OnDevice
      /\ data' = [data EXCEPT ![At(h)] =
           [i \in 1..Cluster |-> IF i \in Span(h) THEN h ELSE @[i]]]
      /\ handle' = [handle EXCEPT ![h].pos = end, ![h].size = end]
      /\ call' = After(h, Part(h))
      /\ got' = <<>>
      /\ UNCHANGED <<mounted, fat, entry, opened, writes>>

\* The sector is read, changed and written back; then the size follows.
WritePass(h) ==
  LET end == handle[h].pos + Part(h)
  IN  /\ call[h].op = "write"
      /\ Reached(h) /\ At(h) \in OnDevice
      /\ data' = [data EXCEPT ![At(h)] =
           [i \in 1..Cluster |-> IF i \in Span(h) THEN h ELSE @[i]]]
      /\ handle' = [handle EXCEPT ![h].pos = end,
                                  ![h].size = IF end > @ THEN end ELSE @]
      /\ call' = After(h, Part(h))
      /\ got' = <<>>
      /\ UNCHANGED <<mounted, fat, entry, opened, writes>>

\* A mutant of AddFirst: the cluster is not marked in the FAT.
AddFirstUnmarked(h) ==
  /\ call[h].op = "write"
  /\ handle[h].first = NONE /\ Free # {}
  /\ handle' = [handle EXCEPT ![h].first = FirstFree]
  /\ got' = <<>>
  /\ UNCHANGED <<mounted, fat, data, entry, call, opened, writes>>

(* The first cluster of an empty file.  Only the handle knows of it until   *)
(* fs_close.                                                                *)
AddFirst(h) ==
  /\ call[h].op = "write"
  /\ handle[h].first = NONE /\ Free # {}
  /\ fat' = [fat EXCEPT ![FirstFree] = EOC]
  /\ handle' = [handle EXCEPT ![h].first = FirstFree]
  /\ got' = <<>>
  /\ UNCHANGED <<mounted, data, entry, call, opened, writes>>

\* A mutant of AddCluster: it is linked behind the first one.
AddClusterInFront(h) ==
  /\ call[h].op = "write"
  /\ handle[h].first # NONE /\ Free # {}
  /\ ~Reached(h)
  /\ fat' = [fat EXCEPT ![FirstFree] = EOC, ![handle[h].first] = FirstFree]
  /\ got' = <<>>
  /\ UNCHANGED <<mounted, data, entry, handle, call, opened, writes>>

\* One more cluster at the end of the chain.
AddCluster(h) ==
  /\ call[h].op = "write"
  /\ handle[h].first # NONE /\ Free # {}
  /\ \E i \in 0..LastCluster :
       LET c == Walk(handle[h].first)[i]
       IN  /\ i < Index(h)
           /\ c \in Clusters /\ fat[c] = EOC
           /\ fat' = [fat EXCEPT ![FirstFree] = EOC, ![c] = FirstFree]
  /\ got' = <<>>
  /\ UNCHANGED <<mounted, data, entry, handle, call, opened, writes>>

(* FS_ERR_NO_SPACE, or FS_ERR_IO for a sector that is not on the device or  *)
(* a read beyond the chain: the call ends where it is.                      *)
Fail(h) ==
  /\ call[h].op # "none"
  /\ IF Reached(h) THEN At(h) \notin OnDevice
     ELSE call[h].op = "read" \/ Free = {}
  /\ call' = [call EXCEPT ![h] = [op |-> "none", left |-> 0]]
  /\ got' = <<>>
  /\ UNCHANGED <<mounted, fat, data, entry, handle, opened, writes>>

\* A handle that can write puts its copies into the entry, whatever is there.
fs_close(h) ==
  /\ mounted /\ handle[h].valid /\ call[h].op = "none"
  /\ entry' = IF "write" \in handle[h].mode
              THEN [entry EXCEPT ![handle[h].file] =
                      [first |-> handle[h].first, size |-> handle[h].size]]
              ELSE entry
  /\ handle' = [handle EXCEPT ![h] = Closed]
  /\ opened' = [opened EXCEPT ![h] = NoEntry]
  /\ got' = <<>>
  /\ UNCHANGED <<mounted, fat, data, call, writes>>

Next ==
  \/ fs_unmount \/ fs_mount_fat32
  \/ \E h \in Handles :
       \/ \E f \in Files, m \in Modes : fs_open(h, f, m)
       \/ \E p \in Positions : fs_seek(h, p)
       \/ \E n \in Lengths : fs_read(h, n) \/ fs_write(h, n)
       \/ ReadPass(h) \/ WritePass(h) \/ AddFirst(h) \/ AddCluster(h)
       \/ Fail(h) \/ fs_close(h)

Spec == Init /\ [][Next]_vars

-----------------------------------------------------------------------------
TypeOK ==
  /\ mounted \in BOOLEAN
  /\ fat \in [Clusters -> Clusters \cup {FREE, EOC}]
  /\ data \in [Clusters -> [1..Cluster -> Bytes]]
  /\ entry \in [Files -> Entries]
  /\ handle \in [Handles -> Opened \cup {Closed}]
  /\ call \in [Handles -> [op : {"none", "read", "write"}, left : Nat]]
  /\ got \in Seq(Bytes)
  /\ opened \in [Handles -> Entries]
  /\ writes \in 0..MaxWrites

\* The entries and the open handles of file f: all that name a first cluster.
Names(f) == {entry[f]} \cup
            {handle[h] : h \in {g \in Handles : handle[g].valid /\ handle[g].file = f}}

Heads(f) == {n.first : n \in Names(f)} \ {NONE}

(* The FAT stays sound whatever calls interleave, fail or never finish: a   *)
(* link leads to a cluster in use, no two links to the same one and none to *)
(* a first cluster, and no first cluster belongs to two files.  So chains   *)
(* neither cross nor run in circles: alloc_cluster, its link in             *)
(* file_cluster_for_position, and fs_close.                                 *)
ChainsSound ==
  /\ \A c \in Clusters : fat[c] \in Clusters =>
       /\ fat[fat[c]] # FREE
       /\ \A d \in Clusters : fat[d] = fat[c] => d = c
  /\ \A f \in Files : \A c \in Heads(f) :
       /\ fat[c] # FREE
       /\ \A d \in Clusters : fat[d] # c
       /\ \A g \in Files : c \in Heads(g) => g = f

(* A size never promises more than the chain behind it holds, so that a     *)
(* read inside the size always finds its cluster: in every entry, and in    *)
(* every handle, also after a write that failed half way (fs_write,         *)
(* fs_close).                                                               *)
Covered == \A f \in Files : \A n \in Names(f) : Covers(fat, n)

Overlapped(h) == opened[h] # entry[handle[h].file]

(* What an entry records gets lost, by a smaller size or another first      *)
(* cluster, only in fs_close of a handle that was opened before somebody    *)
(* else's fs_close changed the entry: the last close wins.  A writer alone  *)
(* with its file never loses anything.                                      *)
OnlyOverlapLoses ==
  [][\A f \in Files :
       \/ entry'[f].size < entry[f].size
       \/ entry[f].first # NONE /\ entry'[f].first # entry[f].first
       => \E h \in Handles :
            handle[h].valid /\ ~handle'[h].valid /\ handle[h].file = f /\ Overlapped(h)]_vars

AllHeads == [f \in Files |-> Heads(f)]
InUse == UNION {Chain(c) : c \in UNION {Heads(f) : f \in Files}}

(* A cluster that an entry or a handle leads to is never lost, unless a     *)
(* caller drops a handle that has a first cluster the entry does not have   *)
(* (fs_open into it, without fs_close), or closes one that was overlapped.  *)
OnlyDroppedLeak ==
  [][\A c \in InUse \ InUse' :
       \E h \in Handles :
         /\ handle[h].valid /\ handle'[h] # handle[h]
         /\ IF handle'[h].valid
            THEN c \in Chain(handle[h].first) /\ handle[h].first # entry[handle[h].file].first
            ELSE Overlapped(h)]_<<fat, AllHeads>>

-----------------------------------------------------------------------------
\* What the chain that begins with c holds, as one string.
Contents(c) ==
  LET walk == Walk(c)
      length == Cardinality(Chain(c))
  IN  [i \in 1..(Cluster * length) |->
         data[walk[(i - 1) \div Cluster]][((i - 1) % Cluster) + 1]]

First(c) == fat[c] # FREE /\ \A d \in Clusters : fat[d] # c

Text == [c \in Clusters |-> IF First(c) THEN Contents(c) ELSE <<>>]

Store == INSTANCE FileStore WITH
  Bodies <- Clusters, NoBody <- NONE, Growth <- Cluster, body <- Text

(* Behind the sectors there are files: what is read through any handle is   *)
(* what was last written there through any handle on the same chain, a      *)
(* write changes nothing else, a file grows only at its end.                *)
ImplementsStore == Store!Spec
=============================================================================
