---------------------------- MODULE MemoryProofs ----------------------------
(****************************************************************************)
(* Theorems about Memory for every amount of memory, every size of kernel   *)
(* and table and any set of pages in one table, which is what the kernel    *)
(* heap's are.                                                              *)
(****************************************************************************)
EXTENDS Memory, Arithmetic, FiniteSetTheorems

-----------------------------------------------------------------------------
(* The numbers the module computes with.                                    *)
LEMMA Numbers ==
  /\ Total \in Nat /\ Kernel \in Nat \ {0} /\ Entries \in Nat \ {0}
  /\ Tables \in Nat /\ Tables <= Entries /\ Kernel + Tables < Total
  /\ Total <= Tables * Entries
<1>1. /\ Total \in Nat /\ Kernel \in Nat \ {0} /\ Entries \in Nat \ {0}
      /\ Tables <= Entries /\ Kernel + 1 + Tables <= Total
  BY MemoryAssumption
<1>2. Total + Entries - 1 \in Nat
  BY <1>1
<1>3. Tables \in Nat
  BY <1>1, <1>2, Division DEF Tables
<1>4. Total <= Tables * Entries
  <2>1. /\ Total + Entries - 1 = Entries * Tables + ((Total + Entries - 1) % Entries)
        /\ (Total + Entries - 1) % Entries \in 0..(Entries - 1)
    BY <1>1, <1>2, Division DEF Tables
  <2>2. Entries * Tables = Tables * Entries
    BY <1>1, <1>3
  <2>3. QED
    BY <1>1, <1>3, <2>1, <2>2
<1>5. QED
  BY <1>1, <1>3, <1>4

LEMMA PageIndices ==
  ASSUME NEW v \in Pages
  PROVE  PdIndex(v) \in Slots /\ PtIndex(v) \in Slots /\ Tables <= PdIndex(v)
<1>1. v \in Nat /\ Tables * Entries <= v /\ v < Entries * Entries
  BY Numbers, MemoryAssumption
<1>2. /\ Entries \in Nat \ {0} /\ Tables \in Nat
  BY Numbers
<1>3. v \div Entries \in Nat /\ v % Entries \in 0..(Entries - 1)
  BY <1>1, <1>2, Division
<1>4. v \div Entries < Entries
  BY <1>1, <1>2, Below
<1>5. Tables <= v \div Entries
  BY <1>1, <1>2, Above
<1>6. QED
  BY <1>2, <1>3, <1>4, <1>5 DEF PdIndex, PtIndex, Slots

LEMMA FrameIndices ==
  ASSUME NEW f \in Frames
  PROVE  /\ PdIndex(f) \in Slots /\ PtIndex(f) \in Slots /\ PdIndex(f) < Tables
         /\ f = PdIndex(f) * Entries + PtIndex(f)
<1>1. f \in Nat /\ f < Tables * Entries
  <2>1. Tables * Entries \in Nat
    BY Numbers
  <2>2. QED
    BY <2>1, Numbers DEF Frames
<1>2. Entries \in Nat \ {0} /\ Tables \in Nat /\ Tables <= Entries
  BY Numbers
<1>3. /\ f \div Entries \in Nat /\ f % Entries \in 0..(Entries - 1)
      /\ f = Entries * (f \div Entries) + (f % Entries)
  BY <1>1, <1>2, Division
<1>4. f \div Entries < Tables
  BY <1>1, <1>2, Below
<1>5. Entries * (f \div Entries) = (f \div Entries) * Entries
  BY <1>2, <1>3
<1>6. f \div Entries < Entries
  BY <1>2, <1>3, <1>4
<1>7. QED
  BY <1>2, <1>3, <1>4, <1>5, <1>6 DEF PdIndex, PtIndex, Slots

LEMMA SamePage ==
  ASSUME NEW v \in Pages, NEW w \in Pages,
         PdIndex(v) = PdIndex(w), PtIndex(v) = PtIndex(w)
  PROVE  v = w
<1>1. v \in Nat /\ w \in Nat
  BY Numbers, MemoryAssumption
<1>2. QED
  BY <1>1, Numbers, Division DEF PdIndex, PtIndex

(* pmm_alloc_block returns a frame that was free, or 0 when there is none.  *)
LEMMA FirstFreeIsFree ==
  ASSUME NEW bits, 0 \in bits
  PROVE  /\ FirstFree(bits) \in Frames
         /\ FirstFree(bits) # 0 <=> FirstFree(bits) \notin bits
         /\ FirstFree(bits) = 0 <=> Frames \subseteq bits
<1>1. CASE Frames \subseteq bits
  BY <1>1, Numbers DEF FirstFree, Frames
<1>2. CASE ~(Frames \subseteq bits)
  <2>1. Frames \ bits \in SUBSET Nat /\ Frames \ bits # {}
    BY <1>2, Numbers DEF Frames
  <2>2. \E f \in Frames \ bits : \A g \in Frames \ bits : f <= g
    BY <2>1, LeastElement
  <2>3. FirstFree(bits) \in Frames \ bits
    BY <1>2, <2>2 DEF FirstFree
  <2>4. QED
    BY <1>2, <2>3
<1>3. QED
  BY <1>1, <1>2

-----------------------------------------------------------------------------
(* The invariant.                                                           *)

OneSlot == \A v, w \in Pages : PdIndex(v) = PdIndex(w)

Boot == 0..(Kernel + Tables)   \* the frames taken before the first call

(* The tables of the identity map are where vmm_init put them, unchanged;   *)
(* the only other table is the pages', in frame 0 or in a frame of its own. *)
TablesInv ==
  /\ \A s \in Slots : s < Tables => /\ directory[s] = Kernel + 1 + s
                                    /\ word[Kernel + 1 + s] = Identity(s)
  /\ \A s \in Slots : Tables <= s /\ directory[s] # NULL =>
       /\ \E v \in Pages : s = PdIndex(v)
       /\ directory[s] = 0 \/ directory[s] \notin Boot

Grown == {directory[PdIndex(v)] : v \in Pages} \ {NULL, 0}

(* Who has the frames that are used.                                        *)
OwnersInv ==
  /\ used = Boot \cup Grown \cup Mapped \cup held
  /\ Grown \cap Boot = {} /\ Mapped \cap Boot = {} /\ held \cap Boot = {}
  /\ Grown \cap Mapped = {} /\ Grown \cap held = {} /\ Mapped \cap held = {}
  /\ \A v, w \in Pages : Frame(v) = Frame(w) => v = w \/ Frame(v) = NULL

CountInv == used_blocks = Cardinality(used)

MInv == TypeOK /\ TablesInv /\ OwnersInv /\ CountInv

-----------------------------------------------------------------------------
(* Facts about a state.                                                     *)

LEMMA Counting ==
  ASSUME NEW U \in SUBSET Frames
  PROVE  IsFiniteSet(U) /\ Cardinality(U) \in 0..Total
<1>1. IsFiniteSet(Frames) /\ Cardinality(Frames) = Total
  <2>1. 0 \in Int /\ Total - 1 \in Int /\ Total > 0
    BY Numbers
  <2>2. /\ IsFiniteSet(0..(Total - 1))
        /\ Cardinality(0..(Total - 1)) =
             IF 0 > Total - 1 THEN 0 ELSE (Total - 1) - 0 + 1
    BY <2>1, FS_Interval, Zenon
  <2>3. QED
    BY <2>1, <2>2, Numbers DEF Frames
<1>2. IsFiniteSet(U) /\ Cardinality(U) <= Cardinality(Frames)
  BY <1>1, FS_Subset
<1>3. Cardinality(U) \in Nat
  BY <1>2, FS_CardinalityType
<1>4. QED
  BY <1>1, <1>2, <1>3, Numbers

LEMMA BootFrames ==
  /\ Boot \subseteq Frames /\ 0 \in Boot /\ NULL \notin Frames
  /\ \A s \in Slots : s < Tables => Kernel + 1 + s \in Boot \ {0}
  BY Numbers, MemoryAssumption DEF Boot, Frames, Slots

(* A page's table is never one of the identity map's.                       *)
LEMMA PageTable ==
  ASSUME MInv, NEW v \in Pages, directory[PdIndex(v)] # NULL
  PROVE  /\ directory[PdIndex(v)] \in Frames
         /\ directory[PdIndex(v)] = 0 \/ directory[PdIndex(v)] \notin Boot
  BY PageIndices DEF MInv, TypeOK, TablesInv

LEMMA FrameType ==
  ASSUME TypeOK, NEW v \in Pages
  PROVE  Frame(v) \in Frames \cup {NULL}
  BY PageIndices DEF TypeOK, Frame

LEMMA UsedContains ==
  ASSUME MInv
  PROVE  0 \in used /\ Boot \subseteq used
  BY BootFrames DEF MInv, OwnersInv

(* A frame that pmm_alloc_block returns is nobody's.                        *)
LEMMA Fresh ==
  ASSUME MInv, NEW f, f \in Frames \ used
  PROVE  f \notin Boot /\ f \notin Grown /\ f \notin Mapped /\ f \notin held /\ f # 0
  BY BootFrames DEF MInv, OwnersInv

-----------------------------------------------------------------------------
(* The initial state.                                                       *)

LEMMA IdentityType ==
  ASSUME NEW n \in Nat
  PROVE  Identity(n) \in [Slots -> Frames \cup {NULL}]
<1>1. n * Entries \in Nat
  BY Numbers
<1>2. ASSUME NEW i \in Slots
      PROVE  n * Entries + i \in Nat
  BY <1>1, Numbers DEF Slots
<1>3. \A i \in Slots : n * Entries + i < Total => n * Entries + i \in Frames
  BY <1>2, Numbers DEF Frames
<1>4. QED
  BY <1>3 DEF Identity

LEMMA InitInv ==
  ASSUME Init
  PROVE  MInv
<1>1. PICK junk \in Frames \cup {NULL} :
        word = [f \in Frames |->
                  IF f \in (Kernel + 1)..(Kernel + Tables)
                  THEN Identity(f - Kernel - 1)
                  ELSE [i \in Slots |-> junk]]
  BY DEF Init
<1>2. used = Boot /\ used_blocks = Cardinality(Boot)
  <2>1. Cardinality(Boot) = Kernel + 1 + Tables
    BY Numbers, FS_Interval DEF Boot
  <2>2. QED
    BY <2>1 DEF Init, Boot
<1>3. TypeOK
  <2>1. word \in [Frames -> [Slots -> Frames \cup {NULL}]]
    <3>1. ASSUME NEW f \in Frames
          PROVE  word[f] \in [Slots -> Frames \cup {NULL}]
      <4>1. CASE f \in (Kernel + 1)..(Kernel + Tables)
        <5>1. f - Kernel - 1 \in Nat
          BY <4>1, Numbers
        <5>2. QED
          BY <1>1, <4>1, <5>1, IdentityType
      <4>2. CASE f \notin (Kernel + 1)..(Kernel + Tables)
        BY <1>1, <4>2
      <4>3. QED
        BY <4>1, <4>2
    <3>2. QED
      BY <1>1, <3>1
  <2>2. directory \in [Slots -> Frames \cup {NULL}]
    BY Numbers, BootFrames DEF Init, Slots
  <2>3. used \subseteq Frames /\ used_blocks \in 0..Total
    BY <1>2, BootFrames, Counting
  <2>4. held \subseteq Frames
    BY DEF Init
  <2>5. QED
    BY <2>1, <2>2, <2>3, <2>4 DEF TypeOK
<1>4. TablesInv
  <2>1. ASSUME NEW s \in Slots, s < Tables
        PROVE  directory[s] = Kernel + 1 + s /\ word[Kernel + 1 + s] = Identity(s)
    <3>1. /\ Kernel + 1 + s \in Frames
          /\ Kernel + 1 + s \in (Kernel + 1)..(Kernel + Tables)
          /\ (Kernel + 1 + s) - Kernel - 1 = s
      BY <2>1, Numbers DEF Slots, Frames
    <3>2. QED
      BY <1>1, <2>1, <3>1 DEF Init
  <2>2. \A s \in Slots : Tables <= s => directory[s] = NULL
    BY Numbers DEF Init, Slots
  <2>3. QED
    BY <2>1, <2>2 DEF TablesInv
<1>5. \A v \in Pages : directory[PdIndex(v)] = NULL
  BY PageIndices, Numbers DEF Init, Slots
<1>6. Grown = {} /\ Mapped = {} /\ \A v \in Pages : Frame(v) = NULL
  BY <1>5 DEF Grown, Mapped, Frame
<1>7. OwnersInv
  BY <1>2, <1>6 DEF OwnersInv, Init
<1>8. QED
  BY <1>2, <1>3, <1>4, <1>7 DEF MInv, CountInv

-----------------------------------------------------------------------------
(* The steps.                                                               *)

(* Marking a free frame, and clearing a used one, keep the count exact.     *)
LEMMA MarkCounts ==
  ASSUME TypeOK, CountInv, NEW f \in Frames \ used
  PROVE  /\ used \cup {f} \subseteq Frames
         /\ used_blocks + 1 = Cardinality(used \cup {f})
         /\ used_blocks + 1 \in 0..Total
<1>1. IsFiniteSet(used) /\ used \cup {f} \in SUBSET Frames
  BY Counting DEF TypeOK
<1>2. Cardinality(used \cup {f}) = Cardinality(used) + 1
  BY <1>1, FS_AddElement
<1>3. QED
  BY <1>1, <1>2, Counting DEF CountInv

LEMMA ClearCounts ==
  ASSUME TypeOK, CountInv, NEW f \in used
  PROVE  /\ used \ {f} \subseteq Frames
         /\ used_blocks - 1 = Cardinality(used \ {f})
         /\ used_blocks - 1 \in 0..Total
<1>1. IsFiniteSet(used) /\ used \ {f} \in SUBSET Frames
  BY Counting DEF TypeOK
<1>2. Cardinality(used \ {f}) = Cardinality(used) - 1
  BY <1>1, FS_RemoveElement
<1>3. QED
  BY <1>1, <1>2, Counting DEF CountInv

(* A step that leaves directory and tables alone leaves every page alone.   *)
LEMMA SameTables ==
  ASSUME MInv, directory' = directory, word' = word
  PROVE  /\ TablesInv' /\ Grown' = Grown /\ Mapped' = Mapped
         /\ \A v \in Pages : Frame(v)' = Frame(v)
<1>1. \A v \in Pages : Frame(v)' = Frame(v)
  BY DEF Frame
<1>2. QED
  BY <1>1 DEF MInv, TablesInv, Grown, Mapped

LEMMA AllocBlockInv ==
  ASSUME MInv, AllocBlock
  PROVE  MInv' /\ \A v \in Pages : Frame(v)' = Frame(v)
<1>1. PICK f : /\ f = FirstFree(used) /\ f # 0
               /\ used' = used \cup {f} /\ used_blocks' = used_blocks + 1
               /\ held' = held \cup {f}
               /\ directory' = directory /\ word' = word
  BY DEF AllocBlock
<1>2. f \in Frames \ used
  BY <1>1, UsedContains, FirstFreeIsFree
<1>3. /\ TablesInv' /\ Grown' = Grown /\ Mapped' = Mapped
      /\ \A v \in Pages : Frame(v)' = Frame(v)
  BY <1>1, SameTables
<1>4. f \notin Boot /\ f \notin Grown /\ f \notin Mapped
  BY <1>2, Fresh
<1>5. TypeOK' /\ CountInv'
  BY <1>1, <1>2, MarkCounts DEF MInv, TypeOK, CountInv
<1>6. OwnersInv'
  BY <1>1, <1>3, <1>4 DEF MInv, OwnersInv
<1>7. QED
  BY <1>3, <1>5, <1>6 DEF MInv

LEMMA FreeBlockInv ==
  ASSUME MInv, NEW f \in Frames, FreeBlock(f)
  PROVE  MInv' /\ \A v \in Pages : Frame(v)' = Frame(v)
<1>1. /\ f \in held /\ f \in used
      /\ used' = used \ {f} /\ used_blocks' = used_blocks - 1
      /\ held' = held \ {f}
      /\ directory' = directory /\ word' = word
  BY DEF FreeBlock, PmmFree, MInv, OwnersInv
<1>2. /\ TablesInv' /\ Grown' = Grown /\ Mapped' = Mapped
      /\ \A v \in Pages : Frame(v)' = Frame(v)
  BY <1>1, SameTables
<1>3. TypeOK' /\ CountInv'
  BY <1>1, ClearCounts DEF MInv, TypeOK, CountInv
<1>4. OwnersInv'
  BY <1>1, <1>2 DEF MInv, OwnersInv
<1>5. QED
  BY <1>2, <1>3, <1>4 DEF MInv

(* Writing one entry of the pages' table: the identity map's tables stay,   *)
(* and of the pages only v changes.                                         *)
LEMMA EntryWritten ==
  ASSUME MInv, OneSlot, NEW v \in Pages, NEW e \in Frames \cup {NULL},
         directory[PdIndex(v)] # NULL, directory' = directory,
         word' = [word EXCEPT ![directory[PdIndex(v)]][PtIndex(v)] = e]
  PROVE  /\ TablesInv' /\ Grown' = Grown
         /\ word' \in [Frames -> [Slots -> Frames \cup {NULL}]]
         /\ Frame(v)' = e /\ \A w \in Pages \ {v} : Frame(w)' = Frame(w)
<1> DEFINE t == directory[PdIndex(v)]
<1>1. t \in Frames /\ (t = 0 \/ t \notin Boot)
  BY PageTable
<1>2. /\ word \in [Frames -> [Slots -> Frames \cup {NULL}]]
      /\ PtIndex(v) \in Slots
  BY PageIndices DEF MInv, TypeOK
<1>3. /\ \A f \in Frames \ {t} : word'[f] = word[f]
      /\ word'[t] = [word[t] EXCEPT ![PtIndex(v)] = e]
      /\ word' \in [Frames -> [Slots -> Frames \cup {NULL}]]
  BY <1>1, <1>2
<1>4. TablesInv' /\ Grown' = Grown
  <2>1. \A s \in Slots : s < Tables => word'[Kernel + 1 + s] = word[Kernel + 1 + s]
    BY <1>1, <1>3, BootFrames
  <2>2. QED
    BY <2>1 DEF MInv, TablesInv, Grown
<1>5. Frame(v)' = e
  BY <1>2, <1>3, <1>1 DEF Frame
<1>6. ASSUME NEW w \in Pages \ {v}
      PROVE  Frame(w)' = Frame(w)
  <2>1. PdIndex(w) = PdIndex(v)
    BY DEF OneSlot
  <2>2. PtIndex(w) # PtIndex(v) /\ PtIndex(w) \in Slots
    BY <2>1, SamePage, PageIndices
  <2>3. word'[t][PtIndex(w)] = word[t][PtIndex(w)]
    BY <1>1, <1>2, <1>3, <2>2
  <2>4. QED
    BY <2>1, <2>3 DEF Frame
<1>7. QED
  BY <1>3, <1>4, <1>5, <1>6

LEMMA FreePageInv ==
  ASSUME MInv, OneSlot, NEW v \in Pages, FreePage(v)
  PROVE  MInv' /\ \A w \in Pages \ {v} : Frame(w)' = Frame(w)
<1> DEFINE g == Frame(v)
<1>1. /\ g # NULL /\ g \in Mapped /\ g \in used /\ directory[PdIndex(v)] # NULL
  BY DEF FreePage, Mapped, MInv, OwnersInv, Frame
<1>2. /\ used' = used \ {g} /\ used_blocks' = used_blocks - 1
      /\ held' = held /\ directory' = directory
      /\ word' = [word EXCEPT ![directory[PdIndex(v)]][PtIndex(v)] = NULL]
  BY <1>1 DEF FreePage, PmmFree
<1>3. /\ TablesInv' /\ Grown' = Grown
      /\ word' \in [Frames -> [Slots -> Frames \cup {NULL}]]
      /\ Frame(v)' = NULL /\ \A w \in Pages \ {v} : Frame(w)' = Frame(w)
  BY <1>1, <1>2, EntryWritten
<1>4. TypeOK' /\ CountInv'
  BY <1>1, <1>2, <1>3, ClearCounts DEF MInv, TypeOK, CountInv
<1>5. \A w \in Pages \ {v} : Frame(w) # g
  BY <1>1 DEF MInv, OwnersInv
<1>6. Mapped' = Mapped \ {g}
  BY <1>1, <1>3, <1>5 DEF Mapped
<1>7. \A w, x \in Pages : Frame(w)' = Frame(x)' => w = x \/ Frame(w)' = NULL
  BY <1>3 DEF MInv, OwnersInv
<1>8. OwnersInv'
  <2>1. g \notin Boot /\ g \notin Grown /\ g \notin held
    BY <1>1 DEF MInv, OwnersInv
  <2>2. QED
    BY <1>2, <1>3, <1>6, <1>7, <2>1 DEF MInv, OwnersInv
<1>9. QED
  BY <1>3, <1>4, <1>8 DEF MInv

(* The pages' first table, in frame t: no page was mapped before, and only  *)
(* v is now.                                                                *)
LEMMA TableMade ==
  ASSUME MInv, OneSlot, NEW v \in Pages, NEW f \in Frames,
         NEW t \in Frames, t = 0 \/ t \notin Boot,
         directory[PdIndex(v)] = NULL,
         directory' = [directory EXCEPT ![PdIndex(v)] = t],
         word' = [word EXCEPT ![t] = [Blank EXCEPT ![PtIndex(v)] = f]]
  PROVE  /\ TablesInv' /\ Grown = {} /\ Grown' = {t} \ {0}
         /\ directory' \in [Slots -> Frames \cup {NULL}]
         /\ word' \in [Frames -> [Slots -> Frames \cup {NULL}]]
         /\ Frame(v)' = f /\ \A w \in Pages \ {v} : Frame(w) = NULL /\ Frame(w)' = NULL
<1>1. /\ word \in [Frames -> [Slots -> Frames \cup {NULL}]]
      /\ directory \in [Slots -> Frames \cup {NULL}]
      /\ PdIndex(v) \in Slots /\ PtIndex(v) \in Slots /\ Tables <= PdIndex(v)
  BY PageIndices DEF MInv, TypeOK
<1>2. /\ Blank \in [Slots -> Frames \cup {NULL}]
      /\ \A i \in Slots : Blank[i] = NULL
  BY DEF Blank
<1>3. /\ directory' \in [Slots -> Frames \cup {NULL}]
      /\ word' \in [Frames -> [Slots -> Frames \cup {NULL}]]
      /\ directory'[PdIndex(v)] = t
      /\ \A s \in Slots \ {PdIndex(v)} : directory'[s] = directory[s]
      /\ word'[t] = [Blank EXCEPT ![PtIndex(v)] = f]
      /\ \A h \in Frames \ {t} : word'[h] = word[h]
  BY <1>1, <1>2
<1>4. TablesInv'
  <2>1. ASSUME NEW s \in Slots, s < Tables
        PROVE  /\ directory'[s] = Kernel + 1 + s
               /\ word'[Kernel + 1 + s] = Identity(s)
    <3>1. s # PdIndex(v)
      BY <1>1, <2>1, Numbers DEF Slots
    <3>2. Kernel + 1 + s \in Frames \ {t}
      BY <2>1, BootFrames
    <3>3. QED
      BY <1>3, <2>1, <3>1, <3>2 DEF MInv, TablesInv
  <2>2. ASSUME NEW s \in Slots, Tables <= s, directory'[s] # NULL
        PROVE  /\ \E w \in Pages : s = PdIndex(w)
               /\ directory'[s] = 0 \/ directory'[s] \notin Boot
    <3>1. CASE s = PdIndex(v)
      BY <1>3, <3>1
    <3>2. CASE s # PdIndex(v)
      BY <1>3, <2>2, <3>2 DEF MInv, TablesInv
    <3>3. QED
      BY <3>1, <3>2
  <2>3. QED
    BY <2>1, <2>2 DEF TablesInv
<1>5. \A w \in Pages : PdIndex(w) = PdIndex(v)
  BY DEF OneSlot
<1>6. Grown = {} /\ Grown' = {t} \ {0}
  <2>1. Grown = {}
    BY <1>5 DEF Grown
  <2>2. Grown' = {t} \ {NULL, 0}
    BY <1>3, <1>5 DEF Grown
  <2>3. QED
    BY <2>1, <2>2, BootFrames
<1>7. Frame(v)' = f
  <2>1. t # NULL
    BY BootFrames
  <2>2. word'[t][PtIndex(v)] = f
    BY <1>1, <1>2, <1>3
  <2>3. QED
    BY <1>3, <2>1, <2>2 DEF Frame
<1>8. ASSUME NEW w \in Pages \ {v}
      PROVE  Frame(w) = NULL /\ Frame(w)' = NULL
  <2>1. PtIndex(w) # PtIndex(v) /\ PtIndex(w) \in Slots
    BY <1>5, SamePage, PageIndices
  <2>2. word'[t][PtIndex(w)] = NULL
    BY <1>2, <1>3, <2>1
  <2>3. QED
    BY <1>3, <1>5, <2>2 DEF Frame
<1>9. QED
  BY <1>3, <1>4, <1>6, <1>7, <1>8

LEMMA MarkTwoCount ==
  ASSUME TypeOK, CountInv, NEW f \in Frames \ used, NEW t \in Frames \ (used \cup {f})
  PROVE  /\ used \cup {f} \cup {t} \subseteq Frames
         /\ used_blocks + 1 + 1 = Cardinality(used \cup {f} \cup {t})
         /\ used_blocks + 1 + 1 \in 0..Total
<1> DEFINE U == used \cup {f}
<1>1. /\ U \subseteq Frames /\ used_blocks + 1 = Cardinality(U)
      /\ IsFiniteSet(U) /\ U \cup {t} \in SUBSET Frames
  BY MarkCounts, Counting
<1>2. Cardinality(U \cup {t}) = Cardinality(U) + 1
  <2> HIDE DEF U
  <2>1. t \notin U
    BY DEF U
  <2>2. QED
    BY <1>1, <2>1, FS_AddElement
<1>3. Cardinality(U \cup {t}) \in 0..Total
  BY <1>1, Counting
<1>4. QED
  BY <1>1, <1>2, <1>3

LEMMA AllocPageInv ==
  ASSUME MInv, OneSlot, NEW v \in Pages, AllocPage(v)
  PROVE  MInv' /\ \A w \in Pages \ {v} : Frame(w)' = Frame(w)
<1> DEFINE f == FirstFree(used)
           t == FirstFree(used \cup {f})
<1>1. /\ Frame(v) = NULL /\ f # 0 /\ held' = held
      /\ directory' = [directory EXCEPT ![PdIndex(v)] = IF @ = NULL THEN t ELSE @]
      /\ word' = Entered(v, f, t)
  BY DEF AllocPage
<1>2. f \in Frames \ used
  BY <1>1, UsedContains, FirstFreeIsFree
<1>3. f \notin Boot /\ f \notin Grown /\ f \notin Mapped /\ f \notin held /\ f # NULL
  BY <1>2, Fresh, BootFrames
<1>4. /\ directory \in [Slots -> Frames \cup {NULL}] /\ PdIndex(v) \in Slots
  BY PageIndices DEF MInv, TypeOK
<1>5. CASE directory[PdIndex(v)] # NULL
  <2>1. /\ directory' = directory
        /\ word' = [word EXCEPT ![directory[PdIndex(v)]][PtIndex(v)] = f]
    BY <1>1, <1>4, <1>5 DEF Entered
  <2>2. used' = used \cup {f} /\ used_blocks' = used_blocks + 1
    <3>1. used' = used \cup {f} \cup {} /\ used_blocks' = used_blocks + 1 + Cardinality({})
      BY <1>5 DEF AllocPage
    <3>2. Cardinality({}) = 0 /\ used_blocks \in Nat
      BY FS_EmptySet, Numbers DEF MInv, TypeOK
    <3> HIDE DEF f
    <3>3. QED
      BY <3>1, <3>2
  <2>3. /\ TablesInv' /\ Grown' = Grown
        /\ word' \in [Frames -> [Slots -> Frames \cup {NULL}]]
        /\ Frame(v)' = f /\ \A w \in Pages \ {v} : Frame(w)' = Frame(w)
    BY <1>2, <1>5, <2>1, EntryWritten
  <2>4. TypeOK' /\ CountInv'
    BY <1>1, <1>2, <2>1, <2>2, <2>3, MarkCounts DEF MInv, TypeOK, CountInv
  <2>5. Mapped' = Mapped \cup {f}
    BY <1>1, <1>3, <2>3 DEF Mapped
  <2>6. \A w \in Pages : Frame(w) # f
    BY <1>3 DEF Mapped
  <2>7. \A w, x \in Pages : Frame(w)' = Frame(x)' => w = x \/ Frame(w)' = NULL
    <3>1. \A w, x \in Pages : Frame(w) = Frame(x) => w = x \/ Frame(w) = NULL
      BY DEF MInv, OwnersInv
    <3> HIDE DEF f, t
    <3>2. TAKE w, x \in Pages
    <3>3. HAVE Frame(w)' = Frame(x)'
    <3>4. CASE w = v
      BY <2>3, <2>6, <3>3, <3>4
    <3>5. CASE x = v
      BY <2>3, <2>6, <3>3, <3>5
    <3>6. CASE w # v /\ x # v
      BY <2>3, <3>1, <3>3, <3>6
    <3>7. QED
      BY <3>4, <3>5, <3>6
  <2>8. OwnersInv'
    <3>1. used = Boot \cup Grown \cup Mapped \cup held
      BY DEF MInv, OwnersInv
    <3>2. used' = Boot \cup Grown' \cup Mapped' \cup held'
      <4> HIDE DEF f, t
      <4>1. QED
        BY <1>1, <2>2, <2>3, <2>5, <3>1
    <3>3. /\ Grown \cap Boot = {} /\ Mapped \cap Boot = {} /\ held \cap Boot = {}
          /\ Grown \cap Mapped = {} /\ Grown \cap held = {}
          /\ Mapped \cap held = {}
      BY DEF MInv, OwnersInv
    <3>4. /\ Grown' \cap Boot = {} /\ Mapped' \cap Boot = {} /\ held' \cap Boot = {}
          /\ Grown' \cap Mapped' = {} /\ Grown' \cap held' = {}
          /\ Mapped' \cap held' = {}
      <4> HIDE DEF f, t
      <4>1. QED
        BY <1>1, <1>3, <2>3, <2>5, <3>3
    <3>5. QED
      BY <2>7, <3>2, <3>4 DEF OwnersInv
  <2>9. QED
    BY <2>3, <2>4, <2>8 DEF MInv
<1>6. CASE directory[PdIndex(v)] = NULL
  <2>1. /\ t \in Frames /\ (t # 0 <=> t \notin used \cup {f})
    BY UsedContains, FirstFreeIsFree
  <2>2. t = 0 \/ t \notin Boot
    BY <2>1, UsedContains
  <2>3. /\ directory' = [directory EXCEPT ![PdIndex(v)] = t]
        /\ word' = [word EXCEPT ![t] = [Blank EXCEPT ![PtIndex(v)] = f]]
    BY <1>1, <1>4, <1>6 DEF Entered
  <2>4. /\ TablesInv' /\ Grown = {} /\ Grown' = {t} \ {0}
        /\ directory' \in [Slots -> Frames \cup {NULL}]
        /\ word' \in [Frames -> [Slots -> Frames \cup {NULL}]]
        /\ Frame(v)' = f
        /\ \A w \in Pages \ {v} : Frame(w) = NULL /\ Frame(w)' = NULL
    <3> HIDE DEF f, t
    <3>1. QED
      BY <1>2, <1>6, <2>1, <2>2, <2>3, TableMade
  <2>5. Mapped = {} /\ Mapped' = {f}
    BY <1>1, <1>3, <2>4 DEF Mapped
  <2>6. \A w, x \in Pages : Frame(w)' = Frame(x)' => w = x \/ Frame(w)' = NULL
    BY <2>4
  <2>7. /\ used' = used \cup {f} \cup ({t} \ {0})
        /\ used' \subseteq Frames /\ used_blocks' = Cardinality(used')
        /\ used_blocks' \in 0..Total
    <3>1. CASE t = 0
      <4>1. used' = used \cup {f} /\ used_blocks' = used_blocks + 1
        BY <1>6, <3>1, FS_EmptySet DEF AllocPage, Grabbed, MInv, TypeOK
      <4>2. QED
        BY <1>2, <3>1, <4>1, MarkCounts DEF MInv
    <3>2. CASE t # 0
      <4>1. /\ used' = used \cup {f} \cup {t}
            /\ used_blocks' = used_blocks + 1 + Cardinality({t})
        BY <1>6, <3>2 DEF AllocPage, Grabbed
      <4>2. Cardinality({t}) = 1
        BY FS_Singleton
      <4>3. t \in Frames \ (used \cup {f})
        BY <2>1, <3>2
      <4>4. QED
        <5> HIDE DEF f, t
        <5>1. QED
          BY <1>2, <3>2, <4>1, <4>2, <4>3, MarkTwoCount DEF MInv
    <3>3. QED
      BY <3>1, <3>2
  <2>8. TypeOK' /\ CountInv'
    BY <1>1, <2>4, <2>7 DEF MInv, TypeOK, CountInv
  <2>9. OwnersInv'
    <3>1. t # 0 => t \notin Boot /\ t \notin held /\ t # f
      BY <2>1, <2>2 DEF MInv, OwnersInv
    <3> HIDE DEF f, t
    <3>2. QED
      BY <1>1, <1>3, <2>4, <2>5, <2>6, <2>7, <3>1 DEF MInv, OwnersInv
  <2>10. QED
    BY <2>4, <2>8, <2>9 DEF MInv
<1>7. QED
  BY <1>5, <1>6

LEMMA NextInv ==
  ASSUME OneSlot, MInv, [Next]_vars
  PROVE  /\ MInv'
         /\ \A v, w \in Pages :
              Frame(v)' # Frame(v) /\ Frame(w)' # Frame(w) => v = w
<1>1. CASE AllocBlock
  BY <1>1, AllocBlockInv
<1>2. ASSUME NEW f \in Frames, FreeBlock(f)
      PROVE  MInv' /\ \A v \in Pages : Frame(v)' = Frame(v)
  BY <1>2, FreeBlockInv
<1>3. ASSUME NEW v \in Pages, AllocPage(v) \/ FreePage(v)
      PROVE  MInv' /\ \A w \in Pages \ {v} : Frame(w)' = Frame(w)
  BY <1>3, AllocPageInv, FreePageInv
<1>4. CASE UNCHANGED vars
  <2>1. /\ used' = used /\ used_blocks' = used_blocks /\ held' = held
        /\ directory' = directory /\ word' = word
    BY <1>4 DEF vars
  <2>2. /\ TablesInv' /\ Grown' = Grown /\ Mapped' = Mapped
        /\ \A v \in Pages : Frame(v)' = Frame(v)
    BY <2>1, SameTables
  <2>3. TypeOK' /\ CountInv'
    BY <2>1 DEF MInv, TypeOK, CountInv
  <2>4. OwnersInv'
    BY <2>1, <2>2 DEF MInv, OwnersInv
  <2>5. QED
    BY <2>2, <2>3, <2>4 DEF MInv
<1>5. CASE \E v \in Pages : AllocPage(v) \/ FreePage(v)
  BY <1>3, <1>5
<1>6. CASE \E f \in Frames : FreeBlock(f)
  BY <1>2, <1>6
<1>7. QED
  BY <1>1, <1>4, <1>5, <1>6 DEF Next

-----------------------------------------------------------------------------
(* Whatever bits are set, pmm_alloc_block returns 0 or a frame whose bit is *)
(* not.                                                                     *)
LEMMA FirstFreeAny ==
  ASSUME NEW bits
  PROVE  /\ FirstFree(bits) \in Frames
         /\ FirstFree(bits) # 0 => FirstFree(bits) \notin bits
<1>1. CASE Frames \subseteq bits
  BY <1>1, Numbers DEF FirstFree, Frames
<1>2. CASE ~(Frames \subseteq bits)
  <2>1. Frames \ bits \in SUBSET Nat /\ Frames \ bits # {}
    BY <1>2, Numbers DEF Frames
  <2>2. \E f \in Frames \ bits : \A g \in Frames \ bits : f <= g
    BY <2>1, LeastElement
  <2>3. FirstFree(bits) \in Frames \ bits
    BY <1>2, <2>2 DEF FirstFree
  <2>4. QED
    BY <2>3
<1>3. QED
  BY <1>1, <1>2

(* pmm_free_block of a frame that is not marked changes nothing.            *)
LEMMA FreeTypes ==
  ASSUME TypeOK, CountInv, NEW f \in Frames, PmmFree(f)
  PROVE  used' \subseteq Frames /\ used_blocks' \in 0..Total /\ CountInv'
<1>1. CASE f \in used
  <2>1. used' = used \ {f} /\ used_blocks' = used_blocks - 1
    BY <1>1 DEF PmmFree
  <2>2. QED
    BY <1>1, <2>1, ClearCounts DEF CountInv
<1>2. CASE f \notin used
  BY <1>2 DEF PmmFree, TypeOK, CountInv
<1>3. QED
  BY <1>1, <1>2

LEMMA AllocPageTypes ==
  ASSUME TypeOK, CountInv, NEW v \in Pages, AllocPage(v)
  PROVE  (TypeOK /\ CountInv)'
<1>1. PICK f \in Frames \ used, t \in Frames, grown \in SUBSET Frames :
        /\ t # 0 => t \notin used \cup {f}
        /\ grown = IF directory[PdIndex(v)] = NULL THEN Grabbed(t) ELSE {}
        /\ used' = used \cup {f} \cup grown
        /\ used_blocks' = used_blocks + 1 + Cardinality(grown)
        /\ directory' = [directory EXCEPT ![PdIndex(v)] =
                           IF directory[PdIndex(v)] = NULL THEN t
                           ELSE directory[PdIndex(v)]]
        /\ word' = Entered(v, f, t) /\ held' = held
  <2> DEFINE f == FirstFree(used)
             t == FirstFree(used \cup {f})
             grown == IF directory[PdIndex(v)] = NULL THEN Grabbed(t) ELSE {}
  <2>1. f # 0 /\ held' = held
        /\ used' = used \cup {f} \cup grown
        /\ used_blocks' = used_blocks + 1 + Cardinality(grown)
        /\ directory' = [directory EXCEPT ![PdIndex(v)] = IF @ = NULL THEN t ELSE @]
        /\ word' = Entered(v, f, t)
    BY DEF AllocPage
  <2>2. f \in Frames \ used
    BY <2>1, FirstFreeAny
  <2>3. t \in Frames /\ (t # 0 => t \notin used \cup {f})
    BY FirstFreeAny
  <2>4. [directory EXCEPT ![PdIndex(v)] = IF @ = NULL THEN t ELSE @]
          = [directory EXCEPT ![PdIndex(v)] = IF directory[PdIndex(v)] = NULL THEN t
                                              ELSE directory[PdIndex(v)]]
    BY PageIndices DEF TypeOK
  <2>5. grown \in SUBSET Frames
    BY <2>3 DEF Grabbed
  <2>6. grown = IF directory[PdIndex(v)] = NULL THEN Grabbed(t) ELSE {}
    OBVIOUS
  <2> HIDE DEF f, t, grown
  <2>7. QED
    BY <2>1, <2>2, <2>3, <2>4, <2>5, <2>6
<1>2. PdIndex(v) \in Slots /\ PtIndex(v) \in Slots
  BY PageIndices
<1>3. directory' \in [Slots -> Frames \cup {NULL}]
  BY <1>1, <1>2 DEF TypeOK
<1>4. word' \in [Frames -> [Slots -> Frames \cup {NULL}]]
  <2>1. [Blank EXCEPT ![PtIndex(v)] = f] \in [Slots -> Frames \cup {NULL}]
    BY <1>2 DEF Blank
  <2>2. CASE directory[PdIndex(v)] = NULL
    BY <1>1, <2>1, <2>2 DEF Entered, TypeOK
  <2>3. CASE directory[PdIndex(v)] # NULL
    <3>1. directory[PdIndex(v)] \in Frames
      BY <1>2, <2>3 DEF TypeOK
    <3>2. QED
      BY <1>1, <1>2, <2>3, <3>1 DEF Entered, TypeOK
  <2>4. QED
    BY <2>2, <2>3
<1>5. used' \subseteq Frames /\ used_blocks' \in 0..Total /\ CountInv'
  <2>1. CASE grown = {}
    <3>1. Cardinality(grown) = 0 /\ used_blocks \in Nat
      BY <2>1, FS_EmptySet, Numbers DEF TypeOK
    <3>2. used' = used \cup {f} /\ used_blocks' = used_blocks + 1
      BY <1>1, <2>1, <3>1
    <3>3. QED
      BY <1>1, <3>2, MarkCounts DEF CountInv
  <2>2. CASE grown # {}
    <3>1. grown = {t} /\ t \notin used \cup {f}
      BY <1>1, <2>2 DEF Grabbed
    <3>2. used' = used \cup {f} \cup {t} /\ used_blocks' = used_blocks + 1 + 1
      BY <1>1, <3>1, FS_Singleton
    <3>3. QED
      BY <1>1, <3>1, <3>2, MarkTwoCount DEF CountInv
  <2>3. QED
    BY <2>1, <2>2
<1>6. QED
  BY <1>1, <1>3, <1>4, <1>5 DEF TypeOK

LEMMA NextTypes ==
  ASSUME TypeOK, CountInv, [Next]_vars
  PROVE  (TypeOK /\ CountInv)'
<1>1. CASE UNCHANGED vars
  BY <1>1 DEF vars, TypeOK, CountInv
<1>2. CASE AllocBlock
  <2>1. PICK f : /\ f = FirstFree(used) /\ f # 0
                 /\ used' = used \cup {f} /\ used_blocks' = used_blocks + 1
                 /\ held' = held \cup {f}
                 /\ directory' = directory /\ word' = word
    BY <1>2 DEF AllocBlock
  <2>2. f \in Frames \ used
    BY <2>1, FirstFreeAny
  <2>3. QED
    BY <2>1, <2>2, MarkCounts DEF TypeOK, CountInv
<1>3. ASSUME NEW f \in Frames, FreeBlock(f)
      PROVE  (TypeOK /\ CountInv)'
  BY <1>3, FreeTypes DEF FreeBlock, TypeOK
<1>4. ASSUME NEW v \in Pages, FreePage(v)
      PROVE  (TypeOK /\ CountInv)'
  <2>1. Frame(v) \in Frames
    BY <1>4, FrameType DEF FreePage
  <2>2. PmmFree(Frame(v)) /\ directory' = directory /\ held' = held
    BY <1>4 DEF FreePage
  <2>3. word' \in [Frames -> [Slots -> Frames \cup {NULL}]]
    <3>1. directory[PdIndex(v)] \in Frames /\ PtIndex(v) \in Slots
      BY <1>4, PageIndices DEF FreePage, Frame, TypeOK
    <3>2. QED
      BY <1>4, <3>1 DEF FreePage, TypeOK
  <2>4. QED
    BY <2>1, <2>2, <2>3, FreeTypes DEF TypeOK
<1>5. QED
  BY <1>1, <1>2, <1>3, <1>4, AllocPageTypes DEF Next

(* Directory, tables and bitmap name frames that exist, and the count stays *)
(* between nothing and everything, with pages of any number of tables and   *)
(* memory used up or not.                                                   *)
THEOREM TypeCorrect == Spec => []TypeOK
<1>1. Init => TypeOK /\ CountInv
  BY InitInv DEF MInv
<1>2. TypeOK /\ CountInv /\ [Next]_vars => (TypeOK /\ CountInv)'
  BY NextTypes
<1>3. QED
  BY <1>1, <1>2, PTL DEF Spec

-----------------------------------------------------------------------------
(* What keeps the identity map, with pages of any number of tables and      *)
(* memory used up or not: its tables are where they were put and as they    *)
(* were made, the pages' tables are other frames, and the kernel's frames   *)
(* are marked, nobody's to free and in no entry of a page.                  *)
IdentityInv ==
  /\ \A s \in Slots : s < Tables => /\ directory[s] = Kernel + 1 + s
                                    /\ word[Kernel + 1 + s] = Identity(s)
  /\ \A s \in Slots : Tables <= s /\ directory[s] # NULL =>
       /\ directory[s] \notin Boot \ {0}
       /\ \A i \in Slots : word[directory[s]][i] \notin Boot
  /\ Boot \subseteq used /\ held \cap Boot = {}

\* An entry of a page's table is written: no other kind of frame changes.
LEMMA IdentityTables ==
  ASSUME TypeOK, IdentityInv, NEW v \in Pages, NEW t \in Frames, t \notin Boot \ {0},
         NEW row \in [Slots -> Frames \cup {NULL}],
         directory[PdIndex(v)] # NULL => t = directory[PdIndex(v)],
         \A i \in Slots : row[i] \notin Boot,
         directory' = [directory EXCEPT ![PdIndex(v)] = t],
         word' = [word EXCEPT ![t] = row],
         Boot \subseteq used', held' \cap Boot = {}
  PROVE  IdentityInv'
<1>1. /\ PdIndex(v) \in Slots /\ Tables <= PdIndex(v)
      /\ directory \in [Slots -> Frames \cup {NULL}]
      /\ word \in [Frames -> [Slots -> Frames \cup {NULL}]]
  BY PageIndices DEF TypeOK
<1>2. /\ \A s \in Slots : directory'[s] = IF s = PdIndex(v) THEN t ELSE directory[s]
      /\ \A f \in Frames : word'[f] = IF f = t THEN row ELSE word[f]
  BY <1>1
<1>3. ASSUME NEW s \in Slots, s < Tables
      PROVE  directory'[s] = Kernel + 1 + s /\ word'[Kernel + 1 + s] = Identity(s)
  <2>1. s # PdIndex(v)
    BY <1>1, <1>3, Numbers DEF Slots
  <2>2. Kernel + 1 + s \in Boot \ {0} /\ Kernel + 1 + s \in Frames
    BY <1>3, BootFrames
  <2>3. Kernel + 1 + s # t
    BY <2>2
  <2>4. QED
    BY <1>2, <1>3, <2>1, <2>2, <2>3 DEF IdentityInv
<1>4. ASSUME NEW s \in Slots, Tables <= s, directory'[s] # NULL
      PROVE  /\ directory'[s] \notin Boot \ {0}
             /\ \A i \in Slots : word'[directory'[s]][i] \notin Boot
  <2>1. CASE directory'[s] = t
    BY <1>2, <2>1
  <2>2. CASE directory'[s] # t
    <3>1. directory'[s] = directory[s] /\ directory[s] \in Frames
      BY <1>1, <1>2, <1>4, <2>2
    <3>2. word'[directory[s]] = word[directory[s]]
      BY <1>2, <2>2, <3>1
    <3>3. QED
      BY <1>4, <3>1, <3>2 DEF IdentityInv
  <2>3. QED
    BY <2>1, <2>2
<1>5. QED
  BY <1>3, <1>4 DEF IdentityInv

LEMMA IdentityAllocPage ==
  ASSUME TypeOK, IdentityInv, NEW v \in Pages, AllocPage(v)
  PROVE  IdentityInv'
<1> DEFINE f == FirstFree(used)
           g == FirstFree(used \cup {f})
           d == directory[PdIndex(v)]
           t == IF d = NULL THEN g ELSE d
           row == [IF d = NULL THEN Blank ELSE word[d] EXCEPT ![PtIndex(v)] = f]
<1>1. /\ f # 0 /\ held' = held /\ used \subseteq used'
      /\ directory' = [directory EXCEPT ![PdIndex(v)] = IF @ = NULL THEN g ELSE @]
      /\ word' = Entered(v, f, g)
  BY DEF AllocPage
<1>2. /\ PdIndex(v) \in Slots /\ PtIndex(v) \in Slots /\ Tables <= PdIndex(v)
      /\ directory \in [Slots -> Frames \cup {NULL}]
      /\ word \in [Frames -> [Slots -> Frames \cup {NULL}]]
  BY PageIndices DEF TypeOK
<1>3. f \in Frames /\ f \notin Boot
  BY <1>1, FirstFreeAny DEF IdentityInv
<1>4. g \in Frames /\ g \notin Boot \ {0}
  BY FirstFreeAny DEF IdentityInv
<1>5. t \in Frames /\ t \notin Boot \ {0} /\ (d # NULL => t = d)
  BY <1>2, <1>4 DEF IdentityInv
<1>6. directory' = [directory EXCEPT ![PdIndex(v)] = t]
  BY <1>1, <1>2
<1>7. Boot \subseteq used' /\ held' \cap Boot = {}
  BY <1>1 DEF IdentityInv
<1>8. CASE d = NULL
  <2>1. Blank \in [Slots -> Frames \cup {NULL}] /\ \A i \in Slots : Blank[i] \notin Boot
    BY BootFrames DEF Blank
  <2>2. /\ row \in [Slots -> Frames \cup {NULL}] /\ \A i \in Slots : row[i] \notin Boot
    <3> HIDE DEF f
    <3>1. QED
      BY <1>2, <1>3, <1>8, <2>1
  <2>3. word' = [word EXCEPT ![t] = row]
    BY <1>1, <1>8 DEF Entered
  <2> HIDE DEF t, row
  <2>4. QED
    BY <1>5, <1>6, <1>7, <2>2, <2>3, IdentityTables
<1>9. CASE d # NULL
  <2>1. word[d] \in [Slots -> Frames \cup {NULL}] /\ \A i \in Slots : word[d][i] \notin Boot
    BY <1>2, <1>9 DEF IdentityInv
  <2>2. /\ row \in [Slots -> Frames \cup {NULL}] /\ \A i \in Slots : row[i] \notin Boot
    <3> HIDE DEF f
    <3>1. QED
      BY <1>2, <1>3, <1>9, <2>1
  <2>3. word' = [word EXCEPT ![t] = row]
    BY <1>1, <1>2, <1>9 DEF Entered
  <2> HIDE DEF t, row
  <2>4. QED
    BY <1>5, <1>6, <1>7, <2>2, <2>3, IdentityTables
<1>10. QED
  BY <1>8, <1>9

LEMMA IdentityFreePage ==
  ASSUME TypeOK, IdentityInv, NEW v \in Pages, FreePage(v)
  PROVE  IdentityInv'
<1> DEFINE d == directory[PdIndex(v)]
           row == [word[d] EXCEPT ![PtIndex(v)] = NULL]
<1>1. /\ PdIndex(v) \in Slots /\ PtIndex(v) \in Slots /\ Tables <= PdIndex(v)
      /\ directory \in [Slots -> Frames \cup {NULL}]
      /\ word \in [Frames -> [Slots -> Frames \cup {NULL}]]
  BY PageIndices DEF TypeOK
<1>2. /\ d \in Frames /\ d # NULL /\ Frame(v) = word[d][PtIndex(v)]
      /\ PmmFree(Frame(v)) /\ held' = held /\ directory' = directory
      /\ word' = [word EXCEPT ![d] = row]
  BY <1>1 DEF FreePage, Frame
<1>3. d \notin Boot \ {0} /\ \A i \in Slots : word[d][i] \notin Boot
  BY <1>1, <1>2 DEF IdentityInv
<1>4. /\ row \in [Slots -> Frames \cup {NULL}] /\ \A i \in Slots : row[i] \notin Boot
  BY <1>1, <1>2, <1>3, BootFrames
<1>5. Boot \subseteq used'
  BY <1>1, <1>2, <1>3 DEF PmmFree, IdentityInv
<1>6. directory' = [directory EXCEPT ![PdIndex(v)] = d]
  BY <1>1, <1>2
<1>7. held' \cap Boot = {}
  BY <1>2 DEF IdentityInv
<1> HIDE DEF row
<1>8. QED
  BY <1>2, <1>3, <1>4, <1>5, <1>6, <1>7, IdentityTables

LEMMA IdentityNext ==
  ASSUME TypeOK, IdentityInv, [Next]_vars
  PROVE  IdentityInv'
<1>1. CASE UNCHANGED vars
  BY <1>1 DEF vars, IdentityInv
<1>2. CASE AllocBlock
  <2>1. PICK f : /\ f = FirstFree(used) /\ f # 0
                 /\ used' = used \cup {f} /\ held' = held \cup {f}
                 /\ directory' = directory /\ word' = word
    BY <1>2 DEF AllocBlock
  <2>2. f \notin Boot
    BY <2>1, FirstFreeAny DEF IdentityInv
  <2>3. QED
    BY <2>1, <2>2 DEF IdentityInv
<1>3. ASSUME NEW f \in Frames, FreeBlock(f)
      PROVE  IdentityInv'
  <2>1. /\ f \notin Boot /\ used \ {f} \subseteq used' /\ held' = held \ {f}
        /\ directory' = directory /\ word' = word
    BY <1>3 DEF FreeBlock, PmmFree, IdentityInv
  <2>2. QED
    BY <2>1 DEF IdentityInv
<1>4. QED
  BY <1>1, <1>2, <1>3, IdentityAllocPage, IdentityFreePage DEF Next

(* The identity map of physical memory survives every call, with pages of   *)
(* any number of tables: even the table that vmm_map_page builds in frame 0 *)
(* when memory has run out, and that two slots then share, harms only pages.*)
THEOREM IdentityKept == Spec => []IdentityMapped
<1>1. TypeOK /\ IdentityInv => IdentityMapped
  <2> SUFFICES ASSUME TypeOK, IdentityInv, NEW f \in Frames
               PROVE  Frame(f) = f
    BY DEF IdentityMapped
  <2>1. /\ PdIndex(f) \in Slots /\ PtIndex(f) \in Slots /\ PdIndex(f) < Tables
        /\ f = PdIndex(f) * Entries + PtIndex(f)
    BY FrameIndices
  <2>2. /\ directory[PdIndex(f)] = Kernel + 1 + PdIndex(f)
        /\ word[Kernel + 1 + PdIndex(f)] = Identity(PdIndex(f))
    BY <2>1 DEF IdentityInv
  <2>3. directory[PdIndex(f)] # NULL
    BY <2>1, <2>2, BootFrames
  <2>4. f < Total
    BY Numbers DEF Frames
  <2>5. Identity(PdIndex(f))[PtIndex(f)] = f
    <3>1. Identity(PdIndex(f))[PtIndex(f)] =
            IF PdIndex(f) * Entries + PtIndex(f) < Total
            THEN PdIndex(f) * Entries + PtIndex(f) ELSE NULL
      BY <2>1 DEF Identity
    <3>2. QED
      BY <2>1, <2>4, <3>1
  <2>6. QED
    BY <2>2, <2>3, <2>5 DEF Frame
<1>2. Init => IdentityInv
  <2> SUFFICES ASSUME Init PROVE IdentityInv
    OBVIOUS
  <2>1. MInv
    BY InitInv
  <2>2. \A s \in Slots : Tables <= s => directory[s] = NULL
    BY Numbers DEF Init, Slots
  <2>3. QED
    BY <2>1, <2>2 DEF MInv, TablesInv, OwnersInv, IdentityInv
<1>3. TypeOK /\ IdentityInv /\ [Next]_vars => IdentityInv'
  BY IdentityNext
<1>4. QED
  BY <1>1, <1>2, <1>3, TypeCorrect, PTL DEF Spec

-----------------------------------------------------------------------------
THEOREM MemoryInvariance ==
  ASSUME OneSlot
  PROVE  Spec => []MInv
<1>1. Init => MInv
  BY InitInv
<1>2. MInv /\ [Next]_vars => MInv'
  BY NextInv
<1>3. QED
  BY <1>1, <1>2, PTL DEF Spec

(* Each frame marked used has one owner, none is leaked or given out twice, *)
(* and pmm_used_blocks counts them, through exhaustion and a page table in  *)
(* frame 0, for any amount of memory.                                       *)
THEOREM FramesAccounted ==
  ASSUME OneSlot
  PROVE  Spec => []Accounted
<1>1. MInv => Accounted
  <2> SUFFICES ASSUME MInv PROVE Accounted
    OBVIOUS
  <2> DEFINE low == 0..Kernel
             tabs == TableFrames \ {0}
  <2>1. /\ tabs \subseteq ((Kernel + 1)..(Kernel + Tables)) \cup Grown
        /\ Grown \subseteq tabs
    <3>1. ASSUME NEW s \in Slots, directory[s] \notin {NULL, 0}
          PROVE  directory[s] \in ((Kernel + 1)..(Kernel + Tables)) \cup Grown
      <4>1. CASE s < Tables
        BY <4>1, Numbers DEF MInv, TablesInv, Slots
      <4>2. CASE Tables <= s
        BY <3>1, <4>2 DEF MInv, TablesInv, Grown
      <4>3. QED
        BY <4>1, <4>2, Numbers DEF Slots
    <3>2. QED
      BY <3>1, PageIndices DEF TableFrames, Grown
  <2>2. (Kernel + 1)..(Kernel + Tables) \subseteq tabs
    <3>1. ASSUME NEW f \in (Kernel + 1)..(Kernel + Tables)
          PROVE  f \in tabs
      <4>1. /\ f - Kernel - 1 \in Slots /\ f - Kernel - 1 < Tables
            /\ Kernel + 1 + (f - Kernel - 1) = f /\ f # 0 /\ f \in Frames
        BY Numbers DEF Slots, Frames
      <4>2. f = directory[f - Kernel - 1]
        BY <4>1 DEF MInv, TablesInv
      <4>3. QED
        BY <4>1, <4>2, BootFrames DEF TableFrames
    <3>2. QED
      BY <3>1
  <2>3. /\ Boot = low \cup ((Kernel + 1)..(Kernel + Tables))
        /\ low \cap ((Kernel + 1)..(Kernel + Tables)) = {}
    BY Numbers DEF Boot
  <2>4. used = low \cup tabs \cup Mapped \cup held
    BY <2>1, <2>2, <2>3 DEF MInv, OwnersInv
  <2>5. /\ low \cap tabs = {} /\ low \cap Mapped = {} /\ low \cap held = {}
        /\ tabs \cap Mapped = {} /\ tabs \cap held = {} /\ Mapped \cap held = {}
    BY <2>1, <2>3 DEF MInv, OwnersInv
  <2>6. /\ \A v, w \in Pages : Frame(v) = Frame(w) => v = w \/ Frame(v) = NULL
        /\ used_blocks = Cardinality(used)
    BY DEF MInv, OwnersInv, CountInv
  <2>7. UNION {low, tabs, Mapped, held} = low \cup tabs \cup Mapped \cup held
    OBVIOUS
  <2>8. \A a, b \in {low, tabs, Mapped, held} : a # b => a \cap b = {}
    <3> HIDE DEF low, tabs
    <3>1. QED
      BY <2>5
  <2>9. QED
    BY <2>4, <2>6, <2>7, <2>8 DEF Accounted
<1>2. QED
  BY <1>1, MemoryInvariance, PTL

(* No call changes the translation of a page it was not asked about.        *)
THEOREM PagesIndependent ==
  ASSUME OneSlot
  PROVE  Spec => OneAtATime
<1>1. MInv /\ [Next]_vars =>
        [\A v, w \in Pages :
           Frame(v)' # Frame(v) /\ Frame(w)' # Frame(w) => v = w]_vars
  BY NextInv
<1>2. QED
  BY <1>1, MemoryInvariance, PTL DEF Spec, OneAtATime
=============================================================================
