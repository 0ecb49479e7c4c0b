------------------------------- MODULE Memory -------------------------------
(****************************************************************************)
(* Physical and virtual memory, src/kernel/core/pmm.c and vmm.c: the bitmap *)
(* of frames with its count, and the page directory and page tables that    *)
(* live in frames of their own and are reached through the identity map.    *)
(*                                                                          *)
(* Frames and pages are numbered (address / 4096).  Of a table's entry only *)
(* the frame is kept, NULL standing for an entry that is not present.       *)
(* Everything runs before kmain enables interrupts, one call at a time.     *)
(*                                                                          *)
(* Callers ask for a page they do not have, and free a frame they have.     *)
(****************************************************************************)
EXTENDS Naturals, FiniteSets

CONSTANTS
  Total,    \* pmm_total_blocks
  Kernel,   \* the frames below 1 MB, or below the bitmap's end if that is higher
  Entries,  \* entries of a page table, and of the directory: 1024
  Pages,    \* the pages callers map, beyond the identity map
  NULL

Frames == 0..(Total - 1)
Slots == 0..(Entries - 1)

\* (total_blocks + 1023) / 1024
Tables == (Total + Entries - 1) \div Entries

PdIndex(v) == v \div Entries
PtIndex(v) == v % Entries

ASSUME MemoryAssumption ==
  /\ Total \in Nat /\ Kernel \in Nat \ {0} /\ Entries \in Nat \ {0}
  /\ Kernel + 1 + Tables <= Total /\ Tables <= Entries
  /\ Pages \subseteq (Tables * Entries)..(Entries * Entries - 1)
  /\ NULL \notin Frames

VARIABLES
  used,         \* the frames whose bit is set in pmm_bitmap
  used_blocks,  \* pmm_used_blocks
  directory,    \* page_directory: the frame of each table that is present
  word,         \* what each frame holds, read as a page table
  held          \* frames handed out by pmm_alloc_block to its other callers

vars == <<used, used_blocks, directory, word, held>>

TypeOK ==
  /\ used \subseteq Frames
  /\ used_blocks \in 0..Total
  /\ directory \in [Slots -> Frames \cup {NULL}]
  /\ word \in [Frames -> [Slots -> Frames \cup {NULL}]]
  /\ held \subseteq Frames

-----------------------------------------------------------------------------
Blank == [i \in Slots |-> NULL]

\* The table of the identity map that translates Entries pages from the n-th on.
Identity(n) == [i \in Slots |-> IF n * Entries + i < Total
                                THEN n * Entries + i ELSE NULL]

(* pmm_init and vmm_init: the first frames after the kernel become the      *)
(* directory and the tables of the identity map.  The other frames hold     *)
(* whatever was there before.                                               *)
Init ==
  /\ used = 0..(Kernel + Tables)
  /\ used_blocks = Kernel + 1 + Tables
  /\ directory = [s \in Slots |-> IF s < Tables THEN Kernel + 1 + s ELSE NULL]
  /\ \E junk \in Frames \cup {NULL} :
       word = [f \in Frames |->
                 IF f \in (Kernel + 1)..(Kernel + Tables)
                 THEN Identity(f - Kernel - 1)
                 ELSE [i \in Slots |-> junk]]
  /\ held = {}

\* A mutant of FirstFree: the bits after the last frame count as free.
FirstFreePast(bits) ==
  CHOOSE f \in 0..Total \ bits : \A g \in 0..Total \ bits : f <= g

(* pmm_alloc_block returns the first free frame, or NULL, which is also the *)
(* address of frame 0.                                                      *)
FirstFree(bits) ==
  IF Frames \subseteq bits THEN 0
  ELSE CHOOSE f \in Frames \ bits : \A g \in Frames \ bits : f <= g

Grabbed(f) == IF f = 0 THEN {} ELSE {f}

AllocBlock ==
  LET f == FirstFree(used)
  IN  /\ f # 0
      /\ used' = used \cup {f}
      /\ used_blocks' = used_blocks + 1
      /\ held' = held \cup {f}
      /\ UNCHANGED <<directory, word>>

\* pmm_free_block
PmmFree(f) ==
  IF f \in used
  THEN used' = used \ {f} /\ used_blocks' = used_blocks - 1
  ELSE UNCHANGED <<used, used_blocks>>

FreeBlock(f) ==
  /\ f \in held
  /\ PmmFree(f)
  /\ held' = held \ {f}
  /\ UNCHANGED <<directory, word>>

-----------------------------------------------------------------------------
\* Mutants of Entered: a new table is not cleared; the indices are swapped.
EnteredUncleared(v, f, t) ==
  [word EXCEPT ![IF directory[PdIndex(v)] # NULL THEN directory[PdIndex(v)]
                 ELSE t][PtIndex(v)] = f]

EnteredSwapped(v, f, t) ==
  IF directory[PdIndex(v)] # NULL
  THEN [word EXCEPT ![directory[PtIndex(v)]][PdIndex(v)] = f]
  ELSE [word EXCEPT ![t] = [Blank EXCEPT ![PtIndex(v)] = f]]

(* vmm_map_page: the entry of page v in the table of its slot.  A slot with *)
(* no table gets one, the frame t, which is cleared first.                  *)
Entered(v, f, t) ==
  IF directory[PdIndex(v)] # NULL
  THEN [word EXCEPT ![directory[PdIndex(v)]][PtIndex(v)] = f]
  ELSE [word EXCEPT ![t] = [Blank EXCEPT ![PtIndex(v)] = f]]

Frame(v) ==
  IF directory[PdIndex(v)] = NULL THEN NULL
  ELSE word[directory[PdIndex(v)]][PtIndex(v)]

(* vmm_alloc_page takes a frame and maps it; with no frame left it does     *)
(* nothing.  With one frame left and no table, the table is "allocated" at  *)
(* NULL, that is in frame 0.                                                *)
AllocPage(v) ==
  LET f == FirstFree(used)
      t == FirstFree(used \cup {f})
      grown == IF directory[PdIndex(v)] = NULL THEN Grabbed(t) ELSE {}
  IN  /\ Frame(v) = NULL
      /\ f # 0
      /\ used' = used \cup {f} \cup grown
      /\ used_blocks' = used_blocks + 1 + Cardinality(grown)
      /\ directory' = [directory EXCEPT ![PdIndex(v)] = IF @ = NULL THEN t ELSE @]
      /\ word' = Entered(v, f, t)
      /\ UNCHANGED held

\* A mutant of FreePage: the entry stays.
FreePageKeeping(v) ==
  /\ Frame(v) # NULL
  /\ PmmFree(Frame(v))
  /\ UNCHANGED <<directory, word, held>>

\* vmm_free_page; a page that is not mapped is left alone.
FreePage(v) ==
  /\ Frame(v) # NULL
  /\ PmmFree(Frame(v))
  /\ word' = [word EXCEPT ![directory[PdIndex(v)]][PtIndex(v)] = NULL]
  /\ UNCHANGED <<directory, held>>

Next ==
  \/ AllocBlock
  \/ \E f \in Frames : FreeBlock(f)
  \/ \E v \in Pages : AllocPage(v) \/ FreePage(v)

Spec == Init /\ [][Next]_vars

-----------------------------------------------------------------------------
TableFrames == {directory[s] : s \in Slots} \ {NULL}
Mapped == {Frame(v) : v \in Pages} \ {NULL}

(* Every frame marked used has exactly one owner, the kernel, the directory *)
(* and its tables, a caller of pmm_alloc_block or one page, so that none is *)
(* leaked or given out twice, and pmm_used_blocks counts them.  Frame 0 is  *)
(* the kernel's even when vmm_map_page keeps a table there.                 *)
Accounted ==
  LET owners == {0..Kernel, TableFrames \ {0}, Mapped, held}
  IN  /\ used = UNION owners
      /\ \A a, b \in owners : a # b => a \cap b = {}
      /\ \A v, w \in Pages : Frame(v) = Frame(w) => v = w \/ Frame(v) = NULL
      /\ used_blocks = Cardinality(used)

(* The kernel reaches all of physical memory, its page tables included,     *)
(* under its own address, whatever is mapped and freed elsewhere (vmm_init  *)
(* 30-47).                                                                  *)
IdentityMapped == \A f \in Frames : Frame(f) = f

(* A call of vmm_alloc_page or vmm_free_page changes the translation of one *)
(* page: a new table starts out with no page in it (81-85).                 *)
OneAtATime ==
  [][\A v, w \in Pages : Frame(v)' # Frame(v) /\ Frame(w)' # Frame(w) => v = w]_vars
=============================================================================
