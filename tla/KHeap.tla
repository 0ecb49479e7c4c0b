------------------------------- MODULE KHeap -------------------------------
(****************************************************************************)
(* The kernel heap, src/kernel/core/kheap.c: a list of blocks, each behind  *)
(* a 16-byte header, that kmalloc searches first fit and splits and kfree   *)
(* merges with both neighbours.                                             *)
(*                                                                          *)
(* The heap has no lock and masks no interrupt, so a caller may be          *)
(* preempted anywhere; each step is one access to a header that others may  *)
(* be looking at, with the private work around it.  With one caller the     *)
(* steps of a call simply follow each other.                                *)
(*                                                                          *)
(* Addresses are offsets from 0xD0000000.  kfree(NULL) does nothing and is  *)
(* left out; callers free only what kmalloc gave them, and free it once.    *)
(****************************************************************************)
EXTENDS Integers, FiniteSets

CONSTANTS
  Callers,    \* the contexts that call kmalloc and kfree
  Sizes,      \* the sizes they ask for
  HeapBytes,  \* KHEAP_INITIAL_PAGES * PAGE_SIZE
  Word,       \* size_t counts modulo Word
  NULL

Header == 16  \* sizeof(kheap_block_t)
Least == 4    \* the least data a split leaves in the new block

ASSUME HeapAssumption ==
  /\ HeapBytes \in Nat /\ HeapBytes % 4 = 0 /\ HeapBytes > Header + Least
  /\ Word \in Nat /\ Word % 4 = 0 /\ Word > HeapBytes + Header + Least
  /\ Sizes \subseteq 0..(Word - 1)
  /\ NULL \notin Nat

VARIABLES
  next, size, free, magic,  \* the fields of the header at each address
  given,   \* the size asked for of the block in use at each address, else 0
  answer,  \* the last kmalloc of each caller: what it asked and got
  pc,      \* where each caller is
  arg,     \* the size kmalloc looks for, or the block kfree frees
  want,    \* the size the caller of kmalloc asked for
  curr     \* the local variable curr

headers == <<next, size, free, magic>>
vars == <<headers, given, answer, pc, arg, want, curr>>

Addrs == {a \in 0..(HeapBytes - 1) : a % 4 = 0}
Links == Addrs \cup {NULL}

(****************************************************************************)
(* kmalloc: "fit" tests curr, "split" may cut it, "link" hooks in the rest, *)
(* "take" marks it used.  kfree: "mark" tests and sets the block's fields,  *)
(* "right" merges the next block, "unlink" takes that out of the list,      *)
(* "walk" looks for the block before, "left" and "join" merge into it.      *)
(****************************************************************************)
Labels == {"idle", "fit", "split", "link", "take",
           "mark", "right", "unlink", "walk", "left", "join"}

TypeOK ==
  /\ next \in [Addrs -> Links]
  /\ size \in [Addrs -> 0..(HeapBytes - Header)]
  /\ free \in [Addrs -> BOOLEAN] /\ magic \in [Addrs -> BOOLEAN]
  /\ given \in [Addrs -> Sizes \cup {0}]
  /\ answer \in [Callers -> [asked : Sizes \cup {0}, got : Links]]
  /\ pc \in [Callers -> Labels]
  /\ arg \in [Callers -> 0..(Word - 1)]
  /\ want \in [Callers -> Sizes \cup {0}]
  /\ curr \in [Callers -> Links]

-----------------------------------------------------------------------------
(* kheap_init.  What the rest of the heap holds is never looked at.         *)
Init ==
  /\ next = [a \in Addrs |-> NULL]
  /\ size = [a \in Addrs |-> IF a = 0 THEN HeapBytes - Header ELSE 0]
  /\ free = [a \in Addrs |-> a = 0]
  /\ magic = [a \in Addrs |-> a = 0]
  /\ given = [a \in Addrs |-> 0]
  /\ answer = [c \in Callers |-> [asked |-> 0, got |-> NULL]]
  /\ pc = [c \in Callers |-> "idle"]
  /\ arg = [c \in Callers |-> 0]
  /\ want = [c \in Callers |-> 0]
  /\ curr = [c \in Callers |-> NULL]

Goto(c, label) == pc' = [pc EXCEPT ![c] = label]

\* A mutant of Rounded: rounding down.
RoundedDown(n) == n - (n % 4)

\* kmalloc rounds the size up to a multiple of four, in a size_t.
Rounded(n) == IF n % 4 = 0 THEN n ELSE (n + 4 - (n % 4)) % Word

\* The local variables of a call end with it.
Leave(c) ==
  /\ Goto(c, "idle")
  /\ arg' = [arg EXCEPT ![c] = 0]
  /\ want' = [want EXCEPT ![c] = 0]
  /\ curr' = [curr EXCEPT ![c] = NULL]

Return(c, n, p) ==
  /\ answer' = [answer EXCEPT ![c] = [asked |-> n, got |-> p]]
  /\ Leave(c)

Kmalloc(c, n) ==
  /\ pc[c] = "idle"
  /\ IF n = 0
     THEN Return(c, 0, NULL)
     ELSE /\ arg' = [arg EXCEPT ![c] = Rounded(n)]
          /\ want' = [want EXCEPT ![c] = n]
          /\ curr' = [curr EXCEPT ![c] = 0]
          /\ Goto(c, "fit")
          /\ UNCHANGED answer
  /\ UNCHANGED <<headers, given>>

Fits(b, n) == free[b] /\ size[b] >= n

Fit(c) ==
  /\ pc[c] = "fit"
  /\ \/ /\ curr[c] = NULL
        /\ Return(c, want[c], NULL)
     \/ /\ curr[c] # NULL
        /\ Fits(curr[c], arg[c])
        /\ Goto(c, "split")
        /\ UNCHANGED <<answer, arg, want, curr>>
     \/ /\ curr[c] # NULL
        /\ ~Fits(curr[c], arg[c])
        /\ curr' = [curr EXCEPT ![c] = next[curr[c]]]
        /\ UNCHANGED <<answer, pc, arg, want>>
  /\ UNCHANGED <<headers, given>>

\* A mutant of Splits: no look at what the split leaves over.
SplitsAlways(b, n) == size[b] >= n

Splits(b, n) == size[b] >= (n + Header + Least) % Word

Split(c) ==
  LET b == curr[c]
      rest == b + Header + arg[c]
  IN  /\ pc[c] = "split"
      /\ IF Splits(b, arg[c])
         THEN /\ free' = [free EXCEPT ![rest] = TRUE]
              /\ size' = [size EXCEPT ![rest] = size[b] - arg[c] - Header,
                                      ![b] = arg[c]]
              /\ next' = [next EXCEPT ![rest] = next[b]]
              /\ magic' = [magic EXCEPT ![rest] = TRUE]
              /\ Goto(c, "link")
         ELSE /\ Goto(c, "take")
              /\ UNCHANGED headers
      /\ UNCHANGED <<given, answer, arg, want, curr>>

Link(c) ==
  /\ pc[c] = "link"
  /\ next' = [next EXCEPT ![curr[c]] = curr[c] + Header + arg[c]]
  /\ Goto(c, "take")
  /\ UNCHANGED <<size, free, magic, given, answer, arg, want, curr>>

Take(c) ==
  LET p == curr[c] + Header
  IN  /\ pc[c] = "take"
      /\ free' = [free EXCEPT ![curr[c]] = FALSE]
      /\ given' = [given EXCEPT ![p] = want[c]]
      /\ Return(c, want[c], p)
      /\ UNCHANGED <<next, size, magic>>

-----------------------------------------------------------------------------
(* kfree of a block the caller has, which from now on nobody else frees.    *)
Kfree(c, p) ==
  /\ pc[c] = "idle"
  /\ given[p] # 0
  /\ given' = [given EXCEPT ![p] = 0]
  /\ arg' = [arg EXCEPT ![c] = p - Header]
  /\ Goto(c, "mark")
  /\ UNCHANGED <<headers, answer, want, curr>>

Mark(c) ==
  /\ pc[c] = "mark"
  /\ IF magic[arg[c]]
     THEN /\ free' = [free EXCEPT ![arg[c]] = TRUE]
          /\ Goto(c, "right")
          /\ UNCHANGED <<arg, want, curr>>
     ELSE Leave(c) /\ UNCHANGED free
  /\ UNCHANGED <<next, size, magic, given, answer>>

\* A mutant of Absorbs: the header of the merged block is forgotten.
AbsorbsData(b, right) == size' = [size EXCEPT ![b] = @ + size[right]]

\* block->size += sizeof(kheap_block_t) + next->size
Absorbs(b, right) == size' = [size EXCEPT ![b] = @ + Header + size[right]]

\* The walk for the block before starts from the head of the list.
Walk(c) == Goto(c, "walk") /\ curr' = [curr EXCEPT ![c] = 0]

Right(c) ==
  LET b == arg[c]
  IN  /\ pc[c] = "right"
      /\ IF next[b] # NULL /\ free[next[b]]
         THEN Absorbs(b, next[b]) /\ Goto(c, "unlink") /\ UNCHANGED curr
         ELSE Walk(c) /\ UNCHANGED size
      /\ UNCHANGED <<next, free, magic, given, answer, arg, want>>

Unlink(c) ==
  LET b == arg[c]
  IN  /\ pc[c] = "unlink"
      /\ next' = [next EXCEPT ![b] = next[next[b]]]
      /\ Walk(c)
      /\ UNCHANGED <<size, free, magic, given, answer, arg, want>>

\* A mutant of WalkOn: the walk starts again at the end of the list.
WalkRound(c) ==
  /\ pc[c] = "walk"
  /\ IF next[curr[c]] # arg[c]
     THEN /\ curr' = [curr EXCEPT ![c] = IF next[curr[c]] = NULL THEN 0
                                        ELSE next[curr[c]]]
          /\ UNCHANGED pc
     ELSE Goto(c, "left") /\ UNCHANGED curr
  /\ UNCHANGED <<headers, given, answer, arg, want>>

WalkOn(c) ==
  /\ pc[c] = "walk"
  /\ IF curr[c] # NULL /\ next[curr[c]] # arg[c]
     THEN curr' = [curr EXCEPT ![c] = next[curr[c]]] /\ UNCHANGED pc
     ELSE Goto(c, "left") /\ UNCHANGED curr
  /\ UNCHANGED <<headers, given, answer, arg, want>>

\* A mutant of Left: the block before is left alone.
LeftAlone(c) ==
  /\ pc[c] = "left"
  /\ Leave(c)
  /\ UNCHANGED <<headers, given, answer>>

Left(c) ==
  /\ pc[c] = "left"
  /\ IF curr[c] # NULL /\ free[curr[c]]
     THEN /\ Absorbs(curr[c], arg[c])
          /\ Goto(c, "join")
          /\ UNCHANGED <<arg, want, curr>>
     ELSE Leave(c) /\ UNCHANGED size
  /\ UNCHANGED <<next, free, magic, given, answer>>

Join(c) ==
  /\ pc[c] = "join"
  /\ next' = [next EXCEPT ![curr[c]] = next[arg[c]]]
  /\ Leave(c)
  /\ UNCHANGED <<size, free, magic, given, answer>>

-----------------------------------------------------------------------------
Malloc(c) == Fit(c) \/ Split(c) \/ Link(c) \/ Take(c)
Free(c) ==
  Mark(c) \/ Right(c) \/ Unlink(c) \/ WalkOn(c) \/ Left(c) \/ Join(c)

Next == \E c \in Callers :
  \/ \E n \in Sizes : Kmalloc(c, n)
  \/ \E p \in Addrs : Kfree(c, p)
  \/ Malloc(c)
  \/ Free(c)

Spec == Init /\ [][Next]_vars

\* A caller that has entered kmalloc or kfree keeps executing it.
FairSpec == Spec /\ \A c \in Callers : WF_vars(Malloc(c) \/ Free(c))

-----------------------------------------------------------------------------
InUse == {p \in Addrs : given[p] # 0}
Quiet == \A c \in Callers : pc[c] = "idle"

\* The blocks on the list.
Listed ==
  LET within[k \in Nat] ==
        IF k = 0 THEN {0}
        ELSE within[k - 1] \cup ({next[b] : b \in within[k - 1]} \ {NULL})
  IN  within[HeapBytes \div (Header + Least)]

(* The bytes a caller asked for lie inside the heap, and neither they nor   *)
(* the header before them meet another caller's: kmalloc (34-64) never      *)
(* hands out memory twice, whatever was split, merged and reused before.    *)
Disjoint ==
  \A p \in InUse :
    /\ p + given[p] <= HeapBytes
    /\ \A q \in InUse : p < q => p + given[p] <= q - Header

(* Between calls the list covers the heap end to end with no hole, a block  *)
(* is marked used exactly while a caller has it, and no two neighbours are  *)
(* both free: what kmalloc splits (46-54) kfree has put together again      *)
(* (73-89).                                                                 *)
Tiled ==
  Quiet =>
    /\ \A b \in Listed :
         /\ b + Header + size[b] = IF next[b] = NULL THEN HeapBytes ELSE next[b]
         /\ free[b] <=> b + Header \notin InUse
         /\ free[b] /\ next[b] # NULL => ~free[next[b]]
    /\ \A p \in InUse : p - Header \in Listed

(* Both walks of the list end (43-60, 82-84): every call returns.           *)
CallsReturn == \A c \in Callers : pc[c] # "idle" ~> pc[c] = "idle"

\* The blocks in use, their headers included.
Taken == {[lo |-> p - Header, hi |-> p + size[p - Header]] : p \in InUse}

(* With one caller the heap is the first-fit allocator of Allocator: it     *)
(* gives out the first gap that is large enough, as if there were no list   *)
(* and no headers, and refuses a request only when no gap is.               *)
Abstract == INSTANCE Allocator WITH
  Need <- [n \in Sizes |-> Rounded(n)],
  Overhead <- Header,
  taken <- Taken

ImplementsAllocator == Abstract!Spec
=============================================================================
