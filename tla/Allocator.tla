----------------------------- MODULE Allocator -----------------------------
(****************************************************************************)
(* What the kernel heap promises its callers: each kmalloc takes the first  *)
(* gap between the blocks in use that is large enough, and is refused only  *)
(* when there is none; each kfree gives a block back.  A gap is whatever    *)
(* lies between two blocks in use: there are no headers to keep, nothing to *)
(* split and nothing to merge.                                              *)
(****************************************************************************)
EXTENDS Naturals

CONSTANTS
  Callers,    \* the contexts that allocate
  Sizes,      \* the sizes they ask for
  Need,       \* what a request of each size takes once rounded up
  HeapBytes,
  Overhead,   \* bytes each block needs besides its data
  Least,      \* the least data a block left over is worth keeping for
  NULL

VARIABLES
  taken,      \* the blocks in use
  answer      \* the last kmalloc of each caller: what it asked and got

vars == <<taken, answer>>

Extents == [lo : Nat, hi : Nat]
Apart(e, f) == e.hi <= f.lo \/ f.hi <= e.lo

\* The maximal stretches of the heap that no block in use touches.
Gaps ==
  {g \in [lo : {0} \cup {t.hi : t \in taken},
          hi : {HeapBytes} \cup {t.lo : t \in taken}] :
     g.lo < g.hi /\ \A t \in taken : Apart(g, t)}

Fitting(n) == {g \in Gaps : g.hi - g.lo >= Need[n] + Overhead}

\* The block cut from gap g; what is left over goes along if it is too small.
Cut(g, n) ==
  LET end == g.lo + Overhead + Need[n]
  IN  [lo |-> g.lo,
       hi |-> IF g.hi - end >= Overhead + Least THEN end ELSE g.hi]

Init ==
  /\ taken = {}
  /\ answer = [c \in Callers |-> [asked |-> 0, got |-> NULL]]

Answer(c, n, p) == answer' = [answer EXCEPT ![c] = [asked |-> n, got |-> p]]

Allocate(c, n) ==
  /\ n # 0
  /\ \E g \in Fitting(n) :
       /\ \A h \in Fitting(n) : g.lo <= h.lo
       /\ taken' = taken \cup {Cut(g, n)}
       /\ Answer(c, n, g.lo + Overhead)

Refuse(c, n) ==
  /\ n = 0 \/ Fitting(n) = {}
  /\ Answer(c, n, NULL)
  /\ UNCHANGED taken

Release(b) ==
  /\ taken' = taken \ {b}
  /\ UNCHANGED answer

Next ==
  \/ \E c \in Callers, n \in Sizes : Allocate(c, n) \/ Refuse(c, n)
  \/ \E b \in taken : Release(b)

Spec == Init /\ [][Next]_vars
=============================================================================
