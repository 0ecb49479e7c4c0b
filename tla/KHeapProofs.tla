----------------------------- MODULE KHeapProofs -----------------------------
(****************************************************************************)
(* Proofs about KHeap.  They are for one caller: with two the heap does     *)
(* give out memory twice.  The sizes asked for are those that kmalloc can   *)
(* round up without a wrap.                                                 *)
(****************************************************************************)
EXTENDS KHeap, Arithmetic, FiniteSetTheorems

NoWrap == \A n \in Sizes : Rounded(n) >= n

-----------------------------------------------------------------------------
(* The blocks L cut the heap into pieces, by their sizes alone.             *)
End(sz, b) == b + Header + sz[b]
After(sz, b) == IF End(sz, b) = HeapBytes THEN NULL ELSE End(sz, b)

Tiling(L, sz) ==
  /\ L \subseteq Addrs /\ 0 \in L
  /\ \A b \in L : sz[b] >= Least /\ End(sz, b) \in L \cup {HeapBytes}
  /\ \A a, b \in L : a < b => End(sz, a) <= b

(* The links follow the blocks, but for the one block whose link the caller *)
(* is about to mend.                                                        *)
Mended(c) ==
  IF pc[c] \in {"link", "join"} THEN curr[c]
  ELSE IF pc[c] = "unlink" THEN arg[c] ELSE NULL

Chained(c, L) ==
  /\ \A b \in L : b # Mended(c) => next[b] = After(size, b)
  /\ pc[c] = "link" => next[curr[c]] = After(size, End(size, curr[c]))
  /\ pc[c] = "unlink" =>
       /\ next[arg[c]] \in Addrs \ L
       /\ next[next[arg[c]]] = After(size, arg[c])
  /\ pc[c] = "join" => next[arg[c]] = After(size, curr[c])

(* A block is used while a caller has it, and until kfree has marked it.    *)
Used(c, L) ==
  /\ \A p \in InUse : p - Header \in L /\ given[p] <= size[p - Header]
  /\ \A b \in L :
       /\ magic[b]
       /\ free[b] <=> b + Header \notin InUse /\ ~(pc[c] = "mark" /\ b = arg[c])

(* Two neighbours are both free only where a split has just been made or a  *)
(* merge is due.                                                            *)
Merging(c, b) ==
  \/ pc[c] \in {"link", "take"} /\ b = curr[c]
  \/ pc[c] = "right" /\ b = arg[c]
  \/ pc[c] \in {"right", "unlink", "walk", "left"} /\ End(size, b) = arg[c]

Coalesced(c, L) ==
  \A b \in L : End(size, b) \in L /\ free[b] /\ free[End(size, b)] => Merging(c, b)

(* What a call has found out so far.                                        *)
NoneBefore(c, L) == \A b \in L : b < curr[c] => ~Fits(b, arg[c])

Searching(c, L) ==
  /\ pc[c] \in {"fit", "split", "link", "take"} =>
       want[c] \in Sizes \ {0} /\ arg[c] = Rounded(want[c])
  /\ pc[c] = "fit" =>
       \/ curr[c] = NULL /\ \A b \in L : ~Fits(b, arg[c])
       \/ curr[c] \in L /\ NoneBefore(c, L)
  /\ pc[c] \in {"split", "link", "take"} =>
       curr[c] \in L /\ Fits(curr[c], arg[c]) /\ NoneBefore(c, L)
  /\ pc[c] = "link" =>
       /\ size[curr[c]] = arg[c]
       /\ End(size, curr[c]) \in L /\ free[End(size, curr[c])]
  /\ pc[c] = "take" =>
       IF End(size, curr[c]) \in L /\ free[End(size, curr[c])]
       THEN size[curr[c]] = arg[c]
       ELSE size[curr[c]] < arg[c] + Header + Least

Freeing(c, L) ==
  /\ pc[c] = "mark" => arg[c] \in L /\ arg[c] + Header \notin InUse
  /\ pc[c] \in {"right", "unlink", "walk", "left"} => arg[c] \in L /\ free[arg[c]]
  /\ pc[c] = "walk" =>
       IF arg[c] = 0 THEN curr[c] \in L \cup {NULL}
       ELSE curr[c] \in L /\ curr[c] < arg[c]
  /\ pc[c] = "left" =>
       IF arg[c] = 0 THEN curr[c] = NULL
       ELSE curr[c] \in L /\ next[curr[c]] = arg[c]
  /\ pc[c] = "join" =>
       /\ curr[c] \in L /\ free[curr[c]]
       /\ arg[c] \in Addrs \ L

Shape(c, L) ==
  /\ Tiling(L, size) /\ Chained(c, L) /\ Used(c, L) /\ Coalesced(c, L)
  /\ Searching(c, L) /\ Freeing(c, L)

HeapInv(c) == TypeOK /\ \E L \in SUBSET Addrs : Shape(c, L)

-----------------------------------------------------------------------------
(* Addresses and sizes.                                                     *)

LEMMA Bounds ==
  /\ HeapBytes \in Nat /\ HeapBytes > Header + Least
  /\ Word \in Nat /\ Word > HeapBytes + Header + Least
  /\ 0 \in Addrs /\ NULL \notin Nat /\ NULL \notin Addrs
  /\ \A a \in Addrs : a \in Nat /\ a < HeapBytes /\ a # NULL
  BY HeapAssumption DEF Addrs, Header, Least

\* What kmalloc looks for holds what was asked, in whole words.
LEMMA RoundedUp ==
  ASSUME NoWrap, NEW n \in Sizes \ {0}
  PROVE  /\ Rounded(n) \in Nat /\ Rounded(n) < Word
         /\ Rounded(n) >= n /\ Rounded(n) % 4 = 0 /\ Rounded(n) >= Least
<1>1. n \in Nat /\ n > 0 /\ n < Word /\ Word \in Nat /\ Word % 4 = 0
  BY HeapAssumption
<1>2. Rounded(n) >= n
  BY DEF NoWrap
<1>3. CASE n % 4 = 0
  BY <1>1, <1>3, Z3 DEF Rounded, Least
<1>4. CASE n % 4 # 0
  <2> DEFINE k == n + 4 - (n % 4)
  <2>1. k \in Nat /\ k % 4 = 0 /\ k > n /\ k < Word + 4
    BY <1>1, Z3
  <2>2. Rounded(n) = k % Word
    BY <1>4 DEF Rounded
  <2> HIDE DEF k
  <2>3. k < Word
    <3>1. SUFFICES ASSUME k >= Word PROVE FALSE
      BY <1>1, <2>1
    <3>2. k = Word
      BY <1>1, <2>1, <3>1, Z3
    <3>3. k % Word = 0
      BY <1>1, <3>2, 0 \in 0..(Word - 1), 1 \in Nat, Word = 1 * Word + 0, Remainder
    <3>4. QED
      BY <1>1, <1>2, <2>2, <3>3
  <2>4. k % Word = k
    BY <1>1, <2>1, <2>3, Z3
  <2>5. QED
    BY <1>1, <2>1, <2>2, <2>3, <2>4, Z3 DEF Least
<1>5. QED
  BY <1>3, <1>4

LEMMA Sums ==
  ASSUME NEW b \in Addrs, NEW n \in Nat, n % 4 = 0, b + Header + n < HeapBytes
  PROVE  b + Header + n \in Addrs
  BY Z3, HeapAssumption DEF Addrs, Header

-----------------------------------------------------------------------------
(* Blocks.                                                                  *)
Sized == [Addrs -> 0..(HeapBytes - Header)]

LEMMA Ends ==
  ASSUME NEW sz \in Sized, NEW b \in Addrs
  PROVE  End(sz, b) = b + Header + sz[b] /\ End(sz, b) \in Nat /\ sz[b] \in Nat
<1>1. sz[b] \in 0..(HeapBytes - Header) /\ HeapBytes - Header \in Nat
  BY Bounds DEF Sized, Header, Least
<1>2. sz[b] \in Nat
  BY <1>1
<1>3. QED
  BY <1>2, Bounds DEF End, Header

(* Every block but the first ends where the one before it does.             *)
LEMMA Predecessor ==
  ASSUME NEW L, NEW sz \in Sized, Tiling(L, sz), NEW b \in L, b # 0
  PROVE  \E a \in L : a < b /\ End(sz, a) = b
<1> DEFINE D == {b - a : a \in {x \in L : x < b}}
<1>1. /\ L \subseteq Addrs /\ 0 \in L /\ b \in Nat /\ 0 < b /\ b < HeapBytes
      /\ HeapBytes \in Nat
      /\ \A x \in L : x \in Addrs /\ x \in Nat /\ x < HeapBytes
  BY Bounds DEF Tiling
<1>2. D \in SUBSET Nat /\ D # {}
  BY <1>1
<1>3. PICK d \in D : \A e \in D : d <= e
  <2> HIDE DEF D
  <2>1. QED
    BY <1>2, LeastElement
<1>4. PICK a \in L : a < b /\ d = b - a
  BY <1>3
<1>5. ASSUME NEW x \in L, x < b
      PROVE  x <= a
  <2>1. b - x \in D
    BY <1>5
  <2>2. b - a <= b - x
    BY <1>3, <1>4, <2>1
  <2>3. QED
    BY <1>1, <2>2
<1>6. /\ End(sz, a) \in L \cup {HeapBytes} /\ End(sz, a) \in Nat
      /\ End(sz, a) <= b /\ End(sz, a) > a
  BY <1>1, <1>4, Ends DEF Tiling, Header, Least
<1>7. End(sz, a) # HeapBytes
  BY <1>1, <1>6
<1>8. End(sz, a) \in L /\ End(sz, a) >= b
  BY <1>1, <1>4, <1>5, <1>6, <1>7
<1>9. QED
  BY <1>1, <1>4, <1>6, <1>8

(* Nothing lies between a block and the one that follows it.                *)
LEMMA Successor ==
  ASSUME NEW L, NEW sz \in Sized, Tiling(L, sz), NEW b \in L
  PROVE  /\ End(sz, b) \in Nat /\ End(sz, b) >= b + Header + Least
         /\ End(sz, b) <= HeapBytes
         /\ \A a \in L : a <= b \/ End(sz, b) <= a
         /\ After(sz, b) = IF End(sz, b) \in L THEN End(sz, b) ELSE NULL
         /\ End(sz, b) \in L <=> End(sz, b) # HeapBytes
         /\ b + Header \in Addrs
<1>1. /\ L \subseteq Addrs /\ b \in Addrs /\ b \in Nat
      /\ \A x \in L : x \in Addrs /\ x \in Nat /\ x < HeapBytes
      /\ HeapBytes \in Nat
  BY Bounds DEF Tiling
<1>2. /\ End(sz, b) = b + Header + sz[b] /\ End(sz, b) \in Nat
      /\ sz[b] \in Nat /\ sz[b] >= Least
      /\ End(sz, b) \in L \cup {HeapBytes}
  BY <1>1, Ends DEF Tiling
<1>3. \A a \in L : b < a => End(sz, b) <= a
  BY DEF Tiling
<1>4. b + Header + 0 < HeapBytes /\ b + Header + 0 = b + Header
  BY <1>1, <1>2 DEF Header, Least
<1>5. b + Header \in Addrs
  <2>1. 0 \in Nat /\ 0 % 4 = 0
    BY Z3
  <2>2. b + Header + 0 \in Addrs
    BY <1>1, <1>4, <2>1, Sums
  <2>3. QED
    BY <1>4, <2>2
<1>6. QED
  BY <1>1, <1>2, <1>3, <1>5 DEF After, Header, Least

(* Cutting a block in two: sizes sz become ty when b keeps n bytes and the  *)
(* rest becomes the block at r.                                             *)
CutTo(L, sz, b, n, r, ty) ==
  /\ sz \in Sized /\ Tiling(L, sz) /\ b \in L
  /\ n \in Nat /\ n % 4 = 0 /\ n >= Least /\ sz[b] >= n + Header + Least
  /\ r = b + Header + n
  /\ ty \in Sized /\ ty[b] = n /\ ty[r] = sz[b] - n - Header
  /\ \A a \in L \ {b} : ty[a] = sz[a]

LEMMA TilingSplit ==
  ASSUME NEW L, NEW sz, NEW b, NEW n, NEW r, NEW ty, CutTo(L, sz, b, n, r, ty)
  PROVE  /\ r \in Addrs \ L /\ Tiling(L \cup {r}, ty)
         /\ End(ty, b) = r /\ End(ty, r) = End(sz, b)
         /\ \A a \in L \ {b} : End(ty, a) = End(sz, a)
<1>0. /\ sz \in Sized /\ Tiling(L, sz) /\ b \in L
      /\ n \in Nat /\ n % 4 = 0 /\ n >= Least /\ sz[b] >= n + Header + Least
      /\ r = b + Header + n
      /\ ty \in Sized /\ ty[b] = n /\ ty[r] = sz[b] - n - Header
      /\ \A a \in L \ {b} : ty[a] = sz[a]
  BY DEF CutTo
<1>1. /\ L \subseteq Addrs /\ b \in Addrs /\ b \in Nat /\ 0 \in L
      /\ \A x \in L : x \in Addrs /\ x \in Nat /\ x < HeapBytes
      /\ HeapBytes \in Nat
  BY <1>0, Bounds DEF Tiling
<1>2. /\ End(sz, b) = b + Header + sz[b] /\ End(sz, b) \in Nat
      /\ sz[b] \in Nat /\ End(sz, b) <= HeapBytes
      /\ \A a \in L : a <= b \/ End(sz, b) <= a
  BY <1>0, <1>1, Ends, Successor
<1>3. r \in Nat /\ b < r /\ r + Header + Least <= End(sz, b)
  BY <1>0, <1>1, <1>2 DEF Header, Least
<1>4. r \in Addrs
  <2>1. b + Header + n < HeapBytes
    BY <1>0, <1>1, <1>2, <1>3 DEF Header, Least
  <2>2. b + Header + n \in Addrs
    BY <1>0, <1>1, <2>1, Sums
  <2>3. QED
    BY <1>0, <2>2
<1>5. r \notin L
  BY <1>0, <1>1, <1>2, <1>3 DEF Header, Least
<1>6. End(ty, b) = r /\ End(ty, r) = End(sz, b)
  BY <1>0, <1>1, <1>2, <1>3 DEF End, Header
<1>7. \A a \in L \ {b} : End(ty, a) = End(sz, a)
  BY <1>0 DEF End
<1>8. \A a \in L : sz[a] >= Least /\ End(sz, a) \in L \cup {HeapBytes}
  BY <1>0 DEF Tiling
<1>9. \A a \in L \cup {r} : ty[a] >= Least /\ End(ty, a) \in L \cup {r, HeapBytes}
  <2>1. ty[r] >= Least
    BY <1>0, <1>2 DEF Header, Least
  <2>2. QED
    BY <1>0, <1>6, <1>7, <1>8, <2>1
<1>10. ASSUME NEW x \in L \cup {r}, NEW y \in L \cup {r}, x < y
       PROVE  End(ty, x) <= y
  <2>1. \A a, e \in L : a < e => End(sz, a) <= e
    BY <1>0 DEF Tiling
  <2>2. CASE x = r
    <3>1. y \in L /\ y > b
      BY <1>0, <1>1, <1>3, <1>10, <2>2
    <3>2. QED
      BY <1>0, <1>6, <2>1, <2>2, <3>1
  <2>3. CASE x = b
    <3>1. y = r \/ (y \in L /\ End(sz, b) <= y)
      BY <1>0, <1>10, <2>1, <2>3
    <3>2. QED
      BY <1>0, <1>1, <1>2, <1>3, <1>6, <2>3, <3>1 DEF Header, Least
  <2>4. CASE x # r /\ x # b
    <3>1. x \in L /\ End(ty, x) = End(sz, x) /\ End(sz, x) \in Nat
      BY <1>0, <1>1, <1>7, <2>4, Ends
    <3>2. CASE y = r
      <4>1. x < b
        BY <1>0, <1>1, <1>2, <1>3, <1>10, <2>4, <3>1, <3>2 DEF Header, Least
      <4>2. End(sz, x) <= b
        BY <1>0, <2>1, <3>1, <4>1
      <4>3. QED
        BY <1>0, <1>1, <1>3, <3>1, <3>2, <4>2
    <3>3. CASE y # r
      BY <1>10, <2>1, <3>1, <3>3
    <3>4. QED
      BY <3>2, <3>3
  <2>5. QED
    BY <2>2, <2>3, <2>4
<1>11. QED
  BY <1>0, <1>1, <1>4, <1>5, <1>6, <1>7, <1>9, <1>10 DEF Tiling

(* Merging a block with the one that follows it: sizes sz become ty when b  *)
(* absorbs r.                                                               *)
MergedTo(L, sz, b, r, ty) ==
  /\ sz \in Sized /\ Tiling(L, sz) /\ b \in L /\ r \in L /\ End(sz, b) = r
  /\ ty[b] = sz[b] + Header + sz[r]
  /\ \A a \in L \ {b, r} : ty[a] = sz[a]

Merged(L, sz, b, r, ty) ==
  /\ Tiling(L \ {r}, ty) /\ b < r /\ End(ty, b) = End(sz, r)
  /\ ty[b] \in 0..(HeapBytes - Header)
  /\ \A a \in L \ {b, r} : End(ty, a) = End(sz, a) /\ End(sz, a) # r

LEMMA TilingMerge ==
  ASSUME NEW L, NEW sz, NEW b, NEW r, NEW ty, MergedTo(L, sz, b, r, ty)
  PROVE  Merged(L, sz, b, r, ty)
<1>0. /\ sz \in Sized /\ Tiling(L, sz) /\ b \in L /\ r \in L /\ End(sz, b) = r
      /\ ty[b] = sz[b] + Header + sz[r]
      /\ \A a \in L \ {b, r} : ty[a] = sz[a]
  BY DEF MergedTo
<1>1. /\ L \subseteq Addrs /\ b \in Addrs /\ r \in Addrs /\ b \in Nat /\ r \in Nat
      /\ 0 \in L /\ \A x \in L : x \in Addrs /\ x \in Nat /\ x < HeapBytes
      /\ HeapBytes \in Nat
  BY <1>0, Bounds DEF Tiling
<1>2. /\ r = b + Header + sz[b] /\ sz[b] \in Nat /\ sz[b] >= Least
      /\ End(sz, r) = r + Header + sz[r] /\ sz[r] \in Nat
      /\ End(sz, r) \in Nat /\ End(sz, r) <= HeapBytes
  BY <1>0, <1>1, Ends, Successor DEF Tiling
<1>3. b < r /\ End(ty, b) = End(sz, r) /\ r < End(sz, r)
  BY <1>0, <1>1, <1>2 DEF End, Header
<1>4. ty[b] \in 0..(HeapBytes - Header) /\ ty[b] >= Least
  BY <1>0, <1>1, <1>2 DEF Header, Least
<1>5. \A a \in L \ {b, r} : End(ty, a) = End(sz, a)
  BY <1>0 DEF End
<1>6. /\ \A a \in L : sz[a] >= Least /\ End(sz, a) \in L \cup {HeapBytes}
      /\ \A a, e \in L : a < e => End(sz, a) <= e
  BY <1>0 DEF Tiling
<1>7. ASSUME NEW a \in L \ {b, r} PROVE End(sz, a) # r
  <2>1. SUFFICES ASSUME End(sz, a) = r PROVE FALSE
    OBVIOUS
  <2>2. a < r
    BY <1>0, <1>1, <2>1, Successor DEF Header, Least
  <2>3. a < b \/ b < a
    BY <1>0, <1>1, <1>7
  <2>4. End(sz, a) <= b \/ r <= a
    BY <1>0, <1>6, <2>3
  <2>5. QED
    BY <1>0, <1>1, <1>3, <2>1, <2>2, <2>4
<1>8. ASSUME NEW a \in L \ {r}
      PROVE  ty[a] >= Least /\ End(ty, a) \in (L \ {r}) \cup {HeapBytes}
  <2>1. CASE a = b
    BY <1>0, <1>1, <1>2, <1>3, <1>4, <1>6, <2>1
  <2>2. CASE a # b
    BY <1>0, <1>1, <1>5, <1>6, <1>7, <2>2
  <2>3. QED
    BY <1>0, <2>1, <2>2
<1>9. ASSUME NEW x \in L \ {r}, NEW y \in L \ {r}, x < y
      PROVE  End(ty, x) <= y
  <2>1. CASE x = b
    <3>1. r <= y
      BY <1>0, <1>6, <1>9, <2>1
    <3>2. r < y
      BY <1>0, <1>1, <1>9, <3>1
    <3>3. QED
      BY <1>0, <1>3, <1>6, <2>1, <3>2
  <2>2. CASE x # b
    BY <1>0, <1>5, <1>6, <1>9, <2>2
  <2>3. QED
    BY <1>0, <2>1, <2>2
<1>10. Tiling(L \ {r}, ty)
  <2>1. 0 # r
    BY <1>0, <1>1, <1>3
  <2>2. QED
    BY <1>0, <1>1, <1>8, <1>9, <2>1 DEF Tiling
<1>11. QED
  BY <1>0, <1>3, <1>4, <1>5, <1>7, <1>10 DEF Merged

-----------------------------------------------------------------------------
(* Where the links follow the blocks, Listed finds them all: the block with *)
(* k others before it after k steps.                                        *)
Rank(L, b) == Cardinality({a \in L : a < b})

LEMMA Ranking ==
  ASSUME NEW L, NEW sz \in Sized, Tiling(L, sz)
  PROVE  /\ \A b \in L : Rank(L, b) \in Nat
         /\ Rank(L, 0) = 0
         /\ \A b \in L : End(sz, b) \in L => Rank(L, End(sz, b)) = Rank(L, b) + 1
<1>1. /\ L \subseteq Addrs /\ 0 \in L /\ HeapBytes - 1 \in Int
      /\ \A x \in L : x \in Addrs /\ x \in Nat /\ x < HeapBytes
  BY Bounds DEF Tiling
<1>2. IsFiniteSet(L)
  <2>1. IsFiniteSet(0..(HeapBytes - 1))
    BY <1>1, FS_Interval, 0 \in Int
  <2>2. L \in SUBSET (0..(HeapBytes - 1))
    BY <1>1, Bounds
  <2>3. QED
    BY <2>1, <2>2, FS_Subset
<1>3. ASSUME NEW b PROVE IsFiniteSet({a \in L : a < b})
  BY <1>2, FS_Subset
<1>4. \A b \in L : Rank(L, b) \in Nat
  BY <1>3, FS_CardinalityType DEF Rank
<1>5. Rank(L, 0) = 0
  <2>1. {a \in L : a < 0} = {}
    BY <1>1
  <2>2. QED
    BY <2>1, FS_EmptySet DEF Rank
<1>6. ASSUME NEW b \in L, End(sz, b) \in L
      PROVE  Rank(L, End(sz, b)) = Rank(L, b) + 1
  <2> DEFINE S == {a \in L : a < b}
  <2>1. {a \in L : a < End(sz, b)} = S \cup {b}
    <3>1. /\ End(sz, b) \in Nat /\ b < End(sz, b) /\ b \in Nat
          /\ \A a \in L : a <= b \/ End(sz, b) <= a
      BY <1>1, Successor DEF Header, Least
    <3>2. \A a \in L : a < End(sz, b) <=> a < b \/ a = b
      BY <1>1, <3>1
    <3>3. QED
      BY <3>2
  <2>2. b \notin S
    BY <1>1
  <2>3. IsFiniteSet(S)
    BY <1>3
  <2> HIDE DEF S
  <2>4. Cardinality(S \cup {b}) = Cardinality(S) + 1
    BY <2>2, <2>3, FS_AddElement
  <2>5. QED
    BY <2>1, <2>4 DEF Rank, S
<1>7. QED
  BY <1>4, <1>5, <1>6

\* No block is shorter than its header and the least data.
LEMMA RankBound ==
  ASSUME NEW L, NEW sz \in Sized, Tiling(L, sz), NEW b \in L
  PROVE  Rank(L, b) * (Header + Least) <= b
<1> DEFINE Bad == {x \in L : ~(Rank(L, x) * (Header + Least) <= x)}
<1>1. /\ L \subseteq Addrs /\ 0 \in L
      /\ \A x \in L : x \in Addrs /\ x \in Nat /\ x < HeapBytes
  BY Bounds DEF Tiling
<1>2. SUFFICES ASSUME Bad # {} PROVE FALSE
  OBVIOUS
<1>3. PICK x \in Bad : \A y \in Bad : x <= y
  <2>1. Bad \in SUBSET Nat
    BY <1>1
  <2> HIDE DEF Bad
  <2>2. QED
    BY <1>2, <2>1, LeastElement
<1>4. x \in L /\ x # 0
  BY <1>1, <1>3, Ranking DEF Header, Least
<1>5. PICK a \in L : a < x /\ End(sz, a) = x
  BY <1>4, Predecessor
<1>6. Rank(L, a) * (Header + Least) <= a
  <2>1. a \notin Bad
    BY <1>1, <1>3, <1>4, <1>5
  <2>2. QED
    BY <2>1
<1>7. Rank(L, x) = Rank(L, a) + 1 /\ Rank(L, a) \in Nat
  BY <1>4, <1>5, Ranking
<1>8. x >= a + Header + Least
  BY <1>5, Successor
<1>9. Rank(L, x) * (Header + Least) <= x
  BY <1>1, <1>4, <1>6, <1>7, <1>8 DEF Header, Least
<1>10. QED
  BY <1>3, <1>9

LEMMA ListedIs ==
  ASSUME NEW within,
         within = CHOOSE f : f = [k \in Nat |->
           IF k = 0 THEN {0}
           ELSE f[k - 1] \cup ({next[b] : b \in f[k - 1]} \ {NULL})]
  PROVE  Listed = within[HeapBytes \div (Header + Least)]
  BY DEF Listed

LEMMA ListedBlocks ==
  ASSUME NEW L, size \in Sized, Tiling(L, size),
         \A b \in L : next[b] = After(size, b)
  PROVE  Listed = L
<1> DEFINE Step(S) == S \cup ({next[b] : b \in S} \ {NULL})
           Rec(f) == f = [k \in Nat |-> IF k = 0 THEN {0}
             ELSE f[k - 1] \cup ({next[b] : b \in f[k - 1]} \ {NULL})]
           W == [k \in Nat |-> {b \in L : Rank(L, b) <= k}]
           within == CHOOSE f : Rec(f)
<1>1. /\ L \subseteq Addrs /\ 0 \in L
      /\ \A x \in L : x \in Addrs /\ x \in Nat /\ x < HeapBytes /\ x # NULL
      /\ \A x \in L : Rank(L, x) \in Nat
      /\ Rank(L, 0) = 0
  BY Bounds, Ranking DEF Tiling
<1>2. ASSUME NEW b \in L, b # 0
      PROVE  \E a \in L : next[a] = b /\ Rank(L, b) = Rank(L, a) + 1
  <2>1. PICK a \in L : End(size, a) = b
    BY <1>2, Predecessor
  <2>2. next[a] = b
    BY <2>1, Successor
  <2>3. QED
    BY <2>1, <2>2, Ranking
<1>3. ASSUME NEW a \in L, next[a] # NULL
      PROVE  next[a] \in L /\ Rank(L, next[a]) = Rank(L, a) + 1
  <2>1. End(size, a) \in L /\ next[a] = End(size, a)
    BY <1>3, Successor
  <2>2. QED
    BY <2>1, Ranking
<1>4. W[0] = {0}
  <2>1. ASSUME NEW b \in L, Rank(L, b) <= 0 PROVE b = 0
    BY <1>1, <1>2, <2>1
  <2>2. QED
    BY <1>1, <2>1
<1>5. ASSUME NEW k \in Nat, k # 0
      PROVE  W[k] = Step(W[k - 1])
  <2>1. k - 1 \in Nat
    BY <1>5
  <2>2. ASSUME NEW b \in W[k] PROVE b \in Step(W[k - 1])
    <3>1. b \in L /\ Rank(L, b) <= k
      BY <2>2
    <3>2. CASE b = 0
      BY <1>1, <2>1, <3>2
    <3>3. CASE b # 0
      <4>1. PICK a \in L : next[a] = b /\ Rank(L, b) = Rank(L, a) + 1
        BY <1>2, <3>1, <3>3
      <4>2. a \in W[k - 1]
        BY <1>1, <1>5, <2>1, <3>1, <4>1
      <4>3. b # NULL
        BY <1>1, <3>1
      <4> HIDE DEF W
      <4>4. QED
        BY <4>1, <4>2, <4>3
    <3>4. QED
      BY <3>2, <3>3
  <2>3. ASSUME NEW b \in Step(W[k - 1]) PROVE b \in W[k]
    <3>1. CASE b \in W[k - 1]
      BY <1>1, <1>5, <2>1, <3>1
    <3>2. CASE b \notin W[k - 1]
      <4>1. PICK a \in W[k - 1] : next[a] = b /\ b # NULL
        <5> HIDE DEF W
        <5>1. QED
          BY <2>3, <3>2
      <4>2. a \in L /\ Rank(L, a) <= k - 1
        BY <2>1
      <4>3. b \in L /\ Rank(L, b) = Rank(L, a) + 1
        BY <1>3, <4>1, <4>2
      <4>4. QED
        BY <1>1, <1>5, <4>2, <4>3
    <3>3. QED
      BY <3>1, <3>2
  <2> HIDE DEF W, Step
  <2>4. QED
    BY <2>2, <2>3
<1>6. Rec(W)
  <2>1. \A k \in Nat : W[k] = IF k = 0 THEN {0} ELSE Step(W[k - 1])
    BY <1>4, <1>5
  <2>2. W = [k \in Nat |-> W[k]]
    OBVIOUS
  <2> HIDE DEF W
  <2>3. W = [k \in Nat |-> IF k = 0 THEN {0} ELSE Step(W[k - 1])]
    <3> HIDE DEF Step
    <3>1. QED
      BY <2>1, <2>2
  <2>4. QED
    BY <2>3
<1>7. Rec(within)
  <2> HIDE DEF Rec, W
  <2>1. QED
    BY <1>6
<1>8. \A k \in Nat : within[k] = IF k = 0 THEN {0} ELSE Step(within[k - 1])
  <2> HIDE DEF within
  <2>1. QED
    BY <1>7
<1>9. \A k \in Nat : within[k] = W[k]
  <2> HIDE DEF within, W, Rec, Step
  <2> DEFINE B == {k \in Nat : within[k] # W[k]}
  <2>1. SUFFICES ASSUME B # {} PROVE FALSE
    OBVIOUS
  <2>2. PICK b \in B : \A i \in B : b <= i
    BY <2>1, LeastElement
  <2>3. b \in Nat /\ within[b] # W[b] /\ \A i \in Nat : i < b => within[i] = W[i]
    BY <2>2
  <2>4. CASE b = 0
    BY <1>4, <1>8, <2>3, <2>4
  <2>5. CASE b # 0
    <3>1. b - 1 \in Nat /\ b - 1 < b
      BY <2>3, <2>5
    <3>2. QED
      BY <1>5, <1>8, <2>3, <2>5, <3>1
  <2>6. QED
    BY <2>4, <2>5
<1>10. Listed = within[HeapBytes \div (Header + Least)]
  BY ListedIs
<1>11. W[HeapBytes \div (Header + Least)] = L
  <2> DEFINE e == Header + Least
  <2>1. e \in Nat \ {0} /\ HeapBytes \in Nat
    BY Bounds DEF Header, Least
  <2>2. HeapBytes \div e \in Nat
    BY <2>1, Division
  <2>3. ASSUME NEW b \in L PROVE Rank(L, b) <= HeapBytes \div e
    <3>1. Rank(L, b) * e <= b
      BY RankBound
    <3>2. Rank(L, b) * e \in Nat /\ Rank(L, b) \in Nat
      BY <1>1, <2>1 DEF Header, Least
    <3> HIDE DEF e
    <3>3. Rank(L, b) * e <= HeapBytes
      BY <1>1, <2>1, <3>1, <3>2
    <3>4. QED
      BY <2>1, <3>2, <3>3, Above
  <2>4. QED
    BY <2>2, <2>3
<1>12. HeapBytes \div (Header + Least) \in Nat
  BY Bounds, Division DEF Header, Least
<1>13. QED
  BY <1>9, <1>10, <1>11, <1>12

-----------------------------------------------------------------------------
(* The steps of a call.  Each keeps the types and the shape of the list.    *)

LEMMA Fields ==
  ASSUME NEW c, Callers = {c}, TypeOK
  PROVE  /\ size \in Sized /\ next \in [Addrs -> Links]
         /\ free \in [Addrs -> BOOLEAN] /\ magic \in [Addrs -> BOOLEAN]
         /\ given \in [Addrs -> Sizes \cup {0}]
         /\ c \in Callers /\ pc[c] \in Labels /\ arg[c] \in 0..(Word - 1)
         /\ arg[c] \in Nat /\ want[c] \in Sizes \cup {0} /\ curr[c] \in Links
         /\ pc \in [Callers -> Labels] /\ arg \in [Callers -> 0..(Word - 1)]
         /\ want \in [Callers -> Sizes \cup {0}] /\ curr \in [Callers -> Links]
         /\ answer \in [Callers -> [asked : Sizes \cup {0}, got : Links]]
  BY DEF TypeOK, Sized

\* A step that leaves the headers alone, between two places in a call where
\* no link is to be mended and no block waits to be marked.
LEMMA MoveShape ==
  ASSUME NEW c, NEW L, Tiling(L, size), Chained(c, L), Used(c, L),
         UNCHANGED <<headers, given>>,
         pc[c] \notin {"link", "unlink", "join", "mark"},
         pc'[c] \notin {"link", "unlink", "join", "mark"},
         NULL \notin L
  PROVE  Tiling(L, size)' /\ Chained(c, L)' /\ Used(c, L)'
<1>1. next' = next /\ size' = size /\ free' = free /\ magic' = magic /\ given' = given
  BY DEF headers
<1>2. Tiling(L, size)'
  BY <1>1 DEF Tiling, End
<1>3. \A b \in L : next[b] = After(size, b)
  BY DEF Chained, Mended
<1>4. Chained(c, L)'
  BY <1>1, <1>3 DEF Chained, Mended, After, End
<1>5. Used(c, L)'
  BY <1>1 DEF Used, InUse
<1>6. QED
  BY <1>2, <1>4, <1>5

LEMMA KmallocStep ==
  ASSUME NEW c, Callers = {c}, NoWrap, TypeOK, NEW L \in SUBSET Addrs, Shape(c, L),
         NEW n \in Sizes, Kmalloc(c, n)
  PROVE  TypeOK' /\ Shape(c, L)'
<1>1. /\ pc[c] = "idle" /\ UNCHANGED <<headers, given>> /\ c \in Callers
      /\ 0 \in Links /\ NULL \in Links /\ 0 \in Addrs /\ "fit" \in Labels
      /\ "idle" \in Labels /\ NULL \notin L /\ Word \in Nat /\ Word > 0
      /\ size \in Sized
  BY Bounds, Fields DEF Kmalloc, Links, Labels
<1>2. Tiling(L, size) /\ Chained(c, L) /\ Used(c, L) /\ Coalesced(c, L)
  BY DEF Shape
<1>3. CASE n = 0
  <2>1. /\ answer' = [answer EXCEPT ![c] = [asked |-> 0, got |-> NULL]]
        /\ pc' = [pc EXCEPT ![c] = "idle"] /\ arg' = [arg EXCEPT ![c] = 0]
        /\ want' = [want EXCEPT ![c] = 0] /\ curr' = [curr EXCEPT ![c] = NULL]
    BY <1>3 DEF Kmalloc, Return, Leave, Goto
  <2>2. pc'[c] = "idle"
    BY <1>1, <2>1, Fields
  <2>3. TypeOK'
    BY <1>1, <2>1, Fields DEF TypeOK, headers
  <2>4. Tiling(L, size)' /\ Chained(c, L)' /\ Used(c, L)'
    BY <1>1, <1>2, <2>2, MoveShape
  <2>5. Coalesced(c, L)' /\ Searching(c, L)' /\ Freeing(c, L)'
    BY <1>1, <1>2, <2>2 DEF Coalesced, Merging, Searching, Freeing, headers, End
  <2>6. QED
    BY <2>3, <2>4, <2>5 DEF Shape
<1>4. CASE n # 0
  <2>1. /\ arg' = [arg EXCEPT ![c] = Rounded(n)] /\ want' = [want EXCEPT ![c] = n]
        /\ curr' = [curr EXCEPT ![c] = 0] /\ pc' = [pc EXCEPT ![c] = "fit"]
        /\ answer' = answer
    BY <1>4 DEF Kmalloc, Goto
  <2>2. pc'[c] = "fit" /\ arg'[c] = Rounded(n) /\ want'[c] = n /\ curr'[c] = 0
    BY <1>1, <2>1, Fields
  <2>3. Rounded(n) \in 0..(Word - 1)
    BY <1>1, <1>4, RoundedUp
  <2>4. TypeOK'
    BY <1>1, <2>1, <2>3, Fields DEF TypeOK, headers
  <2>5. Tiling(L, size)' /\ Chained(c, L)' /\ Used(c, L)'
    BY <1>1, <1>2, <2>2, MoveShape
  <2>6. 0 \in L /\ NoneBefore(c, L)'
    BY <1>2, <2>2, Bounds DEF Tiling, NoneBefore
  <2>7. Searching(c, L)'
    BY <1>4, <2>2, <2>6 DEF Searching
  <2>8. Coalesced(c, L)' /\ Freeing(c, L)'
    BY <1>1, <1>2, <2>2 DEF Coalesced, Merging, Freeing, headers, End
  <2>9. QED
    BY <2>4, <2>5, <2>7, <2>8 DEF Shape
<1>5. QED
  BY <1>3, <1>4

LEMMA FitStep ==
  ASSUME NEW c, Callers = {c}, TypeOK, NEW L \in SUBSET Addrs, Shape(c, L), Fit(c)
  PROVE  TypeOK' /\ Shape(c, L)'
<1>1. /\ pc[c] = "fit" /\ UNCHANGED <<headers, given>> /\ c \in Callers
      /\ NULL \in Links /\ {"idle", "split"} \subseteq Labels
      /\ NULL \notin L /\ Word \in Nat /\ Word > 0 /\ size \in Sized
      /\ size' = size /\ free' = free
  BY Bounds, Fields DEF Fit, Links, Labels, headers
<1>2. /\ Tiling(L, size) /\ Chained(c, L) /\ Used(c, L) /\ Coalesced(c, L)
      /\ want[c] \in Sizes \ {0} /\ arg[c] = Rounded(want[c])
      /\ \/ curr[c] = NULL /\ \A b \in L : ~Fits(b, arg[c])
         \/ curr[c] \in L /\ NoneBefore(c, L)
  BY <1>1 DEF Shape, Searching
<1>3. CASE curr[c] = NULL
  <2>1. /\ answer' = [answer EXCEPT ![c] = [asked |-> want[c], got |-> NULL]]
        /\ pc' = [pc EXCEPT ![c] = "idle"] /\ arg' = [arg EXCEPT ![c] = 0]
        /\ want' = [want EXCEPT ![c] = 0] /\ curr' = [curr EXCEPT ![c] = NULL]
    BY <1>3 DEF Fit, Return, Leave, Goto
  <2>2. pc'[c] = "idle"
    BY <1>1, <2>1, Fields
  <2>3. TypeOK'
    BY <1>1, <2>1, Fields DEF TypeOK, headers
  <2>4. Tiling(L, size)' /\ Chained(c, L)' /\ Used(c, L)'
    BY <1>1, <1>2, <2>2, MoveShape
  <2>5. Coalesced(c, L)' /\ Searching(c, L)' /\ Freeing(c, L)'
    BY <1>1, <1>2, <2>2 DEF Coalesced, Merging, Searching, Freeing, End
  <2>6. QED
    BY <2>3, <2>4, <2>5 DEF Shape
<1>4. CASE curr[c] # NULL /\ Fits(curr[c], arg[c])
  <2>1. pc' = [pc EXCEPT ![c] = "split"] /\ UNCHANGED <<answer, arg, want, curr>>
    BY <1>4 DEF Fit, Goto
  <2>2. pc'[c] = "split"
    BY <1>1, <2>1, Fields
  <2>3. TypeOK'
    BY <1>1, <2>1, Fields DEF TypeOK, headers
  <2>4. Tiling(L, size)' /\ Chained(c, L)' /\ Used(c, L)'
    BY <1>1, <1>2, <2>2, MoveShape
  <2>5. Coalesced(c, L)' /\ Freeing(c, L)'
    BY <1>1, <1>2, <2>2 DEF Coalesced, Merging, Freeing, End
  <2>6. Searching(c, L)'
    BY <1>1, <1>2, <1>4, <2>1, <2>2 DEF Searching, NoneBefore, Fits
  <2>7. QED
    BY <2>3, <2>4, <2>5, <2>6 DEF Shape
<1>5. CASE curr[c] # NULL /\ ~Fits(curr[c], arg[c])
  <2>1. curr' = [curr EXCEPT ![c] = next[curr[c]]] /\ UNCHANGED <<answer, pc, arg, want>>
    BY <1>5 DEF Fit
  <2>2. curr[c] \in L /\ next[curr[c]] = After(size, curr[c]) /\ NoneBefore(c, L)
    BY <1>1, <1>2, <1>5 DEF Chained, Mended
  <2>3. curr'[c] = next[curr[c]] /\ next[curr[c]] \in Links
    BY <1>1, <2>1, <2>2, Fields
  <2>4. TypeOK'
    BY <1>1, <2>1, <2>3, Fields DEF TypeOK, headers
  <2>5. Tiling(L, size)' /\ Chained(c, L)' /\ Used(c, L)'
    BY <1>1, <1>2, <2>1, MoveShape
  <2>6. Coalesced(c, L)' /\ Freeing(c, L)'
    BY <1>1, <1>2, <2>1 DEF Coalesced, Merging, Freeing, End
  <2>7. PICK b \in L : b = curr[c]
    BY <2>2
  <2>8. /\ \A a \in L : a <= b \/ End(size, b) <= a
        /\ After(size, b) = IF End(size, b) \in L THEN End(size, b) ELSE NULL
        /\ End(size, b) \in L <=> End(size, b) # HeapBytes
        /\ \A a \in L : a \in Nat /\ a < HeapBytes
        /\ b \in Nat /\ End(size, b) \in Nat
    BY <1>1, <1>2, Successor, Bounds
  <2>9. \A a \in L : a <= b => ~Fits(a, arg[c])
    BY <1>5, <2>2, <2>7, <2>8 DEF NoneBefore
  <2>10. CASE End(size, b) \in L
    <3>1. curr'[c] \in L /\ curr'[c] = End(size, b)
      BY <2>2, <2>3, <2>7, <2>8, <2>10
    <3>2. \A a \in L : a < End(size, b) => a <= b
      BY <2>8, <2>10
    <3>3. NoneBefore(c, L)'
      BY <1>1, <2>1, <2>9, <3>1, <3>2 DEF NoneBefore, Fits
    <3>4. Searching(c, L)'
      BY <1>1, <1>2, <2>1, <3>1, <3>3 DEF Searching
    <3>5. QED
      BY <2>4, <2>5, <2>6, <3>4 DEF Shape
  <2>11. CASE End(size, b) \notin L
    <3>1. curr'[c] = NULL /\ End(size, b) = HeapBytes
      BY <2>2, <2>3, <2>7, <2>8, <2>11
    <3>2. HeapBytes \in Nat
      BY Bounds
    <3>3. ASSUME NEW a \in L PROVE ~Fits(a, arg[c])
      <4>1. a <= b
        BY <2>8, <3>1, <3>2
      <4>2. QED
        BY <2>9, <4>1
    <3>4. Searching(c, L)'
      BY <1>1, <1>2, <2>1, <3>1, <3>3 DEF Searching, Fits
    <3>5. QED
      BY <2>4, <2>5, <2>6, <3>4 DEF Shape
  <2>12. QED
    BY <2>10, <2>11
<1>6. QED
  BY <1>3, <1>4, <1>5

\* What the search found fits the heap, so nothing wraps any more.
LEMMA Cuttable ==
  ASSUME NEW L, size \in Sized, Tiling(L, size), NEW b \in L,
         NEW n \in Nat, size[b] >= n
  PROVE  Splits(b, n) <=> size[b] >= n + Header + Least
<1>1. b \in Addrs /\ size[b] \in 0..(HeapBytes - Header)
  BY DEF Tiling, Sized
<1>2. n + Header + Least \in Nat /\ n + Header + Least < Word /\ Word \in Nat
  BY <1>1, Bounds DEF Header, Least
<1>3. (n + Header + Least) % Word = n + Header + Least
  BY <1>2, Z3
<1>4. QED
  BY <1>3 DEF Splits

LEMMA SplitStep ==
  ASSUME NEW c, Callers = {c}, NoWrap, TypeOK, NEW L \in SUBSET Addrs, Shape(c, L),
         Split(c)
  PROVE  TypeOK' /\ \E M \in SUBSET Addrs : Shape(c, M)'
<1>1. /\ pc[c] = "split" /\ UNCHANGED <<given, answer, arg, want, curr>>
      /\ c \in Callers /\ {"link", "take"} \subseteq Labels
      /\ NULL \notin L /\ Word \in Nat /\ Word > 0 /\ size \in Sized
  BY Bounds, Fields DEF Split, Labels
<1>2. /\ Tiling(L, size) /\ Chained(c, L) /\ Used(c, L) /\ Coalesced(c, L)
      /\ want[c] \in Sizes \ {0} /\ arg[c] = Rounded(want[c])
      /\ curr[c] \in L /\ Fits(curr[c], arg[c]) /\ NoneBefore(c, L)
  BY <1>1 DEF Shape, Searching
<1>3. PICK b \in L, n \in Nat : b = curr[c] /\ n = arg[c]
  BY <1>2, Fields
<1>4. n % 4 = 0 /\ n >= Least /\ n < Word
  BY <1>2, <1>3, RoundedUp
<1>5. /\ free[b] /\ size[b] >= n /\ b \in Addrs
      /\ \A a \in L : a < b => ~Fits(a, n)
      /\ \A a \in L : next[a] = After(size, a)
  BY <1>1, <1>2, <1>3 DEF Fits, NoneBefore, Chained, Mended
<1>6. Splits(b, n) <=> size[b] >= n + Header + Least
  BY <1>1, <1>2, <1>5, Cuttable
<1>7. \A a \in L : End(size, a) \in L /\ free[a] => ~free[End(size, a)]
  BY <1>1, <1>2 DEF Coalesced, Merging
<1>8. CASE ~Splits(b, n)
  <2>1. pc' = [pc EXCEPT ![c] = "take"] /\ UNCHANGED headers
    BY <1>3, <1>8 DEF Split, Goto
  <2>2. pc'[c] = "take" /\ size' = size /\ free' = free
    BY <1>1, <2>1, Fields DEF headers
  <2>3. TypeOK'
    BY <1>1, <2>1, Fields DEF TypeOK, headers
  <2>4. Tiling(L, size)' /\ Chained(c, L)' /\ Used(c, L)'
    BY <1>1, <1>2, <2>1, <2>2, MoveShape
  <2>5. Coalesced(c, L)' /\ Freeing(c, L)'
    BY <1>7, <2>2 DEF Coalesced, Freeing, End
  <2>6. size[b] < n + Header + Least /\ size[b] \in Nat
    BY <1>1, <1>5, <1>6, <1>8, Ends DEF Header, Least
  <2>7. Searching(c, L)'
    BY <1>1, <1>2, <1>3, <1>5, <1>7, <2>2, <2>6 DEF Searching, NoneBefore, Fits, End
  <2>8. QED
    BY <2>3, <2>4, <2>5, <2>7 DEF Shape
<1>9. CASE Splits(b, n)
  <2>1. PICK r \in Nat : r = b + Header + n
    BY <1>5, Bounds DEF Header
  <2>2. /\ free' = [free EXCEPT ![r] = TRUE]
        /\ size' = [size EXCEPT ![r] = size[b] - n - Header, ![b] = n]
        /\ next' = [next EXCEPT ![r] = next[b]]
        /\ magic' = [magic EXCEPT ![r] = TRUE]
        /\ pc' = [pc EXCEPT ![c] = "link"]
    BY <1>3, <1>9, <2>1 DEF Split, Goto
  <2>3. size[b] >= n + Header + Least /\ size[b] \in 0..(HeapBytes - Header)
        /\ HeapBytes \in Nat
    BY <1>1, <1>5, <1>6, <1>9, Bounds DEF Sized
  <2>4. r # b /\ r \in Addrs
    <3>1. End(size, b) = b + Header + size[b] /\ End(size, b) <= HeapBytes
      BY <1>1, <1>2, <1>5, Ends, Successor
    <3>2. b + Header + n < HeapBytes
      BY <1>5, <2>3, <3>1, Bounds DEF Header, Least
    <3>3. b + Header + n \in Addrs
      BY <1>4, <1>5, <3>2, Sums
    <3>4. QED
      BY <1>5, <2>1, <3>3, Bounds DEF Header
  <2>5. /\ size'[b] = n /\ size'[r] = size[b] - n - Header
        /\ \A a \in Addrs \ {b, r} : size'[a] = size[a]
        /\ next'[r] = next[b] /\ \A a \in Addrs \ {r} : next'[a] = next[a]
        /\ free'[r] = TRUE /\ \A a \in Addrs \ {r} : free'[a] = free[a]
        /\ magic'[r] = TRUE /\ \A a \in Addrs \ {r} : magic'[a] = magic[a]
        /\ pc'[c] = "link"
    BY <1>1, <1>5, <2>2, <2>4, Fields DEF Sized
  <2>6. size' \in Sized
    <3>1. size[b] - n - Header \in 0..(HeapBytes - Header)
          /\ n \in 0..(HeapBytes - Header)
      BY <2>3 DEF Header, Least
    <3>2. QED
      BY <1>1, <2>2, <3>1 DEF Sized
  <2>7. TypeOK'
    <3>1. next' \in [Addrs -> Links]
      BY <1>5, <2>2, Fields
    <3>2. QED
      BY <1>1, <2>2, <2>6, <3>1, Fields DEF TypeOK, Sized
  <2>8. /\ r \in Addrs \ L /\ Tiling(L \cup {r}, size')
        /\ End(size', b) = r /\ End(size', r) = End(size, b)
        /\ \A a \in L \ {b} : End(size', a) = End(size, a)
    <3>1. PICK sz \in Sized, ty \in Sized : sz = size /\ ty = size'
      BY <1>1, <2>6
    <3>2. /\ ty[b] = n /\ ty[r] = sz[b] - n - Header
          /\ sz[b] >= n + Header + Least /\ Tiling(L, sz)
      BY <1>2, <2>3, <2>5, <3>1
    <3>3. r \notin L
      <4>1. /\ \A a \in L : a <= b \/ End(size, b) <= a
            /\ End(size, b) = b + Header + size[b]
        BY <1>1, <1>2, <1>5, Successor, Ends
      <4>2. b \in Nat /\ size[b] \in Nat
        BY <1>5, <2>3, Bounds
      <4>3. r > b /\ r < b + Header + size[b]
        BY <2>1, <2>3, <4>2 DEF Header, Least
      <4>4. QED
        BY <2>1, <4>1, <4>2, <4>3 DEF Header
    <3>5. \A a \in L \ {b} : ty[a] = sz[a]
      BY <2>5, <3>1, <3>3
    <3>6. /\ r \in Addrs \ L /\ Tiling(L \cup {r}, ty)
          /\ End(ty, b) = r /\ End(ty, r) = End(sz, b)
          /\ \A a \in L \ {b} : End(ty, a) = End(sz, a)
      <4>1. CutTo(L, sz, b, n, r, ty)
        BY <1>4, <2>1, <3>2, <3>5 DEF CutTo
      <4>2. QED
        BY ONLY <4>1, TilingSplit
    <3>7. QED
      BY <3>1, <3>6
  <2> DEFINE M == L \cup {r}
  <2>9. \A a \in L : a \in Addrs /\ a # r
    BY <2>8
  <2>10. Chained(c, M)'
    <3>1. next'[r] = After(size', r)
      BY <1>5, <2>5, <2>8 DEF After
    <3>2. \A a \in L \ {b} : next'[a] = After(size', a)
      BY <1>5, <2>5, <2>8, <2>9 DEF After
    <3>3. Mended(c)' = b /\ next'[b] = After(size', End(size', b))
      BY <1>1, <1>3, <1>5, <2>4, <2>5, <2>8 DEF Mended, After
    <3>4. QED
      BY <1>1, <1>3, <2>5, <3>1, <3>2, <3>3 DEF Chained
  <2>11. b + Header \notin InUse /\ r + Header \notin InUse
    <3>1. b + Header \notin InUse
      BY <1>1, <1>2, <1>5 DEF Used
    <3>2. ASSUME NEW p \in InUse PROVE p # r + Header
      <4>1. p - Header \in L
        BY <1>2 DEF Used
      <4>2. p - Header # r
        BY <2>8, <4>1
      <4>3. QED
        BY <2>1, <4>2 DEF Header
    <3>3. QED
      BY <3>1, <3>2
  <2>12. Used(c, M)'
    <3>1. InUse' = InUse
      BY <1>1 DEF InUse
    <3>2. ASSUME NEW p \in InUse
          PROVE  p - Header \in M /\ given'[p] <= size'[p - Header]
      <4>1. p - Header \in L /\ given[p] <= size[p - Header]
        BY <1>2 DEF Used
      <4>2. p - Header # b
        <5>1. p \in Nat
          BY Bounds DEF InUse
        <5>2. p = (p - Header) + Header
          BY <5>1 DEF Header
        <5>3. QED
          BY <2>11, <5>2
      <4>3. QED
        BY <1>1, <2>5, <2>9, <4>1, <4>2
    <3>3. ASSUME NEW a \in M
          PROVE  magic'[a] /\ (free'[a] <=> a + Header \notin InUse)
      <4>1. CASE a = r
        BY <2>5, <2>11, <4>1
      <4>2. CASE a # r
        <5>1. a \in L /\ magic[a] /\ (free[a] <=> a + Header \notin InUse)
          BY <1>1, <1>2, <4>2 DEF Used
        <5>2. QED
          BY <2>5, <2>9, <5>1
      <4>3. QED
        BY <4>1, <4>2
    <3>4. QED
      BY <2>5, <3>1, <3>2, <3>3 DEF Used
  <2>13. Coalesced(c, M)'
    <3>1. \A a \in L \ {b} : End(size', a) # r
      <4>1. \A a \in L \ {b} : End(size, a) \in L \cup {HeapBytes}
        BY <1>2 DEF Tiling
      <4>2. r # HeapBytes
        BY <2>4, Bounds
      <4>3. QED
        BY <2>8, <4>1, <4>2
    <3>2. ASSUME NEW a \in M, End(size', a) \in M, free'[a], free'[End(size', a)]
          PROVE  a = b
      <4>1. CASE a = r
        <5>1. End(size, b) \in L /\ free[b] /\ free[End(size, b)]
          <6>1. End(size', r) # r
            <7>1. size'[r] \in Nat /\ End(size', r) = r + Header + size'[r]
              BY <2>4, <2>6, Ends
            <7>2. QED
              BY <2>1, <7>1 DEF Header
          <6>2. QED
            BY <1>5, <2>5, <2>8, <2>9, <3>2, <4>1, <6>1
        <5>2. QED
          BY <1>7, <5>1
      <4>2. CASE a # r /\ a # b
        <5>1. a \in L /\ End(size, a) \in L /\ free[a] /\ free[End(size, a)]
          BY <2>5, <2>8, <2>9, <3>1, <3>2, <4>2
        <5>2. QED
          BY <1>7, <5>1
      <4>3. QED
        BY <4>1, <4>2
    <3>3. QED
      BY <1>1, <1>3, <2>5, <3>2 DEF Coalesced, Merging
  <2>14. Searching(c, M)'
    <3>1. ASSUME NEW a \in M, a < b
          PROVE  ~(free'[a] /\ size'[a] >= n)
      <4>1. a # r /\ a # b
        BY <1>5, <2>1, <3>1, Bounds DEF Header
      <4>2. a \in L /\ ~(free[a] /\ size[a] >= n)
        BY <1>5, <3>1, <4>1 DEF Fits
      <4>3. QED
        BY <2>5, <2>9, <4>1, <4>2
    <3>2. NoneBefore(c, M)'
      BY <1>1, <1>3, <3>1 DEF NoneBefore, Fits
    <3>3. Fits(curr[c], arg[c])'
      BY <1>1, <1>3, <1>5, <2>4, <2>5 DEF Fits
    <3>4. QED
      BY <1>1, <1>2, <1>3, <2>5, <2>8, <3>2, <3>3 DEF Searching
  <2>15. Freeing(c, M)'
    BY <2>5 DEF Freeing
  <2>16. Tiling(M, size)'
    BY <2>8 DEF Tiling, End
  <2> HIDE DEF M
  <2>17. Shape(c, M)'
    BY <2>10, <2>12, <2>13, <2>14, <2>15, <2>16 DEF Shape
  <2>18. M \in SUBSET Addrs
    BY <2>8 DEF M
  <2>19. QED
    BY <2>7, <2>17, <2>18
<1>10. QED
  BY <1>8, <1>9

LEMMA LinkStep ==
  ASSUME NEW c, Callers = {c}, TypeOK, NEW L \in SUBSET Addrs, Shape(c, L), Link(c)
  PROVE  TypeOK' /\ Shape(c, L)'
<1>1. /\ pc[c] = "link" /\ UNCHANGED <<size, free, magic, given, answer, arg, want, curr>>
      /\ c \in Callers /\ "take" \in Labels /\ NULL \notin L /\ size \in Sized
  BY Bounds, Fields DEF Link, Labels
<1>2. /\ Tiling(L, size) /\ Chained(c, L) /\ Used(c, L) /\ Coalesced(c, L)
      /\ want[c] \in Sizes \ {0} /\ arg[c] = Rounded(want[c])
      /\ curr[c] \in L /\ Fits(curr[c], arg[c]) /\ NoneBefore(c, L)
      /\ size[curr[c]] = arg[c]
      /\ End(size, curr[c]) \in L /\ free[End(size, curr[c])]
  BY <1>1 DEF Shape, Searching
<1>3. PICK b \in L : b = curr[c]
  BY <1>2
<1>4. /\ next' = [next EXCEPT ![b] = b + Header + arg[c]]
      /\ pc' = [pc EXCEPT ![c] = "take"]
  BY <1>3 DEF Link, Goto
<1>5. End(size, b) = b + Header + arg[c] /\ End(size, b) \in L
  BY <1>2, <1>3 DEF End
<1>6. pc'[c] = "take"
  BY <1>1, <1>4, Fields
<1>7. next'[b] = End(size, b) /\ \A a \in Addrs \ {b} : next'[a] = next[a]
  BY <1>4, <1>5, Fields
<1>8. TypeOK'
  <2>1. next' \in [Addrs -> Links]
    BY <1>4, <1>5, Fields DEF Links
  <2>2. QED
    BY <1>1, <1>4, <2>1, Fields DEF TypeOK
<1>9. Tiling(L, size)' /\ Used(c, L)'
  BY <1>1, <1>2, <1>6 DEF Tiling, End, Used, InUse
<1>10. \A a \in L : next'[a] = After(size, a)
  <2>1. After(size, b) = End(size, b)
    BY <1>1, <1>2, <1>5, Successor
  <2>2. \A a \in L \ {b} : next[a] = After(size, a)
    BY <1>1, <1>2, <1>3 DEF Chained, Mended
  <2>3. QED
    BY <1>7, <2>1, <2>2
<1>11. Chained(c, L)'
  BY <1>1, <1>6, <1>10 DEF Chained, After, End
<1>12. Coalesced(c, L)' /\ Freeing(c, L)'
  BY <1>1, <1>2, <1>6 DEF Coalesced, Merging, Freeing, End
<1>13. Searching(c, L)'
  BY <1>1, <1>2, <1>6 DEF Searching, NoneBefore, Fits, End
<1>14. QED
  BY <1>8, <1>9, <1>11, <1>12, <1>13 DEF Shape

LEMMA TakeStep ==
  ASSUME NEW c, Callers = {c}, NoWrap, TypeOK, NEW L \in SUBSET Addrs, Shape(c, L),
         Take(c)
  PROVE  TypeOK' /\ Shape(c, L)'
<1>1. /\ pc[c] = "take" /\ UNCHANGED <<next, size, magic>>
      /\ c \in Callers /\ "idle" \in Labels /\ NULL \in Links /\ NULL \notin L
      /\ size \in Sized /\ 0 \in 0..(Word - 1)
  BY Bounds, Fields DEF Take, Labels, Links
<1>2. /\ Tiling(L, size) /\ Chained(c, L) /\ Used(c, L) /\ Coalesced(c, L)
      /\ want[c] \in Sizes \ {0} /\ arg[c] = Rounded(want[c])
      /\ curr[c] \in L /\ Fits(curr[c], arg[c])
  BY <1>1 DEF Shape, Searching
<1>3. PICK b \in L, p \in Addrs : b = curr[c] /\ p = b + Header
  BY <1>1, <1>2, Successor
<1>4. /\ free' = [free EXCEPT ![b] = FALSE]
      /\ given' = [given EXCEPT ![p] = want[c]]
      /\ answer' = [answer EXCEPT ![c] = [asked |-> want[c], got |-> p]]
      /\ pc' = [pc EXCEPT ![c] = "idle"] /\ arg' = [arg EXCEPT ![c] = 0]
      /\ want' = [want EXCEPT ![c] = 0] /\ curr' = [curr EXCEPT ![c] = NULL]
  BY <1>3 DEF Take, Return, Leave, Goto
<1>5. b \in Addrs /\ b \in Nat /\ p \in Links /\ b = p - Header
  BY <1>3, Bounds DEF Links, Header
<1>6. TypeOK'
  BY <1>1, <1>2, <1>4, <1>5, Fields DEF TypeOK
<1>7. /\ pc'[c] = "idle" /\ free'[b] = FALSE
      /\ \A a \in Addrs \ {b} : free'[a] = free[a]
      /\ given'[p] = want[c] /\ \A a \in Addrs \ {p} : given'[a] = given[a]
  BY <1>1, <1>4, <1>5, Fields
<1>8. InUse' = InUse \cup {p}
  BY <1>2, <1>7 DEF InUse
<1>9. want[c] <= size[b]
  <2>1. /\ Rounded(want[c]) >= want[c] /\ Rounded(want[c]) \in Nat
    BY <1>2, RoundedUp
  <2>2. want[c] \in Nat /\ size[b] \in Nat
    <3>1. PICK n \in Sizes \ {0} : n = want[c]
      BY <1>2
    <3>2. n \in Nat
      BY HeapAssumption
    <3>3. QED
      BY <1>1, <1>5, <3>1, <3>2, Ends
  <2>3. size[b] >= arg[c]
    BY <1>2, <1>3 DEF Fits
  <2>4. QED
    BY <1>2, <2>1, <2>2, <2>3
<1>10. Tiling(L, size)'
  BY <1>1, <1>2 DEF Tiling, End
<1>11. Chained(c, L)'
  BY <1>1, <1>2, <1>7 DEF Chained, Mended, After, End
<1>12. Used(c, L)'
  <2>1. ASSUME NEW q \in InUse'
        PROVE  q - Header \in L /\ given'[q] <= size[q - Header]
    <3>1. CASE q = p
      BY <1>5, <1>7, <1>9, <3>1
    <3>2. CASE q # p
      BY <1>2, <1>7, <1>8, <3>2 DEF Used, InUse
    <3>3. QED
      BY <3>1, <3>2
  <2>2. ASSUME NEW a \in L
        PROVE  magic[a] /\ (free'[a] <=> a + Header \notin InUse')
    <3>1. magic[a] /\ (free[a] <=> a + Header \notin InUse) /\ a \in Addrs /\ a \in Nat
      BY <1>1, <1>2, Bounds DEF Used
    <3>2. CASE a = b
      BY <1>3, <1>7, <1>8, <3>1, <3>2
    <3>3. CASE a # b
      <4>1. a + Header # p
        BY <1>5, <3>1, <3>3 DEF Header
      <4>2. QED
        BY <1>7, <1>8, <3>1, <3>3, <4>1
    <3>4. QED
      BY <3>2, <3>3
  <2>3. QED
    BY <1>1, <1>7, <2>1, <2>2 DEF Used
<1>13. Coalesced(c, L)'
  <2>1. ASSUME NEW a \in L, End(size, a) \in L, free'[a], free'[End(size, a)]
        PROVE  FALSE
    <3>1. a # b /\ free[a] /\ free[End(size, a)]
      BY <1>7, <2>1
    <3>2. QED
      BY <1>1, <1>2, <1>3, <2>1, <3>1 DEF Coalesced, Merging
  <2>2. QED
    BY <1>1, <2>1 DEF Coalesced, End
<1>14. Searching(c, L)' /\ Freeing(c, L)'
  BY <1>7 DEF Searching, Freeing
<1>15. QED
  BY <1>6, <1>10, <1>11, <1>12, <1>13, <1>14 DEF Shape

LEMMA KfreeStep ==
  ASSUME NEW c, Callers = {c}, TypeOK, NEW L \in SUBSET Addrs, Shape(c, L),
         NEW p \in Addrs, Kfree(c, p)
  PROVE  TypeOK' /\ Shape(c, L)'
<1>1. /\ pc[c] = "idle" /\ p \in InUse /\ UNCHANGED <<headers, answer, want, curr>>
      /\ given' = [given EXCEPT ![p] = 0]
      /\ arg' = [arg EXCEPT ![c] = p - Header] /\ pc' = [pc EXCEPT ![c] = "mark"]
      /\ c \in Callers /\ "mark" \in Labels /\ NULL \notin L /\ size \in Sized
      /\ next' = next /\ size' = size /\ free' = free /\ magic' = magic
  BY Bounds, Fields DEF Kfree, Goto, InUse, Labels, headers
<1>2. Tiling(L, size) /\ Chained(c, L) /\ Used(c, L) /\ Coalesced(c, L)
  BY DEF Shape
<1>3. PICK b \in L : b = p - Header
  BY <1>1, <1>2 DEF Used
<1>4. b \in Addrs /\ b \in Nat /\ p \in Nat /\ p = b + Header /\ b \in 0..(Word - 1)
  BY <1>3, Bounds DEF Header, Least
<1>5. TypeOK'
  BY <1>1, <1>3, <1>4, Fields DEF TypeOK
<1>6. /\ pc'[c] = "mark" /\ arg'[c] = b /\ given'[p] = 0
      /\ \A a \in Addrs \ {p} : given'[a] = given[a]
  BY <1>1, <1>3, Fields
<1>7. InUse' = InUse \ {p}
  BY <1>6 DEF InUse
<1>8. Tiling(L, size)' /\ Coalesced(c, L)'
  BY <1>1, <1>2 DEF Tiling, Coalesced, Merging, End
<1>9. Chained(c, L)'
  BY <1>1, <1>2, <1>6 DEF Chained, Mended, After, End
<1>10. Used(c, L)'
  <2>1. ASSUME NEW q \in InUse'
        PROVE  q - Header \in L /\ given'[q] <= size[q - Header]
    BY <1>2, <1>6, <1>7 DEF Used, InUse
  <2>2. ASSUME NEW a \in L
        PROVE  /\ magic[a]
               /\ free[a] <=> a + Header \notin InUse' /\ a # b
    <3>1. magic[a] /\ (free[a] <=> a + Header \notin InUse) /\ a \in Nat
      BY <1>1, <1>2, Bounds DEF Used
    <3>2. CASE a = b
      BY <1>1, <1>4, <3>1, <3>2
    <3>3. CASE a # b
      <4>1. a + Header # p
        BY <1>4, <3>1, <3>3 DEF Header
      <4>2. QED
        BY <1>7, <3>1, <3>3, <4>1
    <3>4. QED
      BY <3>2, <3>3
  <2>3. QED
    BY <1>1, <1>6, <2>1, <2>2 DEF Used
<1>11. Searching(c, L)' /\ Freeing(c, L)'
  BY <1>4, <1>6, <1>7 DEF Searching, Freeing
<1>12. QED
  BY <1>5, <1>8, <1>9, <1>10, <1>11 DEF Shape

LEMMA MarkStep ==
  ASSUME NEW c, Callers = {c}, TypeOK, NEW L \in SUBSET Addrs, Shape(c, L), Mark(c)
  PROVE  TypeOK' /\ Shape(c, L)'
<1>1. /\ pc[c] = "mark" /\ UNCHANGED <<next, size, magic, given, answer>>
      /\ c \in Callers /\ "right" \in Labels /\ NULL \notin L /\ size \in Sized
  BY Bounds, Fields DEF Mark, Labels
<1>2. /\ Tiling(L, size) /\ Chained(c, L) /\ Used(c, L) /\ Coalesced(c, L)
      /\ arg[c] \in L /\ arg[c] + Header \notin InUse
  BY <1>1 DEF Shape, Freeing
<1>3. PICK b \in L : b = arg[c]
  BY <1>2
<1>4. magic[b] /\ b \in Addrs /\ ~free[b]
  BY <1>1, <1>2, <1>3 DEF Used
<1>5. /\ free' = [free EXCEPT ![b] = TRUE] /\ pc' = [pc EXCEPT ![c] = "right"]
      /\ UNCHANGED <<arg, want, curr>>
  BY <1>3, <1>4 DEF Mark, Goto
<1>6. TypeOK'
  BY <1>1, <1>5, Fields DEF TypeOK
<1>7. /\ pc'[c] = "right" /\ free'[b] = TRUE
      /\ \A a \in Addrs \ {b} : free'[a] = free[a]
  BY <1>1, <1>4, <1>5, Fields
<1>8. Tiling(L, size)'
  BY <1>1, <1>2 DEF Tiling, End
<1>9. Chained(c, L)'
  BY <1>1, <1>2, <1>7 DEF Chained, Mended, After, End
<1>10. Used(c, L)'
  <2>1. InUse' = InUse /\ \A p \in InUse : given'[p] = given[p]
    BY <1>1 DEF InUse
  <2>2. \A a \in L : free'[a] <=> a + Header \notin InUse
    BY <1>1, <1>2, <1>3, <1>7 DEF Used
  <2>3. QED
    BY <1>1, <1>2, <1>7, <2>1, <2>2 DEF Used
<1>11. Coalesced(c, L)'
  <2>1. ASSUME NEW a \in L, End(size, a) \in L, free'[a], free'[End(size, a)]
        PROVE  a = b \/ End(size, a) = b
    BY <1>1, <1>2, <1>7, <2>1 DEF Coalesced, Merging
  <2>2. QED
    BY <1>1, <1>3, <1>5, <1>7, <2>1 DEF Coalesced, Merging, End
<1>12. Searching(c, L)' /\ Freeing(c, L)'
  BY <1>3, <1>5, <1>7 DEF Searching, Freeing
<1>13. QED
  BY <1>6, <1>8, <1>9, <1>10, <1>11, <1>12 DEF Shape

\* Merging r into b does not touch what the callers have.
LEMMA MergedUsed ==
  ASSUME NEW c, NEW L \in SUBSET Addrs, Tiling(L, size), size \in Sized, Used(c, L),
         NEW b \in L, NEW r \in L, b # r, free[b], free[r],
         \A a \in L \ {b, r} : size'[a] = size[a],
         UNCHANGED <<free, magic, given>>, pc[c] # "mark", pc'[c] # "mark"
  PROVE  Used(c, L \ {r})'
<1>1. InUse' = InUse
  BY DEF InUse
<1>2. b + Header \notin InUse /\ r + Header \notin InUse
  BY DEF Used
<1>3. ASSUME NEW p \in InUse
      PROVE  p - Header \in L \ {r} /\ given'[p] <= size'[p - Header]
  <2>1. p - Header \in L /\ given[p] <= size[p - Header]
    BY DEF Used
  <2>2. p \in Nat /\ (p - Header) + Header = p
    BY Bounds DEF InUse, Header
  <2>3. p - Header # b /\ p - Header # r
    BY <1>2, <2>2
  <2>4. QED
    BY <2>1, <2>3
<1>4. \A a \in L \ {r} : magic'[a] /\ (free'[a] <=> a + Header \notin InUse)
  BY DEF Used
<1>5. QED
  BY <1>1, <1>3, <1>4 DEF Used

LEMMA RightStep ==
  ASSUME NEW c, Callers = {c}, TypeOK, NEW L \in SUBSET Addrs, Shape(c, L), Right(c)
  PROVE  TypeOK' /\ \E M \in SUBSET Addrs : Shape(c, M)'
<1>1. /\ pc[c] = "right"
      /\ UNCHANGED <<next, free, magic, given, answer, arg, want>>
      /\ c \in Callers /\ {"unlink", "walk"} \subseteq Labels /\ NULL \notin L
      /\ size \in Sized /\ 0 \in Links /\ \A a \in L : a \in Nat /\ a < HeapBytes
      /\ HeapBytes \in Nat
  BY Bounds, Fields DEF Right, Labels, Links
<1>2. /\ Tiling(L, size) /\ Chained(c, L) /\ Used(c, L) /\ Coalesced(c, L)
      /\ arg[c] \in L /\ free[arg[c]]
  BY <1>1 DEF Shape, Freeing
<1>3. PICK b \in L : b = arg[c]
  BY <1>2
<1>4. /\ \A a \in L : next[a] = After(size, a)
      /\ next[b] = IF End(size, b) \in L THEN End(size, b) ELSE NULL
      /\ free[b] /\ b \in Addrs
  BY <1>1, <1>2, <1>3, Successor DEF Chained, Mended
<1>5. CASE next[b] # NULL /\ free[next[b]]
  <2>1. PICK r \in L : r = next[b] /\ r = End(size, b) /\ free[r] /\ r \in Addrs
    BY <1>4, <1>5
  <2>2. /\ size' = [size EXCEPT ![b] = size[b] + Header + size[r]]
        /\ pc' = [pc EXCEPT ![c] = "unlink"] /\ curr' = curr
    BY <1>3, <1>5, <2>1 DEF Right, Absorbs, Goto
  <2>3. /\ size'[b] = size[b] + Header + size[r] /\ pc'[c] = "unlink"
        /\ \A a \in Addrs \ {b} : size'[a] = size[a]
    BY <1>1, <1>4, <2>2, Fields DEF Sized
  <2>4. /\ Tiling(L \ {r}, size') /\ b < r /\ End(size', b) = End(size, r)
        /\ size'[b] \in 0..(HeapBytes - Header)
        /\ \A a \in L \ {b, r} : End(size', a) = End(size, a) /\ End(size, a) # r
    <3>1. PICK sz, ty : sz = size /\ ty = size'
      BY <1>1
    <3>2. MergedTo(L, sz, b, r, ty)
      BY <1>1, <1>2, <2>1, <2>3, <3>1 DEF MergedTo
    <3>3. Merged(L, sz, b, r, ty)
      BY ONLY <3>2, TilingMerge
    <3>4. QED
      BY <3>1, <3>3 DEF Merged
  <2> DEFINE M == L \ {r}
  <2>5. TypeOK'
    <3>1. size' \in Sized
      BY <1>1, <1>4, <2>2, <2>3, <2>4 DEF Sized
    <3>2. QED
      BY <1>1, <2>2, <3>1, Fields DEF TypeOK, Sized
  <2>6. Tiling(M, size)'
    BY <2>4 DEF Tiling, End
  <2>7. Chained(c, M)'
    <3>1. \A a \in M \ {b} : next'[a] = After(size', a)
      BY <1>1, <1>4, <2>4 DEF After
    <3>2. next'[b] = r /\ next'[r] = After(size', b)
      BY <1>1, <1>4, <2>1, <2>4 DEF After
    <3>3. QED
      BY <1>1, <1>3, <2>1, <2>3, <3>1, <3>2 DEF Chained, Mended
  <2>8. Used(c, M)'
    BY <1>1, <1>2, <1>4, <2>1, <2>3, <2>4, MergedUsed
  <2>9. Coalesced(c, M)'
    <3>1. ASSUME NEW a \in M, End(size', a) \in M, free[a], free[End(size', a)]
          PROVE  End(size', a) = b
      <4>1. CASE a = b
        <5>1. End(size, r) \in L /\ free[End(size, r)]
          BY <2>4, <3>1, <4>1
        <5>2. End(size, r) >= r + Header + Least /\ End(size, r) \in Nat
          BY <1>1, <1>2, Successor
        <5>3. r # b /\ End(size, r) # b
          BY <1>1, <2>4, <5>2 DEF Header, Least
        <5>4. QED
          BY <1>1, <1>2, <1>3, <2>1, <5>1, <5>3 DEF Coalesced, Merging
      <4>2. CASE a # b
        BY <1>1, <1>2, <1>3, <2>4, <3>1, <4>2 DEF Coalesced, Merging
      <4>3. QED
        BY <4>1, <4>2
    <3>2. QED
      BY <1>1, <1>3, <2>3, <3>1 DEF Coalesced, Merging
  <2>10. Searching(c, M)' /\ Freeing(c, M)'
    BY <1>1, <1>3, <1>4, <2>3, <2>4 DEF Searching, Freeing
  <2> HIDE DEF M
  <2>11. Shape(c, M)'
    BY <2>6, <2>7, <2>8, <2>9, <2>10 DEF Shape
  <2>12. QED
    BY <2>5, <2>11 DEF M
<1>6. CASE ~(next[b] # NULL /\ free[next[b]])
  <2>1. /\ size' = size /\ pc' = [pc EXCEPT ![c] = "walk"]
        /\ curr' = [curr EXCEPT ![c] = 0]
    BY <1>3, <1>6 DEF Right, Walk, Goto
  <2>2. pc'[c] = "walk" /\ curr'[c] = 0
    BY <1>1, <2>1, Fields
  <2>3. TypeOK'
    BY <1>1, <2>1, Fields DEF TypeOK
  <2>4. Tiling(L, size)' /\ Chained(c, L)' /\ Used(c, L)'
    BY <1>1, <1>2, <2>1, <2>2, MoveShape DEF headers
  <2>5. Coalesced(c, L)'
    <3>1. ASSUME NEW a \in L, End(size, a) \in L, free[a], free[End(size, a)]
          PROVE  End(size, a) = b
      <4>1. a # b
        BY <1>1, <1>4, <1>6, <3>1
      <4>2. QED
        BY <1>1, <1>2, <1>3, <3>1, <4>1 DEF Coalesced, Merging
    <3>2. QED
      BY <1>1, <1>3, <2>1, <2>2, <3>1 DEF Coalesced, Merging, End
  <2>6. Searching(c, L)' /\ Freeing(c, L)'
    <3>1. 0 \in L /\ (b = 0 \/ 0 < b)
      BY <1>1, <1>2 DEF Tiling
    <3>2. QED
      BY <1>1, <1>3, <1>4, <2>2, <3>1 DEF Searching, Freeing
  <2>7. QED
    BY <2>3, <2>4, <2>5, <2>6 DEF Shape
<1>7. QED
  BY <1>5, <1>6

LEMMA UnlinkStep ==
  ASSUME NEW c, Callers = {c}, TypeOK, NEW L \in SUBSET Addrs, Shape(c, L), Unlink(c)
  PROVE  TypeOK' /\ Shape(c, L)'
<1>1. /\ pc[c] = "unlink" /\ UNCHANGED <<size, free, magic, given, answer, arg, want>>
      /\ c \in Callers /\ "walk" \in Labels /\ NULL \notin L
      /\ size \in Sized /\ 0 \in Links /\ \A a \in L : a \in Nat
  BY Bounds, Fields DEF Unlink, Labels, Links
<1>2. /\ Tiling(L, size) /\ Chained(c, L) /\ Used(c, L) /\ Coalesced(c, L)
      /\ arg[c] \in L /\ free[arg[c]]
  BY <1>1 DEF Shape, Freeing
<1>3. PICK b \in L : b = arg[c]
  BY <1>2
<1>4. /\ next' = [next EXCEPT ![b] = next[next[b]]]
      /\ pc' = [pc EXCEPT ![c] = "walk"] /\ curr' = [curr EXCEPT ![c] = 0]
  BY <1>3 DEF Unlink, Walk, Goto
<1>5. /\ pc'[c] = "walk" /\ curr'[c] = 0 /\ b \in Addrs
      /\ next'[b] = next[next[b]] /\ \A a \in Addrs \ {b} : next'[a] = next[a]
  BY <1>1, <1>4, Fields
<1>6. next[b] \in Addrs /\ next[next[b]] = After(size, b)
  BY <1>1, <1>2, <1>3 DEF Chained
<1>7. TypeOK'
  <2>1. next[next[b]] \in Links
    BY <1>6, Fields
  <2>2. next' \in [Addrs -> Links]
    BY <1>4, <2>1, Fields
  <2>3. QED
    BY <1>1, <1>4, <2>2, Fields DEF TypeOK
<1>8. Tiling(L, size)'
  BY <1>1, <1>2 DEF Tiling, End
<1>9. Chained(c, L)'
  <2>1. \A a \in L : next'[a] = After(size, a)
    BY <1>1, <1>2, <1>3, <1>5, <1>6 DEF Chained, Mended
  <2>2. QED
    BY <1>1, <1>5, <2>1 DEF Chained, After, End
<1>10. Used(c, L)'
  BY <1>1, <1>2, <1>5 DEF Used, InUse
<1>11. Coalesced(c, L)'
  BY <1>1, <1>2, <1>5 DEF Coalesced, Merging, End
<1>12. Searching(c, L)' /\ Freeing(c, L)'
  <2>1. 0 \in L /\ (b = 0 \/ 0 < b)
    BY <1>1, <1>2 DEF Tiling
  <2>2. QED
    BY <1>1, <1>2, <1>3, <1>5, <2>1 DEF Searching, Freeing
<1>13. QED
  BY <1>7, <1>8, <1>9, <1>10, <1>11, <1>12 DEF Shape

LEMMA WalkStep ==
  ASSUME NEW c, Callers = {c}, TypeOK, NEW L \in SUBSET Addrs, Shape(c, L), WalkOn(c)
  PROVE  TypeOK' /\ Shape(c, L)'
<1>1. /\ pc[c] = "walk" /\ UNCHANGED <<headers, given, answer, arg, want>>
      /\ c \in Callers /\ "left" \in Labels /\ NULL \notin L
      /\ next' = next /\ size' = size /\ free' = free
      /\ size \in Sized /\ \A a \in L : a \in Nat /\ a < HeapBytes
      /\ HeapBytes \in Nat
  BY Bounds, Fields DEF WalkOn, Labels, headers
<1>2. /\ Tiling(L, size) /\ Chained(c, L) /\ Used(c, L) /\ Coalesced(c, L)
      /\ arg[c] \in L /\ free[arg[c]]
      /\ IF arg[c] = 0 THEN curr[c] \in L \cup {NULL}
         ELSE curr[c] \in L /\ curr[c] < arg[c]
  BY <1>1 DEF Shape, Freeing
<1>3. PICK b \in L : b = arg[c]
  BY <1>2
<1>4. \A a \in L : next[a] = After(size, a)
  BY <1>1, <1>2 DEF Chained, Mended
<1>5. ASSUME NEW a \in L
      PROVE  /\ next[a] = IF End(size, a) \in L THEN End(size, a) ELSE NULL
             /\ End(size, a) \in Nat /\ End(size, a) > a /\ next[a] # 0
             /\ a < b => End(size, a) <= b
  <2>1. /\ After(size, a) = IF End(size, a) \in L THEN End(size, a) ELSE NULL
        /\ End(size, a) >= a + Header + Least /\ End(size, a) \in Nat
    BY <1>1, <1>2, Successor
  <2>2. End(size, a) > a /\ 0 # End(size, a) /\ 0 # NULL
    BY <1>1, <2>1, Bounds DEF Header, Least
  <2>3. a < b => End(size, a) <= b
    BY <1>2 DEF Tiling
  <2>4. QED
    BY <1>4, <2>1, <2>2, <2>3
<1>6. CASE curr[c] # NULL /\ next[curr[c]] # arg[c]
  <2>1. curr' = [curr EXCEPT ![c] = next[curr[c]]] /\ pc' = pc
    BY <1>6 DEF WalkOn
  <2>2. PICK a \in L : a = curr[c]
    BY <1>2, <1>6
  <2>3. curr'[c] = next[a] /\ next[a] \in Links
    BY <1>1, <2>1, <2>2, Fields
  <2>4. TypeOK'
    BY <1>1, <2>1, <2>2, <2>3, Fields DEF TypeOK, headers
  <2>5. Tiling(L, size)' /\ Chained(c, L)' /\ Used(c, L)'
    BY <1>1, <1>2, <2>1, MoveShape
  <2>6. Coalesced(c, L)' /\ Searching(c, L)'
    BY <1>1, <1>2, <2>1 DEF Coalesced, Merging, Searching, End
  <2>7. IF b = 0 THEN next[a] \in L \cup {NULL} ELSE next[a] \in L /\ next[a] < b
    <3>1. CASE b = 0
      BY <1>5, <3>1
    <3>2. CASE b # 0
      <4>1. a < b /\ next[a] # b
        BY <1>2, <1>3, <1>6, <2>2, <3>2
      <4>2. End(size, a) <= b /\ End(size, a) # HeapBytes
        BY <1>1, <1>5, <4>1
      <4>3. End(size, a) \in L
        BY <1>2, <4>2 DEF Tiling
      <4>4. QED
        BY <1>1, <1>5, <3>2, <4>1, <4>2, <4>3
    <3>3. QED
      BY <3>1, <3>2
  <2>8. Freeing(c, L)'
    BY <1>1, <1>2, <1>3, <2>1, <2>3, <2>7 DEF Freeing
  <2>9. QED
    BY <2>4, <2>5, <2>6, <2>8 DEF Shape
<1>7. CASE ~(curr[c] # NULL /\ next[curr[c]] # arg[c])
  <2>1. pc' = [pc EXCEPT ![c] = "left"] /\ curr' = curr
    BY <1>7 DEF WalkOn, Goto
  <2>2. pc'[c] = "left"
    BY <1>1, <2>1, Fields
  <2>3. TypeOK'
    BY <1>1, <2>1, Fields DEF TypeOK, headers
  <2>4. Tiling(L, size)' /\ Chained(c, L)' /\ Used(c, L)'
    BY <1>1, <1>2, <2>2, MoveShape
  <2>5. Coalesced(c, L)' /\ Searching(c, L)'
    BY <1>1, <1>2, <2>2 DEF Coalesced, Merging, Searching, End
  <2>6. IF b = 0 THEN curr[c] = NULL ELSE curr[c] \in L /\ next[curr[c]] = b
    BY <1>1, <1>2, <1>3, <1>5, <1>7
  <2>7. Freeing(c, L)'
    BY <1>1, <1>2, <1>3, <2>1, <2>2, <2>6 DEF Freeing
  <2>8. QED
    BY <2>3, <2>4, <2>5, <2>7 DEF Shape
<1>8. QED
  BY <1>6, <1>7

LEMMA LeftStep ==
  ASSUME NEW c, Callers = {c}, TypeOK, NEW L \in SUBSET Addrs, Shape(c, L), Left(c)
  PROVE  TypeOK' /\ \E M \in SUBSET Addrs : Shape(c, M)'
<1>1. /\ pc[c] = "left" /\ UNCHANGED <<next, free, magic, given, answer>>
      /\ c \in Callers /\ {"join", "idle"} \subseteq Labels /\ NULL \notin L
      /\ NULL \in Links /\ Word \in Nat /\ Word > 0
      /\ size \in Sized /\ \A a \in L : a \in Nat /\ a < HeapBytes
      /\ HeapBytes \in Nat
  BY Bounds, Fields DEF Left, Labels, Links
<1>2. /\ Tiling(L, size) /\ Chained(c, L) /\ Used(c, L) /\ Coalesced(c, L)
      /\ arg[c] \in L /\ free[arg[c]]
      /\ IF arg[c] = 0 THEN curr[c] = NULL
         ELSE curr[c] \in L /\ next[curr[c]] = arg[c]
  BY <1>1 DEF Shape, Freeing
<1>3. PICK r \in L : r = arg[c]
  BY <1>2
<1>4. /\ \A a \in L : next[a] = After(size, a)
      /\ free[r] /\ r \in Addrs /\ r # NULL
  BY <1>1, <1>2, <1>3 DEF Chained, Mended
\* Only the block that the walk found can end where this one begins.
<1>5. ASSUME NEW a \in L, End(size, a) = r
      PROVE  curr[c] \in L /\ a = curr[c]
  <2>1. End(size, a) > a /\ End(size, a) \in Nat
    BY <1>1, <1>2, Successor DEF Header, Least
  <2>2. r # 0
    BY <1>1, <1>5, <2>1
  <2>3. PICK b \in L : b = curr[c] /\ next[b] = r
    BY <1>2, <1>3, <2>2
  <2>4. End(size, b) = r /\ End(size, b) > b
    BY <1>1, <1>2, <1>4, <2>3, Successor DEF Header, Least
  <2>5. ~(a < b) /\ ~(b < a)
    BY <1>1, <1>2, <1>5, <2>1, <2>4 DEF Tiling
  <2>6. QED
    BY <1>1, <2>3, <2>5
<1>6. CASE curr[c] # NULL /\ free[curr[c]]
  <2>1. PICK b \in L : b = curr[c] /\ free[b] /\ b \in Addrs /\ next[b] = r
    BY <1>2, <1>3, <1>6
  <2>2. /\ size' = [size EXCEPT ![b] = size[b] + Header + size[r]]
        /\ pc' = [pc EXCEPT ![c] = "join"] /\ UNCHANGED <<arg, want, curr>>
    BY <1>3, <1>6, <2>1 DEF Left, Absorbs, Goto
  <2>3. /\ size'[b] = size[b] + Header + size[r] /\ pc'[c] = "join"
        /\ \A a \in Addrs \ {b} : size'[a] = size[a]
    BY <1>1, <2>1, <2>2, Fields DEF Sized
  <2>4. End(size, b) = r
    BY <1>1, <1>2, <1>4, <2>1, Successor
  <2>5. /\ Tiling(L \ {r}, size') /\ b < r /\ End(size', b) = End(size, r)
        /\ size'[b] \in 0..(HeapBytes - Header)
        /\ \A a \in L \ {b, r} : End(size', a) = End(size, a) /\ End(size, a) # r
    <3>1. PICK sz, ty : sz = size /\ ty = size'
      BY <1>1
    <3>2. MergedTo(L, sz, b, r, ty)
      BY <1>1, <1>2, <2>1, <2>3, <2>4, <3>1 DEF MergedTo
    <3>3. Merged(L, sz, b, r, ty)
      BY ONLY <3>2, TilingMerge
    <3>4. QED
      BY <3>1, <3>3 DEF Merged
  <2> DEFINE M == L \ {r}
  <2>6. TypeOK'
    <3>1. size' \in Sized
      BY <1>1, <2>1, <2>2, <2>3, <2>5 DEF Sized
    <3>2. QED
      BY <1>1, <2>2, <3>1, Fields DEF TypeOK, Sized
  <2>7. Tiling(M, size)'
    BY <2>5 DEF Tiling, End
  <2>8. Chained(c, M)'
    <3>1. \A a \in M \ {b} : next'[a] = After(size', a)
      BY <1>1, <1>4, <2>5 DEF After
    <3>2. next'[r] = After(size', b)
      BY <1>1, <1>4, <2>5 DEF After
    <3>3. QED
      BY <1>1, <1>3, <2>1, <2>2, <2>3, <3>1, <3>2 DEF Chained, Mended
  <2>9. Used(c, M)'
    BY <1>1, <1>2, <1>4, <2>1, <2>3, <2>5, MergedUsed
  <2>10. Coalesced(c, M)'
    <3>1. ASSUME NEW a \in M, End(size', a) \in M, free[a], free[End(size', a)]
          PROVE  FALSE
      <4>1. CASE a = b
        <5>1. End(size, r) \in L /\ free[End(size, r)]
          BY <2>5, <3>1, <4>1
        <5>2. End(size, r) >= r + Header + Least /\ End(size, r) \in Nat
          BY <1>1, <1>2, Successor
        <5>3. r # End(size, r)
          BY <1>1, <5>2 DEF Header, Least
        <5>4. QED
          BY <1>1, <1>2, <1>3, <1>4, <5>1, <5>3 DEF Coalesced, Merging
      <4>2. CASE a # b
        BY <1>1, <1>2, <1>3, <2>5, <3>1, <4>2 DEF Coalesced, Merging
      <4>3. QED
        BY <4>1, <4>2
    <3>2. QED
      BY <1>1, <3>1 DEF Coalesced
  <2>11. Searching(c, M)' /\ Freeing(c, M)'
    BY <1>1, <1>3, <1>4, <2>1, <2>2, <2>3, <2>5 DEF Searching, Freeing
  <2> HIDE DEF M
  <2>12. Shape(c, M)'
    BY <2>7, <2>8, <2>9, <2>10, <2>11 DEF Shape
  <2>13. QED
    BY <2>6, <2>12 DEF M
<1>7. CASE ~(curr[c] # NULL /\ free[curr[c]])
  <2>1. /\ size' = size /\ pc' = [pc EXCEPT ![c] = "idle"]
        /\ arg' = [arg EXCEPT ![c] = 0] /\ want' = [want EXCEPT ![c] = 0]
        /\ curr' = [curr EXCEPT ![c] = NULL]
    BY <1>7 DEF Left, Leave, Goto
  <2>2. pc'[c] = "idle"
    BY <1>1, <2>1, Fields
  <2>3. TypeOK'
    BY <1>1, <2>1, Fields DEF TypeOK
  <2>4. Tiling(L, size)' /\ Chained(c, L)' /\ Used(c, L)'
    BY <1>1, <1>2, <2>1, <2>2, MoveShape DEF headers
  <2>5. Coalesced(c, L)'
    <3>1. ASSUME NEW a \in L, End(size, a) \in L, free[a], free[End(size, a)]
          PROVE  FALSE
      <4>1. End(size, a) = r
        BY <1>1, <1>2, <1>3, <3>1 DEF Coalesced, Merging
      <4>2. QED
        BY <1>1, <1>5, <1>7, <3>1, <4>1
    <3>2. QED
      BY <1>1, <2>1, <3>1 DEF Coalesced, End
  <2>6. Searching(c, L)' /\ Freeing(c, L)'
    BY <2>2 DEF Searching, Freeing
  <2>7. QED
    BY <2>3, <2>4, <2>5, <2>6 DEF Shape
<1>8. QED
  BY <1>6, <1>7

LEMMA JoinStep ==
  ASSUME NEW c, Callers = {c}, TypeOK, NEW L \in SUBSET Addrs, Shape(c, L), Join(c)
  PROVE  TypeOK' /\ Shape(c, L)'
<1>1. /\ pc[c] = "join" /\ UNCHANGED <<size, free, magic, given, answer>>
      /\ c \in Callers /\ "idle" \in Labels /\ NULL \notin L
      /\ NULL \in Links /\ Word \in Nat /\ Word > 0 /\ size \in Sized
  BY Bounds, Fields DEF Join, Labels, Links
<1>2. /\ Tiling(L, size) /\ Chained(c, L) /\ Used(c, L) /\ Coalesced(c, L)
      /\ curr[c] \in L /\ arg[c] \in Addrs
  BY <1>1 DEF Shape, Freeing
<1>3. PICK b \in L, r \in Addrs : b = curr[c] /\ r = arg[c] /\ b \in Addrs
  BY <1>2
<1>4. /\ next' = [next EXCEPT ![b] = next[r]]
      /\ pc' = [pc EXCEPT ![c] = "idle"] /\ arg' = [arg EXCEPT ![c] = 0]
      /\ want' = [want EXCEPT ![c] = 0] /\ curr' = [curr EXCEPT ![c] = NULL]
  BY <1>3 DEF Join, Leave, Goto
<1>5. /\ pc'[c] = "idle" /\ next'[b] = next[r]
      /\ \A a \in Addrs \ {b} : next'[a] = next[a]
  BY <1>1, <1>3, <1>4, Fields
<1>6. next[r] = After(size, b)
  BY <1>1, <1>2, <1>3 DEF Chained
<1>7. TypeOK'
  <2>1. next[r] \in Links
    BY <1>3, Fields
  <2>2. next' \in [Addrs -> Links]
    BY <1>4, <2>1, Fields
  <2>3. QED
    BY <1>1, <1>4, <2>2, Fields DEF TypeOK
<1>8. Tiling(L, size)'
  BY <1>1, <1>2 DEF Tiling, End
<1>9. Chained(c, L)'
  <2>1. \A a \in L : next'[a] = After(size, a)
    BY <1>1, <1>2, <1>3, <1>5, <1>6 DEF Chained, Mended
  <2>2. QED
    BY <1>1, <1>5, <2>1 DEF Chained, After, End
<1>10. Used(c, L)'
  BY <1>1, <1>2, <1>5 DEF Used, InUse
<1>11. Coalesced(c, L)'
  BY <1>1, <1>2, <1>5 DEF Coalesced, Merging, End
<1>12. Searching(c, L)' /\ Freeing(c, L)'
  BY <1>5 DEF Searching, Freeing
<1>13. QED
  BY <1>7, <1>8, <1>9, <1>10, <1>11, <1>12 DEF Shape

-----------------------------------------------------------------------------
LEMMA HeapInit ==
  ASSUME NEW c, Callers = {c}, Init
  PROVE  HeapInv(c)
<1>1. /\ next = [a \in Addrs |-> NULL]
      /\ size = [a \in Addrs |-> IF a = 0 THEN HeapBytes - Header ELSE 0]
      /\ free = [a \in Addrs |-> a = 0] /\ magic = [a \in Addrs |-> a = 0]
      /\ given = [a \in Addrs |-> 0]
      /\ answer = [d \in Callers |-> [asked |-> 0, got |-> NULL]]
      /\ pc = [d \in Callers |-> "idle"] /\ arg = [d \in Callers |-> 0]
      /\ want = [d \in Callers |-> 0] /\ curr = [d \in Callers |-> NULL]
  BY DEF Init
<1>2. /\ HeapBytes - Header \in Nat /\ HeapBytes - Header >= Least
      /\ 0 + Header + (HeapBytes - Header) = HeapBytes
      /\ 0 \in 0..(HeapBytes - Header) /\ HeapBytes - Header \in 0..(HeapBytes - Header)
      /\ 0 \in 0..(Word - 1) /\ NULL \in Links /\ "idle" \in Labels /\ 0 \in Addrs
      /\ c \in Callers
  BY Bounds DEF Header, Least, Links, Labels
<1>3. TypeOK
  BY <1>1, <1>2 DEF TypeOK
<1>4. /\ pc[c] = "idle" /\ size[0] = HeapBytes - Header /\ free[0] = TRUE
      /\ magic[0] = TRUE /\ next[0] = NULL
  BY <1>1, <1>2
<1>5. End(size, 0) = HeapBytes /\ HeapBytes # 0
  BY <1>2, <1>4, Bounds DEF End
<1>6. Tiling({0}, size)
  BY <1>2, <1>4, <1>5 DEF Tiling
<1>7. Chained(c, {0})
  BY <1>4, <1>5 DEF Chained, After
<1>8. Used(c, {0})
  <2>1. InUse = {}
    BY <1>1 DEF InUse
  <2>2. QED
    BY <1>4, <2>1 DEF Used
<1>9. Coalesced(c, {0}) /\ Searching(c, {0}) /\ Freeing(c, {0})
  BY <1>4, <1>5 DEF Coalesced, Searching, Freeing
<1>10. Shape(c, {0})
  BY <1>6, <1>7, <1>8, <1>9 DEF Shape
<1>11. QED
  BY <1>2, <1>3, <1>10 DEF HeapInv

LEMMA HeapNext ==
  ASSUME NEW c, Callers = {c}, NoWrap, HeapInv(c), [Next]_vars
  PROVE  HeapInv(c)'
<1>1. PICK L \in SUBSET Addrs : Shape(c, L)
  BY DEF HeapInv
<1>2. TypeOK
  BY DEF HeapInv
<1>3. SUFFICES TypeOK' /\ \E M \in SUBSET Addrs : Shape(c, M)'
  BY DEF HeapInv, Addrs
<1>4. CASE \E n \in Sizes : Kmalloc(c, n)
  BY <1>1, <1>2, <1>4, KmallocStep
<1>5. CASE Fit(c)
  BY <1>1, <1>2, <1>5, FitStep
<1>6. CASE Split(c)
  BY <1>1, <1>2, <1>6, SplitStep
<1>7. CASE Link(c)
  BY <1>1, <1>2, <1>7, LinkStep
<1>8. CASE Take(c)
  BY <1>1, <1>2, <1>8, TakeStep
<1>9. CASE \E p \in Addrs : Kfree(c, p)
  BY <1>1, <1>2, <1>9, KfreeStep
<1>10. CASE Mark(c)
  BY <1>1, <1>2, <1>10, MarkStep
<1>11. CASE Right(c)
  BY <1>1, <1>2, <1>11, RightStep
<1>12. CASE Unlink(c)
  BY <1>1, <1>2, <1>12, UnlinkStep
<1>13. CASE WalkOn(c)
  BY <1>1, <1>2, <1>13, WalkStep
<1>14. CASE Left(c)
  BY <1>1, <1>2, <1>14, LeftStep
<1>15. CASE Join(c)
  BY <1>1, <1>2, <1>15, JoinStep
<1>16. CASE UNCHANGED vars
  <2>1. TypeOK'
    BY <1>2, <1>16 DEF TypeOK, vars, headers
  <2>2. /\ Tiling(L, size) /\ Chained(c, L) /\ Used(c, L) /\ Coalesced(c, L)
        /\ Searching(c, L) /\ Freeing(c, L)
    BY <1>1 DEF Shape
  <2>3. Tiling(L, size)' /\ Chained(c, L)' /\ Used(c, L)' /\ Coalesced(c, L)'
    BY <1>16, <2>2 DEF Tiling, Chained, Mended, Used, InUse, Coalesced, Merging,
                       End, After, vars, headers
  <2>4. Searching(c, L)' /\ Freeing(c, L)'
    BY <1>16, <2>2 DEF Searching, NoneBefore, Fits, Freeing, InUse, End, vars, headers
  <2>5. QED
    BY <2>1, <2>3, <2>4 DEF Shape
<1>17. QED
  BY <1>4, <1>5, <1>6, <1>7, <1>8, <1>9, <1>10, <1>11, <1>12, <1>13, <1>14,
     <1>15, <1>16 DEF Next, Malloc, Free

LEMMA HeapInvariant ==
  ASSUME NEW c, Callers = {c}, NoWrap
  PROVE  Spec => []HeapInv(c)
<1>1. Init => HeapInv(c)
  BY HeapInit
<1>2. HeapInv(c) /\ [Next]_vars => HeapInv(c)'
  BY HeapNext
<1>3. QED
  BY <1>1, <1>2, PTL DEF Spec

-----------------------------------------------------------------------------
(* Every field of every header, and every variable of a call, stays in its  *)
(* range: kheap.c never follows a link out of the heap (43-60, 82-84) and   *)
(* never computes a size the heap has no room for (48, 75, 86).             *)
THEOREM TypeCorrect ==
  ASSUME NEW c, Callers = {c}, NoWrap
  PROVE  Spec => []TypeOK
<1>1. HeapInv(c) => TypeOK
  BY DEF HeapInv
<1>2. QED
  BY <1>1, HeapInvariant, PTL

(* kmalloc never hands out memory twice, whatever was asked and freed       *)
(* before: what its callers have lies inside the heap and apart, headers    *)
(* included (34-64).                                                        *)
THEOREM BlocksApart ==
  ASSUME NEW c, Callers = {c}, NoWrap
  PROVE  Spec => []Disjoint
<1>1. HeapInv(c) => Disjoint
  <2>1. SUFFICES ASSUME TypeOK, NEW L \in SUBSET Addrs, Shape(c, L) PROVE Disjoint
    BY DEF HeapInv
  <2>2. Tiling(L, size) /\ Used(c, L) /\ size \in Sized /\ HeapBytes \in Nat
    BY <2>1, Fields, Bounds DEF Shape
  <2>3. ASSUME NEW p \in InUse
        PROVE  /\ p - Header \in L /\ p \in Nat /\ p + given[p] \in Nat
               /\ p + given[p] <= End(size, p - Header)
               /\ End(size, p - Header) <= HeapBytes
               /\ End(size, p - Header) \in Nat
    <3>1. /\ p - Header \in L /\ given[p] <= size[p - Header]
          /\ p \in Addrs /\ p \in Nat
      BY <2>2, Bounds DEF Used, InUse
    <3>2. given[p] \in Nat
      <4>1. given[p] \in Sizes \cup {0}
        BY <2>1, <3>1 DEF TypeOK
      <4>2. \A n \in Sizes : n \in Nat
        BY HeapAssumption
      <4>3. QED
        BY <4>1, <4>2
    <3>3. PICK b \in L : b = p - Header
      BY <3>1
    <3>4. /\ End(size, b) = b + Header + size[b] /\ size[b] \in Nat
          /\ End(size, b) \in Nat /\ End(size, b) <= HeapBytes
      BY <2>2, Ends, Successor
    <3>5. QED
      BY <3>1, <3>2, <3>3, <3>4 DEF Header
  <2>4. ASSUME NEW p \in InUse, NEW q \in InUse, p < q
        PROVE  p + given[p] <= q - Header
    <3>1. p - Header < q - Header
      BY <2>3, <2>4 DEF Header
    <3>2. End(size, p - Header) <= q - Header
      BY <2>2, <2>3, <3>1 DEF Tiling
    <3>3. QED
      BY <2>3, <3>2 DEF Header
  <2>5. ASSUME NEW p \in InUse PROVE p + given[p] <= HeapBytes
    BY <2>2, <2>3
  <2>6. QED
    BY <2>4, <2>5 DEF Disjoint
<1>2. QED
  BY <1>1, HeapInvariant, PTL

(* Between calls the list covers the heap without a hole, and no two free   *)
(* blocks are left side by side: every split of kmalloc (46-54) is undone   *)
(* by the merges of kfree (73-89), wherever the block lies on the list.     *)
THEOREM HeapTiled ==
  ASSUME NEW c, Callers = {c}, NoWrap
  PROVE  Spec => []Tiled
<1>1. HeapInv(c) => Tiled
  <2>1. SUFFICES ASSUME TypeOK, NEW L \in SUBSET Addrs, Shape(c, L), pc[c] = "idle"
                 PROVE  Tiled
    BY DEF HeapInv, Tiled, Quiet
  <2>2. /\ Tiling(L, size) /\ Chained(c, L) /\ Used(c, L) /\ Coalesced(c, L)
        /\ size \in Sized /\ NULL \notin L /\ HeapBytes \in Nat
        /\ \A a \in L : a \in Nat
    BY <2>1, Fields, Bounds DEF Shape
  <2>3. \A b \in L : next[b] = After(size, b)
    BY <2>1, <2>2 DEF Chained, Mended
  <2>4. Listed = L
    BY <2>2, <2>3, ListedBlocks
  <2>5. ASSUME NEW b \in L
        PROVE  /\ b + Header + size[b] = IF next[b] = NULL THEN HeapBytes ELSE next[b]
               /\ free[b] <=> b + Header \notin InUse
               /\ free[b] /\ next[b] # NULL => ~free[next[b]]
    <3>1. /\ After(size, b) = IF End(size, b) \in L THEN End(size, b) ELSE NULL
          /\ End(size, b) \in L <=> End(size, b) # HeapBytes
          /\ End(size, b) = b + Header + size[b]
      BY <2>2, Successor, Ends
    <3>2. free[b] <=> b + Header \notin InUse
      BY <2>1, <2>2 DEF Used
    <3>3. ~(End(size, b) \in L /\ free[b] /\ free[End(size, b)])
      BY <2>1, <2>2 DEF Coalesced, Merging
    <3>4. b + Header + size[b] = IF next[b] = NULL THEN HeapBytes ELSE next[b]
      BY <2>2, <2>3, <3>1
    <3>5. free[b] /\ next[b] # NULL => ~free[next[b]]
      BY <2>2, <2>3, <3>1, <3>3
    <3>6. QED
      BY <3>2, <3>4, <3>5
  <2>6. \A p \in InUse : p - Header \in L
    BY <2>2 DEF Used
  <2>7. QED
    BY <2>4, <2>5, <2>6 DEF Tiled
<1>2. QED
  BY <1>1, HeapInvariant, PTL

-----------------------------------------------------------------------------
(* The heap as Allocator sees it: the blocks in use and the gaps they       *)
(* leave.                                                                   *)
Block(b) == [lo |-> b, hi |-> End(size, b)]

LEMMA TakenAre ==
  ASSUME NEW c, Callers = {c}, TypeOK, NEW L \in SUBSET Addrs, Tiling(L, size),
         Used(c, L), pc[c] # "mark"
  PROVE  Taken = {Block(b) : b \in {x \in L : ~free[x]}}
<1>1. /\ \A x \in L : free[x] <=> x + Header \notin InUse
      /\ \A p \in InUse : p - Header \in L
  BY DEF Used
<1>2. ASSUME NEW p \in InUse
      PROVE  /\ p - Header \in L /\ ~free[p - Header]
             /\ Block(p - Header) = [lo |-> p - Header, hi |-> p + size[p - Header]]
  <2>1. PICK b \in L : b = p - Header
    BY <1>1
  <2>2. /\ p \in Nat /\ b \in Addrs /\ b \in Nat /\ p = b + Header /\ size \in Sized
    BY <2>1, Bounds, Fields DEF InUse, Header
  <2>3. End(size, b) = p + size[b]
    BY <2>2, Ends
  <2>4. QED
    BY <1>1, <2>1, <2>2, <2>3 DEF Block
<1>3. ASSUME NEW b \in L, ~free[b]
      PROVE  \E p \in InUse : b = p - Header
  <2>1. b + Header \in InUse /\ b \in Nat
    BY <1>1, <1>3, Bounds
  <2>2. b = (b + Header) - Header
    BY <2>1 DEF Header
  <2>3. QED
    BY <2>1, <2>2
<1>4. ASSUME NEW t \in Taken
      PROVE  \E b \in L : ~free[b] /\ t = Block(b)
  <2>1. PICK p \in InUse : t = [lo |-> p - Header, hi |-> p + size[p - Header]]
    BY DEF Taken
  <2>2. QED
    BY <1>2, <2>1
<1>5. ASSUME NEW b \in L, ~free[b]
      PROVE  Block(b) \in Taken
  <2>1. PICK p \in InUse : b = p - Header
    BY <1>3, <1>5
  <2>2. Block(b) = [lo |-> p - Header, hi |-> p + size[p - Header]]
    BY <1>2, <2>1
  <2>3. QED
    BY <2>2 DEF Taken
<1>6. QED
  BY <1>4, <1>5

\* A gap starts with a free block and ends with it, if no other follows.
LEMMA GapOf ==
  ASSUME NEW c, Callers = {c}, TypeOK, NEW L \in SUBSET Addrs, Tiling(L, size),
         Used(c, L), pc[c] # "mark", NEW g \in Abstract!Gaps
  PROVE  /\ g.lo \in L /\ free[g.lo] /\ g.hi \in Nat
         /\ \/ g.hi = End(size, g.lo)
            \/ End(size, g.lo) \in L /\ free[End(size, g.lo)]
<1>1. /\ 0 \in L /\ HeapBytes \in Nat /\ size \in Sized
      /\ \A x \in L : x \in Addrs /\ x \in Nat /\ x < HeapBytes
      /\ \A x \in L : End(size, x) \in L \cup {HeapBytes}
  BY Bounds, Fields DEF Tiling
<1>2. /\ g.lo \in {0} \cup {t.hi : t \in Taken}
      /\ g.hi \in {HeapBytes} \cup {t.lo : t \in Taken}
      /\ g.lo < g.hi
      /\ \A t \in Taken : g.hi <= t.lo \/ t.hi <= g.lo
  BY DEF Abstract!Gaps, Abstract!Apart
<1>3. /\ Taken = {Block(b) : b \in {x \in L : ~free[x]}}
      /\ \A b : Block(b).lo = b /\ Block(b).hi = End(size, b)
  BY TakenAre DEF Block
<1>4. g.lo \in L \cup {HeapBytes} /\ g.hi \in L \cup {HeapBytes}
  BY <1>1, <1>2, <1>3
<1>5. g.hi \in Nat /\ g.hi <= HeapBytes /\ g.lo \in L
  BY <1>1, <1>2, <1>4
<1>6. \A x \in L : ~free[x] => g.hi <= x \/ End(size, x) <= g.lo
  BY <1>2, <1>3
<1>7. PICK b \in L : b = g.lo
  BY <1>5
<1>8. /\ End(size, b) \in Nat /\ End(size, b) > b /\ End(size, b) <= HeapBytes
      /\ \A x \in L : x <= b \/ End(size, b) <= x
      /\ End(size, b) \in L <=> End(size, b) # HeapBytes
  BY <1>1, Successor DEF Header, Least
<1>9. free[b]
  BY <1>1, <1>2, <1>5, <1>6, <1>7, <1>8
<1>10. End(size, b) <= g.hi
  BY <1>1, <1>2, <1>4, <1>7, <1>8
<1>11. ASSUME g.hi # End(size, b)
       PROVE  End(size, b) \in L /\ free[End(size, b)]
  <2>1. PICK e \in L : e = End(size, b)
    BY <1>5, <1>8, <1>10, <1>11
  <2>2. End(size, e) > e /\ End(size, e) \in Nat
    BY <1>1, Successor DEF Header, Least
  <2>3. ~(g.hi <= e) /\ ~(End(size, e) <= g.lo)
    BY <1>1, <1>5, <1>7, <1>8, <1>10, <1>11, <2>1, <2>2
  <2>4. QED
    BY <1>6, <2>1, <2>3
<1>12. QED
  BY <1>5, <1>7, <1>9, <1>11

\* A block too small, and with no free one behind it, is in no gap that fits.
LEMMA GapTooSmall ==
  ASSUME NEW c, Callers = {c}, NoWrap, TypeOK, NEW L \in SUBSET Addrs,
         Tiling(L, size), Used(c, L), pc[c] # "mark", NEW n \in Sizes \ {0},
         NEW g \in Abstract!Fitting(n), ~Fits(g.lo, Rounded(n))
  PROVE  g.lo \in L /\ free[g.lo] /\ End(size, g.lo) \in L /\ free[End(size, g.lo)]
<1>1. g \in Abstract!Gaps /\ g.hi - g.lo >= Rounded(n) + Header
  BY DEF Abstract!Fitting
<1>2. /\ g.lo \in L /\ free[g.lo] /\ g.hi \in Nat
      /\ \/ g.hi = End(size, g.lo)
         \/ End(size, g.lo) \in L /\ free[End(size, g.lo)]
  BY <1>1, GapOf
<1>3. PICK b \in L : b = g.lo
  BY <1>2
<1>4. /\ b \in Nat /\ End(size, b) = b + Header + size[b] /\ size[b] \in Nat
      /\ Rounded(n) \in Nat
  BY Bounds, Fields, Ends, RoundedUp
<1>5. size[b] < Rounded(n)
  BY <1>2, <1>3, <1>4 DEF Fits
<1>6. g.hi # End(size, b)
  BY <1>1, <1>2, <1>3, <1>4, <1>5 DEF Header
<1>7. QED
  BY <1>2, <1>3, <1>6

\* While kmalloc searches, only the block it has found is followed by a free
\* one, and what is before it does not do.
LEMMA FirstGap ==
  ASSUME NEW c, Callers = {c}, NoWrap, TypeOK, NEW L \in SUBSET Addrs, Shape(c, L),
         pc[c] = "take", NEW g \in Abstract!Fitting(want[c])
  PROVE  curr[c] <= g.lo
<1>1. /\ Tiling(L, size) /\ Used(c, L) /\ Coalesced(c, L) /\ want[c] \in Sizes \ {0}
      /\ arg[c] = Rounded(want[c]) /\ NoneBefore(c, L) /\ curr[c] \in L
  BY DEF Shape, Searching
<1>2. SUFFICES ASSUME ~(curr[c] <= g.lo) PROVE FALSE
  OBVIOUS
<1>3. g.lo \in L
  BY <1>1, GapOf DEF Abstract!Fitting
<1>4. g.lo < curr[c]
  BY <1>1, <1>2, <1>3, Bounds
<1>5. ~Fits(g.lo, Rounded(want[c]))
  BY <1>1, <1>3, <1>4 DEF NoneBefore
<1>6. free[g.lo] /\ End(size, g.lo) \in L /\ free[End(size, g.lo)]
  BY <1>1, <1>5, GapTooSmall
<1>7. g.lo = curr[c]
  BY <1>1, <1>3, <1>6 DEF Coalesced, Merging
<1>8. QED
  BY <1>1, <1>4, <1>7, Bounds

\* The gap of the block that take gives out, the free one behind it included.
LEMMA TakenGap ==
  ASSUME NEW c, Callers = {c}, NoWrap, TypeOK, NEW L \in SUBSET Addrs, Shape(c, L),
         pc[c] = "take", NEW b \in L, b = curr[c], NEW h,
         h = IF End(size, b) \in L /\ free[End(size, b)]
             THEN End(size, End(size, b)) ELSE End(size, b)
  PROVE  [lo |-> b, hi |-> h] \in Abstract!Gaps /\ h \in Nat /\ h >= End(size, b)
<1>1. /\ Tiling(L, size) /\ Used(c, L) /\ Coalesced(c, L) /\ free[b]
      /\ size \in Sized /\ HeapBytes \in Nat
      /\ \A x \in L : x \in Addrs /\ x \in Nat /\ x < HeapBytes
  BY Bounds, Fields DEF Shape, Searching, Fits
<1>2. /\ Taken = {Block(a) : a \in {x \in L : ~free[x]}}
      /\ \A a : Block(a).lo = a /\ Block(a).hi = End(size, a)
  BY <1>1, TakenAre DEF Block
<1>3. \A a \in L : /\ End(size, a) \in Nat /\ End(size, a) > a
                   /\ End(size, a) <= HeapBytes
                   /\ \A x \in L : x <= a \/ End(size, a) <= x
                   /\ End(size, a) \in L <=> End(size, a) # HeapBytes
  BY <1>1, Successor DEF Header, Least
<1>4. \A a \in L \ {b} : ~(End(size, a) \in L /\ free[a] /\ free[End(size, a)])
  BY <1>1 DEF Coalesced, Merging
<1>5. b \in {0} \cup {t.hi : t \in Taken}
  <2>1. CASE b # 0
    <3>1. PICK a \in L : a < b /\ End(size, a) = b
      BY <1>1, <2>1, Predecessor
    <3>2. ~free[a]
      BY <1>1, <1>4, <3>1
    <3>3. QED
      BY <1>2, <3>1, <3>2
  <2>2. QED
    BY <2>1
<1>6. /\ h \in {HeapBytes} \cup {t.lo : t \in Taken} /\ h \in Nat
      /\ h >= End(size, b)
      /\ \A x \in L : ~free[x] => h <= x \/ End(size, x) <= b
  <2>1. PICK e : e = End(size, b)
    OBVIOUS
  <2>2. CASE e \in L /\ free[e]
    <3>1. h = End(size, e) /\ e > b /\ e \in Nat
      BY <1>3, <2>1, <2>2
    <3>2. h \in L => ~free[h]
      BY <1>1, <1>4, <2>2, <3>1
    <3>3. ASSUME NEW x \in L, ~free[x]
          PROVE  h <= x \/ End(size, x) <= b
      <4>1. x <= e \/ h <= x
        BY <1>3, <2>2, <3>1
      <4>2. x <= b \/ e <= x
        BY <1>3, <2>1
      <4>3. x # e /\ x # b
        BY <1>1, <2>2, <3>3
      <4>4. b <= x \/ End(size, x) <= b
        BY <1>3
      <4>5. QED
        BY <1>1, <3>1, <4>1, <4>2, <4>3, <4>4
    <3>4. h \in {HeapBytes} \cup {t.lo : t \in Taken}
      BY <1>2, <1>3, <2>2, <3>1, <3>2
    <3>5. h \in Nat /\ h >= e
      BY <1>3, <2>2, <3>1
    <3>6. QED
      BY <2>1, <3>3, <3>4, <3>5
  <2>3. CASE ~(e \in L /\ free[e])
    <3>1. h = e
      BY <2>1, <2>3
    <3>2. ASSUME NEW x \in L, ~free[x]
          PROVE  h <= x \/ End(size, x) <= b
      <4>1. x <= b \/ e <= x
        BY <1>3, <2>1
      <4>2. x # b
        BY <1>1, <3>2
      <4>3. b <= x \/ End(size, x) <= b
        BY <1>3
      <4>4. QED
        BY <1>1, <3>1, <4>1, <4>2, <4>3
    <3>3. h \in {HeapBytes} \cup {t.lo : t \in Taken}
      BY <1>2, <1>3, <2>1, <2>3, <3>1
    <3>4. h \in Nat /\ h >= e
      BY <1>3, <2>1, <3>1
    <3>5. QED
      BY <2>1, <3>2, <3>3, <3>4
  <2>4. QED
    BY <2>2, <2>3
<1>7. b < h
  BY <1>1, <1>3, <1>6
<1>8. \A t \in Taken : h <= t.lo \/ t.hi <= b
  BY <1>2, <1>6
<1>9. QED
  <2>1. PICK g : g = [lo |-> b, hi |-> h]
    OBVIOUS
  <2>2. g.lo = b /\ g.hi = h
    BY <2>1
  <2>3. g \in Abstract!Gaps
    BY <1>5, <1>6, <1>7, <1>8, <2>1, <2>2 DEF Abstract!Gaps, Abstract!Apart
  <2>4. QED
    BY <1>6, <2>1, <2>3

LEMMA TakeAllocates ==
  ASSUME NEW c, Callers = {c}, NoWrap, TypeOK, NEW L \in SUBSET Addrs, Shape(c, L),
         Take(c)
  PROVE  want[c] \in Sizes /\ Abstract!Allocate(c, want[c])
<1>1. /\ pc[c] = "take" /\ size' = size /\ size \in Sized
      /\ Tiling(L, size) /\ want[c] \in Sizes \ {0} /\ arg[c] = Rounded(want[c])
      /\ curr[c] \in L /\ Fits(curr[c], arg[c]) /\ arg[c] \in Nat
      /\ IF End(size, curr[c]) \in L /\ free[End(size, curr[c])]
         THEN size[curr[c]] = arg[c]
         ELSE size[curr[c]] < arg[c] + Header + Least
  BY Fields DEF Take, Shape, Searching
<1>2. PICK b \in L, n \in Sizes \ {0}, m \in Nat :
        b = curr[c] /\ n = want[c] /\ m = arg[c] /\ m = Rounded(n)
  BY <1>1
<1>3. PICK h : h = IF End(size, b) \in L /\ free[End(size, b)]
                   THEN End(size, End(size, b)) ELSE End(size, b)
  OBVIOUS
<1>4. [lo |-> b, hi |-> h] \in Abstract!Gaps /\ h \in Nat /\ h >= End(size, b)
  BY <1>1, <1>2, <1>3, TakenGap
<1>5. PICK g : /\ g = [lo |-> b, hi |-> h]
               /\ g.lo = b /\ g.hi = h
  <2>1. [lo |-> b, hi |-> h].lo = b /\ [lo |-> b, hi |-> h].hi = h
    OBVIOUS
  <2>2. QED
    BY <2>1
<1>6. /\ b \in Addrs /\ b \in Nat /\ size[b] \in Nat /\ size[b] >= m
      /\ End(size, b) = b + Header + size[b] /\ End(size, b) \in Nat
      /\ b + Header \in Addrs
  BY <1>1, <1>2, Bounds, Ends, Successor DEF Fits
<1>7. g \in Abstract!Fitting(n)
  <2>1. g.hi - g.lo >= m + Header
    BY <1>2, <1>4, <1>5, <1>6 DEF Header
  <2>2. QED
    BY <1>2, <1>4, <1>5, <2>1 DEF Abstract!Fitting
<1>8. \A f \in Abstract!Fitting(n) : g.lo <= f.lo
  BY <1>1, <1>2, <1>5, FirstGap
<1>9. Abstract!Cut(g, n) = Block(b)
  <2>1. PICK e : e = g.lo + Header + m
    OBVIOUS
  <2>2. Abstract!Cut(g, n) =
          [lo |-> g.lo, hi |-> IF g.hi - e >= Header + Least THEN e ELSE g.hi]
    BY <1>2, <2>1 DEF Abstract!Cut
  <2>3. (IF g.hi - e >= Header + Least THEN e ELSE g.hi) = End(size, b)
    <3>1. CASE End(size, b) \in L /\ free[End(size, b)]
      <4>1. size[b] = m /\ e = End(size, b)
        BY <1>1, <1>2, <1>5, <1>6, <2>1, <3>1
      <4>2. h >= End(size, b) + Header + Least
        BY <1>1, <1>3, <3>1, Successor
      <4>3. g.hi - e >= Header + Least
        BY <1>4, <1>5, <1>6, <4>1, <4>2 DEF Header, Least
      <4>4. QED
        BY <4>1, <4>3
    <3>2. CASE ~(End(size, b) \in L /\ free[End(size, b)])
      <4>1. size[b] < m + Header + Least /\ h = End(size, b)
        BY <1>1, <1>2, <1>3, <3>2
      <4>2. ~(g.hi - e >= Header + Least)
        BY <1>2, <1>5, <1>6, <2>1, <4>1 DEF Header, Least
      <4>3. QED
        BY <1>5, <4>1, <4>2
    <3>3. QED
      BY <3>1, <3>2
  <2>4. QED
    BY <1>5, <2>2, <2>3 DEF Block
<1>10. /\ given' = [given EXCEPT ![b + Header] = n]
       /\ answer' = [answer EXCEPT ![c] = [asked |-> n, got |-> b + Header]]
  BY <1>2 DEF Take, Return
<1>11. Taken' = Taken \cup {Block(b)}
  <2>1. PICK p : p = b + Header
    OBVIOUS
  <2>2. /\ given'[p] = n /\ \A q \in Addrs \ {p} : given'[q] = given[q]
        /\ p \in Addrs
    BY <1>6, <1>10, <2>1, Fields
  <2>3. InUse' = InUse \cup {p}
    BY <1>2, <2>2 DEF InUse
  <2>4. p - Header = b /\ p + size[b] = End(size, b)
    BY <1>6, <2>1 DEF Header
  <2>5. QED
    BY <1>1, <2>3, <2>4 DEF Taken, Block
<1>12. n \in Sizes /\ n # 0
  OBVIOUS
<1>13. Abstract!Answer(c, n, g.lo + Header)
  BY <1>5, <1>10 DEF Abstract!Answer
<1>14. Abstract!Allocate(c, n)
  BY <1>7, <1>8, <1>9, <1>11, <1>12, <1>13 DEF Abstract!Allocate
<1>15. QED
  BY <1>2, <1>14

LEMMA FitRefuses ==
  ASSUME NEW c, Callers = {c}, NoWrap, TypeOK, NEW L \in SUBSET Addrs, Shape(c, L),
         Fit(c)
  PROVE  \/ want[c] \in Sizes /\ Abstract!Refuse(c, want[c])
         \/ UNCHANGED Abstract!vars
<1>1. /\ pc[c] = "fit" /\ UNCHANGED <<headers, given>> /\ NULL \notin L
      /\ Tiling(L, size) /\ Used(c, L) /\ Coalesced(c, L)
      /\ want[c] \in Sizes \ {0} /\ arg[c] = Rounded(want[c])
      /\ \/ curr[c] = NULL /\ \A b \in L : ~Fits(b, arg[c])
         \/ curr[c] \in L
  BY Bounds DEF Fit, Shape, Searching
<1>2. Taken' = Taken
  BY <1>1 DEF Taken, InUse, headers
<1>3. CASE curr[c] = NULL
  <2>1. answer' = [answer EXCEPT ![c] = [asked |-> want[c], got |-> NULL]]
    BY <1>3 DEF Fit, Return
  <2>2. ASSUME NEW g \in Abstract!Fitting(want[c])
        PROVE  FALSE
    <3>1. g.lo \in L
      BY <1>1, GapOf DEF Abstract!Fitting
    <3>2. ~Fits(g.lo, Rounded(want[c]))
      BY <1>1, <1>3, <3>1
    <3>3. free[g.lo] /\ End(size, g.lo) \in L /\ free[End(size, g.lo)]
      BY <1>1, <3>2, GapTooSmall
    <3>4. QED
      BY <1>1, <3>1, <3>3 DEF Coalesced, Merging
  <2>3. Abstract!Fitting(want[c]) = {}
    BY <2>2
  <2>4. QED
    BY <1>1, <1>2, <2>1, <2>3 DEF Abstract!Refuse, Abstract!Answer
<1>4. CASE curr[c] # NULL
  BY <1>2, <1>4 DEF Fit, Abstract!vars
<1>5. QED
  BY <1>3, <1>4

LEMMA KmallocRefuses ==
  ASSUME NEW c, NEW n \in Sizes, Kmalloc(c, n)
  PROVE  Abstract!Refuse(c, n) \/ UNCHANGED Abstract!vars
<1>1. Taken' = Taken
  BY DEF Kmalloc, Taken, InUse, headers
<1>2. CASE n = 0
  BY <1>1, <1>2 DEF Kmalloc, Return, Abstract!Refuse, Abstract!Answer
<1>3. CASE n # 0
  BY <1>1, <1>3 DEF Kmalloc, Abstract!vars
<1>4. QED
  BY <1>2, <1>3

LEMMA KfreeReleases ==
  ASSUME TypeOK, NEW c, NEW p \in Addrs, Kfree(c, p)
  PROVE  \E b \in Taken : Abstract!Release(b)
<1>1. /\ p \in InUse /\ size' = size /\ answer' = answer
      /\ given' = [given EXCEPT ![p] = 0] /\ given \in [Addrs -> Sizes \cup {0}]
  BY DEF Kfree, InUse, headers, TypeOK
<1>2. InUse' = InUse \ {p}
  BY <1>1 DEF InUse
<1>3. PICK b : b = [lo |-> p - Header, hi |-> p + size[p - Header]]
  OBVIOUS
<1>4. \A q \in InUse : q - Header = p - Header => q = p
  BY Bounds DEF InUse, Header
<1>5. b \in Taken /\ b.lo = p - Header
  BY <1>1, <1>3 DEF Taken
<1>6. Taken' = Taken \ {b}
  <2>1. ASSUME NEW q \in InUse, [lo |-> q - Header, hi |-> q + size[q - Header]] = b
        PROVE  q = p
    BY <1>4, <1>5, <2>1
  <2>2. Taken' = {[lo |-> q - Header, hi |-> q + size[q - Header]] : q \in InUse \ {p}}
    BY <1>1, <1>2 DEF Taken
  <2>3. QED
    BY <1>3, <2>1, <2>2 DEF Taken
<1>7. Abstract!Release(b)
  BY <1>1, <1>6 DEF Abstract!Release
<1>8. QED
  BY <1>5, <1>7

\* A step that resizes only free blocks is none of the callers' business.
LEMMA SameTaken ==
  ASSUME NEW c, NEW L \in SUBSET Addrs, Used(c, L), UNCHANGED <<given, answer>>,
         \A b \in L : ~free[b] => size'[b] = size[b]
  PROVE  UNCHANGED Abstract!vars
<1>1. InUse' = InUse
  BY DEF InUse
<1>2. ASSUME NEW p \in InUse
      PROVE  size'[p - Header] = size[p - Header]
  <2>1. p \in Nat /\ (p - Header) + Header = p
    BY Bounds DEF InUse, Header
  <2>2. p - Header \in L /\ ~free[p - Header]
    BY <2>1 DEF Used
  <2>3. QED
    BY <2>2
<1>3. Taken' = Taken
  BY <1>1, <1>2 DEF Taken
<1>4. QED
  BY <1>3 DEF Abstract!vars

LEMMA SplitHidden ==
  ASSUME NEW c, Callers = {c}, NoWrap, TypeOK, NEW L \in SUBSET Addrs, Shape(c, L),
         Split(c)
  PROVE  UNCHANGED Abstract!vars
<1>1. /\ pc[c] = "split" /\ UNCHANGED <<given, answer>>
      /\ Tiling(L, size) /\ Used(c, L) /\ size \in Sized /\ arg[c] \in Nat
      /\ curr[c] \in L /\ Fits(curr[c], arg[c])
  BY Fields DEF Split, Shape, Searching
<1>2. PICK b \in L, n \in Nat : b = curr[c] /\ n = arg[c] /\ free[b] /\ size[b] >= n
  BY <1>1 DEF Fits
<1>3. CASE Splits(b, n)
  <2>1. PICK r : r = b + Header + n
    OBVIOUS
  <2>2. size' = [size EXCEPT ![r] = size[b] - n - Header, ![b] = n]
    BY <1>2, <1>3, <2>1 DEF Split
  <2>3. size[b] >= n + Header + Least
    BY <1>1, <1>2, <1>3, Cuttable
  <2>4. /\ b \in Nat /\ size[b] \in Nat /\ End(size, b) = b + Header + size[b]
        /\ \A a \in L : a \in Nat /\ (a <= b \/ End(size, b) <= a)
    BY <1>1, Ends, Successor, Bounds
  <2>5. r > b /\ r < End(size, b) /\ r \in Nat
    BY <1>2, <2>1, <2>3, <2>4 DEF Header, Least
  <2>6. r \notin L
    <3>1. SUFFICES ASSUME r \in L PROVE FALSE
      OBVIOUS
    <3>2. End(size, b) \in Nat
      BY <2>4 DEF Header
    <3>3. r <= b \/ End(size, b) <= r
      BY <2>4, <3>1
    <3>4. QED
      BY <2>4, <2>5, <3>2, <3>3
  <2>7. ASSUME NEW a \in L, ~free[a]
        PROVE  size'[a] = size[a]
    BY <1>1, <1>2, <2>2, <2>6, <2>7 DEF Sized
  <2>8. QED
    BY <1>1, <2>7, SameTaken
<1>4. CASE ~Splits(b, n)
  BY <1>1, <1>2, <1>4, SameTaken DEF Split, headers
<1>5. QED
  BY <1>3, <1>4

LEMMA RightHidden ==
  ASSUME NEW c, Callers = {c}, TypeOK, NEW L \in SUBSET Addrs, Shape(c, L), Right(c)
  PROVE  UNCHANGED Abstract!vars
<1>1. /\ pc[c] = "right" /\ UNCHANGED <<given, answer>> /\ size \in Sized
      /\ Used(c, L) /\ free[arg[c]]
  BY Fields DEF Right, Shape, Freeing
<1>2. ASSUME NEW a \in L, ~free[a]
      PROVE  size'[a] = size[a]
  BY <1>1, <1>2 DEF Right, Absorbs, Sized
<1>3. QED
  BY <1>1, <1>2, SameTaken

LEMMA LeftHidden ==
  ASSUME NEW c, Callers = {c}, TypeOK, NEW L \in SUBSET Addrs, Shape(c, L), Left(c)
  PROVE  UNCHANGED Abstract!vars
<1>1. UNCHANGED <<given, answer>> /\ size \in Sized /\ Used(c, L)
  BY Fields DEF Left, Shape
<1>2. ASSUME NEW a \in L, ~free[a]
      PROVE  size'[a] = size[a]
  BY <1>1, <1>2 DEF Left, Absorbs, Sized
<1>3. QED
  BY <1>1, <1>2, SameTaken

LEMMA FirstFitNext ==
  ASSUME NEW c, Callers = {c}, NoWrap, HeapInv(c), [Next]_vars
  PROVE  [Abstract!Next]_(Abstract!vars)
<1>1. PICK L \in SUBSET Addrs : Shape(c, L)
  BY DEF HeapInv
<1>2. TypeOK
  BY DEF HeapInv
<1>3. c \in Callers /\ Used(c, L)
  BY <1>1 DEF Shape
<1>4. CASE \E n \in Sizes : Kmalloc(c, n)
  BY <1>3, <1>4, KmallocRefuses DEF Abstract!Next
<1>5. CASE Fit(c)
  BY <1>1, <1>2, <1>3, <1>5, FitRefuses DEF Abstract!Next
<1>6. CASE Split(c)
  BY <1>1, <1>2, <1>6, SplitHidden
<1>7. CASE Link(c)
  BY <1>3, <1>7, SameTaken DEF Link
<1>8. CASE Take(c)
  BY <1>1, <1>2, <1>3, <1>8, TakeAllocates DEF Abstract!Next
<1>9. CASE \E p \in Addrs : Kfree(c, p)
  BY <1>2, <1>9, KfreeReleases DEF Abstract!Next
<1>10. CASE Mark(c)
  BY <1>3, <1>10, SameTaken DEF Mark
<1>11. CASE Right(c)
  BY <1>1, <1>2, <1>11, RightHidden
<1>12. CASE Unlink(c)
  BY <1>3, <1>12, SameTaken DEF Unlink
<1>13. CASE WalkOn(c)
  BY <1>3, <1>13, SameTaken DEF WalkOn, headers
<1>14. CASE Left(c)
  BY <1>1, <1>2, <1>14, LeftHidden
<1>15. CASE Join(c)
  BY <1>3, <1>15, SameTaken DEF Join
<1>16. CASE UNCHANGED vars
  BY <1>3, <1>16, SameTaken DEF vars, headers
<1>17. QED
  BY <1>4, <1>5, <1>6, <1>7, <1>8, <1>9, <1>10, <1>11, <1>12, <1>13, <1>14,
     <1>15, <1>16 DEF Next, Malloc, Free

(* kheap.c is a first-fit allocator: whatever it does with headers and      *)
(* links, each kmalloc takes the first gap that is large enough, and is     *)
(* refused only when there is none; each kfree gives a block back.          *)
THEOREM FirstFit ==
  ASSUME NEW c, Callers = {c}, NoWrap
  PROVE  Spec => ImplementsAllocator
<1>1. Init => Abstract!Init
  <2>1. ASSUME Init PROVE Taken = {}
    BY <2>1 DEF Init, InUse, Taken
  <2>2. QED
    BY <2>1 DEF Init, Abstract!Init
<1>2. HeapInv(c) /\ [Next]_vars => [Abstract!Next]_(Abstract!vars)
  BY FirstFitNext
<1>3. QED
  BY <1>1, <1>2, HeapInvariant, PTL DEF Spec, ImplementsAllocator, Abstract!Spec
=============================================================================
